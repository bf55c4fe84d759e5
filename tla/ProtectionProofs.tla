-------------------------- MODULE ProtectionProofs --------------------------
(***************************************************************************)
(* What TLAPS proves of Protection, on either system, for every set of     *)
(* relays and of IPC connections and every bound.                          *)
(***************************************************************************)
EXTENDS Protection, TLAPS

Program == [enabled : BOOLEAN, v6 : BOOLEAN, captive : BOOLEAN,
            mgr : Objects \union {"none"}, tun : BOOLEAN, route : BOOLEAN,
            relay : Relays \union {None}]
Host == [rules : Rules, left : SUBSET Rules, tun : BOOLEAN, routes : Relays \union {None},
         resolver : {"original", "local"}]
Firewalls == [of : [Objects -> Rules], armed : BOOLEAN, altered : BOOLEAN]
Main == [at : Stages, relay : Relays \union {None}, up : BOOLEAN]
Locks == [mu : Handlers \union {None}, config : Handlers \union {None}]
Recovery == [at : {"idle", "close", "new", "check", "relay", "mode", "mgr", "fw", "keep",
                    "drop", "setup", "own"},
             byTun : BOOLEAN, relay : Relays \union {None}, fw : Objects \union {"none"}]
Watcher == [at : {"off", "idle", "disarm", "lift", "restore"}, fw : Objects \union {"none"},
            relay : Relays \union {None}, tun : BOOLEAN]
Guards == [tun : BOOLEAN, dns : {"off", "idle", "fixing"}]
Budget == [requests : 0 .. MaxRequests, tampers : 0 .. MaxTampers,
           faults : 0 .. MaxFaults, effort : 0 .. MaxEffort]

-----------------------------------------------------------------------------
(* The stages of the main goroutine.                                       *)

Settled == {"preflight", "captive", "tun", "route", "orphans"}
BootStages == Settled \union {"rules"}
EarlyStages == BootStages \union {"gate"}
UpStages == EarlyStages \union {"proxy", "dns", "up"}
LateStages == {"disarm", "delete", "unroute", "join", "down", "exited"}
OutStages == {"unroute", "join", "down", "exited"}

Clean == drift \intersect Lasting = {}
Travel == {"store", "activate", "unroute", "reroute", "own"}

-----------------------------------------------------------------------------
(* The parts of the inductive invariant.                                   *)

\* A request x has what its next firewall operation needs.
Equipped(x) ==
    /\ x.at \in {"disarm", "apply", "activate"} => x.fw \in Objects
    /\ x.at = "activate" \/ (x.at = "apply" /\ x.op = "normal") => x.relay \in Relays
    /\ x.at = "disarm" => x.op # "normal"

\* What a goroutine carries from one step to the next.
PhaseInv ==
    /\ main.at \in {"orphans", "rules"} => main.relay \in Relays
    /\ main.at = "delete" => prg.mgr # "none"
    /\ \A r \in Handlers : Equipped(req[r])
    /\ reco.at = "mgr" => reco.relay \in Relays
    /\ reco.at \in {"fw", "keep"} => reco.relay \in Relays /\ reco.fw \in Objects
    /\ reco.at \in {"setup", "own"} => reco.relay \in Relays
    /\ watch.at \in {"disarm", "lift", "restore"} => watch.fw \in Objects
    /\ watch.at = "restore" => watch.relay \in Relays

\* What is not there yet while the boot goes on.
BootInv ==
    /\ main.at \in EarlyStages => ~main.up /\ reco = Calm /\ ~guards.tun
    /\ main.at \in {"proxy", "dns"} => ~main.up
    /\ ~main.up => \A r \in Handlers : req[r].at \notin Travel /\ req[r].op # "country"
    /\ main.at \in Settled =>
         /\ prg.relay = None
         /\ prg.mgr \in {"none", "captive"} /\ host.rules.mode # "full"
         /\ \A i \in Objects : fw.of[i].mode # "full"
         /\ \A r \in Handlers : ~(req[r].op = "normal" /\ req[r].at = "apply")
    /\ main.at \in Settled \ {"orphans"} => host.routes = None /\ ~prg.route
    /\ main.at = "rules" => prg.relay = main.relay
    /\ main.at = "preflight" => prg.mgr = "none"
    /\ main.at \in BootStages => watch.at = "off"
    /\ main.at \in EarlyStages /\ Alive /\ watch.at = "off" =>
         /\ ~fw.armed /\ prg.mgr # "boot"
         /\ \A r \in Handlers : req[r].fw # "boot"

\* Who answers for what has been changed on the host, until it is undone.
OwnedInv ==
    /\ main.at = "exited" =>
         /\ stopping /\ reco = Calm /\ watch = Unwatched /\ ~fw.armed
         /\ \A r \in Handlers : req[r] = Idle
    /\ main.at # "up" => guards.dns = "off"
    /\ reco.at = "idle" => reco = Calm
    /\ main.up /\ main.at \in LateStages => ~guards.tun /\ ~reco.byTun
    /\ main.at \notin OutStages =>
         /\ watch.at \in {"disarm", "lift", "restore"} => prg.mgr # "none"
         /\ \A r \in Handlers : req[r].at = "activate" => prg.mgr # "none"

\* Nothing of an earlier ruleset outlives the last one.
LeftInv == host.rules = Open => host.left = {}

\* The host itself, while no known cause has left something on it for good.
HostInv ==
    Clean =>
      /\ main.at \notin OutStages /\ host.rules # Open => prg.mgr # "none" \/ reco.at = "keep"
      /\ main.at \in OutStages => host.rules = Open
      /\ main.at \notin {"join", "down", "exited"} /\ host.routes # None
           => prg.route \/ Unclaimed
      /\ main.at \in {"join", "down", "exited"} => host.routes = None
      /\ main.at # "up" => host.resolver = "original"

\* The breaches of the policy that somebody is about to end or to record.
Excused ==
    {d \in Passing :
        \/ /\ d = "unprotected"
           /\ \/ watch.at \in {"disarm", "lift", "restore"}
              \/ fw.armed /\ host.rules = Open
              \/ \E r \in Handlers : req[r].at = "apply"
              \/ main.at \in BootStages /\ prg.mgr \in {"none", "captive"}
              \/ main.at = "gate" /\ ~Ready
        \/ d = "stale" /\ \E r \in Handlers : req[r].at = "activate"}

PolicyInv ==
    Alive /\ main.at \in UpStages => Verdict(host, prg) \subseteq drift \union Excused

IInv ==
    /\ TypeOK /\ PhaseInv /\ BootInv /\ OwnedInv
    /\ LeftInv /\ HostInv /\ PolicyInv /\ CaptiveHandover

-----------------------------------------------------------------------------
(* Firewall operations.                                                    *)

LEMMA RulesetsAre ==
    /\ Open \in Rules /\ Captive \in Rules
    /\ \A q \in Relays, v \in BOOLEAN : Full(q, v) \in Rules /\ Full(q, v).mode = "full"
                                        /\ Full(q, v).relay = q /\ Full(q, v).v6 = v
    /\ \A w \in Rules, v \in BOOLEAN :
         LET x == [w EXCEPT !.v6 = v] IN x \in Rules /\ x.mode = w.mode /\ x.v6 = v
    /\ \A w \in Rules : w.mode = "full" => w.relay \in Relays
    /\ \A w \in Rules : w.mode \in {"open", "captive", "full"} /\ w.v6 \in BOOLEAN
BY DEF Open, Captive, Full, Rules

\* What the outcome of a firewall operation may be, asked for ruleset w of object i.
Outcome(o, i, w) ==
    /\ o.ok \in BOOLEAN /\ o.rules \in {host.rules, w}
    /\ o.ok /\ (w # Open \/ ~Flawed(o)) => o.rules = w
    /\ o.cost = 0 \/ (o.cost = 1 /\ budget.faults > 0 /\ budget.effort > 0)
    /\ o.fw \in Firewalls /\ o.fw.altered = fw.altered
    /\ i # "boot" \/ ~o.ok => (o.fw.armed => fw.armed)
    /\ \A j \in Objects : o.fw.of[j].mode \in {fw.of[j].mode, w.mode}

LEMMA FaultIs ==
    \A c \in Fault : c = 1 /\ budget.faults > 0 /\ budget.effort > 0
BY DEF Fault

LEMMA Activations ==
    ASSUME fw \in Firewalls, NEW i \in Objects, NEW w \in Rules, NEW live,
           NEW o \in Activation(i, w, live)
    PROVE  Outcome(o, i, w)
<1> DEFINE possible == live /\ (windows /\ w.mode = "full" => host.tun)
           raised == [fw EXCEPT !.of[i] = w, !.armed = @ \/ i = "boot"]
           kept == [fw EXCEPT !.of[i].v6 = w.v6,
                              !.armed = @ /\ ~(windows /\ live /\ i = "boot")]
           done == [ok |-> TRUE, rules |-> w, cost |-> 0, fw |-> raised]
           refused == [ok |-> FALSE, rules |-> host.rules, cost |-> 0, fw |-> kept]
<1>1. /\ raised \in Firewalls /\ raised.altered = fw.altered
      /\ i # "boot" => (raised.armed => fw.armed)
      /\ \A j \in Objects : raised.of[j].mode \in {fw.of[j].mode, w.mode}
  BY DEF Firewalls
<1>2. /\ kept \in Firewalls /\ kept.altered = fw.altered
      /\ kept.armed => fw.armed
      /\ \A j \in Objects : kept.of[j].mode = fw.of[j].mode
  <2>1. w.v6 \in BOOLEAN /\ fw.of[i] \in Rules
    BY RulesetsAre DEF Firewalls
  <2>2. [fw.of[i] EXCEPT !.v6 = w.v6] \in Rules /\ [fw.of[i] EXCEPT !.v6 = w.v6].mode = fw.of[i].mode
    BY <2>1, RulesetsAre
  <2> QED
    BY <2>2 DEF Firewalls
<1> DEFINE other(c, x) == [refused EXCEPT !.cost = c, !.rules = x]
<1>3. Activation(i, w, live) =
        IF ~possible THEN {refused}
        ELSE {done} \union
             UNION {{other(c, x) : x \in {host.rules} \union (IF windows THEN {} ELSE {w})} : c \in Fault}
  BY DEF Activation
<1> HIDE DEF raised, kept
<1>4. Outcome(done, i, w) /\ Outcome(refused, i, w)
  BY <1>1, <1>2 DEF Outcome, Flawed
<1>5. ASSUME NEW c \in Fault, NEW x \in {host.rules, w}
      PROVE  Outcome(other(c, x), i, w)
  <2>1. c = 1 /\ budget.faults > 0 /\ budget.effort > 0
    BY FaultIs
  <2>2. /\ other(c, x).ok = FALSE /\ other(c, x).rules = x
        /\ other(c, x).cost = c /\ other(c, x).fw = kept
    OBVIOUS
  <2> HIDE DEF other
  <2> QED
    BY <1>2, <2>1, <2>2 DEF Outcome, Flawed
<1> HIDE DEF done, refused, other, possible
<1> QED
  BY <1>3, <1>4, <1>5

LEMMA Deletions ==
    ASSUME fw \in Firewalls, NEW i \in Objects, NEW live, NEW o \in Deletion(i, live)
    PROVE  /\ Outcome(o, i, Open) /\ (o.fw.armed => fw.armed) /\ o.fw.of = fw.of
<1> DEFINE kept == [fw EXCEPT !.armed = @ /\ ~(windows /\ i = "boot")]
           deleted == [ok |-> TRUE, rules |-> Open, cost |-> 0, fw |-> kept]
           left == [deleted EXCEPT !.ok = FALSE, !.rules = host.rules]
           other(c, b) == [left EXCEPT !.cost = c, !.ok = b]
           Good(x) == Outcome(x, i, Open) /\ (x.fw.armed => fw.armed) /\ x.fw.of = fw.of
<1>1. /\ kept \in Firewalls /\ kept.altered = fw.altered
      /\ kept.armed => fw.armed
      /\ kept.of = fw.of
  BY DEF Firewalls
<1>2. Deletion(i, live) =
        IF ~live /\ ~windows THEN {left}
        ELSE {deleted} \union {[left EXCEPT !.cost = c] : c \in Fault}
               \union {other(c, TRUE) : c \in IF windows THEN Fault ELSE {}}
  BY DEF Deletion
<1> HIDE DEF kept
<1>3. Good(deleted) /\ Good(left)
  BY <1>1 DEF Outcome, Flawed
<1>4. ASSUME NEW c \in Fault, NEW b \in BOOLEAN
      PROVE  Good(other(c, b))
  <2>1. c = 1 /\ budget.faults > 0 /\ budget.effort > 0
    BY FaultIs
  <2>2. /\ other(c, b).ok = b /\ other(c, b).rules = host.rules
        /\ other(c, b).cost = c /\ other(c, b).fw = kept
    OBVIOUS
  <2> HIDE DEF other
  <2> QED
    BY <1>1, <2>1, <2>2 DEF Outcome, Flawed
<1>5. \A c : [left EXCEPT !.cost = c] = other(c, FALSE)
  OBVIOUS
<1> HIDE DEF deleted, left, other, Good
<1>6. \/ o \in {deleted, left} \/ (\E c \in Fault : o = other(c, FALSE))
      \/ \E c \in Fault : o = other(c, TRUE)
  <2>1. CASE ~live /\ ~windows
    BY <1>2, <2>1
  <2>2. CASE ~(~live /\ ~windows)
    <3>1. \/ o = deleted \/ (\E c \in Fault : o = [left EXCEPT !.cost = c])
          \/ \E c \in IF windows THEN Fault ELSE {} : o = other(c, TRUE)
      BY <1>2, <2>2
    <3> QED
      BY <1>5, <3>1
  <2> QED
    BY <2>1, <2>2
<1>7. Good(o)
  <2>1. \A c \in Fault : Good(other(c, TRUE)) /\ Good(other(c, FALSE))
    BY <1>4
  <2> QED
    BY <1>3, <1>6, <2>1
<1> QED
  BY <1>7 DEF Good

LEMMA TypeOKIs ==
    TypeOK <=> /\ windows \in BOOLEAN /\ stopping \in BOOLEAN
               /\ prg \in Program /\ host \in Host /\ fw \in Firewalls
               /\ main \in Main /\ locks \in Locks
               /\ req \in [Handlers -> Request]
               /\ reco \in Recovery /\ watch \in Watcher /\ guards \in Guards
               /\ drift \subseteq Passing \union Lasting /\ budget \in Budget
BY DEF TypeOK, Program, Host, Firewalls, Main, Locks, Recovery, Watcher, Guards, Budget

LEMMA TypeOKNextIs ==
    TypeOK' <=> /\ windows' \in BOOLEAN /\ stopping' \in BOOLEAN
                /\ prg' \in Program /\ host' \in Host /\ fw' \in Firewalls
                /\ main' \in Main /\ locks' \in Locks
                /\ req' \in [Handlers -> Request]
                /\ reco' \in Recovery /\ watch' \in Watcher /\ guards' \in Guards
                /\ drift' \subseteq Passing \union Lasting /\ budget' \in Budget
BY DEF TypeOK, Program, Host, Firewalls, Main, Locks, Recovery, Watcher, Guards, Budget

LEMMA Causes ==
    ASSUME drift \subseteq Passing \union Lasting
    PROVE  /\ \A h, p : Verdict(h, p) \subseteq Passing
           /\ \A d \in Passing \union Lasting, b \in BOOLEAN :
                /\ Lost(d, b) \subseteq Passing \union Lasting
                /\ drift \subseteq Lost(d, b)
                /\ d \in Lasting /\ b => Lost(d, b) \intersect Lasting # {}
           /\ \A h, p, may :
                /\ Recorded(h, p, may) \subseteq Passing \union Lasting
                /\ drift \intersect Lasting \subseteq Recorded(h, p, may)
                /\ Alive => \A d \in Verdict(h, p) :
                                d \in drift \/ d \in may => d \in Recorded(h, p, may)
BY DEF Verdict, Lost, Recorded, Alive

\* What puts ruleset x in force leaves of the host.
LEMMA HostWithIs ==
    ASSUME host \in Host, NEW x \in Rules
    PROVE  /\ HostWith(x) \in Host /\ HostWith(x).rules = x
           /\ HostWith(x).left \subseteq (host.left \union {host.rules}) \ {x}
           /\ x = Open => HostWith(x).left = {}
           /\ HostWith(x).tun = host.tun /\ HostWith(x).routes = host.routes
           /\ HostWith(x).resolver = host.resolver
BY DEF HostWith, Host

LEMMA OpenedIs ==
    ASSUME host \in Host
    PROVE  /\ HostWith(Open) \in Host /\ HostWith(Open).rules = Open /\ HostWith(Open).left = {}
           /\ HostWith(Open).tun = host.tun /\ HostWith(Open).routes = host.routes
           /\ HostWith(Open).resolver = host.resolver
BY HostWithIs, RulesetsAre

\* A step that puts outcome o in force: object i was asked for ruleset w, by an
\* actor that may leave the breaches in may behind.
Forced(o, i, w, may, owned) ==
    /\ i \in Objects /\ w \in Rules /\ Outcome(o, i, w)
    /\ host' \in Host /\ host'.rules = o.rules /\ host'.tun = host.tun
    /\ host'.routes = host.routes /\ host'.resolver = host.resolver
    /\ host'.left \subseteq (host.left \union {host.rules}) \ {o.rules}
    /\ host'.rules = Open => host'.left = {}
    /\ fw' = o.fw /\ fw' \in Firewalls /\ budget' \in Budget
    /\ drift' \subseteq Passing \union Lasting
    /\ drift \intersect Lasting \subseteq drift'
    /\ Alive => \A d \in Verdict(host', prg') : d \in drift \/ d \in may => d \in drift'
    /\ /\ host'.rules \notin {Open, host.rules}
       /\ (Torndown /\ ~owned) \/ (~o.ok /\ prg.mgr = "none")
       => drift' \intersect Lasting # {}

LEMMA Enforcements ==
    ASSUME TypeOK, NEW i \in Objects, NEW w \in Rules, NEW o, Outcome(o, i, w),
           NEW may, NEW owned \in BOOLEAN, Enforce(o, may, owned)
    PROVE  Forced(o, i, w, may, owned)
<1>1. /\ host' = HostWith(o.rules) /\ fw' = o.fw
      /\ budget' = [budget EXCEPT !.faults = @ - o.cost, !.effort = @ - o.cost]
  BY DEF Enforce
<1>2. host \in Host /\ budget \in Budget /\ drift \subseteq Passing \union Lasting
  BY TypeOKIs
<1>3. /\ host' \in Host /\ host'.rules = o.rules /\ host'.tun = host.tun
      /\ host'.routes = host.routes /\ host'.resolver = host.resolver
      /\ host'.left \subseteq (host.left \union {host.rules}) \ {o.rules}
      /\ host'.rules = Open => host'.left = {}
  <2>1. o.rules \in Rules
    BY <1>2 DEF Outcome, Host
  <2> QED
    BY <1>1, <1>2, <2>1, HostWithIs
<1>4. fw' \in Firewalls
  BY <1>1 DEF Outcome
<1>5. budget' \in Budget
  <2>1. o.cost \in {0, 1} /\ (o.cost = 1 => budget.faults > 0 /\ budget.effort > 0)
    BY DEF Outcome
  <2>2. budget.faults \in 0 .. MaxFaults /\ budget.effort \in 0 .. MaxEffort
    BY <1>2 DEF Budget
  <2>3. budget.faults - o.cost \in 0 .. MaxFaults /\ budget.effort - o.cost \in 0 .. MaxEffort
    BY <2>1, <2>2, ProtectionAssumption
  <2> QED
    BY <1>1, <1>2, <2>3 DEF Budget
<1> DEFINE note == Recorded(host', prg', may)
           rose == (Lost("resurrected", Torndown /\ ~owned) \union Lost("kept", ~o.ok /\ prg.mgr = "none"))
                     \intersect Lasting
<1>6. drift' = note \union IF o.rules \in {Open, host.rules} THEN {} ELSE rose
  BY DEF Enforce
<1>7. /\ note \subseteq Passing \union Lasting /\ drift \intersect Lasting \subseteq note
      /\ Alive => \A d \in Verdict(host', prg') : d \in drift \/ d \in may => d \in note
  BY <1>2, Causes
<1>8. rose \subseteq Lasting
  OBVIOUS
<1>9. (Torndown /\ ~owned) \/ (~o.ok /\ prg.mgr = "none") => rose \intersect Lasting # {}
  BY DEF Lost, Lasting
<1> HIDE DEF note, rose
<1> QED
  BY <1>1, <1>3, <1>4, <1>5, <1>6, <1>7, <1>8, <1>9 DEF Forced

-----------------------------------------------------------------------------
(* The steps that change the rules, one lemma for each.                    *)

LEMMA OptionsAre ==
    ASSUME fw \in Firewalls, NEW i \in Objects, NEW v \in BOOLEAN
    PROVE  Options(i, v) \in BOOLEAN
BY RulesetsAre DEF Options, Firewalls

\* What the request's operation on the firewall is asked for.
LEMMA ModeOutcome ==
    ASSUME TypeOK, PhaseInv, NEW r \in Handlers, At(r, "apply"),
           NEW o \in IF req[r].op = "normal"
                     THEN Activation(req[r].fw, Full(req[r].relay, Options(req[r].fw, req[r].allow)), TRUE)
                     ELSE Deletion(req[r].fw, TRUE)
    PROVE  /\ req[r].fw \in Objects
           /\ req[r].op = "normal" =>
                /\ Full(req[r].relay, Options(req[r].fw, req[r].allow)) \in Rules
                /\ Outcome(o, req[r].fw, Full(req[r].relay, Options(req[r].fw, req[r].allow)))
           /\ req[r].op # "normal" =>
                Outcome(o, req[r].fw, Open) /\ (o.fw.armed => fw.armed) /\ o.fw.of = fw.of
<1>1. fw \in Firewalls /\ req[r] \in Request
  BY TypeOKIs
<1>2. req[r].fw \in Objects /\ (req[r].op = "normal" => req[r].relay \in Relays)
  BY DEF At, PhaseInv, Equipped
<1>3. Options(req[r].fw, req[r].allow) \in BOOLEAN
  BY <1>1, <1>2, OptionsAre DEF Request
<1>4. CASE req[r].op = "normal"
  <2>1. Full(req[r].relay, Options(req[r].fw, req[r].allow)) \in Rules
    BY <1>2, <1>3, <1>4, RulesetsAre
  <2> QED
    BY <1>1, <1>2, <1>4, <2>1, Activations
<1>5. CASE req[r].op # "normal"
  BY <1>1, <1>2, <1>5, Deletions
<1> QED
  BY <1>2, <1>4, <1>5

\* The operation that takes a mode back, or the one that could not be tried.
UndoTries(r, i) ==
    IF req[r].op = "degraded"
    THEN IF Activatable
         THEN Activation(i, Full(prg.relay, Options(i, prg.v6)), TRUE)
         ELSE {[ok |-> FALSE, rules |-> host.rules, cost |-> 0, fw |-> fw]}
    ELSE IF prg.mgr = "none" THEN {[ok |-> FALSE, rules |-> host.rules, cost |-> 0, fw |-> fw]}
         ELSE {[o EXCEPT !.fw.armed = @ /\ i # "boot"] : o \in Deletion(i, TRUE)}

UndoObject == IF prg.mgr = "none" THEN "late" ELSE prg.mgr

LEMMA UndoOutcome ==
    ASSUME TypeOK, NEW r \in Handlers, NEW o \in UndoTries(r, UndoObject)
    PROVE  \E w \in Rules :
             /\ Outcome(o, UndoObject, w)
             /\ w = Open \/ (w.mode = "full" /\ prg.relay # None)
             /\ req[r].op # "degraded" => w = Open /\ (o.fw.armed => fw.armed) /\ o.fw.of = fw.of
             /\ req[r].op = "degraded" /\ o.ok => w.mode = "full"
<1> DEFINE i == UndoObject
           none == [ok |-> FALSE, rules |-> host.rules, cost |-> 0, fw |-> fw]
<1>1. i \in Objects /\ fw \in Firewalls /\ prg \in Program
  BY TypeOKIs DEF UndoObject, Program, Objects
<1>2. Outcome(none, i, Open) /\ (none.fw.armed => fw.armed) /\ none.fw.of = fw.of
  BY <1>1 DEF Outcome, Flawed
<1> HIDE DEF i
<1>3. CASE req[r].op = "degraded" /\ Activatable
  <2> DEFINE w == Full(prg.relay, Options(i, prg.v6))
  <2>1. prg.relay \in Relays /\ Options(i, prg.v6) \in BOOLEAN
    BY <1>1, <1>3, OptionsAre DEF Activatable, Program
  <2>2. w \in Rules /\ w.mode = "full"
    BY <2>1, RulesetsAre
  <2>3. o \in Activation(i, w, TRUE)
    BY <1>3 DEF UndoTries, i
  <2> HIDE DEF w
  <2>4. Outcome(o, i, w)
    BY <1>1, <2>2, <2>3, Activations
  <2> QED
    BY <1>3, <2>2, <2>4 DEF Activatable, i
<1>4. CASE req[r].op # "degraded" /\ prg.mgr # "none"
  <2> DEFINE put(x) == [x EXCEPT !.fw.armed = @ /\ i # "boot"]
  <2>1. PICK x \in Deletion(i, TRUE) : o = put(x)
    BY <1>4 DEF UndoTries, i
  <2>2. Outcome(x, i, Open) /\ (x.fw.armed => fw.armed) /\ x.fw.of = fw.of
    BY <1>1, Deletions
  <2>3. DOMAIN x = {"ok", "rules", "cost", "fw"}
    BY <2>1 DEF Deletion
  <2>4. /\ put(x).ok = x.ok /\ put(x).rules = x.rules /\ put(x).cost = x.cost
        /\ put(x).fw = [x.fw EXCEPT !.armed = @ /\ i # "boot"]
    BY <2>3
  <2>5. x.fw \in Firewalls
    BY <2>2 DEF Outcome
  <2>6. /\ put(x).fw \in Firewalls /\ put(x).fw.altered = x.fw.altered
        /\ put(x).fw.of = x.fw.of /\ (put(x).fw.armed => x.fw.armed)
    <3>1. \A y \in Firewalls, b \in BOOLEAN :
            LET z == [y EXCEPT !.armed = @ /\ b]
            IN  z \in Firewalls /\ z.altered = y.altered /\ z.of = y.of /\ (z.armed => y.armed)
      BY DEF Firewalls
    <3> HIDE DEF put
    <3> DEFINE y == x.fw
               b == i # "boot"
               z == [y EXCEPT !.armed = @ /\ b]
    <3>2. y \in Firewalls /\ b \in BOOLEAN
      BY <2>5
    <3> HIDE DEF y, b
    <3>3. z \in Firewalls /\ z.altered = y.altered /\ z.of = y.of /\ (z.armed => y.armed)
      BY <3>1, <3>2
    <3>4. put(x).fw = z
      BY <2>4 DEF y, b
    <3> HIDE DEF z
    <3> QED
      BY <3>3, <3>4 DEF y
  <2> HIDE DEF put
  <2>7. Outcome(put(x), i, Open) /\ (put(x).fw.armed => fw.armed) /\ put(x).fw.of = fw.of
    BY <2>2, <2>4, <2>6 DEF Outcome, Flawed
  <2> QED
    BY <1>4, <2>1, <2>7, RulesetsAre DEF i
<1>5. CASE (req[r].op = "degraded" /\ ~Activatable) \/ (req[r].op # "degraded" /\ prg.mgr = "none")
  <2>1. o = none
    BY <1>5 DEF UndoTries
  <2> QED
    BY <1>2, <2>1, RulesetsAre DEF i
<1> QED
  BY <1>3, <1>4, <1>5

Lockdown == [Captive EXCEPT !.v6 = prg.v6]

LEMMA LockdownMode == Lockdown.mode = "captive" /\ Lockdown # Open
BY DEF Lockdown, Captive, Open

LEMMA LockdownIs ==
    ASSUME TypeOK, PortalLockdown
    PROVE  \E o : /\ Forced(o, "captive", Lockdown, {}, TRUE)
                  /\ prg' = [prg EXCEPT !.captive = TRUE, !.mgr = IF o.ok THEN "captive" ELSE @]
                  /\ main' = [main EXCEPT !.at = IF o.ok THEN "captive" ELSE "tun"]
                  /\ UNCHANGED others
<1>1. PICK o \in Activation("captive", Lockdown, Alive) :
        /\ prg' = [prg EXCEPT !.captive = TRUE, !.mgr = IF o.ok THEN "captive" ELSE @]
        /\ Enforce(o, {}, TRUE)
        /\ main' = [main EXCEPT !.at = IF o.ok THEN "captive" ELSE "tun"]
  BY DEF PortalLockdown, Go, Lockdown
<1>2. "captive" \in Objects /\ Lockdown \in Rules
  BY TypeOKIs, RulesetsAre DEF Objects, Lockdown, Program
<1>3. Outcome(o, "captive", Lockdown)
  BY <1>2, TypeOKIs, Activations
<1> QED
  BY <1>1, <1>2, <1>3, Enforcements DEF PortalLockdown

RaiseMay == {"putBack", "v6", "older"} \union {d \in {"unprotected"} : prg.mgr = "captive"}

LEMMA RaiseIs ==
    ASSUME TypeOK, PhaseInv, RaiseRules
    PROVE  \E o : /\ Forced(o, "boot", Full(main.relay, fw.of["boot"].v6), RaiseMay, TRUE)
                  /\ prg' = IF o.ok THEN [prg EXCEPT !.mgr = "boot"] ELSE prg
                  /\ watch' = IF o.ok THEN [watch EXCEPT !.at = "idle"] ELSE watch
<1> DEFINE w == Full(main.relay, fw.of["boot"].v6)
<1>1. main.relay \in Relays
  BY DEF RaiseRules, PhaseInv
<1>2. PICK o \in Activation("boot", w, Alive) :
        /\ prg' = IF o.ok THEN [prg EXCEPT !.mgr = "boot"] ELSE prg
        /\ watch' = IF o.ok THEN [watch EXCEPT !.at = "idle"] ELSE watch
        /\ Enforce(o, RaiseMay, TRUE)
  BY DEF RaiseRules, RaiseMay
<1>3. "boot" \in Objects /\ w \in Rules
  BY <1>1, TypeOKIs, RulesetsAre DEF Firewalls, Objects
<1>4. Outcome(o, "boot", w)
  BY <1>2, <1>3, TypeOKIs, Activations
<1> HIDE DEF w
<1>5. Forced(o, "boot", w, RaiseMay, TRUE)
  BY <1>2, <1>3, <1>4, Enforcements
<1> QED
  BY <1>2, <1>5 DEF w

\* What a failure of a mode change may leave behind.
FailMay(o) == {"stale", "v6", "older"} \union {d \in Passing : Flawed(o)}

LEMMA ApplyModeIs ==
    ASSUME TypeOK, PhaseInv, NEW r \in Handlers, ApplyMode(r)
    PROVE  \E o, w :
             /\ Forced(o, req[r].fw, w, FailMay(o), FALSE)
             /\ req[r].op = "normal" =>
                  /\ w = Full(req[r].relay, Options(req[r].fw, req[r].allow))
                  /\ req[r].relay \in Relays
                  /\ prg' = IF o.ok THEN [prg EXCEPT !.enabled = TRUE, !.mgr = req[r].fw] ELSE prg
             /\ req[r].op # "normal" =>
                  /\ w = Open /\ (o.fw.armed => fw.armed) /\ o.fw.of = fw.of
                  /\ prg' = IF o.ok THEN [prg EXCEPT !.enabled = FALSE] ELSE prg
             /\ req' = [req EXCEPT ![r] = IF o.ok THEN [Idle EXCEPT !.op = req[r].op, !.at = "persist"]
                                          ELSE Idle]
<1>1. PICK o \in IF req[r].op = "normal"
                 THEN Activation(req[r].fw, Full(req[r].relay, Options(req[r].fw, req[r].allow)), TRUE)
                 ELSE Deletion(req[r].fw, TRUE) :
        /\ prg' = IF o.ok THEN [prg EXCEPT !.enabled = req[r].op = "normal",
                                   !.mgr = IF req[r].op = "normal" THEN req[r].fw ELSE @] ELSE prg
        /\ Enforce(o, FailMay(o), FALSE)
        /\ req' = [req EXCEPT ![r] = IF o.ok THEN [Idle EXCEPT !.op = req[r].op, !.at = "persist"]
                                     ELSE Idle]
  BY DEF ApplyMode, FailMay
<1>2. At(r, "apply")
  BY DEF ApplyMode
<1> DEFINE w == Full(req[r].relay, Options(req[r].fw, req[r].allow))
<1>3. /\ req[r].fw \in Objects
      /\ req[r].op = "normal" => w \in Rules /\ Outcome(o, req[r].fw, w)
      /\ req[r].op # "normal" =>
           Outcome(o, req[r].fw, Open) /\ (o.fw.armed => fw.armed) /\ o.fw.of = fw.of
  BY <1>1, <1>2, ModeOutcome
<1>4. req[r].op = "normal" => req[r].relay \in Relays
  BY <1>2 DEF PhaseInv, At, Equipped
<1>5. prg \in Program
  BY TypeOKIs
<1>6. CASE req[r].op = "normal"
  <2>1. prg' = IF o.ok THEN [prg EXCEPT !.enabled = TRUE, !.mgr = req[r].fw] ELSE prg
    BY <1>1, <1>6
  <2> HIDE DEF w
  <2>2. Forced(o, req[r].fw, w, FailMay(o), FALSE)
    BY <1>1, <1>3, <1>6, Enforcements
  <2> QED
    BY <1>1, <1>4, <1>6, <2>1, <2>2 DEF w
<1>7. CASE req[r].op # "normal"
  <2>1. prg' = IF o.ok THEN [prg EXCEPT !.enabled = FALSE] ELSE prg
    <3>1. [prg EXCEPT !.enabled = FALSE, !.mgr = @] = [prg EXCEPT !.enabled = FALSE]
      BY <1>5 DEF Program
    <3> QED
      BY <1>1, <1>7, <3>1
  <2>2. Forced(o, req[r].fw, Open, FailMay(o), FALSE)
    BY <1>1, <1>3, <1>7, Enforcements, RulesetsAre
  <2> QED
    BY <1>1, <1>3, <1>7, <2>1, <2>2
<1> QED
  BY <1>6, <1>7

LEMMA UndoModeIs ==
    ASSUME TypeOK, NEW r \in Handlers, UndoMode(r)
    PROVE  \E o, w :
             /\ Forced(o, UndoObject, w, FailMay(o), FALSE)
             /\ w = Open \/ (w.mode = "full" /\ prg.relay # None)
             /\ req[r].op # "degraded" =>
                  /\ w = Open /\ (o.fw.armed => fw.armed) /\ o.fw.of = fw.of
                  /\ prg' = [prg EXCEPT !.enabled = FALSE]
             /\ req[r].op = "degraded" =>
                  /\ prg' = IF o.ok THEN [prg EXCEPT !.enabled = TRUE, !.mgr = UndoObject]
                            ELSE [prg EXCEPT !.enabled = TRUE]
                  /\ o.ok => w.mode = "full"
<1>1. PICK o \in UndoTries(r, UndoObject) :
        /\ prg' = [prg EXCEPT !.enabled = req[r].op = "degraded",
                      !.mgr = IF req[r].op = "degraded" /\ o.ok THEN UndoObject ELSE @]
        /\ Enforce(o, FailMay(o), FALSE)
  BY DEF UndoMode, UndoTries, UndoObject, FailMay
<1>2. PICK w \in Rules :
        /\ Outcome(o, UndoObject, w)
        /\ w = Open \/ (w.mode = "full" /\ prg.relay # None)
        /\ req[r].op # "degraded" => w = Open /\ (o.fw.armed => fw.armed) /\ o.fw.of = fw.of
        /\ req[r].op = "degraded" /\ o.ok => w.mode = "full"
  BY <1>1, UndoOutcome
<1>3. prg \in Program /\ UndoObject \in Objects
  BY TypeOKIs DEF Program, UndoObject, Objects
<1>4. Forced(o, UndoObject, w, FailMay(o), FALSE)
  BY <1>1, <1>2, <1>3, Enforcements
<1>5. [prg EXCEPT !.enabled = FALSE, !.mgr = @] = [prg EXCEPT !.enabled = FALSE]
      /\ [prg EXCEPT !.enabled = TRUE, !.mgr = @] = [prg EXCEPT !.enabled = TRUE]
  BY <1>3 DEF Program
<1>6. req[r].op # "degraded" => prg' = [prg EXCEPT !.enabled = FALSE]
  BY <1>1, <1>5
<1>7. req[r].op = "degraded" =>
        prg' = IF o.ok THEN [prg EXCEPT !.enabled = TRUE, !.mgr = UndoObject]
               ELSE [prg EXCEPT !.enabled = TRUE]
  BY <1>1, <1>5
<1> QED
  BY <1>2, <1>4, <1>6, <1>7

LEMMA ApplyIPv6Is ==
    ASSUME TypeOK, NEW r \in Handlers, ApplyIPv6(r)
    PROVE  \E o, i, w :
             /\ Forced(o, i, w, Passing, FALSE)
             /\ i = prg.mgr \/ (prg.mgr = "none" /\ w = host.rules /\ o.fw = fw)
             /\ i = prg.mgr => w.mode = fw.of[i].mode
             /\ prg' = IF o.ok THEN [prg EXCEPT !.v6 = req[r].allow] ELSE prg
<1> DEFINE none == [ok |-> TRUE, rules |-> host.rules, cost |-> 0, fw |-> fw]
           i == prg.mgr
           w == [fw.of[i] EXCEPT !.v6 = req[r].allow]
<1>1. PICK o \in IF i = "none" THEN {none} ELSE Activation(i, w, TRUE) :
        /\ prg' = IF o.ok THEN [prg EXCEPT !.v6 = req[r].allow] ELSE prg
        /\ Enforce(o, Passing, FALSE)
  BY DEF ApplyIPv6
<1>2. prg \in Program /\ fw \in Firewalls /\ host \in Host /\ req[r].allow \in BOOLEAN
  BY TypeOKIs DEF Request
<1>3. CASE i = "none"
  <2>1. o = none /\ host.rules \in Rules
    BY <1>1, <1>2, <1>3 DEF Host
  <2>2. Outcome(none, "late", host.rules)
    BY <1>2 DEF Outcome
  <2> HIDE DEF none
  <2>3. Forced(o, "late", host.rules, Passing, FALSE)
    BY <1>1, <2>1, <2>2, Enforcements DEF Objects
  <2>4. o.fw = fw
    BY <2>1 DEF none
  <2> QED
    BY <1>1, <1>3, <2>3, <2>4
<1>4. CASE i # "none"
  <2>1. i \in Objects
    BY <1>2, <1>4 DEF Program
  <2>2. w \in Rules /\ w.mode = fw.of[i].mode
    <3>1. fw.of[i] \in Rules
      BY <1>2, <2>1 DEF Firewalls
    <3> QED
      BY <1>2, <3>1, RulesetsAre
  <2>3. Outcome(o, i, w)
    BY <1>1, <1>2, <1>4, <2>1, <2>2, Activations
  <2> HIDE DEF w
  <2>4. Forced(o, i, w, Passing, FALSE)
    BY <1>1, <2>1, <2>2, <2>3, Enforcements
  <2> QED
    BY <1>1, <2>2, <2>4
<1> QED
  BY <1>3, <1>4

\* The country request goes on with the routes, or ends.
Handed(r, o) ==
    req' = [req EXCEPT ![r] = IF o.ok THEN [req[r] EXCEPT !.at = "unroute", !.fw = "none"]
                              ELSE Idle]

LEMMA ActivateIs ==
    ASSUME TypeOK, PhaseInv, NEW r \in Handlers, ActivateForRelay(r)
    PROVE  \E o, w : /\ Forced(o, req[r].fw, w, Passing, FALSE)
                     /\ w.mode = "full" /\ prg' = prg
                     /\ Handed(r, o)
<1> DEFINE w == Full(req[r].relay, fw.of[req[r].fw].v6)
<1>1. PICK o \in Activation(req[r].fw, w, TRUE) :
        Enforce(o, Passing, FALSE) /\ Handed(r, o)
  BY DEF ActivateForRelay, Handed
<1>2. req[r].fw \in Objects /\ req[r].relay \in Relays
  BY DEF ActivateForRelay, PhaseInv, At, Equipped
<1>3. fw \in Firewalls /\ w \in Rules /\ w.mode = "full"
  BY <1>2, TypeOKIs, RulesetsAre DEF Firewalls
<1>4. Outcome(o, req[r].fw, w)
  BY <1>1, <1>2, <1>3, Activations
<1> HIDE DEF w
<1>5. Forced(o, req[r].fw, w, Passing, FALSE)
  BY <1>1, <1>2, <1>3, <1>4, Enforcements
<1> QED
  BY <1>1, <1>3, <1>5 DEF ActivateForRelay

RecoverMay(o) == {"putBack", "stale", "v6", "older"} \union {d \in {"unprotected"} : ~o.ok}

LEMMA RecoverIs ==
    ASSUME TypeOK, PhaseInv, RecoverRules
    PROVE  \E o, w : /\ Forced(o, reco.fw, w, RecoverMay(o), reco.byTun /\ main.up)
                     /\ w.mode = "full" /\ prg' = prg
                     /\ Step(IF o.ok THEN "keep" ELSE "drop")
<1> DEFINE w == Full(reco.relay, Options(reco.fw, prg.v6))
<1>1. PICK o \in Activation(reco.fw, w, Alive) :
        /\ Enforce(o, RecoverMay(o), reco.byTun /\ main.up)
        /\ Step(IF o.ok THEN "keep" ELSE "drop")
  BY DEF RecoverRules, RecoverMay
<1>2. reco.fw \in Objects /\ reco.relay \in Relays
  BY DEF RecoverRules, PhaseInv
<1>3. fw \in Firewalls /\ prg.v6 \in BOOLEAN /\ (reco.byTun /\ main.up) \in BOOLEAN
  BY TypeOKIs DEF Program
<1>4. w \in Rules /\ w.mode = "full"
  BY <1>2, <1>3, OptionsAre, RulesetsAre
<1>5. Outcome(o, reco.fw, w)
  BY <1>1, <1>2, <1>3, <1>4, Activations
<1> HIDE DEF w
<1>6. Forced(o, reco.fw, w, RecoverMay(o), reco.byTun /\ main.up)
  BY <1>1, <1>2, <1>3, <1>4, <1>5, Enforcements
<1> QED
  BY <1>1, <1>4, <1>6 DEF RecoverRules

RestoreFollows == watch.tun /\ prg.relay # None

LEMMA LiftIs ==
    ASSUME TypeOK, PhaseInv, WatcherLifts
    PROVE  \E o : /\ Forced(o, watch.fw, Open, {d \in Passing : ~RestoreFollows}, FALSE)
                  /\ (o.fw.armed => fw.armed) /\ o.fw.of = fw.of /\ prg' = prg
                  /\ watch' = IF RestoreFollows
                              THEN [watch EXCEPT !.at = "restore", !.relay = prg.relay]
                              ELSE Watching
<1>1. PICK o \in Deletion(watch.fw, Alive) :
        /\ Enforce(o, {d \in Passing : ~RestoreFollows}, FALSE)
        /\ watch' = IF RestoreFollows THEN [watch EXCEPT !.at = "restore", !.relay = prg.relay]
                    ELSE Watching
  BY DEF WatcherLifts, RestoreFollows
<1>2. watch.fw \in Objects
  BY DEF WatcherLifts, PhaseInv
<1>3. Outcome(o, watch.fw, Open) /\ (o.fw.armed => fw.armed) /\ o.fw.of = fw.of
  BY <1>1, <1>2, TypeOKIs, Deletions
<1>4. Forced(o, watch.fw, Open, {d \in Passing : ~RestoreFollows}, FALSE)
  BY <1>1, <1>2, <1>3, Enforcements, RulesetsAre
<1> QED
  BY <1>1, <1>3, <1>4 DEF WatcherLifts, watching

LEMMA RestoreIs ==
    ASSUME TypeOK, PhaseInv, WatcherRestores
    PROVE  \E o, w : Forced(o, watch.fw, w, Passing, FALSE) /\ w.mode = "full" /\ prg' = prg
<1> DEFINE w == Full(watch.relay, fw.of[watch.fw].v6)
<1>1. PICK o \in Activation(watch.fw, w, Alive) : Enforce(o, Passing, FALSE)
  BY DEF WatcherRestores
<1>2. watch.fw \in Objects /\ watch.relay \in Relays
  BY DEF WatcherRestores, PhaseInv
<1>3. fw \in Firewalls /\ w \in Rules /\ w.mode = "full"
  BY <1>2, TypeOKIs, RulesetsAre DEF Firewalls
<1>4. Outcome(o, watch.fw, w)
  BY <1>1, <1>2, <1>3, Activations
<1> HIDE DEF w
<1>5. Forced(o, watch.fw, w, Passing, FALSE)
  BY <1>1, <1>2, <1>3, <1>4, Enforcements
<1> QED
  BY <1>3, <1>5 DEF WatcherRestores, watching

-----------------------------------------------------------------------------
(* Type correctness.                                                       *)

LEMMA Bounds ==
    ASSUME budget \in Budget
    PROVE  /\ Fail => budget' \in Budget
           /\ Disturb => budget' \in Budget
           /\ WatchdogPoll => budget' \in Budget
           /\ \A op, at : Receive(op, at) => budget' \in Budget
<1>1. /\ budget.requests \in 0 .. MaxRequests /\ budget.tampers \in 0 .. MaxTampers
      /\ budget.faults \in 0 .. MaxFaults /\ budget.effort \in 0 .. MaxEffort
  BY DEF Budget
<1>2. budget.faults > 0 /\ budget.effort > 0
        => budget.faults - 1 \in 0 .. MaxFaults /\ budget.effort - 1 \in 0 .. MaxEffort
  BY <1>1, ProtectionAssumption
<1>3. budget.tampers > 0 /\ budget.effort > 0
        => budget.tampers - 1 \in 0 .. MaxTampers /\ budget.effort - 1 \in 0 .. MaxEffort
  BY <1>1, ProtectionAssumption
<1>4. budget.requests > 0 /\ budget.effort > 1
        => budget.requests - 1 \in 0 .. MaxRequests /\ budget.effort - 2 \in 0 .. MaxEffort
  BY <1>1, ProtectionAssumption
<1>5. Fail => budget' \in Budget
  BY <1>2 DEF Fail, Fault, Budget
<1>8. budget.faults > 0 /\ budget.effort > 1
        => budget.faults - 1 \in 0 .. MaxFaults /\ budget.effort - 2 \in 0 .. MaxEffort
  BY <1>1, ProtectionAssumption
<1>9. WatchdogPoll => budget' \in Budget
  BY <1>8 DEF WatchdogPoll, Fault, Budget
<1>6. Disturb => budget' \in Budget
  BY <1>3 DEF Disturb, Budget
<1>7. \A op, at : Receive(op, at) => budget' \in Budget
  BY <1>4 DEF Receive, Budget
<1> QED
  BY <1>5, <1>6, <1>7, <1>9

LEMMA ConfiguredIsRelay == Configured \in Relays
BY ProtectionAssumption DEF Configured

LEMMA BootTypes ==
    ASSUME TypeOK, PhaseInv, Boot
    PROVE  TypeOK'
<1> USE DEF others, effects, Go
<1>1. CASE NoPortal \/ PortalWithoutLockdown \/ CaptiveCleared \/ CaptiveStopped
  <2>1. main' \in Main
    BY <1>1, TypeOKIs
    DEF NoPortal, PortalWithoutLockdown, CaptiveCleared, CaptiveStopped, Main, Stages
  <2>2. prg' \in Program
    BY <1>1, TypeOKIs DEF NoPortal, PortalWithoutLockdown, CaptiveCleared, CaptiveStopped, Program
  <2> QED
    BY <1>1, <2>1, <2>2, TypeOKIs, TypeOKNextIs, Bounds
    DEF NoPortal, PortalWithoutLockdown, CaptiveCleared, CaptiveStopped
<1>2. CASE PortalLockdown
  <2>1. PICK o : /\ Forced(o, "captive", Lockdown, {}, TRUE)
                 /\ prg' = [prg EXCEPT !.captive = TRUE, !.mgr = IF o.ok THEN "captive" ELSE @]
                 /\ main' = [main EXCEPT !.at = IF o.ok THEN "captive" ELSE "tun"]
                 /\ UNCHANGED others
    BY <1>2, LockdownIs
  <2>2. prg' \in Program /\ main' \in Main
    BY <2>1, TypeOKIs DEF Program, Main, Objects, Stages
  <2> QED
    BY <2>1, <2>2, TypeOKIs, TypeOKNextIs DEF Forced
<1>3. CASE TunUp \/ TunFails
  <2>1. main' \in Main
    BY <1>3, TypeOKIs DEF TunUp, TunFails, Main, Stages
  <2>2. prg' \in Program /\ host' \in Host
    BY <1>3, TypeOKIs DEF TunUp, TunFails, Program, Host
  <2>3. drift' \subseteq Passing \union Lasting
    BY <1>3, TypeOKIs DEF TunUp, TunFails, Lost, Lasting
  <2> QED
    BY <1>3, <2>1, <2>2, <2>3, TypeOKIs, TypeOKNextIs, Bounds DEF TunUp, TunFails
<1>4. CASE RouteUp \/ RelayUnresolved
  <2>1. main' \in Main
    BY <1>4, TypeOKIs, ConfiguredIsRelay DEF RouteUp, RelayUnresolved, Main, Stages
  <2>2. prg' \in Program
    BY <1>4, TypeOKIs DEF RouteUp, RelayUnresolved, Program
  <2>3. host' \in Host
    BY <1>4, TypeOKIs, ConfiguredIsRelay DEF RouteUp, RelayUnresolved, Host
  <2>4. budget' \in Budget
    BY <1>4, TypeOKIs, Bounds DEF RouteUp, RelayUnresolved
  <2> QED
    BY <1>4, <2>1, <2>2, <2>3, <2>4, TypeOKIs, TypeOKNextIs DEF RouteUp, RelayUnresolved
<1>5. CASE CleanupOrphans
  <2>1. [Open EXCEPT !.v6 = prg.v6] \in Rules
    BY TypeOKIs, RulesetsAre DEF Program
  <2>2. fw' \in Firewalls
    BY <1>5, <2>1, TypeOKIs DEF CleanupOrphans, Firewalls
  <2>3. prg' \in Program
    BY <1>5, TypeOKIs DEF CleanupOrphans, Main, Program
  <2>4. host' \in Host
    BY <1>5, TypeOKIs, RulesetsAre, HostWithIs DEF CleanupOrphans
  <2>5. main' \in Main
    BY <1>5, TypeOKIs DEF CleanupOrphans, Main, Stages
  <2>6. drift' \subseteq Passing \union Lasting
    BY <1>5, TypeOKIs, Causes DEF CleanupOrphans
  <2> QED
    BY <1>5, <2>2, <2>3, <2>4, <2>5, <2>6, TypeOKIs, TypeOKNextIs, Bounds DEF CleanupOrphans
<1>6. CASE RaiseRules
  <2>1. PICK o : /\ Forced(o, "boot", Full(main.relay, fw.of["boot"].v6), RaiseMay, TRUE)
                 /\ prg' = IF o.ok THEN [prg EXCEPT !.mgr = "boot"] ELSE prg
                 /\ watch' = IF o.ok THEN [watch EXCEPT !.at = "idle"] ELSE watch
    BY <1>6, RaiseIs
  <2>2. prg' \in Program /\ main' \in Main /\ watch' \in Watcher
    BY <1>6, <2>1, TypeOKIs DEF RaiseRules, Program, Main, Watcher, Objects, Stages
  <2> QED
    BY <1>6, <2>1, <2>2, TypeOKIs, TypeOKNextIs DEF RaiseRules, Forced
<1>7. CASE NoRulesWanted \/ GateRefuses \/ Connect \/ StartProxy \/ SetResolver
  <2>1. main' \in Main
    BY <1>7, TypeOKIs
    DEF NoRulesWanted, GateRefuses, Connect, StartProxy, SetResolver, Main, Stages
  <2>2. host' \in Host
    BY <1>7, TypeOKIs DEF NoRulesWanted, GateRefuses, Connect, StartProxy, SetResolver, Host
  <2>3. guards' \in Guards
    BY <1>7, TypeOKIs DEF NoRulesWanted, GateRefuses, Connect, StartProxy, SetResolver, Guards
  <2> QED
    BY <1>7, <2>1, <2>2, <2>3, TypeOKIs, TypeOKNextIs, Bounds
    DEF NoRulesWanted, GateRefuses, Connect, StartProxy, SetResolver
<1> QED
  BY <1>1, <1>2, <1>3, <1>4, <1>5, <1>6, <1>7 DEF Boot

LEMMA ShutdownTypes ==
    ASSUME TypeOK, PhaseInv, Shutdown \/ Exit
    PROVE  TypeOK'
<1> USE DEF others, effects, Go
<1>1. CASE RestoreResolver \/ StopTunWatchdog \/ Join
  <2>1. main' \in Main
    BY <1>1, TypeOKIs DEF RestoreResolver, StopTunWatchdog, Join, Main, Stages
  <2>2. prg' \in Program /\ host' \in Host
    BY <1>1, TypeOKIs DEF RestoreResolver, StopTunWatchdog, Join, Program, Host
  <2>3. guards' \in Guards
    BY <1>1, TypeOKIs DEF RestoreResolver, StopTunWatchdog, Join, Guards
  <2>4. drift' \subseteq Passing \union Lasting
    BY <1>1, TypeOKIs DEF RestoreResolver, StopTunWatchdog, Join, Lost, Lasting
  <2> QED
    BY <1>1, <2>1, <2>2, <2>3, <2>4, TypeOKIs, TypeOKNextIs, Bounds
    DEF RestoreResolver, StopTunWatchdog, Join
<1>2. CASE DisarmRules
  BY <1>2, TypeOKIs, TypeOKNextIs
  DEF DisarmRules, Disarm, Main, Firewalls, Stages, Lost, Lasting
<1>3. CASE DeleteRules
  <2>1. prg.mgr \in Objects
    BY <1>3, TypeOKIs DEF DeleteRules, PhaseInv, Program
  <2>2. PICK o \in Deletion(prg.mgr, TRUE) :
          /\ host' = HostWith(o.rules) /\ fw' = o.fw
          /\ budget' = [budget EXCEPT !.faults = @ - o.cost, !.effort = @ - o.cost]
          /\ drift' = Lost("failed", Flawed(o))
    BY <1>3 DEF DeleteRules
  <2>3. Outcome(o, prg.mgr, Open)
    BY <2>1, TypeOKIs, Deletions
  <2>4. host' \in Host /\ fw' \in Firewalls
    <3>1. o.rules \in Rules
      BY <2>3, TypeOKIs, RulesetsAre DEF Host, Outcome
    <3> QED
      BY <2>2, <2>3, <3>1, TypeOKIs, HostWithIs DEF Outcome
  <2>5. budget' \in Budget
    <3>1. o.cost = 0 \/ (o.cost = 1 /\ budget.faults > 0 /\ budget.effort > 0)
      BY <2>3 DEF Outcome
    <3>2. /\ budget \in Budget
          /\ budget.faults \in 0 .. MaxFaults /\ budget.effort \in 0 .. MaxEffort
      BY TypeOKIs DEF Budget
    <3>3. budget.faults - o.cost \in 0 .. MaxFaults /\ budget.effort - o.cost \in 0 .. MaxEffort
      BY <3>1, <3>2, ProtectionAssumption
    <3> QED
      BY <2>2, <3>2, <3>3 DEF Budget
  <2>6. main' \in Main /\ prg' \in Program
    BY <1>3, TypeOKIs DEF DeleteRules, Main, Program, Stages
  <2>7. drift' \subseteq Passing \union Lasting
    BY <2>2, TypeOKIs DEF Lost, Lasting
  <2>8. UNCHANGED others
    BY <1>3 DEF DeleteRules
  <2> QED
    BY <2>4, <2>5, <2>6, <2>7, <2>8, TypeOKIs, TypeOKNextIs
<1>4. CASE Unroute
  <2>1. main' \in Main
    BY <1>4, TypeOKIs DEF Unroute, Main, Stages
  <2>2. prg' \in Program
    BY <1>4, TypeOKIs DEF Unroute, Program
  <2>3. host' \in Host
    <3>1. \A q \in Relays \union {None}, b \in BOOLEAN :
            [host EXCEPT !.routes = q, !.tun = b] \in Host /\ [host EXCEPT !.tun = b] \in Host
      BY TypeOKIs DEF Host
    <3> DEFINE q == IF prg.route THEN None ELSE host.routes
               b == host.tun /\ ~prg.tun
    <3>2. q \in Relays \union {None} /\ b \in BOOLEAN
      BY TypeOKIs DEF Host
    <3>3. \/ host' = [host EXCEPT !.routes = q, !.tun = b]
          \/ host' = [host EXCEPT !.tun = b]
      BY <1>4 DEF Unroute
    <3> HIDE DEF q, b
    <3> QED
      BY <3>1, <3>2, <3>3
  <2>4. drift' \subseteq Passing \union Lasting /\ budget' \in Budget
    BY <1>4, TypeOKIs, Bounds DEF Unroute, Lost, Lasting
  <2> QED
    BY <1>4, <2>1, <2>2, <2>3, <2>4, TypeOKIs, TypeOKNextIs DEF Unroute
<1>5. CASE Exit
  <2>1. Idle \in Request /\ Calm \in Recovery /\ Unwatched \in Watcher
    BY DEF Idle, Request, Calm, Recovery, Unwatched, Watcher
  <2> QED
    BY <1>5, <2>1, TypeOKIs, TypeOKNextIs, Bounds
    DEF Exit, Main, Firewalls, Locks, Guards, Stages, Lost, Lasting
<1> QED
  BY <1>1, <1>2, <1>3, <1>4, <1>5 DEF Shutdown

Posts == {"idle", "check", "lock", "disarm", "apply", "persist", "undo",
          "save", "policy", "store", "activate", "unroute", "reroute", "own"}

Ops == {"none", "normal", "degraded", "ipv6", "country"}

LEMMA RequestIs ==
    Request = [op : Ops, at : Posts, relay : Relays \union {None},
               fw : Objects \union {"none"}, allow : BOOLEAN]
BY DEF Request, Ops, Posts

LEMMA RequestEdits ==
    ASSUME req \in [Handlers -> Request], NEW r \in Handlers
    PROVE  /\ Idle \in Request /\ req[r] \in Request
           /\ End(r) => req' \in [Handlers -> Request]
           /\ \A s \in Posts : To(r, s) => req' \in [Handlers -> Request]
           /\ \A x \in Request : req' = [req EXCEPT ![r] = x] => req' \in [Handlers -> Request]
<1>1. Idle \in Request
  BY DEF Idle, Request
<1>2. \A s \in Posts : [req[r] EXCEPT !.at = s] \in Request
  BY DEF Request, Posts
<1> QED
  BY <1>1, <1>2 DEF End, To

LEMMA HandleTypes ==
    ASSUME TypeOK, PhaseInv, NEW r \in Handlers, Handle(r)
    PROVE  TypeOK'
<1> USE DEF calm
<1>1. req \in [Handlers -> Request] /\ prg \in Program /\ host \in Host /\ fw \in Firewalls
      /\ locks \in Locks /\ budget \in Budget /\ drift \subseteq Passing \union Lasting
  BY TypeOKIs
<1>2. CASE CheckCaptive(r) \/ DisarmMode(r) \/ PersistMode(r) \/ OwnRoutes(r) \/ Reconnected(r)
  <2>1. req' \in [Handlers -> Request]
    <3>1. [Idle EXCEPT !.op = "normal", !.at = "check"] \in Request
      BY DEF Idle, Request
    <3>2. CASE CheckCaptive(r) \/ DisarmMode(r)
      BY <1>1, <3>1, <3>2, RequestEdits DEF CheckCaptive, DisarmMode, Posts
    <3>3. CASE PersistMode(r) \/ OwnRoutes(r) \/ Reconnected(r)
      <4>1. [Idle EXCEPT !.op = "country", !.at = "check"] \in Request
        BY DEF Idle, Request
      <4> QED
        BY <1>1, <3>1, <3>3, <4>1, RequestEdits DEF PersistMode, OwnRoutes, Reconnected, Posts
    <3> QED
      BY <1>2, <3>2, <3>3
  <2>2. prg' \in Program
    BY <1>1, <1>2 DEF CheckCaptive, DisarmMode, PersistMode, OwnRoutes, Reconnected, Program
  <2>3. fw' \in Firewalls
    BY <1>1, <1>2 DEF CheckCaptive, DisarmMode, PersistMode, OwnRoutes, Reconnected, Firewalls, Disarm
  <2>4. budget' \in Budget
    BY <1>1, <1>2, Bounds DEF CheckCaptive, DisarmMode, PersistMode, OwnRoutes, Reconnected
  <2>5. UNCHANGED <<calm, host, locks, drift>>
    BY <1>2 DEF CheckCaptive, DisarmMode, PersistMode, OwnRoutes, Reconnected
  <2> QED
    BY <2>1, <2>2, <2>3, <2>4, <2>5, TypeOKIs, TypeOKNextIs
<1>3. CASE LockMode(r)
  <2>1. \A q \in Relays \union {None}, i \in Objects \union {"none"}, b \in BOOLEAN, s \in {"apply", "disarm"} :
          [req[r] EXCEPT !.relay = q, !.fw = i, !.allow = b, !.at = s] \in Request
    <3>1. "apply" \in Posts /\ "disarm" \in Posts
      BY DEF Posts
    <3>2. req[r] \in Request
      BY <1>1
    <3>3. \A x \in Request, q \in Relays \union {None}, i \in Objects \union {"none"}, b \in BOOLEAN,
            s \in Posts : [x EXCEPT !.relay = q, !.fw = i, !.allow = b, !.at = s] \in Request
      BY RequestIs
    <3> QED
      BY <3>1, <3>2, <3>3
  <2>2. req' \in [Handlers -> Request]
    <3>1. \/ End(r) \/ To(r, "persist")
          \/ req' = [req EXCEPT ![r] =
                       [req[r] EXCEPT !.relay = IF req[r].op = "normal" THEN prg.relay ELSE None,
                                      !.fw = IF prg.mgr = "none" THEN "late" ELSE prg.mgr,
                                      !.allow = prg.mgr = "none" /\ prg.v6,
                                      !.at = IF req[r].op = "normal" \/ windows THEN "apply" ELSE "disarm"]]
      BY <1>1, <1>3 DEF LockMode
    <3>2. /\ (IF req[r].op = "normal" THEN prg.relay ELSE None) \in Relays \union {None}
          /\ (IF prg.mgr = "none" THEN "late" ELSE prg.mgr) \in Objects \union {"none"}
          /\ (prg.mgr = "none" /\ prg.v6) \in BOOLEAN
          /\ (IF req[r].op = "normal" \/ windows THEN "apply" ELSE "disarm") \in {"apply", "disarm"}
      BY <1>1 DEF Program, Objects
    <3> QED
      BY <1>1, <2>1, <3>1, <3>2, RequestEdits DEF Posts
  <2>3. prg' \in Program
    BY <1>1, <1>3 DEF LockMode, Program
  <2>4. locks' \in Locks
    BY <1>1, <1>3 DEF LockMode, Locks
  <2>5. drift' \subseteq Passing \union Lasting
    BY <1>1, <1>3, Causes DEF LockMode
  <2> QED
    BY <1>3, <2>2, <2>3, <2>4, <2>5, TypeOKIs, TypeOKNextIs DEF LockMode
<1>4. CASE ApplyMode(r)
  <2>1. PICK o, w :
             /\ Forced(o, req[r].fw, w, FailMay(o), FALSE)
             /\ req[r].op = "normal" =>
                  prg' = IF o.ok THEN [prg EXCEPT !.enabled = TRUE, !.mgr = req[r].fw] ELSE prg
             /\ req[r].op # "normal" =>
                  prg' = IF o.ok THEN [prg EXCEPT !.enabled = FALSE] ELSE prg
             /\ req' = [req EXCEPT ![r] = IF o.ok THEN [Idle EXCEPT !.op = req[r].op, !.at = "persist"]
                                          ELSE Idle]
    BY <1>4, ApplyModeIs
  <2>5. req[r].fw \in Objects
    BY <2>1 DEF Forced
  <2>2. prg' \in Program
    BY <1>1, <2>1, <2>5 DEF Program
  <2>3. req' \in [Handlers -> Request]
    <3>1. [Idle EXCEPT !.op = req[r].op, !.at = "persist"] \in Request
      BY <1>1 DEF Idle, Request
    <3> QED
      BY <1>1, <2>1, <3>1, RequestEdits
  <2>4. locks' \in Locks
    BY <1>1, <1>4 DEF ApplyMode, Locks
  <2> QED
    BY <1>4, <2>1, <2>2, <2>3, <2>4, TypeOKIs, TypeOKNextIs DEF ApplyMode, Forced
<1>5. CASE UndoMode(r)
  <2>1. PICK o, w :
             /\ Forced(o, UndoObject, w, FailMay(o), FALSE)
             /\ req[r].op # "degraded" => prg' = [prg EXCEPT !.enabled = FALSE]
             /\ req[r].op = "degraded" =>
                  prg' = IF o.ok THEN [prg EXCEPT !.enabled = TRUE, !.mgr = UndoObject]
                         ELSE [prg EXCEPT !.enabled = TRUE]
    BY <1>5, UndoModeIs
  <2>5. UndoObject \in Objects
    BY <2>1 DEF Forced
  <2>2. prg' \in Program
    BY <1>1, <2>1, <2>5 DEF Program
  <2>3. req' \in [Handlers -> Request]
    BY <1>1, <1>5, RequestEdits DEF UndoMode
  <2> QED
    BY <1>5, <2>1, <2>2, <2>3, TypeOKIs, TypeOKNextIs DEF UndoMode, Forced
<1>6. CASE SaveIPv6(r)
  <2>1. [req[r] EXCEPT !.at = "policy", !.allow = ~prg.v6] \in Request
    <3>1. \A b \in BOOLEAN : [req[r] EXCEPT !.at = "policy", !.allow = b] \in Request
      BY <1>1 DEF Request
    <3>2. (~prg.v6) \in BOOLEAN
      OBVIOUS
    <3> QED
      BY <3>1, <3>2
  <2>2. req' \in [Handlers -> Request]
    <3>1. End(r) \/ req' = [req EXCEPT ![r] = [req[r] EXCEPT !.at = "policy", !.allow = ~prg.v6]]
      BY <1>1, <1>6 DEF SaveIPv6
    <3> QED
      BY <1>1, <2>1, <3>1, RequestEdits
  <2>3. locks' \in Locks
    BY <1>1, <1>6 DEF SaveIPv6, Locks
  <2> QED
    BY <1>6, <2>2, <2>3, TypeOKIs, TypeOKNextIs, Bounds DEF SaveIPv6
<1>7. CASE ApplyIPv6(r)
  <2>1. PICK o, i, w : /\ Forced(o, i, w, Passing, FALSE)
                       /\ prg' = IF o.ok THEN [prg EXCEPT !.v6 = req[r].allow] ELSE prg
    BY <1>7, ApplyIPv6Is
  <2>2. prg' \in Program
    <3>1. req[r].allow \in BOOLEAN
      BY <1>1 DEF Request
    <3> QED
      BY <1>1, <2>1, <3>1 DEF Program
  <2>4. req' \in [Handlers -> Request]
    BY <1>1, <1>7, RequestEdits DEF ApplyIPv6
  <2>3. locks' \in Locks
    BY <1>1, <1>7 DEF ApplyIPv6, Locks
  <2> QED
    BY <1>7, <2>1, <2>2, <2>3, <2>4, TypeOKIs, TypeOKNextIs DEF ApplyIPv6, Forced
<1>8. CASE StoreRelay(r)
  <2>1. \A q \in Relays, i \in Objects \union {"none"}, s \in {"activate", "unroute"} :
          [req[r] EXCEPT !.relay = q, !.fw = i, !.at = s] \in Request
    <3>1. "activate" \in Posts /\ "unroute" \in Posts
      BY DEF Posts
    <3> QED
      BY <1>1, <3>1, RequestIs
  <2>2. req' \in [Handlers -> Request]
    <3>1. \E q \in Relays, s \in {"activate", "unroute"} :
            req' = [req EXCEPT ![r] = [req[r] EXCEPT !.relay = q, !.fw = prg.mgr, !.at = s]]
      <4> DEFINE s == IF prg.enabled /\ prg.mgr # "none" /\ prg.tun THEN "activate" ELSE "unroute"
      <4>1. PICK q \in Relays :
              req' = [req EXCEPT ![r] = [req[r] EXCEPT !.relay = q, !.fw = prg.mgr, !.at = s]]
        <5>1. PICK q \in Relays :
                req' = [req EXCEPT ![r].relay = q, ![r].fw = prg.mgr, ![r].at = s]
          BY <1>8 DEF StoreRelay
        <5> HIDE DEF s
        <5> QED
          BY <1>1, <5>1
      <4>2. s \in {"activate", "unroute"}
        OBVIOUS
      <4> HIDE DEF s
      <4> QED
        BY <4>1, <4>2
    <3> QED
      BY <1>1, <2>1, <3>1, RequestEdits DEF Program
  <2>3. prg' \in Program
    BY <1>1, <1>8 DEF StoreRelay, Program
  <2>4. drift' \subseteq Passing \union Lasting
    BY <1>1, <1>8, Causes DEF StoreRelay
  <2> QED
    BY <1>8, <2>2, <2>3, <2>4, TypeOKIs, TypeOKNextIs DEF StoreRelay
<1>9. CASE ActivateForRelay(r)
  <2>1. PICK o, w : Forced(o, req[r].fw, w, Passing, FALSE) /\ prg' = prg
                    /\ Handed(r, o)
    BY <1>9, ActivateIs
  <2>2. req' \in [Handlers -> Request]
    <3>1. \A x \in Request : [x EXCEPT !.at = "unroute", !.fw = "none"] \in Request
      BY DEF Request
    <3> QED
      BY <1>1, <2>1, <3>1, RequestEdits DEF Handed
  <2> QED
    BY <1>9, <2>1, <2>2, TypeOKIs, TypeOKNextIs DEF ActivateForRelay, Forced
<1>10. CASE TakeRoutes(r) \/ SetupForRelay(r)
  <2>1. req' \in [Handlers -> Request]
    BY <1>1, <1>10, RequestEdits DEF TakeRoutes, SetupForRelay, Posts
  <2>2. prg' \in Program
    BY <1>1, <1>10 DEF TakeRoutes, SetupForRelay, Program
  <2>3. host' \in Host
    <3>1. req[r].relay \in Relays \union {None}
      BY <1>1 DEF Request
    <3> QED
      BY <1>1, <1>10, <3>1 DEF TakeRoutes, SetupForRelay, SetupRoutes, Host
  <2>4. drift' \subseteq Passing \union Lasting
    BY <1>1, <1>10 DEF TakeRoutes, SetupForRelay, SetupRoutes, Lost, Lasting
  <2> QED
    BY <1>10, <2>1, <2>2, <2>3, <2>4, TypeOKIs, TypeOKNextIs, Bounds DEF TakeRoutes, SetupForRelay
<1> QED
  BY <1>2, <1>3, <1>4, <1>5, <1>6, <1>7, <1>8, <1>9, <1>10 DEF Handle

LEMMA RecoverTypes ==
    ASSUME TypeOK, PhaseInv, Recover \/ RecoveryStarts
    PROVE  TypeOK'
<1> USE DEF recovering
<1>1. reco \in Recovery /\ prg \in Program /\ host \in Host /\ fw \in Firewalls
      /\ budget \in Budget /\ drift \subseteq Passing \union Lasting
  BY TypeOKIs
<1>2. Calm \in Recovery
  BY DEF Calm, Recovery
<1>3. \A s \in {"close", "new", "check", "relay", "mgr", "keep", "drop", "setup", "own"} :
        Step(s) => reco' \in Recovery
  BY <1>1 DEF Step, Recovery
<1>4. CASE RecoveryStarts
  <2>1. [Calm EXCEPT !.at = "close", !.byTun = TRUE] \in Recovery /\ [Calm EXCEPT !.at = "close"] \in Recovery
    BY DEF Calm, Recovery
  <2> QED
    BY <1>4, <2>1, TypeOKIs, TypeOKNextIs, Bounds DEF RecoveryStarts
<1>5. CASE CloseDevice \/ NewDevice \/ KeepRoutes
  <2>1. prg' \in Program
    BY <1>1, <1>5 DEF CloseDevice, NewDevice, KeepRoutes, Program, effects
  <2>2. host' \in Host
    BY <1>1, <1>5 DEF CloseDevice, NewDevice, KeepRoutes, Host, effects
  <2>3. reco' \in Recovery
    BY <1>2, <1>3, <1>5 DEF CloseDevice, NewDevice, KeepRoutes
  <2>4. budget' \in Budget
    BY <1>1, <1>5, Bounds DEF CloseDevice, NewDevice, KeepRoutes, effects
  <2>5. UNCHANGED <<recovering, fw, drift>>
    BY <1>5 DEF CloseDevice, NewDevice, KeepRoutes, effects
  <2> QED
    BY <1>5, <2>1, <2>2, <2>3, <2>4, <2>5, TypeOKIs, TypeOKNextIs
<1>6. CASE KeepDevice
  <2>1. prg' \in Program
    BY <1>1, <1>6 DEF KeepDevice, Program
  <2>2. host' \in Host
    BY <1>1, <1>6 DEF KeepDevice, Host
  <2>4. reco' \in Recovery
    BY <1>2, <1>3, <1>6 DEF KeepDevice
  <2> QED
    BY <1>6, <2>1, <2>2, <2>4, TypeOKIs, TypeOKNextIs DEF KeepDevice
<1>10. CASE ReadRelay \/ ReadMode \/ ReadManager
  <2>1. /\ prg.relay \in Relays \union {None}
        /\ (IF prg.mgr = "none" THEN "late" ELSE prg.mgr) \in Objects
    BY <1>1 DEF Program, Objects
  <2>2. reco' \in Recovery
    <3>1. CASE ReadRelay
      BY <1>1, <2>1, <3>1 DEF ReadRelay, Recovery
    <3>2. CASE ReadMode
      BY <1>3, <3>2 DEF ReadMode
    <3>3. CASE ReadManager
      <4> DEFINE i == IF prg.mgr = "none" THEN "late" ELSE prg.mgr
      <4>1. i \in Objects /\ reco' = [reco EXCEPT !.fw = i, !.at = "fw"]
        BY <2>1, <3>3 DEF ReadManager
      <4> HIDE DEF i
      <4> QED
        BY <1>1, <4>1 DEF Recovery
    <3> QED
      BY <1>10, <3>1, <3>2, <3>3
  <2> QED
    BY <1>10, <2>2, TypeOKIs, TypeOKNextIs DEF ReadRelay, ReadMode, ReadManager
<1>7. CASE RecoverRules
  <2>1. PICK o, w : /\ Forced(o, reco.fw, w, RecoverMay(o), reco.byTun /\ main.up)
                    /\ prg' = prg /\ Step(IF o.ok THEN "keep" ELSE "drop")
    BY <1>7, RecoverIs
  <2>2. reco' \in Recovery
    BY <1>3, <2>1
  <2> QED
    BY <1>7, <2>1, <2>2, TypeOKIs, TypeOKNextIs DEF RecoverRules, Forced
<1>8. CASE DropRoutes
  <2>1. prg' \in Program /\ host' \in Host
    <3>1. reco.at = "keep" => reco.fw \in Objects
      BY DEF PhaseInv
    <3> QED
      BY <1>1, <1>8, <3>1 DEF DropRoutes, Program, Host
  <2>2. reco' \in Recovery
    BY <1>1, <1>2, <1>8 DEF DropRoutes, Recovery
  <2> QED
    BY <1>8, <2>1, <2>2, TypeOKIs, TypeOKNextIs DEF DropRoutes
<1>9. CASE RecoverRoutes
  <2>1. host' \in Host
    BY <1>1, <1>9 DEF RecoverRoutes, Host, Recovery
  <2>2. reco' \in Recovery
    BY <1>2, <1>3, <1>9 DEF RecoverRoutes
  <2>3. drift' \subseteq Passing \union Lasting
    BY <1>1, <1>9 DEF RecoverRoutes, Lost, Lasting
  <2>4. budget' \in Budget
    BY <1>1, <1>9, Bounds DEF RecoverRoutes
  <2> QED
    BY <1>9, <2>1, <2>2, <2>3, <2>4, TypeOKIs, TypeOKNextIs DEF RecoverRoutes
<1> QED
  BY <1>4, <1>5, <1>6, <1>7, <1>8, <1>9, <1>10 DEF Recover

LEMMA OtherTypes ==
    ASSUME TypeOK, PhaseInv, Watch \/ WatchdogPoll \/ CheckResolver \/ Environment
    PROVE  TypeOK'
<1> USE DEF watching, tampered
<1>1. req \in [Handlers -> Request] /\ prg \in Program /\ host \in Host /\ fw \in Firewalls
      /\ watch \in Watcher /\ guards \in Guards
      /\ budget \in Budget /\ drift \subseteq Passing \union Lasting
  BY TypeOKIs
<1>2. Unwatched \in Watcher /\ Watching \in Watcher
  BY DEF Unwatched, Watching, Watcher
<1>3. CASE WatcherWakes \/ WatcherDisarms
  <2>1. watch' \in Watcher
    <3>1. CASE WatcherWakes
      <4>1. \A s \in {"lift", "disarm"} :
              [watch EXCEPT !.at = s, !.fw = prg.mgr, !.tun = prg.tun] \in Watcher
        BY <1>1 DEF Watcher, Program
      <4>2. \/ watch' \in {watch, Unwatched}
            \/ watch' = [watch EXCEPT !.at = IF windows THEN "lift" ELSE "disarm",
                                      !.fw = prg.mgr, !.tun = prg.tun]
        BY <3>1 DEF WatcherWakes
      <4> QED
        BY <1>1, <1>2, <4>1, <4>2
    <3>2. CASE WatcherDisarms
      BY <1>1, <3>2 DEF WatcherDisarms, Watcher
    <3> QED
      BY <1>3, <3>1, <3>2
  <2>2. fw' \in Firewalls
    BY <1>1, <1>3 DEF WatcherWakes, WatcherDisarms, Disarm, Firewalls
  <2> QED
    BY <1>3, <2>1, <2>2, TypeOKIs, TypeOKNextIs DEF WatcherWakes, WatcherDisarms
<1>4. CASE WatcherLifts
  <2>1. PICK o : /\ Forced(o, watch.fw, Open, {d \in Passing : ~RestoreFollows}, FALSE) /\ prg' = prg
                 /\ watch' = IF RestoreFollows THEN [watch EXCEPT !.at = "restore", !.relay = prg.relay]
                             ELSE Watching
    BY <1>4, LiftIs
  <2>2. watch' \in Watcher
    BY <1>1, <1>2, <2>1 DEF Watcher, Program
  <2> QED
    BY <1>4, <2>1, <2>2, TypeOKIs, TypeOKNextIs DEF WatcherLifts, Forced
<1>5. CASE WatcherRestores
  <2>1. PICK o, w : Forced(o, watch.fw, w, Passing, FALSE) /\ prg' = prg
    BY <1>5, RestoreIs
  <2> QED
    BY <1>2, <1>5, <2>1, TypeOKIs, TypeOKNextIs DEF WatcherRestores, Forced
<1>6. CASE WatchdogPoll \/ CheckResolver
  <2>1. fw' \in Firewalls
    BY <1>1, <1>6 DEF WatchdogPoll, CheckResolver, Firewalls
  <2>2. host' \in Host
    BY <1>1, <1>6 DEF WatchdogPoll, CheckResolver, Host
  <2>3. guards' \in Guards
    BY <1>1, <1>6 DEF WatchdogPoll, CheckResolver, Guards
  <2> QED
    BY <1>6, <2>1, <2>2, <2>3, TypeOKIs, TypeOKNextIs, Bounds DEF WatchdogPoll, CheckResolver
<1>7. CASE Stop
  <2>1. watch' \in Watcher /\ stopping' \in BOOLEAN /\ drift' \subseteq Passing \union Lasting
    BY <1>1, <1>2, <1>7 DEF Stop
  <2> QED
    BY <1>7, <2>1, TypeOKIs, TypeOKNextIs DEF Stop
<1>8. CASE ModeRequested \/ IPv6Requested \/ CountryRequested
  <2>1. \A op \in {"normal", "degraded", "ipv6", "country"}, at \in Posts :
          [Idle EXCEPT !.op = op, !.at = at] \in Request
    BY DEF Idle, Request, Posts
  <2>2. PICK op \in {"normal", "degraded", "ipv6", "country"}, at \in Posts : Receive(op, at)
    BY <1>8 DEF ModeRequested, IPv6Requested, CountryRequested, Posts
  <2>3. req' \in [Handlers -> Request]
    BY <1>1, <2>1, <2>2 DEF Receive
  <2>4. budget' \in Budget
    BY <1>1, <2>2, Bounds
  <2> QED
    BY <1>8, <2>3, <2>4, TypeOKIs, TypeOKNextIs DEF ModeRequested, IPv6Requested, CountryRequested, calm
<1>9. CASE RulesDeleted
  <2>1. host' \in Host /\ drift' \subseteq Passing \union Lasting
    BY <1>1, <1>9, RulesetsAre, HostWithIs, Causes DEF RulesDeleted
  <2> QED
    BY <1>1, <1>9, <2>1, TypeOKIs, TypeOKNextIs, Bounds DEF RulesDeleted, Tamper
<1>10. CASE DeviceDeleted \/ ResolverChanged
  <2>1. host' \in Host
    BY <1>1, <1>10 DEF DeviceDeleted, ResolverChanged, Host
  <2> QED
    BY <1>1, <1>10, <2>1, TypeOKIs, TypeOKNextIs, Bounds DEF DeviceDeleted, ResolverChanged, Tamper
<1> QED
  BY <1>3, <1>4, <1>5, <1>6, <1>7, <1>8, <1>9, <1>10 DEF Watch, Environment

LEMMA TypeInit == Init => TypeOK
<1> SUFFICES ASSUME Init PROVE TypeOK
  OBVIOUS
<1> USE DEF Init
<1>1. prg \in Program
  BY DEF Program, Objects
<1>2. host \in Host /\ fw \in Firewalls
  BY RulesetsAre DEF Host, Firewalls
<1>3. main \in Main /\ locks \in Locks
  BY DEF Main, Stages, Locks
<1>4. req \in [Handlers -> Request]
  BY DEF Idle, Request
<1>5. reco \in Recovery /\ watch \in Watcher /\ guards \in Guards
  BY DEF Calm, Recovery, Unwatched, Watcher, Guards
<1>6. budget \in Budget
  BY ProtectionAssumption DEF Budget
<1> QED
  BY <1>1, <1>2, <1>3, <1>4, <1>5, <1>6, TypeOKIs

LEMMA TypeStep == TypeOK /\ PhaseInv /\ [Next]_vars => TypeOK'
<1> SUFFICES ASSUME TypeOK, PhaseInv, [Next]_vars PROVE TypeOK'
  OBVIOUS
<1>1. CASE UNCHANGED vars
  BY <1>1, TypeOKIs, TypeOKNextIs DEF vars
<1>2. CASE Next
  BY <1>1, <1>2, BootTypes, ShutdownTypes, HandleTypes, RecoverTypes, OtherTypes DEF Next, Exited
<1> QED
  BY <1>1, <1>2

-----------------------------------------------------------------------------
(* What each actor leaves alone.                                           *)

LEMMA Frames ==
    /\ Boot => UNCHANGED <<windows, stopping, locks, req, reco>>
    /\ Shutdown => UNCHANGED <<windows, stopping, locks, req, reco, watch>>
    /\ \A r \in Handlers : Handle(r) => UNCHANGED calm
    /\ Recover \/ RecoveryStarts => UNCHANGED recovering
    /\ Watch => UNCHANGED watching
    /\ WatchdogPoll => UNCHANGED <<windows, prg, host, main, stopping, locks, req, reco, watch, guards, drift>>
    /\ CheckResolver => UNCHANGED <<windows, prg, fw, main, stopping, locks, req, reco, watch, drift>>
    /\ RulesDeleted \/ DeviceDeleted \/ ResolverChanged =>
         UNCHANGED <<windows, prg, fw, main, stopping, locks, req, reco, watch>>
    /\ ModeRequested \/ IPv6Requested \/ CountryRequested =>
         UNCHANGED <<windows, prg, host, fw, main, stopping, locks, reco, watch, guards, drift>>
<1>1. Boot => UNCHANGED <<windows, stopping, locks, req, reco>>
  BY DEF Boot, NoPortal, PortalWithoutLockdown, PortalLockdown, CaptiveCleared, CaptiveStopped,
         TunUp, TunFails, RouteUp, RelayUnresolved, CleanupOrphans, NoRulesWanted, RaiseRules, GateRefuses,
         Connect, StartProxy, SetResolver, others
<1>2. Shutdown => UNCHANGED <<windows, stopping, locks, req, reco, watch>>
  BY DEF Shutdown, RestoreResolver, StopTunWatchdog, DisarmRules, DeleteRules, Unroute, Join, others
<1>3. ASSUME NEW r \in Handlers, Handle(r) PROVE UNCHANGED calm
  BY <1>3
  DEF Handle, CheckCaptive, LockMode, DisarmMode, ApplyMode, PersistMode, UndoMode, SaveIPv6,
      ApplyIPv6, StoreRelay, ActivateForRelay, TakeRoutes, SetupForRelay, OwnRoutes, Reconnected
<1>4. Recover \/ RecoveryStarts => UNCHANGED recovering
  BY DEF Recover, CloseDevice, NewDevice, KeepDevice, ReadRelay, ReadMode, ReadManager,
      RecoverRules, DropRoutes, RecoverRoutes,
         KeepRoutes, RecoveryStarts
<1>5. Watch => UNCHANGED watching
  BY DEF Watch, WatcherWakes, WatcherDisarms, WatcherLifts, WatcherRestores
<1>6. WatchdogPoll => UNCHANGED <<windows, prg, host, main, stopping, locks, req, reco, watch, guards, drift>>
  BY DEF WatchdogPoll
<1>7. CheckResolver => UNCHANGED <<windows, prg, fw, main, stopping, locks, req, reco, watch, drift>>
  BY DEF CheckResolver, tampered
<1>8. RulesDeleted \/ DeviceDeleted \/ ResolverChanged =>
        UNCHANGED <<windows, prg, fw, main, stopping, locks, req, reco, watch>>
  BY DEF RulesDeleted, DeviceDeleted, ResolverChanged, tampered
<1>9. ModeRequested \/ IPv6Requested \/ CountryRequested =>
        UNCHANGED <<windows, prg, host, fw, main, stopping, locks, reco, watch, guards, drift>>
  BY DEF ModeRequested, IPv6Requested, CountryRequested, calm
<1> QED
  BY <1>1, <1>2, <1>3, <1>4, <1>5, <1>6, <1>7, <1>8, <1>9

\* A request's steps are its own.
LEMMA RequestFrame ==
    ASSUME TypeOK, NEW r \in Handlers, Handle(r)
    PROVE  \A s \in Handlers \ {r} : req'[s] = req[s]
<1>1. req \in [Handlers -> Request]
  BY TypeOKIs
<1>2. CASE CheckCaptive(r) \/ DisarmMode(r) \/ PersistMode(r) \/ UndoMode(r) \/ ApplyIPv6(r)
            \/ TakeRoutes(r) \/ SetupForRelay(r)
  <2>1. (\E s : To(r, s)) \/ End(r)
    BY <1>2
    DEF CheckCaptive, DisarmMode, PersistMode, UndoMode, ApplyIPv6, TakeRoutes, SetupForRelay
  <2> QED
    BY <1>1, <2>1 DEF To, End
<1>3. CASE LockMode(r) \/ SaveIPv6(r)
  BY <1>1, <1>3 DEF LockMode, SaveIPv6, To, End
<1>4. CASE ApplyMode(r) \/ ActivateForRelay(r) \/ OwnRoutes(r) \/ Reconnected(r)
  BY <1>1, <1>4 DEF ApplyMode, ActivateForRelay, OwnRoutes, Reconnected, End
<1>5. CASE StoreRelay(r)
  BY <1>1, <1>5 DEF StoreRelay
<1> QED
  BY <1>2, <1>3, <1>4, <1>5 DEF Handle

\* A request that arrives is given a handler that had nothing to do.
LEMMA Arrivals ==
    ASSUME TypeOK, NEW op, NEW at, Receive(op, at)
    PROVE  \E r \in Handlers : req[r] = Idle /\ Alive
                               /\ req' = [req EXCEPT ![r] = [Idle EXCEPT !.op = op, !.at = at]]
BY DEF Receive, Free

\* Only the shutdown's own deletion takes the manager away.
LEMMA ManagerStays ==
    ASSUME TypeOK, PhaseInv, Next, prg.mgr # "none"
    PROVE  DeleteRules \/ prg'.mgr # "none"
<1>1. prg \in Program /\ prg.mgr \in Objects /\ "none" \notin Objects
  BY TypeOKIs DEF Program, Objects
<1>2. CASE Boot
  <2>1. CASE PortalLockdown
    BY <1>1, <2>1, LockdownIs DEF Program
  <2>2. CASE RaiseRules
    BY <1>1, <2>2, RaiseIs DEF Program
  <2>3. CASE NoPortal \/ CaptiveStopped \/ TunFails \/ RelayUnresolved \/ NoRulesWanted
               \/ GateRefuses \/ Connect \/ StartProxy \/ SetResolver
    <3>1. prg' = prg
      BY <2>3
      DEF NoPortal, CaptiveStopped, TunFails, RelayUnresolved, NoRulesWanted, GateRefuses, Connect,
          StartProxy, SetResolver, effects
    <3> QED
      BY <1>1, <3>1
  <2>4. CASE PortalWithoutLockdown \/ CaptiveCleared \/ TunUp
    BY <1>1, <2>4 DEF PortalWithoutLockdown, CaptiveCleared, TunUp, Program
  <2>5. CASE RouteUp \/ CleanupOrphans
    BY <1>1, <2>5 DEF RouteUp, CleanupOrphans, Program
  <2> QED
    BY <1>2, <2>1, <2>2, <2>3, <2>4, <2>5 DEF Boot
<1>3. CASE Shutdown \/ Exit
  <2>1. CASE StopTunWatchdog \/ DisarmRules \/ Join \/ Exit
    <3>1. prg' = prg
      BY <2>1 DEF StopTunWatchdog, DisarmRules, Join, Exit, effects
    <3> QED
      BY <1>1, <3>1
  <2>2. CASE RestoreResolver
    BY <1>1, <2>2 DEF RestoreResolver, Program
  <2>3. CASE Unroute
    BY <1>1, <2>3 DEF Unroute, Program
  <2> QED
    BY <1>3, <2>1, <2>2, <2>3 DEF Shutdown
<1>4. ASSUME NEW r \in Handlers, Handle(r) PROVE prg'.mgr # "none"
  <2>1. CASE ApplyMode(r)
    <3>1. PICK o, w :
               /\ Forced(o, req[r].fw, w, FailMay(o), FALSE)
               /\ req[r].op = "normal" =>
                    prg' = IF o.ok THEN [prg EXCEPT !.enabled = TRUE, !.mgr = req[r].fw] ELSE prg
               /\ req[r].op # "normal" =>
                    prg' = IF o.ok THEN [prg EXCEPT !.enabled = FALSE] ELSE prg
      BY <2>1, ApplyModeIs
    <3>2. req[r].fw \in Objects
      BY <3>1 DEF Forced
    <3> QED
      BY <1>1, <3>1, <3>2 DEF Program
  <2>2. CASE UndoMode(r)
    <3>1. PICK o, w :
               /\ Forced(o, UndoObject, w, FailMay(o), FALSE)
               /\ req[r].op # "degraded" => prg' = [prg EXCEPT !.enabled = FALSE]
               /\ req[r].op = "degraded" =>
                    prg' = IF o.ok THEN [prg EXCEPT !.enabled = TRUE, !.mgr = UndoObject]
                           ELSE [prg EXCEPT !.enabled = TRUE]
      BY <2>2, UndoModeIs
    <3>2. UndoObject \in Objects
      BY <3>1 DEF Forced
    <3> QED
      BY <1>1, <3>1, <3>2 DEF Program
  <2>3. CASE ApplyIPv6(r)
    BY <1>1, <2>3, ApplyIPv6Is DEF Program
  <2>4. CASE ~ApplyMode(r) /\ ~UndoMode(r) /\ ~ApplyIPv6(r)
    BY <1>1, <1>4, <2>4
    DEF Handle, CheckCaptive, LockMode, DisarmMode, PersistMode, SaveIPv6,
        StoreRelay, ActivateForRelay, TakeRoutes, SetupForRelay, OwnRoutes, Reconnected, Program
  <2> QED
    BY <2>1, <2>2, <2>3, <2>4
<1>5. CASE Recover \/ RecoveryStarts
  <2>1. reco.at = "keep" => reco.fw \in Objects
    BY DEF PhaseInv
  <2> QED
    BY <1>1, <1>5, <2>1
    DEF Recover, CloseDevice, NewDevice, KeepDevice, ReadRelay, ReadMode, ReadManager,
        RecoverRules, DropRoutes, RecoverRoutes,
        KeepRoutes, RecoveryStarts, Program
<1>6. CASE Watch \/ WatchdogPoll \/ CheckResolver \/ Environment \/ Exited
  BY <1>1, <1>6, Frames DEF watching, Environment, Stop, Exited, vars
<1> QED
  BY <1>2, <1>3, <1>4, <1>5, <1>6 DEF Next

-----------------------------------------------------------------------------
(* PhaseInv is preserved.                                                  *)

LEMMA BootPhase ==
    ASSUME TypeOK, PhaseInv, Boot
    PROVE  PhaseInv'
<1>1. UNCHANGED <<windows, stopping, locks, req, reco>>
  BY Frames
<1>2. main \in Main /\ watch \in Watcher /\ prg \in Program
  BY TypeOKIs
<1>3. main'.at # "delete" /\ (main'.at \in {"orphans", "rules"} => main'.relay \in Relays)
  <2>1. CASE PortalLockdown
    BY <1>2, <2>1, LockdownIs DEF Main
  <2>2. CASE ~PortalLockdown
    BY <1>2, <2>2, ConfiguredIsRelay
    DEF Boot, PhaseInv, NoPortal, PortalWithoutLockdown, CaptiveCleared, CaptiveStopped,
        TunUp, TunFails, RouteUp, RelayUnresolved, CleanupOrphans, NoRulesWanted, RaiseRules, GateRefuses,
        Connect, StartProxy, SetResolver, Go, Main
  <2> QED
    BY <2>1, <2>2
<1>4. watch' = watch \/ watch' = [watch EXCEPT !.at = "idle"]
  BY
  DEF Boot, NoPortal, PortalWithoutLockdown, PortalLockdown, CaptiveCleared, CaptiveStopped,
      TunUp, TunFails, RouteUp, RelayUnresolved, CleanupOrphans, NoRulesWanted, RaiseRules, GateRefuses,
      Connect, StartProxy, SetResolver, others
<1> QED
  BY <1>1, <1>2, <1>3, <1>4 DEF PhaseInv, Watcher

LEMMA ShutdownPhase ==
    ASSUME TypeOK, PhaseInv, Shutdown \/ Exit
    PROVE  PhaseInv'
<1>1. main \in Main
  BY TypeOKIs
<1>2. CASE Exit
  BY <1>1, <1>2 DEF Exit, PhaseInv, Equipped, Idle, Calm, Unwatched, Go, Main
<1>3. CASE Shutdown
  <2>1. UNCHANGED <<req, reco, watch>>
    BY <1>3, Frames
  <2>2. /\ main'.at \notin {"orphans", "rules"}
        /\ main'.at = "delete" => prg'.mgr # "none"
    BY <1>1, <1>3
    DEF Shutdown, RestoreResolver, StopTunWatchdog, DisarmRules, DeleteRules, Unroute, Join, Go, Main
  <2> QED
    BY <2>1, <2>2 DEF PhaseInv
<1> QED
  BY <1>2, <1>3

LEMMA RequestAfter ==
    ASSUME req \in [Handlers -> Request], NEW r \in Handlers
    PROVE  /\ End(r) => req'[r] = Idle /\ req'[r].op = "none" /\ req'[r].at = "idle"
                        /\ req'[r].fw = "none" /\ Equipped(req'[r])
           /\ \A s : To(r, s) =>
                /\ req'[r].at = s /\ req'[r].op = req[r].op /\ req'[r].fw = req[r].fw
                /\ req'[r].relay = req[r].relay /\ req'[r].allow = req[r].allow
                /\ s \notin {"disarm", "apply", "activate"} => Equipped(req'[r])
<1>1. End(r) => req'[r] = Idle
  BY DEF End
<1>2. Equipped(Idle) /\ Idle.op = "none" /\ Idle.at = "idle" /\ Idle.fw = "none"
  BY DEF Equipped, Idle
<1>3. ASSUME NEW s, To(r, s)
      PROVE  /\ req'[r].at = s /\ req'[r].op = req[r].op /\ req'[r].fw = req[r].fw
             /\ req'[r].relay = req[r].relay /\ req'[r].allow = req[r].allow
  BY <1>3 DEF To, Request
<1>4. ASSUME NEW s, To(r, s), s \notin {"disarm", "apply", "activate"}
      PROVE  Equipped(req'[r])
  BY <1>3, <1>4 DEF Equipped
<1> QED
  BY <1>1, <1>2, <1>3, <1>4

LEMMA RequestGoesTo ==
    ASSUME req \in [Handlers -> Request], NEW r \in Handlers
    PROVE  /\ \A o : Handed(r, o) =>
                /\ Equipped(req'[r]) /\ req'[r].fw = "none"
                /\ \/ req'[r] = Idle /\ req'[r].at = "idle" /\ req'[r].op = "none"
                   \/ req'[r].at = "unroute" /\ req'[r].op = req[r].op
           /\ OwnRoutes(r) => /\ Equipped(req'[r]) /\ req'[r].fw = "none"
                              /\ req'[r].at = "check" /\ req'[r].op = "country"
<1>1. ASSUME NEW o, Handed(r, o)
      PROVE  /\ Equipped(req'[r]) /\ req'[r].fw = "none"
             /\ \/ req'[r] = Idle /\ req'[r].at = "idle" /\ req'[r].op = "none"
                \/ req'[r].at = "unroute" /\ req'[r].op = req[r].op
  <2>1. req'[r] = IF o.ok THEN [req[r] EXCEPT !.at = "unroute", !.fw = "none"] ELSE Idle
    BY <1>1 DEF Handed
  <2>2. CASE o.ok
    BY <2>1, <2>2 DEF Equipped, Request
  <2>3. CASE ~o.ok
    BY <2>1, <2>3 DEF Equipped, Idle
  <2> QED
    BY <2>2, <2>3
<1>2. ASSUME OwnRoutes(r)
      PROVE  /\ Equipped(req'[r]) /\ req'[r].fw = "none"
             /\ req'[r].at = "check" /\ req'[r].op = "country"
  BY <1>2 DEF OwnRoutes, Equipped, Idle
<1> QED
  BY <1>1, <1>2

LEMMA HandlePhase ==
    ASSUME TypeOK, PhaseInv, NEW r \in Handlers, Handle(r), Next
    PROVE  PhaseInv'
<1>1. UNCHANGED calm /\ \A s \in Handlers \ {r} : req'[s] = req[s]
  BY Frames, RequestFrame
<1>2. main.at = "delete" => prg'.mgr # "none"
  <2>1. ~DeleteRules
    BY <1>1, TypeOKIs DEF DeleteRules, Go, calm, Main
  <2> QED
    BY <2>1, ManagerStays DEF PhaseInv
<1>3. req \in [Handlers -> Request] /\ prg \in Program /\ Equipped(req[r])
  BY TypeOKIs DEF PhaseInv
<1>4. Equipped(req'[r])
  <2>1. CASE LockMode(r)
    <3>1. CASE End(r) \/ To(r, "persist")
      BY <1>3, <3>1, RequestAfter
    <3>2. CASE ~(End(r) \/ To(r, "persist"))
      BY <1>3, <2>1, <3>2 DEF LockMode, Equipped, Request, Program, Activatable, Objects
    <3> QED
      BY <3>1, <3>2
  <2>2. CASE DisarmMode(r)
    BY <1>3, <2>2, RequestAfter DEF DisarmMode, At, Equipped
  <2>3. CASE ApplyMode(r)
    BY <1>3, <2>3 DEF ApplyMode, Equipped, Idle
  <2>4. CASE StoreRelay(r)
    BY <1>3, <2>4 DEF StoreRelay, Equipped, Request, Program
  <2>5. CASE ActivateForRelay(r) \/ OwnRoutes(r)
    BY <1>3, <2>5, ActivateIs, RequestGoesTo
  <2>6. CASE SaveIPv6(r)
    <3>1. CASE End(r)
      BY <1>3, <3>1, RequestAfter
    <3>2. CASE ~End(r)
      BY <1>3, <2>6, <3>2 DEF SaveIPv6, Equipped, Request
    <3> QED
      BY <3>1, <3>2
  <2>7. CASE Reconnected(r)
    <3>1. CASE End(r)
      BY <1>3, <3>1, RequestAfter
    <3>2. CASE ~End(r)
      BY <1>3, <2>7, <3>2 DEF Reconnected, Equipped, Idle
    <3> QED
      BY <3>1, <3>2
  <2>8. CASE CheckCaptive(r) \/ PersistMode(r) \/ TakeRoutes(r) \/ SetupForRelay(r)
             \/ UndoMode(r) \/ ApplyIPv6(r)
    <3>1. End(r) \/ \E s \in Posts \ {"disarm", "apply", "activate"} : To(r, s)
      BY <2>8
      DEF CheckCaptive, PersistMode, TakeRoutes, SetupForRelay, UndoMode, ApplyIPv6, Posts
    <3> QED
      BY <1>3, <3>1, RequestAfter
  <2> QED
    BY <2>1, <2>2, <2>3, <2>4, <2>5, <2>6, <2>7, <2>8 DEF Handle
<1> QED
  BY <1>1, <1>2, <1>4 DEF PhaseInv, calm

LEMMA RecoverPhase ==
    ASSUME TypeOK, PhaseInv, Recover \/ RecoveryStarts, Next
    PROVE  PhaseInv'
<1>1. UNCHANGED recovering
  BY Frames
<1>2. main.at = "delete" => prg'.mgr # "none"
  <2>1. ~DeleteRules
    BY <1>1, TypeOKIs DEF DeleteRules, Go, recovering, Main
  <2> QED
    BY <2>1, ManagerStays DEF PhaseInv
<1>3. reco \in Recovery /\ prg \in Program
  BY TypeOKIs
<1>5. /\ Calm.at = "idle"
      /\ \A s : Step(s) => /\ reco'.at = s /\ reco'.byTun = reco.byTun
                           /\ reco'.relay = reco.relay /\ reco'.fw = reco.fw
  BY <1>3 DEF Calm, Step, Recovery
<1>4. /\ reco'.at \in {"fw", "keep"} => reco'.relay \in Relays /\ reco'.fw \in Objects
      /\ reco'.at \in {"mgr", "setup", "own"} => reco'.relay \in Relays
  <2>1. CASE RecoverRules
    BY <1>3, <1>5, <2>1, RecoverIs DEF RecoverRules, PhaseInv
  <2>2. CASE RecoveryStarts \/ CloseDevice \/ NewDevice \/ KeepDevice \/ KeepRoutes
    <3>1. reco' = Calm \/ Step("new") \/ Step("check") \/ Step("relay") \/ reco'.at = "close"
      BY <2>2 DEF RecoveryStarts, CloseDevice, NewDevice, KeepDevice, KeepRoutes, Calm
    <3> QED
      BY <1>5, <3>1
  <2>3. CASE ReadRelay
    BY <1>3, <2>3 DEF ReadRelay, Recovery
  <2>4. CASE ReadMode
    <3>1. Step("drop") \/ (Step("mgr") /\ reco.relay \in Relays)
      BY <1>3, <2>4 DEF ReadMode, Recovery
    <3> QED
      BY <1>5, <3>1
  <2>5. CASE ReadManager
    <3> DEFINE i == IF prg.mgr = "none" THEN "late" ELSE prg.mgr
    <3>1. reco' = [reco EXCEPT !.fw = i, !.at = "fw"] /\ reco.relay \in Relays
      BY <2>5 DEF ReadManager, PhaseInv
    <3>2. i \in Objects
      BY <1>3 DEF Program, Objects
    <3> HIDE DEF i
    <3> QED
      BY <1>3, <3>1, <3>2 DEF Recovery
  <2>6. CASE DropRoutes
    <3>1. reco' = Calm \/ (reco' = [reco EXCEPT !.at = "setup", !.fw = "none"] /\ reco.relay \in Relays)
      BY <1>3, <2>6 DEF DropRoutes, Recovery
    <3> QED
      BY <1>3, <1>5, <3>1 DEF Recovery
  <2>7. CASE RecoverRoutes
    <3>1. reco' = Calm \/ (Step("own") /\ reco.relay \in Relays)
      BY <2>7 DEF RecoverRoutes, PhaseInv
    <3> QED
      BY <1>5, <3>1
  <2> QED
    BY <2>1, <2>2, <2>3, <2>4, <2>5, <2>6, <2>7 DEF Recover
<1> QED
  BY <1>1, <1>2, <1>4 DEF PhaseInv, recovering

LEMMA OtherPhase ==
    ASSUME TypeOK, PhaseInv, Watch \/ WatchdogPoll \/ CheckResolver \/ Environment
    PROVE  PhaseInv'
<1>1. watch \in Watcher /\ prg \in Program /\ req \in [Handlers -> Request]
  BY TypeOKIs
<1>2. CASE Watch
  <2>1. /\ watch'.at \in {"disarm", "lift", "restore"} => watch'.fw \in Objects
        /\ watch'.at = "restore" => watch'.relay \in Relays
    <3>1. CASE WatcherLifts
      BY <1>1, <3>1, LiftIs DEF WatcherLifts, PhaseInv, RestoreFollows, Watching, Unwatched, Watcher, Program
    <3>2. CASE WatcherWakes
      <4> DEFINE s == IF windows THEN "lift" ELSE "disarm"
      <4>1. \/ watch'.at \in {"idle", "off"}
            \/ /\ prg.mgr # "none"
               /\ watch' = [watch EXCEPT !.at = s, !.fw = prg.mgr, !.tun = prg.tun]
        BY <3>2 DEF WatcherWakes, Unwatched
      <4>2. s \in {"lift", "disarm"} /\ (prg.mgr # "none" => prg.mgr \in Objects)
        BY <1>1 DEF Program
      <4> HIDE DEF s
      <4> QED
        BY <1>1, <4>1, <4>2 DEF Watcher
    <3>3. CASE WatcherDisarms
      BY <1>1, <3>3 DEF WatcherDisarms, PhaseInv, Watcher
    <3>4. CASE WatcherRestores
      BY <3>4 DEF WatcherRestores, Watching, Unwatched
    <3> QED
      BY <1>2, <3>1, <3>2, <3>3, <3>4 DEF Watch
  <2> QED
    BY <1>2, <2>1, Frames DEF PhaseInv, watching
<1>3. CASE WatchdogPoll \/ CheckResolver \/ RulesDeleted \/ DeviceDeleted \/ ResolverChanged
  BY <1>3, Frames DEF PhaseInv
<1>4. CASE Stop
  BY <1>4 DEF Stop, PhaseInv, Unwatched
<1>5. CASE ModeRequested \/ IPv6Requested \/ CountryRequested
  <2>1. PICK op \in {"normal", "degraded", "ipv6", "country"}, at \in {"check", "save", "store"} :
          Receive(op, at)
    BY <1>5 DEF ModeRequested, IPv6Requested, CountryRequested
  <2>2. PICK r \in Handlers : req' = [req EXCEPT ![r] = [Idle EXCEPT !.op = op, !.at = at]]
    BY <2>1, Arrivals
  <2>3. \A s \in Handlers : Equipped(req'[s])
    BY <1>1, <2>2 DEF PhaseInv, Equipped, Idle
  <2> QED
    BY <1>5, <2>3, Frames DEF PhaseInv
<1> QED
  BY <1>2, <1>3, <1>4, <1>5 DEF Environment

LEMMA PhaseInit == Init => PhaseInv
BY DEF Init, PhaseInv, Equipped, Idle, Calm, Unwatched

LEMMA PhaseStep == TypeOK /\ PhaseInv /\ [Next]_vars => PhaseInv'
<1> SUFFICES ASSUME TypeOK, PhaseInv, [Next]_vars PROVE PhaseInv'
  OBVIOUS
<1>1. CASE UNCHANGED vars
  BY <1>1 DEF vars, PhaseInv
<1>2. CASE Next
  BY <1>1, <1>2, BootPhase, ShutdownPhase, HandlePhase, RecoverPhase, OtherPhase DEF Next, Exited
<1> QED
  BY <1>1, <1>2

-----------------------------------------------------------------------------
(* What has been left on the host for good stays on record.                *)

LEMMA LastingStays ==
    ASSUME TypeOK, PhaseInv, [Next]_vars
    PROVE  drift \intersect Lasting \subseteq drift'
<1>1. drift \subseteq Passing \union Lasting
  BY TypeOKIs
<1>2. \A d, b : drift \subseteq Lost(d, b)
  BY DEF Lost
<1>3. CASE Boot
  <2>1. CASE PortalLockdown
    BY <2>1, LockdownIs DEF Forced
  <2>2. CASE RaiseRules
    BY <2>2, RaiseIs DEF Forced
  <2>3. CASE CleanupOrphans
    <3>1. \/ drift' = Recorded(host', prg', {})
          \/ drift' = Recorded(host, prg', {"lockdown"})
      BY <2>3 DEF CleanupOrphans
    <3> QED
      BY <1>1, <3>1, Causes
  <2>4. CASE ~PortalLockdown /\ ~RaiseRules /\ ~CleanupOrphans
    <3>1. drift' = drift \/ \E d, b : drift' = Lost(d, b)
      BY <1>3, <2>4
      DEF Boot, NoPortal, PortalWithoutLockdown, CaptiveCleared, CaptiveStopped,
          TunUp, TunFails, RouteUp, RelayUnresolved, NoRulesWanted, GateRefuses,
          Connect, StartProxy, SetResolver, effects
    <3> QED
      BY <1>2, <3>1
  <2> QED
    BY <2>1, <2>2, <2>3, <2>4
<1>4. CASE Shutdown \/ Exit
  <2>1. drift' = drift \/ \E d, b : drift' = Lost(d, b)
    BY <1>4
    DEF Shutdown, Exit, RestoreResolver, StopTunWatchdog, DisarmRules, DeleteRules, Unroute, Join, effects
  <2> QED
    BY <1>2, <2>1
<1>5. ASSUME NEW r \in Handlers, Handle(r) PROVE drift \intersect Lasting \subseteq drift'
  <2>1. CASE ApplyMode(r)
    BY <2>1, ApplyModeIs DEF Forced
  <2>2. CASE UndoMode(r)
    BY <2>2, UndoModeIs DEF Forced
  <2>3. CASE ApplyIPv6(r)
    BY <2>3, ApplyIPv6Is DEF Forced
  <2>4. CASE ActivateForRelay(r)
    BY <2>4, ActivateIs DEF Forced
  <2>5. CASE LockMode(r) \/ StoreRelay(r)
    <3>1. drift' = drift \/ \E may : drift' = Recorded(host, prg', may)
      BY <2>5 DEF LockMode, StoreRelay
    <3> QED
      BY <1>1, <3>1, Causes
  <2>6. CASE CheckCaptive(r) \/ DisarmMode(r) \/ PersistMode(r) \/ SaveIPv6(r) \/ TakeRoutes(r)
             \/ SetupForRelay(r) \/ OwnRoutes(r) \/ Reconnected(r)
    <3>1. drift' = drift \/ \E d, b : drift' = Lost(d, b)
      BY <2>6
      DEF CheckCaptive, DisarmMode, PersistMode, SaveIPv6, TakeRoutes, SetupForRelay, SetupRoutes,
          OwnRoutes, Reconnected
    <3> QED
      BY <1>2, <3>1
  <2> QED
    BY <1>5, <2>1, <2>2, <2>3, <2>4, <2>5, <2>6 DEF Handle
<1>6. CASE Recover \/ RecoveryStarts
  <2>1. CASE RecoverRules
    BY <2>1, RecoverIs DEF Forced
  <2>2. CASE ~RecoverRules
    <3>1. drift' = drift \/ \E d, b : drift' = Lost(d, b)
      BY <1>6, <2>2
      DEF Recover, CloseDevice, NewDevice, KeepDevice, ReadRelay, ReadMode, ReadManager,
          DropRoutes, RecoverRoutes, KeepRoutes,
          RecoveryStarts, effects
    <3> QED
      BY <1>2, <3>1
  <2> QED
    BY <2>1, <2>2
<1>7. CASE Watch
  <2>1. CASE WatcherLifts
    BY <2>1, LiftIs DEF Forced
  <2>2. CASE WatcherRestores
    BY <2>2, RestoreIs DEF Forced
  <2>3. CASE WatcherWakes \/ WatcherDisarms
    BY <2>3 DEF WatcherWakes, WatcherDisarms
  <2> QED
    BY <1>7, <2>1, <2>2, <2>3 DEF Watch
<1>8. CASE WatchdogPoll \/ CheckResolver \/ Environment \/ Exited \/ UNCHANGED vars
  <2>1. CASE RulesDeleted
    BY <1>1, <2>1, Causes DEF RulesDeleted
  <2>2. CASE WatchdogPoll \/ CheckResolver \/ Exited \/ UNCHANGED vars
    BY <2>2, Frames DEF Exited, vars
  <2>3. CASE Stop \/ DeviceDeleted \/ ResolverChanged
    BY <2>3 DEF Stop, DeviceDeleted, ResolverChanged
  <2>4. CASE ModeRequested \/ IPv6Requested \/ CountryRequested
    BY <2>4, Frames
  <2> QED
    BY <1>8, <2>1, <2>2, <2>3, <2>4 DEF Environment
<1> QED
  BY <1>3, <1>4, <1>5, <1>6, <1>7, <1>8 DEF Next

-----------------------------------------------------------------------------
(* Who may step once the process is gone, and while the boot goes on.      *)

LEMMA NobodyLeft ==
    ASSUME TypeOK, PhaseInv, OwnedInv, main.at = "exited", [Next]_vars
    PROVE  UNCHANGED vars
<1>1. /\ stopping /\ reco.at = "idle" /\ watch.at = "off" /\ ~fw.armed /\ guards.dns = "off"
      /\ \A r \in Handlers : req[r].at = "idle"
  BY DEF OwnedInv, Calm, Unwatched, Idle
<1>2. ~Boot
  BY
  DEF Boot, NoPortal, PortalWithoutLockdown, PortalLockdown, CaptiveCleared, CaptiveStopped,
      TunUp, TunFails, RouteUp, RelayUnresolved, CleanupOrphans, NoRulesWanted, RaiseRules, GateRefuses,
      Connect, StartProxy, SetResolver
<1>3. ~Shutdown /\ ~Exit
  BY DEF Shutdown, Exit, RestoreResolver, StopTunWatchdog, DisarmRules, DeleteRules, Unroute, Join
<1>4. \A r \in Handlers : ~Handle(r)
  BY <1>1
  DEF Handle, CheckCaptive, LockMode, DisarmMode, ApplyMode, PersistMode, UndoMode, SaveIPv6,
      ApplyIPv6, StoreRelay, ActivateForRelay, TakeRoutes, SetupForRelay, OwnRoutes, Reconnected, At
<1>5. ~Recover /\ ~RecoveryStarts
  BY <1>1
  DEF Recover, CloseDevice, NewDevice, KeepDevice, ReadRelay, ReadMode, ReadManager,
      RecoverRules, DropRoutes, RecoverRoutes,
      KeepRoutes, RecoveryStarts, Alive
<1>6. ~Watch /\ ~WatchdogPoll /\ ~CheckResolver
  BY <1>1
  DEF Watch, WatcherWakes, WatcherDisarms, WatcherLifts, WatcherRestores, WatchdogPoll, CheckResolver
<1>7. ~Environment
  BY <1>1
  DEF Environment, Stop, ModeRequested, IPv6Requested, CountryRequested, Receive, RulesDeleted,
      DeviceDeleted, ResolverChanged, Tamper, Alive
<1> QED
  BY <1>2, <1>3, <1>4, <1>5, <1>6, <1>7 DEF Next, Exited

\* The main goroutine alone moves itself.
LEMMA MainMoves ==
    ASSUME Next, ~Boot, ~Shutdown, ~Exit
    PROVE  UNCHANGED main
<1>1. Stop => UNCHANGED main
  BY DEF Stop
<1> QED
  BY <1>1, Frames DEF Next, calm, recovering, watching, Environment, Exited, vars

LEMMA BootMoves ==
    ASSUME TypeOK, Boot
    PROVE  /\ main.at \in EarlyStages \union {"proxy", "dns"}
           /\ main'.at \in EarlyStages \union {"proxy", "dns", "up", "disarm", "down"}
           /\ main'.at \in EarlyStages => main.at \in EarlyStages
           /\ main'.at \in Settled => main.at \in Settled
           /\ main'.at \in BootStages => main.at \in BootStages
           /\ main'.at = "up" \/ main'.up = main.up
           /\ main'.at # "preflight"
           /\ main'.at = "down" => main.at \in {"preflight", "tun"}
<1>1. main \in Main
  BY TypeOKIs
<1>2. CASE PortalLockdown
  <2>1. main'.at \in {"captive", "tun"} /\ main'.up = main.up /\ main.at = "preflight"
    BY <1>1, <1>2, LockdownIs DEF Main, PortalLockdown
  <2> QED
    BY <2>1 DEF EarlyStages, BootStages, Settled
<1>3. CASE ~PortalLockdown
  BY <1>1, <1>3
  DEF Boot, NoPortal, PortalWithoutLockdown, CaptiveCleared, CaptiveStopped,
      TunUp, TunFails, RouteUp, RelayUnresolved, CleanupOrphans, NoRulesWanted, RaiseRules, GateRefuses,
      Connect, StartProxy, SetResolver, Go, Main, EarlyStages, BootStages, Settled
<1> QED
  BY <1>2, <1>3

LEMMA ShutdownMoves ==
    ASSUME TypeOK, Shutdown \/ Exit
    PROVE  /\ main'.at \in LateStages \union {"settle"} /\ main'.up = main.up
           /\ Shutdown => main.at \notin EarlyStages
           /\ main'.at = "settle" => main.at = "up"
           /\ main.at \in LateStages => main'.at \in LateStages
           /\ main.at \in OutStages => main'.at \in OutStages
<1>1. main \in Main
  BY TypeOKIs
<1> QED
  BY <1>1
  DEF Shutdown, Exit, RestoreResolver, StopTunWatchdog, DisarmRules, DeleteRules, Unroute, Join,
      Go, Main, LateStages, OutStages, EarlyStages, BootStages, Settled

-----------------------------------------------------------------------------
(* What a step of a request changes.                                       *)

LEMMA HandleMoves ==
    ASSUME TypeOK, PhaseInv, NEW r \in Handlers, Handle(r)
    PROVE  /\ req'[r].at \in Travel => req[r].at \in Travel
           /\ req'[r].op = "country" => req[r].op = "country" \/ req[r].at \in Travel
           /\ req'[r].at = "apply" /\ req'[r].op = "normal" => Activatable
           /\ req'[r].fw \in {"none", req[r].fw, prg.mgr, "late"}
           /\ req'[r].at = "activate" => StoreRelay(r) /\ prg.mgr # "none"
           /\ req'[r].at = "own" => SetupForRelay(r)
           /\ req[r].at = "own" => OwnRoutes(r)
           /\ req[r].at = "apply" => ApplyMode(r)
           /\ req[r].at = "activate" => ActivateForRelay(r)
<1>1. req \in [Handlers -> Request] /\ prg \in Program
  BY TypeOKIs
<1>2. CASE LockMode(r)
  <2>1. CASE End(r) \/ To(r, "persist")
    BY <1>1, <1>2, <2>1, RequestAfter DEF LockMode, At, Travel
  <2>2. CASE ~(End(r) \/ To(r, "persist"))
    <3> DEFINE i == IF prg.mgr = "none" THEN "late" ELSE prg.mgr
               q == IF req[r].op = "normal" THEN prg.relay ELSE None
               b == prg.mgr = "none" /\ prg.v6
               s == IF req[r].op = "normal" \/ windows THEN "apply" ELSE "disarm"
    <3>1. /\ req' = [req EXCEPT ![r].relay = q, ![r].fw = i, ![r].allow = b, ![r].at = s]
          /\ req[r].op = "normal" => Activatable
          /\ req[r].at = "lock"
      BY <1>2, <2>2 DEF LockMode, At
    <3>2. i \in {prg.mgr, "late"} /\ s \in {"apply", "disarm"}
      OBVIOUS
    <3> HIDE DEF i, q, b, s
    <3>3. req'[r].fw = i /\ req'[r].at = s /\ req'[r].op = req[r].op
      BY <1>1, <3>1 DEF Request
    <3> QED
      BY <3>1, <3>2, <3>3 DEF Travel
  <2> QED
    BY <2>1, <2>2
<1>3. CASE DisarmMode(r)
  BY <1>1, <1>3, RequestAfter DEF DisarmMode, At, Travel, PhaseInv, Equipped
<1>4. CASE ApplyMode(r)
  <2>1. PICK o, w :
          req' = [req EXCEPT ![r] = IF o.ok THEN [Idle EXCEPT !.op = req[r].op, !.at = "persist"]
                                    ELSE Idle]
    BY <1>4, ApplyModeIs
  <2>2. /\ req'[r].at \in {"persist", "idle"} /\ req'[r].fw = "none"
        /\ req'[r].op \in {"none", req[r].op}
    BY <1>1, <2>1 DEF Idle
  <2>3. req[r].at = "apply"
    BY <1>4 DEF ApplyMode, At
  <2> QED
    BY <1>4, <2>2, <2>3 DEF Travel
<1>5. CASE StoreRelay(r)
  <2>1. PICK q \in Relays, s \in {"activate", "unroute"} :
          /\ req' = [req EXCEPT ![r].relay = q, ![r].fw = prg.mgr, ![r].at = s]
          /\ s = "activate" => prg.mgr # "none"
    BY <1>5 DEF StoreRelay
  <2>2. req'[r].fw = prg.mgr /\ req'[r].at = s /\ req'[r].op = req[r].op
    BY <1>1, <2>1 DEF Request
  <2> QED
    BY <1>5, <2>1, <2>2 DEF StoreRelay, At, Travel
<1>6. CASE ActivateForRelay(r)
  <2>1. PICK o : Handed(r, o)
    BY <1>6, ActivateIs
  <2>2. req[r].at = "activate"
    BY <1>6 DEF ActivateForRelay, At
  <2> QED
    BY <1>1, <1>6, <2>1, <2>2, RequestGoesTo DEF Travel
<1>7. CASE SaveIPv6(r)
  <2>1. CASE End(r)
    BY <1>1, <1>7, <2>1, RequestAfter DEF SaveIPv6, At, Travel
  <2>2. CASE ~End(r)
    BY <1>1, <1>7, <2>2 DEF SaveIPv6, Request, At, Travel
  <2> QED
    BY <2>1, <2>2
<1>8. CASE Reconnected(r)
  <2>1. CASE End(r)
    BY <1>1, <1>8, <2>1, RequestAfter DEF Reconnected, At, Travel
  <2>2. CASE ~End(r)
    BY <1>1, <1>8, <2>2 DEF Reconnected, Idle, At, Travel
  <2> QED
    BY <2>1, <2>2
<1>9. CASE CheckCaptive(r) \/ PersistMode(r) \/ UndoMode(r) \/ ApplyIPv6(r)
  <2>1. End(r) \/ To(r, "lock") \/ To(r, "undo")
    BY <1>9 DEF CheckCaptive, PersistMode, UndoMode, ApplyIPv6
  <2>2. req[r].at \in {"check", "persist", "undo", "policy"}
    BY <1>9 DEF CheckCaptive, PersistMode, UndoMode, ApplyIPv6, At
  <2> QED
    BY <1>1, <2>1, <2>2, RequestAfter DEF Travel
<1>10. CASE TakeRoutes(r)
  <2>1. To(r, "reroute") \/ To(r, "check")
    BY <1>10 DEF TakeRoutes
  <2> QED
    BY <1>1, <1>10, <2>1, RequestAfter DEF TakeRoutes, At, Travel
<1>11. CASE SetupForRelay(r)
  <2>1. To(r, "own") \/ End(r)
    BY <1>11 DEF SetupForRelay
  <2> QED
    BY <1>1, <1>11, <2>1, RequestAfter DEF SetupForRelay, At, Travel
<1>12. CASE OwnRoutes(r)
  <2>1. req[r].at = "own"
    BY <1>12 DEF OwnRoutes, At
  <2> QED
    BY <1>1, <1>12, <2>1, RequestGoesTo DEF Travel
<1> QED
  BY <1>2, <1>3, <1>4, <1>5, <1>6, <1>7, <1>8, <1>9, <1>10, <1>11, <1>12 DEF Handle

LEMMA HandleChanges ==
    ASSUME TypeOK, PhaseInv, NEW r \in Handlers, Handle(r)
    PROVE  /\ prg'.relay = prg.relay \/ req[r].at = "store"
           /\ prg'.route = prg.route \/ req[r].at \in {"unroute", "own"}
           /\ prg'.tun = prg.tun /\ prg'.captive = prg.captive
           /\ prg'.mgr \in {prg.mgr, "late"} \/ prg'.mgr = req[r].fw
           /\ prg'.mgr = prg.mgr \/ (req[r].op = "normal" /\ req[r].at = "apply") \/ prg.relay # None
           /\ host'.routes = host.routes \/ req[r].at \in {"unroute", "reroute"}
           /\ host'.resolver = host.resolver /\ host'.tun = host.tun
           /\ host'.rules = host.rules \/ ApplyMode(r) \/ UndoMode(r) \/ ApplyIPv6(r) \/ ActivateForRelay(r)
           /\ fw'.altered = fw.altered
<1>1. prg \in Program /\ host \in Host /\ fw \in Firewalls
  BY TypeOKIs
<1>2. CASE ApplyMode(r)
  <2>1. PICK o, w :
             /\ Forced(o, req[r].fw, w, FailMay(o), FALSE)
             /\ req[r].op = "normal" =>
                  prg' = IF o.ok THEN [prg EXCEPT !.enabled = TRUE, !.mgr = req[r].fw] ELSE prg
             /\ req[r].op # "normal" =>
                  prg' = IF o.ok THEN [prg EXCEPT !.enabled = FALSE] ELSE prg
    BY <1>2, ApplyModeIs
  <2>2. req[r].at = "apply"
    BY <1>2 DEF ApplyMode, At
  <2>3. /\ prg'.relay = prg.relay /\ prg'.route = prg.route
        /\ prg'.tun = prg.tun /\ prg'.captive = prg.captive
        /\ prg'.mgr = prg.mgr \/ (req[r].op = "normal" /\ prg'.mgr = req[r].fw)
    BY <1>1, <2>1 DEF Program
  <2> QED
    BY <1>2, <2>1, <2>2, <2>3 DEF Forced, Outcome
<1>3. CASE UndoMode(r)
  <2>1. PICK o, w :
             /\ Forced(o, UndoObject, w, FailMay(o), FALSE)
             /\ w = Open \/ (w.mode = "full" /\ prg.relay # None)
             /\ req[r].op # "degraded" => prg' = [prg EXCEPT !.enabled = FALSE]
             /\ req[r].op = "degraded" =>
                  /\ prg' = IF o.ok THEN [prg EXCEPT !.enabled = TRUE, !.mgr = UndoObject]
                            ELSE [prg EXCEPT !.enabled = TRUE]
                  /\ o.ok => w.mode = "full"
    BY <1>3, UndoModeIs
  <2>2. /\ prg'.relay = prg.relay /\ prg'.route = prg.route
        /\ prg'.tun = prg.tun /\ prg'.captive = prg.captive
        /\ prg'.mgr = prg.mgr \/ (req[r].op = "degraded" /\ o.ok /\ prg'.mgr = UndoObject)
    BY <1>1, <2>1 DEF Program
  <2>3. prg'.mgr = prg.mgr \/ prg.relay # None
    BY <2>1, <2>2 DEF Open
  <2> QED
    BY <1>3, <2>1, <2>2, <2>3 DEF Forced, Outcome, UndoObject
<1>4. CASE ApplyIPv6(r)
  <2>1. PICK o, i, w :
             /\ Forced(o, i, w, Passing, FALSE)
             /\ prg' = IF o.ok THEN [prg EXCEPT !.v6 = req[r].allow] ELSE prg
    BY <1>4, ApplyIPv6Is
  <2>2. /\ prg'.relay = prg.relay /\ prg'.route = prg.route /\ prg'.mgr = prg.mgr
        /\ prg'.tun = prg.tun /\ prg'.captive = prg.captive
    BY <1>1, <2>1 DEF Program
  <2> QED
    BY <1>4, <2>1, <2>2 DEF Forced, Outcome
<1>5. CASE ActivateForRelay(r)
  BY <1>5, ActivateIs DEF Forced, Outcome
<1>6. CASE DisarmMode(r)
  BY <1>1, <1>6 DEF DisarmMode, Disarm, calm, Firewalls
<1>7. CASE CheckCaptive(r) \/ PersistMode(r) \/ SaveIPv6(r) \/ Reconnected(r)
  BY <1>7 DEF CheckCaptive, PersistMode, SaveIPv6, Reconnected
<1>8. CASE LockMode(r) \/ StoreRelay(r)
  <2>1. UNCHANGED <<host, fw>> /\ (prg' = prg \/ prg' = [prg EXCEPT !.enabled = FALSE]
                                   \/ (req[r].at = "store" /\ \E q : prg' = [prg EXCEPT !.relay = q]))
    BY <1>8 DEF LockMode, StoreRelay, At
  <2> QED
    BY <1>1, <2>1 DEF Program
<1>9. CASE TakeRoutes(r) \/ SetupForRelay(r) \/ OwnRoutes(r)
  BY <1>1, <1>9 DEF TakeRoutes, SetupForRelay, OwnRoutes, SetupRoutes, At, Program, Host
<1> QED
  BY <1>2, <1>3, <1>4, <1>5, <1>6, <1>7, <1>8, <1>9 DEF Handle

-----------------------------------------------------------------------------
(* BootInv is preserved.                                                   *)

LEMMA BootBoot ==
    ASSUME TypeOK, PhaseInv, BootInv, Boot
    PROVE  BootInv'
<1> USE DEF EarlyStages, BootStages, Settled
<1>1. UNCHANGED <<windows, stopping, locks, req, reco>>
  BY Frames
<1>2. /\ main.at \in EarlyStages \union {"proxy", "dns"}
      /\ main'.at \in EarlyStages \union {"proxy", "dns", "up", "disarm", "down"}
      /\ main'.at \in EarlyStages => main.at \in EarlyStages
      /\ main'.at \in Settled => main.at \in Settled
      /\ main'.at \in BootStages => main.at \in BootStages
      /\ main'.at = "up" \/ main'.up = main.up
      /\ main'.at # "preflight"
  BY BootMoves
<1>3. main \in Main /\ prg \in Program /\ host \in Host /\ fw \in Firewalls /\ guards \in Guards
      /\ watch \in Watcher /\ req \in [Handlers -> Request]
  BY TypeOKIs
<1>4. main'.up => main.up \/ main'.at = "up"
  BY <1>2
<1>5. ~main.up
  BY <1>2 DEF BootInv
<1>6. /\ main'.at \in EarlyStages => guards' = guards
      /\ main'.at \in BootStages => watch' = watch
  <2>1. CASE Connect \/ SetResolver \/ RaiseRules
    BY <1>3, <2>1 DEF Connect, SetResolver, RaiseRules, Go, Main
  <2>2. CASE ~(Connect \/ SetResolver \/ RaiseRules)
    BY <2>2
    DEF Boot, NoPortal, PortalWithoutLockdown, PortalLockdown, CaptiveCleared, CaptiveStopped,
        TunUp, TunFails, RouteUp, RelayUnresolved, CleanupOrphans, NoRulesWanted,
        GateRefuses, StartProxy, others
  <2> QED
    BY <2>1, <2>2
<1>7. /\ main'.at \in EarlyStages => ~main'.up /\ reco' = Calm /\ ~guards'.tun
      /\ main'.at \in {"proxy", "dns"} => ~main'.up
      /\ ~main'.up => \A r \in Handlers : req'[r].at \notin Travel /\ req'[r].op # "country"
      /\ main'.at \in BootStages => watch'.at = "off"
  BY <1>1, <1>2, <1>5, <1>6 DEF BootInv
<1>8. main'.at \in Settled =>
        /\ prg'.relay = None
        /\ prg'.mgr \in {"none", "captive"} /\ host'.rules.mode # "full"
        /\ \A i \in Objects : fw'.of[i].mode # "full"
        /\ \A r \in Handlers : ~(req'[r].op = "normal" /\ req'[r].at = "apply")
  <2>1. CASE PortalLockdown
    <3>1. PICK o : /\ Forced(o, "captive", Lockdown, {}, TRUE)
                   /\ prg' = [prg EXCEPT !.captive = TRUE, !.mgr = IF o.ok THEN "captive" ELSE @]
      BY <2>1, LockdownIs
    <3>2. main.at = "preflight"
      BY <2>1 DEF PortalLockdown
    <3>3. Lockdown.mode # "full"
      BY LockdownMode
    <3>4. prg'.relay = None /\ prg'.mgr \in {"none", "captive"}
      BY <1>3, <3>1, <3>2 DEF BootInv, Program
    <3>5. host'.rules.mode # "full" /\ \A i \in Objects : fw'.of[i].mode # "full"
      BY <3>1, <3>2, <3>3 DEF BootInv, Forced, Outcome
    <3> QED
      BY <1>1, <3>2, <3>4, <3>5 DEF BootInv
  <2>2. CASE CleanupOrphans \/ NoRulesWanted \/ RaiseRules
    BY <1>3, <2>2 DEF CleanupOrphans, NoRulesWanted, RaiseRules, Go, Main
  <2>3. CASE ~PortalLockdown /\ ~CleanupOrphans /\ ~NoRulesWanted /\ ~RaiseRules
    <3>1. prg'.relay = prg.relay /\ prg'.mgr = prg.mgr /\ host'.rules = host.rules /\ fw' = fw
      BY <1>3, <2>3
      DEF Boot, NoPortal, PortalWithoutLockdown, CaptiveCleared, CaptiveStopped,
          TunUp, TunFails, RouteUp, RelayUnresolved, GateRefuses,
          Connect, StartProxy, SetResolver, effects, Program, Host
    <3> QED
      BY <1>1, <1>2, <3>1 DEF BootInv
  <2> QED
    BY <2>1, <2>2, <2>3
<1>9. main'.at \in Settled \ {"orphans"} => host'.routes = None /\ ~prg'.route
  <2>1. CASE main.at \in Settled \ {"orphans"}
    <3>1. CASE PortalLockdown
      <4>1. PICK o : /\ Forced(o, "captive", Lockdown, {}, TRUE)
                     /\ prg' = [prg EXCEPT !.captive = TRUE, !.mgr = IF o.ok THEN "captive" ELSE @]
        BY <3>1, LockdownIs
      <4>2. prg'.route = prg.route /\ host'.routes = host.routes
        BY <1>3, <4>1 DEF Program, Forced
      <4> QED
        BY <2>1, <4>2 DEF BootInv
    <3>2. CASE RouteUp \/ RelayUnresolved
      BY <1>3, <3>2 DEF RouteUp, RelayUnresolved, Go, Main
    <3>3. CASE NoPortal \/ PortalWithoutLockdown \/ CaptiveCleared \/ CaptiveStopped \/ TunUp \/ TunFails
      <4>1. prg'.route = prg.route /\ host'.routes = host.routes
        BY <1>3, <3>3
        DEF NoPortal, PortalWithoutLockdown, CaptiveCleared, CaptiveStopped, TunUp, TunFails,
            effects, Program, Host
      <4> QED
        BY <2>1, <4>1 DEF BootInv
    <3>4. ~CleanupOrphans /\ ~NoRulesWanted /\ ~RaiseRules /\ ~GateRefuses /\ ~Connect /\ ~StartProxy /\ ~SetResolver
      BY <2>1 DEF CleanupOrphans, NoRulesWanted, RaiseRules, GateRefuses, Connect, StartProxy, SetResolver
    <3> QED
      BY <3>1, <3>2, <3>3, <3>4 DEF Boot
  <2>2. CASE main.at \notin Settled \ {"orphans"}
    <3>1. main'.at \notin Settled \ {"orphans"}
      BY <1>3, <2>2
      DEF Boot, NoPortal, PortalWithoutLockdown, PortalLockdown, CaptiveCleared, CaptiveStopped,
          TunUp, TunFails, RouteUp, RelayUnresolved, CleanupOrphans, NoRulesWanted, RaiseRules, GateRefuses,
          Connect, StartProxy, SetResolver, Go, Main
    <3> QED
      BY <3>1
  <2> QED
    BY <2>1, <2>2
<1>10. main'.at = "rules" => prg'.relay = main'.relay
  <2>1. main'.at = "rules" => CleanupOrphans
    <3>1. CASE PortalLockdown
      BY <1>3, <3>1, LockdownIs DEF Main
    <3>2. CASE ~PortalLockdown
      BY <1>3, <3>2
      DEF Boot, NoPortal, PortalWithoutLockdown, CaptiveCleared, CaptiveStopped,
          TunUp, TunFails, RouteUp, RelayUnresolved, NoRulesWanted, RaiseRules, GateRefuses,
          Connect, StartProxy, SetResolver, Go, Main
    <3> QED
      BY <3>1, <3>2
  <2>2. CASE CleanupOrphans
    BY <1>3, <2>2 DEF CleanupOrphans, Go, Main, Program
  <2> QED
    BY <2>1, <2>2
<1>11. main'.at \in EarlyStages /\ Alive' /\ watch'.at = "off" =>
         /\ ~fw'.armed /\ prg'.mgr # "boot"
         /\ \A r \in Handlers : req'[r].fw # "boot"
  <2> SUFFICES ASSUME main'.at \in EarlyStages, Alive', watch'.at = "off"
               PROVE  ~fw'.armed /\ prg'.mgr # "boot" /\ \A r \in Handlers : req'[r].fw # "boot"
    OBVIOUS
  <2>1. CASE RaiseRules
    <3>1. PICK o : /\ Forced(o, "boot", Full(main.relay, fw.of["boot"].v6), RaiseMay, TRUE)
                   /\ prg' = IF o.ok THEN [prg EXCEPT !.mgr = "boot"] ELSE prg
                   /\ watch' = IF o.ok THEN [watch EXCEPT !.at = "idle"] ELSE watch
      BY <2>1, RaiseIs
    <3>2. ~o.ok /\ o.ok \in BOOLEAN
      BY <1>3, <3>1 DEF Watcher, Forced, Outcome
    <3>3. watch' = watch /\ prg' = prg /\ (fw'.armed => fw.armed)
      BY <3>1, <3>2 DEF Forced, Outcome
    <3> QED
      BY <1>1, <1>2, <3>3 DEF BootInv, Alive
  <2>2. CASE PortalLockdown
    <3>1. PICK o : /\ Forced(o, "captive", Lockdown, {}, TRUE)
                   /\ prg' = [prg EXCEPT !.captive = TRUE, !.mgr = IF o.ok THEN "captive" ELSE @]
                   /\ UNCHANGED others
      BY <2>2, LockdownIs
    <3>2. (fw'.armed => fw.armed) /\ prg'.mgr \in {prg.mgr, "captive"} /\ watch' = watch
      BY <1>3, <3>1 DEF Forced, Outcome, Program, others
    <3> QED
      BY <1>1, <1>2, <3>2 DEF BootInv, Alive
  <2>3. CASE ~RaiseRules /\ ~PortalLockdown
    <3>1. fw'.armed = fw.armed /\ prg'.mgr = prg.mgr /\ watch' = watch
      BY <1>3, <2>3
      DEF Boot, NoPortal, PortalWithoutLockdown, CaptiveCleared, CaptiveStopped,
          TunUp, TunFails, RouteUp, RelayUnresolved, CleanupOrphans, NoRulesWanted, GateRefuses,
          Connect, StartProxy, SetResolver, others, effects, Program, Firewalls
    <3> QED
      BY <1>1, <1>2, <3>1 DEF BootInv, Alive
  <2> QED
    BY <2>1, <2>2, <2>3
<1> QED
  BY <1>2, <1>7, <1>8, <1>9, <1>10, <1>11 DEF BootInv

LEMMA ShutdownBoot ==
    ASSUME TypeOK, PhaseInv, BootInv, Shutdown \/ Exit
    PROVE  BootInv'
<1>1. main'.at \in LateStages \union {"settle"} /\ main'.up = main.up
  BY ShutdownMoves
<1>2. main'.at \notin EarlyStages \union {"proxy", "dns"}
  BY <1>1 DEF LateStages, EarlyStages, BootStages, Settled
<1>3. ~main'.up => \A r \in Handlers : req'[r].at \notin Travel /\ req'[r].op # "country"
  <2>1. CASE Shutdown
    BY <1>1, <2>1, Frames DEF BootInv
  <2>2. CASE Exit
    BY <2>2 DEF Exit, Idle, Travel
  <2> QED
    BY <2>1, <2>2
<1> QED
  BY <1>2, <1>3 DEF BootInv, EarlyStages, BootStages, Settled

LEMMA HandleBoot ==
    ASSUME TypeOK, PhaseInv, BootInv, NEW r \in Handlers, Handle(r)
    PROVE  BootInv'
<1>1. UNCHANGED calm /\ \A s \in Handlers \ {r} : req'[s] = req[s]
  BY Frames, RequestFrame
<1>2. prg \in Program /\ host \in Host /\ fw \in Firewalls /\ req \in [Handlers -> Request]
  BY TypeOKIs
<1>3. Settled \subseteq EarlyStages /\ "rules" \in EarlyStages /\ BootStages \subseteq EarlyStages
      /\ "preflight" \in Settled
  BY DEF EarlyStages, BootStages, Settled
<1>4. /\ req'[r].at \in Travel => req[r].at \in Travel
      /\ req'[r].op = "country" => req[r].op = "country" \/ req[r].at \in Travel
      /\ req'[r].at = "apply" /\ req'[r].op = "normal" => Activatable
      /\ req'[r].fw \in {"none", req[r].fw, prg.mgr, "late"}
  BY HandleMoves
<1>5. /\ prg'.relay = prg.relay \/ req[r].at = "store"
      /\ prg'.route = prg.route \/ req[r].at \in {"unroute", "own"}
      /\ prg'.mgr \in {prg.mgr, "late"} \/ prg'.mgr = req[r].fw
      /\ prg'.mgr = prg.mgr \/ (req[r].op = "normal" /\ req[r].at = "apply") \/ prg.relay # None
      /\ host'.routes = host.routes \/ req[r].at \in {"unroute", "reroute"}
  BY HandleChanges
<1>6. ~main.up => \A s \in Handlers : req'[s].at \notin Travel /\ req'[s].op # "country"
  BY <1>1, <1>4 DEF BootInv
<1>7. main.at \in EarlyStages => ~main.up /\ req[r].at \notin Travel /\ req[r].op # "country"
  BY DEF BootInv
<1>8. main.at \in EarlyStages => prg'.relay = prg.relay /\ prg'.route = prg.route /\ host'.routes = host.routes
  BY <1>5, <1>7 DEF Travel
<1>9. main.at \in Settled => prg'.mgr = prg.mgr
  BY <1>5 DEF BootInv
<1>10. main.at \in Settled =>
         host'.rules.mode # "full" /\ \A i \in Objects : fw'.of[i].mode # "full"
  <2> SUFFICES ASSUME main.at \in Settled
               PROVE  host'.rules.mode # "full" /\ \A i \in Objects : fw'.of[i].mode # "full"
    OBVIOUS
  <2>1. /\ prg.relay = None /\ prg.mgr \in {"none", "captive"} /\ host.rules.mode # "full"
        /\ \A i \in Objects : fw.of[i].mode # "full"
        /\ ~(req[r].op = "normal" /\ req[r].at = "apply")
    BY DEF BootInv
  <2>2. ASSUME NEW o, NEW i, NEW w, NEW may, NEW owned, Forced(o, i, w, may, owned), w.mode # "full"
        PROVE  host'.rules.mode # "full" /\ \A j \in Objects : fw'.of[j].mode # "full"
    BY <2>1, <2>2 DEF Forced, Outcome
  <2>3. Open.mode # "full"
    BY DEF Open
  <2>4. CASE ApplyMode(r)
    <3>1. req[r].op # "normal"
      BY <2>1, <2>4 DEF ApplyMode, At
    <3>2. PICK o, w : Forced(o, req[r].fw, w, FailMay(o), FALSE) /\ w = Open
      BY <2>4, <3>1, ApplyModeIs
    <3> QED
      BY <2>2, <2>3, <3>2
  <2>5. CASE UndoMode(r)
    <3>1. PICK o, w : Forced(o, UndoObject, w, FailMay(o), FALSE)
                      /\ (w = Open \/ (w.mode = "full" /\ prg.relay # None))
      BY <2>5, UndoModeIs
    <3> QED
      BY <2>1, <2>2, <2>3, <3>1
  <2>6. CASE ApplyIPv6(r)
    <3>1. PICK o, i, w : /\ Forced(o, i, w, Passing, FALSE)
                         /\ i = prg.mgr \/ (prg.mgr = "none" /\ w = host.rules /\ o.fw = fw)
                         /\ i = prg.mgr => w.mode = fw.of[i].mode
      BY <2>6, ApplyIPv6Is
    <3>2. w.mode # "full"
      BY <2>1, <3>1 DEF Forced
    <3> QED
      BY <2>2, <3>1, <3>2
  <2>7. ~ActivateForRelay(r) /\ ~StoreRelay(r)
    <3>1. req[r].at \notin {"activate", "store"}
      BY <1>3, <1>7 DEF Travel
    <3> QED
      BY <3>1 DEF ActivateForRelay, StoreRelay, At
  <2>8. CASE DisarmMode(r)
    BY <1>2, <2>1, <2>8 DEF DisarmMode, Disarm, Firewalls
  <2>9. CASE CheckCaptive(r) \/ LockMode(r) \/ PersistMode(r) \/ SaveIPv6(r) \/ TakeRoutes(r)
             \/ SetupForRelay(r) \/ OwnRoutes(r) \/ Reconnected(r)
    <3>1. fw' = fw /\ host'.rules = host.rules
      BY <1>2, <2>9
      DEF CheckCaptive, LockMode, PersistMode, SaveIPv6, TakeRoutes, SetupForRelay, SetupRoutes,
          OwnRoutes, Reconnected, Host
    <3> QED
      BY <2>1, <3>1
  <2> QED
    BY <2>4, <2>5, <2>6, <2>7, <2>8, <2>9 DEF Handle
<1>11. main.at \in Settled => \A s \in Handlers : ~(req'[s].op = "normal" /\ req'[s].at = "apply")
  BY <1>1, <1>4 DEF BootInv, Activatable
<1>12. main.at \in EarlyStages /\ Alive /\ watch.at = "off" =>
         /\ ~fw'.armed /\ prg'.mgr # "boot" /\ \A s \in Handlers : req'[s].fw # "boot"
  <2> SUFFICES ASSUME main.at \in EarlyStages, Alive, watch.at = "off"
               PROVE  ~fw'.armed /\ prg'.mgr # "boot" /\ \A s \in Handlers : req'[s].fw # "boot"
    OBVIOUS
  <2>1. ~fw.armed /\ prg.mgr # "boot" /\ \A s \in Handlers : req[s].fw # "boot"
    BY DEF BootInv
  <2>2. prg'.mgr # "boot" /\ \A s \in Handlers : req'[s].fw # "boot"
    BY <1>1, <1>4, <1>5, <2>1
  <2>3. ASSUME NEW o, NEW i, NEW w, NEW may, NEW owned, Forced(o, i, w, may, owned), i # "boot"
        PROVE  ~fw'.armed
    BY <2>1, <2>3 DEF Forced, Outcome
  <2>4. ~fw'.armed
    <3>1. CASE ApplyMode(r)
      BY <2>1, <2>3, <3>1, ApplyModeIs
    <3>2. CASE UndoMode(r)
      BY <2>1, <2>3, <3>2, UndoModeIs DEF UndoObject
    <3>3. CASE ApplyIPv6(r)
      <4>1. PICK o, i, w : /\ Forced(o, i, w, Passing, FALSE)
                           /\ i = prg.mgr \/ (prg.mgr = "none" /\ w = host.rules /\ o.fw = fw)
        BY <3>3, ApplyIPv6Is
      <4> QED
        BY <2>1, <2>3, <4>1 DEF Forced
    <3>4. CASE ActivateForRelay(r)
      BY <2>1, <2>3, <3>4, ActivateIs
    <3>5. CASE DisarmMode(r)
      BY <1>2, <2>1, <3>5 DEF DisarmMode, Disarm, Firewalls
    <3>6. CASE CheckCaptive(r) \/ LockMode(r) \/ PersistMode(r) \/ SaveIPv6(r) \/ TakeRoutes(r)
               \/ SetupForRelay(r) \/ OwnRoutes(r) \/ Reconnected(r) \/ StoreRelay(r)
      <4>1. fw' = fw
        BY <3>6
        DEF CheckCaptive, LockMode, PersistMode, SaveIPv6, TakeRoutes, SetupForRelay,
            OwnRoutes, Reconnected, StoreRelay
      <4> QED
        BY <2>1, <4>1
    <3> QED
      BY <3>1, <3>2, <3>3, <3>4, <3>5, <3>6 DEF Handle
  <2> QED
    BY <2>2, <2>4
<1>13. UNCHANGED <<main, reco, guards, watch, stopping>>
  BY <1>1 DEF calm
<1> QED
  BY <1>3, <1>6, <1>8, <1>9, <1>10, <1>11, <1>12, <1>13 DEF BootInv, Alive

LEMMA RecoveryComesLater ==
    ASSUME BootInv, main.at \in EarlyStages
    PROVE  ~Recover /\ ~RecoveryStarts
<1>1. reco.at = "idle" /\ ~guards.tun /\ main.at # "up"
  BY DEF BootInv, Calm, EarlyStages, BootStages, Settled
<1> QED
  BY <1>1
  DEF Recover, CloseDevice, NewDevice, KeepDevice, ReadRelay, ReadMode, ReadManager,
      RecoverRules, DropRoutes, RecoverRoutes,
      KeepRoutes, RecoveryStarts

\* Only the end of the context makes the watcher leave.
LEMMA WatcherLeaves ==
    ASSUME TypeOK, PhaseInv, Watch, watch'.at = "off"
    PROVE  stopping
<1>1. watch \in Watcher /\ watch.at # "off"
  BY TypeOKIs DEF Watch, WatcherWakes, WatcherDisarms, WatcherLifts, WatcherRestores
<1>2. CASE WatcherWakes
  <2> DEFINE s == IF windows THEN "lift" ELSE "disarm"
  <2>1. \/ stopping \/ watch' = watch
        \/ watch' = [watch EXCEPT !.at = s, !.fw = prg.mgr, !.tun = prg.tun]
    BY <1>2 DEF WatcherWakes
  <2>2. s # "off"
    OBVIOUS
  <2> HIDE DEF s
  <2> QED
    BY <1>1, <2>1, <2>2 DEF Watcher
<1>3. CASE WatcherDisarms
  BY <1>1, <1>3 DEF WatcherDisarms, Watcher
<1>4. CASE WatcherLifts
  BY <1>1, <1>4, LiftIs DEF Watcher, Watching, Unwatched
<1>5. CASE WatcherRestores
  BY <1>5 DEF WatcherRestores, Watching, Unwatched
<1> QED
  BY <1>2, <1>3, <1>4, <1>5 DEF Watch

LEMMA RecoverBoot ==
    ASSUME TypeOK, PhaseInv, BootInv, Recover \/ RecoveryStarts
    PROVE  BootInv'
<1>1. UNCHANGED recovering
  BY Frames
<1>2. main.at \notin EarlyStages
  BY RecoveryComesLater
<1> QED
  BY <1>1, <1>2 DEF BootInv, recovering, EarlyStages, BootStages, Settled

LEMMA OtherBoot ==
    ASSUME TypeOK, PhaseInv, BootInv, Watch \/ WatchdogPoll \/ CheckResolver \/ Environment
    PROVE  BootInv'
<1>1. req \in [Handlers -> Request] /\ fw \in Firewalls /\ host \in Host /\ guards \in Guards
      /\ watch \in Watcher
  BY TypeOKIs
<1>2. CASE Watch
  <2>1. UNCHANGED watching
    BY <1>2, Frames
  <2>2. watch.at # "off"
    BY <1>2 DEF Watch, WatcherWakes, WatcherDisarms, WatcherLifts, WatcherRestores
  <2>3. main.at \notin BootStages
    BY <2>2 DEF BootInv
  <2>4. watch'.at = "off" => ~Alive
    BY <1>2, WatcherLeaves DEF Alive
  <2> QED
    BY <2>1, <2>3, <2>4 DEF BootInv, watching, BootStages, Settled, Alive
<1>3. CASE WatchdogPoll
  <2>1. fw'.of = fw.of /\ fw'.armed = fw.armed
    BY <1>1, <1>3 DEF WatchdogPoll, Firewalls
  <2> QED
    BY <1>3, <2>1, Frames DEF BootInv, Alive
<1>4. CASE CheckResolver
  <2>1. host'.rules = host.rules /\ host'.routes = host.routes /\ guards'.tun = guards.tun
    BY <1>1, <1>4 DEF CheckResolver, Host, Guards
  <2> QED
    BY <1>4, <2>1, Frames DEF BootInv, Alive
<1>5. CASE RulesDeleted \/ DeviceDeleted \/ ResolverChanged
  <2>1. host'.routes = host.routes /\ host'.rules \in {host.rules, Open} /\ guards' = guards
    BY <1>1, <1>5, OpenedIs DEF RulesDeleted, DeviceDeleted, ResolverChanged, Host
  <2>2. Open.mode # "full"
    BY DEF Open
  <2>3. host.rules.mode # "full" => host'.rules.mode # "full"
    BY <2>1, <2>2
  <2> QED
    BY <1>5, <2>1, <2>3, Frames DEF BootInv, Alive
<1>6. CASE Stop
  <2>1. UNCHANGED <<prg, host, fw, main, req, reco, guards>> /\ ~Alive'
        /\ (watch.at = "off" => watch'.at = "off")
    BY <1>6 DEF Stop, Alive, Unwatched
  <2> QED
    BY <2>1 DEF BootInv
<1>7. CASE ModeRequested \/ IPv6Requested \/ CountryRequested
  <2>1. PICK op \in {"normal", "degraded", "ipv6", "country"}, at \in {"check", "save", "store"} :
          Receive(op, at) /\ (main.up \/ (op # "country" /\ at # "store"))
    BY <1>7 DEF ModeRequested, IPv6Requested, CountryRequested
  <2>2. PICK r \in Handlers : req' = [req EXCEPT ![r] = [Idle EXCEPT !.op = op, !.at = at]]
    BY <2>1, Arrivals
  <2>3. /\ \A s \in Handlers \ {r} : req'[s] = req[s]
        /\ req'[r].fw = "none" /\ req'[r].at = at /\ req'[r].op = op
    BY <1>1, <2>2 DEF Idle
  <2>4. UNCHANGED <<windows, prg, host, fw, main, stopping, locks, reco, watch, guards, drift>>
    BY <1>7, Frames
  <2>5. ~main.up => \A s \in Handlers : req'[s].at \notin Travel /\ req'[s].op # "country"
    BY <2>1, <2>3 DEF BootInv, Travel
  <2>6. main.at \in Settled => \A s \in Handlers : ~(req'[s].op = "normal" /\ req'[s].at = "apply")
    BY <2>1, <2>3 DEF BootInv
  <2>7. main.at \in EarlyStages /\ Alive /\ watch.at = "off" => \A s \in Handlers : req'[s].fw # "boot"
    BY <2>3 DEF BootInv
  <2> QED
    BY <2>4, <2>5, <2>6, <2>7 DEF BootInv, Alive
<1> QED
  BY <1>2, <1>3, <1>4, <1>5, <1>6, <1>7 DEF Environment

LEMMA BootInit == Init => BootInv
<1> SUFFICES ASSUME Init PROVE BootInv
  OBVIOUS
<1>1. /\ main.at = "preflight" /\ ~main.up /\ reco = Calm /\ ~guards.tun /\ watch.at = "off"
      /\ host.routes = None /\ host.rules.mode = "open" /\ ~fw.armed
      /\ \A i \in Objects : fw.of[i].mode = "open"
  BY DEF Init, Unwatched, Open
<1>2. prg.relay = None /\ prg.mgr = "none" /\ ~prg.route
  BY DEF Init
<1>3. \A r \in Handlers : req[r].at = "idle" /\ req[r].op = "none" /\ req[r].fw = "none"
  BY DEF Init, Idle
<1> QED
  BY <1>1, <1>2, <1>3 DEF BootInv, Travel

LEMMA BootStep == TypeOK /\ PhaseInv /\ BootInv /\ [Next]_vars => BootInv'
<1> SUFFICES ASSUME TypeOK, PhaseInv, BootInv, [Next]_vars PROVE BootInv'
  OBVIOUS
<1>1. CASE UNCHANGED vars
  BY <1>1 DEF vars, BootInv, Alive
<1>2. CASE Next
  BY <1>1, <1>2, BootBoot, ShutdownBoot, HandleBoot, RecoverBoot, OtherBoot DEF Next, Exited
<1> QED
  BY <1>1, <1>2

-----------------------------------------------------------------------------
(* OwnedInv is preserved.                                                  *)

LEMMA OwnedInit == Init => OwnedInv
<1> SUFFICES ASSUME Init PROVE OwnedInv
  OBVIOUS
<1>1. main.at = "preflight" /\ guards.dns = "off" /\ reco = Calm /\ watch.at = "off"
  BY DEF Init, Unwatched
<1>2. \A r \in Handlers : req[r].at = "idle"
  BY DEF Init, Idle
<1> QED
  BY <1>1, <1>2 DEF OwnedInv, LateStages

LEMMA BootOwned ==
    ASSUME TypeOK, PhaseInv, BootInv, OwnedInv, Boot, Next
    PROVE  OwnedInv'
<1>1. /\ main.at \in EarlyStages \union {"proxy", "dns"}
      /\ main'.at \in EarlyStages \union {"proxy", "dns", "up", "disarm", "down"}
      /\ main'.at = "up" \/ main'.up = main.up
  BY BootMoves
<1>2. UNCHANGED <<windows, stopping, locks, req, reco>>
  BY Frames
<1>3. main \in Main /\ guards \in Guards /\ watch \in Watcher
  BY TypeOKIs
<1>4. ~main.up /\ main'.at # "exited" /\ (main'.at \in LateStages => ~main'.up)
  BY <1>1 DEF BootInv, EarlyStages, BootStages, Settled, LateStages
<1>5. main'.at # "up" => guards'.dns = "off"
  <2>1. main.at # "up"
    BY <1>1 DEF EarlyStages, BootStages, Settled
  <2>2. CASE SetResolver
    BY <1>3, <2>1, <2>2 DEF SetResolver, OwnedInv, Go, Main, Guards
  <2>3. CASE ~SetResolver
    <3>1. guards'.dns = guards.dns
      BY <1>3, <2>3
      DEF Boot, NoPortal, PortalWithoutLockdown, PortalLockdown, CaptiveCleared, CaptiveStopped,
          TunUp, TunFails, RouteUp, RelayUnresolved, CleanupOrphans, NoRulesWanted, RaiseRules, GateRefuses,
          Connect, StartProxy, others, Guards
    <3> QED
      BY <2>1, <3>1 DEF OwnedInv
  <2> QED
    BY <2>2, <2>3
<1>6. main.at \notin OutStages /\ ~DeleteRules
  BY <1>1 DEF EarlyStages, BootStages, Settled, OutStages, DeleteRules
<1>7. prg.mgr # "none" => prg'.mgr # "none"
  BY <1>6, ManagerStays
<1>8. watch'.at \in {"disarm", "lift", "restore"} => watch.at \in {"disarm", "lift", "restore"}
  <2>1. watch' = watch \/ watch' = [watch EXCEPT !.at = "idle"]
    BY
    DEF Boot, NoPortal, PortalWithoutLockdown, PortalLockdown, CaptiveCleared, CaptiveStopped,
        TunUp, TunFails, RouteUp, RelayUnresolved, CleanupOrphans, NoRulesWanted, RaiseRules, GateRefuses,
        Connect, StartProxy, SetResolver, others
  <2> QED
    BY <1>3, <2>1 DEF Watcher
<1> QED
  BY <1>2, <1>4, <1>5, <1>6, <1>7, <1>8 DEF OwnedInv

LEMMA ShutdownOwned ==
    ASSUME TypeOK, PhaseInv, BootInv, OwnedInv, Shutdown \/ Exit, Next
    PROVE  OwnedInv'
<1>1. /\ main'.at \in LateStages \union {"settle"} /\ main'.up = main.up
      /\ main'.at = "settle" => main.at = "up"
      /\ main.at \in OutStages => main'.at \in OutStages
  BY ShutdownMoves
<1>2. main \in Main /\ guards \in Guards /\ fw \in Firewalls /\ req \in [Handlers -> Request]
  BY TypeOKIs
<1>3. CASE Exit
  <2>1. /\ stopping' /\ reco' = Calm /\ watch' = Unwatched /\ ~fw'.armed
        /\ req' = [r \in Handlers |-> Idle] /\ guards' = [tun |-> FALSE, dns |-> "off"]
        /\ main'.at = "exited"
    BY <1>2, <1>3 DEF Exit, Go, Main, Firewalls
  <2>2. ~reco'.byTun /\ ~guards'.tun /\ guards'.dns = "off"
    BY <2>1 DEF Calm
  <2> QED
    BY <2>1, <2>2 DEF OwnedInv, OutStages
<1>4. CASE Shutdown
  <2>1. UNCHANGED <<windows, stopping, locks, req, reco, watch>>
    BY <1>4, Frames
  <2>2. main'.at # "exited"
    BY <1>2, <1>4
    DEF Shutdown, RestoreResolver, StopTunWatchdog, DisarmRules, DeleteRules, Unroute, Join, Go, Main
  <2>3. guards'.dns = "off"
    BY <1>2, <1>4
    DEF Shutdown, RestoreResolver, StopTunWatchdog, DisarmRules, DeleteRules, Unroute, Join,
        others, OwnedInv, Guards
  <2>4. main'.up /\ main'.at \in LateStages => ~guards'.tun /\ ~reco'.byTun
    <3>1. CASE StopTunWatchdog
      <4>1. ~guards'.tun
        BY <1>2, <3>1 DEF StopTunWatchdog, Guards
      <4>2. ~reco.byTun
        BY <3>1 DEF StopTunWatchdog, OwnedInv, Calm
      <4> QED
        BY <2>1, <4>1, <4>2
    <3>2. CASE RestoreResolver
      BY <1>2, <3>2 DEF RestoreResolver, Go, Main, LateStages
    <3>3. CASE DisarmRules \/ DeleteRules \/ Unroute \/ Join
      <4>1. main.at \in LateStages /\ guards' = guards
        BY <3>3 DEF DisarmRules, DeleteRules, Unroute, Join, others, LateStages
      <4> QED
        BY <1>1, <2>1, <4>1 DEF OwnedInv
    <3> QED
      BY <1>4, <3>1, <3>2, <3>3 DEF Shutdown
  <2>5. main'.at \notin OutStages => main.at \notin OutStages /\ ~DeleteRules
    BY <1>1, <1>2 DEF DeleteRules, Go, Main, OutStages
  <2>6. main'.at \notin OutStages /\ prg.mgr # "none" => prg'.mgr # "none"
    BY <2>5, ManagerStays
  <2> QED
    BY <2>1, <2>2, <2>3, <2>4, <2>5, <2>6 DEF OwnedInv
<1> QED
  BY <1>3, <1>4

LEMMA HandleOwned ==
    ASSUME TypeOK, PhaseInv, BootInv, OwnedInv, NEW r \in Handlers, Handle(r), Next
    PROVE  OwnedInv'
<1>1. UNCHANGED calm /\ \A s \in Handlers \ {r} : req'[s] = req[s]
  BY Frames, RequestFrame
<1>2. main.at # "exited"
  <2>1. req[r].at # "idle"
    BY
    DEF Handle, CheckCaptive, LockMode, DisarmMode, ApplyMode, PersistMode, UndoMode, SaveIPv6,
        ApplyIPv6, StoreRelay, ActivateForRelay, TakeRoutes, SetupForRelay, OwnRoutes, Reconnected, At
  <2> QED
    BY <2>1 DEF OwnedInv, Idle
<1>3. main.at \notin OutStages /\ prg.mgr # "none" => prg'.mgr # "none"
  <2>1. ~DeleteRules
    BY <1>1, TypeOKIs DEF DeleteRules, Go, calm, Main
  <2> QED
    BY <2>1, ManagerStays
<1>4. req'[r].at = "activate" => prg.mgr # "none"
  BY HandleMoves
<1> QED
  BY <1>1, <1>2, <1>3, <1>4 DEF OwnedInv, calm

LEMMA RecoverOwned ==
    ASSUME TypeOK, PhaseInv, BootInv, OwnedInv, Recover \/ RecoveryStarts, Next
    PROVE  OwnedInv'
<1>1. UNCHANGED recovering
  BY Frames
<1>2. reco \in Recovery
  BY TypeOKIs
<1>3. main.at # "exited"
  BY
  DEF OwnedInv, Calm, Recover, CloseDevice, NewDevice, KeepDevice, ReadRelay, ReadMode, ReadManager,
      RecoverRules, DropRoutes,
      RecoverRoutes, KeepRoutes, RecoveryStarts, Alive
<1>4. main.at \notin OutStages /\ prg.mgr # "none" => prg'.mgr # "none"
  <2>1. ~DeleteRules
    BY <1>1, TypeOKIs DEF DeleteRules, Go, recovering, Main
  <2> QED
    BY <2>1, ManagerStays
<1>5. \A s : Step(s) => reco'.at = s /\ reco'.byTun = reco.byTun
  BY <1>2 DEF Step, Recovery
<1>6. /\ reco'.at = "idle" => reco' = Calm
      /\ reco'.byTun => reco.byTun \/ guards.tun
  <2>1. CASE RecoveryStarts
    BY <2>1 DEF RecoveryStarts, Calm
  <2>2. CASE RecoverRules
    <3>1. Step("keep") \/ Step("drop")
      BY <2>2, RecoverIs
    <3> QED
      BY <1>5, <3>1
  <2>3. CASE KeepDevice \/ ReadRelay \/ ReadMode \/ ReadManager \/ DropRoutes
    <3>1. \/ reco' = Calm
          \/ /\ reco'.byTun = reco.byTun
             /\ reco'.at \in {"relay", "mode", "mgr", "fw", "drop", "setup"}
      BY <1>2, <2>3 DEF KeepDevice, ReadRelay, ReadMode, ReadManager, DropRoutes, Step, Recovery
    <3>2. CASE reco' = Calm
      BY <3>2 DEF Calm
    <3> QED
      BY <3>1, <3>2
  <2>4. CASE CloseDevice \/ NewDevice \/ RecoverRoutes \/ KeepRoutes
    <3>1. reco' = Calm \/ \E s \in {"new", "check", "own"} : Step(s)
      BY <2>4 DEF CloseDevice, NewDevice, RecoverRoutes, KeepRoutes
    <3>2. CASE reco' = Calm
      BY <3>2 DEF Calm
    <3> QED
      BY <1>5, <3>1, <3>2
  <2> QED
    BY <2>1, <2>2, <2>3, <2>4 DEF Recover
<1> QED
  BY <1>1, <1>3, <1>4, <1>6 DEF OwnedInv, recovering

LEMMA OtherOwned ==
    ASSUME TypeOK, PhaseInv, BootInv, OwnedInv, main.at # "exited",
           Watch \/ WatchdogPoll \/ CheckResolver \/ Environment
    PROVE  OwnedInv'
<1>1. req \in [Handlers -> Request] /\ guards \in Guards /\ watch \in Watcher
  BY TypeOKIs
<1>2. CASE Watch
  <2>1. UNCHANGED watching
    BY <1>2, Frames
  <2>2. watch'.at \in {"disarm", "lift", "restore"} =>
          watch.at \in {"disarm", "lift", "restore"} \/ prg.mgr # "none"
    <3>1. CASE WatcherWakes
      BY <1>1, <3>1 DEF WatcherWakes, Unwatched
    <3>2. CASE WatcherDisarms \/ WatcherLifts \/ WatcherRestores
      BY <3>2 DEF WatcherDisarms, WatcherLifts, WatcherRestores
    <3> QED
      BY <1>2, <3>1, <3>2 DEF Watch
  <2> QED
    BY <2>1, <2>2 DEF OwnedInv, watching
<1>3. CASE WatchdogPoll
  BY <1>3, Frames DEF OwnedInv
<1>4. CASE CheckResolver
  <2>1. guards'.tun = guards.tun /\ guards.dns # "off"
    BY <1>1, <1>4 DEF CheckResolver, Guards
  <2> QED
    BY <1>4, <2>1, Frames DEF OwnedInv, LateStages
<1>5. CASE RulesDeleted \/ DeviceDeleted \/ ResolverChanged
  <2>1. guards' = guards
    BY <1>5 DEF RulesDeleted, DeviceDeleted, ResolverChanged
  <2> QED
    BY <1>5, <2>1, Frames DEF OwnedInv
<1>6. CASE Stop
  <2>1. UNCHANGED <<prg, host, fw, main, req, reco, guards>> /\ (watch' = watch \/ watch'.at = "off")
    BY <1>6 DEF Stop, Unwatched
  <2> QED
    BY <2>1 DEF OwnedInv
<1>7. CASE ModeRequested \/ IPv6Requested \/ CountryRequested
  <2>1. PICK op \in {"normal", "degraded", "ipv6", "country"}, at \in {"check", "save", "store"} :
          Receive(op, at)
    BY <1>7 DEF ModeRequested, IPv6Requested, CountryRequested
  <2>2. PICK r \in Handlers : req' = [req EXCEPT ![r] = [Idle EXCEPT !.op = op, !.at = at]]
    BY <2>1, Arrivals
  <2>3. \A s \in Handlers : req'[s].at = "activate" => req[s].at = "activate"
    BY <1>1, <2>2 DEF Idle
  <2> QED
    BY <1>7, <2>3, Frames DEF OwnedInv
<1> QED
  BY <1>2, <1>3, <1>4, <1>5, <1>6, <1>7 DEF Environment

LEMMA OwnedStep == TypeOK /\ PhaseInv /\ BootInv /\ OwnedInv /\ [Next]_vars => OwnedInv'
<1> SUFFICES ASSUME TypeOK, PhaseInv, BootInv, OwnedInv, [Next]_vars PROVE OwnedInv'
  OBVIOUS
<1>1. CASE UNCHANGED vars
  BY <1>1 DEF vars, OwnedInv
<1>2. CASE main.at = "exited"
  BY <1>1, <1>2, NobodyLeft
<1>3. CASE Next /\ main.at # "exited"
  BY <1>1, <1>3, BootOwned, ShutdownOwned, HandleOwned, RecoverOwned, OtherOwned DEF Next, Exited
<1> QED
  BY <1>1, <1>2, <1>3

-----------------------------------------------------------------------------
(* HostInv is preserved.                                                   *)

LEMMA HostInit == Init => HostInv
BY DEF Init, HostInv, OutStages

LEMMA CleanBefore ==
    ASSUME TypeOK, PhaseInv, [Next]_vars, Clean'
    PROVE  Clean
BY LastingStays DEF Clean

LEMMA BootHost ==
    ASSUME TypeOK, PhaseInv, BootInv, OwnedInv, HostInv, Boot, Next
    PROVE  HostInv'
<1> SUFFICES ASSUME Clean' PROVE HostInv'
  BY DEF HostInv
<1>1. Clean
  BY CleanBefore
<1>2. UNCHANGED <<windows, stopping, locks, req, reco>>
  BY Frames
<1>3. /\ main.at \in EarlyStages \union {"proxy", "dns"}
      /\ main'.at \in EarlyStages \union {"proxy", "dns", "up", "disarm", "down"}
      /\ main'.at = "down" => main.at \in {"preflight", "tun"}
  BY BootMoves
<1>4. main \in Main /\ prg \in Program /\ host \in Host
  BY TypeOKIs
<1>5. main.at \notin OutStages /\ main.at # "up"
  BY <1>3 DEF EarlyStages, BootStages, Settled, OutStages
<1>6. /\ host.rules # Open => prg.mgr # "none" \/ reco.at = "keep"
      /\ host.routes # None => prg.route \/ Unclaimed
      /\ host.resolver = "original"
  BY <1>1, <1>5 DEF HostInv, OutStages
<1>6a. CleanupOrphans => /\ prg'.mgr = prg.mgr /\ prg'.route = prg.route
                         /\ host'.rules \in {host.rules, Open}
                         /\ host'.routes = host.routes /\ host'.resolver = host.resolver
  BY <1>4, OpenedIs DEF CleanupOrphans, Program
<1>7. host'.rules # Open => prg'.mgr # "none" \/ reco'.at = "keep"
  <2>1. CASE PortalLockdown
    <3>1. PICK o : /\ Forced(o, "captive", Lockdown, {}, TRUE)
                   /\ prg' = [prg EXCEPT !.captive = TRUE, !.mgr = IF o.ok THEN "captive" ELSE @]
      BY <2>1, LockdownIs
    <3>2. CASE o.ok
      BY <1>4, <3>1, <3>2 DEF Program
    <3>3. CASE ~o.ok
      <4>1. prg'.mgr = prg.mgr
        BY <1>4, <3>1, <3>3 DEF Program
      <4>2. host'.rules \notin {Open, host.rules} => prg.mgr # "none"
        BY <3>1, <3>3 DEF Forced, Clean
      <4> QED
        BY <1>2, <1>6, <4>1, <4>2
    <3> QED
      BY <3>2, <3>3
  <2>2. CASE RaiseRules
    <3>1. PICK o : /\ Forced(o, "boot", Full(main.relay, fw.of["boot"].v6), RaiseMay, TRUE)
                   /\ prg' = IF o.ok THEN [prg EXCEPT !.mgr = "boot"] ELSE prg
      BY <2>2, RaiseIs
    <3>2. CASE o.ok
      BY <1>4, <3>1, <3>2 DEF Program
    <3>3. CASE ~o.ok
      <4>1. host'.rules \notin {Open, host.rules} => prg.mgr # "none"
        BY <3>1, <3>3 DEF Forced, Clean
      <4> QED
        BY <1>2, <1>6, <3>1, <3>3, <4>1
    <3> QED
      BY <3>2, <3>3
  <2>3. CASE ~PortalLockdown /\ ~RaiseRules
    <3>1. prg'.mgr = prg.mgr /\ host'.rules \in {host.rules, Open}
      BY <1>4, <1>6a, <2>3
      DEF Boot, NoPortal, PortalWithoutLockdown, CaptiveCleared, CaptiveStopped,
          TunUp, TunFails, RouteUp, RelayUnresolved, NoRulesWanted, GateRefuses,
          Connect, StartProxy, SetResolver, effects, Program, Host
    <3> QED
      BY <1>2, <1>6, <3>1
  <2> QED
    BY <2>1, <2>2, <2>3
<1>8. main'.at = "down" => host'.rules = Open /\ host'.routes = None
  <2> SUFFICES ASSUME main'.at = "down" PROVE host'.rules = Open /\ host'.routes = None
    OBVIOUS
  <2>1. NoPortal \/ TunFails
    <3>1. CASE PortalLockdown
      BY <1>4, <3>1, LockdownIs DEF Main
    <3>2. CASE ~PortalLockdown
      BY <1>4, <3>2
      DEF Boot, PortalWithoutLockdown, CaptiveCleared, CaptiveStopped,
          TunUp, RouteUp, RelayUnresolved, CleanupOrphans, NoRulesWanted, RaiseRules, GateRefuses,
          Connect, StartProxy, SetResolver, Go, Main
    <3> QED
      BY <3>1, <3>2
  <2>2. host.routes = None
    BY <1>3 DEF BootInv, Settled
  <2>3. host' = host
    BY <2>1 DEF NoPortal, TunFails, effects
  <2>4. host.rules = Open
    <3>1. CASE NoPortal
      <4>1. prg.mgr = "none" /\ reco = Calm
        BY <3>1 DEF NoPortal, BootInv, EarlyStages, BootStages, Settled
      <4> QED
        BY <1>6, <4>1 DEF Calm
    <3>2. CASE TunFails
      BY <3>2 DEF TunFails, Lost, Lasting, Clean
    <3> QED
      BY <2>1, <3>1, <3>2
  <2> QED
    BY <2>2, <2>3, <2>4
<1>9. host'.routes # None => prg'.route \/ Unclaimed'
  <2>1. CASE PortalLockdown \/ RaiseRules
    <3>1. host'.routes = host.routes /\ prg'.route = prg.route
      BY <1>4, <2>1, LockdownIs, RaiseIs DEF Forced, Program
    <3> QED
      BY <1>2, <1>6, <3>1 DEF Unclaimed
  <2>2. CASE RouteUp
    <3>1. prg'.route \/ (host'.routes = host.routes /\ prg' = prg)
      BY <1>4, <2>2 DEF RouteUp, Program
    <3> QED
      BY <1>2, <1>6, <3>1 DEF Unclaimed
  <2>3. CASE ~PortalLockdown /\ ~RaiseRules /\ ~RouteUp
    <3>1. host'.routes = host.routes /\ prg'.route = prg.route
      BY <1>4, <1>6a, <2>3
      DEF Boot, NoPortal, PortalWithoutLockdown, CaptiveCleared, CaptiveStopped,
          TunUp, TunFails, RelayUnresolved, NoRulesWanted, GateRefuses,
          Connect, StartProxy, SetResolver, effects, Program, Host
    <3> QED
      BY <1>2, <1>6, <3>1 DEF Unclaimed
  <2> QED
    BY <2>1, <2>2, <2>3
<1>10. main'.at # "up" => host'.resolver = "original"
  <2>1. CASE PortalLockdown \/ RaiseRules
    <3>1. host'.resolver = host.resolver
      BY <2>1, LockdownIs, RaiseIs DEF Forced
    <3> QED
      BY <1>6, <3>1
  <2>2. CASE SetResolver
    BY <1>4, <1>6, <2>2 DEF SetResolver, Go, Main
  <2>3. CASE ~PortalLockdown /\ ~RaiseRules /\ ~SetResolver
    <3>1. host'.resolver = host.resolver
      BY <1>4, <1>6a, <2>3
      DEF Boot, NoPortal, PortalWithoutLockdown, CaptiveCleared, CaptiveStopped,
          TunUp, TunFails, RouteUp, RelayUnresolved, NoRulesWanted, GateRefuses,
          Connect, StartProxy, effects, Host
    <3> QED
      BY <1>6, <3>1
  <2> QED
    BY <2>1, <2>2, <2>3
<1>11. main'.at \in OutStages => main'.at = "down"
  BY <1>3 DEF EarlyStages, BootStages, Settled, OutStages
<1> QED
  BY <1>7, <1>8, <1>9, <1>10, <1>11 DEF HostInv, OutStages

LEMMA ShutdownHost ==
    ASSUME TypeOK, PhaseInv, BootInv, OwnedInv, HostInv, Shutdown \/ Exit, Next
    PROVE  HostInv'
<1> SUFFICES ASSUME Clean' PROVE HostInv'
  BY DEF HostInv
<1> USE DEF OutStages
<1>1. Clean
  BY CleanBefore
<1>2. main \in Main /\ prg \in Program /\ host \in Host
  BY TypeOKIs
<1>3. CASE Exit
  <2>1. main.at = "down" /\ main'.at = "exited" /\ host' = host
    BY <1>2, <1>3 DEF Exit, Lost, Lasting, Clean, Go, Main
  <2> QED
    BY <1>1, <2>1 DEF HostInv
<1>4. CASE RestoreResolver \/ StopTunWatchdog
  <2>1. /\ main'.at \in {"settle", "disarm"} /\ main.at \in {"up", "settle"}
        /\ host'.rules = host.rules /\ host'.routes = host.routes
        /\ prg'.mgr = prg.mgr /\ prg'.route = prg.route
    BY <1>2, <1>4 DEF RestoreResolver, StopTunWatchdog, effects, Go, Main, Host, Program
  <2>2. host'.resolver = "original"
    BY <1>1, <1>2, <1>4
    DEF RestoreResolver, StopTunWatchdog, effects, HostInv, Host, Lost, Lasting, Clean
  <2>3. UNCHANGED <<req, reco>>
    BY <1>4, Frames DEF Shutdown
  <2> QED
    BY <1>1, <2>1, <2>2, <2>3 DEF HostInv, Unclaimed
<1>5. CASE DisarmRules
  <2>1. /\ main.at = "disarm" /\ main'.at \in {"unroute", "delete"}
        /\ UNCHANGED <<host, prg, req, reco>>
        /\ main'.at = "unroute" => prg.mgr = "none"
    BY <1>2, <1>5 DEF DisarmRules, others, Go, Main
  <2>2. main'.at = "unroute" => reco.at # "keep"
    BY <1>2, <1>5 DEF DisarmRules, Lost, Lasting, Clean, Go, Main
  <2> QED
    BY <1>1, <2>1, <2>2 DEF HostInv, Unclaimed
<1>6. CASE DeleteRules
  <2>1. prg.mgr \in Objects
    BY <1>2, <1>6 DEF DeleteRules, PhaseInv, Program
  <2>2. PICK o \in Deletion(prg.mgr, TRUE) :
          host' = HostWith(o.rules) /\ drift' = Lost("failed", Flawed(o))
    BY <1>6 DEF DeleteRules
  <2>3. ~Flawed(o)
    BY <2>2 DEF Lost, Lasting, Clean
  <2>4. o.rules = Open
    BY <2>1, <2>3, Deletions, TypeOKIs DEF Outcome, Flawed
  <2>5. host'.rules = Open /\ host'.routes = host.routes /\ host'.resolver = host.resolver
    BY <1>2, <2>2, <2>4, OpenedIs
  <2>6. main.at = "delete" /\ main'.at = "unroute" /\ prg'.route = prg.route /\ UNCHANGED <<req, reco>>
    BY <1>2, <1>6 DEF DeleteRules, Go, Main, Program, others
  <2> QED
    BY <1>1, <2>5, <2>6 DEF HostInv, Unclaimed
<1>7. CASE Unroute
  <2>1. /\ main.at = "unroute" /\ main'.at \in {"join", "down"}
        /\ host'.rules = host.rules /\ host'.resolver = host.resolver
    BY <1>2, <1>7 DEF Unroute, Go, Main, Host
  <2>2. host'.routes = None
    <3>1. host.routes # None => prg.route \/ Unclaimed
      BY <1>1, <2>1 DEF HostInv
    <3>2. /\ drift' = Lost("kept", ~prg.route /\ Unclaimed)
          /\ host'.routes = IF prg.route THEN None ELSE host.routes
      BY <1>2, <1>7 DEF Unroute, Host, Lost, Lasting, Clean
    <3>3. ~(~prg.route /\ Unclaimed)
      BY <3>2 DEF Lost, Lasting, Clean
    <3> QED
      BY <3>1, <3>2, <3>3
  <2> QED
    BY <1>1, <2>1, <2>2 DEF HostInv
<1>8. CASE Join
  <2>1. main.at = "join" /\ main'.at = "down" /\ host' = host
    BY <1>2, <1>8 DEF Join, Go, Main, effects
  <2> QED
    BY <1>1, <2>1 DEF HostInv
<1> QED
  BY <1>3, <1>4, <1>5, <1>6, <1>7, <1>8 DEF Shutdown

\* A firewall operation of another actor than the main goroutine.
LEMMA ForcedHost ==
    ASSUME TypeOK, PhaseInv, HostInv, Clean, Clean', Next, ~DeleteRules,
           NEW o, NEW i, NEW w, NEW may, NEW owned \in BOOLEAN, Forced(o, i, w, may, owned),
           main.at # "exited", Torndown => ~owned,
           reco.at = "keep" => reco'.at = "keep",
           main.at \notin OutStages /\ o.ok /\ w \notin {Open, host.rules} =>
             prg'.mgr # "none" \/ reco'.at = "keep"
    PROVE  /\ main.at \notin OutStages /\ host'.rules # Open => prg'.mgr # "none" \/ reco'.at = "keep"
           /\ main.at \in OutStages => host'.rules = Open
           /\ host'.routes = host.routes /\ host'.resolver = host.resolver
<1>1. prg.mgr # "none" => prg'.mgr # "none"
  BY ManagerStays
<1>2. o.rules \in {host.rules, w} /\ host'.rules = o.rules /\ o.ok \in BOOLEAN
  BY DEF Forced, Outcome
<1>3. /\ host'.rules \notin {Open, host.rules} =>
           ~(Torndown /\ ~owned) /\ ~(~o.ok /\ prg.mgr = "none")
  BY DEF Forced, Clean
<1>4. /\ main.at \notin OutStages /\ host.rules # Open => prg.mgr # "none" \/ reco.at = "keep"
      /\ main.at \in OutStages => host.rules = Open
  BY DEF HostInv
<1>5. main.at \in OutStages => Torndown
  BY DEF OutStages, Torndown
<1>6. main.at \in OutStages => host'.rules = Open
  BY <1>3, <1>4, <1>5
<1>7. main.at \notin OutStages /\ host'.rules # Open => prg'.mgr # "none" \/ reco'.at = "keep"
  <2>1. CASE host'.rules \in {Open, host.rules}
    BY <1>1, <1>4, <2>1
  <2>2. CASE host'.rules \notin {Open, host.rules} /\ ~o.ok
    BY <1>1, <1>3, <2>2
  <2>3. CASE host'.rules \notin {Open, host.rules} /\ o.ok
    BY <1>2, <2>3
  <2> QED
    BY <1>2, <2>1, <2>2, <2>3
<1> QED
  BY <1>6, <1>7 DEF Forced

LEMMA HandlerBusy ==
    ASSUME NEW r \in Handlers, Handle(r)
    PROVE  req[r].at # "idle" /\ (OwnedInv => main.at # "exited")
<1>1. req[r].at # "idle"
  BY
  DEF Handle, CheckCaptive, LockMode, DisarmMode, ApplyMode, PersistMode, UndoMode, SaveIPv6,
      ApplyIPv6, StoreRelay, ActivateForRelay, TakeRoutes, SetupForRelay, OwnRoutes, Reconnected, At
<1> QED
  BY <1>1 DEF OwnedInv, Idle

LEMMA HandleHost ==
    ASSUME TypeOK, PhaseInv, BootInv, OwnedInv, HostInv, NEW r \in Handlers, Handle(r), Next
    PROVE  HostInv'
<1> SUFFICES ASSUME Clean' PROVE HostInv'
  BY DEF HostInv
<1>1. Clean
  BY CleanBefore
<1>2. UNCHANGED <<main, reco>> /\ \A s \in Handlers \ {r} : req'[s] = req[s]
  BY Frames, RequestFrame DEF calm
<1>3. prg \in Program /\ host \in Host /\ req \in [Handlers -> Request]
  BY TypeOKIs
<1>4. main.at # "exited"
  BY HandlerBusy
<1>5. ~DeleteRules
  BY <1>2, TypeOKIs DEF DeleteRules, Go, Main
<1>6. prg.mgr # "none" => prg'.mgr # "none"
  BY <1>5, ManagerStays
<1>7. /\ prg'.route = prg.route \/ req[r].at \in {"unroute", "own"}
      /\ host'.routes = host.routes \/ req[r].at \in {"unroute", "reroute"}
      /\ host'.resolver = host.resolver
      /\ host'.rules = host.rules \/ ApplyMode(r) \/ UndoMode(r) \/ ApplyIPv6(r) \/ ActivateForRelay(r)
  BY HandleChanges
<1>8. /\ main.at \notin OutStages /\ host'.rules # Open => prg'.mgr # "none" \/ reco'.at = "keep"
      /\ main.at \in OutStages => host'.rules = Open
  <2>1. CASE host'.rules = host.rules
    BY <1>1, <1>2, <1>6, <2>1 DEF HostInv
  <2>2. CASE ApplyMode(r)
    <3>1. PICK o, w :
             /\ Forced(o, req[r].fw, w, FailMay(o), FALSE)
             /\ req[r].op = "normal" =>
                  prg' = IF o.ok THEN [prg EXCEPT !.enabled = TRUE, !.mgr = req[r].fw] ELSE prg
             /\ req[r].op # "normal" => w = Open
      BY <2>2, ApplyModeIs
    <3>2. o.ok /\ w \notin {Open, host.rules} => prg'.mgr # "none"
      BY <1>3, <3>1 DEF Forced, Program, Objects
    <3> QED
      BY <1>1, <1>2, <1>4, <1>5, <3>1, <3>2, ForcedHost
  <2>3. CASE UndoMode(r)
    <3>1. PICK o, w :
             /\ Forced(o, UndoObject, w, FailMay(o), FALSE)
             /\ req[r].op # "degraded" => w = Open
             /\ req[r].op = "degraded" =>
                  prg' = IF o.ok THEN [prg EXCEPT !.enabled = TRUE, !.mgr = UndoObject]
                         ELSE [prg EXCEPT !.enabled = TRUE]
      BY <2>3, UndoModeIs
    <3>2. o.ok /\ w \notin {Open, host.rules} => prg'.mgr # "none"
      BY <1>3, <3>1 DEF Forced, Program, Objects
    <3> QED
      BY <1>1, <1>2, <1>4, <1>5, <3>1, <3>2, ForcedHost
  <2>4. CASE ApplyIPv6(r)
    <3>1. PICK o, i, w : /\ Forced(o, i, w, Passing, FALSE)
                         /\ i = prg.mgr \/ (prg.mgr = "none" /\ w = host.rules /\ o.fw = fw)
      BY <2>4, ApplyIPv6Is
    <3>2. o.ok /\ w \notin {Open, host.rules} => prg'.mgr # "none"
      BY <1>6, <3>1 DEF Forced, Objects
    <3> QED
      BY <1>1, <1>2, <1>4, <1>5, <3>1, <3>2, ForcedHost
  <2>5. CASE ActivateForRelay(r)
    <3>1. PICK o, w : Forced(o, req[r].fw, w, Passing, FALSE)
      BY <2>5, ActivateIs
    <3>2. main.at \notin OutStages => prg'.mgr # "none"
      BY <1>6, <2>5 DEF ActivateForRelay, At, OwnedInv
    <3> QED
      BY <1>1, <1>2, <1>4, <1>5, <3>1, <3>2, ForcedHost
  <2> QED
    BY <1>7, <2>1, <2>2, <2>3, <2>4, <2>5
<1>9. Unclaimed => Unclaimed' \/ OwnRoutes(r)
  BY <1>2, HandleMoves DEF Unclaimed
<1>10. /\ main.at \notin {"join", "down", "exited"} /\ host'.routes # None => prg'.route \/ Unclaimed'
       /\ main.at \in {"join", "down", "exited"} => host'.routes = None
  <2>1. /\ main.at \notin {"join", "down", "exited"} /\ host.routes # None => prg.route \/ Unclaimed
        /\ main.at \in {"join", "down", "exited"} => host.routes = None
    BY <1>1 DEF HostInv
  <2>2. CASE TakeRoutes(r)
    <3>1. host'.routes = IF prg.route THEN None ELSE host.routes
      BY <1>3, <2>2 DEF TakeRoutes, Host
    <3>2. ~OwnRoutes(r)
      BY <2>2 DEF TakeRoutes, OwnRoutes, At
    <3> QED
      BY <1>9, <2>1, <3>1, <3>2
  <2>3. CASE SetupForRelay(r)
    <3>1. CASE SetupRoutes(req[r].relay) /\ To(r, "own")
      <4>1. Unclaimed'
        BY <1>3, <3>1, RequestAfter DEF Unclaimed
      <4>2. req[r].relay # None => ~Torndown
        BY <3>1 DEF SetupRoutes, Lost, Lasting, Clean
      <4>3. host'.routes = req[r].relay
        BY <1>3, <3>1 DEF SetupRoutes, Host
      <4> QED
        BY <1>4, <4>1, <4>2, <4>3 DEF Torndown
    <3>2. CASE SetupRoutes(None)
      BY <1>3, <3>2 DEF SetupRoutes, Host
    <3> QED
      BY <2>3, <3>1, <3>2 DEF SetupForRelay
  <2>4. CASE OwnRoutes(r)
    <3>1. prg'.route /\ host' = host
      BY <1>3, <2>4 DEF OwnRoutes, Program
    <3> QED
      BY <2>1, <3>1
  <2>5. CASE ~TakeRoutes(r) /\ ~SetupForRelay(r) /\ ~OwnRoutes(r)
    <3>1. prg'.route = prg.route /\ host'.routes = host.routes
      <4>1. req[r].at \notin {"unroute", "reroute", "own"}
        BY <2>5
        DEF Handle, CheckCaptive, LockMode, DisarmMode, ApplyMode, PersistMode, UndoMode, SaveIPv6,
            ApplyIPv6, StoreRelay, ActivateForRelay, Reconnected, At
      <4> QED
        BY <1>7, <4>1
    <3> QED
      BY <1>9, <2>1, <2>5, <3>1
  <2> QED
    BY <2>2, <2>3, <2>4, <2>5
<1> QED
  BY <1>1, <1>2, <1>7, <1>8, <1>10 DEF HostInv

LEMMA RecoverHost ==
    ASSUME TypeOK, PhaseInv, BootInv, OwnedInv, HostInv, Recover \/ RecoveryStarts, Next
    PROVE  HostInv'
<1> SUFFICES ASSUME Clean' PROVE HostInv'
  BY DEF HostInv
<1>1. Clean
  BY CleanBefore
<1>2. UNCHANGED <<main, req>>
  BY Frames DEF recovering
<1>3. prg \in Program /\ host \in Host /\ reco \in Recovery
  BY TypeOKIs
<1>4. main.at # "exited"
  BY
  DEF OwnedInv, Calm, Recover, CloseDevice, NewDevice, KeepDevice, ReadRelay, ReadMode, ReadManager,
      RecoverRules, DropRoutes,
      RecoverRoutes, KeepRoutes, RecoveryStarts, Alive
<1>5. ~DeleteRules
  BY <1>2, TypeOKIs DEF DeleteRules, Go, Main
<1>6. prg.mgr # "none" => prg'.mgr # "none"
  BY <1>5, ManagerStays
<1>7. \A s : Step(s) => reco'.at = s
  BY <1>3 DEF Step, Recovery
<1>8. /\ main.at \notin OutStages /\ host.rules # Open => prg.mgr # "none" \/ reco.at = "keep"
      /\ main.at \in OutStages => host.rules = Open
      /\ main.at \notin {"join", "down", "exited"} /\ host.routes # None => prg.route \/ Unclaimed
      /\ main.at \in {"join", "down", "exited"} => host.routes = None
      /\ main.at # "up" => host.resolver = "original"
  BY <1>1 DEF HostInv
<1>9. Torndown => ~(reco.byTun /\ main.up)
  BY DEF OwnedInv, Torndown, LateStages
<1>10. CASE RecoverRules
  <2>1. PICK o, w : /\ Forced(o, reco.fw, w, RecoverMay(o), reco.byTun /\ main.up)
                    /\ prg' = prg /\ Step(IF o.ok THEN "keep" ELSE "drop")
    BY <1>10, RecoverIs
  <2>2. o.ok => reco'.at = "keep"
    BY <1>7, <2>1
  <2>3. reco.at = "fw" /\ reco'.at # "own"
    BY <1>7, <1>10, <2>1 DEF RecoverRules
  <2>4. (reco.byTun /\ main.up) \in BOOLEAN
    OBVIOUS
  <2>5. /\ main.at \notin OutStages /\ host'.rules # Open => prg'.mgr # "none" \/ reco'.at = "keep"
        /\ main.at \in OutStages => host'.rules = Open
        /\ host'.routes = host.routes /\ host'.resolver = host.resolver
    BY <1>1, <1>4, <1>5, <1>9, <2>1, <2>2, <2>3, <2>4, ForcedHost
  <2>6. Unclaimed => Unclaimed'
    BY <1>2, <2>3 DEF Unclaimed
  <2> QED
    BY <1>2, <1>8, <2>1, <2>5, <2>6 DEF HostInv
<1>11. CASE RecoveryStarts \/ CloseDevice \/ NewDevice \/ KeepDevice \/ ReadRelay \/ ReadMode
              \/ ReadManager
  <2>1. /\ host'.rules = host.rules /\ host'.routes = host.routes /\ host'.resolver = host.resolver
        /\ prg'.mgr = prg.mgr /\ prg'.route = prg.route
        /\ reco.at \notin {"keep", "own"}
    BY <1>3, <1>11
    DEF RecoveryStarts, CloseDevice, NewDevice, KeepDevice, ReadRelay, ReadMode, ReadManager, Host,
        Program
  <2>2. Unclaimed => Unclaimed'
    BY <1>2, <2>1 DEF Unclaimed
  <2> QED
    BY <1>2, <1>8, <2>1, <2>2 DEF HostInv
<1>12. CASE DropRoutes
  <2>1. /\ host'.rules = host.rules /\ host'.resolver = host.resolver
        /\ host'.routes = IF prg.route THEN None ELSE host.routes
        /\ reco.at \in {"keep", "drop"}
    BY <1>3, <1>12 DEF DropRoutes, Host
  <2>2. reco.at = "keep" => prg'.mgr # "none"
    BY <1>3, <1>12 DEF DropRoutes, PhaseInv, Program, Objects
  <2>3. Unclaimed => Unclaimed'
    BY <1>2, <2>1 DEF Unclaimed
  <2> QED
    BY <1>2, <1>6, <1>8, <2>1, <2>2, <2>3 DEF HostInv
<1>13. CASE RecoverRoutes
  <2>1. /\ host'.rules = host.rules /\ host'.resolver = host.resolver /\ reco.at = "setup" /\ prg' = prg
    BY <1>3, <1>13 DEF RecoverRoutes, Host
  <2>2. CASE host'.routes = None
    BY <1>2, <1>8, <2>1, <2>2 DEF HostInv
  <2>3. CASE host'.routes # None
    <3>1. Step("own") /\ drift' = Lost("resurrected", ~(reco.byTun /\ main.up) /\ Torndown)
      BY <1>3, <1>13, <2>3 DEF RecoverRoutes, Host
    <3>2. Unclaimed'
      BY <1>7, <3>1 DEF Unclaimed
    <3>3. ~Torndown
      BY <1>9, <3>1 DEF Lost, Lasting, Clean
    <3> QED
      BY <1>2, <1>4, <1>8, <2>1, <3>2, <3>3 DEF HostInv, Torndown
  <2> QED
    BY <2>2, <2>3
<1>14. CASE KeepRoutes
  <2>1. host' = host /\ prg'.route /\ prg'.mgr = prg.mgr /\ reco.at = "own"
    BY <1>3, <1>14 DEF KeepRoutes, effects, Program
  <2> QED
    BY <1>2, <1>8, <2>1 DEF HostInv
<1> QED
  BY <1>10, <1>11, <1>12, <1>13, <1>14 DEF Recover

LEMMA OtherHost ==
    ASSUME TypeOK, PhaseInv, BootInv, OwnedInv, HostInv, main.at # "exited", Next,
           Watch \/ WatchdogPoll \/ CheckResolver \/ Environment
    PROVE  HostInv'
<1> SUFFICES ASSUME Clean' PROVE HostInv'
  BY DEF HostInv
<1>1. Clean
  BY CleanBefore
<1>2. host \in Host /\ req \in [Handlers -> Request]
  BY TypeOKIs
<1>3. CASE WatcherLifts \/ WatcherRestores
  <2>1. UNCHANGED <<prg, main, req, reco>>
    BY <1>3, Frames DEF Watch, watching
  <2>2. ~DeleteRules
    BY <2>1, TypeOKIs DEF DeleteRules, Go, Main
  <2>3. PICK o, i, w, may : Forced(o, i, w, may, FALSE)
    BY <1>3, LiftIs, RestoreIs
  <2>4. main.at \notin OutStages => prg'.mgr # "none"
    BY <1>3, <2>1 DEF WatcherLifts, WatcherRestores, OwnedInv
  <2>5. /\ main.at \notin OutStages /\ host'.rules # Open => prg'.mgr # "none" \/ reco'.at = "keep"
        /\ main.at \in OutStages => host'.rules = Open
        /\ host'.routes = host.routes /\ host'.resolver = host.resolver
    BY <1>1, <2>1, <2>2, <2>3, <2>4, ForcedHost
  <2> QED
    BY <1>1, <2>1, <2>5 DEF HostInv, Unclaimed
<1>4. CASE WatcherWakes \/ WatcherDisarms \/ WatchdogPoll
  <2>1. UNCHANGED <<host, prg, main, req, reco>>
    BY <1>4 DEF WatcherWakes, WatcherDisarms, WatchdogPoll, watching
  <2> QED
    BY <1>1, <2>1 DEF HostInv, Unclaimed
<1>5. CASE CheckResolver
  <2>1. /\ host'.rules = host.rules /\ host'.routes = host.routes
        /\ host'.resolver = host.resolver \/ guards.dns = "fixing"
    BY <1>2, <1>5 DEF CheckResolver, Host
  <2>2. main.at # "up" => guards.dns = "off"
    BY DEF OwnedInv
  <2> QED
    BY <1>1, <1>5, <2>1, <2>2, Frames DEF HostInv, Unclaimed
<1>6. CASE RulesDeleted \/ DeviceDeleted \/ ResolverChanged
  <2>1. /\ host'.rules \in {host.rules, Open} /\ host'.routes = host.routes
        /\ host'.resolver \in {host.resolver, "original"}
    BY <1>2, <1>6, OpenedIs DEF RulesDeleted, DeviceDeleted, ResolverChanged, Host
  <2> QED
    BY <1>1, <1>6, <2>1, Frames DEF HostInv, Unclaimed
<1>7. CASE Stop
  <2>1. UNCHANGED <<prg, host, main, req, reco>>
    BY <1>7 DEF Stop
  <2> QED
    BY <1>1, <2>1 DEF HostInv, Unclaimed
<1>8. CASE ModeRequested \/ IPv6Requested \/ CountryRequested
  <2>1. PICK op \in {"normal", "degraded", "ipv6", "country"}, at \in {"check", "save", "store"} :
          Receive(op, at)
    BY <1>8 DEF ModeRequested, IPv6Requested, CountryRequested
  <2>2. PICK r \in Handlers : req[r] = Idle /\ req' = [req EXCEPT ![r] = [Idle EXCEPT !.op = op, !.at = at]]
    BY <2>1, Arrivals
  <2>3. \A s \in Handlers : req[s].at = "own" => req'[s].at = "own"
    BY <1>2, <2>2 DEF Idle
  <2> QED
    BY <1>1, <1>8, <2>3, Frames DEF HostInv, Unclaimed
<1> QED
  BY <1>3, <1>4, <1>5, <1>6, <1>7, <1>8 DEF Environment, Watch

LEMMA HostStep == TypeOK /\ PhaseInv /\ BootInv /\ OwnedInv /\ HostInv /\ [Next]_vars => HostInv'
<1> SUFFICES ASSUME TypeOK, PhaseInv, BootInv, OwnedInv, HostInv, [Next]_vars PROVE HostInv'
  OBVIOUS
<1>1. CASE UNCHANGED vars
  BY <1>1 DEF vars, HostInv, Clean, Unclaimed
<1>2. CASE main.at = "exited"
  BY <1>1, <1>2, NobodyLeft
<1>3. CASE Next /\ main.at # "exited"
  BY <1>1, <1>3, BootHost, ShutdownHost, HandleHost, RecoverHost, OtherHost DEF Next, Exited
<1> QED
  BY <1>1, <1>2, <1>3

-----------------------------------------------------------------------------
(* CaptiveHandover is preserved.                                           *)

Handing ==
    /\ ~windows /\ prg.mgr = "captive" /\ prg.enabled /\ Alive /\ watch.at = "off"
    /\ main.at \in EarlyStages \ {"preflight"}

LEMMA CaptiveIs ==
    /\ CaptiveHandover <=> (Handing /\ host.rules.mode = "open" => "unprotected" \in drift)
    /\ CaptiveHandover' <=> (Handing' /\ host'.rules.mode = "open" => "unprotected" \in drift')
BY DEF CaptiveHandover, Handing, EarlyStages, BootStages, Settled

\* An actor that may leave the host open puts that on record.
LEMMA OpenIsRecorded ==
    ASSUME Alive, prg'.enabled, host'.rules.mode = "open",
           NEW o, NEW i, NEW w, NEW may, NEW owned, Forced(o, i, w, may, owned),
           "unprotected" \in may \union drift
    PROVE  "unprotected" \in drift'
<1>1. "unprotected" \in Verdict(host', prg')
  BY DEF Verdict, Passing
<1> QED
  BY <1>1 DEF Forced

LEMMA BootCaptive ==
    ASSUME TypeOK, PhaseInv, BootInv, CaptiveHandover, Boot
    PROVE  CaptiveHandover'
<1> SUFFICES ASSUME Handing', host'.rules.mode = "open" PROVE "unprotected" \in drift'
  BY CaptiveIs
<1>1. prg \in Program /\ host \in Host /\ main \in Main /\ UNCHANGED <<windows, stopping>>
  BY TypeOKIs, Frames
<1>2. CASE PortalLockdown
  <2>1. PICK o : /\ Forced(o, "captive", Lockdown, {}, TRUE)
                 /\ prg' = [prg EXCEPT !.captive = TRUE, !.mgr = IF o.ok THEN "captive" ELSE @]
    BY <1>2, LockdownIs
  <2>2. prg.mgr = "none"
    BY <1>2 DEF PortalLockdown, BootInv
  <2>3. o.ok
    BY <1>1, <2>1, <2>2 DEF Handing, Program
  <2>4. host'.rules = Lockdown
    BY <2>1, <2>3, LockdownMode DEF Forced, Outcome
  <2> QED
    BY <2>4, LockdownMode
<1>3. CASE RaiseRules
  <2>1. PICK o : /\ Forced(o, "boot", Full(main.relay, fw.of["boot"].v6), RaiseMay, TRUE)
                 /\ prg' = IF o.ok THEN [prg EXCEPT !.mgr = "boot"] ELSE prg
                 /\ watch' = IF o.ok THEN [watch EXCEPT !.at = "idle"] ELSE watch
    BY <1>3, RaiseIs
  <2>2. o.ok \in BOOLEAN /\ host'.rules \in {host.rules, Full(main.relay, fw.of["boot"].v6)}
    BY <2>1 DEF Forced, Outcome
  <2>3. ~o.ok
    BY <1>1, <2>1 DEF Handing, Program
  <2>4. host'.rules = host.rules
    BY <2>2 DEF Full
  <2>5. main.at = "rules"
    BY <1>3 DEF RaiseRules
  <2>6. Handing
    BY <1>1, <2>1, <2>3, <2>5 DEF Handing, Alive, EarlyStages, BootStages
  <2>7. "unprotected" \in drift /\ prg'.enabled /\ Alive
    BY <2>4, <2>6, CaptiveIs DEF Handing
  <2> QED
    BY <2>1, <2>7, OpenIsRecorded
<1>4. CASE CleanupOrphans
  <2>1. /\ prg'.mgr = prg.mgr /\ prg'.enabled = prg.enabled /\ prg.enabled /\ watch' = watch
        /\ main.at = "orphans"
    BY <1>1, <1>4 DEF CleanupOrphans, others, Program
  <2>2. ~windows
    BY <1>1 DEF Handing
  <2>3. host' = host /\ drift' = Recorded(host', prg', {})
    BY <1>4, <2>2 DEF CleanupOrphans
  <2>4. Handing
    BY <1>1, <2>1 DEF Handing, Alive, EarlyStages, BootStages, Settled
  <2>5. "unprotected" \in drift /\ "unprotected" \in Verdict(host', prg')
    BY <2>1, <2>3, <2>4, CaptiveIs DEF Verdict, Passing
  <2> QED
    BY <2>3, <2>4, <2>5 DEF Recorded, Handing, Alive
<1>5. CASE ~PortalLockdown /\ ~RaiseRules /\ ~CleanupOrphans
  <2>1. /\ prg'.mgr = prg.mgr /\ prg'.enabled = prg.enabled /\ watch' = watch /\ drift \subseteq drift'
        /\ host'.rules = host.rules
    BY <1>1, <1>5
    DEF Boot, NoPortal, PortalWithoutLockdown, CaptiveCleared, CaptiveStopped,
        TunUp, TunFails, RouteUp, RelayUnresolved, NoRulesWanted, GateRefuses,
        Connect, StartProxy, SetResolver, others, effects, Program, Host, Lost
  <2>2. main.at \in EarlyStages \ {"preflight"}
    BY <2>1, BootMoves DEF Handing, BootInv
  <2>3. Handing /\ host.rules.mode = "open"
    BY <1>1, <2>1, <2>2 DEF Handing, Alive
  <2> QED
    BY <2>1, <2>3, CaptiveIs
<1> QED
  BY <1>2, <1>3, <1>4, <1>5

LEMMA HandleCaptive ==
    ASSUME TypeOK, PhaseInv, BootInv, CaptiveHandover, NEW r \in Handlers, Handle(r)
    PROVE  CaptiveHandover'
<1> SUFFICES ASSUME Handing', host'.rules.mode = "open" PROVE "unprotected" \in drift'
  BY CaptiveIs
<1>1. UNCHANGED <<windows, stopping, main, watch>> /\ prg \in Program
  BY Frames, TypeOKIs DEF calm
<1>2. Alive /\ prg'.enabled /\ req[r].at \notin Travel
  BY <1>1 DEF Handing, Alive, BootInv
<1>3. CASE ApplyMode(r)
  <2>1. PICK o, w :
             /\ Forced(o, req[r].fw, w, FailMay(o), FALSE)
             /\ req[r].op = "normal" => w = Full(req[r].relay, Options(req[r].fw, req[r].allow))
             /\ req[r].op # "normal" => prg' = IF o.ok THEN [prg EXCEPT !.enabled = FALSE] ELSE prg
    BY <1>3, ApplyModeIs
  <2>2. o.ok \in BOOLEAN /\ (o.ok /\ w # Open => host'.rules = w)
    BY <2>1 DEF Forced, Outcome
  <2>3. ~o.ok
    <3>1. CASE req[r].op = "normal"
      <4>1. w.mode = "full" /\ w # Open
        BY <2>1, <3>1 DEF Full, Open
      <4> QED
        BY <2>2, <4>1
    <3>2. CASE req[r].op # "normal"
      BY <1>1, <1>2, <2>1, <3>2 DEF Program
    <3> QED
      BY <3>1, <3>2
  <2>4. "unprotected" \in FailMay(o)
    BY <2>3 DEF FailMay, Passing, Flawed
  <2> QED
    BY <1>2, <2>1, <2>4, OpenIsRecorded
<1>4. CASE UndoMode(r)
  <2>1. PICK o, w :
             /\ Forced(o, UndoObject, w, FailMay(o), FALSE)
             /\ req[r].op # "degraded" => prg' = [prg EXCEPT !.enabled = FALSE]
             /\ req[r].op = "degraded" /\ o.ok => w.mode = "full"
    BY <1>4, UndoModeIs
  <2>2. o.ok \in BOOLEAN /\ (o.ok /\ w # Open => host'.rules = w)
    BY <2>1 DEF Forced, Outcome
  <2>3. ~o.ok
    <3>1. CASE req[r].op = "degraded"
      BY <2>1, <2>2, <3>1 DEF Open
    <3>2. CASE req[r].op # "degraded"
      BY <1>1, <1>2, <2>1, <3>2 DEF Program
    <3> QED
      BY <3>1, <3>2
  <2>4. "unprotected" \in FailMay(o)
    BY <2>3 DEF FailMay, Passing, Flawed
  <2> QED
    BY <1>2, <2>1, <2>4, OpenIsRecorded
<1>5. CASE ApplyIPv6(r)
  <2>1. PICK o, i, w : Forced(o, i, w, Passing, FALSE)
    BY <1>5, ApplyIPv6Is
  <2>2. "unprotected" \in Passing
    BY DEF Passing
  <2> QED
    BY <1>2, <2>1, <2>2, OpenIsRecorded
<1>6. CASE CheckCaptive(r) \/ LockMode(r) \/ DisarmMode(r) \/ PersistMode(r) \/ SaveIPv6(r) \/ Reconnected(r)
  <2>1. UNCHANGED <<prg, host, drift>>
    BY <1>1, <1>2, <1>6
    DEF CheckCaptive, LockMode, DisarmMode, PersistMode, SaveIPv6, Reconnected, Program
  <2>2. Handing
    BY <1>1, <2>1 DEF Handing, Alive
  <2> QED
    BY <2>1, <2>2, CaptiveIs
<1>7. ~StoreRelay(r) /\ ~ActivateForRelay(r) /\ ~TakeRoutes(r) /\ ~SetupForRelay(r) /\ ~OwnRoutes(r)
  BY <1>2 DEF StoreRelay, ActivateForRelay, TakeRoutes, SetupForRelay, OwnRoutes, At, Travel
<1> QED
  BY <1>3, <1>4, <1>5, <1>6, <1>7 DEF Handle

LEMMA OtherCaptive ==
    ASSUME TypeOK, PhaseInv, BootInv, CaptiveHandover, Watch \/ WatchdogPoll \/ CheckResolver \/ Environment
    PROVE  CaptiveHandover'
<1> SUFFICES ASSUME Handing', host'.rules.mode = "open" PROVE "unprotected" \in drift'
  BY CaptiveIs
<1>1. CASE Watch
  <2>1. UNCHANGED stopping
    BY <1>1, Frames DEF watching
  <2> QED
    BY <1>1, <2>1, WatcherLeaves DEF Handing, Alive
<1>2. CASE Stop
  BY <1>2 DEF Stop, Handing, Alive
<1>3. CASE WatchdogPoll \/ CheckResolver \/ RulesDeleted \/ DeviceDeleted \/ ResolverChanged
           \/ ModeRequested \/ IPv6Requested \/ CountryRequested
  <2>1. UNCHANGED <<windows, prg, main, stopping, watch>>
    BY <1>3, Frames
  <2>2. Handing
    BY <2>1 DEF Handing, Alive
  <2>3. CASE RulesDeleted
    <3>1. ~fw.armed
      BY <2>2 DEF Handing, BootInv
    <3>2. drift' = Recorded(host', prg, {"unprotected"})
      BY <2>3, <3>1 DEF RulesDeleted
    <3>3. "unprotected" \in Verdict(host', prg)
      BY <2>2 DEF Handing, Verdict, Passing
    <3> QED
      BY <2>2, <3>2, <3>3 DEF Recorded, Handing, Alive
  <2>4. CASE ~RulesDeleted
    <3>1. host'.rules = host.rules /\ drift' = drift
      BY <1>3, <2>4, TypeOKIs, Frames
      DEF WatchdogPoll, CheckResolver, DeviceDeleted, ResolverChanged, Host
    <3> QED
      BY <2>2, <3>1, CaptiveIs
  <2> QED
    BY <2>3, <2>4
<1> QED
  BY <1>1, <1>2, <1>3 DEF Environment

LEMMA CaptiveStep == TypeOK /\ PhaseInv /\ BootInv /\ CaptiveHandover /\ [Next]_vars => CaptiveHandover'
<1> SUFFICES ASSUME TypeOK, PhaseInv, BootInv, CaptiveHandover, [Next]_vars PROVE CaptiveHandover'
  OBVIOUS
<1>1. CASE UNCHANGED vars
  BY <1>1 DEF vars, CaptiveHandover, Alive
<1>2. CASE Shutdown \/ Exit
  BY <1>2, ShutdownMoves, CaptiveIs DEF Handing, LateStages, EarlyStages, BootStages, Settled
<1>3. CASE Recover \/ RecoveryStarts
  <2>1. main.at \notin EarlyStages /\ UNCHANGED main
    BY <1>3, RecoveryComesLater, Frames DEF recovering
  <2> QED
    BY <2>1, CaptiveIs DEF Handing
<1> QED
  BY <1>1, <1>2, <1>3, BootCaptive, HandleCaptive, OtherCaptive DEF Next, Exited

-----------------------------------------------------------------------------
(* PolicyInv is preserved.                                                 *)

Watched == watch.at \in {"disarm", "lift", "restore"}

LEMMA VerdictIs ==
    ASSUME NEW h, NEW p
    PROVE  /\ Verdict(h, p) \subseteq {"unprotected", "putBack", "stale", "v6", "older", "lockdown"}
           /\ "unprotected" \in Verdict(h, p) <=> p.enabled /\ h.rules.mode # "full"
           /\ "putBack" \in Verdict(h, p) <=> ~p.enabled /\ h.rules.mode # "open"
           /\ "stale" \in Verdict(h, p) <=> h.rules.mode = "full" /\ h.rules.relay # p.relay
           /\ "v6" \in Verdict(h, p) <=> h.rules.mode = "full" /\ h.rules.v6 # p.v6
           /\ "older" \in Verdict(h, p) <=>
                windows /\ \E x \in h.left : x.mode = "full" /\ (x.relay # p.relay \/ (p.v6 /\ ~x.v6))
           /\ "lockdown" \in Verdict(h, p) <=>
                windows /\ p.relay # None /\ \E x \in h.left \union {h.rules} : x.mode = "captive"
BY DEF Verdict, Passing

LEMMA ExcusedIs ==
    /\ Excused \subseteq {"unprotected", "stale"}
    /\ "unprotected" \in Excused <=>
         \/ Watched
         \/ fw.armed /\ host.rules = Open
         \/ \E r \in Handlers : req[r].at = "apply"
         \/ main.at \in BootStages /\ prg.mgr \in {"none", "captive"}
         \/ main.at = "gate" /\ ~Ready
    /\ "stale" \in Excused <=> \E r \in Handlers : req[r].at = "activate"
BY DEF Excused, Watched, Passing

LEMMA ExcusedNextIs ==
    /\ "unprotected" \in Excused' <=>
         \/ Watched'
         \/ fw'.armed /\ host'.rules = Open
         \/ \E r \in Handlers : req'[r].at = "apply"
         \/ main'.at \in BootStages /\ prg'.mgr \in {"none", "captive"}
         \/ main'.at = "gate" /\ ~Ready'
    /\ "stale" \in Excused' <=> \E r \in Handlers : req'[r].at = "activate"
BY DEF Excused, Watched, Passing

LEMMA PolicyIs ==
    /\ PolicyInv <=> (Alive /\ main.at \in UpStages =>
                        \A d \in Verdict(host, prg) : d \in drift \/ d \in Excused)
    /\ windows' = windows =>
         (PolicyInv' <=> (Alive' /\ main'.at \in UpStages =>
                            \A d \in Verdict(host', prg') : d \in drift' \/ d \in Excused'))
<1>1. windows' = windows => (Verdict(host, prg))' = Verdict(host', prg')
  BY DEF Verdict
<1> QED
  BY <1>1 DEF PolicyInv

\* A step that leaves the rules and the policy as they are, and keeps every excuse.
LEMMA PolicyStays ==
    ASSUME PolicyInv, Alive, main.at \in UpStages, windows' = windows, drift \subseteq drift',
           host'.rules = host.rules, host'.left = host.left, prg'.enabled = prg.enabled,
           prg'.v6 = prg.v6, prg'.relay = prg.relay,
           "unprotected" \in Excused => "unprotected" \in Excused',
           "stale" \in Excused => "stale" \in Excused'
    PROVE  PolicyInv'
<1>1. Verdict(host', prg') = Verdict(host, prg)
  BY DEF Verdict
<1>2. Excused \subseteq Excused'
  BY ExcusedIs
<1> QED
  BY <1>1, <1>2, PolicyIs

\* The filters of an earlier ruleset which break the policy of an unchanged relay and
\* IPv6 policy did so before, save those of the full rules that were in force last.
LEMMA Inherited ==
    ASSUME NEW o, NEW i, NEW w, NEW may, NEW owned, Forced(o, i, w, may, owned),
           prg'.relay = prg.relay, prg'.v6 = prg.v6
    PROVE  /\ w.mode # "captive" =>
                ("lockdown" \in Verdict(host', prg') => "lockdown" \in Verdict(host, prg))
           /\ w = Open \/ host.rules.mode # "full" =>
                ("older" \in Verdict(host', prg') => "older" \in Verdict(host, prg))
<1>1. /\ host'.left \subseteq (host.left \union {host.rules}) \ {host'.rules}
      /\ host'.rules \in {host.rules, w} /\ (host'.rules = Open => host'.left = {})
  BY DEF Forced, Outcome
<1>2. w.mode # "captive" =>
        \A x \in host'.left \union {host'.rules} :
           x.mode = "captive" => x \in host.left \union {host.rules}
  BY <1>1
<1>3. w = Open \/ host.rules.mode # "full" =>
        \A x \in host'.left : x.mode = "full" => x \in host.left
  BY <1>1
<1> QED
  BY <1>2, <1>3, VerdictIs

\* A firewall operation of an actor that may leave every breach it can cause behind.
LEMMA PolicyForced ==
    ASSUME PolicyInv, Alive, main.at \in UpStages, windows' = windows,
           NEW o, NEW i, NEW w, NEW may, NEW owned, Forced(o, i, w, may, owned),
           \A d \in Verdict(host', prg') :
              d \in may \/ (d \in {"older", "lockdown"} /\ d \in Verdict(host, prg))
    PROVE  PolicyInv'
<1>1. \A d \in {"older", "lockdown"} : d \in Verdict(host, prg) => d \in drift
  BY ExcusedIs, PolicyIs
<1>2. \A d \in Verdict(host', prg') : d \in drift \/ d \in may => d \in drift'
  BY DEF Forced
<1> QED
  BY <1>1, <1>2, PolicyIs

LEMMA BootPolicy ==
    ASSUME TypeOK, PhaseInv, BootInv, BootInv', PolicyInv, Boot
    PROVE  PolicyInv'
<1> SUFFICES ASSUME Alive', main'.at \in UpStages PROVE PolicyInv'
  BY DEF PolicyInv
<1>1. prg \in Program /\ host \in Host /\ main \in Main /\ fw \in Firewalls
      /\ UNCHANGED <<windows, stopping, locks, req, reco>>
  BY TypeOKIs, Frames
<1>2. main.at \in UpStages /\ Alive
  BY <1>1, BootMoves DEF UpStages, Alive
\* While nothing is raised but the lockdown, only the degraded mode can be broken.
<1>3. CASE main'.at \in Settled /\ \A d \in {"putBack", "older"} \intersect Verdict(host', prg') :
                                     d \in drift'
  <2>1. /\ prg'.mgr \in {"none", "captive"} /\ host'.rules.mode # "full" /\ prg'.relay = None
        /\ main'.at \in BootStages
    BY <1>3 DEF BootInv, BootStages
  <2>2. "unprotected" \in Excused'
    BY <2>1, ExcusedNextIs
  <2> QED
    BY <1>1, <1>3, <2>1, <2>2, VerdictIs, PolicyIs
<1>4. CASE PortalLockdown
  <2>1. PICK o : /\ Forced(o, "captive", Lockdown, {}, TRUE)
                 /\ prg' = [prg EXCEPT !.captive = TRUE, !.mgr = IF o.ok THEN "captive" ELSE @]
                 /\ main' = [main EXCEPT !.at = IF o.ok THEN "captive" ELSE "tun"]
    BY <1>4, LockdownIs
  <2>2. prg'.enabled /\ prg'.relay = prg.relay /\ prg'.v6 = prg.v6
    BY <1>1, <1>4, <2>1 DEF PortalLockdown, Program
  <2>3. main'.at \in Settled
    BY <1>1, <2>1 DEF Settled, Main
  <2>4. host.rules.mode # "full"
    BY <1>4 DEF PortalLockdown, BootInv, Settled
  <2>5. "older" \in Verdict(host', prg') => "older" \in Verdict(host, prg)
    BY <2>1, <2>2, <2>4, Inherited
  <2>6. "older" \in Verdict(host, prg) => "older" \in drift
    BY <1>2, ExcusedIs, PolicyIs
  <2>7. "older" \in Verdict(host', prg') /\ "older" \in drift => "older" \in drift'
    BY <1>2, <2>1 DEF Forced
  <2> QED
    BY <1>3, <2>2, <2>3, <2>5, <2>6, <2>7, VerdictIs
<1>5. CASE NoPortal \/ PortalWithoutLockdown \/ CaptiveCleared \/ CaptiveStopped \/ TunUp \/ TunFails \/ RouteUp
  <2>1. /\ host'.rules = host.rules /\ host'.left = host.left
        /\ prg'.enabled = prg.enabled /\ prg'.v6 = prg.v6 /\ prg'.relay = prg.relay
        /\ drift \subseteq drift' /\ main'.at \in {"tun", "route", "orphans", "down"}
    BY <1>1, <1>5
    DEF NoPortal, PortalWithoutLockdown, CaptiveCleared, CaptiveStopped, TunUp, TunFails, RouteUp,
        others, effects, Go, Program, Host, Main, Lost
  <2>2. main'.at \in Settled
    BY <2>1 DEF Settled, UpStages, EarlyStages, BootStages
  <2>3. \A d \in {"putBack", "older"} : d \in Verdict(host', prg') => d \in Verdict(host, prg)
    BY <2>1, VerdictIs
  <2>4. \A d \in {"putBack", "older"} : d \in Verdict(host, prg) => d \in drift
    BY <1>2, ExcusedIs, PolicyIs
  <2> QED
    BY <1>3, <2>1, <2>2, <2>3, <2>4
<1>6. CASE RelayUnresolved
  <2>1. UNCHANGED <<prg, host, drift>> /\ main'.at = "gate" /\ main.at = "route"
    BY <1>1, <1>6 DEF RelayUnresolved, Go, Main
  <2>2. ~prg.route
    BY <2>1 DEF BootInv, Settled
  <2>3. "unprotected" \in Excused'
    BY <2>1, <2>2, ExcusedNextIs DEF Ready
  <2>4. "stale" \in Excused => "stale" \in Excused'
    BY <1>1, ExcusedIs, ExcusedNextIs
  <2> QED
    BY <1>1, <1>2, <2>1, <2>3, <2>4, PolicyStays
<1>7. CASE CleanupOrphans
  <2>1. /\ host.rules.mode # "full" /\ prg.mgr \in {"none", "captive"} /\ prg.relay = None
        /\ prg.enabled
    BY <1>7 DEF CleanupOrphans, BootInv, Settled
  <2>2. /\ prg'.enabled /\ prg'.mgr = prg.mgr /\ prg'.v6 = prg.v6 /\ main'.at = "rules"
    BY <1>1, <1>7, <2>1 DEF CleanupOrphans, Go, Program, Main
  <2>3. "unprotected" \in Excused'
    BY <2>1, <2>2, ExcusedNextIs DEF BootStages
  <2>4. CASE windows /\ host' = HostWith(Open)
    <3>1. host'.rules = Open /\ host'.left = {}
      BY <1>1, <2>4, OpenedIs
    <3>2. Verdict(host', prg') \subseteq {"unprotected"}
      BY <2>2, <3>1, VerdictIs DEF Open
    <3> QED
      BY <1>1, <2>3, <3>2, PolicyIs
  <2>5. CASE ~windows /\ host' = host
    <3>1. Verdict(host', prg') \subseteq {"unprotected"}
      BY <2>1, <2>2, <2>5, VerdictIs
    <3> QED
      BY <1>1, <2>3, <3>1, PolicyIs
  <2>6. CASE windows /\ host' = host /\ drift' = Recorded(host, prg', {"lockdown"})
    <3>1. Verdict(host, prg') \subseteq {"unprotected", "older", "lockdown"}
      BY <2>1, <2>2, VerdictIs
    <3>2. "older" \in Verdict(host, prg') => "older" \in Verdict(host, prg)
      <4>1. \A x \in host.left : x.mode = "full" => x.relay # None
        BY <1>1, ProtectionAssumption, RulesetsAre DEF Host
      <4> QED
        BY <2>1, <4>1, VerdictIs
    <3>3. "older" \in Verdict(host, prg) => "older" \in drift
      BY <1>2, ExcusedIs, PolicyIs
    <3>4. \A d \in Verdict(host, prg') : d \in drift \/ d = "lockdown" => d \in drift'
      BY <1>2, <2>6 DEF Recorded, Alive
    <3> QED
      BY <1>1, <2>3, <2>6, <3>1, <3>2, <3>3, <3>4, PolicyIs
  <2> QED
    BY <1>7, <2>4, <2>5, <2>6 DEF CleanupOrphans
<1>8. CASE RaiseRules
  <2> DEFINE w == Full(main.relay, fw.of["boot"].v6)
  <2>1. PICK o : /\ Forced(o, "boot", w, RaiseMay, TRUE)
                 /\ prg' = IF o.ok THEN [prg EXCEPT !.mgr = "boot"] ELSE prg
                 /\ watch' = IF o.ok THEN [watch EXCEPT !.at = "idle"] ELSE watch
    BY <1>8, RaiseIs
  <2>2. /\ main.at = "rules" /\ main'.at = "gate" /\ prg.relay = main.relay
        /\ watch.at = "off" /\ ~fw.armed
    BY <1>1, <1>2, <1>8 DEF RaiseRules, Go, Main, BootInv, EarlyStages, BootStages
  <2>3. w.mode = "full" /\ w.relay = main.relay
    BY DEF Full
  <2> HIDE DEF w
  <2>4. o.ok \in BOOLEAN /\ host'.rules \in {host.rules, w} /\ (o.ok => host'.rules = w)
    BY <2>1, <2>3 DEF Forced, Outcome, Open
  <2>5. /\ prg'.relay = prg.relay /\ prg'.v6 = prg.v6
        /\ {"putBack", "v6", "older"} \subseteq RaiseMay
    BY <1>1, <2>1 DEF Program, RaiseMay
  <2>6. "lockdown" \in Verdict(host', prg') => "lockdown" \in Verdict(host, prg)
    BY <2>1, <2>3, <2>5, Inherited
  <2>7. CASE host'.rules = w
    <3>1. Verdict(host', prg') \subseteq RaiseMay \union {"lockdown"}
      BY <2>2, <2>3, <2>5, <2>7, VerdictIs
    <3> QED
      BY <1>1, <1>2, <2>1, <2>6, <3>1, PolicyForced
  <2>8. CASE host'.rules = host.rules /\ ~o.ok
    <3>5. \A d \in Verdict(host', prg') : d = "older" \/ d \in Verdict(host, prg)
      BY <2>1, <2>6, <2>8, VerdictIs
    <3>1. \A d \in Verdict(host', prg') : d = "older" \/ d \in drift \/ d \in Excused
      BY <1>2, <3>5, PolicyIs
    <3>2. \A d \in Verdict(host', prg') : d \in drift \/ d \in RaiseMay => d \in drift'
      BY <1>2, <2>1 DEF Forced
    <3>3. "stale" \in Excused => "stale" \in Excused'
      BY <1>1, ExcusedIs, ExcusedNextIs
    <3>4. ASSUME "unprotected" \in Verdict(host', prg'), "unprotected" \in Excused
          PROVE  "unprotected" \in RaiseMay \union Excused'
      <4>1. prg.enabled
        BY <2>1, <2>8, <3>4, VerdictIs
      <4>2. CASE prg.mgr = "captive"
        BY <4>2 DEF RaiseMay
      <4>3. CASE prg.mgr = "none"
        BY <2>1, <2>2, <2>8, <4>1, <4>3, ExcusedNextIs DEF Ready
      <4>4. CASE prg.mgr \notin {"captive", "none"}
        <5>1. \E r \in Handlers : req[r].at = "apply"
          BY <2>2, <3>4, <4>4, ExcusedIs DEF Watched
        <5> QED
          BY <1>1, <5>1, ExcusedNextIs
      <4> QED
        BY <4>2, <4>3, <4>4
    <3> QED
      BY <1>1, <2>5, <3>1, <3>2, <3>3, <3>4, ExcusedIs, PolicyIs
  <2> QED
    BY <2>4, <2>7, <2>8
<1>9. CASE NoRulesWanted
  <2>1. UNCHANGED <<prg, host, drift>> /\ ~prg.enabled
    BY <1>9 DEF NoRulesWanted, effects
  <2>2. "unprotected" \notin Verdict(host', prg') /\ Verdict(host', prg') = Verdict(host, prg)
    BY <2>1, VerdictIs
  <2>3. "stale" \in Excused => "stale" \in Excused'
    BY <1>1, ExcusedIs, ExcusedNextIs
  <2> QED
    BY <1>1, <1>2, <2>1, <2>2, <2>3, ExcusedIs, PolicyIs
<1>10. CASE GateRefuses \/ Connect \/ StartProxy \/ SetResolver
  <2>1. /\ UNCHANGED <<prg, fw, drift, watch>> /\ host'.rules = host.rules /\ host'.left = host.left
        /\ main'.at \in {"proxy", "dns", "up", "disarm"} /\ (main.at = "gate" /\ main'.at = "proxy" => Ready)
        /\ main.at = "gate" => main'.at \in {"proxy", "disarm"}
        /\ main.at \in {"gate", "proxy", "dns"}
    BY <1>1, <1>10
    DEF GateRefuses, Connect, StartProxy, SetResolver, others, effects, Go, Host, Main
  <2>2. main'.at # "disarm" /\ main.at \notin BootStages
    BY <2>1 DEF UpStages, EarlyStages, BootStages, Settled
  <2>3. "unprotected" \in Excused => "unprotected" \in Excused'
    BY <1>1, <2>1, <2>2, ExcusedIs, ExcusedNextIs DEF Watched
  <2>4. "stale" \in Excused => "stale" \in Excused'
    BY <1>1, ExcusedIs, ExcusedNextIs
  <2> QED
    BY <1>1, <1>2, <2>1, <2>3, <2>4, PolicyStays
<1> QED
  BY <1>4, <1>5, <1>6, <1>7, <1>8, <1>9, <1>10 DEF Boot

LEMMA HandlePolicy ==
    ASSUME TypeOK, PhaseInv, BootInv, PolicyInv, NEW r \in Handlers, Handle(r)
    PROVE  PolicyInv'
<1> SUFFICES ASSUME Alive', main'.at \in UpStages PROVE PolicyInv'
  BY DEF PolicyInv
<1>1. UNCHANGED <<windows, stopping, main, watch>> /\ prg \in Program /\ host \in Host /\ fw \in Firewalls
      /\ req \in [Handlers -> Request]
  BY Frames, TypeOKIs DEF calm
<1>2. main.at \in UpStages /\ Alive
  BY <1>1 DEF Alive
<1>3. \A s \in Handlers \ {r} : req'[s] = req[s]
  BY RequestFrame
<1>4. "stale" \in Excused /\ ~ActivateForRelay(r) => "stale" \in Excused'
  <2>1. req[r].at = "activate" => ActivateForRelay(r)
    BY HandleMoves
  <2> QED
    BY <1>3, <2>1, ExcusedIs, ExcusedNextIs
<1>5. CASE ApplyMode(r)
  <2>1. PICK o, w :
             /\ Forced(o, req[r].fw, w, FailMay(o), FALSE)
             /\ req[r].op = "normal" =>
                  /\ w = Full(req[r].relay, Options(req[r].fw, req[r].allow))
                  /\ prg' = IF o.ok THEN [prg EXCEPT !.enabled = TRUE, !.mgr = req[r].fw] ELSE prg
             /\ req[r].op # "normal" =>
                  /\ w = Open
                  /\ prg' = IF o.ok THEN [prg EXCEPT !.enabled = FALSE] ELSE prg
    BY <1>5, ApplyModeIs
  <2>2. /\ ~Flawed(o) => o.ok
        /\ ~Flawed(o) => host'.rules = w
        /\ Flawed(o) => Passing \subseteq FailMay(o)
        /\ {"stale", "v6", "older"} \subseteq FailMay(o)
    BY <2>1 DEF Forced, Outcome, FailMay, Flawed
  <2>6. w.mode # "captive"
    BY <2>1 DEF Full, Open
  <2>4. prg'.relay = prg.relay /\ prg'.v6 = prg.v6 /\ w.mode # "captive"
    BY <1>1, <2>1, <2>6 DEF Program
  <2>5. "lockdown" \in Verdict(host', prg') => "lockdown" \in Verdict(host, prg)
    BY <2>1, <2>4, Inherited
  <2>3. Verdict(host', prg') \subseteq FailMay(o) \union {"lockdown"}
    <3>1. CASE Flawed(o)
      BY <2>2, <3>1, VerdictIs DEF Passing
    <3>2. CASE ~Flawed(o) /\ req[r].op = "normal"
      <4>1. prg'.enabled
        BY <1>1, <2>1, <2>2, <3>2 DEF Program
      <4>2. host'.rules = w /\ w.mode = "full"
        BY <2>1, <2>2, <3>2 DEF Full
      <4> QED
        BY <2>2, <4>1, <4>2, VerdictIs
    <3>3. CASE ~Flawed(o) /\ req[r].op # "normal"
      <4>1. ~prg'.enabled /\ host'.rules.mode = "open"
        BY <1>1, <2>1, <2>2, <3>3 DEF Open, Program
      <4> QED
        BY <2>2, <4>1, VerdictIs
    <3> QED
      BY <3>1, <3>2, <3>3
  <2> QED
    BY <1>1, <1>2, <2>1, <2>3, <2>5, PolicyForced
<1>6. CASE UndoMode(r)
  <2>1. PICK o, w :
             /\ Forced(o, UndoObject, w, FailMay(o), FALSE)
             /\ req[r].op # "degraded" => w = Open /\ prg' = [prg EXCEPT !.enabled = FALSE]
             /\ req[r].op = "degraded" =>
                  /\ prg' = IF o.ok THEN [prg EXCEPT !.enabled = TRUE, !.mgr = UndoObject]
                            ELSE [prg EXCEPT !.enabled = TRUE]
                  /\ o.ok => w.mode = "full"
             /\ w = Open \/ w.mode = "full"
    BY <1>6, UndoModeIs
  <2>2. /\ ~Flawed(o) => o.ok
        /\ ~Flawed(o) => host'.rules = w
        /\ Flawed(o) => Passing \subseteq FailMay(o)
        /\ {"stale", "v6", "older"} \subseteq FailMay(o)
    BY <2>1 DEF Forced, Outcome, FailMay, Flawed
  <2>6. w.mode # "captive"
    BY <2>1 DEF Full, Open
  <2>4. prg'.relay = prg.relay /\ prg'.v6 = prg.v6 /\ w.mode # "captive"
    BY <1>1, <2>1, <2>6 DEF Program
  <2>5. "lockdown" \in Verdict(host', prg') => "lockdown" \in Verdict(host, prg)
    BY <2>1, <2>4, Inherited
  <2>3. Verdict(host', prg') \subseteq FailMay(o) \union {"lockdown"}
    <3>1. CASE Flawed(o)
      BY <2>2, <3>1, VerdictIs DEF Passing
    <3>2. CASE ~Flawed(o) /\ req[r].op = "degraded"
      <4>1. prg'.enabled /\ host'.rules.mode = "full"
        BY <1>1, <2>1, <2>2, <3>2 DEF Program
      <4> QED
        BY <2>2, <4>1, VerdictIs
    <3>3. CASE ~Flawed(o) /\ req[r].op # "degraded"
      <4>1. ~prg'.enabled /\ host'.rules.mode = "open"
        BY <1>1, <2>1, <2>2, <3>3 DEF Open, Program
      <4> QED
        BY <2>2, <4>1, VerdictIs
    <3> QED
      BY <3>1, <3>2, <3>3
  <2> QED
    BY <1>1, <1>2, <2>1, <2>3, <2>5, PolicyForced
<1>7. CASE ApplyIPv6(r) \/ ActivateForRelay(r)
  <2>1. PICK o, i, w : Forced(o, i, w, Passing, FALSE)
    BY <1>7, ApplyIPv6Is, ActivateIs
  <2>2. Verdict(host', prg') \subseteq Passing
    BY VerdictIs DEF Passing
  <2> QED
    BY <1>1, <1>2, <2>1, <2>2, PolicyForced
<1>8. ASSUME fw'.armed = fw.armed, host'.rules = host.rules, req[r].at # "apply",
             main.at \in EarlyStages => prg'.mgr = prg.mgr /\ prg'.tun = prg.tun
                                        /\ prg'.route = prg.route /\ prg'.enabled = prg.enabled,
             "unprotected" \in Excused
      PROVE  "unprotected" \in Excused'
  <2>1. (\E s \in Handlers : req[s].at = "apply") => \E s \in Handlers : req'[s].at = "apply"
    BY <1>3, <1>8
  <2>2. Watched => Watched'
    BY <1>1 DEF Watched
  <2>3. main.at \in BootStages \union {"gate"} => main.at \in EarlyStages
    BY DEF EarlyStages
  <2> QED
    BY <1>1, <1>8, <2>1, <2>2, <2>3, ExcusedIs, ExcusedNextIs DEF Ready
<1>9. main.at \in EarlyStages => req[r].at \notin Travel
  BY DEF BootInv
<1>10. CASE LockMode(r) /\ prg' # prg
  <2>1. /\ prg' = [prg EXCEPT !.enabled = FALSE] /\ UNCHANGED host
        /\ drift' = Recorded(host, prg', {"putBack"})
    BY <1>10 DEF LockMode
  <2>2. ~prg'.enabled /\ prg'.relay = prg.relay /\ prg'.v6 = prg.v6
    BY <1>1, <2>1 DEF Program
  <2>3. \A d \in Verdict(host, prg') : d = "putBack" \/ d \in Verdict(host, prg)
    BY <2>2, VerdictIs
  <2>4. "unprotected" \notin Verdict(host, prg')
    BY <2>2, VerdictIs
  <2>5. \A d \in Verdict(host, prg') : d = "putBack" \/ d \in drift \/ d \in Excused'
    BY <1>2, <1>4, <1>10, <2>3, <2>4, ExcusedIs, PolicyIs DEF LockMode, ActivateForRelay, At
  <2> QED
    BY <1>1, <1>2, <2>1, <2>5, PolicyIs DEF Recorded, Alive
<1>11. CASE LockMode(r) /\ prg' = prg
  <2>1. UNCHANGED <<host, fw, drift>> /\ req[r].at = "lock"
    BY <1>1, <1>11 DEF LockMode, At, Program
  <2> QED
    BY <1>1, <1>2, <1>4, <1>8, <1>11, <2>1, PolicyStays DEF ActivateForRelay, At
<1>12. CASE DisarmMode(r)
  <2>1. UNCHANGED <<prg, host, drift>> /\ req'[r].at = "apply"
    BY <1>1, <1>12, RequestAfter DEF DisarmMode
  <2>2. "unprotected" \in Excused'
    BY <2>1, ExcusedNextIs
  <2> QED
    BY <1>1, <1>2, <1>4, <1>12, <2>1, <2>2, PolicyStays DEF DisarmMode, ActivateForRelay, At
<1>13. CASE CheckCaptive(r) \/ PersistMode(r) \/ SaveIPv6(r) \/ Reconnected(r)
  <2>1. UNCHANGED <<prg, host, fw, drift>> /\ req[r].at \notin {"apply", "activate"}
    BY <1>13 DEF CheckCaptive, PersistMode, SaveIPv6, Reconnected, At
  <2> QED
    BY <1>1, <1>2, <1>4, <1>8, <2>1, PolicyStays DEF ActivateForRelay, At
<1>14. CASE TakeRoutes(r) \/ SetupForRelay(r) \/ OwnRoutes(r)
  <2>1. /\ host'.rules = host.rules /\ host'.left = host.left /\ fw' = fw /\ drift \subseteq drift'
        /\ prg'.enabled = prg.enabled /\ prg'.v6 = prg.v6 /\ prg'.relay = prg.relay
        /\ req[r].at \in {"unroute", "reroute", "own"}
    BY <1>1, <1>14 DEF TakeRoutes, SetupForRelay, SetupRoutes, OwnRoutes, At, Lost, Program, Host
  <2>2. main.at \notin EarlyStages
    BY <1>9, <2>1 DEF Travel
  <2> QED
    BY <1>1, <1>2, <1>4, <1>8, <2>1, <2>2, PolicyStays DEF ActivateForRelay, At
<1>15. CASE StoreRelay(r)
  <2> DEFINE told == prg.enabled /\ prg.mgr # "none" /\ prg.tun
  <2>1. PICK q \in Relays : /\ prg' = [prg EXCEPT !.relay = q]
                            /\ req' = [req EXCEPT ![r].relay = q, ![r].fw = prg.mgr,
                                                  ![r].at = IF told THEN "activate" ELSE "unroute"]
                            /\ drift' = Recorded(host, prg', {"older", "lockdown"}
                                                    \union {d \in {"stale"} : ~told})
    BY <1>15 DEF StoreRelay
  <2>2. UNCHANGED <<host, fw>> /\ req[r].at = "store" /\ main.at \notin EarlyStages
    BY <1>9, <1>15 DEF StoreRelay, At, Travel
  <2>3. prg'.enabled = prg.enabled /\ prg'.v6 = prg.v6
    BY <1>1, <2>1 DEF Program
  <2>4. \A d \in Verdict(host, prg') : d \in {"stale", "older", "lockdown"} \/ d \in Verdict(host, prg)
    BY <2>3, VerdictIs
  <2>5. "unprotected" \in Excused => "unprotected" \in Excused'
    BY <1>8, <2>2
  <2>6. told => "stale" \in Excused'
    <3>1. req'[r].at = IF told THEN "activate" ELSE "unroute"
      BY <1>1, <2>1 DEF Request
    <3> QED
      BY <3>1, ExcusedNextIs
  <2>7. \A d \in Verdict(host, prg') : \/ d \in {"older", "lockdown"} \/ (d = "stale" /\ ~told)
                                      \/ d \in drift \/ d \in Excused'
    BY <1>2, <2>4, <2>5, <2>6, ExcusedIs, PolicyIs
  <2> HIDE DEF told
  <2>8. \A d \in Verdict(host, prg') :
           d \in {"older", "lockdown"} \/ (d = "stale" /\ ~told) \/ d \in drift => d \in drift'
    BY <1>2, <2>1 DEF Recorded, Alive
  <2> QED
    BY <1>1, <2>2, <2>7, <2>8, PolicyIs
<1> QED
  BY <1>5, <1>6, <1>7, <1>10, <1>11, <1>12, <1>13, <1>14, <1>15 DEF Handle

LEMMA RecoverPolicy ==
    ASSUME TypeOK, PhaseInv, BootInv, PolicyInv, Recover \/ RecoveryStarts
    PROVE  PolicyInv'
<1> SUFFICES ASSUME Alive', main'.at \in UpStages PROVE PolicyInv'
  BY DEF PolicyInv
<1>1. UNCHANGED recovering /\ prg \in Program /\ host \in Host
  BY Frames, TypeOKIs
<1>2. main.at \in UpStages \ EarlyStages /\ Alive
  BY <1>1, RecoveryComesLater DEF recovering, Alive
<1>3. CASE RecoverRules
  <2>1. PICK o, w : /\ Forced(o, reco.fw, w, RecoverMay(o), reco.byTun /\ main.up)
                    /\ w.mode = "full" /\ prg' = prg
    BY <1>3, RecoverIs
  <2>2. o.ok \in BOOLEAN /\ (o.ok => host'.rules = w)
    BY <2>1 DEF Forced, Outcome, Open
  <2>3. Verdict(host', prg') \subseteq RecoverMay(o) \union {"lockdown"}
    BY <2>1, <2>2, VerdictIs DEF RecoverMay
  <2>4. "lockdown" \in Verdict(host', prg') => "lockdown" \in Verdict(host, prg)
    BY <2>1, Inherited
  <2> QED
    BY <1>1, <1>2, <2>1, <2>3, <2>4, PolicyForced DEF recovering
<1>4. CASE ~RecoverRules
  <2>1. /\ host'.rules = host.rules /\ host'.left = host.left /\ fw' = fw /\ drift \subseteq drift'
        /\ prg'.enabled = prg.enabled /\ prg'.v6 = prg.v6 /\ prg'.relay = prg.relay
    BY <1>1, <1>4
    DEF Recover, CloseDevice, NewDevice, KeepDevice, ReadRelay, ReadMode, ReadManager,
        DropRoutes, RecoverRoutes, KeepRoutes,
        RecoveryStarts, effects, Lost, Program, Host
  <2>2. main.at \notin BootStages \union {"gate"}
    BY <1>2 DEF EarlyStages
  <2>3. "unprotected" \in Excused => "unprotected" \in Excused'
    BY <1>1, <2>1, <2>2, ExcusedIs, ExcusedNextIs DEF recovering, Watched
  <2>4. "stale" \in Excused => "stale" \in Excused'
    BY <1>1, ExcusedIs, ExcusedNextIs DEF recovering
  <2> QED
    BY <1>1, <1>2, <2>1, <2>3, <2>4, PolicyStays DEF recovering
<1> QED
  BY <1>3, <1>4

LEMMA WatchPolicy ==
    ASSUME TypeOK, PhaseInv, PolicyInv, Watch
    PROVE  PolicyInv'
<1> SUFFICES ASSUME Alive', main'.at \in UpStages PROVE PolicyInv'
  BY DEF PolicyInv
<1>1. UNCHANGED watching /\ watch \in Watcher /\ fw \in Firewalls /\ main.at \in UpStages /\ Alive
  BY Frames, TypeOKIs DEF watching, Alive
<1>2. "stale" \in Excused => "stale" \in Excused'
  BY <1>1, ExcusedIs, ExcusedNextIs DEF watching
<1>3. CASE WatcherWakes
  <2>1. fw'.armed = fw.armed /\ UNCHANGED <<host, drift>> /\ watch.at = "idle"
    BY <1>1, <1>3 DEF WatcherWakes, Firewalls
  <2>2. "unprotected" \in Excused => "unprotected" \in Excused'
    BY <1>1, <2>1, ExcusedIs, ExcusedNextIs DEF watching, Watched, Ready
  <2> QED
    BY <1>1, <1>2, <2>1, <2>2, PolicyStays DEF watching
<1>4. CASE WatcherDisarms
  <2>1. UNCHANGED <<host, drift>> /\ watch'.at = "lift"
    BY <1>1, <1>4 DEF WatcherDisarms, Watcher
  <2>2. "unprotected" \in Excused'
    BY <2>1, ExcusedNextIs DEF Watched
  <2> QED
    BY <1>1, <1>2, <2>1, <2>2, PolicyStays DEF watching
<1>5. CASE WatcherLifts
  <2>1. PICK o : /\ Forced(o, watch.fw, Open, {d \in Passing : ~RestoreFollows}, FALSE)
                 /\ prg' = prg
                 /\ watch' = IF RestoreFollows
                             THEN [watch EXCEPT !.at = "restore", !.relay = prg.relay]
                             ELSE Watching
    BY <1>5, LiftIs
  <2>2. CASE ~RestoreFollows
    <3>1. Verdict(host', prg') \subseteq {d \in Passing : ~RestoreFollows}
      BY <2>2, VerdictIs DEF Passing
    <3> QED
      BY <1>1, <2>1, <3>1, PolicyForced DEF watching
  <2>3. CASE RestoreFollows
    <3>1. "unprotected" \in Excused'
      BY <1>1, <2>1, <2>3, ExcusedNextIs DEF Watched, Watcher
    <3>2. host'.rules \in {host.rules, Open}
      BY <2>1 DEF Forced, Outcome
    <3>5. \A d \in {"older", "lockdown"} : d \in Verdict(host', prg') => d \in Verdict(host, prg)
      <4>1. prg'.relay = prg.relay /\ prg'.v6 = prg.v6 /\ Open.mode # "captive"
        BY <2>1 DEF Open
      <4>2. /\ "lockdown" \in Verdict(host', prg') => "lockdown" \in Verdict(host, prg)
            /\ "older" \in Verdict(host', prg') => "older" \in Verdict(host, prg)
        BY <2>1, <4>1, Inherited
      <4> QED
        BY <4>2
    <3>3. \A d \in Verdict(host', prg') : d = "unprotected" \/ d \in Verdict(host, prg)
      BY <2>1, <3>2, <3>5, VerdictIs DEF Open
    <3>4. \A d \in Verdict(host', prg') : d \in drift => d \in drift'
      BY <1>1, <2>1 DEF Forced
    <3> QED
      BY <1>1, <1>2, <3>1, <3>3, <3>4, ExcusedIs, PolicyIs DEF watching
  <2> QED
    BY <2>2, <2>3
<1>6. CASE WatcherRestores
  <2>1. PICK o, w : Forced(o, watch.fw, w, Passing, FALSE)
    BY <1>6, RestoreIs
  <2>2. Verdict(host', prg') \subseteq Passing
    BY VerdictIs DEF Passing
  <2> QED
    BY <1>1, <2>1, <2>2, PolicyForced DEF watching
<1> QED
  BY <1>3, <1>4, <1>5, <1>6 DEF Watch

LEMMA OtherPolicy ==
    ASSUME TypeOK, PhaseInv, PolicyInv, WatchdogPoll \/ CheckResolver \/ Environment
    PROVE  PolicyInv'
<1> SUFFICES ASSUME Alive', main'.at \in UpStages PROVE PolicyInv'
  BY DEF PolicyInv
<1>1. ~Stop
  BY DEF Stop, Alive
<1>2. UNCHANGED <<windows, prg, main, stopping, watch>> /\ host \in Host /\ fw \in Firewalls
      /\ req \in [Handlers -> Request]
  BY <1>1, Frames, TypeOKIs DEF Environment
<1>3. main.at \in UpStages /\ Alive
  BY <1>2 DEF Alive
<1>4. \A s \in Handlers : req[s].at \in {"apply", "activate"} => req'[s].at = req[s].at
  <2>1. CASE WatchdogPoll \/ CheckResolver \/ RulesDeleted \/ DeviceDeleted \/ ResolverChanged
    BY <2>1, Frames
  <2>2. CASE ModeRequested \/ IPv6Requested \/ CountryRequested
    <3>1. PICK op, at : Receive(op, at)
      BY <2>2 DEF ModeRequested, IPv6Requested, CountryRequested
    <3>2. PICK r \in Handlers : req[r] = Idle /\ req' = [req EXCEPT ![r] = [Idle EXCEPT !.op = op, !.at = at]]
      BY <3>1, Arrivals
    <3> QED
      BY <1>2, <3>2 DEF Idle
  <2> QED
    BY <1>1, <2>1, <2>2 DEF Environment
<1>5. "stale" \in Excused => "stale" \in Excused'
  BY <1>4, ExcusedIs, ExcusedNextIs
<1>6. "unprotected" \in Excused /\ fw'.armed = fw.armed /\ host'.rules \in {host.rules, Open}
        => "unprotected" \in Excused'
  BY <1>2, <1>4, ExcusedIs, ExcusedNextIs DEF Watched, Ready
<1>7. CASE RulesDeleted
  <2>1. /\ host'.rules = Open /\ host'.left = {} /\ fw' = fw
        /\ drift' = Recorded(host', prg, {d \in {"unprotected"} : ~fw.armed})
    BY <1>2, <1>7, OpenedIs, Frames DEF RulesDeleted
  <2>2. Verdict(host', prg) \subseteq {"unprotected"}
    BY <2>1, VerdictIs DEF Open
  <2>3. fw.armed => "unprotected" \in Excused'
    BY <2>1, ExcusedNextIs
  <2>4. ~fw.armed => \A d \in Verdict(host', prg) : d \in drift'
    BY <1>3, <2>1, <2>2 DEF Recorded, Alive
  <2> QED
    BY <1>2, <2>1, <2>2, <2>3, <2>4, PolicyIs
<1>8. CASE ~RulesDeleted
  <2>1. /\ host'.rules = host.rules /\ host'.left = host.left /\ fw'.armed = fw.armed
        /\ drift' = drift
    BY <1>1, <1>2, <1>8, Frames
    DEF WatchdogPoll, CheckResolver, Environment, DeviceDeleted, ResolverChanged, Host, Firewalls
  <2> QED
    BY <1>2, <1>3, <1>5, <1>6, <2>1, PolicyStays
<1> QED
  BY <1>7, <1>8

LEMMA PolicyStep == TypeOK /\ PhaseInv /\ BootInv /\ PolicyInv /\ [Next]_vars => PolicyInv'
<1> SUFFICES ASSUME TypeOK, PhaseInv, BootInv, PolicyInv, [Next]_vars PROVE PolicyInv'
  OBVIOUS
<1>1. CASE UNCHANGED vars
  BY <1>1 DEF vars, PolicyInv, Alive, Verdict, Excused, Ready
<1>2. CASE Shutdown \/ Exit
  BY <1>2, ShutdownMoves DEF PolicyInv, LateStages, UpStages, EarlyStages, BootStages, Settled
<1>3. CASE Boot
  BY <1>3, BootStep, BootPolicy DEF Next
<1> QED
  BY <1>1, <1>2, <1>3, HandlePolicy, RecoverPolicy, WatchPolicy, OtherPolicy DEF Next, Exited

-----------------------------------------------------------------------------
(* The theorems.                                                           *)

LEMMA PolicyInit == Init => PolicyInv /\ CaptiveHandover
<1> SUFFICES ASSUME Init PROVE PolicyInv /\ CaptiveHandover
  OBVIOUS
<1>1. host.rules = Open /\ host.left = {} /\ main.at = "preflight" /\ prg.mgr = "none"
  BY DEF Init
<1>2. Verdict(host, prg) \subseteq {"unprotected"} /\ "unprotected" \in Excused
  BY <1>1, VerdictIs, ExcusedIs DEF Open, BootStages, Settled
<1> QED
  BY <1>1, <1>2, PolicyIs, CaptiveIs DEF Handing

LEMMA LeftInit == Init => LeftInv
BY DEF Init, LeftInv

\* The rules change as a whole, with HostWith, or not at all.
LEMMA LeftStep == TypeOK /\ LeftInv /\ [Next]_vars => LeftInv'
<1> SUFFICES ASSUME TypeOK, LeftInv, [Next]_vars PROVE LeftInv'
  OBVIOUS
<1>1. host \in Host
  BY TypeOKIs
<1>2. (\E x : host' = HostWith(x)) \/ (host'.rules = host.rules /\ host'.left = host.left)
  <2>1. CASE UNCHANGED vars
    BY <2>1 DEF vars
  <2>2. CASE Boot
    BY <1>1, <2>2
    DEF Boot, NoPortal, PortalWithoutLockdown, PortalLockdown, CaptiveCleared, CaptiveStopped,
        TunUp, TunFails, RouteUp, RelayUnresolved, CleanupOrphans, NoRulesWanted, RaiseRules,
        GateRefuses, Connect, StartProxy, SetResolver, effects, Enforce, Host
  <2>3. CASE Shutdown \/ Exit
    BY <1>1, <2>3
    DEF Shutdown, Exit, RestoreResolver, StopTunWatchdog, DisarmRules, DeleteRules, Unroute, Join,
        effects, Host
  <2>4. ASSUME NEW r \in Handlers, Handle(r)
        PROVE  (\E x : host' = HostWith(x)) \/ (host'.rules = host.rules /\ host'.left = host.left)
    BY <1>1, <2>4
    DEF Handle, CheckCaptive, LockMode, DisarmMode, ApplyMode, PersistMode, UndoMode, SaveIPv6,
        ApplyIPv6, StoreRelay, ActivateForRelay, TakeRoutes, SetupForRelay, SetupRoutes, OwnRoutes,
        Reconnected, Enforce, Host
  <2>5. CASE Recover \/ RecoveryStarts
    BY <1>1, <2>5
    DEF Recover, CloseDevice, NewDevice, KeepDevice, ReadRelay, ReadMode, ReadManager, RecoverRules,
        DropRoutes, RecoverRoutes, KeepRoutes, RecoveryStarts, effects, Enforce, Host
  <2>6. CASE Watch \/ WatchdogPoll \/ CheckResolver
    BY <1>1, <2>6
    DEF Watch, WatcherWakes, WatcherDisarms, WatcherLifts, WatcherRestores, WatchdogPoll,
        CheckResolver, Enforce, Host
  <2>7. CASE Environment \/ Exited
    BY <1>1, <2>7, Frames
    DEF Environment, Exited, vars, Stop, RulesDeleted, DeviceDeleted, ResolverChanged, Host
  <2> QED
    BY <2>1, <2>2, <2>3, <2>4, <2>5, <2>6, <2>7 DEF Next
<1>3. ASSUME NEW x, host' = HostWith(x) PROVE LeftInv'
  BY <1>1, <1>3 DEF LeftInv, HostWith, Host
<1> QED
  BY <1>2, <1>3 DEF LeftInv

THEOREM Invariance == Spec => []IInv
<1>1. Init => IInv
  BY TypeInit, PhaseInit, BootInit, OwnedInit, LeftInit, HostInit, PolicyInit DEF IInv
<1>2. IInv /\ [Next]_vars => IInv'
  BY TypeStep, PhaseStep, BootStep, OwnedStep, LeftStep, HostStep, PolicyStep, CaptiveStep DEF IInv
<1> QED
  BY <1>1, <1>2, PTL DEF Spec

\* Type correctness: every variable keeps to the values the code can give it.
THEOREM TypeCorrect == Spec => []TypeOK
<1>1. IInv => TypeOK
  BY DEF IInv
<1> QED
  BY <1>1, Invariance, PTL

\* Whenever the service is up and nobody is in the middle of a change, the rules of
\* the kill switch are those of the mode, the relay and the IPv6 policy in force, or
\* the breach is of a kind that one of the operations which may leave it has recorded.
THEOREM RulesFollow == Spec => []RulesFollowPolicy
<1>1. IInv => RulesFollowPolicy
  <2> SUFFICES ASSUME IInv, AtRest PROVE Verdict(host, prg) \subseteq drift
    BY DEF RulesFollowPolicy
  <2>1. /\ main.at = "up" /\ Alive /\ watch.at \in {"off", "idle"} /\ ~(fw.armed /\ host.rules = Open)
        /\ \A r \in Handlers : req[r].at = "idle"
    BY DEF AtRest, Alive, Idle
  <2>2. main.at \in UpStages /\ main.at \notin BootStages \union {"gate"}
    BY <2>1 DEF UpStages, EarlyStages, BootStages, Settled
  <2>3. Excused = {}
    BY <2>1, <2>2, ExcusedIs DEF Watched
  <2> QED
    BY <2>1, <2>2, <2>3, PolicyIs DEF IInv
<1> QED
  BY <1>1, Invariance, PTL

\* Linux: between the lockdown of the captive portal and the full rules that replace
\* it the host is never open, unless the user, a failure or a third party opened it.
THEOREM LockdownHandsOver == Spec => []CaptiveHandover
<1>1. IInv => CaptiveHandover
  BY DEF IInv
<1> QED
  BY <1>1, Invariance, PTL

\* A process that ended left no rules, no routes and the resolver it found, unless one
\* of the recorded causes got in the way: whatever the handlers, the recovery and the
\* watcher were in the middle of when the service was stopped.
THEOREM HostIsReopened == Spec => []HostReopened
<1>1. IInv => HostReopened
  BY DEF IInv, LeftInv, HostInv, HostReopened, Clean, OutStages
<1> QED
  BY <1>1, Invariance, PTL
-----------------------------------------------------------------------------
(* The stop of the service: who waits for whom, and what is left to do.    *)

\* p.mu is held by the mode request that changes the firewall, config.Mu by the IPv6
\* request on its way to SetIPv6Policy, and by nobody else (killswitch.go, handler.go).
LocksAreHeld ==
    /\ \A r \in Handlers : locks.mu = r <=> req[r].at \in {"disarm", "apply"}
    /\ \A r \in Handlers : locks.config = r <=> req[r].at = "policy"

\* What a handler, the recovery and the main goroutine wait for before their next step.
Blocked(r) ==
    \/ req[r].at \in {"lock", "undo", "policy", "store", "unroute", "own"} /\ locks.mu # None
    \/ req[r].at \in {"persist", "save"} /\ locks.config # None
RecoveryBlocked == reco.at \in {"close", "check", "mgr", "keep", "drop", "own"} /\ locks.mu # None
MainBlocked ==
    \/ main.at = "up" /\ guards.dns = "fixing"
    \/ main.at = "settle" /\ reco.at # "idle" /\ reco.byTun
    \/ main.at = "join" /\ (locks.mu # None \/ \E r \in Handlers : req[r] # Idle)

\* As long as a stop is under way, it is not held up by goroutines that wait for each
\* other: the main goroutine can go on, or one of those it waits for, directly or through
\* the locks, can.
SomebodyGoesOn ==
    stopping /\ main.at \notin {"down", "exited"} =>
      \/ ~MainBlocked \/ guards.dns = "fixing"
      \/ reco.at # "idle" /\ ~RecoveryBlocked
      \/ \E r \in Handlers : req[r].at # "idle" /\ ~Blocked(r)

\* How far each of them is from its end.
MainWay ==
    CASE main.at = "preflight" -> 16 [] main.at = "captive" -> 15 [] main.at = "tun" -> 14
      [] main.at = "route" -> 13 [] main.at = "orphans" -> 12 [] main.at = "rules" -> 11
      [] main.at = "gate" -> 10 [] main.at = "proxy" -> 9 [] main.at = "dns" -> 8
      [] main.at = "up" -> 7 [] main.at = "settle" -> 6 [] main.at = "disarm" -> 5
      [] main.at = "delete" -> 4 [] main.at = "unroute" -> 3 [] main.at = "join" -> 2
      [] main.at = "down" -> 1 [] OTHER -> 0
Distance(x) ==
    CASE x.at = "store" -> 14 [] x.at = "activate" -> 13 [] x.at = "unroute" -> 12
      [] x.at = "reroute" -> 11 [] x.at = "own" -> 10
      [] x.at = "check" /\ x.op = "country" -> 9 [] x.at = "check" /\ x.op # "country" -> 8
      [] x.at = "lock" -> 7 [] x.at = "disarm" -> 6 [] x.at = "apply" -> 5
      [] x.at = "persist" -> 4 [] x.at = "undo" -> 3 [] x.at = "save" -> 2
      [] x.at = "policy" -> 1 [] OTHER -> 0
RequestWay(r) == Distance(req[r])
RecoveryWay ==
    CASE reco.at = "close" -> 10 [] reco.at = "new" -> 9 [] reco.at = "check" -> 8
      [] reco.at = "relay" -> 7 [] reco.at = "mode" -> 6 [] reco.at = "mgr" -> 5
      [] reco.at = "fw" -> 4 [] reco.at \in {"keep", "drop"} -> 3 [] reco.at = "setup" -> 2
      [] reco.at = "own" -> 1 [] OTHER -> 0
ResolverWay == IF guards.dns = "fixing" THEN 1 ELSE 0

\* A stop is final and everything it may have to wait for winds down: no step of anybody
\* takes one of these goroutines further from its end, and each step of theirs takes its
\* own closer.  No request, recovery or correction of the resolver begins any more.
Shortens ==
    /\ stopping'
    /\ MainWay' <= MainWay /\ RecoveryWay' <= RecoveryWay /\ ResolverWay' <= ResolverWay
    /\ \A r \in Handlers : RequestWay(r)' <= RequestWay(r)
    /\ Boot \/ Shutdown \/ Exit => MainWay' < MainWay
    /\ Recover => RecoveryWay' < RecoveryWay
    /\ CheckResolver => ResolverWay' < ResolverWay
    /\ \A r \in Handlers : Handle(r) => RequestWay(r)' < RequestWay(r)

WindsDown == [][stopping => Shortens]_vars

\* Where a handler holds a lock.
Holding == {"disarm", "apply", "policy"}

LEMMA Distances ==
    /\ \A x : Distance(x) \in 0 .. 14
    /\ \A x : x.at = "store" => Distance(x) = 14
    /\ \A x : x.at = "activate" => Distance(x) = 13
    /\ \A x : x.at = "unroute" => Distance(x) = 12
    /\ \A x : x.at = "reroute" => Distance(x) = 11
    /\ \A x : x.at = "own" => Distance(x) = 10
    /\ \A x : x.at = "check" => Distance(x) = IF x.op = "country" THEN 9 ELSE 8
    /\ \A x : x.at = "lock" => Distance(x) = 7
    /\ \A x : x.at = "disarm" => Distance(x) = 6
    /\ \A x : x.at = "apply" => Distance(x) = 5
    /\ \A x : x.at = "persist" => Distance(x) = 4
    /\ \A x : x.at = "undo" => Distance(x) = 3
    /\ \A x : x.at = "save" => Distance(x) = 2
    /\ \A x : x.at = "policy" => Distance(x) = 1
    /\ \A x : x.at = "idle" => Distance(x) = 0
<1>1. \A x : Distance(x) \in 0 .. 14
  BY DEF Distance
<1>2. /\ \A x : x.at = "store" => Distance(x) = 14
      /\ \A x : x.at = "activate" => Distance(x) = 13
      /\ \A x : x.at = "unroute" => Distance(x) = 12
      /\ \A x : x.at = "reroute" => Distance(x) = 11
      /\ \A x : x.at = "own" => Distance(x) = 10
  BY DEF Distance
<1>3. /\ \A x : x.at = "check" => Distance(x) = IF x.op = "country" THEN 9 ELSE 8
      /\ \A x : x.at = "lock" => Distance(x) = 7
      /\ \A x : x.at = "disarm" => Distance(x) = 6
      /\ \A x : x.at = "apply" => Distance(x) = 5
  BY DEF Distance
<1>4. /\ \A x : x.at = "persist" => Distance(x) = 4
      /\ \A x : x.at = "undo" => Distance(x) = 3
      /\ \A x : x.at = "save" => Distance(x) = 2
      /\ \A x : x.at = "policy" => Distance(x) = 1
      /\ \A x : x.at = "idle" => Distance(x) = 0
  BY DEF Distance
<1> QED
  BY <1>1, <1>2, <1>3, <1>4

\* What a step of a request does to its place and to the locks.
LEMMA HandlerMoves ==
    ASSUME TypeOK, NEW r \in Handlers, Handle(r)
    PROVE  LET x == req[r]
               y == req'[r]
           IN  /\ y.at = "idle" => y = Idle
               /\ Distance(y) < Distance(x)
               /\ \/ x.at \notin Holding /\ y.at \notin Holding /\ UNCHANGED locks
                  \/ x.at = "disarm" /\ y.at = "apply" /\ UNCHANGED locks
                  \/ /\ x.at = "lock" /\ y.at \in {"disarm", "apply"}
                     /\ locks.mu = None /\ locks' = [locks EXCEPT !.mu = r]
                  \/ x.at = "apply" /\ y.at \notin Holding /\ locks' = [locks EXCEPT !.mu = None]
                  \/ /\ x.at = "save" /\ y.at = "policy"
                     /\ locks.config = None /\ locks' = [locks EXCEPT !.config = r]
                  \/ x.at = "policy" /\ y.at \notin Holding /\ locks' = [locks EXCEPT !.config = None]
<1> DEFINE x == req[r]
           y == req'[r]
<1>1. req \in [Handlers -> Request] /\ x \in Request
  BY TypeOKIs
<1>2. End(r) => y = Idle /\ y.at = "idle"
  BY <1>1, RequestAfter
<1>3. \A s : To(r, s) => y.at = s /\ y.op = x.op
  BY <1>1, RequestAfter
<1> DEFINE Goal == /\ y.at = "idle" => y = Idle
                   /\ Distance(y) < Distance(x)
                   /\ \/ x.at \notin Holding /\ y.at \notin Holding /\ UNCHANGED locks
                      \/ x.at = "disarm" /\ y.at = "apply" /\ UNCHANGED locks
                      \/ /\ x.at = "lock" /\ y.at \in {"disarm", "apply"}
                         /\ locks.mu = None /\ locks' = [locks EXCEPT !.mu = r]
                      \/ x.at = "apply" /\ y.at \notin Holding /\ locks' = [locks EXCEPT !.mu = None]
                      \/ /\ x.at = "save" /\ y.at = "policy"
                         /\ locks.config = None /\ locks' = [locks EXCEPT !.config = r]
                      \/ x.at = "policy" /\ y.at \notin Holding
                         /\ locks' = [locks EXCEPT !.config = None]
<1>4. ASSUME CheckCaptive(r) PROVE Goal
  <2>1. x.at = "check" /\ x.op # "country" /\ (End(r) \/ To(r, "lock")) /\ UNCHANGED locks
    BY <1>4 DEF CheckCaptive, At
  <2> HIDE DEF x, y
  <2> QED
    BY <1>2, <1>3, <2>1, Distances DEF Holding
<1>5. ASSUME LockMode(r) PROVE Goal
  <2>1. x.at = "lock"
    BY <1>5 DEF LockMode, At
  <2>2. \/ (End(r) \/ To(r, "persist")) /\ UNCHANGED locks
        \/ /\ y.at \in {"disarm", "apply"}
           /\ locks.mu = None /\ locks' = [locks EXCEPT !.mu = r]
    BY <1>1, <1>5 DEF LockMode, Unlocked, Request
  <2> HIDE DEF x, y
  <2> QED
    BY <1>2, <1>3, <2>1, <2>2, Distances DEF Holding
<1>6. ASSUME DisarmMode(r) PROVE Goal
  <2>1. x.at = "disarm" /\ To(r, "apply") /\ UNCHANGED locks
    BY <1>6 DEF DisarmMode, At
  <2> HIDE DEF x, y
  <2> QED
    BY <1>3, <2>1, Distances DEF Holding
<1>7. ASSUME ApplyMode(r) PROVE Goal
  <2>1. x.at = "apply" /\ locks' = [locks EXCEPT !.mu = None]
    BY <1>7 DEF ApplyMode, At
  <2>2. y = Idle \/ y.at = "persist"
    BY <1>1, <1>7 DEF ApplyMode, Idle
  <2>3. Idle.at = "idle"
    BY DEF Idle
  <2> HIDE DEF x, y
  <2> QED
    BY <2>1, <2>2, <2>3, Distances DEF Holding
<1>8. ASSUME PersistMode(r) \/ UndoMode(r) PROVE Goal
  <2>1. /\ UNCHANGED locks
        /\ \/ x.at = "persist" /\ (End(r) \/ To(r, "undo"))
           \/ x.at = "undo" /\ End(r)
    BY <1>8 DEF PersistMode, UndoMode, At
  <2> HIDE DEF x, y
  <2> QED
    BY <1>2, <1>3, <2>1, Distances DEF Holding
<1>9. ASSUME SaveIPv6(r) PROVE Goal
  <2>1. x.at = "save"
    BY <1>9 DEF SaveIPv6, At
  <2>2. \/ End(r) /\ UNCHANGED locks
        \/ /\ y.at = "policy" /\ locks.config = None
           /\ locks' = [locks EXCEPT !.config = r]
    BY <1>1, <1>9 DEF SaveIPv6, Request
  <2> HIDE DEF x, y
  <2> QED
    BY <1>2, <2>1, <2>2, Distances DEF Holding
<1>10. ASSUME ApplyIPv6(r) PROVE Goal
  <2>1. x.at = "policy" /\ End(r) /\ locks' = [locks EXCEPT !.config = None]
    BY <1>10 DEF ApplyIPv6, At
  <2> HIDE DEF x, y
  <2> QED
    BY <1>2, <2>1, Distances DEF Holding
<1>11. ASSUME StoreRelay(r) PROVE Goal
  <2>1. x.at = "store" /\ y.at \in {"activate", "unroute"} /\ UNCHANGED locks
    BY <1>1, <1>11 DEF StoreRelay, At, Request
  <2> HIDE DEF x, y
  <2> QED
    BY <2>1, Distances DEF Holding
<1>12. ASSUME ActivateForRelay(r) PROVE Goal
  <2>1. x.at = "activate" /\ UNCHANGED locks
    BY <1>12 DEF ActivateForRelay, At
  <2>2. PICK o : Handed(r, o)
    BY <1>12 DEF ActivateForRelay, Handed
  <2>3. y = Idle \/ y.at = "unroute"
    BY <1>1, <2>2 DEF Handed, Request
  <2>4. Idle.at = "idle"
    BY DEF Idle
  <2> HIDE DEF x, y
  <2> QED
    BY <2>1, <2>3, <2>4, Distances DEF Holding
<1>13. ASSUME TakeRoutes(r) \/ SetupForRelay(r) PROVE Goal
  <2>1. /\ UNCHANGED locks
        /\ \/ x.at = "unroute" /\ (To(r, "reroute") \/ To(r, "check"))
           \/ x.at = "reroute" /\ (End(r) \/ To(r, "own"))
    BY <1>13 DEF TakeRoutes, SetupForRelay, At
  <2> HIDE DEF x, y
  <2> QED
    BY <1>2, <1>3, <2>1, Distances DEF Holding
<1>16. ASSUME OwnRoutes(r) PROVE Goal
  <2>1. x.at = "own" /\ UNCHANGED locks
    BY <1>16 DEF OwnRoutes, At
  <2>2. y.at = "check" /\ y.op = "country"
    BY <1>1, <1>16 DEF OwnRoutes, Idle
  <2> HIDE DEF x, y
  <2> QED
    BY <2>1, <2>2, Distances DEF Holding
<1>14. ASSUME Reconnected(r) PROVE Goal
  <2>1. x.at = "check" /\ x.op = "country" /\ UNCHANGED locks
    BY <1>14 DEF Reconnected, At
  <2>2. End(r) \/ (y.at = "check" /\ y.op = "normal")
    BY <1>1, <1>14 DEF Reconnected, Idle
  <2> HIDE DEF x, y
  <2> QED
    BY <1>2, <2>1, <2>2, Distances DEF Holding
<1>15. Goal
  <2> HIDE DEF Goal
  <2> QED
    BY <1>4, <1>5, <1>6, <1>7, <1>8, <1>9, <1>10, <1>11, <1>12, <1>13, <1>14, <1>16
    DEF Handle
<1> QED
  BY <1>15
\* A handler without a place has no request either.
RequestInv == LocksAreHeld /\ \A r \in Handlers : req[r].at = "idle" => req[r] = Idle

LEMMA RequestInit == Init => RequestInv
BY ProtectionAssumption DEF Init, RequestInv, LocksAreHeld, Idle

LEMMA RequestStep ==
    ASSUME TypeOK, RequestInv, [Next]_vars
    PROVE  RequestInv'
<1>1. /\ req \in [Handlers -> Request] /\ locks \in Locks
      /\ None \notin Handlers /\ locks.mu \in Handlers \union {None}
      /\ locks.config \in Handlers \union {None}
  BY TypeOKIs, ProtectionAssumption DEF Locks
<1>2. CASE UNCHANGED <<req, locks>>
  BY <1>2 DEF RequestInv, LocksAreHeld
<1>3. CASE Exit
  BY <1>1, <1>3 DEF Exit, RequestInv, LocksAreHeld, Idle
<1>4. ASSUME NEW op, NEW at \in {"check", "save", "store"}, Receive(op, at), UNCHANGED locks
      PROVE  RequestInv'
  <2>1. PICK r \in Handlers : /\ req[r] = Idle
                              /\ req' = [req EXCEPT ![r] = [Idle EXCEPT !.op = op, !.at = at]]
    BY <1>4, Arrivals
  <2>2. req[r].at = "idle" /\ req'[r].at = at /\ \A s \in Handlers \ {r} : req'[s] = req[s]
    BY <1>1, <2>1 DEF Idle
  <2> QED
    BY <1>4, <2>2 DEF RequestInv, LocksAreHeld
<1>5. CASE ModeRequested \/ IPv6Requested \/ CountryRequested
  BY <1>4, <1>5 DEF ModeRequested, IPv6Requested, CountryRequested
<1>6. ASSUME NEW r \in Handlers, Handle(r) PROVE RequestInv'
  <2>1. \A s \in Handlers \ {r} : req'[s] = req[s]
    BY <1>6, RequestFrame
  <2>2. \A s \in Handlers : req'[s].at = "idle" => req'[s] = Idle
    BY <1>6, <2>1, HandlerMoves DEF RequestInv
  <2> DEFINE x == req[r]
             y == req'[r]
  <2>3. \/ x.at \notin Holding /\ y.at \notin Holding /\ UNCHANGED locks
        \/ x.at = "disarm" /\ y.at = "apply" /\ UNCHANGED locks
        \/ /\ x.at = "lock" /\ y.at \in {"disarm", "apply"}
           /\ locks.mu = None /\ locks' = [locks EXCEPT !.mu = r]
        \/ x.at = "apply" /\ y.at \notin Holding /\ locks' = [locks EXCEPT !.mu = None]
        \/ /\ x.at = "save" /\ y.at = "policy"
           /\ locks.config = None /\ locks' = [locks EXCEPT !.config = r]
        \/ x.at = "policy" /\ y.at \notin Holding /\ locks' = [locks EXCEPT !.config = None]
    BY <1>6, HandlerMoves
  <2>4. /\ locks.mu = r <=> x.at \in {"disarm", "apply"}
        /\ locks.config = r <=> x.at = "policy"
        /\ \A s \in Handlers \ {r} : /\ locks.mu = s <=> req'[s].at \in {"disarm", "apply"}
                                     /\ locks.config = s <=> req'[s].at = "policy"
    BY <2>1 DEF RequestInv, LocksAreHeld
  <2> HIDE DEF x, y
  <2>5. /\ locks'.mu = r <=> y.at \in {"disarm", "apply"}
        /\ locks'.config = r <=> y.at = "policy"
    BY <1>1, <2>3, <2>4 DEF Locks, Holding
  <2>6. \A s \in Handlers \ {r} : /\ locks'.mu = s <=> locks.mu = s
                                  /\ locks'.config = s <=> locks.config = s
    BY <1>1, <2>3, <2>4 DEF Locks, Holding
  <2>7. LocksAreHeld'
    BY <2>4, <2>5, <2>6 DEF LocksAreHeld, y
  <2> QED
    BY <2>2, <2>7 DEF RequestInv
<1> QED
  BY <1>2, <1>3, <1>5, <1>6, Frames
  DEF Next, Environment, Stop, Exited, recovering, watching, vars

THEOREM RequestInvariance == Spec => []RequestInv
<1>1. TypeOK /\ RequestInv /\ [Next]_vars => RequestInv'
  BY RequestStep
<1> QED
  BY <1>1, RequestInit, TypeCorrect, PTL DEF Spec

\* p.mu and config.Mu are each held by one handler, in the steps that need it and in no
\* other: whatever the handlers, the stop and the end of the process.
THEOREM LocksKept == Spec => []LocksAreHeld
<1>1. RequestInv => LocksAreHeld
  BY DEF RequestInv
<1> QED
  BY <1>1, RequestInvariance, PTL

\* Whoever waits for a lock waits for a handler that can go on, or for the holder of
\* config.Mu, which waits for p.mu at most.
LEMMA HolderGoesOn ==
    ASSUME TypeOK, RequestInv, locks.mu # None
    PROVE  \E r \in Handlers : req[r].at # "idle" /\ ~Blocked(r)
<1>1. PICK r \in Handlers : locks.mu = r
  BY TypeOKIs DEF Locks
<1>2. req[r].at \in {"disarm", "apply"}
  BY <1>1 DEF RequestInv, LocksAreHeld
<1> QED
  BY <1>2 DEF Blocked

LEMMA RequestGoesOn ==
    ASSUME TypeOK, RequestInv, NEW r \in Handlers, req[r] # Idle
    PROVE  \E s \in Handlers : req[s].at # "idle" /\ ~Blocked(s)
<1>1. CASE locks.mu # None
  BY <1>1, HolderGoesOn
<1>2. CASE locks.mu = None /\ Blocked(r)
  <2>1. PICK s \in Handlers : locks.config = s
    BY <1>2, TypeOKIs DEF Blocked, Locks
  <2>2. req[s].at = "policy"
    BY <2>1 DEF RequestInv, LocksAreHeld
  <2> QED
    BY <1>2, <2>2 DEF Blocked
<1>3. CASE locks.mu = None /\ ~Blocked(r)
  BY <1>3 DEF RequestInv
<1> QED
  BY <1>1, <1>2, <1>3

\* A stop never finds the goroutines waiting for each other in a circle, with any number
\* of requests in flight, a recovery and a correction of the resolver under way.
THEOREM NobodyIsStuck == Spec => []SomebodyGoesOn
<1>1. TypeOK /\ RequestInv => SomebodyGoesOn
  <2> SUFFICES ASSUME TypeOK, RequestInv, MainBlocked, guards.dns # "fixing",
                      reco.at = "idle" \/ RecoveryBlocked
               PROVE  \E r \in Handlers : req[r].at # "idle" /\ ~Blocked(r)
    BY DEF SomebodyGoesOn
  <2>1. CASE locks.mu # None
    BY <2>1, HolderGoesOn
  <2>2. CASE locks.mu = None
    <3>1. PICK r \in Handlers : req[r] # Idle
      BY <2>2 DEF MainBlocked, RecoveryBlocked
    <3> QED
      BY <3>1, RequestGoesOn
  <2> QED
    BY <2>1, <2>2
<1> QED
  BY <1>1, TypeCorrect, RequestInvariance, PTL
-----------------------------------------------------------------------------
(* What is left to do when the service stops only shrinks.                 *)

\* Those who do not step.
LEMMA WaysStay ==
    /\ main'.at = main.at => MainWay' = MainWay
    /\ UNCHANGED reco => RecoveryWay' = RecoveryWay
    /\ guards'.dns = guards.dns => ResolverWay' = ResolverWay
    /\ UNCHANGED req => \A r \in Handlers : RequestWay(r)' = RequestWay(r)
BY DEF MainWay, RecoveryWay, ResolverWay, RequestWay

LEMMA WaysAre ==
    /\ MainWay \in 0 .. 16 /\ RecoveryWay \in 0 .. 10 /\ ResolverWay \in 0 .. 1
    /\ \A r \in Handlers : RequestWay(r) \in 0 .. 14
<1>1. MainWay \in 0 .. 16 /\ RecoveryWay \in 0 .. 10
  BY DEF MainWay, RecoveryWay
<1> QED
  BY <1>1, Distances DEF ResolverWay, RequestWay

LEMMA WaysAreNext ==
    /\ MainWay' \in 0 .. 16 /\ RecoveryWay' \in 0 .. 10 /\ ResolverWay' \in 0 .. 1
    /\ \A r \in Handlers : RequestWay(r)' \in 0 .. 14
<1>1. MainWay' \in 0 .. 16 /\ RecoveryWay' \in 0 .. 10
  BY DEF MainWay, RecoveryWay
<1> QED
  BY <1>1, Distances DEF ResolverWay, RequestWay

\* The steps of the boot lead forward, through the shutdown or past it.
LEMMA BootShortens ==
    ASSUME TypeOK, Boot
    PROVE  MainWay' < MainWay /\ guards'.dns \in {guards.dns, "idle"}
<1>1. main \in Main /\ guards \in Guards /\ \A s : Go(s) => main'.at = s
  BY TypeOKIs DEF Go, Main
<1>2. CASE NoPortal \/ PortalWithoutLockdown \/ PortalLockdown
  <2>1. main.at = "preflight" /\ main'.at \in {"captive", "tun", "down"} /\ UNCHANGED guards
    BY <1>1, <1>2 DEF NoPortal, PortalWithoutLockdown, PortalLockdown, others
  <2> QED
    BY <2>1 DEF MainWay
<1>3. CASE CaptiveCleared \/ CaptiveStopped \/ TunUp \/ TunFails
  <2>1. /\ \/ main.at = "captive" /\ main'.at = "tun"
           \/ main.at = "tun" /\ main'.at \in {"route", "down"}
        /\ UNCHANGED guards
    BY <1>1, <1>3 DEF CaptiveCleared, CaptiveStopped, TunUp, TunFails, others
  <2> QED
    BY <2>1 DEF MainWay
<1>4. CASE RouteUp \/ RelayUnresolved \/ CleanupOrphans \/ NoRulesWanted \/ RaiseRules
  <2>1. /\ \/ main.at = "route" /\ main'.at \in {"orphans", "gate"}
           \/ main.at = "orphans" /\ main'.at \in {"rules", "gate"}
           \/ main.at = "rules" /\ main'.at = "gate"
        /\ UNCHANGED guards
    BY <1>1, <1>4 DEF RouteUp, RelayUnresolved, CleanupOrphans, NoRulesWanted, RaiseRules, others, Main
  <2> QED
    BY <2>1 DEF MainWay
<1>5. CASE GateRefuses \/ Connect
  <2>1. main.at = "gate" /\ main'.at \in {"disarm", "proxy"} /\ guards'.dns = guards.dns
    BY <1>1, <1>5 DEF GateRefuses, Connect, others, Guards
  <2> QED
    BY <2>1 DEF MainWay
<1>6. CASE StartProxy \/ SetResolver
  <2>1. /\ \/ main.at = "proxy" /\ main'.at \in {"dns", "disarm"}
           \/ main.at = "dns" /\ main'.at \in {"up", "disarm"}
        /\ guards'.dns \in {guards.dns, "idle"}
    BY <1>1, <1>6 DEF StartProxy, SetResolver, others, Guards, Main
  <2> QED
    BY <2>1 DEF MainWay
<1> QED
  BY <1>2, <1>3, <1>4, <1>5, <1>6 DEF Boot

LEMMA ShutdownShortens ==
    ASSUME TypeOK, Shutdown
    PROVE  MainWay' < MainWay /\ guards'.dns \in {guards.dns, "off"}
<1>1. main \in Main /\ guards \in Guards /\ \A s : Go(s) => main'.at = s
  BY TypeOKIs DEF Go, Main
<1>2. CASE RestoreResolver \/ StopTunWatchdog
  <2>1. /\ \/ main.at = "up" /\ main'.at = "settle"
           \/ main.at = "settle" /\ main'.at = "disarm"
        /\ guards'.dns \in {guards.dns, "off"}
    BY <1>1, <1>2 DEF RestoreResolver, StopTunWatchdog, Guards
  <2> QED
    BY <2>1 DEF MainWay
<1>3. CASE DisarmRules \/ DeleteRules \/ Unroute \/ Join
  <2>1. /\ \/ main.at = "disarm" /\ main'.at \in {"unroute", "delete"}
           \/ main.at = "delete" /\ main'.at = "unroute"
           \/ main.at = "unroute" /\ main'.at \in {"join", "down"}
           \/ main.at = "join" /\ main'.at = "down"
        /\ UNCHANGED guards
    BY <1>1, <1>3 DEF DisarmRules, DeleteRules, Unroute, Join, others
  <2> QED
    BY <2>1 DEF MainWay
<1> QED
  BY <1>2, <1>3 DEF Shutdown

LEMMA RecoveryShortens ==
    ASSUME TypeOK, Recover
    PROVE  RecoveryWay' < RecoveryWay
<1>1. reco \in Recovery /\ \A s : Step(s) => reco'.at = s
  BY TypeOKIs DEF Step, Recovery
<1>2. CASE CloseDevice \/ NewDevice \/ KeepDevice
  <2>1. \/ reco.at = "close" /\ reco'.at = "new"
        \/ reco.at = "new" /\ reco'.at \in {"check", "idle"}
        \/ reco.at = "check" /\ reco'.at \in {"relay", "idle"}
    BY <1>1, <1>2 DEF CloseDevice, NewDevice, KeepDevice, Calm
  <2> QED
    BY <2>1 DEF RecoveryWay
<1>3. CASE ReadRelay \/ ReadMode \/ ReadManager
  <2>1. \/ reco.at = "relay" /\ reco'.at = "mode"
        \/ reco.at = "mode" /\ reco'.at \in {"mgr", "drop"}
        \/ reco.at = "mgr" /\ reco'.at = "fw"
    BY <1>1, <1>3 DEF ReadRelay, ReadMode, ReadManager, Recovery
  <2> QED
    BY <2>1 DEF RecoveryWay
<1>4. CASE RecoverRules
  <2>1. reco.at = "fw" /\ reco'.at \in {"keep", "drop"}
    BY <1>1, <1>4 DEF RecoverRules
  <2> QED
    BY <2>1 DEF RecoveryWay
<1>5. CASE DropRoutes
  <2>1. reco.at \in {"keep", "drop"} /\ reco'.at \in {"setup", "idle"}
    BY <1>1, <1>5 DEF DropRoutes, Calm, Recovery
  <2> QED
    BY <2>1 DEF RecoveryWay
<1>6. CASE RecoverRoutes \/ KeepRoutes
  <2>1. \/ reco.at = "setup" /\ reco'.at \in {"own", "idle"}
        \/ reco.at = "own" /\ reco'.at = "idle"
    BY <1>1, <1>6 DEF RecoverRoutes, KeepRoutes, Calm
  <2> QED
    BY <2>1 DEF RecoveryWay
<1> QED
  BY <1>2, <1>3, <1>4, <1>5, <1>6 DEF Recover

LEMMA ExitShortens ==
    ASSUME TypeOK, Exit
    PROVE  /\ MainWay' < MainWay /\ RecoveryWay' <= RecoveryWay /\ ResolverWay' <= ResolverWay
           /\ \A r \in Handlers : RequestWay(r)' <= RequestWay(r)
<1>1. main.at # "exited" /\ main.at \in Stages /\ main'.at = "exited"
  BY TypeOKIs DEF Exit, Go, Main
<1>2. MainWay' < MainWay
  BY <1>1 DEF MainWay, Stages
<1>3. reco'.at = "idle" /\ guards'.dns = "off" /\ \A r \in Handlers : req'[r].at = "idle"
  BY DEF Exit, Calm, Idle
<1>4. RecoveryWay' = 0 /\ ResolverWay' = 0
  BY <1>3 DEF RecoveryWay, ResolverWay
<1>5. \A r \in Handlers : RequestWay(r)' = 0
  BY <1>3, Distances DEF RequestWay
<1> QED
  BY <1>2, <1>4, <1>5, WaysAre

LEMMA StoppingStep ==
    ASSUME TypeOK, OwnedInv, stopping, [Next]_vars
    PROVE  Shortens
<1>1. /\ MainWay \in 0 .. 16 /\ RecoveryWay \in 0 .. 10 /\ ResolverWay \in 0 .. 1
      /\ \A r \in Handlers : RequestWay(r) \in 0 .. 14
  BY WaysAre
<1>a. /\ MainWay' \in 0 .. 16 /\ RecoveryWay' \in 0 .. 10 /\ ResolverWay' \in 0 .. 1
      /\ \A r \in Handlers : RequestWay(r)' \in 0 .. 14
  BY WaysAreNext
<1>2. Boot \/ Shutdown \/ Exit => MainWay' < MainWay
  BY BootShortens, ShutdownShortens, ExitShortens
<1>3. Recover => RecoveryWay' < RecoveryWay
  BY RecoveryShortens
<1>4. CheckResolver => ResolverWay' < ResolverWay
  BY TypeOKIs DEF CheckResolver, Alive, ResolverWay, Guards
<1>5. \A r \in Handlers : Handle(r) => RequestWay(r)' < RequestWay(r)
  BY HandlerMoves DEF RequestWay
<1> DEFINE Rest == /\ stopping'
                   /\ MainWay' <= MainWay /\ RecoveryWay' <= RecoveryWay
                   /\ ResolverWay' <= ResolverWay
                   /\ \A r \in Handlers : RequestWay(r)' <= RequestWay(r)
<1>6. ASSUME Boot \/ Shutdown PROVE Rest
  <2>1. stopping' /\ UNCHANGED <<req, reco>>
    BY <1>6, Frames
  <2>2. ResolverWay' <= ResolverWay
    BY <1>6, BootShortens, ShutdownShortens DEF ResolverWay
  <2> QED
    BY <1>1, <1>a, <1>2, <1>6, <2>1, <2>2, WaysStay
<1>7. ASSUME Exit PROVE Rest
  <2>1. stopping'
    BY <1>7 DEF Exit
  <2>2. /\ MainWay' < MainWay /\ RecoveryWay' <= RecoveryWay /\ ResolverWay' <= ResolverWay
        /\ \A r \in Handlers : RequestWay(r)' <= RequestWay(r)
    BY <1>7, ExitShortens
  <2>3. MainWay' <= MainWay
    BY <1>1, <1>a, <2>2
  <2> QED
    BY <2>1, <2>2, <2>3
<1>8. ASSUME Recover \/ RecoveryStarts PROVE Rest
  <2>1. UNCHANGED <<stopping, main, req, guards>> /\ Recover
    BY <1>8, Frames DEF recovering, RecoveryStarts, Alive
  <2> QED
    BY <1>1, <1>a, <1>3, <2>1, WaysStay
<1>9. ASSUME CheckResolver PROVE Rest
  <2>1. UNCHANGED <<stopping, main, req, reco>>
    BY <1>9, Frames
  <2> QED
    BY <1>1, <1>a, <1>4, <1>9, <2>1, WaysStay
<1>10. ASSUME NEW r \in Handlers, Handle(r) PROVE Rest
  <2>1. UNCHANGED <<stopping, main, reco, guards>> /\ \A s \in Handlers \ {r} : req'[s] = req[s]
    BY <1>10, Frames, RequestFrame DEF calm
  <2>2. \A s \in Handlers : RequestWay(s)' <= RequestWay(s)
    BY <1>1, <1>a, <1>5, <1>10, <2>1 DEF RequestWay
  <2> QED
    BY <1>1, <2>1, <2>2, WaysStay
<1>11. ASSUME UNCHANGED <<stopping, main, req, reco, guards>> PROVE Rest
  BY <1>1, <1>11, WaysStay
<1>12. ASSUME WatchdogPoll \/ Watch \/ Environment \/ Exited \/ UNCHANGED vars PROVE Rest
  <2>1. ~Stop /\ ~ModeRequested /\ ~IPv6Requested /\ ~CountryRequested
    BY DEF Stop, ModeRequested, IPv6Requested, CountryRequested, Receive, Alive
  <2>2. UNCHANGED <<stopping, main, req, reco>>
    BY <1>12, <2>1, Frames DEF Environment, watching, Exited, vars
  <2>3. UNCHANGED guards
    BY <1>12, <2>1, Frames
    DEF Environment, watching, Exited, vars, RulesDeleted, DeviceDeleted, ResolverChanged
  <2> QED
    BY <1>11, <2>2, <2>3
<1>13. Rest
  <2> HIDE DEF Rest
  <2> QED
    BY <1>6, <1>7, <1>8, <1>9, <1>10, <1>12 DEF Next
<1> QED
  BY <1>2, <1>3, <1>4, <1>5, <1>13 DEF Shortens

\* A stop is carried through in a bounded number of steps of the goroutines it may wait
\* for (16 of the main one, 14 of each handler, 10 of the recovery and one correction):
\* nothing new begins, and no step of anybody takes one of them back.
THEOREM StopWindsDown == Spec => WindsDown
<1>1. TypeOK /\ OwnedInv /\ [Next]_vars => [stopping => Shortens]_vars
  BY StoppingStep
<1>2. IInv => TypeOK /\ OwnedInv
  BY DEF IInv
<1> QED
  BY <1>1, <1>2, Invariance, PTL DEF Spec, WindsDown
=============================================================================
