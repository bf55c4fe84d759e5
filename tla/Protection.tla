----------------------------- MODULE Protection -----------------------------
(***************************************************************************)
(* What the desktop service does to the host to protect it: the firewall   *)
(* rules of the kill switch, the TUN device, the routes and the resolver.  *)
(* The boot sequence raises them, the shutdown takes them down, and three  *)
(* more actors change them meanwhile: the IPC handlers (kill-switch mode,  *)
(* IPv6 policy, country), the recovery of the TUN device and the watcher   *)
(* that restores rules a third party removed (service.go, killswitch.go,   *)
(* anomaly.go, internal/firewall, internal/routing, internal/watchdog).    *)
(*                                                                         *)
(* A firewall operation takes effect in one step (one run of nft, one WFP  *)
(* transaction), save the Linux Deactivate, which stops its watchdog and   *)
(* deletes the table in two.  nft replaces the rules; the Windows Activate *)
(* only adds filters to those in force, and its Deactivate may leave them  *)
(* without an error.  Every other step is the code between two points      *)
(* where another goroutine may run.                                        *)
(***************************************************************************)
EXTENDS Naturals, FiniteSets

CONSTANTS
    Relays,       \* relay addresses
    None,         \* no relay, no holder
    Handlers,     \* IPC connections served at once
    MaxRequests,  \* bound: requests received
    MaxTampers,   \* bound: what other programs remove, recoveries asked for
    MaxFaults,    \* bound: operations that fail
    MaxEffort     \* bound on all three together, a request or a failed poll counting for two

ASSUME ProtectionAssumption ==
    /\ Relays # {}
    /\ None \notin Relays /\ None \notin Handlers
    /\ MaxRequests \in Nat /\ MaxTampers \in Nat /\ MaxFaults \in Nat
    /\ MaxEffort \in Nat

VARIABLES
    windows,  \* which of the two builds this is
    prg,      \* the Program: [enabled, v6, captive, mgr, tun, route, relay]
    host,     \* the kernel and the system: [rules, left, tun, routes, resolver]
    fw,       \* the firewall objects: [of, armed, altered]
    main,     \* run() and shutdown(): [at, relay, up]
    stopping, \* p.ctx is cancelled
    locks,    \* who holds p.mu and config.Mu: [mu, config]
    req,      \* the IPC handlers
    reco,     \* recoverTUN: [at, byTun, relay, fw]
    watch,    \* watchFirewallAltered: [at, fw, relay, tun]
    guards,   \* the TUN watchdog and the DNS watchdog: [tun, dns]
    drift,    \* history: the known ways rules and policy came apart
    budget    \* what is left of the bounds: [requests, tampers, faults, effort]

vars == <<windows, prg, host, fw, main, stopping, locks, req, reco, watch,
          guards, drift, budget>>

-----------------------------------------------------------------------------
\* A ruleset is what it was rendered from.  A firewall object is the ruleset
\* it would render next: its options and the parameters of its last success.
Rules == [mode : {"open", "captive"}, relay : {None}, v6 : BOOLEAN]
           \union [mode : {"full"}, relay : Relays, v6 : BOOLEAN]
Open == [mode |-> "open", relay |-> None, v6 |-> FALSE]
Captive == [mode |-> "captive", relay |-> None, v6 |-> FALSE]
Full(q, v) == [mode |-> "full", relay |-> q, v6 |-> v]

\* The objects firewallFactory makes: for the captive portal, for the boot,
\* and by a request or a recovery that found none.
Objects == {"captive", "boot", "late"}

\* host.rules is the ruleset put in force last, host.left those put in force
\* before it whose filters are still there.

Stages == {"preflight", "captive", "tun", "route", "orphans", "rules", "gate",
           "proxy", "dns", "up", "settle",
           "disarm", "delete", "unroute", "join", "down", "exited"}
Idle == [op |-> "none", at |-> "idle", relay |-> None, fw |-> "none", allow |-> FALSE]
Request == [op : {"none", "normal", "degraded", "ipv6", "country"},
            at : {"idle", "check", "lock", "disarm", "apply", "persist", "undo",
                  "save", "policy", "store", "activate", "unroute", "reroute", "own"},
            relay : Relays \union {None}, fw : Objects \union {"none"}, allow : BOOLEAN]
Calm == [at |-> "idle", byTun |-> FALSE, relay |-> None, fw |-> "none"]
Unwatched == [at |-> "off", fw |-> "none", relay |-> None, tun |-> FALSE]
Passing == {"unprotected", "putBack", "stale", "v6", "older", "lockdown"}
Lasting == {"resurrected", "kept", "failed", "overtaken"}

TypeOK ==
    /\ windows \in BOOLEAN /\ stopping \in BOOLEAN
    /\ prg \in [enabled : BOOLEAN, v6 : BOOLEAN, captive : BOOLEAN,
                mgr : Objects \union {"none"}, tun : BOOLEAN, route : BOOLEAN,
                relay : Relays \union {None}]
    /\ host \in [rules : Rules, left : SUBSET Rules, tun : BOOLEAN, routes : Relays \union {None},
                 resolver : {"original", "local"}]
    /\ fw \in [of : [Objects -> Rules], armed : BOOLEAN, altered : BOOLEAN]
    /\ main \in [at : Stages, relay : Relays \union {None}, up : BOOLEAN]
    /\ locks \in [mu : Handlers \union {None}, config : Handlers \union {None}]
    /\ req \in [Handlers -> Request]
    /\ reco \in [at : {"idle", "close", "new", "check", "relay", "mode", "mgr", "fw", "keep",
                       "drop", "setup", "own"},
                 byTun : BOOLEAN, relay : Relays \union {None},
                 fw : Objects \union {"none"}]
    /\ watch \in [at : {"off", "idle", "disarm", "lift", "restore"},
                  fw : Objects \union {"none"}, relay : Relays \union {None}, tun : BOOLEAN]
    /\ guards \in [tun : BOOLEAN, dns : {"off", "idle", "fixing"}]
    /\ drift \subseteq Passing \union Lasting
    /\ budget \in [requests : 0 .. MaxRequests, tampers : 0 .. MaxTampers,
                   faults : 0 .. MaxFaults, effort : 0 .. MaxEffort]

Init ==
    /\ windows \in BOOLEAN
    /\ prg \in [enabled : BOOLEAN, v6 : {FALSE}, captive : {FALSE}, mgr : {"none"},
                tun : {FALSE}, route : {FALSE}, relay : {None}]
    /\ host = [rules |-> Open, left |-> {}, tun |-> FALSE, routes |-> None, resolver |-> "original"]
    /\ fw = [of |-> [i \in Objects |-> Open], armed |-> FALSE, altered |-> FALSE]
    /\ main = [at |-> "preflight", relay |-> None, up |-> FALSE]
    /\ stopping = FALSE
    /\ locks = [mu |-> None, config |-> None]
    /\ req = [r \in Handlers |-> Idle]
    /\ reco = Calm /\ watch = Unwatched
    /\ guards = [tun |-> FALSE, dns |-> "off"]
    /\ drift = {}
    /\ budget = [requests |-> MaxRequests, tampers |-> MaxTampers, faults |-> MaxFaults,
                 effort |-> MaxEffort]

-----------------------------------------------------------------------------
\* Firewall operations.

\* One more operation may fail.
Fault == IF budget.faults > 0 /\ budget.effort > 0 THEN {1} ELSE {}

\* The host once ruleset x is in force: nft has flushed what was there, WFP has
\* added x to it.  Nothing of an earlier ruleset outlives a deletion.
HostWith(x) ==
    [host EXCEPT !.rules = x,
                 !.left = IF windows /\ x # Open THEN (@ \union {host.rules}) \ {x, Open} ELSE {}]

\* What Activate may do when object i is asked for ruleset w under a context
\* that is live or not: put the rules in force, refuse, or (Linux) apply them and
\* fail the check that follows.  WFP needs the LUID of the TUN device, and
\* has stopped its watchdog by the time it fails; its transaction is aborted then.
Activation(i, w, live) ==
    LET possible == live /\ (windows /\ w.mode = "full" => host.tun)
        done == [ok |-> TRUE, rules |-> w, cost |-> 0,
                 fw |-> [fw EXCEPT !.of[i] = w, !.armed = @ \/ i = "boot"]]
        refused == [ok |-> FALSE, rules |-> host.rules, cost |-> 0,
                    fw |-> [fw EXCEPT !.of[i].v6 = w.v6,
                                      !.armed = @ /\ ~(windows /\ live /\ i = "boot")]]
    IN  IF ~possible THEN {refused}
        ELSE {done} \union UNION {{[refused EXCEPT !.cost = c, !.rules = x] :
                                      x \in {host.rules} \union (IF windows THEN {} ELSE {w})} :
                                    c \in Fault}

\* Deactivate of object i, its watchdog stopped: the rules are deleted or,
\* when the context is done on Linux or the command fails, they stay.  Filters
\* that WFP fails to enumerate or to delete stay too, and Windows logs no more.
Deletion(i, live) ==
    LET deleted == [ok |-> TRUE, rules |-> Open, cost |-> 0,
                    fw |-> [fw EXCEPT !.armed = @ /\ ~(windows /\ i = "boot")]]
        left == [deleted EXCEPT !.ok = FALSE, !.rules = host.rules]
    IN  IF ~live /\ ~windows THEN {left}
        ELSE {deleted} \union {[left EXCEPT !.cost = c] : c \in Fault}
               \union {[left EXCEPT !.cost = c, !.ok = TRUE] : c \in IF windows THEN Fault ELSE {}}

\* The outcome is not what was asked for, whatever the answer was.
Flawed(o) == ~o.ok \/ o.cost > 0

\* How the rules of host h break the policy of Program p, when they do.  The
\* last two are of Windows: permits or blocks of earlier full rules that the
\* policy has dropped, and the filters of the captive portal, which let web
\* traffic through to anywhere, once the boot has cleaned up after it.
Verdict(h, p) ==
    {d \in Passing :
        \/ d = "unprotected" /\ p.enabled /\ h.rules.mode # "full"
        \/ d = "putBack" /\ ~p.enabled /\ h.rules.mode # "open"
        \/ d = "stale" /\ h.rules.mode = "full" /\ h.rules.relay # p.relay
        \/ d = "v6" /\ h.rules.mode = "full" /\ h.rules.v6 # p.v6
        \/ /\ d = "older" /\ windows
           /\ \E x \in h.left : x.mode = "full" /\ (x.relay # p.relay \/ (p.v6 /\ ~x.v6))
        \/ /\ d = "lockdown" /\ windows /\ p.relay # None
           /\ \E x \in h.left \union {h.rules} : x.mode = "captive"}

\* The history after an operation whose actor is known to leave may behind;
\* a shutdown under way has no policy to follow.
Recorded(h, p, may) ==
    IF stopping THEN drift \intersect Lasting
    ELSE (drift \intersect (Lasting \union Verdict(h, p))) \union (Verdict(h, p) \intersect may)

\* The history when the host may stay as it is now beyond the process, for
\* cause d.  The first cause is kept.
Lost(d, when) == drift \union {c \in {d} : when /\ drift \intersect Lasting = {}}
Torndown == main.at \in {"unroute", "join", "down"}

\* The rules of outcome o are in force.  Rules raised once the main goroutine
\* no longer takes them down, or that no manager answers for, stay.
Enforce(o, may, owned) ==
    /\ host' = HostWith(o.rules)
    /\ fw' = o.fw
    /\ budget' = [budget EXCEPT !.faults = @ - o.cost, !.effort = @ - o.cost]
    /\ drift' = Recorded(host', prg', may) \union
         IF o.rules \in {Open, host.rules} THEN {}
         ELSE (Lost("resurrected", Torndown /\ ~owned) \union Lost("kept", ~o.ok /\ prg.mgr = "none"))
              \intersect Lasting

Fail == /\ Fault # {}
        /\ budget' = [budget EXCEPT !.faults = @ - 1, !.effort = @ - 1]

\* The poll of the firewall watchdog: rules that went missing are reported on
\* AlteredCh, which holds one report.  On Linux so is a poll that fails, one
\* that the stop of the watchdog kills included.
WatchdogPoll ==
    /\ fw.armed /\ ~fw.altered
    /\ fw' = [fw EXCEPT !.altered = TRUE]
    /\ \/ host.rules.mode = "open" /\ UNCHANGED budget
       \/ /\ ~windows /\ Fault # {} /\ budget.effort > 1
          /\ budget' = [budget EXCEPT !.faults = @ - 1, !.effort = @ - 2]
    /\ UNCHANGED <<windows, prg, host, main, stopping, locks, req, reco, watch,
                   guards, drift>>

\* Linux: the Deactivate of object i begins by stopping its watchdog.
Disarm(i) == fw' = [fw EXCEPT !.armed = @ /\ i # "boot"]

-----------------------------------------------------------------------------
\* run(): raising the protection.

others == <<windows, stopping, locks, req, reco, watch, guards>>
effects == <<host, fw, drift, budget>>
Go(s) == main' = [main EXCEPT !.at = s]
Alive == ~stopping

\* Once no other VPN runs, the captive-portal probe; a stop while waiting
\* ends run().
NoPortal ==
    /\ main.at = "preflight"
    /\ Go("tun") \/ (stopping /\ Go("down"))
    /\ UNCHANGED <<others, effects, prg>>

\* The flag goes up first; without a gateway, or when the lockdown fails, it
\* stays up and the boot goes on.
PortalWithoutLockdown ==
    /\ main.at = "preflight" /\ prg.enabled /\ Alive
    /\ Fail /\ prg' = [prg EXCEPT !.captive = TRUE] /\ Go("tun")
    /\ UNCHANGED <<others, host, fw, drift>>

PortalLockdown ==
    /\ main.at = "preflight" /\ prg.enabled
    /\ \E o \in Activation("captive", [Captive EXCEPT !.v6 = prg.v6], Alive) :
         /\ prg' = [prg EXCEPT !.captive = TRUE, !.mgr = IF o.ok THEN "captive" ELSE @]
         /\ Enforce(o, {}, TRUE)
         /\ Go(IF o.ok THEN "captive" ELSE "tun")
    /\ UNCHANGED others

\* Mutant: the lockdown is lifted when the portal lets the user through.
CaptiveClearedLifts ==
    /\ main.at = "captive" /\ Alive
    /\ prg' = [prg EXCEPT !.captive = FALSE] /\ Go("tun")
    /\ host' = HostWith(Open)
    /\ UNCHANGED <<others, fw, drift, budget>>

\* waitForCaptiveClear leaves the lockdown to the Activate that replaces it.
CaptiveCleared ==
    /\ main.at = "captive" /\ Alive
    /\ prg' = [prg EXCEPT !.captive = FALSE] /\ Go("tun")
    /\ UNCHANGED <<others, effects>>

CaptiveStopped ==
    /\ main.at = "captive" /\ stopping /\ Go("tun")
    /\ UNCHANGED <<others, effects, prg>>

\* ensureTUN.  Until it succeeds tunCleanup does nothing, so that a failure
\* meets the L3 gate with the lockdown in force.
TunUp ==
    /\ main.at = "tun"
    /\ prg' = [prg EXCEPT !.tun = TRUE] /\ host' = [host EXCEPT !.tun = TRUE]
    /\ Go("route")
    /\ UNCHANGED <<others, fw, drift, budget>>

TunFails ==
    /\ main.at = "tun" /\ Fail /\ Go("down")
    /\ drift' = Lost("kept", host.rules # Open)
    /\ UNCHANGED <<others, host, fw, prg>>

\* The relay of the configuration is looked up and, when found, the routes
\* are set up.
Configured == CHOOSE q \in Relays : TRUE
RouteUp ==
    /\ main.at = "route"
    /\ main' = [main EXCEPT !.at = "orphans", !.relay = Configured]
    /\ \/ /\ host' = [host EXCEPT !.routes = Configured]
          /\ prg' = [prg EXCEPT !.route = TRUE] /\ UNCHANGED budget
       \/ Fail /\ UNCHANGED <<host, prg>>
    /\ UNCHANGED <<others, fw, drift>>

RelayUnresolved ==
    /\ main.at = "route" /\ Fail /\ Go("gate")
    /\ UNCHANGED <<others, host, fw, drift, prg>>

\* In normal mode: remember the relay, make the firewall, clean up orphans
\* (which on Windows deletes every filter of the provider, the lockdown's too,
\* or fails, which is logged at most).
CleanupOrphans ==
    /\ main.at = "orphans" /\ prg.enabled /\ Go("rules")
    /\ prg' = [prg EXCEPT !.relay = main.relay]
    /\ fw' = [fw EXCEPT !.of["boot"] = [Open EXCEPT !.v6 = prg.v6]]
    /\ \/ /\ host' = IF windows THEN HostWith(Open) ELSE host
          /\ drift' = Recorded(host', prg', {}) /\ UNCHANGED budget
       \/ /\ windows /\ Fail /\ UNCHANGED host
          /\ drift' = Recorded(host, prg', {"lockdown"})
    /\ UNCHANGED others

NoRulesWanted ==
    /\ main.at = "orphans" /\ ~prg.enabled /\ Go("gate")
    /\ UNCHANGED <<others, effects, prg>>

RaiseRules ==
    /\ main.at = "rules" /\ Go("gate")
    /\ \E o \in Activation("boot", Full(main.relay, fw.of["boot"].v6), Alive) :
         /\ prg' = IF o.ok THEN [prg EXCEPT !.mgr = "boot"] ELSE prg
         /\ watch' = IF o.ok THEN [watch EXCEPT !.at = "idle"] ELSE watch
         /\ Enforce(o, {"putBack", "v6", "older"}
                         \union {d \in {"unprotected"} : prg.mgr = "captive"}, TRUE)
    /\ UNCHANGED <<windows, stopping, locks, req, reco, guards>>

\* The L3 gate looks for a manager, not for rules; tunnel.Connect needs a way
\* to the relay through the rules.
Ready == prg.tun /\ prg.route /\ (prg.enabled => prg.mgr # "none")

GateRefuses ==
    /\ main.at = "gate" /\ ~Ready /\ Go("disarm")
    /\ UNCHANGED <<others, effects, prg>>

Connect ==
    /\ main.at = "gate" /\ Ready
    /\ \/ /\ Alive /\ host.rules.mode # "captive" /\ Go("proxy")
          /\ guards' = [guards EXCEPT !.tun = TRUE]
       \/ Go("disarm") /\ UNCHANGED guards
    /\ UNCHANGED <<windows, stopping, locks, req, reco, watch, effects, prg>>

\* A failure here leaves the TUN watchdog running behind the cleanup.
StartProxy ==
    /\ main.at = "proxy"
    /\ \/ Go("dns") /\ UNCHANGED budget
       \/ Go("disarm") /\ Fail
    /\ UNCHANGED <<others, host, fw, drift, prg>>

SetResolver ==
    /\ main.at = "dns"
    /\ \/ /\ main' = [main EXCEPT !.at = "up", !.up = TRUE]
          /\ host' = [host EXCEPT !.resolver = "local"]
          /\ guards' = [guards EXCEPT !.dns = "idle"] /\ UNCHANGED budget
       \/ Go("disarm") /\ Fail /\ UNCHANGED <<host, guards>>
    /\ UNCHANGED <<windows, stopping, locks, req, reco, watch, fw, drift, prg>>

-----------------------------------------------------------------------------
\* shutdown(), and the tunCleanup of the failed boots.

\* The captive flag is cleared, the DNS watchdog stopped, and then the
\* resolver given back; the stop waits for a correction under way.
RestoreResolver ==
    /\ main.at = "up" /\ stopping /\ guards.dns # "fixing" /\ Go("settle")
    /\ prg' = [prg EXCEPT !.captive = FALSE]
    /\ guards' = [guards EXCEPT !.dns = "off"]
    /\ \/ /\ host' = [host EXCEPT !.resolver = "original"]
          /\ UNCHANGED <<drift, budget>>
       \/ Fail /\ drift' = Lost("failed", TRUE) /\ UNCHANGED host
    /\ UNCHANGED <<windows, stopping, locks, req, reco, watch, fw>>

\* Mutant: the shutdown does not wait for the TUN watchdog.
StopTunWatchdogAtOnce ==
    /\ main.at = "settle"
    /\ guards' = [guards EXCEPT !.tun = FALSE] /\ Go("disarm")
    /\ UNCHANGED <<windows, stopping, locks, req, reco, watch, effects, prg>>

\* The TUN watchdog is stopped; Stop waits for the recovery it started.
StopTunWatchdog ==
    /\ main.at = "settle" /\ ~(reco.at # "idle" /\ reco.byTun)
    /\ guards' = [guards EXCEPT !.tun = FALSE] /\ Go("disarm")
    /\ UNCHANGED <<windows, stopping, locks, req, reco, watch, effects, prg>>

DisarmRules ==
    /\ main.at = "disarm"
    /\ IF prg.mgr = "none"
       THEN /\ Go("unroute") /\ UNCHANGED fw
            /\ drift' = Lost("kept", reco.at = "keep")
       ELSE /\ Go("delete") /\ UNCHANGED drift
            /\ IF windows THEN UNCHANGED fw ELSE Disarm(prg.mgr)
    /\ UNCHANGED <<others, host, budget, prg>>

DeleteRules ==
    /\ main.at = "delete" /\ Go("unroute")
    /\ \E o \in Deletion(prg.mgr, TRUE) :
         /\ host' = HostWith(o.rules) /\ fw' = o.fw
         /\ budget' = [budget EXCEPT !.faults = @ - o.cost, !.effort = @ - o.cost]
         /\ drift' = Lost("failed", Flawed(o))
    /\ prg' = [prg EXCEPT !.mgr = "none"]
    /\ UNCHANGED others

\* Routes set up by a goroutine that has not handed over their manager yet
\* are nobody's to tear down.
Unclaimed == reco.at = "own" \/ \E r \in Handlers : req[r].at = "own"

\* The routes, and the device with them.
Unroute ==
    /\ main.at = "unroute" /\ Go(IF main.up THEN "join" ELSE "down")
    /\ prg' = [prg EXCEPT !.route = FALSE, !.tun = FALSE]
    /\ \/ /\ host' = [host EXCEPT !.routes = IF prg.route THEN None ELSE @,
                                   !.tun = @ /\ ~prg.tun]
          /\ drift' = Lost("kept", ~prg.route /\ Unclaimed)
          /\ UNCHANGED budget
       \/ /\ prg.route /\ Fail /\ drift' = Lost("failed", TRUE)
          /\ host' = [host EXCEPT !.tun = @ /\ ~prg.tun]
    /\ UNCHANGED <<others, fw>>

\* ipcStop, read under p.mu, waits for the handlers in flight.
Join ==
    /\ main.at = "join" /\ locks.mu = None /\ Go("down")
    /\ \A r \in Handlers : req[r] = Idle
    /\ UNCHANGED <<others, effects, prg>>

\* Stop cancels the context, which ends a sleeping watcher; the process ends
\* when run() has returned, or when Stop has waited for shutdownTimeout.
Stop ==
    /\ Alive /\ stopping' = TRUE
    /\ watch' = IF watch.at = "idle" /\ ~fw.altered THEN Unwatched ELSE watch
    /\ drift' = drift \intersect Lasting
    /\ UNCHANGED <<windows, prg, host, fw, budget, main, locks, req, reco, guards>>

Exit ==
    /\ stopping
    /\ \/ main.at = "down" /\ UNCHANGED <<drift, budget>>
       \/ main.at \notin {"down", "exited"} /\ Fail /\ drift' = Lost("overtaken", TRUE)
    /\ Go("exited")
    /\ req' = [r \in Handlers |-> Idle] /\ reco' = Calm /\ watch' = Unwatched
    /\ locks' = [mu |-> None, config |-> None] /\ guards' = [tun |-> FALSE, dns |-> "off"]
    /\ fw' = [fw EXCEPT !.armed = FALSE]
    /\ UNCHANGED <<windows, prg, host, stopping>>

-----------------------------------------------------------------------------
\* The IPC handlers.  The listener closes with the context; a request in
\* flight goes on, under a context of its own.

Free == {r \in Handlers : req[r] = Idle}
Receive(op, at) ==
    /\ Alive /\ budget.requests > 0 /\ budget.effort > 1 /\ Free # {}
    /\ budget' = [budget EXCEPT !.requests = @ - 1, !.effort = @ - 2]
    /\ req' = [req EXCEPT ![CHOOSE r \in Free : TRUE] = [Idle EXCEPT !.op = op, !.at = at]]

At(r, s) == req[r].at = s
To(r, s) == req' = [req EXCEPT ![r].at = s]
End(r) == req' = [req EXCEPT ![r] = Idle]

\* Mutant: p.mu and config.Mu are one mutex.
UnlockedAltogether == locks.mu = None /\ locks.config = None

Unlocked == locks.mu = None

\* Mutant: the relay is not looked at.
ActivatableWithTun == prg.tun

\* Without both, SetKillSwitchMode answers tunnel_not_connected.
Activatable == prg.tun /\ prg.relay # None

\* What a handler leaves alone whatever it does.
calm == <<windows, main, stopping, reco, watch, guards>>

ModeRequested ==
    /\ \E op \in {"normal", "degraded"} : Receive(op, "check")
    /\ UNCHANGED <<calm, prg, host, fw, locks, drift>>

IPv6Requested ==
    /\ Receive("ipv6", "save")
    /\ UNCHANGED <<calm, prg, host, fw, locks, drift>>

CountryRequested ==
    /\ main.up /\ Receive("country", "store")
    /\ UNCHANGED <<calm, prg, host, fw, locks, drift>>

\* SetKillSwitchMode looks at the captive flag before it takes p.mu ...
CheckCaptive(r) ==
    /\ req[r].op # "country" /\ At(r, "check")
    /\ IF prg.captive THEN End(r) ELSE To(r, "lock")
    /\ UNCHANGED <<calm, prg, host, fw, locks, drift, budget>>

\* ... and holds p.mu until the firewall and the flag have changed.  Without a
\* manager there is nothing to take down, though a recovery may have raised rules
\* and not handed theirs over yet.
LockMode(r) ==
    LET normal == req[r].op = "normal"
        late == prg.mgr = "none"
    IN  /\ At(r, "lock") /\ Unlocked
        /\ \/ /\ (prg.enabled = normal) \/ (normal /\ ~Activatable)
              /\ End(r) /\ UNCHANGED <<prg, locks, drift>>
           \/ /\ prg.enabled /\ ~normal /\ late
              /\ prg' = [prg EXCEPT !.enabled = FALSE] /\ To(r, "persist")
              /\ drift' = Recorded(host, prg', {"putBack"})
              /\ UNCHANGED locks
           \/ /\ prg.enabled # normal /\ (IF normal THEN Activatable ELSE ~late)
              /\ locks' = [locks EXCEPT !.mu = r] /\ UNCHANGED <<prg, drift>>
              /\ req' = [req EXCEPT ![r].relay = IF normal THEN prg.relay ELSE None,
                                    ![r].fw = IF late THEN "late" ELSE prg.mgr,
                                    ![r].allow = late /\ prg.v6,
                                    ![r].at = IF normal \/ windows THEN "apply" ELSE "disarm"]
        /\ UNCHANGED <<calm, host, fw, budget>>

DisarmMode(r) ==
    /\ At(r, "disarm") /\ Disarm(req[r].fw) /\ To(r, "apply")
    /\ UNCHANGED <<calm, prg, host, locks, drift, budget>>

\* The options a firewall object renders with: those of a new one are the policy.
Options(i, v) == IF i = "late" /\ prg.mgr = "none" THEN v ELSE fw.of[i].v6

ApplyMode(r) ==
    LET q == req[r]
        normal == q.op = "normal"
    IN  /\ At(r, "apply")
        /\ \E o \in IF normal THEN Activation(q.fw, Full(q.relay, Options(q.fw, q.allow)), TRUE)
                    ELSE Deletion(q.fw, TRUE) :
             /\ prg' = IF o.ok THEN [prg EXCEPT !.enabled = normal,
                                          !.mgr = IF normal THEN q.fw ELSE @] ELSE prg
             /\ Enforce(o, {"stale", "v6", "older"} \union {d \in Passing : Flawed(o)}, FALSE)
             /\ req' = [req EXCEPT ![r] = IF o.ok THEN [Idle EXCEPT !.op = q.op, !.at = "persist"]
                                          ELSE Idle]
        /\ locks' = [locks EXCEPT !.mu = None]
        /\ UNCHANGED <<calm>>

\* The flag is saved under config.Mu, p.mu released.
PersistMode(r) ==
    /\ At(r, "persist") /\ locks.config = None
    /\ \/ End(r) /\ UNCHANGED budget
       \/ Fail /\ To(r, "undo")
    /\ UNCHANGED <<calm, prg, host, fw, locks, drift>>

\* A save that failed: the firewall and the flag go back, the flag even when
\* the firewall does not.
UndoMode(r) ==
    LET back == req[r].op = "degraded"
        i == IF prg.mgr = "none" THEN "late" ELSE prg.mgr
        none == [ok |-> FALSE, rules |-> host.rules, cost |-> 0, fw |-> fw]
        tries == IF back
                 THEN IF Activatable
                      THEN Activation(i, Full(prg.relay, Options(i, prg.v6)), TRUE) ELSE {none}
                 ELSE IF prg.mgr = "none" THEN {none}
                      ELSE {[o EXCEPT !.fw.armed = @ /\ i # "boot"] : o \in Deletion(i, TRUE)}
    IN  /\ At(r, "undo") /\ Unlocked
        /\ \E o \in tries :
             /\ prg' = [prg EXCEPT !.enabled = back,
                                   !.mgr = IF back /\ o.ok THEN i ELSE @]
             /\ Enforce(o, {"stale", "v6", "older"} \union {d \in Passing : Flawed(o)}, FALSE)
        /\ End(r)
        /\ UNCHANGED <<calm, locks>>

\* handleSetAllowIPv6Leak: the file first, then SetAllowIPv6Leak, under
\* config.Mu throughout.
SaveIPv6(r) ==
    /\ At(r, "save") /\ locks.config = None
    /\ \/ /\ req' = [req EXCEPT ![r].at = "policy", ![r].allow = ~prg.v6]
          /\ locks' = [locks EXCEPT !.config = r] /\ UNCHANGED budget
       \/ Fail /\ End(r) /\ UNCHANGED locks
    /\ UNCHANGED <<calm, prg, host, fw, drift>>

\* SetIPv6Policy changes the options of the object before it re-applies its
\* last parameters; p.mu is held all along.
ApplyIPv6(r) ==
    LET i == prg.mgr
        allow == req[r].allow
        none == [ok |-> TRUE, rules |-> host.rules, cost |-> 0, fw |-> fw]
    IN  /\ At(r, "policy") /\ Unlocked
        /\ \E o \in IF i = "none" THEN {none}
                    ELSE Activation(i, [fw.of[i] EXCEPT !.v6 = allow], TRUE) :
             /\ prg' = IF o.ok THEN [prg EXCEPT !.v6 = allow] ELSE prg
             /\ Enforce(o, Passing, FALSE)
        /\ locks' = [locks EXCEPT !.config = None] /\ End(r)
        /\ UNCHANGED calm

\* handleSelectCountry, ReconfigureForRelay: the new address first, then the
\* firewall, then the routes.  A failure ends the request there.
StoreRelay(r) ==
    /\ At(r, "store") /\ Unlocked
    /\ \E q \in Relays :
         /\ prg' = [prg EXCEPT !.relay = q]
         /\ req' = [req EXCEPT ![r].relay = q, ![r].fw = prg.mgr,
                               ![r].at = IF prg.enabled /\ prg.mgr # "none" /\ prg.tun
                                         THEN "activate" ELSE "unroute"]
         /\ drift' = Recorded(host, prg', {"older", "lockdown"}
                       \union {d \in {"stale"} : ~(prg.enabled /\ prg.mgr # "none" /\ prg.tun)})
    /\ UNCHANGED <<calm, host, fw, locks, budget>>

\* Mutant: the firewall is not told of the new relay.
SkipActivation(r) ==
    /\ At(r, "activate") /\ To(r, "unroute")
    /\ UNCHANGED <<calm, prg, host, fw, locks, drift, budget>>

ActivateForRelay(r) ==
    LET q == req[r]
    IN  /\ At(r, "activate")
        /\ UNCHANGED prg
        /\ \E o \in Activation(q.fw, Full(q.relay, fw.of[q.fw].v6), TRUE) :
             /\ Enforce(o, Passing, FALSE)
             /\ req' = [req EXCEPT ![r] = IF o.ok THEN [q EXCEPT !.at = "unroute", !.fw = "none"]
                                          ELSE Idle]
        /\ UNCHANGED <<calm, locks>>

TakeRoutes(r) ==
    /\ At(r, "unroute") /\ Unlocked
    /\ prg' = [prg EXCEPT !.route = FALSE]
    /\ host' = IF prg.route THEN [host EXCEPT !.routes = None] ELSE host
    /\ To(r, IF prg.tun THEN "reroute" ELSE "check")
    /\ UNCHANGED <<calm, fw, locks, drift, budget>>

\* Routes set up once the main goroutine no longer tears them down stay.
SetupRoutes(q) ==
    /\ host' = [host EXCEPT !.routes = q]
    /\ drift' = Lost("resurrected", q # None /\ Torndown)

SetupForRelay(r) ==
    /\ At(r, "reroute")
    /\ \/ SetupRoutes(req[r].relay) /\ To(r, "own") /\ UNCHANGED budget
       \/ SetupRoutes(None) /\ Fail /\ End(r)
    /\ UNCHANGED <<calm, prg, fw, locks>>

\* Once the tunnel is up on the new relay, MaybeRestoreKillSwitch ends a
\* degraded mode like a request for the normal one.
OwnRoutes(r) ==
    /\ At(r, "own") /\ Unlocked
    /\ prg' = [prg EXCEPT !.route = TRUE]
    /\ req' = [req EXCEPT ![r] = [Idle EXCEPT !.op = "country", !.at = "check"]]
    /\ UNCHANGED <<calm, host, fw, locks, drift, budget>>

Reconnected(r) ==
    /\ req[r].op = "country" /\ At(r, "check")
    /\ \/ End(r)
       \/ /\ Unlocked /\ ~prg.captive /\ ~prg.enabled
          /\ req' = [req EXCEPT ![r] = [Idle EXCEPT !.op = "normal", !.at = "check"]]
    /\ UNCHANGED <<calm, prg, host, fw, locks, drift, budget>>

-----------------------------------------------------------------------------
\* RecoverFromAnomaly and recoverTUN, one at a time: started by the TUN
\* watchdog, or by an authenticated trigger_recovery.

recovering == <<windows, main, stopping, locks, req, watch, guards>>
Step(s) == reco' = [reco EXCEPT !.at = s]

Disturb ==
    /\ budget.tampers > 0 /\ budget.effort > 0
    /\ budget' = [budget EXCEPT !.tampers = @ - 1, !.effort = @ - 1]

RecoveryStarts ==
    /\ reco.at = "idle" /\ Alive
    /\ \/ /\ guards.tun /\ ~host.tun /\ UNCHANGED budget
          /\ reco' = [Calm EXCEPT !.at = "close", !.byTun = TRUE]
       \/ /\ main.at = "up" /\ Disturb
          /\ reco' = [Calm EXCEPT !.at = "close"]
    /\ UNCHANGED <<recovering, prg, host, fw, drift>>

CloseDevice ==
    /\ reco.at = "close" /\ Unlocked /\ Step("new")
    /\ prg' = [prg EXCEPT !.tun = FALSE]
    /\ host' = IF prg.tun THEN [host EXCEPT !.tun = FALSE] ELSE host
    /\ UNCHANGED <<recovering, fw, drift, budget>>

NewDevice ==
    /\ reco.at = "new"
    /\ \/ host' = [host EXCEPT !.tun = TRUE] /\ Step("check") /\ UNCHANGED budget
       \/ Fail /\ reco' = Calm /\ UNCHANGED host
    /\ UNCHANGED <<recovering, prg, fw, drift>>

\* A stop noticed here gives the new device back; later ones are not looked for.
KeepDevice ==
    /\ reco.at = "check" /\ Unlocked
    /\ IF stopping
       THEN host' = [host EXCEPT !.tun = FALSE] /\ reco' = Calm /\ UNCHANGED prg
       ELSE prg' = [prg EXCEPT !.tun = TRUE] /\ Step("relay") /\ UNCHANGED host
    /\ UNCHANGED <<recovering, fw, drift, budget>>

\* The relay, the mode and the manager are read one after the other, the
\* manager alone under p.mu.
ReadRelay ==
    /\ reco.at = "relay"
    /\ reco' = [reco EXCEPT !.relay = prg.relay, !.at = "mode"]
    /\ UNCHANGED <<recovering, prg, host, fw, drift, budget>>

ReadMode ==
    /\ reco.at = "mode"
    /\ Step(IF prg.enabled /\ reco.relay # None THEN "mgr" ELSE "drop")
    /\ UNCHANGED <<recovering, prg, host, fw, drift, budget>>

ReadManager ==
    /\ reco.at = "mgr" /\ Unlocked
    /\ reco' = [reco EXCEPT !.fw = IF prg.mgr = "none" THEN "late" ELSE prg.mgr, !.at = "fw"]
    /\ UNCHANGED <<recovering, prg, host, fw, drift, budget>>

\* The rules are activated over those in force, which are never lifted.
RecoverRules ==
    /\ reco.at = "fw" /\ UNCHANGED prg
    /\ \E o \in Activation(reco.fw, Full(reco.relay, Options(reco.fw, prg.v6)), Alive) :
         /\ Enforce(o, {"putBack", "stale", "v6", "older"}
                         \union {d \in {"unprotected"} : ~o.ok}, reco.byTun /\ main.up)
         /\ Step(IF o.ok THEN "keep" ELSE "drop")
    /\ UNCHANGED recovering

DropRoutes ==
    /\ reco.at \in {"keep", "drop"} /\ Unlocked
    /\ prg' = [prg EXCEPT !.mgr = IF reco.at = "keep" THEN reco.fw ELSE @, !.route = FALSE]
    /\ host' = IF prg.route THEN [host EXCEPT !.routes = None] ELSE host
    /\ reco' = IF reco.relay = None THEN Calm ELSE [reco EXCEPT !.at = "setup", !.fw = "none"]
    /\ UNCHANGED <<recovering, fw, drift, budget>>

RecoverRoutes ==
    /\ reco.at = "setup"
    /\ \/ /\ host' = [host EXCEPT !.routes = reco.relay]
          /\ Step("own") /\ UNCHANGED budget
          /\ drift' = Lost("resurrected", ~(reco.byTun /\ main.up) /\ Torndown)
       \/ host' = [host EXCEPT !.routes = None] /\ Fail /\ reco' = Calm /\ UNCHANGED drift
    /\ UNCHANGED <<recovering, prg, fw>>

KeepRoutes ==
    /\ reco.at = "own" /\ Unlocked /\ reco' = Calm
    /\ prg' = [prg EXCEPT !.route = TRUE]
    /\ UNCHANGED <<recovering, effects>>

-----------------------------------------------------------------------------
\* watchFirewallAltered, for the firewall of the boot only: Deactivate, then
\* Activate with what was read in between.  A cancelled context ends it.

watching == <<windows, prg, main, stopping, locks, req, reco, guards>>

WatcherWakes ==
    /\ watch.at = "idle" /\ Unlocked
    /\ \/ /\ fw.altered
          /\ fw' = [fw EXCEPT !.altered = FALSE]
          /\ watch' = IF prg.mgr = "none" THEN watch
                      ELSE [watch EXCEPT !.at = IF windows THEN "lift" ELSE "disarm",
                                         !.fw = prg.mgr, !.tun = prg.tun]
       \/ stopping /\ watch' = Unwatched /\ UNCHANGED fw
    /\ UNCHANGED <<watching, host, drift, budget>>

WatcherDisarms ==
    /\ watch.at = "disarm" /\ Disarm(watch.fw)
    /\ watch' = [watch EXCEPT !.at = "lift"]
    /\ UNCHANGED <<watching, host, drift, budget>>

Watching == [Unwatched EXCEPT !.at = "idle"]

WatcherLifts ==
    /\ watch.at = "lift" /\ UNCHANGED watching
    /\ \E o \in Deletion(watch.fw, Alive) :
         LET on == watch.tun /\ prg.relay # None
         IN  /\ Enforce(o, {d \in Passing : ~on}, FALSE)
             /\ watch' = IF on THEN [watch EXCEPT !.at = "restore", !.relay = prg.relay]
                         ELSE Watching

\* Mutant: the watcher deactivates what is left of the rules, and no more.
WatcherForgets ==
    /\ watch.at = "restore" /\ watch' = Watching
    /\ UNCHANGED <<watching, host, fw, drift, budget>>

WatcherRestores ==
    /\ watch.at = "restore" /\ UNCHANGED watching
    /\ \E o \in Activation(watch.fw, Full(watch.relay, fw.of[watch.fw].v6), Alive) :
         Enforce(o, Passing, FALSE)
    /\ watch' = Watching

-----------------------------------------------------------------------------
\* The rest of the machine: other programs delete the rules, the TUN device
\* or the resolver setting; the DNS watchdog puts its setting back.

tampered == <<windows, prg, fw, main, stopping, locks, req, reco, watch>>
Tamper == main.at \in {"captive", "up"} /\ Disturb

RulesDeleted ==
    /\ Tamper /\ host.rules # Open
    /\ host' = HostWith(Open)
    /\ drift' = Recorded(host', prg, {d \in {"unprotected"} : ~fw.armed})
    /\ UNCHANGED <<tampered, guards>>

DeviceDeleted ==
    /\ Tamper /\ host.tun /\ main.at = "up"
    /\ host' = [host EXCEPT !.tun = FALSE]
    /\ UNCHANGED <<tampered, guards, drift>>

ResolverChanged ==
    /\ Tamper /\ host.resolver = "local"
    /\ host' = [host EXCEPT !.resolver = "original"]
    /\ UNCHANGED <<tampered, guards, drift>>

CheckResolver ==
    /\ \/ /\ guards.dns = "idle" /\ Alive /\ host.resolver = "original"
          /\ guards' = [guards EXCEPT !.dns = "fixing"] /\ UNCHANGED host
       \/ /\ guards.dns = "fixing"
          /\ guards' = [guards EXCEPT !.dns = "idle"]
          /\ host' = [host EXCEPT !.resolver = "local"]
    /\ UNCHANGED <<tampered, drift, budget>>

-----------------------------------------------------------------------------
Boot ==
    \/ NoPortal \/ PortalWithoutLockdown \/ PortalLockdown
    \/ CaptiveCleared \/ CaptiveStopped \/ TunUp \/ TunFails \/ RouteUp
    \/ RelayUnresolved \/ CleanupOrphans \/ NoRulesWanted \/ RaiseRules \/ GateRefuses \/ Connect
    \/ StartProxy \/ SetResolver

Shutdown ==
    \/ RestoreResolver \/ StopTunWatchdog \/ DisarmRules
    \/ DeleteRules \/ Unroute \/ Join

Handle(r) ==
    \/ CheckCaptive(r) \/ LockMode(r) \/ DisarmMode(r) \/ ApplyMode(r)
    \/ PersistMode(r) \/ UndoMode(r) \/ SaveIPv6(r) \/ ApplyIPv6(r)
    \/ StoreRelay(r) \/ ActivateForRelay(r) \/ TakeRoutes(r)
    \/ SetupForRelay(r) \/ OwnRoutes(r) \/ Reconnected(r)

Recover ==
    \/ CloseDevice \/ NewDevice \/ KeepDevice \/ ReadRelay \/ ReadMode \/ ReadManager
    \/ RecoverRules \/ DropRoutes \/ RecoverRoutes \/ KeepRoutes

Watch == WatcherWakes \/ WatcherDisarms \/ WatcherLifts \/ WatcherRestores

Environment ==
    \/ Stop \/ ModeRequested \/ IPv6Requested \/ CountryRequested
    \/ RulesDeleted \/ DeviceDeleted \/ ResolverChanged

Exited == main.at = "exited" /\ UNCHANGED vars

Next ==
    \/ Boot \/ Shutdown \/ Exit \/ Recover \/ RecoveryStarts \/ Watch
    \/ WatchdogPoll \/ CheckResolver \/ Environment \/ Exited
    \/ \E r \in Handlers : Handle(r)

\* Every goroutine that can go on does; requests, faults, tampering and the
\* stop of the service are not promised.
Fairness ==
    /\ WF_vars(Boot \/ Shutdown) /\ WF_vars(\E r \in Handlers : Handle(r))
    /\ WF_vars(Recover \/ (RecoveryStarts /\ reco'.byTun))
    /\ WF_vars(Watch) /\ WF_vars(WatchdogPoll) /\ WF_vars(CheckResolver)

Spec == Init /\ [][Next]_vars
FairSpec == Spec /\ Fairness

-----------------------------------------------------------------------------
\* Properties.

\* Nobody is in the middle of a change, and no repair is due.
AtRest ==
    /\ main.at = "up" /\ ~stopping /\ ~fw.altered
    /\ \A r \in Handlers : req[r] = Idle
    /\ reco = Calm /\ watch.at \in {"off", "idle"}
    /\ ~(fw.armed /\ host.rules = Open)

\* Once boot, requests, recovery and watcher are done, the rules put in force last
\* are those of the mode, the relay and the IPv6 policy in force, whatever the
\* order they came in, none is in force when the user wants none, and on Windows
\* nothing of earlier rules contradicts them, the captive portal's least of all,
\* unless one of the operations that cannot keep them together is on record.
RulesFollowPolicy ==
    AtRest => Verdict(host, prg) \subseteq drift

\* Linux: from the lockdown of the captive portal until the boot has raised the full
\* rules (and their watcher, which has a gap of its own, is there) the host is never
\* open, unless the user asked for it or somebody deleted the rules.
CaptiveHandover ==
    ~windows /\ prg.mgr = "captive" /\ prg.enabled /\ Alive /\ watch.at = "off"
      /\ main.at \in {"captive", "tun", "route", "orphans", "rules", "gate"}
      /\ "unprotected" \notin drift
      => host.rules.mode # "open"

\* A process that ended left the network as it found it: no rules, no routes,
\* its own resolver, unless a teardown failed, ran out of time, was never
\* armed, or somebody raised the protection again behind it.
HostReopened ==
    main.at = "exited" /\ drift \intersect Lasting = {}
      => host.rules = Open /\ host.left = {} /\ host.routes = None
           /\ host.resolver = "original"

\* A stop is always carried through: no handler, recovery or watchdog it
\* waits for, and no lock it takes, holds it for ever.
StopReturns == stopping ~> main.at \in {"down", "exited"}

\* What another program deleted comes back while the service is up and
\* nothing failed: the rules of the boot's firewall, and the TUN device.
TamperingRepaired ==
    LET excused == main.at # "up" \/ stopping \/ budget.faults < MaxFaults
    IN  /\ (fw.armed /\ host.rules = Open) ~> (host.rules.mode = "full" \/ ~prg.enabled \/ excused)
        /\ (main.at = "up" /\ ~host.tun) ~> (host.tun \/ excused)
=============================================================================
