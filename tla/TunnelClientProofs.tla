------------------------- MODULE TunnelClientProofs -------------------------
(***************************************************************************)
(* What TLAPS proves of TunnelClient, for every number of relays,          *)
(* transports and heartbeats, every threshold and every set of requests.   *)
(***************************************************************************)
EXTENDS TunnelClient, TLAPS

\* The part of TypeOK the heartbeats need.
HeartsTyped ==
    /\ heartbeatStop \in Heartbeats \cup {None}
    /\ beat \in [Heartbeats -> [at : {"none", "waiting", "probing", "tripping", "tripped"},
                                stopped : BOOLEAN, fails : 0..MaxHeartbeatFailures]]

HeartInv == HeartsTyped /\ OneHeartbeat

\* None stands for the nil stop channel.
LEMMA NoneIsNoHeartbeat == None \notin Heartbeats
BY ClientAssumption

\* First picks an element of a set that has one.
LEMMA FirstIsIn ==
    ASSUME NEW S, S # {}
    PROVE  First(S) \in S
BY DEF First

\* The goroutine of a heartbeat preserves the invariant: it only ever moves on or ends.
LEMMA HeartbeatKeepsInv ==
    ASSUME HeartInv, NEW h \in Heartbeats, HeartbeatStep(h)
    PROVE  HeartInv'
<1> DEFINE Record == [at : {"none", "waiting", "probing", "tripping", "tripped"},
                      stopped : BOOLEAN, fails : 0..MaxHeartbeatFailures]
<1>1. MaxHeartbeatFailures \in Nat \ {0}
  BY ClientAssumption
<1>2. \/ \E where \in {"waiting", "probing", "tripping"}, n \in 0..MaxHeartbeatFailures :
           beat' = [beat EXCEPT ![h].at = where, ![h].fails = n] /\ beat[h].at # "none"
      \/ beat' = [beat EXCEPT ![h] = Ended]
      \/ beat' = [beat EXCEPT ![h] = Tripped] /\ heartbeatStop = h
  <2>1. CASE Tick(h)
    <3>1. beat[h].fails \in 0..MaxHeartbeatFailures
      BY ONLY HeartInv, h \in Heartbeats DEF HeartInv, HeartsTyped
    <3>2. CASE Beat(h, "waiting", 0)
      <4>1. 0 \in 0..MaxHeartbeatFailures
        BY <1>1
      <4>2. beat[h].at # "none"
        BY <2>1 DEF Tick
      <4>3. beat' = [beat EXCEPT ![h].at = "waiting", ![h].fails = 0]
        BY <3>2 DEF Beat
      <4> QED
        BY <4>1, <4>2, <4>3, Zenon
    <3>3. CASE Beat(h, "probing", beat[h].fails)
      BY <2>1, <3>1, <3>3 DEF Tick, Beat
    <3>4. Beat(h, "waiting", 0) \/ Beat(h, "probing", beat[h].fails)
      BY <2>1 DEF Tick
    <3> QED
      BY <3>2, <3>3, <3>4
  <2>2. CASE ProbeSucceeds(h)
    <3>1. 0 \in 0..MaxHeartbeatFailures
      BY <1>1
    <3>2. /\ beat[h].at # "none"
          /\ beat' = [beat EXCEPT ![h].at = "waiting", ![h].fails = 0]
      BY <2>2 DEF ProbeSucceeds, Beat
    <3> QED
      BY <3>1, <3>2, Zenon
  <2>3. CASE ProbeFails(h)
    <3>1. beat[h].fails \in 0..MaxHeartbeatFailures
      BY ONLY HeartInv, h \in Heartbeats DEF HeartInv, HeartsTyped
    <3>2. AtMost(beat[h].fails + 1, MaxHeartbeatFailures) \in 0..MaxHeartbeatFailures
      BY <3>1, <1>1 DEF AtMost
    <3> HIDE DEF AtMost
    <3> QED
      BY <2>3, <3>2 DEF ProbeFails, Beat
  <2>4. CASE HeartbeatTrips(h)
    BY <2>4 DEF HeartbeatTrips
  <2>5. CASE HeartbeatStops(h)
    BY <2>5 DEF HeartbeatStops
  <2> QED
    BY <2>1, <2>2, <2>3, <2>4, <2>5 DEF HeartbeatStep
<1>3. UNCHANGED heartbeatStop
  BY DEF HeartbeatStep, Tick, ProbeSucceeds, ProbeFails, HeartbeatTrips, HeartbeatStops
<1>4. Ended \in Record /\ Tripped \in Record
  BY <1>1 DEF Ended, Tripped
<1>5. CASE \E where \in {"waiting", "probing", "tripping"}, n \in 0..MaxHeartbeatFailures :
             beat' = [beat EXCEPT ![h].at = where, ![h].fails = n] /\ beat[h].at # "none"
  <2>1. PICK where \in {"waiting", "probing", "tripping"}, n \in 0..MaxHeartbeatFailures :
          beat' = [beat EXCEPT ![h].at = where, ![h].fails = n] /\ beat[h].at # "none"
    BY <1>5
  <2>2. HeartsTyped'
    BY <1>3, <2>1 DEF HeartInv, HeartsTyped
  <2>3. OneHeartbeat'
    BY <1>3, <2>1 DEF HeartInv, HeartsTyped, OneHeartbeat
  <2> QED
    BY <2>2, <2>3 DEF HeartInv
<1>6. CASE beat' = [beat EXCEPT ![h] = Ended]
  BY <1>3, <1>4, <1>6 DEF HeartInv, HeartsTyped, OneHeartbeat, Ended
<1>7. CASE beat' = [beat EXCEPT ![h] = Tripped] /\ heartbeatStop = h
  BY <1>3, <1>4, <1>7 DEF HeartInv, HeartsTyped, OneHeartbeat, Tripped
<1> QED
  BY <1>2, <1>5, <1>6, <1>7

\* The goroutine startHeartbeat starts, when there is no stop channel.
LEMMA StartedIsNew ==
    ASSUME NEW c \in Callers, StartHeartbeat(c), heartbeatStop = None
    PROVE  \E h \in Heartbeats :
             /\ heartbeatStop' = h
             /\ beat' = [beat EXCEPT ![h] = [at |-> "waiting", stopped |-> FALSE, fails |-> 0]]
<1> DEFINE free == {h \in Heartbeats : beat[h].at = "none"}
<1>1. free # {} /\ heartbeatStop' = First(free)
  BY DEF StartHeartbeat
<1>2. beat' = [beat EXCEPT ![heartbeatStop'] = [at |-> "waiting", stopped |-> FALSE, fails |-> 0]]
  BY DEF StartHeartbeat
<1>3. heartbeatStop' \in free
  BY <1>1, FirstIsIn
<1> QED
  BY <1>2, <1>3

\* So does every step of the client's methods: stopHeartbeat marks the only
\* heartbeat that is not marked, startHeartbeat starts one only when there is none.
LEMMA ClientKeepsInv ==
    ASSUME HeartInv, NEW c \in Callers, ClientStep(c)
    PROVE  HeartInv'
<1> DEFINE Record == [at : {"none", "waiting", "probing", "tripping", "tripped"},
                      stopped : BOOLEAN, fails : 0..MaxHeartbeatFailures]
<1> USE DEF HeartInv, HeartsTyped, OneHeartbeat
<1>1. CASE StopHeartbeat(c)
  <2>1. heartbeatStop' = None
    BY <1>1 DEF StopHeartbeat
  <2>2. beat' = StopClosed
    BY <1>1 DEF StopHeartbeat
  <2>3. \A h \in Heartbeats : beat'[h].at # "none" => beat'[h].stopped
    BY <2>2 DEF StopClosed, Ended
  <2>4. 0 \in 0..MaxHeartbeatFailures
    BY ClientAssumption
  <2>5. ASSUME NEW h \in Heartbeats
        PROVE  StopClosed[h] \in Record
    <3>1. beat[h] \in Record
      BY <2>5
    <3>2. Ended \in Record
      BY <2>4 DEF Ended
    <3>3. [beat[h] EXCEPT !.stopped = TRUE] \in Record
      BY <3>1
    <3> QED
      BY <3>1, <3>2, <3>3 DEF StopClosed
  <2>6. StopClosed \in [Heartbeats -> Record]
    BY <2>5 DEF StopClosed
  <2> QED
    BY <2>1, <2>2, <2>3, <2>6
<1>2. CASE StartHeartbeat(c)
  <2>1. CASE heartbeatStop # None
    BY <1>2, <2>1 DEF StartHeartbeat, hearts
  <2>2. CASE heartbeatStop = None
    <3>1. PICK h \in Heartbeats :
            /\ heartbeatStop' = h
            /\ beat' = [beat EXCEPT ![h] = [at |-> "waiting", stopped |-> FALSE, fails |-> 0]]
      BY <1>2, <2>2, StartedIsNew
    <3>2. \A g \in Heartbeats : beat[g].at = "none" \/ beat[g].stopped
      BY <2>2, NoneIsNoHeartbeat
    <3>3. 0 \in 0..MaxHeartbeatFailures
      BY ClientAssumption
    <3> QED
      BY <3>1, <3>2, <3>3
  <2> QED
    BY <2>1, <2>2
<1>3. CASE UNCHANGED hearts
  BY <1>3 DEF hearts
<1> QED
  BY <1>1, <1>2, <1>3 DEF ClientStep, SwapTransport, ClearQUIC, CloseOld,
     ConnectStarts, VerifySucceeds, VerifyFails

\* Nobody else touches the heartbeats.
LEMMA OthersKeepHearts ==
    ASSUME ReconnectorStep \/ HandlerStep \/ ConnectAsked \/ DisconnectAsked
           \/ SelectAsked \/ RecoveryStarts
    PROVE  UNCHANGED hearts
BY DEF ReconnectorStep, NotificationIgnored, CycleStarts, CycleCancelled, CycleSucceeds,
       ConnectFailed, FailoverTries, FailoverExhausted, BreakerTrips, HandlerStep, Reconfigured,
       StopReconnector, ReconnectorStopped, Disconnected, Answered, ConnectAsked,
       DisconnectAsked, SelectAsked, RecoveryStarts

LEMMA HeartsStep ==
    ASSUME HeartInv, [Next]_vars
    PROVE  HeartInv'
<1>1. CASE UNCHANGED hearts
  BY <1>1 DEF HeartInv, HeartsTyped, OneHeartbeat, hearts
<1>2. CASE UNCHANGED vars
  BY <1>1, <1>2 DEF vars
<1> QED
  BY <1>1, <1>2, HeartbeatKeepsInv, ClientKeepsInv, OthersKeepHearts DEF Next

LEMMA HeartsInit ==
    ASSUME Init
    PROVE  HeartInv
<1>1. First(Heartbeats) \in Heartbeats
  BY ClientAssumption, FirstIsIn
<1> QED
  BY <1>1, ClientAssumption DEF Init, HeartInv, HeartsTyped, OneHeartbeat

\* No heartbeat escapes: whatever Connects and ResetTransports interleave, one that
\* has not been told to stop is the one stopHeartbeat would stop.
THEOREM HeartbeatIsUnique == Spec => []OneHeartbeat
<1>1. HeartInv => OneHeartbeat
  BY DEF HeartInv
<1> QED
  BY <1>1, HeartsInit, HeartsStep, PTL DEF Spec

----------------------------------------------------------------------------
(* The types of the other variables, component by component.               *)

Places == {"none", "connected", "failed", "trip", "disconnected"} \cup
          ResetSteps \cup ConnectSteps \cup HandlerSteps
RequestRecord == [to : Relays \cup {None}, via : Transports \cup {None}]
CallRecord == [at : Places, rq : RequestRecord, old : Transports \cup {None},
               oldQUIC : QUICTransports \cup {None}]
CycleRecord == [running : BOOLEAN, failed : BOOLEAN, retries : 0..BreakerThreshold,
                attempted : BOOLEAN, failover : BOOLEAN, trying : Relays \cup {None},
                tried : SUBSET Relays]

LinkTyped ==
    /\ relay \in Relays /\ transport \in Transports
    /\ sni \in [Transports -> Relays \cup {None}]
    /\ quicTransport \in QUICTransports \cup {None} /\ open \subseteq QUICTransports
ConnTyped ==
    /\ state \in {"Disconnected", "Connecting", "Connected", "Failed"}
    /\ losses \subseteq 1..UpdatesCap
CallTyped == call \in [Callers -> CallRecord]
DeskTyped ==
    /\ cycle \in CycleRecord
    /\ current \in Relays
    /\ asked \in [op : Requests \cup {None}, relay : Relays \cup {None}]

\* What a step leaves of the places of the callers, when it is a step of c.
At(c, where) ==
    /\ call'[c].at = where
    /\ \A d \in Callers \ {c} : call'[d].at = call[d].at

\* What the callers have taken to close stays as it is.
HandsKept ==
    \A d \in Callers : call'[d].old = call[d].old /\ call'[d].oldQUIC = call[d].oldQUIC

\* The retries left to the loop, the relay of a failover's Connect, the relay of a
\* selection: without them CycleSucceeds or Answered could store no relay at all.
DeskInv ==
    /\ ~cycle.failover => cycle.retries < BreakerThreshold
    /\ cycle.failover => cycle.trying # None \/ call["reconnector"].at = "failed"
    /\ call["handler"].at # "none" /\ asked.op = "select" => asked.relay # None

\* Only a caller on the way to CloseOld holds a transport.
HandsInv ==
    /\ NothingLeaks
    /\ \A c \in Callers :
          /\ call[c].at \notin {"clear", "close"} => call[c].old = None
          /\ call[c].at # "close" => call[c].oldQUIC = None

\* Nobody is connecting: the tunnel was lost, or given up by the breaker.
Down == {"Disconnected", "Failed"}

\* Who sees to a tunnel that is not up, and why the handler that starts the
\* Reconnector again leaves it a loss to find.
LossInv ==
    /\ state = "Connecting" => \E c \in Callers : call[c].at = "verify"
    /\ state \in Down /\ losses = {} =>
          \/ ~cycle.running \/ cycle.failed
          \/ call["reconnector"].at \in ResetSteps \cup {"connect"}
          \/ call["handler"].at = "stop"
    /\ call["reconnector"].at = "trip" =>
          ~cycle.running \/ cycle.failed \/ call["handler"].at = "stop"
    /\ call["handler"].at \notin {"none", "reconfigure", "stop"} => ~cycle.running
    /\ call["handler"].at \in {"verify", "beat", "connected", "failed"}
          /\ state \in Down => losses # {}

\* No handler is past Stop before the cycle of the Reconnector has ended.
OneAtATime ==
    call["reconnector"].at # "none"
      => call["handler"].at \in {"none", "reconfigure", "stop", "stopping"}

IInv ==
    /\ HeartInv /\ LinkTyped /\ ConnTyped /\ CallTyped /\ DeskTyped /\ events \in 0..MaxEvents
    /\ DeskInv /\ HandsInv /\ LossInv /\ OneAtATime

\* A Go moves its caller, and takes or gives nothing.
LEMMA GoMoves ==
    ASSUME CallTyped, NEW c \in Callers, NEW where \in Places, Go(c, where)
    PROVE  CallTyped' /\ At(c, where) /\ HandsKept
<1>1. call' = [call EXCEPT ![c].at = where]
  BY DEF Go
<1>2. call' \in [Callers -> CallRecord]
  BY <1>1 DEF CallTyped, CallRecord
<1> QED
  BY <1>1, <1>2 DEF CallTyped, CallRecord, At, HandsKept

\* So does a step that also sends, or forgets, a request.
LEMMA RequestMoves ==
    ASSUME CallTyped, NEW c \in Callers, NEW where \in Places, NEW rq \in RequestRecord,
           call' = [call EXCEPT ![c].at = where, ![c].rq = rq]
    PROVE  CallTyped' /\ At(c, where) /\ HandsKept
<1>1. call' \in [Callers -> CallRecord]
  BY DEF CallTyped, CallRecord
<1> QED
  BY <1>1 DEF CallTyped, CallRecord, At, HandsKept

\* SwapTransport hands the old transport to its caller, ClearQUIC the old quic.Transport.
LEMMA SwapMoves ==
    ASSUME CallTyped, NEW c \in Callers, transport \in Transports, SwapTransport(c)
    PROVE  /\ CallTyped' /\ At(c, "clear")
           /\ call'[c].old = transport /\ call'[c].oldQUIC = call[c].oldQUIC
           /\ \A d \in Callers \ {c} : call'[d] = call[d]
<1>1. call' = [call EXCEPT ![c].at = "clear", ![c].old = transport]
  BY DEF SwapTransport
<1>2. call' \in [Callers -> CallRecord]
  BY <1>1 DEF CallTyped, CallRecord, Places, ResetSteps
<1> QED
  BY <1>1, <1>2 DEF CallTyped, CallRecord, At

LEMMA ClearMoves ==
    ASSUME CallTyped, NEW c \in Callers, quicTransport \in QUICTransports \cup {None},
           ClearQUIC(c)
    PROVE  /\ CallTyped' /\ At(c, "close")
           /\ call'[c].oldQUIC = quicTransport /\ call'[c].old = call[c].old
           /\ \A d \in Callers \ {c} : call'[d] = call[d]
<1>1. call' = [call EXCEPT ![c].at = "close", ![c].oldQUIC = quicTransport]
  BY DEF ClearQUIC
<1>2. call' \in [Callers -> CallRecord]
  BY <1>1 DEF CallTyped, CallRecord, Places, ResetSteps
<1> QED
  BY <1>1, <1>2 DEF CallTyped, CallRecord, At

\* CloseOld cuts the requests of the others, and nothing else of theirs.
LEMMA CloseMoves ==
    ASSUME CallTyped, NEW c \in Callers, CloseOld(c)
    PROVE  /\ CallTyped'
           /\ (At(c, "disconnected") /\ c = "handler") \/ At(c, "connect")
           /\ call'[c].old = None /\ call'[c].oldQUIC = None
           /\ \A d \in Callers \ {c} :
                call'[d].old = call[d].old /\ call'[d].oldQUIC = call[d].oldQUIC
<1> DEFINE old == call[c].old
           next == IF c = "handler" /\ asked.op = "disconnect" THEN "disconnected"
                   ELSE "connect"
           mine == [call[c] EXCEPT !.at = next, !.old = None, !.oldQUIC = None]
           cut(d) == [call[d] EXCEPT !.rq = Cut(@, old)]
<1>1. call' = [d \in Callers |-> IF d = c THEN mine ELSE cut(d)]
  BY DEF CloseOld
<1>2. next \in Places
  BY DEF Places, ConnectSteps
<1>3. /\ mine \in CallRecord
      /\ mine.at = next /\ mine.old = None /\ mine.oldQUIC = None
  <2> HIDE DEF next
  <2> QED
    BY <1>2 DEF CallTyped, CallRecord
<1>4. ASSUME NEW d \in Callers
      PROVE  /\ cut(d) \in CallRecord
             /\ cut(d).at = call[d].at /\ cut(d).old = call[d].old
             /\ cut(d).oldQUIC = call[d].oldQUIC
  <2>1. call[d] \in CallRecord
    BY DEF CallTyped
  <2>2. Cut(call[d].rq, old) \in RequestRecord
    BY <2>1 DEF CallRecord, RequestRecord, Cut
  <2>3. cut(d) = [call[d] EXCEPT !.rq = Cut(call[d].rq, old)]
    OBVIOUS
  <2> HIDE DEF cut
  <2> QED
    BY <2>1, <2>2, <2>3 DEF CallRecord
<1>5. next = "connect" \/ (next = "disconnected" /\ c = "handler")
  OBVIOUS
<1> HIDE DEF mine, cut, next
<1> QED
  BY <1>1, <1>3, <1>4, <1>5 DEF CallTyped, At

\* Where each step takes its caller.
Moves(c, where) == CallTyped' /\ At(c, where) /\ HandsKept

LEMMA ClientMoves ==
    ASSUME LinkTyped, CallTyped, NEW c \in Callers
    PROVE  /\ StopHeartbeat(c) => Moves(c, "swap")
           /\ ConnectStarts(c) => Moves(c, "verify")
           /\ VerifySucceeds(c) => Moves(c, "beat")
           /\ VerifyFails(c) => Moves(c, Returned(c, "failed"))
           /\ StartHeartbeat(c) => Moves(c, Returned(c, "connected"))
<1>1. /\ {"swap", "verify", "beat"} \subseteq Places
      /\ Returned(c, "failed") \in Places /\ Returned(c, "connected") \in Places
  BY DEF Places, ResetSteps, ConnectSteps, Returned
<1>2. NewRequest \in RequestRecord /\ NoRequest \in RequestRecord
  BY DEF NewRequest, NoRequest, RequestRecord, LinkTyped
<1>3. StopHeartbeat(c) => Moves(c, "swap")
  BY <1>1, GoMoves DEF StopHeartbeat, Moves
<1>4. ConnectStarts(c) => Moves(c, "verify")
  BY <1>1, <1>2, RequestMoves DEF ConnectStarts, Moves
<1>5. VerifySucceeds(c) => Moves(c, "beat")
  BY <1>1, <1>2, RequestMoves DEF VerifySucceeds, Moves
<1>6. VerifyFails(c) => Moves(c, Returned(c, "failed"))
  BY <1>1, <1>2, RequestMoves DEF VerifyFails, Moves
<1>7. StartHeartbeat(c) => Moves(c, Returned(c, "connected"))
  BY <1>1, GoMoves DEF StartHeartbeat, Moves
<1> QED
  BY <1>3, <1>4, <1>5, <1>6, <1>7

LEMMA ReconnectorMoves ==
    ASSUME CallTyped
    PROVE  /\ NotificationIgnored => UNCHANGED call
           /\ CycleStarts => Moves("reconnector", "reset")
           /\ CycleCancelled \/ CycleSucceeds => Moves("reconnector", "none")
           /\ FailoverTries => Moves("reconnector", "connect")
           /\ Go("reconnector", "connect") => Moves("reconnector", "connect")
           /\ Go("reconnector", "trip") => Moves("reconnector", "trip")
           /\ BreakerTrips => Moves("reconnector", "none")
<1>1. {"reset", "connect", "none", "trip"} \subseteq Places /\ "reconnector" \in Callers
  BY DEF Places, ResetSteps, ConnectSteps, Callers
<1>2. \A where \in {"reset", "connect", "none", "trip"} :
        Go("reconnector", where) => Moves("reconnector", where)
  BY <1>1, GoMoves DEF Moves
<1> QED
  BY <1>2 DEF NotificationIgnored, CycleStarts, CycleCancelled, CycleSucceeds, FailoverTries,
     BreakerTrips

LEMMA HandlerMoves ==
    ASSUME CallTyped
    PROVE  /\ ConnectAsked \/ DisconnectAsked => Moves("handler", "stop")
           /\ SelectAsked => Moves("handler", "reconfigure")
           /\ Reconfigured => \/ Moves("handler", "stop") /\ UNCHANGED asked
                              \/ Moves("handler", "none")
           /\ StopReconnector => Moves("handler", "stopping")
           /\ ReconnectorStopped =>
                IF asked.op = "connect" THEN Moves("handler", "connect")
                ELSE Moves("handler", "reset")
           /\ Disconnected \/ Answered => Moves("handler", "none")
           /\ RecoveryStarts => Moves("watchdog", "reset")
<1>1. /\ {"none", "stop", "reconfigure", "stopping", "connect", "reset"} \subseteq Places
      /\ {"handler", "watchdog"} \subseteq Callers
  BY DEF Places, ResetSteps, ConnectSteps, HandlerSteps, Callers
<1>2. \A where \in {"none", "stop", "reconfigure", "stopping", "connect", "reset"} :
        \A c \in {"handler", "watchdog"} : Go(c, where) => Moves(c, where)
  BY <1>1, GoMoves DEF Moves
<1> QED
  BY <1>2 DEF ConnectAsked, DisconnectAsked, SelectAsked, Reconfigured, StopReconnector,
     ReconnectorStopped, Disconnected, Answered, Done, RecoveryStarts

----------------------------------------------------------------------------
(* Types.                                                                  *)

\* Set writes one of the states, and leaves in the channel what is young enough.
LEMMA SetTyped ==
    ASSUME ConnTyped, NEW s \in {"Disconnected", "Connecting", "Connected", "Failed"}, Set(s)
    PROVE  ConnTyped'
<1>1. UpdatesCap \in Nat \ {0}
  BY ClientAssumption
<1>2. \A n \in losses \ {UpdatesCap} : n + 1 \in 1..UpdatesCap
  BY <1>1 DEF ConnTyped
<1>3. 1 \in 1..UpdatesCap
  BY <1>1
<1> QED
  BY <1>2, <1>3 DEF ConnTyped, Set

LEMMA TakeTyped ==
    ASSUME ConnTyped, TakeLoss, UNCHANGED state
    PROVE  ConnTyped'
BY DEF ConnTyped, TakeLoss

\* A dial leaves a quic.Transport, at most one more is open.
LEMMA Dials ==
    ASSUME LinkTyped, Dial
    PROVE  /\ quicTransport' \in QUICTransports \cup {None} /\ open' \subseteq QUICTransports
           /\ \/ UNCHANGED <<quicTransport, open>>
              \/ quicTransport = None /\ open' = open \cup {quicTransport'}
<1>1. CASE quicTransport # None
  BY <1>1 DEF Dial, LinkTyped
<1>2. CASE quicTransport = None
  <2>1. /\ QUICTransports \ open # {}
        /\ quicTransport' = First(QUICTransports \ open)
        /\ open' = open \cup {quicTransport'}
    BY <1>2 DEF Dial
  <2>2. quicTransport' \in QUICTransports \ open
    BY <2>1, FirstIsIn
  <2> QED
    BY <1>2, <2>1, <2>2 DEF LinkTyped
<1> QED
  BY <1>1, <1>2

\* SwapTransport takes a closed transport, and opens it for the relay of the moment.
LEMMA Swaps ==
    ASSUME NEW c \in Callers, SwapTransport(c)
    PROVE  /\ transport' \in Transports
           /\ sni' = [sni EXCEPT ![transport'] = relay]
<1> DEFINE free == {t \in Transports : sni[t] = None}
<1>1. free # {} /\ transport' = First(free) /\ sni' = [sni EXCEPT ![transport'] = relay]
  BY DEF SwapTransport
<1>2. transport' \in free
  BY <1>1, FirstIsIn
<1> QED
  BY <1>1, <1>2

LEMMA LinkStep ==
    ASSUME LinkTyped, DeskTyped, [Next]_vars
    PROVE  LinkTyped'
<1>1. ASSUME NEW c \in Callers, SwapTransport(c)
      PROVE  LinkTyped'
  BY <1>1, Swaps DEF SwapTransport, LinkTyped
<1>2. ASSUME NEW c \in Callers, ClearQUIC(c)
      PROVE  LinkTyped'
  BY <1>2 DEF ClearQUIC, LinkTyped
<1>3. ASSUME NEW c \in Callers, CloseOld(c)
      PROVE  LinkTyped'
  BY <1>3 DEF CloseOld, LinkTyped
<1>4. ASSUME NEW c \in Callers, ConnectStarts(c)
      PROVE  LinkTyped'
  BY <1>4, Dials DEF ConnectStarts, LinkTyped
<1>5. ASSUME NEW h \in Heartbeats, Tick(h)
      PROVE  LinkTyped'
  BY <1>5, Dials DEF Tick, LinkTyped
<1>6. CASE FailoverTries
  BY <1>6 DEF FailoverTries, LinkTyped
<1>7. CASE FailoverExhausted
  BY <1>7 DEF FailoverExhausted, LinkTyped, DeskTyped
<1>8. CASE SelectAsked
  BY <1>8 DEF SelectAsked, LinkTyped
<1>9. CASE UNCHANGED link
  BY <1>9 DEF link, LinkTyped
<1>10. ASSUME NEW c \in Callers, ClientStep(c)
       PROVE  LinkTyped'
  BY <1>1, <1>2, <1>3, <1>4, <1>9, <1>10
     DEF ClientStep, StopHeartbeat, VerifySucceeds, VerifyFails, StartHeartbeat
<1>11. ASSUME NEW h \in Heartbeats, HeartbeatStep(h)
       PROVE  LinkTyped'
  BY <1>5, <1>9, <1>11
     DEF HeartbeatStep, ProbeSucceeds, ProbeFails, HeartbeatTrips, HeartbeatStops
<1>12. CASE ReconnectorStep
  BY <1>6, <1>7, <1>9, <1>12
     DEF ReconnectorStep, NotificationIgnored, CycleStarts, CycleCancelled, CycleSucceeds,
         ConnectFailed, BreakerTrips
<1>13. CASE HandlerStep \/ ConnectAsked \/ DisconnectAsked \/ RecoveryStarts
  BY <1>9, <1>13
     DEF HandlerStep, Reconfigured, StopReconnector, ReconnectorStopped, Disconnected,
         Answered, ConnectAsked, DisconnectAsked, RecoveryStarts
<1>14. CASE UNCHANGED vars
  BY <1>9, <1>14 DEF vars
<1> QED
  BY <1>8, <1>10, <1>11, <1>12, <1>13, <1>14 DEF Next

LEMMA ConnStep ==
    ASSUME ConnTyped, [Next]_vars
    PROVE  ConnTyped'
<1>1. CASE UNCHANGED conn
  BY <1>1 DEF conn, ConnTyped
<1>2. ASSUME NEW c \in Callers, ClientStep(c)
      PROVE  ConnTyped'
  BY <1>1, <1>2, SetTyped
     DEF ClientStep, StopHeartbeat, SwapTransport, ClearQUIC, CloseOld, ConnectStarts,
         VerifySucceeds, VerifyFails, StartHeartbeat
<1>3. ASSUME NEW h \in Heartbeats, HeartbeatStep(h)
      PROVE  ConnTyped'
  BY <1>1, <1>3, SetTyped
     DEF HeartbeatStep, Tick, ProbeSucceeds, ProbeFails, HeartbeatTrips, HeartbeatStops
<1>4. CASE NotificationIgnored \/ CycleStarts
  BY <1>4, TakeTyped DEF NotificationIgnored, CycleStarts
<1>5. CASE ReconnectorStep
  BY <1>1, <1>4, <1>5, SetTyped
     DEF ReconnectorStep, CycleCancelled, CycleSucceeds, ConnectFailed, FailoverTries,
         FailoverExhausted, BreakerTrips
<1>6. CASE ReconnectorStopped
  BY <1>1, <1>6, SetTyped DEF ReconnectorStopped
<1>7. CASE HandlerStep
  BY <1>1, <1>6, <1>7 DEF HandlerStep, Reconfigured, StopReconnector, Disconnected, Answered
<1>8. CASE ConnectAsked \/ DisconnectAsked \/ SelectAsked \/ RecoveryStarts
  BY <1>1, <1>8 DEF ConnectAsked, DisconnectAsked, SelectAsked, RecoveryStarts
<1>9. CASE UNCHANGED vars
  BY <1>1, <1>9 DEF vars
<1> QED
  BY <1>2, <1>3, <1>5, <1>7, <1>8, <1>9 DEF Next

LEMMA CallStep ==
    ASSUME LinkTyped, CallTyped, [Next]_vars
    PROVE  CallTyped'
<1>1. CASE UNCHANGED call
  BY <1>1 DEF CallTyped
<1>2. ASSUME NEW c \in Callers, ClientStep(c)
      PROVE  CallTyped'
  <2>1. CASE SwapTransport(c)
    BY <2>1, SwapMoves DEF LinkTyped
  <2>2. CASE ClearQUIC(c)
    BY <2>2, ClearMoves DEF LinkTyped
  <2>3. CASE CloseOld(c)
    BY <2>3, CloseMoves
  <2> QED
    BY <1>2, <2>1, <2>2, <2>3, ClientMoves DEF ClientStep, Moves
<1>3. ASSUME NEW h \in Heartbeats, HeartbeatStep(h)
      PROVE  CallTyped'
  BY <1>1, <1>3
     DEF HeartbeatStep, Tick, ProbeSucceeds, ProbeFails, HeartbeatTrips, HeartbeatStops
<1>4. CASE ConnectFailed
  BY <1>1, <1>4, ReconnectorMoves DEF ConnectFailed, RetryOrTrip, Moves
<1>5. CASE FailoverExhausted
  BY <1>5, ReconnectorMoves DEF FailoverExhausted, RetryOrTrip, Moves
<1>6. CASE ReconnectorStep
  BY <1>1, <1>4, <1>5, <1>6, ReconnectorMoves DEF ReconnectorStep, Moves
<1>7. CASE HandlerStep \/ ConnectAsked \/ DisconnectAsked \/ SelectAsked \/ RecoveryStarts
  BY <1>7, HandlerMoves DEF HandlerStep, Moves
<1>8. CASE UNCHANGED vars
  BY <1>1, <1>8 DEF vars
<1> QED
  BY <1>2, <1>3, <1>6, <1>7, <1>8 DEF Next

\* Between cycles the loop is at its first try, and the breaker is not lower.
LEMMA CycleOverTyped ==
    ASSUME cycle \in CycleRecord
    PROVE  /\ CycleOver \in CycleRecord /\ [CycleOver EXCEPT !.failed = TRUE] \in CycleRecord
           /\ ~CycleOver.failover /\ CycleOver.retries = 0
           /\ ~[CycleOver EXCEPT !.failed = TRUE].failover
           /\ [CycleOver EXCEPT !.failed = TRUE].retries = 0
           /\ CycleOver.running = cycle.running /\ CycleOver.failed = cycle.failed
           /\ [CycleOver EXCEPT !.failed = TRUE].running = cycle.running
           /\ [CycleOver EXCEPT !.failed = TRUE].failed
<1>1. 0 \in 0..BreakerThreshold
  BY ClientAssumption
<1> QED
  BY <1>1 DEF CycleOver, CycleRecord

\* The tail of the loop trips the breaker, or leaves a try.
LEMMA Retries ==
    ASSUME CallTyped, cycle \in CycleRecord, NEW n \in 0..BreakerThreshold,
           NEW c \in CycleRecord, ~c.failover, c.running = cycle.running,
           RetryOrTrip(n, c)
    PROVE  /\ cycle' \in CycleRecord
           /\ ~cycle'.failover /\ cycle'.retries < BreakerThreshold
           /\ cycle'.running = cycle.running
           /\ \/ cycle'.failed /\ Moves("reconnector", "trip")
              \/ Moves("reconnector", "connect")
<1>1. BreakerThreshold \in Nat \ {0}
  BY ClientAssumption
<1>2. CASE n >= BreakerThreshold
  <2> DEFINE over == [CycleOver EXCEPT !.failed = TRUE]
  <2>1. cycle' = over /\ Go("reconnector", "trip")
    BY <1>2 DEF RetryOrTrip
  <2>2. /\ over \in CycleRecord /\ ~over.failover /\ over.retries = 0 /\ over.failed
        /\ over.running = cycle.running
    BY CycleOverTyped
  <2>3. Moves("reconnector", "trip")
    BY <2>1, ReconnectorMoves
  <2> HIDE DEF over
  <2>4. over.retries < BreakerThreshold
    BY <1>1, <2>2
  <2> QED
    BY <2>1, <2>2, <2>3, <2>4, Zenon
<1>3. CASE ~(n >= BreakerThreshold)
  <2>1. cycle' = [c EXCEPT !.retries = n] /\ Go("reconnector", "connect")
    BY <1>3 DEF RetryOrTrip
  <2>2. n < BreakerThreshold
    BY <1>1, <1>3
  <2>3. /\ cycle' \in CycleRecord /\ cycle'.retries = n
        /\ cycle'.failover = c.failover /\ cycle'.running = c.running
    BY <2>1 DEF CycleRecord
  <2>4. Moves("reconnector", "connect")
    BY <2>1, ReconnectorMoves
  <2> QED
    BY <2>2, <2>3, <2>4
<1> QED
  BY <1>2, <1>3

\* What a failed Connect makes of the cycle: the failover, the breaker, or another round.
LEMMA Fails ==
    ASSUME CallTyped, DeskTyped, DeskInv, ConnectFailed
    PROVE  /\ cycle' \in CycleRecord
           /\ ~cycle'.failover => cycle'.retries < BreakerThreshold
           /\ cycle'.running = cycle.running
           /\ \/ cycle'.failover /\ cycle'.failed = cycle.failed /\ UNCHANGED call
              \/ cycle'.failed /\ ~cycle'.failover /\ Moves("reconnector", "trip")
              \/ ~cycle'.failover /\ Moves("reconnector", "connect")
<1> DEFINE n == cycle.retries + 1
<1>1. n \in 0..BreakerThreshold
  BY ClientAssumption DEF DeskTyped, CycleRecord, DeskInv, ConnectFailed
<1>2. CASE RetryOrTrip(n, cycle)
  <2> HIDE DEF n
  <2> QED
    BY <1>1, <1>2, Retries DEF DeskTyped, ConnectFailed
<1>3. CASE /\ cycle' = [cycle EXCEPT !.retries = n, !.attempted = TRUE,
                                     !.failover = TRUE, !.tried = {}]
           /\ UNCHANGED call
  <2> HIDE DEF n
  <2> QED
    BY <1>1, <1>3 DEF DeskTyped, CycleRecord
<1>4. \/ RetryOrTrip(n, cycle)
      \/ /\ cycle' = [cycle EXCEPT !.retries = n, !.attempted = TRUE,
                                   !.failover = TRUE, !.tried = {}]
         /\ UNCHANGED call
  BY DEF ConnectFailed
<1> QED
  BY <1>2, <1>3, <1>4

\* The next relay of a failover.
LEMMA Tries ==
    ASSUME DeskTyped, FailoverTries
    PROVE  /\ cycle' \in CycleRecord
           /\ cycle'.failover /\ cycle'.trying # None
           /\ cycle'.running = cycle.running /\ cycle'.failed = cycle.failed
<1>1. PICK r \in Relays :
        cycle' = [cycle EXCEPT !.trying = r, !.tried = cycle.tried \cup {r}]
  BY DEF FailoverTries
<1>2. cycle.failover
  BY DEF FailoverTries
<1>3. r # None
  BY ClientAssumption
<1>4. cycle.tried \cup {r} \in SUBSET Relays
  BY DEF DeskTyped, CycleRecord
<1> QED
  BY <1>1, <1>2, <1>3, <1>4 DEF DeskTyped, CycleRecord

LEMMA Exhausts ==
    ASSUME CallTyped, DeskTyped, FailoverExhausted
    PROVE  /\ cycle' \in CycleRecord
           /\ ~cycle'.failover /\ cycle'.retries < BreakerThreshold
           /\ cycle'.running = cycle.running
           /\ \/ cycle'.failed /\ Moves("reconnector", "trip")
              \/ Moves("reconnector", "connect")
<1> DEFINE over == [cycle EXCEPT !.failover = FALSE, !.trying = None, !.tried = {}]
<1>1. over \in CycleRecord /\ ~over.failover /\ over.running = cycle.running
  BY DEF DeskTyped, CycleRecord
<1>2. cycle.retries \in 0..BreakerThreshold
  BY DEF DeskTyped, CycleRecord
<1>3. RetryOrTrip(cycle.retries, over)
  BY DEF FailoverExhausted
<1> HIDE DEF over
<1> QED
  BY <1>1, <1>2, <1>3, Retries DEF DeskTyped
\* A step of the client's methods takes its caller from one of their steps, and
\* nobody else anywhere.
LEMMA ClientPlaces ==
    ASSUME LinkTyped, CallTyped, NEW c \in Callers, ClientStep(c)
    PROVE  /\ call[c].at \in ResetSteps \cup ConnectSteps
           /\ \A d \in Callers \ {c} : call'[d].at = call[d].at
<1>1. call[c].at \in ResetSteps \cup ConnectSteps
  BY DEF ClientStep, StopHeartbeat, SwapTransport, ClearQUIC, CloseOld, ConnectStarts,
         VerifySucceeds, VerifyFails, StartHeartbeat, ResetSteps, ConnectSteps
<1>2. SwapTransport(c) \/ ClearQUIC(c) \/ CloseOld(c) => \E where : At(c, where)
  BY SwapMoves, ClearMoves, CloseMoves DEF LinkTyped
<1>3. \E where : At(c, where)
  BY <1>2, ClientMoves DEF ClientStep, Moves
<1> QED
  BY <1>1, <1>3 DEF At

\* What keeps DeskInv when the desk itself stays.
LEMMA DeskStays ==
    ASSUME DeskTyped, DeskInv, UNCHANGED desk,
           \/ call'["reconnector"].at = call["reconnector"].at
           \/ call["reconnector"].at # "failed",
           call["handler"].at = "none" => call'["handler"].at = "none"
    PROVE  DeskTyped' /\ DeskInv'
<1>1. DeskTyped'
  BY DEF DeskTyped, desk
<1>2. UNCHANGED cycle /\ UNCHANGED asked
  BY DEF desk
<1>3. (~cycle.failover => cycle.retries < BreakerThreshold)'
  BY <1>2 DEF DeskInv
<1>4. (cycle.failover => cycle.trying # None \/ call["reconnector"].at = "failed")'
  BY <1>2 DEF DeskInv
<1>5. (call["handler"].at # "none" /\ asked.op = "select" => asked.relay # None)'
  BY <1>2 DEF DeskInv
<1> QED
  BY <1>1, <1>3, <1>4, <1>5 DEF DeskInv

\* A step of the Reconnector leaves the handler's part of the desk alone.
LEMMA ReconnectorKeepsAsked ==
    ASSUME CallTyped, DeskTyped, DeskInv, UNCHANGED asked,
           UNCHANGED call \/ \E where : Moves("reconnector", where)
    PROVE  /\ asked' \in [op : Requests \cup {None}, relay : Relays \cup {None}]
           /\ (call["handler"].at # "none" /\ asked.op = "select" => asked.relay # None)'
<1>1. call'["handler"].at = call["handler"].at
  BY DEF Moves, At, Callers
<1> QED
  BY <1>1 DEF DeskTyped, DeskInv

LEMMA DeskStep ==
    ASSUME LinkTyped, CallTyped, DeskTyped, DeskInv, [Next]_vars
    PROVE  DeskTyped' /\ DeskInv'
<1> DEFINE Asked == call["handler"].at # "none" /\ asked.op = "select" => asked.relay # None
           Trying == cycle.failover => cycle.trying # None \/ call["reconnector"].at = "failed"
           Left == ~cycle.failover => cycle.retries < BreakerThreshold
<1>1. ASSUME NEW c \in Callers, ClientStep(c)
      PROVE  DeskTyped' /\ DeskInv'
  <2>1. UNCHANGED desk
    BY <1>1 DEF ClientStep, StopHeartbeat, SwapTransport, ClearQUIC, CloseOld, ConnectStarts,
       VerifySucceeds, VerifyFails, StartHeartbeat
  <2>2. \/ call'["reconnector"].at = call["reconnector"].at
        \/ call["reconnector"].at # "failed"
    BY <1>1, ClientPlaces DEF Callers, ResetSteps, ConnectSteps
  <2>3. call["handler"].at = "none" => call'["handler"].at = "none"
    BY <1>1, ClientPlaces DEF Callers, ResetSteps, ConnectSteps
  <2> QED
    BY <2>1, <2>2, <2>3, DeskStays
<1>2. CASE UNCHANGED <<call, desk>>
  BY <1>2, DeskStays
<1>3. ASSUME NEW h \in Heartbeats, HeartbeatStep(h)
      PROVE  DeskTyped' /\ DeskInv'
  BY <1>2, <1>3
     DEF HeartbeatStep, Tick, ProbeSucceeds, ProbeFails, HeartbeatTrips, HeartbeatStops
<1>4. CASE NotificationIgnored
  BY <1>2, <1>4 DEF NotificationIgnored
<1>5. CASE CycleStarts
  <2>1. UNCHANGED desk /\ call["reconnector"].at # "failed"
    BY <1>5 DEF CycleStarts, Reconnecting
  <2>2. call'["handler"].at = call["handler"].at
    BY <1>5, ReconnectorMoves DEF Moves, At, Callers
  <2> QED
    BY <2>1, <2>2, DeskStays
<1>6. ASSUME cycle' = CycleOver, UNCHANGED asked, current' \in Relays,
             Moves("reconnector", "none")
      PROVE  DeskTyped' /\ DeskInv'
  <2>1. cycle' \in CycleRecord /\ ~cycle'.failover /\ cycle'.retries = 0
    BY <1>6, CycleOverTyped DEF DeskTyped
  <2>2. Asked' /\ asked' \in [op : Requests \cup {None}, relay : Relays \cup {None}]
    BY <1>6, ReconnectorKeepsAsked
  <2>3. Left'
    BY <2>1, ClientAssumption
  <2> QED
    BY <1>6, <2>1, <2>2, <2>3 DEF DeskTyped, DeskInv
<1>7. CASE CycleCancelled
  BY <1>6, <1>7, ReconnectorMoves DEF CycleCancelled, DeskTyped
<1>8. CASE CycleSucceeds
  <2>1. current' \in Relays
    BY <1>8 DEF CycleSucceeds, DeskTyped, DeskInv, CycleRecord, Reconnecting
  <2> QED
    BY <1>6, <1>8, <2>1, ReconnectorMoves DEF CycleSucceeds
<1>9. CASE ConnectFailed
  <2>1. /\ cycle' \in CycleRecord /\ Left'
        /\ \/ cycle'.failover /\ UNCHANGED call
           \/ cycle'.failed /\ ~cycle'.failover /\ Moves("reconnector", "trip")
           \/ ~cycle'.failover /\ Moves("reconnector", "connect")
    BY <1>9, Fails
  <2>2. UNCHANGED <<asked, current>> /\ call["reconnector"].at = "failed"
    BY <1>9 DEF ConnectFailed, Reconnecting
  <2>3. Asked' /\ asked' \in [op : Requests \cup {None}, relay : Relays \cup {None}]
    BY <2>1, <2>2, ReconnectorKeepsAsked
  <2>4. Trying'
    BY <2>1, <2>2, Zenon
  <2> QED
    BY <2>1, <2>2, <2>3, <2>4 DEF DeskTyped, DeskInv
<1>10. CASE FailoverTries
  <2>1. cycle' \in CycleRecord /\ cycle'.failover /\ cycle'.trying # None
    BY <1>10, Tries
  <2>2. Moves("reconnector", "connect") /\ UNCHANGED <<asked, current>>
    BY <1>10, ReconnectorMoves DEF FailoverTries
  <2>3. Asked' /\ asked' \in [op : Requests \cup {None}, relay : Relays \cup {None}]
    BY <2>2, ReconnectorKeepsAsked
  <2> QED
    BY <2>1, <2>2, <2>3 DEF DeskTyped, DeskInv
<1>11. CASE FailoverExhausted
  <2>1. /\ cycle' \in CycleRecord /\ ~cycle'.failover /\ Left'
        /\ \E where : Moves("reconnector", where)
    BY <1>11, Exhausts
  <2>2. UNCHANGED <<asked, current>>
    BY <1>11 DEF FailoverExhausted
  <2>3. Asked' /\ asked' \in [op : Requests \cup {None}, relay : Relays \cup {None}]
    BY <2>1, <2>2, ReconnectorKeepsAsked
  <2> QED
    BY <2>1, <2>2, <2>3 DEF DeskTyped, DeskInv
<1>12. ASSUME call'["reconnector"].at = call["reconnector"].at, current' \in Relays,
              Asked', asked' \in [op : Requests \cup {None}, relay : Relays \cup {None}],
              \/ UNCHANGED cycle
              \/ cycle' = [cycle EXCEPT !.failed = FALSE]
              \/ \E b \in BOOLEAN : cycle' = [cycle EXCEPT !.running = b]
       PROVE  DeskTyped' /\ DeskInv'
  <2>1. /\ cycle' \in CycleRecord
        /\ cycle'.failover = cycle.failover /\ cycle'.retries = cycle.retries
        /\ cycle'.trying = cycle.trying
    BY <1>12 DEF DeskTyped, CycleRecord
  <2>2. Left'
    BY <2>1 DEF DeskInv
  <2>3. Trying'
    BY <1>12, <2>1 DEF DeskInv
  <2> QED
    BY <1>12, <2>1, <2>2, <2>3 DEF DeskTyped, DeskInv
<1>13. ASSUME NEW where, Moves("handler", where) \/ Moves("watchdog", where)
       PROVE  call'["reconnector"].at = call["reconnector"].at
  BY <1>13 DEF Moves, At, Callers
<1>14. CASE ConnectAsked \/ DisconnectAsked
  <2>1. Moves("handler", "stop")
    BY <1>14, HandlerMoves
  <2>2. asked'.op # "select" /\ asked' \in [op : Requests \cup {None}, relay : Relays \cup {None}]
    BY <1>14 DEF ConnectAsked, DisconnectAsked, MayAsk
  <2>3. UNCHANGED cycle \/ cycle' = [cycle EXCEPT !.failed = FALSE]
    BY <1>14 DEF ConnectAsked, DisconnectAsked
  <2>4. current' \in Relays
    BY <1>14 DEF ConnectAsked, DisconnectAsked, DeskTyped
  <2> QED
    BY <1>12, <1>13, <2>1, <2>2, <2>3, <2>4
<1>15. CASE SelectAsked
  <2>1. Moves("handler", "reconfigure")
    BY <1>15, HandlerMoves
  <2>2. PICK r \in Relays : asked' = [op |-> "select", relay |-> r]
    BY <1>15 DEF SelectAsked
  <2>3. "select" \in Requests /\ UNCHANGED <<cycle, current>>
    BY <1>15 DEF SelectAsked, MayAsk
  <2>4. Asked' /\ asked' \in [op : Requests \cup {None}, relay : Relays \cup {None}]
    BY <2>2, <2>3, ClientAssumption
  <2>5. current' \in Relays
    BY <2>3 DEF DeskTyped
  <2> QED
    BY <1>12, <1>13, <2>1, <2>3, <2>4, <2>5
<1>16. ASSUME UNCHANGED asked, call["handler"].at # "none"
       PROVE  Asked' /\ asked' \in [op : Requests \cup {None}, relay : Relays \cup {None}]
  BY <1>16 DEF DeskTyped, DeskInv
<1>17. ASSUME Done, Moves("handler", "none")
       PROVE  Asked' /\ asked' \in [op : Requests \cup {None}, relay : Relays \cup {None}]
  BY <1>17 DEF Done, Moves, At
<1>18. current \in Relays
  BY DEF DeskTyped
<1>19. CASE Reconfigured
  <2>1. UNCHANGED <<cycle, current>>
    BY <1>19 DEF Reconfigured
  <2>2. CASE UNCHANGED asked /\ Moves("handler", "stop")
    <3>1. call["handler"].at # "none"
      BY <1>19 DEF Reconfigured, Handling
    <3> QED
      BY <1>12, <1>13, <1>16, <1>18, <2>1, <2>2, <3>1
  <2>3. CASE Done
    <3>1. Moves("handler", "none")
      BY <2>3, GoMoves DEF Done, Moves, Callers, Places
    <3> QED
      BY <1>12, <1>13, <1>17, <1>18, <2>1, <2>3, <3>1
  <2>4. (UNCHANGED asked /\ Moves("handler", "stop")) \/ Done
    BY <1>19, GoMoves DEF Reconfigured, Moves, Callers, Places, HandlerSteps
  <2> QED
    BY <2>2, <2>3, <2>4
<1>20. CASE StopReconnector
  <2>1. call["handler"].at # "none" /\ UNCHANGED <<asked, current>>
    BY <1>20 DEF StopReconnector, Handling
  <2>2. cycle' = [cycle EXCEPT !.running = FALSE] /\ FALSE \in BOOLEAN
    BY <1>20 DEF StopReconnector
  <2>3. Moves("handler", "stopping")
    BY <1>20, HandlerMoves
  <2> QED
    BY <1>12, <1>13, <1>16, <1>18, <2>1, <2>2, <2>3
<1>21. CASE ReconnectorStopped
  <2>1. call["handler"].at # "none" /\ UNCHANGED <<cycle, asked, current>>
    BY <1>21 DEF ReconnectorStopped, Handling, desk
  <2>2. \E where : Moves("handler", where)
    BY <1>21, HandlerMoves
  <2> QED
    BY <1>12, <1>13, <1>16, <1>18, <2>1, <2>2
<1>22. CASE Disconnected
  <2>1. Done /\ UNCHANGED <<cycle, current>>
    BY <1>22 DEF Disconnected
  <2>2. Moves("handler", "none")
    BY <1>22, HandlerMoves
  <2> QED
    BY <1>12, <1>13, <1>17, <1>18, <2>1, <2>2
<1>23. CASE Answered
  <2>1. Done /\ cycle' = [cycle EXCEPT !.running = TRUE] /\ TRUE \in BOOLEAN
    BY <1>23 DEF Answered
  <2>2. Moves("handler", "none")
    BY <1>23, HandlerMoves
  <2>3. call["handler"].at # "none"
    BY <1>23 DEF Answered, Handling
  <2>4. current' \in Relays
    BY <1>23, <2>3 DEF Answered, DeskTyped, DeskInv
  <2> QED
    BY <1>12, <1>13, <1>17, <2>1, <2>2, <2>4
<1>24. CASE RecoveryStarts
  <2>1. UNCHANGED desk
    BY <1>24 DEF RecoveryStarts
  <2>2. /\ call'["reconnector"].at = call["reconnector"].at
        /\ call'["handler"].at = call["handler"].at
    BY <1>24, HandlerMoves DEF Moves, At, Callers
  <2> QED
    BY <2>1, <2>2, DeskStays
<1>25. CASE UNCHANGED vars
  BY <1>2, <1>25 DEF vars
<1>26. CASE BreakerTrips
  <2>1. UNCHANGED desk /\ call["reconnector"].at # "failed"
    BY <1>26 DEF BreakerTrips, Reconnecting
  <2>2. call'["handler"].at = call["handler"].at
    BY <1>26, ReconnectorMoves DEF Moves, At, Callers
  <2> QED
    BY <2>1, <2>2, DeskStays
<1> QED
  BY <1>1, <1>3, <1>4, <1>5, <1>7, <1>8, <1>9, <1>10, <1>11, <1>14, <1>15, <1>19, <1>20,
     <1>21, <1>22, <1>23, <1>24, <1>25, <1>26 DEF Next, ReconnectorStep, HandlerStep

----------------------------------------------------------------------------
(* Open transports have an owner.                                          *)

\* A step that leaves the link, up to a dial, and everybody's hands.
LEMMA LinkStays ==
    ASSUME LinkTyped, HandsInv, HandsKept, UNCHANGED <<transport, sni>>,
           UNCHANGED <<quicTransport, open>> \/ Dial,
           \A d \in Callers : \/ call'[d].at = call[d].at
                              \/ call[d].at \notin {"clear", "close"}
    PROVE  HandsInv'
<1>1. {t \in Transports : sni'[t] # None}
        \subseteq {transport'} \cup {call'[c].old : c \in Callers}
  BY DEF HandsInv, NothingLeaks, HandsKept
<1>2. open' \subseteq {quicTransport'} \cup {call'[c].oldQUIC : c \in Callers}
  <2>1. {call'[c].oldQUIC : c \in Callers} = {call[c].oldQUIC : c \in Callers}
    BY DEF HandsKept
  <2>2. open \subseteq {quicTransport} \cup {call[c].oldQUIC : c \in Callers}
    BY DEF HandsInv, NothingLeaks
  <2>3. None \notin open
    BY ClientAssumption DEF LinkTyped
  <2>4. \/ UNCHANGED <<quicTransport, open>>
        \/ quicTransport = None /\ open' = open \cup {quicTransport'}
    BY Dials
  <2> QED
    BY <2>1, <2>2, <2>3, <2>4
<1>3. ASSUME NEW c \in Callers
      PROVE  /\ call'[c].at \notin {"clear", "close"} => call'[c].old = None
             /\ call'[c].at # "close" => call'[c].oldQUIC = None
  BY DEF HandsInv, HandsKept
<1> QED
  BY <1>1, <1>2, <1>3 DEF HandsInv, NothingLeaks

\* The steps that leave the callers where they hold nothing, or nothing moves.
LEMMA MovesHands ==
    ASSUME NEW c \in Callers, NEW where, Moves(c, where), call[c].at \notin {"clear", "close"}
    PROVE  /\ HandsKept
           /\ \A d \in Callers : \/ call'[d].at = call[d].at
                                 \/ call[d].at \notin {"clear", "close"}
BY DEF Moves, At

LEMMA HandsStep ==
    ASSUME LinkTyped, CallTyped, DeskTyped, DeskInv, HandsInv, [Next]_vars
    PROVE  HandsInv'
<1>1. CASE UNCHANGED <<call, transport, sni>> /\ (UNCHANGED <<quicTransport, open>> \/ Dial)
  BY <1>1, LinkStays DEF HandsKept
<1>2. ASSUME NEW c \in Callers, NEW where, Moves(c, where),
             call[c].at \notin {"clear", "close"}, UNCHANGED <<transport, sni>>,
             UNCHANGED <<quicTransport, open>> \/ Dial
      PROVE  HandsInv'
  BY <1>2, LinkStays, MovesHands
<1>3. ASSUME NEW c \in Callers, SwapTransport(c)
      PROVE  HandsInv'
  <2>1. /\ At(c, "clear")
        /\ call'[c].old = transport /\ call'[c].oldQUIC = call[c].oldQUIC
        /\ \A d \in Callers \ {c} : call'[d] = call[d]
    BY <1>3, SwapMoves DEF LinkTyped
  <2>2. transport' \in Transports /\ sni' = [sni EXCEPT ![transport'] = relay]
    BY <1>3, Swaps
  <2>3. call[c].at = "swap" /\ UNCHANGED <<quicTransport, open>>
    BY <1>3 DEF SwapTransport
  <2>4. call[c].old = None /\ call[c].oldQUIC = None
    BY <2>3 DEF HandsInv
  <2>5. ASSUME NEW t \in Transports, sni'[t] # None
        PROVE  t \in {transport'} \cup {call'[d].old : d \in Callers}
    <3>1. CASE t = transport'
      BY <3>1
    <3>2. CASE t # transport'
      <4>1. sni[t] # None
        BY <2>2, <2>5, <3>2 DEF LinkTyped
      <4>2. t = transport \/ \E d \in Callers : t = call[d].old
        BY <4>1 DEF HandsInv, NothingLeaks
      <4>3. t # None
        BY ClientAssumption
      <4> QED
        BY <2>1, <2>4, <4>2, <4>3
    <3> QED
      BY <3>1, <3>2
  <2>6. ASSUME NEW q \in open'
        PROVE  q \in {quicTransport'} \cup {call'[d].oldQUIC : d \in Callers}
    <3>1. q = quicTransport \/ \E d \in Callers : q = call[d].oldQUIC
      BY <2>3, <2>6 DEF HandsInv, NothingLeaks
    <3>2. \A d \in Callers : call'[d].oldQUIC = call[d].oldQUIC
      BY <2>1
    <3> QED
      BY <2>3, <3>1, <3>2
  <2>7. ASSUME NEW d \in Callers
        PROVE  /\ call'[d].at \notin {"clear", "close"} => call'[d].old = None
               /\ call'[d].at # "close" => call'[d].oldQUIC = None
    BY <2>1, <2>4 DEF HandsInv, At
  <2> QED
    BY <2>5, <2>6, <2>7 DEF HandsInv, NothingLeaks
<1>4. ASSUME NEW c \in Callers, ClearQUIC(c)
      PROVE  HandsInv'
  <2>1. /\ At(c, "close")
        /\ call'[c].oldQUIC = quicTransport /\ call'[c].old = call[c].old
        /\ \A d \in Callers \ {c} : call'[d] = call[d]
    BY <1>4, ClearMoves DEF LinkTyped
  <2>2. /\ call[c].at = "clear" /\ UNCHANGED <<transport, sni, open>>
        /\ quicTransport' = None
    BY <1>4 DEF ClearQUIC
  <2>3. call[c].oldQUIC = None
    BY <2>2 DEF HandsInv
  <2>4. ASSUME NEW t \in Transports, sni'[t] # None
        PROVE  t \in {transport'} \cup {call'[d].old : d \in Callers}
    <3>1. \A d \in Callers : call'[d].old = call[d].old
      BY <2>1
    <3>2. t = transport \/ \E d \in Callers : t = call[d].old
      BY <2>2, <2>4 DEF HandsInv, NothingLeaks
    <3> QED
      BY <2>2, <3>1, <3>2
  <2>5. ASSUME NEW q \in open'
        PROVE  q \in {quicTransport'} \cup {call'[d].oldQUIC : d \in Callers}
    <3>1. q = quicTransport \/ \E d \in Callers : q = call[d].oldQUIC
      BY <2>2, <2>5 DEF HandsInv, NothingLeaks
    <3>2. q # None
      BY <2>2, <2>5, ClientAssumption DEF LinkTyped
    <3> QED
      BY <2>1, <2>3, <3>1, <3>2
  <2>6. ASSUME NEW d \in Callers
        PROVE  /\ call'[d].at \notin {"clear", "close"} => call'[d].old = None
               /\ call'[d].at # "close" => call'[d].oldQUIC = None
    BY <2>1 DEF HandsInv, At
  <2> QED
    BY <2>4, <2>5, <2>6 DEF HandsInv, NothingLeaks
<1>5. ASSUME NEW c \in Callers, CloseOld(c)
      PROVE  HandsInv'
  <2>1. /\ \A d \in Callers \ {c} : call'[d].at = call[d].at
        /\ call'[c].old = None /\ call'[c].oldQUIC = None
        /\ \A d \in Callers \ {c} :
             call'[d].old = call[d].old /\ call'[d].oldQUIC = call[d].oldQUIC
    BY <1>5, CloseMoves DEF At
  <2>2. /\ sni' = [sni EXCEPT ![call[c].old] = None]
        /\ open' = open \ {call[c].oldQUIC}
        /\ UNCHANGED <<transport, quicTransport>>
    BY <1>5 DEF CloseOld
  <2>3. ASSUME NEW t \in Transports, sni'[t] # None
        PROVE  t \in {transport'} \cup {call'[d].old : d \in Callers}
    <3>1. sni[t] # None /\ t # call[c].old
      BY <2>2, <2>3 DEF LinkTyped
    <3>2. t = transport \/ \E d \in Callers : t = call[d].old
      BY <3>1 DEF HandsInv, NothingLeaks
    <3> QED
      BY <2>1, <2>2, <3>1, <3>2
  <2>4. ASSUME NEW q \in open'
        PROVE  q \in {quicTransport'} \cup {call'[d].oldQUIC : d \in Callers}
    <3>1. q \in open /\ q # call[c].oldQUIC
      BY <2>2, <2>4
    <3>2. q = quicTransport \/ \E d \in Callers : q = call[d].oldQUIC
      BY <3>1 DEF HandsInv, NothingLeaks
    <3> QED
      BY <2>1, <2>2, <3>1, <3>2
  <2>5. ASSUME NEW d \in Callers
        PROVE  /\ call'[d].at \notin {"clear", "close"} => call'[d].old = None
               /\ call'[d].at # "close" => call'[d].oldQUIC = None
    BY <2>1 DEF HandsInv
  <2> QED
    BY <2>3, <2>4, <2>5 DEF HandsInv, NothingLeaks
<1>6. ASSUME NEW c \in Callers, StopHeartbeat(c) \/ ConnectStarts(c) \/ VerifySucceeds(c)
                                \/ VerifyFails(c) \/ StartHeartbeat(c)
      PROVE  HandsInv'
  <2>1. /\ call[c].at \notin {"clear", "close"} /\ UNCHANGED <<transport, sni>>
        /\ UNCHANGED <<quicTransport, open>> \/ Dial
    BY <1>6 DEF StopHeartbeat, ConnectStarts, VerifySucceeds, VerifyFails, StartHeartbeat, link
  <2>2. \E where : Moves(c, where)
    BY <1>6, ClientMoves
  <2> QED
    BY <1>2, <2>1, <2>2
<1>7. ASSUME NEW c \in Callers, ClientStep(c)
      PROVE  HandsInv'
  BY <1>3, <1>4, <1>5, <1>6, <1>7 DEF ClientStep
<1>8. ASSUME NEW h \in Heartbeats, HeartbeatStep(h)
      PROVE  HandsInv'
  BY <1>1, <1>8
     DEF HeartbeatStep, Tick, ProbeSucceeds, ProbeFails, HeartbeatTrips, HeartbeatStops, link
<1>9. CASE ReconnectorStep
  <2>1. UNCHANGED <<transport, sni, quicTransport, open>>
    BY <1>9 DEF ReconnectorStep, NotificationIgnored, CycleStarts, CycleCancelled, CycleSucceeds,
       ConnectFailed, FailoverTries, FailoverExhausted, BreakerTrips, link
  <2>2. call["reconnector"].at \notin {"clear", "close"}
    BY <1>9 DEF ReconnectorStep, NotificationIgnored, CycleStarts, CycleCancelled, CycleSucceeds,
       ConnectFailed, FailoverTries, FailoverExhausted, BreakerTrips, Reconnecting
  <2>3. ConnectFailed => UNCHANGED call \/ \E where : Moves("reconnector", where)
    BY Fails
  <2>4. FailoverExhausted => \E where : Moves("reconnector", where)
    BY Exhausts
  <2>5. UNCHANGED call \/ \E where : Moves("reconnector", where)
    BY <1>9, <2>3, <2>4, ReconnectorMoves DEF ReconnectorStep
  <2> QED
    BY <1>1, <1>2, <2>1, <2>2, <2>5 DEF Callers
<1>10. CASE HandlerStep \/ ConnectAsked \/ DisconnectAsked \/ SelectAsked
  <2>1. UNCHANGED <<transport, sni, quicTransport, open>>
    BY <1>10 DEF HandlerStep, Reconfigured, StopReconnector, ReconnectorStopped, Disconnected,
       Answered, ConnectAsked, DisconnectAsked, SelectAsked, link
  <2>2. call["handler"].at \notin {"clear", "close"}
    BY <1>10 DEF HandlerStep, Reconfigured, StopReconnector, ReconnectorStopped, Disconnected,
       Answered, ConnectAsked, DisconnectAsked, SelectAsked, MayAsk, Handling
  <2>3. \E where : Moves("handler", where)
    BY <1>10, HandlerMoves DEF HandlerStep
  <2> QED
    BY <1>2, <2>1, <2>2, <2>3 DEF Callers
<1>11. CASE RecoveryStarts
  <2>1. UNCHANGED <<transport, sni, quicTransport, open>>
        /\ call["watchdog"].at \notin {"clear", "close"}
    BY <1>11 DEF RecoveryStarts, link
  <2>2. Moves("watchdog", "reset")
    BY <1>11, HandlerMoves
  <2> QED
    BY <1>2, <2>1, <2>2 DEF Callers
<1>12. CASE UNCHANGED vars
  BY <1>1, <1>12 DEF vars, link
<1> QED
  BY <1>7, <1>8, <1>9, <1>10, <1>11, <1>12 DEF Next

----------------------------------------------------------------------------

----------------------------------------------------------------------------
(* Losses have somebody to see to them.                                    *)

\* After a Set the state is what it wrote, and a loss is in the channel.
LEMMA SetLeaves ==
    ASSUME NEW s, Set(s)
    PROVE  state' = s /\ (s = "Disconnected" => losses' # {})
BY DEF Set

\* Past Stop, the handler finds the Reconnector stopped.
Stopped == call["handler"].at \notin {"none", "reconfigure", "stop"} => ~cycle.running

\* The breaker's hook runs while the flag is up, or a handler has taken it down and will connect.
TripExcused ==
    call["reconnector"].at = "trip" =>
        ~cycle.running \/ cycle.failed \/ call["handler"].at = "stop"

\* A caller that Sets the state accounts for it itself.
LEMMA SetKeepsLossInv ==
    ASSUME CallTyped, LossInv, NEW s \in {"Disconnected", "Connecting", "Connected"}, Set(s),
           Stopped', TripExcused', s = "Connecting" => \E c \in Callers : call'[c].at = "verify"
    PROVE  LossInv'
<1>1. state' = s /\ (s = "Disconnected" => losses' # {})
  BY SetLeaves
<1> QED
  BY <1>1 DEF LossInv, Stopped, TripExcused, Down

\* The steps of a caller that leave the state and the channel: who waited for an answer
\* waits on, and who was to reconnect goes on to do so.
LEMMA QuietKeepsLossInv ==
    ASSUME CallTyped, LossInv, UNCHANGED conn, NEW c \in Callers, NEW where, At(c, where),
           call[c].at # "verify", Stopped',
           cycle'.running = cycle.running,
           \/ cycle'.failed \/ cycle'.failed = cycle.failed
           \/ call'["reconnector"].at \in ResetSteps \cup {"connect"},
           c = "handler" => /\ call[c].at = "stop" => where = "stop" \/ ~cycle.running
                            /\ where \in {"verify", "beat", "connected", "failed"}
                                 => call[c].at \in {"verify", "beat", "connected", "failed"},
           c = "reconnector" => /\ \/ call[c].at \notin ResetSteps \cup {"connect"}
                                   \/ where \in ResetSteps \cup {"connect"}
                                /\ where = "trip" => cycle'.failed
    PROVE  LossInv'
<1> USE DEF LossInv, At, Callers, conn
<1>1. (state = "Connecting" => \E d \in Callers : call[d].at = "verify")'
  OBVIOUS
<1>2. ASSUME state' \in Down /\ losses' = {}
      PROVE  \/ ~cycle'.running \/ cycle'.failed
             \/ call'["reconnector"].at \in ResetSteps \cup {"connect"}
             \/ call'["handler"].at = "stop"
  <2>1. CASE ~cycle.running
    BY <2>1
  <2>2. CASE cycle.failed
    BY <2>2, Zenon
  <2>3. CASE call["reconnector"].at \in ResetSteps \cup {"connect"}
    BY <2>3
  <2>4. CASE call["handler"].at = "stop"
    BY <2>4
  <2> QED
    BY <1>2, <2>1, <2>2, <2>3, <2>4
<1>3. (call["handler"].at \in {"verify", "beat", "connected", "failed"}
          /\ state \in Down => losses # {})'
  OBVIOUS
<1>4. ASSUME call'["reconnector"].at = "trip"
      PROVE  ~cycle'.running \/ cycle'.failed \/ call'["handler"].at = "stop"
  <2>1. CASE call["reconnector"].at = "trip"
    <3>1. ~cycle.running \/ cycle.failed \/ call["handler"].at = "stop"
      BY <2>1
    <3>2. "trip" \notin ResetSteps \cup {"connect"}
      BY DEF ResetSteps
    <3>3. CASE cycle.failed
      BY <1>4, <3>2, <3>3, Zenon
    <3>4. CASE call["handler"].at = "stop"
      BY <3>4
    <3> QED
      BY <3>1, <3>3, <3>4
  <2>2. CASE call["reconnector"].at # "trip"
    BY <1>4, <2>2
  <2> QED
    BY <2>1, <2>2
<1> QED
  BY <1>1, <1>2, <1>3, <1>4 DEF Stopped

LEMMA ClientKeepsLossInv ==
    ASSUME LinkTyped, CallTyped, LossInv, NEW c \in Callers, ClientStep(c)
    PROVE  LossInv'
<1> USE DEF Callers
<1>1. UNCHANGED cycle
  BY DEF ClientStep, StopHeartbeat, SwapTransport, ClearQUIC, CloseOld, ConnectStarts,
     VerifySucceeds, VerifyFails, StartHeartbeat, desk
<1>2. Stopped'
  BY <1>1, ClientPlaces DEF Stopped, LossInv, ResetSteps, ConnectSteps
<1>0. ASSUME NEW where, where # "trip", At(c, where), call[c].at # "stop"
      PROVE  TripExcused'
  BY <1>0, <1>1 DEF TripExcused, LossInv, At
<1>3. CASE ConnectStarts(c)
  BY <1>0, <1>2, <1>3, ClientMoves, SetKeepsLossInv DEF ConnectStarts, Moves, At
<1>4. CASE VerifySucceeds(c) \/ VerifyFails(c)
  <2>1. call[c].at = "verify" /\ \E s \in {"Connected", "Disconnected"} : Set(s)
    BY <1>4 DEF VerifySucceeds, VerifyFails
  <2>2. \E where : where # "trip" /\ At(c, where)
    BY <1>4, ClientMoves DEF Moves, Returned
  <2> QED
    BY <1>0, <1>2, <2>1, <2>2, SetKeepsLossInv
<1>5. ASSUME UNCHANGED conn, NEW where, At(c, where), call[c].at # "verify", call[c].at # "stop",
             where \in {"verify", "beat", "connected", "failed"}
               => call[c].at \in {"verify", "beat", "connected", "failed"} \/ c # "handler",
             \/ call[c].at \notin ResetSteps \cup {"connect"} \/ c # "reconnector"
             \/ where \in ResetSteps \cup {"connect"},
             where # "trip"
      PROVE  LossInv'
  BY <1>1, <1>2, <1>5, QuietKeepsLossInv
<1>6. CASE StopHeartbeat(c)
  BY <1>5, <1>6, ClientMoves DEF StopHeartbeat, Moves, ResetSteps
<1>7. CASE SwapTransport(c)
  BY <1>5, <1>7, SwapMoves DEF SwapTransport, ResetSteps, LinkTyped
<1>8. CASE ClearQUIC(c)
  BY <1>5, <1>8, ClearMoves DEF ClearQUIC, ResetSteps, LinkTyped
<1>9. CASE CloseOld(c)
  <2>1. UNCHANGED conn /\ call[c].at = "close"
    BY <1>9 DEF CloseOld
  <2>2. CASE At(c, "disconnected") /\ c = "handler"
    BY <1>5, <2>1, <2>2
  <2>3. CASE At(c, "connect")
    BY <1>5, <2>1, <2>3
  <2> QED
    BY <1>9, <2>2, <2>3, CloseMoves
<1>10. CASE StartHeartbeat(c)
  <2>1. UNCHANGED conn /\ call[c].at = "beat"
    BY <1>10 DEF StartHeartbeat
  <2>2. At(c, Returned(c, "connected"))
    BY <1>10, ClientMoves DEF Moves
  <2> QED
    BY <1>5, <2>1, <2>2 DEF ResetSteps, Returned
<1> QED
  BY <1>3, <1>4, <1>6, <1>7, <1>8, <1>9, <1>10 DEF ClientStep

LEMMA ReconnectorKeepsLossInv ==
    ASSUME CallTyped, DeskTyped, DeskInv, LossInv, OneAtATime, ReconnectorStep
    PROVE  LossInv'
<1> USE DEF Callers
<1>1. ASSUME UNCHANGED conn, UNCHANGED call, cycle'.running = cycle.running,
             cycle'.failed = cycle.failed
      PROVE  LossInv'
  BY <1>1, Zenon DEF LossInv, conn
<1>2. ASSUME cycle'.running = cycle.running, NEW where, Moves("reconnector", where)
      PROVE  Stopped'
  BY <1>2 DEF Stopped, LossInv, Moves, At
<1>3. ASSUME UNCHANGED conn, NEW where, Moves("reconnector", where),
             call["reconnector"].at # "verify",
             cycle'.running = cycle.running,
             \/ cycle'.failed \/ cycle'.failed = cycle.failed
             \/ where \in ResetSteps \cup {"connect"},
             \/ call["reconnector"].at \notin ResetSteps \cup {"connect"}
             \/ where \in ResetSteps \cup {"connect"},
             where = "trip" => cycle'.failed
      PROVE  LossInv'
  <2>1. At("reconnector", where)
    BY <1>3 DEF Moves
  <2>2. call'["reconnector"].at = where
    BY <2>1 DEF At
  <2> QED
    BY <1>2, <1>3, <2>1, <2>2, QuietKeepsLossInv
<1>4. CASE NotificationIgnored
  <2>1. UNCHANGED <<state, call, cycle>> /\ cycle.running /\ cycle.failed
    BY <1>4 DEF NotificationIgnored, desk
  <2> QED
    BY <2>1 DEF LossInv
<1>5. CASE CycleStarts
  <2>1. /\ UNCHANGED <<state, cycle>> /\ cycle.running
        /\ call["reconnector"].at = "none"
    BY <1>5 DEF CycleStarts, desk, Reconnecting
  <2>2. At("reconnector", "reset")
    BY <1>5, ReconnectorMoves DEF Moves
  <2>3. call'["handler"].at = call["handler"].at
    BY <2>2 DEF At
  <2>4. call["handler"].at \in {"none", "reconfigure", "stop"}
    BY <2>1 DEF LossInv
  <2>5. (state = "Connecting" => \E d \in Callers : call[d].at = "verify")'
    BY <2>1, <2>2 DEF LossInv, At
  <2>6. call'["reconnector"].at \in ResetSteps /\ call'["reconnector"].at # "trip"
    BY <2>2 DEF At, ResetSteps
  <2> QED
    BY <2>3, <2>4, <2>5, <2>6 DEF LossInv
<1>6. CASE CycleCancelled
  <2>1. /\ UNCHANGED conn /\ ~cycle.running /\ cycle' = CycleOver
        /\ call["reconnector"].at # "verify"
    BY <1>6 DEF CycleCancelled, Reconnecting
  <2>2. At("reconnector", "none")
    BY <1>6, ReconnectorMoves DEF Moves
  <2>3. ~cycle'.running
    BY <2>1, CycleOverTyped DEF DeskTyped
  <2>4. call'["handler"].at = call["handler"].at
    BY <2>2 DEF At
  <2>5. (state = "Connecting" => \E d \in Callers : call[d].at = "verify")'
    BY <2>1, <2>2 DEF LossInv, At, conn
  <2> QED
    BY <2>1, <2>3, <2>4, <2>5 DEF LossInv, conn
<1>7. CASE CycleSucceeds
  <2>1. /\ UNCHANGED conn /\ cycle' = CycleOver
        /\ call["reconnector"].at \notin ResetSteps \cup {"connect", "verify"}
    BY <1>7 DEF CycleSucceeds, Reconnecting, ResetSteps
  <2>2. Moves("reconnector", "none")
    BY <1>7, ReconnectorMoves
  <2>3. cycle'.running = cycle.running /\ cycle'.failed = cycle.failed
    BY <2>1, CycleOverTyped DEF DeskTyped
  <2> QED
    BY <1>3, <2>1, <2>2, <2>3
<1>8. CASE ConnectFailed
  <2>1. /\ UNCHANGED conn
        /\ call["reconnector"].at \notin ResetSteps \cup {"connect", "verify"}
    BY <1>8 DEF ConnectFailed, Reconnecting, ResetSteps
  <2>2. /\ cycle'.running = cycle.running
        /\ \/ cycle'.failed = cycle.failed /\ UNCHANGED call
           \/ cycle'.failed /\ Moves("reconnector", "trip")
           \/ Moves("reconnector", "connect")
    BY <1>8, Fails
  <2>3. CASE cycle'.failed = cycle.failed /\ UNCHANGED call
    BY <1>1, <2>1, <2>2, <2>3
  <2>4. CASE cycle'.failed /\ Moves("reconnector", "trip")
    BY <1>3, <2>1, <2>2, <2>4
  <2>5. CASE Moves("reconnector", "connect")
    BY <1>3, <2>1, <2>2, <2>5
  <2> QED
    BY <2>2, <2>3, <2>4, <2>5
<1>9. CASE FailoverTries
  <2>1. /\ UNCHANGED conn
        /\ call["reconnector"].at \notin ResetSteps \cup {"connect", "verify"}
    BY <1>9 DEF FailoverTries, Reconnecting, ResetSteps
  <2>2. cycle'.running = cycle.running /\ Moves("reconnector", "connect")
    BY <1>9, Tries, ReconnectorMoves
  <2> QED
    BY <1>3, <2>1, <2>2
<1>10. CASE FailoverExhausted
  <2>1. /\ UNCHANGED conn
        /\ call["reconnector"].at \notin ResetSteps \cup {"connect", "verify"}
    BY <1>10 DEF FailoverExhausted, Reconnecting, ResetSteps
  <2>2. /\ cycle'.running = cycle.running
        /\ \/ cycle'.failed /\ Moves("reconnector", "trip")
           \/ Moves("reconnector", "connect")
    BY <1>10, Exhausts
  <2>3. CASE cycle'.failed /\ Moves("reconnector", "trip")
    BY <1>3, <2>1, <2>2, <2>3
  <2>4. CASE Moves("reconnector", "connect")
    BY <1>3, <2>1, <2>2, <2>4
  <2> QED
    BY <2>2, <2>3, <2>4
<1>11. CASE BreakerTrips
  <2>1. /\ state' = "Failed" /\ UNCHANGED cycle /\ call["reconnector"].at = "trip"
        /\ call["handler"].at \in {"none", "reconfigure", "stop", "stopping"}
    BY <1>11 DEF BreakerTrips, Set, desk, Reconnecting, OneAtATime
  <2>2. At("reconnector", "none")
    BY <1>11, ReconnectorMoves DEF Moves
  <2>3. /\ call'["handler"].at = call["handler"].at
        /\ call'["reconnector"].at = "none"
    BY <2>2 DEF At
  <2> QED
    BY <2>1, <2>3 DEF LossInv
<1> QED
  BY <1>4, <1>5, <1>6, <1>7, <1>8, <1>9, <1>10, <1>11 DEF ReconnectorStep

\* The handler starts the Reconnector again with the loss that Disconnect sent, or that
\* its own Connect did, in the channel.
LEMMA HandlerKeepsLossInv ==
    ASSUME CallTyped, DeskTyped, LossInv, OneAtATime,
           HandlerStep \/ ConnectAsked \/ DisconnectAsked \/ SelectAsked \/ RecoveryStarts
    PROVE  LossInv'
<1> USE DEF Callers
<1>1. ASSUME UNCHANGED <<conn, cycle>>, NEW where, Moves("handler", where),
             call["handler"].at \notin {"verify", "stop"},
             where \notin {"verify", "beat", "connected", "failed"},
             where \in {"none", "reconfigure", "stop"}
      PROVE  LossInv'
  <2>1. At("handler", where)
    BY <1>1 DEF Moves
  <2>2. Stopped'
    BY <1>1, <2>1 DEF Stopped, At
  <2> QED
    BY <1>1, <2>1, <2>2, QuietKeepsLossInv
<1>2. CASE ConnectAsked
  <2>1. /\ UNCHANGED conn /\ call["handler"].at = "none"
        /\ cycle' = [cycle EXCEPT !.failed = FALSE]
    BY <1>2 DEF ConnectAsked, MayAsk, Handling
  <2>2. At("handler", "stop")
    BY <1>2, HandlerMoves DEF Moves
  <2>3. call'["handler"].at = "stop"
    BY <2>2 DEF At
  <2>4. (state = "Connecting" => \E d \in Callers : call[d].at = "verify")'
    BY <2>1, <2>2 DEF LossInv, At, conn
  <2> QED
    BY <2>3, <2>4 DEF LossInv
<1>3. CASE DisconnectAsked
  <2>1. UNCHANGED <<conn, cycle>> /\ call["handler"].at = "none"
    BY <1>3 DEF DisconnectAsked, MayAsk, Handling
  <2> QED
    BY <1>1, <1>3, <2>1, HandlerMoves
<1>4. CASE SelectAsked
  <2>1. UNCHANGED <<conn, cycle>> /\ call["handler"].at = "none"
    BY <1>4 DEF SelectAsked, MayAsk, Handling
  <2> QED
    BY <1>1, <1>4, <2>1, HandlerMoves
<1>5. CASE Reconfigured
  <2>1. UNCHANGED <<conn, cycle>> /\ call["handler"].at = "reconfigure"
    BY <1>5 DEF Reconfigured, Handling
  <2>2. Moves("handler", "stop") \/ Moves("handler", "none")
    BY <1>5, HandlerMoves
  <2> QED
    BY <1>1, <2>1, <2>2
<1>6. CASE StopReconnector
  <2>1. /\ UNCHANGED conn /\ call["handler"].at = "stop"
        /\ cycle' = [cycle EXCEPT !.running = FALSE]
    BY <1>6 DEF StopReconnector, Handling
  <2>2. At("handler", "stopping")
    BY <1>6, HandlerMoves DEF Moves
  <2>3. ~cycle'.running
    BY <2>1 DEF DeskTyped, CycleRecord
  <2>4. call'["handler"].at = "stopping"
    BY <2>2 DEF At
  <2>5. (state = "Connecting" => \E d \in Callers : call[d].at = "verify")'
    BY <2>1, <2>2 DEF LossInv, At, conn
  <2> QED
    BY <2>3, <2>4, <2>5 DEF LossInv
<1>7. CASE ReconnectorStopped
  <2>1. UNCHANGED cycle /\ call["handler"].at = "stopping"
    BY <1>7 DEF ReconnectorStopped, Handling, desk
  <2>2. ~cycle.running /\ Stopped'
    BY <2>1 DEF Stopped, LossInv
  <2>3. CASE asked.op = "connect"
    <3>1. UNCHANGED conn
      BY <1>7, <2>3 DEF ReconnectorStopped
    <3>2. At("handler", "connect")
      BY <1>7, <2>3, HandlerMoves DEF Moves
    <3> QED
      BY <2>1, <2>2, <3>1, <3>2, QuietKeepsLossInv
  <2>4. CASE asked.op # "connect"
    <3>1. Set("Disconnected")
      BY <1>7, <2>4 DEF ReconnectorStopped
    <3>2. TripExcused'
      BY <2>1, <2>2 DEF TripExcused
    <3> QED
      BY <2>2, <3>1, <3>2, SetKeepsLossInv
  <2> QED
    BY <2>3, <2>4
<1>8. CASE Disconnected
  <2>1. UNCHANGED <<conn, cycle>> /\ call["handler"].at = "disconnected"
    BY <1>8 DEF Disconnected, Handling
  <2> QED
    BY <1>1, <1>8, <2>1, HandlerMoves
<1>9. CASE Answered
  <2>1. UNCHANGED conn /\ call["handler"].at \in {"connected", "failed"}
    BY <1>9 DEF Answered, Handling
  <2>2. At("handler", "none")
    BY <1>9, HandlerMoves DEF Moves
  <2>3. call'["handler"].at = "none"
    BY <2>2 DEF At
  <2>4. (state = "Connecting" => \E d \in Callers : call[d].at = "verify")'
    BY <2>1, <2>2 DEF LossInv, At, conn
  <2>5. state' \in Down => losses' # {}
    BY <2>1 DEF LossInv, conn
  <2>6. call'["reconnector"].at = "none"
    BY <2>1, <2>2 DEF At, OneAtATime
  <2> QED
    BY <2>3, <2>4, <2>5, <2>6 DEF LossInv
<1>10. CASE RecoveryStarts
  <2>1. UNCHANGED <<conn, cycle>> /\ call["watchdog"].at = "none"
    BY <1>10 DEF RecoveryStarts, desk
  <2>2. At("watchdog", "reset")
    BY <1>10, HandlerMoves DEF Moves
  <2>3. Stopped'
    BY <2>1, <2>2 DEF Stopped, LossInv, At
  <2> QED
    BY <2>1, <2>2, <2>3, QuietKeepsLossInv
<1> QED
  BY <1>2, <1>3, <1>4, <1>5, <1>6, <1>7, <1>8, <1>9, <1>10 DEF HandlerStep

LEMMA LossStep ==
    ASSUME LinkTyped, CallTyped, DeskTyped, DeskInv, LossInv, OneAtATime, [Next]_vars
    PROVE  LossInv'
<1>1. CASE UNCHANGED <<conn, call, cycle>>
  BY <1>1 DEF LossInv, conn
<1>2. ASSUME NEW h \in Heartbeats, HeartbeatStep(h)
      PROVE  LossInv'
  <2>1. UNCHANGED call /\ UNCHANGED cycle
    BY <1>2 DEF HeartbeatStep, Tick, ProbeSucceeds, ProbeFails, HeartbeatTrips, HeartbeatStops,
       desk
  <2>2. CASE HeartbeatTrips(h)
    <3>1. Set("Disconnected") /\ Stopped' /\ TripExcused'
      BY <2>1, <2>2 DEF HeartbeatTrips, Stopped, TripExcused, LossInv
    <3> QED
      BY <3>1, SetKeepsLossInv
  <2>3. CASE UNCHANGED conn
    BY <1>1, <2>1, <2>3
  <2> QED
    BY <1>2, <2>2, <2>3 DEF HeartbeatStep, Tick, ProbeSucceeds, ProbeFails, HeartbeatStops
<1>3. CASE UNCHANGED vars
  BY <1>1, <1>3 DEF vars, desk
<1> QED
  BY <1>2, <1>3, ClientKeepsLossInv, ReconnectorKeepsLossInv, HandlerKeepsLossInv DEF Next

\* The Reconnector begins a cycle only while it runs, and no handler is past Stop before its
\* cycle has ended.
LEMMA OneAtATimeStep ==
    ASSUME LinkTyped, CallTyped, DeskTyped, DeskInv, LossInv, OneAtATime, [Next]_vars
    PROVE  OneAtATime'
<1> USE DEF Callers, OneAtATime
<1> DEFINE Early == {"none", "reconfigure", "stop", "stopping"}
<1>1. CASE UNCHANGED call
  BY <1>1
<1>2. ASSUME NEW c \in Callers, ClientStep(c)
      PROVE  OneAtATime'
  <2>1. /\ call[c].at \in ResetSteps \cup ConnectSteps
        /\ \A d \in Callers \ {c} : call'[d].at = call[d].at
    BY <1>2, ClientPlaces
  <2>2. CASE c = "handler"
    <3>1. call["reconnector"].at = "none"
      BY <2>1, <2>2 DEF ResetSteps, ConnectSteps
    <3> QED
      BY <2>1, <2>2, <3>1
  <2>3. CASE c # "handler"
    BY <2>1, <2>3 DEF ResetSteps, ConnectSteps
  <2> QED
    BY <2>2, <2>3
<1>3. CASE ReconnectorStep
  <2>1. CASE CycleStarts
    <3>1. call["handler"].at \in Early
      BY <2>1 DEF CycleStarts, LossInv
    <3> QED
      BY <2>1, <3>1, ReconnectorMoves DEF Moves, At
  <2>2. CASE ReconnectorStep /\ ~CycleStarts
    <3>1. \/ UNCHANGED call
          \/ /\ call["reconnector"].at # "none"
             /\ \E where \in {"none", "connect", "trip"} : Moves("reconnector", where)
      <4>1. CASE NotificationIgnored
        BY <4>1 DEF NotificationIgnored
      <4>2. CASE CycleCancelled \/ CycleSucceeds \/ FailoverTries \/ BreakerTrips
        BY <4>2, ReconnectorMoves
           DEF CycleCancelled, CycleSucceeds, FailoverTries, BreakerTrips, Reconnecting
      <4>3. CASE ConnectFailed
        BY <4>3, Fails DEF ConnectFailed, Reconnecting
      <4>4. CASE FailoverExhausted
        BY <4>4, Exhausts DEF FailoverExhausted, Reconnecting
      <4> QED
        BY <2>2, <4>1, <4>2, <4>3, <4>4 DEF ReconnectorStep
    <3>2. CASE UNCHANGED call
      BY <1>1, <3>2
    <3>3. ASSUME call["reconnector"].at # "none", NEW where, Moves("reconnector", where)
          PROVE  OneAtATime'
      BY <3>3 DEF Moves, At
    <3> QED
      BY <3>1, <3>2, <3>3
  <2> QED
    BY <1>3, <2>1, <2>2
<1>4. CASE HandlerStep \/ ConnectAsked \/ DisconnectAsked \/ SelectAsked \/ RecoveryStarts
  <2>1. ASSUME NEW where, Moves("handler", where),
               where \in Early \/ call["reconnector"].at = "none"
        PROVE  OneAtATime'
    BY <2>1 DEF Moves, At
  <2>2. CASE ReconnectorStopped
    <3>1. call["reconnector"].at = "none"
      BY <2>2 DEF ReconnectorStopped, Reconnecting
    <3> QED
      BY <2>1, <2>2, <3>1, HandlerMoves
  <2>3. CASE RecoveryStarts
    BY <2>3, HandlerMoves DEF Moves, At
  <2> QED
    BY <1>4, <2>1, <2>2, <2>3, HandlerMoves DEF HandlerStep
<1>5. ASSUME NEW h \in Heartbeats, HeartbeatStep(h)
      PROVE  OneAtATime'
  BY <1>1, <1>5
     DEF HeartbeatStep, Tick, ProbeSucceeds, ProbeFails, HeartbeatTrips, HeartbeatStops
<1>6. CASE UNCHANGED vars
  BY <1>1, <1>6 DEF vars
<1> QED
  BY <1>2, <1>3, <1>4, <1>5, <1>6 DEF Next

----------------------------------------------------------------------------
(* The theorems.                                                           *)

LEMMA EventsStep ==
    ASSUME events \in 0..MaxEvents, [Next]_vars
    PROVE  events' \in 0..MaxEvents
<1>1. MaxEvents \in Nat
  BY ClientAssumption
<1>2. UNCHANGED events \/ (events < MaxEvents /\ events' = events + 1)
  BY DEF Next, ClientStep, StopHeartbeat, SwapTransport, ClearQUIC, CloseOld, ConnectStarts,
     VerifySucceeds, VerifyFails, StartHeartbeat, HeartbeatStep, Tick, ProbeSucceeds,
     ProbeFails, HeartbeatTrips, HeartbeatStops, ReconnectorStep, NotificationIgnored,
     CycleStarts, CycleCancelled, CycleSucceeds, ConnectFailed, FailoverTries,
     FailoverExhausted, BreakerTrips, HandlerStep, Reconfigured, StopReconnector, ReconnectorStopped,
     Disconnected, Answered, ConnectAsked, DisconnectAsked, SelectAsked, MayAsk,
     RecoveryStarts, vars
<1> QED
  BY <1>1, <1>2

LEMMA InitIInv ==
    ASSUME Init
    PROVE  IInv
<1>1. /\ First(Relays) \in Relays /\ First(Transports) \in Transports
      /\ First(QUICTransports) \in QUICTransports
  BY ClientAssumption, FirstIsIn
<1>2. LinkTyped /\ ConnTyped
  BY <1>1 DEF Init, LinkTyped, ConnTyped
<1>3. NoRequest \in RequestRecord /\ "none" \in Places
  BY DEF NoRequest, RequestRecord, Places
<1>4. CallTyped /\ \A c \in Callers : /\ call[c].at = "none" /\ call[c].old = None
                                      /\ call[c].oldQUIC = None
  BY <1>3 DEF Init, CallTyped, CallRecord
<1>5. /\ cycle \in CycleRecord /\ ~cycle.failover /\ cycle.retries = 0
      /\ 0 < BreakerThreshold /\ events \in 0..MaxEvents
  BY ClientAssumption DEF Init, CycleRecord
<1>6. DeskTyped /\ DeskInv
  BY <1>1, <1>4, <1>5 DEF Init, DeskTyped, DeskInv, Callers
<1>7. HandsInv
  BY <1>1, <1>4 DEF Init, HandsInv, NothingLeaks
<1>8. LossInv /\ OneAtATime
  BY <1>4 DEF Init, LossInv, OneAtATime, Down, Callers
<1> QED
  BY <1>2, <1>4, <1>5, <1>6, <1>7, <1>8, HeartsInit DEF IInv

LEMMA NextIInv ==
    ASSUME IInv, [Next]_vars
    PROVE  IInv'
BY HeartsStep, LinkStep, ConnStep, CallStep, DeskStep, HandsStep, LossStep, OneAtATimeStep,
   EventsStep DEF IInv

LEMMA Invariant == Spec => []IInv
BY InitIInv, NextIInv, PTL DEF Spec

\* The variables keep their types: in particular the relay that CycleSucceeds and
\* Answered store is one, and the loop never counts past the breaker's threshold.
THEOREM TypeCorrect == Spec => []TypeOK
<1>1. IInv => TypeOK
  BY DEF IInv, HeartInv, HeartsTyped, LinkTyped, ConnTyped, CallTyped, DeskTyped, TypeOK,
     CallRecord, CycleRecord, RequestRecord, Places
<1> QED
  BY <1>1, Invariant, PTL

\* No transport is forgotten open, whichever of the three callers reset at once.
THEOREM TransportsAreOwned == Spec => []NothingLeaks
<1>1. IInv => NothingLeaks
  BY DEF IInv, HandsInv
<1> QED
  BY <1>1, Invariant, PTL

\* A tunnel that is down, with nobody at work on it, has a loss in the channel for the
\* Reconnector to find, unless the user stopped it or its breaker is open.
THEOREM LossIsSeenTo == Spec => []NeverAbandoned
<1>1. IInv => NeverAbandoned
  <2>1. IInv => state \in {"Connecting", "Connected"} \cup Down
    BY DEF IInv, ConnTyped, Down
  <2> QED
    BY <2>1 DEF IInv, LossInv, NeverAbandoned, Callers, ResetSteps
<1> QED
  BY <1>1, Invariant, PTL

----------------------------------------------------------------------------
(* Who watches over a tunnel that is up.                                   *)

\* heartbeatStop belongs to a heartbeat that has not been told to stop.
StopIsKept ==
    \A h \in Heartbeats : heartbeatStop = h => beat[h].at # "none" /\ ~beat[h].stopped

\* A connected tunnel without a heartbeat: somebody is about to start one, or to connect
\* anew, or the Reconnector is stopped and no handler is about to start it again.
WatchInv ==
    /\ StopIsKept
    /\ state = "Connected" /\ heartbeatStop = None =>
          \/ \E c \in Callers : call[c].at = "beat"
          \/ \E c \in {"reconnector", "watchdog"} :
                call[c].at \in {"swap", "clear", "close", "connect"}
          \/ ~cycle.running /\ call["handler"].at \notin {"verify", "connected", "failed"}

\* When nobody is at work on a tunnel that is up and the Reconnector runs, there is a
\* heartbeat that has not been told to stop and that stopHeartbeat would find: it probes, or
\* it has tripped (see the README).
ConnectedIsWatched ==
    state = "Connected" /\ cycle.running /\ (\A c \in Callers : call[c].at = "none") =>
        \E h \in Heartbeats : heartbeatStop = h /\ beat[h].at # "none" /\ ~beat[h].stopped

LEMMA HeartbeatKeepsStop ==
    ASSUME HeartInv, StopIsKept, NEW g \in Heartbeats, HeartbeatStep(g)
    PROVE  StopIsKept'
<1>1. UNCHANGED heartbeatStop
  BY DEF HeartbeatStep, Tick, ProbeSucceeds, ProbeFails, HeartbeatTrips, HeartbeatStops
<1>2. SUFFICES ASSUME NEW h \in Heartbeats, heartbeatStop = h
               PROVE  beat'[h].at # "none" /\ ~beat'[h].stopped
  BY <1>1 DEF StopIsKept
<1>3. beat[h].at # "none" /\ ~beat[h].stopped
  BY <1>2 DEF StopIsKept
<1>4. beat \in [Heartbeats -> [at : {"none", "waiting", "probing", "tripping", "tripped"},
                               stopped : BOOLEAN, fails : 0..MaxHeartbeatFailures]]
  BY DEF HeartInv, HeartsTyped
<1>5. CASE HeartbeatTrips(g)
  BY <1>2, <1>3, <1>4, <1>5 DEF HeartbeatTrips, Tripped
<1>6. CASE HeartbeatStops(g)
  BY <1>2, <1>3, <1>4, <1>6 DEF HeartbeatStops
<1>7. ASSUME NEW where, where # "none", NEW n, Beat(g, where, n)
      PROVE  beat'[h].at # "none" /\ ~beat'[h].stopped
  BY <1>3, <1>4, <1>7 DEF Beat
<1>8. CASE Tick(g) \/ ProbeSucceeds(g)
  BY <1>7, <1>8 DEF Tick, ProbeSucceeds
<1>9. CASE ProbeFails(g)
  <2>1. \E where \in {"tripping", "waiting"}, n \in {AtMost(beat[g].fails + 1, MaxHeartbeatFailures)} :
          Beat(g, where, n)
    BY <1>9 DEF ProbeFails
  <2> QED
    BY <1>7, <2>1
<1> QED
  BY <1>5, <1>6, <1>8, <1>9 DEF HeartbeatStep

LEMMA ClientKeepsStop ==
    ASSUME HeartInv, StopIsKept, NEW c \in Callers, ClientStep(c)
    PROVE  StopIsKept'
<1>1. CASE StopHeartbeat(c)
  BY <1>1, NoneIsNoHeartbeat DEF StopHeartbeat, StopIsKept
<1>2. CASE StartHeartbeat(c) /\ heartbeatStop = None
  <2>1. PICK h \in Heartbeats :
          /\ heartbeatStop' = h
          /\ beat' = [beat EXCEPT ![h] = [at |-> "waiting", stopped |-> FALSE, fails |-> 0]]
    BY <1>2, StartedIsNew
  <2> QED
    BY <2>1 DEF StopIsKept, HeartInv, HeartsTyped
<1>3. CASE UNCHANGED hearts
  BY <1>3 DEF StopIsKept, hearts
<1> QED
  BY <1>1, <1>2, <1>3 DEF ClientStep, SwapTransport, ClearQUIC, CloseOld, ConnectStarts,
     VerifySucceeds, VerifyFails, StartHeartbeat

LEMMA StopIsKeptStep ==
    ASSUME HeartInv, StopIsKept, [Next]_vars
    PROVE  StopIsKept'
<1>1. CASE UNCHANGED hearts
  BY <1>1 DEF StopIsKept, hearts
<1>2. CASE UNCHANGED vars
  BY <1>1, <1>2 DEF vars
<1> QED
  BY <1>1, <1>2, HeartbeatKeepsStop, ClientKeepsStop, OthersKeepHearts DEF Next

\* The second part of WatchInv.
WatchedOver ==
    state = "Connected" /\ heartbeatStop = None =>
      \/ \E c \in Callers : call[c].at = "beat"
      \/ \E c \in {"reconnector", "watchdog"} :
            call[c].at \in {"swap", "clear", "close", "connect"}
      \/ ~cycle.running /\ call["handler"].at \notin {"verify", "connected", "failed"}
\* What moves one caller of the client, without a Set and without a heartbeat.
LEMMA QuietKeepsWatch ==
    ASSUME WatchedOver, OneAtATime, UNCHANGED <<state, heartbeatStop>>, NEW c \in Callers,
           NEW where, At(c, where), cycle'.running = cycle.running,
           call[c].at # "beat",
           c = "handler" => where \notin {"verify", "connected", "failed"},
           c # "handler" /\ call[c].at \in {"swap", "clear", "close", "connect"}
             => \/ where \in {"swap", "clear", "close", "connect"}
                \/ c = "reconnector" /\ ~cycle.running
    PROVE  WatchedOver'
<1>1. SUFFICES ASSUME state = "Connected", heartbeatStop = None
               PROVE  \/ \E d \in Callers : call'[d].at = "beat"
                      \/ \E d \in {"reconnector", "watchdog"} :
                            call'[d].at \in {"swap", "clear", "close", "connect"}
                      \/ /\ ~cycle'.running
                         /\ call'["handler"].at \notin {"verify", "connected", "failed"}
  BY DEF WatchedOver
<1>2. CASE \E d \in Callers : call[d].at = "beat"
  BY <1>2 DEF At
<1>3. CASE \E d \in {"reconnector", "watchdog"} :
              call[d].at \in {"swap", "clear", "close", "connect"}
  <2>1. PICK d \in {"reconnector", "watchdog"} :
          call[d].at \in {"swap", "clear", "close", "connect"}
    BY <1>3
  <2>2. CASE d # c
    BY <2>1, <2>2 DEF At, Callers
  <2>3. CASE d = c /\ where \in {"swap", "clear", "close", "connect"}
    BY <2>1, <2>3 DEF At
  <2>4. CASE d = c /\ c = "reconnector" /\ ~cycle.running
    BY <2>1, <2>4 DEF At, Callers, OneAtATime
  <2> QED
    BY <2>1, <2>2, <2>3, <2>4
<1>4. CASE ~cycle.running /\ call["handler"].at \notin {"verify", "connected", "failed"}
  BY <1>4 DEF At, Callers
<1> QED
  BY <1>1, <1>2, <1>3, <1>4 DEF WatchedOver

LEMMA ClientKeepsWatch ==
    ASSUME LinkTyped, CallTyped, LossInv, HeartInv, WatchedOver, OneAtATime,
           NEW c \in Callers, ClientStep(c)
    PROVE  WatchedOver'
<1>1. UNCHANGED cycle
  BY DEF ClientStep, StopHeartbeat, SwapTransport, ClearQUIC, CloseOld, ConnectStarts,
     VerifySucceeds, VerifyFails, StartHeartbeat, desk
<1>2. CASE StopHeartbeat(c)
  <2>1. At(c, "swap") /\ call[c].at = "reset"
    BY <1>2, ClientMoves DEF Moves, StopHeartbeat
  <2>2. CASE c = "handler"
    <3>1. ~cycle'.running /\ call'["handler"].at = "swap"
      BY <1>1, <2>1, <2>2 DEF LossInv, At
    <3> QED
      BY <3>1 DEF WatchedOver
  <2>3. CASE c # "handler"
    <3>1. call'[c].at = "swap" /\ c \in {"reconnector", "watchdog"}
      BY <2>1, <2>3 DEF At, Callers
    <3> QED
      BY <3>1 DEF WatchedOver
  <2> QED
    BY <2>2, <2>3
<1>3. CASE SwapTransport(c)
  <2>1. At(c, "clear") /\ call[c].at = "swap"
    BY <1>3, SwapMoves DEF SwapTransport, LinkTyped
  <2> QED
    BY <1>1, <1>3, <2>1, QuietKeepsWatch DEF SwapTransport, conn, hearts
<1>4. CASE ClearQUIC(c)
  <2>1. At(c, "close") /\ call[c].at = "clear"
    BY <1>4, ClearMoves DEF ClearQUIC, LinkTyped
  <2> QED
    BY <1>1, <1>4, <2>1, QuietKeepsWatch DEF ClearQUIC, conn, hearts
<1>5. CASE CloseOld(c)
  <2>1. UNCHANGED <<state, heartbeatStop>> /\ call[c].at = "close"
    BY <1>5 DEF CloseOld, conn, hearts
  <2>2. CASE At(c, "disconnected") /\ c = "handler"
    BY <1>1, <2>1, <2>2, QuietKeepsWatch
  <2>3. CASE At(c, "connect")
    BY <1>1, <2>1, <2>3, QuietKeepsWatch
  <2> QED
    BY <1>5, <2>2, <2>3, CloseMoves
<1>6. CASE ConnectStarts(c) \/ VerifyFails(c)
  <2>1. state' # "Connected"
    BY <1>6 DEF ConnectStarts, VerifyFails, Set
  <2> QED
    BY <2>1 DEF WatchedOver
<1>7. CASE VerifySucceeds(c)
  <2>1. call'[c].at = "beat"
    BY <1>7, ClientMoves DEF Moves, At
  <2> QED
    BY <2>1 DEF WatchedOver
<1>8. CASE StartHeartbeat(c)
  <2>1. heartbeatStop' # None
    BY <1>8, StartedIsNew, NoneIsNoHeartbeat DEF StartHeartbeat, hearts
  <2> QED
    BY <2>1 DEF WatchedOver
<1> QED
  BY <1>2, <1>3, <1>4, <1>5, <1>6, <1>7, <1>8 DEF ClientStep

LEMMA ReconnectorKeepsWatch ==
    ASSUME CallTyped, DeskTyped, DeskInv, WatchedOver, OneAtATime, ReconnectorStep
    PROVE  WatchedOver'
<1> USE DEF Callers
<1>0. CASE BreakerTrips
  <2>1. state' # "Connected"
    BY <1>0 DEF BreakerTrips, Set
  <2> QED
    BY <2>1 DEF WatchedOver
<1>1. ~BreakerTrips => UNCHANGED <<state, heartbeatStop>>
  BY DEF ReconnectorStep, NotificationIgnored, CycleStarts, CycleCancelled, CycleSucceeds,
     ConnectFailed, FailoverTries, FailoverExhausted, conn, hearts
<1> SUFFICES ASSUME ~BreakerTrips
             PROVE  WatchedOver'
  BY <1>0
<1>2. ASSUME UNCHANGED call, cycle'.running = cycle.running
      PROVE  WatchedOver'
  BY <1>1, <1>2 DEF WatchedOver
<1>3. ASSUME NEW where, Moves("reconnector", where), cycle'.running = cycle.running,
             call["reconnector"].at # "beat",
             \/ call["reconnector"].at \notin {"swap", "clear", "close", "connect"}
             \/ ~cycle.running
      PROVE  WatchedOver'
  BY <1>1, <1>3, QuietKeepsWatch DEF Moves
<1>4. CASE NotificationIgnored
  BY <1>2, <1>4 DEF NotificationIgnored, desk
<1>5. CASE CycleStarts
  BY <1>3, <1>5, ReconnectorMoves DEF CycleStarts, Reconnecting, desk
<1>6. CASE CycleCancelled
  <2>1. /\ ~cycle.running /\ cycle'.running = cycle.running
        /\ call["reconnector"].at # "beat"
    BY <1>6, CycleOverTyped DEF CycleCancelled, Reconnecting, DeskTyped
  <2> QED
    BY <1>3, <1>6, <2>1, ReconnectorMoves
<1>7. CASE CycleSucceeds
  <2>1. cycle'.running = cycle.running /\ call["reconnector"].at = "connected"
    BY <1>7, CycleOverTyped DEF CycleSucceeds, Reconnecting, DeskTyped
  <2> QED
    BY <1>3, <1>7, <2>1, ReconnectorMoves
<1>8. CASE ConnectFailed
  <2>1. call["reconnector"].at = "failed"
    BY <1>8 DEF ConnectFailed, Reconnecting
  <2>2. /\ cycle'.running = cycle.running
        /\ \/ UNCHANGED call
           \/ Moves("reconnector", "trip")
           \/ Moves("reconnector", "connect")
    BY <1>8, Fails
  <2> QED
    BY <1>2, <1>3, <2>1, <2>2
<1>9. CASE FailoverTries
  <2>1. call["reconnector"].at = "failed"
    BY <1>9 DEF FailoverTries, Reconnecting
  <2>2. cycle'.running = cycle.running /\ Moves("reconnector", "connect")
    BY <1>9, Tries, ReconnectorMoves
  <2> QED
    BY <1>3, <2>1, <2>2
<1>10. CASE FailoverExhausted
  <2>1. call["reconnector"].at = "failed"
    BY <1>10 DEF FailoverExhausted, Reconnecting
  <2>2. /\ cycle'.running = cycle.running
        /\ Moves("reconnector", "trip") \/ Moves("reconnector", "connect")
    BY <1>10, Exhausts
  <2> QED
    BY <1>3, <2>1, <2>2
<1> QED
  BY <1>4, <1>5, <1>6, <1>7, <1>8, <1>9, <1>10 DEF ReconnectorStep

LEMMA HandlerKeepsWatch ==
    ASSUME CallTyped, DeskTyped, LossInv, WatchedOver, OneAtATime,
           HandlerStep \/ ConnectAsked \/ DisconnectAsked \/ SelectAsked \/ RecoveryStarts
    PROVE  WatchedOver'
<1> USE DEF Callers
<1>1. ASSUME UNCHANGED <<state, heartbeatStop>>, cycle'.running = cycle.running,
             NEW where, Moves("handler", where), call["handler"].at # "beat",
             where \notin {"verify", "connected", "failed"}
      PROVE  WatchedOver'
  BY <1>1, QuietKeepsWatch DEF Moves
<1>2. CASE ConnectAsked
  <2>1. /\ UNCHANGED <<state, heartbeatStop>> /\ call["handler"].at = "none"
        /\ cycle'.running = cycle.running
    BY <1>2 DEF ConnectAsked, MayAsk, Handling, DeskTyped, CycleRecord, conn, hearts
  <2> QED
    BY <1>1, <1>2, <2>1, HandlerMoves
<1>3. CASE DisconnectAsked \/ SelectAsked
  <2>1. /\ UNCHANGED <<state, heartbeatStop>> /\ call["handler"].at = "none"
        /\ cycle'.running = cycle.running
    BY <1>3 DEF DisconnectAsked, SelectAsked, MayAsk, Handling, conn, hearts
  <2> QED
    BY <1>1, <1>3, <2>1, HandlerMoves
<1>4. CASE Reconfigured \/ Disconnected
  <2>1. /\ UNCHANGED <<state, heartbeatStop>> /\ cycle'.running = cycle.running
        /\ call["handler"].at # "beat"
    BY <1>4 DEF Reconfigured, Disconnected, Handling, conn, hearts
  <2>2. Moves("handler", "stop") \/ Moves("handler", "none")
    BY <1>4, HandlerMoves
  <2> QED
    BY <1>1, <2>1, <2>2
<1>5. CASE StopReconnector
  <2>1. ~cycle'.running
    BY <1>5 DEF StopReconnector, DeskTyped, CycleRecord
  <2>2. call'["handler"].at = "stopping"
    BY <1>5, HandlerMoves DEF Moves, At
  <2> QED
    BY <2>1, <2>2 DEF WatchedOver
<1>6. CASE ReconnectorStopped
  <2>1. call["handler"].at = "stopping" /\ UNCHANGED <<cycle, heartbeatStop>>
    BY <1>6 DEF ReconnectorStopped, Handling, desk, hearts
  <2>2. state' = state \/ state' # "Connected"
    BY <1>6 DEF ReconnectorStopped, Set, conn
  <2>3. Moves("handler", "connect") \/ Moves("handler", "reset")
    BY <1>6, HandlerMoves
  <2>4. CASE state' = state
    BY <1>1, <2>1, <2>3, <2>4
  <2>5. CASE state' # "Connected"
    BY <2>5 DEF WatchedOver
  <2> QED
    BY <2>2, <2>4, <2>5
<1>7. CASE Answered
  <2>1. /\ UNCHANGED <<state, heartbeatStop>> /\ call["handler"].at \in {"connected", "failed"}
    BY <1>7 DEF Answered, Handling, conn, hearts
  <2>2. At("handler", "none")
    BY <1>7, HandlerMoves DEF Moves
  <2> QED
    BY <2>1, <2>2 DEF WatchedOver, At
<1>8. CASE RecoveryStarts
  <2>1. /\ UNCHANGED <<state, heartbeatStop>> /\ cycle'.running = cycle.running
        /\ call["watchdog"].at = "none"
    BY <1>8 DEF RecoveryStarts, conn, hearts, desk
  <2>2. At("watchdog", "reset")
    BY <1>8, HandlerMoves DEF Moves
  <2> QED
    BY <2>1, <2>2, QuietKeepsWatch
<1> QED
  BY <1>2, <1>3, <1>4, <1>5, <1>6, <1>7, <1>8 DEF HandlerStep

LEMMA WatchedOverStep ==
    ASSUME IInv, WatchedOver, [Next]_vars
    PROVE  WatchedOver'
<1>1. CASE UNCHANGED <<state, heartbeatStop, call, cycle>>
  BY <1>1 DEF WatchedOver
<1>2. ASSUME NEW h \in Heartbeats, HeartbeatStep(h)
      PROVE  WatchedOver'
  <2>1. UNCHANGED <<call, cycle, heartbeatStop>>
    BY <1>2 DEF HeartbeatStep, Tick, ProbeSucceeds, ProbeFails, HeartbeatTrips, HeartbeatStops,
       desk
  <2>2. state' = state \/ state' # "Connected"
    BY <1>2 DEF HeartbeatStep, Tick, ProbeSucceeds, ProbeFails, HeartbeatTrips, HeartbeatStops,
       conn, Set
  <2> QED
    BY <1>1, <2>1, <2>2 DEF WatchedOver
<1>3. CASE UNCHANGED vars
  BY <1>1, <1>3 DEF vars, conn, hearts, desk
<1> QED
  BY <1>2, <1>3, ClientKeepsWatch, ReconnectorKeepsWatch, HandlerKeepsWatch DEF Next, IInv

LEMMA WatchInit ==
    ASSUME Init
    PROVE  WatchInv
<1>1. First(Heartbeats) \in Heartbeats
  BY ClientAssumption, FirstIsIn
<1>2. heartbeatStop # None
  BY <1>1, NoneIsNoHeartbeat DEF Init
<1> QED
  BY <1>1, <1>2 DEF Init, WatchInv, StopIsKept, Callers

LEMMA WatchStep ==
    ASSUME IInv, WatchInv, [Next]_vars
    PROVE  WatchInv'
<1>1. WatchInv <=> StopIsKept /\ WatchedOver
  BY DEF WatchInv, WatchedOver
<1>2. StopIsKept' /\ WatchedOver'
  BY <1>1, StopIsKeptStep, WatchedOverStep DEF IInv
<1> QED
  BY <1>2 DEF WatchInv, WatchedOver

\* Whatever Connects, resets, recoveries and stops interleave, a tunnel that is up while the
\* Reconnector runs and nobody works on it has its heartbeat (client.go, heartbeat.go).
THEOREM ConnectedHasHeartbeat == Spec => []ConnectedIsWatched
<1>1. IInv /\ WatchInv => ConnectedIsWatched
  BY DEF IInv, HeartInv, HeartsTyped, WatchInv, StopIsKept, ConnectedIsWatched, Callers
<1> QED
  BY <1>1, Invariant, InitIInv, WatchInit, WatchStep, PTL DEF Spec
=============================================================================
