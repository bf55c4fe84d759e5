---------------------------- MODULE TunnelClient ----------------------------
(***************************************************************************)
(* The client's end of the tunnel and everyone who works on it:            *)
(*   internal/tunnel/client.go      Connect, ResetTransport, Disconnect,   *)
(*                                  UpdateRelay                            *)
(*   internal/tunnel/heartbeat.go   the /health probes                     *)
(*   internal/registry/failover.go  HandleFailover, inside the cycle of    *)
(*   internal/tunnel/reconnect.go   the Reconnector                        *)
(*   <os>/internal/ipchandler/handler.go   Connect, Disconnect and         *)
(*                                  SelectCountry requests                 *)
(*   <os>/internal/service/service.go      recoverTUN                      *)
(* Module Reconnect has the kill switch, the retries and the channel of    *)
(* notifications in detail and one abstract link; here the link is made of *)
(* its parts (relay, HTTP/3 and QUIC transports, heartbeat) and the        *)
(* channel shows only the losses in it.  DoH queries find dead links too:  *)
(* they are the detectors of Reconnect, and left out here, where the       *)
(* heartbeat must do.                                                      *)
(***************************************************************************)
EXTENDS Naturals, FiniteSets

CONSTANTS
    Relays,                \* the registry: domain, address and key of a relay are one
    Transports,            \* HTTP/3 transports (a closed one may be used again)
    QUICTransports,        \* quic.Transports, each on its own UDP socket (likewise)
    Heartbeats,            \* heartbeat goroutines (likewise)
    MaxHeartbeatFailures,  \* 3 in the code
    MaxRetries,            \* MaxRetriesBeforeFailover, 3 in the code
    BreakerThreshold,      \* CircuitBreakerThreshold, 5 in the code
    UpdatesCap,            \* capacity of the updates channel, 4 in the code
    Requests,              \* IPC requests that may come
    MaxEvents,             \* bound on requests and losses of the TUN device together
    None

ASSUME ClientAssumption ==
    /\ {MaxHeartbeatFailures, MaxRetries} \subseteq Nat \ {0}
    /\ BreakerThreshold \in Nat /\ BreakerThreshold > MaxRetries
    /\ Requests \subseteq {"connect", "disconnect", "select"}
    /\ MaxEvents \in Nat /\ UpdatesCap \in Nat \ {0}
    /\ {} \notin {Relays, Transports, QUICTransports, Heartbeats}
    /\ None \notin Relays \cup Transports \cup QUICTransports \cup Heartbeats

Callers == {"reconnector", "handler", "watchdog"}

VARIABLES
    relay,          \* relayDomain, relayIP and relayPubKey
    transport,      \* the current http3.Transport
    sni,            \* ServerName of each open transport, None when closed
    quicTransport,  \* the shared quic.Transport, made by the first dial
    open,           \* quic.Transports that are open
    state,          \* StateManager.current
    losses,         \* the StateDisconnected that wait in the updates channel, each
                    \* by its age: how many Sets ago it was sent
    heartbeatStop,  \* whose stop channel heartbeatStop is
    beat,           \* each heartbeat goroutine
    call,           \* where each caller of the client is
    cycle,          \* the Reconnector and the failover inside it
    current,        \* FailoverManager.currentRelayID
    asked,          \* the request the handler serves, and the relay it selected
    events          \* requests and losses of the TUN device so far

link == <<relay, transport, sni, quicTransport, open>>
conn == <<state, losses>>
hearts == <<heartbeatStop, beat>>
desk == <<cycle, current, asked>>
vars == <<link, conn, hearts, call, desk, events>>

NoRequest == [to |-> None, via |-> None]
ResetSteps == {"reset", "swap", "clear", "close"}
ConnectSteps == {"connect", "verify", "beat"}
HandlerSteps == {"reconfigure", "stop", "stopping"}

TypeOK ==
    /\ relay \in Relays /\ transport \in Transports
    /\ sni \in [Transports -> Relays \cup {None}]
    /\ quicTransport \in QUICTransports \cup {None} /\ open \subseteq QUICTransports
    /\ state \in {"Disconnected", "Connecting", "Connected", "Failed"}
    /\ losses \subseteq 1..UpdatesCap
    /\ heartbeatStop \in Heartbeats \cup {None}
    /\ beat \in [Heartbeats -> [at : {"none", "waiting", "probing", "tripping", "tripped"},
                   stopped : BOOLEAN, fails : 0..MaxHeartbeatFailures]]
    /\ call \in [Callers -> [at : {"none", "connected", "failed", "trip", "disconnected"} \cup
                     ResetSteps \cup ConnectSteps \cup HandlerSteps,
                   rq : [to : Relays \cup {None}, via : Transports \cup {None}],
                   old : Transports \cup {None}, oldQUIC : QUICTransports \cup {None}]]
    /\ cycle \in [running : BOOLEAN, failed : BOOLEAN, retries : 0..BreakerThreshold,
                  attempted : BOOLEAN, failover : BOOLEAN, trying : Relays \cup {None},
                  tried : SUBSET Relays]
    /\ current \in Relays
    /\ asked \in [op : Requests \cup {None}, relay : Relays \cup {None}]
    /\ events \in 0..MaxEvents

First(S) == CHOOSE x \in S : TRUE

\* The service after its first Connect: one transport of each kind, one heartbeat.
Init ==
    /\ relay = First(Relays) /\ current = relay
    /\ transport = First(Transports)
    /\ sni = [t \in Transports |-> IF t = transport THEN relay ELSE None]
    /\ quicTransport = First(QUICTransports) /\ open = {quicTransport}
    /\ state = "Connected" /\ losses = {}
    /\ heartbeatStop = First(Heartbeats)
    /\ beat = [h \in Heartbeats |->
                 [at |-> IF h = heartbeatStop THEN "waiting" ELSE "none",
                  stopped |-> FALSE, fails |-> 0]]
    /\ call = [c \in Callers |-> [at |-> "none", rq |-> NoRequest,
                                  old |-> None, oldQUIC |-> None]]
    /\ cycle = [running |-> TRUE, failed |-> FALSE, retries |-> 0,
                attempted |-> FALSE, failover |-> FALSE, trying |-> None, tried |-> {}]
    /\ asked = [op |-> None, relay |-> None]
    /\ events = 0

----------------------------------------------------------------------------
(* Requests to the relay: every one goes through the transport that was    *)
(* current when it was sent, to the address known then.                    *)

AtMost(n, bound) == IF n > bound THEN bound ELSE n

\* StateManager.Set.  The Reconnector ignores all but StateDisconnected, and a full
\* channel drops its oldest entry: one that is UpdatesCap Sets old.
Set(s) ==
    /\ state' = s
    /\ losses' = {n + 1 : n \in losses \ {UpdatesCap}}
                   \cup (IF s = "Disconnected" THEN {1} ELSE {})

NewRequest == [to |-> relay, via |-> transport]

\* dialQUICCustom: the first request that needs a quic.Transport makes it.
Dial == IF quicTransport # None
        THEN UNCHANGED <<quicTransport, open>>
        ELSE /\ QUICTransports \ open # {}
             /\ quicTransport' = First(QUICTransports \ open) /\ open' = open \cup {quicTransport'}

\* The handshake passes only if the certificate of the relay dialled bears the
\* ServerName of the transport.
Answerable(rq) == rq.via # None /\ sni[rq.via] = rq.to

\* Requests sent through a transport that closes get an error.
Cut(rq, t) == IF rq.via = t THEN [rq EXCEPT !.via = None] ELSE rq

----------------------------------------------------------------------------
(* ResetTransport, step by step: other callers may be in it too.           *)

Ended == [at |-> "none", stopped |-> FALSE, fails |-> 0]

\* A heartbeat that ended by tripping, while heartbeatStop still holds its channel.
Tripped == [at |-> "tripped", stopped |-> FALSE, fails |-> 0]

\* The stop channel of the current heartbeat is closed.
StopClosed ==
    [h \in Heartbeats |->
       IF h # heartbeatStop \/ beat[h].at = "none" THEN beat[h]
       ELSE IF beat[h].at = "tripped" THEN Ended
       ELSE [beat[h] EXCEPT !.stopped = TRUE]]

Go(c, where) == call' = [call EXCEPT ![c].at = where]

\* Mutant: the stop channel is closed and kept.
StopHeartbeatKeepsChannel(c) ==
    /\ call[c].at = "reset"
    /\ beat' = StopClosed
    /\ Go(c, "swap")
    /\ UNCHANGED <<link, conn, heartbeatStop, desk, events>>

\* stopHeartbeat.
StopHeartbeat(c) ==
    /\ call[c].at = "reset"
    /\ beat' = StopClosed
    /\ heartbeatStop' = None
    /\ Go(c, "swap")
    /\ UNCHANGED <<link, conn, desk, events>>

SwapTransport(c) ==
    /\ call[c].at = "swap"
    /\ LET free == {t \in Transports : sni[t] = None}
       IN /\ free # {}
          /\ transport' = First(free)
          /\ sni' = [sni EXCEPT ![transport'] = relay]
    /\ call' = [call EXCEPT ![c].at = "clear", ![c].old = transport]
    /\ UNCHANGED <<relay, quicTransport, open, conn, hearts, desk, events>>

\* Mutant: the old quic.Transport is forgotten, not closed.
ClearQUICForgets(c) ==
    /\ call[c].at = "clear"
    /\ quicTransport' = None
    /\ Go(c, "close")
    /\ UNCHANGED <<relay, transport, sni, open, conn, hearts, desk, events>>

ClearQUIC(c) ==
    /\ call[c].at = "clear"
    /\ quicTransport' = None
    /\ call' = [call EXCEPT ![c].at = "close", ![c].oldQUIC = quicTransport]
    /\ UNCHANGED <<relay, transport, sni, open, conn, hearts, desk, events>>

CloseOld(c) ==
    /\ call[c].at = "close"
    /\ LET old == call[c].old
           next == IF c = "handler" /\ asked.op = "disconnect" THEN "disconnected"
                   ELSE "connect"
       IN /\ sni' = [sni EXCEPT ![old] = None]
          /\ open' = open \ {call[c].oldQUIC}
          /\ call' = [d \in Callers |->
                        IF d = c THEN [call[c] EXCEPT !.at = next, !.old = None,
                                                      !.oldQUIC = None]
                        ELSE [call[d] EXCEPT !.rq = Cut(@, old)]]
    /\ UNCHANGED <<relay, transport, quicTransport, conn, hearts, desk, events>>

----------------------------------------------------------------------------
(* Connect.                                                                *)

\* The reads of verifyRelay are one with the Set before them: an UpdateRelay among
\* them could only make the verification fail, and it may fail anyway.
ConnectStarts(c) ==
    /\ call[c].at = "connect"
    /\ Set("Connecting")
    /\ Dial
    /\ call' = [call EXCEPT ![c].at = "verify", ![c].rq = NewRequest]
    /\ UNCHANGED <<relay, transport, sni, hearts, desk, events>>

VerifySucceeds(c) ==
    /\ call[c].at = "verify"
    /\ Answerable(call[c].rq)
    /\ c = "reconnector" => cycle.running
    /\ Set("Connected")
    /\ call' = [call EXCEPT ![c].at = "beat", ![c].rq = NoRequest]
    /\ UNCHANGED <<link, hearts, desk, events>>

\* recoverTUN returns when its Connect does.
Returned(c, result) == IF c = "watchdog" THEN "none" ELSE result

\* Mutant: the state is written without telling the subscribers.
VerifyFailsSilently(c) ==
    /\ call[c].at = "verify"
    /\ state' = "Disconnected"
    /\ call' = [call EXCEPT ![c].at = Returned(c, "failed"), ![c].rq = NoRequest]
    /\ UNCHANGED <<link, losses, hearts, desk, events>>

VerifyFails(c) ==
    /\ call[c].at = "verify"
    /\ Set("Disconnected")
    /\ call' = [call EXCEPT ![c].at = Returned(c, "failed"), ![c].rq = NoRequest]
    /\ UNCHANGED <<link, hearts, desk, events>>

\* Mutant: the test for a running heartbeat is gone.
StartHeartbeatAgain(c) ==
    /\ call[c].at = "beat"
    /\ LET free == {h \in Heartbeats : beat[h].at = "none"}
       IN /\ free # {}
          /\ heartbeatStop' = First(free)
          /\ beat' = [beat EXCEPT ![heartbeatStop'] =
                         [at |-> "waiting", stopped |-> FALSE, fails |-> 0]]
    /\ Go(c, Returned(c, "connected"))
    /\ UNCHANGED <<link, conn, desk, events>>

\* startHeartbeat: an existing one is left in place.
StartHeartbeat(c) ==
    /\ call[c].at = "beat"
    /\ IF heartbeatStop # None
       THEN UNCHANGED hearts
       ELSE LET free == {h \in Heartbeats : beat[h].at = "none"}
            IN /\ free # {}
               /\ heartbeatStop' = First(free)
               /\ beat' = [beat EXCEPT ![heartbeatStop'] =
                              [at |-> "waiting", stopped |-> FALSE, fails |-> 0]]
    /\ Go(c, Returned(c, "connected"))
    /\ UNCHANGED <<link, conn, desk, events>>

ClientStep(c) ==
    \/ StopHeartbeat(c) \/ SwapTransport(c) \/ ClearQUIC(c) \/ CloseOld(c)
    \/ ConnectStarts(c) \/ VerifySucceeds(c) \/ VerifyFails(c)
    \/ StartHeartbeat(c)

----------------------------------------------------------------------------
(* The heartbeat goroutines.  A probe goes through the client's transport  *)
(* like a Connect, but only its outcome matters, and any may fail.         *)

Beat(h, where, n) == beat' = [beat EXCEPT ![h].at = where, ![h].fails = n]

\* The select may take the tick although stop is closed, when both are ready.
Tick(h) ==
    /\ beat[h].at = "waiting"
    /\ \/ /\ state # "Connected"
          /\ Beat(h, "waiting", 0)
          /\ UNCHANGED <<quicTransport, open>>
       \/ /\ state = "Connected"
          /\ Beat(h, "probing", beat[h].fails)
          /\ Dial
    /\ UNCHANGED <<relay, transport, sni, conn, heartbeatStop, call, desk, events>>

ProbeSucceeds(h) ==
    /\ beat[h].at = "probing"
    /\ Beat(h, "waiting", 0)
    /\ UNCHANGED <<link, conn, heartbeatStop, call, desk, events>>

ProbeFails(h) ==
    /\ beat[h].at = "probing"
    /\ LET n == AtMost(beat[h].fails + 1, MaxHeartbeatFailures)
       IN Beat(h, IF n >= MaxHeartbeatFailures /\ state = "Connected"
                  THEN "tripping" ELSE "waiting", n)
    /\ UNCHANGED <<link, conn, heartbeatStop, call, desk, events>>

\* The goroutine ends; if heartbeatStop holds its channel it goes on doing so, and
\* startHeartbeat will take it for one that runs.  The goroutine also closes the
\* QUIC connection: requests under way on it fail, as they may anyway.
HeartbeatTrips(h) ==
    /\ beat[h].at = "tripping"
    /\ Set("Disconnected")
    /\ beat' = [beat EXCEPT ![h] = IF heartbeatStop = h THEN Tripped ELSE Ended]
    /\ UNCHANGED <<link, heartbeatStop, call, desk, events>>

HeartbeatStops(h) ==
    /\ beat[h].at = "waiting" /\ beat[h].stopped
    /\ beat' = [beat EXCEPT ![h] = Ended]
    /\ UNCHANGED <<link, conn, heartbeatStop, call, desk, events>>

HeartbeatStep(h) ==
    Tick(h) \/ ProbeSucceeds(h) \/ ProbeFails(h) \/ HeartbeatTrips(h) \/ HeartbeatStops(h)

----------------------------------------------------------------------------
(* The Reconnector's cycle and the failover inside it.                     *)

Reconnecting(where) == call["reconnector"].at = where

\* A receive on Updates(): the oldest comes first.
TakeLoss ==
    \E n \in losses : (\A k \in losses : k <= n) /\ losses' = losses \ {n}

\* Notifications that come while the breaker is open are dropped.
NotificationIgnored ==
    /\ Reconnecting("none") /\ cycle.running /\ cycle.failed
    /\ TakeLoss
    /\ UNCHANGED <<link, state, hearts, call, desk, events>>

CycleStarts ==
    /\ Reconnecting("none") /\ cycle.running /\ ~cycle.failed
    /\ TakeLoss
    /\ Go("reconnector", "reset")
    /\ UNCHANGED <<link, state, hearts, desk, events>>

\* The locals of handleDisconnect and HandleFailover end with the cycle.
CycleOver == [cycle EXCEPT !.retries = 0, !.attempted = FALSE, !.failover = FALSE,
                           !.trying = None, !.tried = {}]

\* ctx is cancelled: during a backoff, or found after a failed Connect.
CycleCancelled ==
    /\ Reconnecting("connect") \/ Reconnecting("failed")
    /\ ~cycle.running /\ ~cycle.failover
    /\ cycle' = CycleOver
    /\ Go("reconnector", "none")
    /\ UNCHANGED <<link, conn, hearts, current, asked, events>>

CycleSucceeds ==
    /\ Reconnecting("connected")
    /\ IF cycle.failover THEN current' = cycle.trying ELSE UNCHANGED current
    /\ cycle' = CycleOver
    /\ Go("reconnector", "none")
    /\ UNCHANGED <<link, conn, hearts, asked, events>>

\* Mutant: the loop has no breaker.
RetryForever(n, c) ==
    /\ cycle' = [c EXCEPT !.retries = n]
    /\ Go("reconnector", "connect")

\* The tail of the loop: the breaker, or another round.
RetryOrTrip(n, c) ==
    IF n >= BreakerThreshold
    THEN /\ cycle' = [CycleOver EXCEPT !.failed = TRUE]
         /\ Go("reconnector", "trip")
    ELSE /\ cycle' = [c EXCEPT !.retries = n]
         /\ Go("reconnector", "connect")

ConnectFailed ==
    /\ Reconnecting("failed") /\ cycle.running /\ ~cycle.failover
    /\ LET n == cycle.retries + 1
       IN IF n >= MaxRetries /\ ~cycle.attempted /\ Cardinality(Relays) > 1
          THEN /\ cycle' = [cycle EXCEPT !.retries = n, !.attempted = TRUE,
                                         !.failover = TRUE, !.tried = {}]
               /\ UNCHANGED call
          ELSE RetryOrTrip(n, cycle)
    /\ UNCHANGED <<link, conn, hearts, current, asked, events>>

\* tryPool: the next relay of the pools, whether or not ctx is cancelled.  One whose
\* name UpdateRelay cannot resolve is passed over, like one that does not answer.
FailoverTries ==
    /\ Reconnecting("failed") /\ cycle.failover
    /\ \E r \in Relays \ ({current} \cup cycle.tried) :
         /\ relay' = r
         /\ cycle' = [cycle EXCEPT !.trying = r, !.tried = @ \cup {r}]
    /\ Go("reconnector", "connect")
    /\ UNCHANGED <<transport, sni, quicTransport, open, conn, hearts, current, asked, events>>

\* HandleFailover gives the client its original relay back (it ignores an error, and
\* none is modelled there).
FailoverExhausted ==
    /\ Reconnecting("failed") /\ cycle.failover
    /\ Relays \subseteq {current} \cup cycle.tried
    /\ relay' = current
    /\ RetryOrTrip(cycle.retries, [cycle EXCEPT !.failover = FALSE,
                   !.trying = None, !.tried = {}])
    /\ UNCHANGED <<transport, sni, quicTransport, open, conn, hearts, current, asked,
                   events>>

\* The hook of the breaker, after its flag: whatever a recovery has made of the state
\* meanwhile, the service shows the failure.
BreakerTrips ==
    /\ Reconnecting("trip")
    /\ Set("Failed")
    /\ Go("reconnector", "none")
    /\ UNCHANGED <<link, hearts, desk, events>>

ReconnectorStep ==
    \/ NotificationIgnored \/ CycleStarts \/ CycleCancelled \/ CycleSucceeds
    \/ ConnectFailed \/ FailoverTries \/ FailoverExhausted \/ BreakerTrips

----------------------------------------------------------------------------
(* The IPC handler, and recoverTUN.                                        *)

Handling(where) == call["handler"].at = where

MayAsk(op) == Handling("none") /\ op \in Requests /\ events < MaxEvents

\* handleConnect: Reset comes before Stop.
ConnectAsked ==
    /\ MayAsk("connect") /\ state # "Connected"
    /\ cycle' = [cycle EXCEPT !.failed = FALSE]
    /\ asked' = [op |-> "connect", relay |-> None]
    /\ events' = events + 1
    /\ Go("handler", "stop")
    /\ UNCHANGED <<link, conn, hearts, current>>

DisconnectAsked ==
    /\ MayAsk("disconnect")
    /\ asked' = [op |-> "disconnect", relay |-> None]
    /\ events' = events + 1
    /\ Go("handler", "stop")
    /\ UNCHANGED <<link, conn, hearts, cycle, current>>

\* handleSelectCountry: UpdateRelay comes before Stop.
SelectAsked ==
    /\ MayAsk("select")
    /\ \E r \in Relays : relay' = r /\ asked' = [op |-> "select", relay |-> r]
    /\ events' = events + 1
    /\ Go("handler", "reconfigure")
    /\ UNCHANGED <<transport, sni, quicTransport, open, conn, hearts, cycle, current>>

Done == asked' = [op |-> None, relay |-> None] /\ Go("handler", "none")

\* ReconfigureForRelay; its failure leaves the new relay in the client.
Reconfigured ==
    /\ Handling("reconfigure")
    /\ \/ Go("handler", "stop") /\ UNCHANGED asked
       \/ Done
    /\ UNCHANGED <<link, conn, hearts, cycle, current, events>>

StopReconnector ==
    /\ Handling("stop")
    /\ cycle' = [cycle EXCEPT !.running = FALSE]
    /\ Go("handler", "stopping")
    /\ UNCHANGED <<link, conn, hearts, current, asked, events>>

\* Stop returns; Disconnect sets the state before it resets the transport.
ReconnectorStopped ==
    /\ Handling("stopping") /\ Reconnecting("none")
    /\ IF asked.op = "connect"
       THEN Go("handler", "connect") /\ UNCHANGED conn
       ELSE Go("handler", "reset") /\ Set("Disconnected")
    /\ UNCHANGED <<link, hearts, desk, events>>

Disconnected ==
    /\ Handling("disconnected")
    /\ Done
    /\ UNCHANGED <<link, conn, hearts, cycle, current, events>>

\* `go r.Start`, and after a selection that connected and was saved, SetCurrentRelay.
Answered ==
    /\ Handling("connected") \/ Handling("failed")
    /\ cycle' = [cycle EXCEPT !.running = TRUE]
    /\ \/ UNCHANGED current
       \/ asked.op = "select" /\ Handling("connected") /\ current' = asked.relay
    /\ Done
    /\ UNCHANGED <<link, conn, hearts, events>>

HandlerStep == Reconfigured \/ StopReconnector \/ ReconnectorStopped \/ Disconnected \/ Answered

RecoveryStarts ==
    /\ call["watchdog"].at = "none" /\ events < MaxEvents
    /\ events' = events + 1
    /\ Go("watchdog", "reset")
    /\ UNCHANGED <<link, conn, hearts, desk>>

Next ==
    \/ \E c \in Callers : ClientStep(c)
    \/ \E h \in Heartbeats : HeartbeatStep(h)
    \/ ReconnectorStep \/ HandlerStep
    \/ ConnectAsked \/ DisconnectAsked \/ SelectAsked
    \/ RecoveryStarts

Spec == Init /\ [][Next]_vars

\* Goroutines run on: the ticker fires, probes and handshakes have timeouts; a select
\* does not pass over a closed channel for ever.  Users and relays owe nothing.
Fairness ==
    /\ WF_vars(ClientStep("reconnector") \/ ReconnectorStep)
    /\ WF_vars(ClientStep("handler") \/ HandlerStep)
    /\ WF_vars(ClientStep("watchdog"))
    /\ \A h \in Heartbeats : WF_vars(HeartbeatStep(h)) /\ SF_vars(HeartbeatStops(h))

FairSpec == Spec /\ Fairness

----------------------------------------------------------------------------
(* What must hold.                                                         *)

\* A heartbeat that has not been told to stop is the one that stopHeartbeat would
\* stop, however Connects and ResetTransports interleave: there is one at most, and
\* none escapes ("If a heartbeat goroutine is already running, the existing one is
\* left in place").
OneHeartbeat ==
    \A h \in Heartbeats : beat[h].at # "none" /\ ~beat[h].stopped => heartbeatStop = h

\* Every open transport, HTTP/3 or QUIC, is the client's own, or in the hands of a
\* ResetTransport that is about to close it.
NothingLeaks ==
    /\ {t \in Transports : sni[t] # None}
         \subseteq {transport} \cup {call[c].old : c \in Callers}
    /\ open \subseteq {quicTransport} \cup {call[c].oldQUIC : c \in Callers}

\* When nobody works on the client, a tunnel that is not up is going to be
\* reconnected: a notification waits for the Reconnector, unless the user stopped
\* it or its breaker is open.
NeverAbandoned ==
    (\A c \in Callers : call[c].at = "none") /\ state # "Connected"
        => losses # {} \/ ~cycle.running \/ cycle.failed

\* A tunnel that stays connected is probed again and again, so that a dead link does
\* not pass for a connected one, whatever requests, recoveries and reconnections
\* brought it up; unless the user has stopped the Reconnector, or the heartbeat
\* tripped and nobody has reset the transport since (see the README).
ConnectedIsProbed ==
    \/ <>[]~cycle.running
    \/ []<>(\/ state # "Connected"
            \/ \E h \in Heartbeats : beat[h].at = "probing" /\ ~beat[h].stopped
            \/ \E h \in Heartbeats : beat[h].at = "tripped")

\* client.go:242: "SNI must match the cert, not the IP": the relay a Connect talks
\* to is the one the transport was built for.
SNIMatchesRelay ==
    \A c \in Callers : call[c].at = "verify" /\ call[c].rq.via # None
        => sni[call[c].rq.via] = call[c].rq.to
=============================================================================
