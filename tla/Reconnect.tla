------------------------------ MODULE Reconnect ------------------------------
(***************************************************************************)
(* The tunnel's reconnection machinery, desktop service:                   *)
(*   internal/tunnel/reconnect.go        the Reconnector goroutine         *)
(*   <os>/internal/dns/kill_switch.go    the DNS kill switch it drives     *)
(*   <os>/internal/ipchandler/handler.go Connect, Disconnect and           *)
(*                                       SelectCountry IPC requests        *)
(*   <os>/internal/service/service.go    proxies, circuit breaker flags,   *)
(*                                       failover wrapper, recoverTUN      *)
(* They share the state manager (StateManager), the DNS proxy and the      *)
(* Reconnector's fields.  Losses of the link are found by detectors        *)
(* (heartbeat, DoH failures): module TunnelClient has their detail.        *)
(***************************************************************************)
EXTENDS StateManager, FiniteSets

CONSTANTS
    Handlers,                  \* IPC request goroutines
    Requests,                  \* requests they may serve: subset of RequestKinds
    MaxRetriesBeforeFailover,  \* 3 in the code
    CircuitBreakerThreshold,   \* 5 in the code
    HasFailover,               \* WithFailoverFn was given (registry of > 1 relay)
    MaxAlternatives,           \* relays HandleFailover may try (bound)
    ActivateMayFail,           \* forcing the resolver may fail
    StartProxyMayFail,         \* rebinding port 53 may fail
    Detectors,                 \* goroutines that detect a loss of the link
    MaxPendingStarts,          \* bound on `go r.Start` goroutines not yet run
    RecoveryEnabled            \* recoverTUN may run beside the Reconnector

RequestKinds == {"connect", "disconnect", "select"}

\* The init() of reconnect.go panics unless the second conjunct holds.
ASSUME ReconnectAssumption ==
    /\ MaxRetriesBeforeFailover \in Nat \ {0}
    /\ CircuitBreakerThreshold \in Nat
    /\ CircuitBreakerThreshold > MaxRetriesBeforeFailover
    /\ MaxAlternatives \in Nat
    /\ MaxPendingStarts \in Nat
    /\ Requests \subseteq RequestKinds
    /\ {HasFailover, ActivateMayFail, StartProxyMayFail, RecoveryEnabled} \subseteq BOOLEAN

VARIABLES
    rpc,                \* where the Reconnector goroutine is
    cancelled,          \* the ctx of the current Start has been cancelled
    retries,            \* locals of handleDisconnect
    failoverAttempted,
    alternatives,       \* relays the running failover has not tried yet
    failed,             \* Reconnector.failed
    tripped,            \* Program.circuitBreakerTripped
    ksActive,           \* KillSwitch.active
    proxy,              \* "none", or whose context the DNS proxy lives under
    tripping,           \* detectors past their Get() == Connected check
    pendingStarts,      \* `go r.Start(ctx)` goroutines spawned, not yet run
    hpc, req,           \* where each handler is, and the request it serves
    tunRecovery,        \* recoverTUN: "idle" or "connecting"
    userOff             \* the last request answered was a Disconnect

recVars == <<rpc, cancelled, retries, failoverAttempted, alternatives, failed>>
dnsVars == <<ksActive, proxy>>
ipcVars == <<pendingStarts, hpc, req, userOff>>
envVars == <<tripping, tunRecovery>>
vars == <<smVars, recVars, tripped, dnsVars, ipcVars, envVars>>

\* handleDisconnect is running: from its first step to its return.
CyclePcs == {"reset", "activate", "reactivate", "backoff", "connecting", "failover",
             "failoverConnecting", "trip", "hook", "setFailed", "deactivate",
             "redeactivate"}
RecPcs == {"stopped", "select"} \cup CyclePcs
HandlerPcs == {"idle", "resetTripped", "resetFailed", "stop", "wait", "disconnect",
               "connect", "connecting", "respond"}

TypeOK ==
    /\ SMTypeOK
    /\ rpc \in RecPcs
    /\ cancelled \in BOOLEAN
    /\ retries \in 0..CircuitBreakerThreshold
    /\ failoverAttempted \in BOOLEAN
    /\ alternatives \in 0..MaxAlternatives
    /\ failed \in BOOLEAN
    /\ tripped \in BOOLEAN
    /\ ksActive \in BOOLEAN
    /\ proxy \in {"none", "service", "reconnector"}
    /\ tripping \in SUBSET Detectors
    /\ pendingStarts \in 0..MaxPendingStarts
    /\ hpc \in [Handlers -> HandlerPcs]
    /\ req \in [Handlers -> RequestKinds]
    /\ tunRecovery \in {"idle", "connecting"}
    /\ userOff \in BOOLEAN

(***************************************************************************)
(* service.run has connected, started the DNS proxy under the service      *)
(* context, set the resolver and just executed `go reconnector.Start(ctx)`.*)
(* Connect left "connecting" and "connected" in the channel.               *)
(***************************************************************************)
Init ==
    /\ current = "connected"
    /\ updates = Push(Push(<<>>, "connecting"), "connected")
    /\ closed = FALSE
    /\ rpc = "select" /\ cancelled = FALSE
    /\ retries = 0 /\ failoverAttempted = FALSE /\ alternatives = 0
    /\ failed = FALSE /\ tripped = FALSE
    /\ ksActive = FALSE /\ proxy = "service"
    /\ tripping = {} /\ tunRecovery = "idle"
    /\ pendingStarts = 0
    /\ hpc = [h \in Handlers |-> "idle"]
    /\ req = [h \in Handlers |-> "disconnect"]
    /\ userOff = FALSE

-----------------------------------------------------------------------------
(* The DNS kill switch: every method runs under ks.mu.                      *)

\* Mutant: the resolver is forced first, the proxy stopped only if that worked.
ActivateResolverFirst(ok) ==
    IF ksActive
    THEN ~ok /\ UNCHANGED dnsVars
    ELSE /\ ok \/ ActivateMayFail \/ cancelled
         /\ ksActive' = ok
         /\ proxy' = IF ok THEN "none" ELSE proxy

\* Activate: the proxy is stopped before the resolver is forced, so a failure
\* of the second leaves the proxy stopped and `active` false.
Activate(ok) ==
    IF ksActive
    THEN ~ok /\ UNCHANGED dnsVars
    ELSE /\ ok \/ ActivateMayFail \/ cancelled
         /\ ksActive' = ok
         /\ proxy' = "none"

\* Mutant: the flag is not cleared.
DeactivateKeepsFlag(ok) ==
    IF ~ksActive
    THEN ~ok /\ UNCHANGED dnsVars
    ELSE /\ ok \/ StartProxyMayFail \/ cancelled
         /\ proxy' = IF ok /\ ~cancelled THEN "reconnector" ELSE "none"
         /\ UNCHANGED ksActive

\* Deactivate: starts the proxy under the caller's context.  Under a context
\* already cancelled the proxy either refuses to start or dies at once.
Deactivate(ok) ==
    IF ~ksActive
    THEN ~ok /\ UNCHANGED dnsVars
    ELSE /\ ok \/ StartProxyMayFail \/ cancelled
         /\ ksActive' = ~ok
         /\ proxy' = IF ok /\ ~cancelled THEN "reconnector" ELSE "none"

-----------------------------------------------------------------------------
(* The Reconnector goroutine.                                               *)

Goto(pc) == rpc' = pc /\ UNCHANGED <<cancelled, retries, failoverAttempted, alternatives, failed>>

\* Mutant: the retry counter survives the cycle.
ReturnKeepsRetries ==
    /\ rpc' = "select"
    /\ failoverAttempted' = FALSE /\ alternatives' = 0
    /\ UNCHANGED <<cancelled, failed, retries>>

\* handleDisconnect returns to the select of Start; its locals are gone.
Return ==
    /\ rpc' = "select"
    /\ retries' = 0 /\ failoverAttempted' = FALSE /\ alternatives' = 0
    /\ UNCHANGED <<cancelled, failed>>

\* A goroutine spawned by a handler runs Start: refused while another runs.
Start ==
    /\ pendingStarts > 0
    /\ pendingStarts' = pendingStarts - 1
    /\ IF rpc = "stopped"
       THEN rpc' = "select" /\ cancelled' = FALSE
       ELSE UNCHANGED <<rpc, cancelled>>
    /\ UNCHANGED <<smVars, retries, failoverAttempted, alternatives, failed, tripped,
                   dnsVars, hpc, req, userOff, envVars>>

\* Mutant: done is not closed.
ExitWithoutClose ==
    /\ rpc = "select" /\ cancelled
    /\ Goto("stopped")
    /\ UNCHANGED <<smVars, tripped, dnsVars, ipcVars, envVars>>

\* The select of Start takes ctx.Done: close(done) releases every Stop waiting.
Exit ==
    /\ rpc = "select" /\ cancelled
    /\ Goto("stopped")
    /\ hpc' = [h \in Handlers |-> IF hpc[h] # "wait" THEN hpc[h]
                                  ELSE IF req[h] = "connect" THEN "connect"
                                  ELSE "disconnect"]
    /\ UNCHANGED <<smVars, tripped, dnsVars, pendingStarts, req, userOff, envVars>>

\* The select of Start takes a notification (also when ctx is done: Go picks
\* any ready case).  Only "disconnected" before the breaker trips starts a cycle.
TakeUpdate ==
    /\ rpc = "select"
    /\ Receive
    /\ Goto(IF Head(updates) = "disconnected" /\ ~failed THEN "reset" ELSE "select")
    /\ UNCHANGED <<tripped, dnsVars, ipcVars, envVars>>

\* disconnectFn: Client.ResetTransport closes the QUIC connection.
TearDown ==
    /\ rpc = "reset"
    /\ Goto("activate")
    /\ UNCHANGED <<smVars, tripped, dnsVars, ipcVars, envVars>>

ActivateKillSwitch ==
    /\ rpc = "activate"
    /\ \E ok \in BOOLEAN : Activate(ok) /\ Goto(IF ok THEN "backoff" ELSE "reactivate")
    /\ UNCHANGED <<smVars, tripped, ipcVars, envVars>>

\* Mutant: the cycle is given up when the retry fails too.
ReactivateOrReturn ==
    /\ rpc = "reactivate"
    /\ \/ cancelled /\ Return /\ UNCHANGED dnsVars
       \/ \E ok \in BOOLEAN : Activate(ok) /\ IF ok THEN Goto("backoff") ELSE Return
    /\ UNCHANGED <<smVars, tripped, ipcVars, envVars>>

\* The retry 10 ms later, whose result is ignored.
ReactivateKillSwitch ==
    /\ rpc = "reactivate"
    /\ \/ cancelled /\ Return /\ UNCHANGED dnsVars
       \/ Goto("backoff") /\ \E ok \in BOOLEAN : Activate(ok)
    /\ UNCHANGED <<smVars, tripped, ipcVars, envVars>>

BackoffElapses ==
    /\ rpc = "backoff"
    /\ Goto("connecting")
    /\ SetState("connecting")
    /\ UNCHANGED <<tripped, dnsVars, ipcVars, envVars>>

\* Mutant: a cancelled cycle deactivates the kill switch on its way out.
BackoffCancelledDeactivates ==
    /\ rpc = "backoff" /\ cancelled
    /\ Goto("deactivate")
    /\ UNCHANGED <<smVars, tripped, dnsVars, ipcVars, envVars>>

BackoffCancelled ==
    /\ rpc = "backoff" /\ cancelled
    /\ Return
    /\ UNCHANGED <<smVars, tripped, dnsVars, ipcVars, envVars>>

\* What follows the n-th failed attempt once no failover is (any longer) due.
AfterFailure(n) == IF n >= CircuitBreakerThreshold THEN "trip" ELSE "backoff"

\* Mutant: the two thresholds are swapped (what init() panics on).
ConnectFailsSwapped ==
    /\ rpc = "connecting"
    /\ SetState("disconnected")
    /\ IF cancelled
       THEN Return
       ELSE /\ retries' = retries + 1
            /\ IF retries' >= CircuitBreakerThreshold /\ HasFailover /\ ~failoverAttempted
               THEN /\ rpc' = "failover" /\ failoverAttempted' = TRUE
                    /\ alternatives' \in 0..MaxAlternatives
               ELSE /\ rpc' = IF retries' >= MaxRetriesBeforeFailover THEN "trip" ELSE "backoff"
                    /\ UNCHANGED <<failoverAttempted, alternatives>>
            /\ UNCHANGED <<cancelled, failed>>
    /\ UNCHANGED <<tripped, dnsVars, ipcVars, envVars>>

ConnectFails ==
    /\ rpc = "connecting"
    /\ SetState("disconnected")
    /\ IF cancelled
       THEN Return
       ELSE /\ retries' = retries + 1
            /\ IF retries' >= MaxRetriesBeforeFailover /\ HasFailover /\ ~failoverAttempted
               THEN /\ rpc' = "failover" /\ failoverAttempted' = TRUE
                    /\ alternatives' \in 0..MaxAlternatives
               ELSE /\ rpc' = AfterFailure(retries')
                    /\ UNCHANGED <<failoverAttempted, alternatives>>
            /\ UNCHANGED <<cancelled, failed>>
    /\ UNCHANGED <<tripped, dnsVars, ipcVars, envVars>>

ConnectSucceeds ==
    /\ rpc = "connecting"
    /\ SetState("connected")
    /\ Goto("deactivate")
    /\ UNCHANGED <<tripped, dnsVars, ipcVars, envVars>>

\* HandleFailover connects to the next relay of its pools ...
TryAlternative ==
    /\ rpc = "failover" /\ alternatives > 0
    /\ alternatives' = alternatives - 1
    /\ rpc' = "failoverConnecting"
    /\ SetState("connecting")
    /\ UNCHANGED <<cancelled, retries, failoverAttempted, failed, tripped, dnsVars,
                   ipcVars, envVars>>

\* Mutant: the retries start over after the failover.
FailoverExhaustedStartsOver ==
    /\ rpc = "failover" /\ alternatives = 0
    /\ rpc' = "backoff" /\ retries' = 0 /\ failoverAttempted' = FALSE
    /\ UNCHANGED <<cancelled, alternatives, failed>>
    /\ UNCHANGED <<smVars, tripped, dnsVars, ipcVars, envVars>>

\* ... and returns an error when there is none left.
FailoverExhausted ==
    /\ rpc = "failover" /\ alternatives = 0
    /\ Goto(AfterFailure(retries))
    /\ UNCHANGED <<smVars, tripped, dnsVars, ipcVars, envVars>>

AlternativeFails ==
    /\ rpc = "failoverConnecting"
    /\ SetState("disconnected")
    /\ Goto("failover")
    /\ UNCHANGED <<tripped, dnsVars, ipcVars, envVars>>

AlternativeSucceeds ==
    /\ rpc = "failoverConnecting"
    /\ SetState("connected")
    /\ Goto("deactivate")
    /\ UNCHANGED <<tripped, dnsVars, ipcVars, envVars>>

\* tripCircuitBreaker: the flag, then the hook (Program.tripCircuitBreaker).
Trip ==
    /\ rpc = "trip"
    /\ failed' = TRUE
    /\ rpc' = "hook"
    /\ UNCHANGED <<cancelled, retries, failoverAttempted, alternatives>>
    /\ UNCHANGED <<smVars, tripped, dnsVars, ipcVars, envVars>>

BreakerHook ==
    /\ rpc = "hook"
    /\ tripped' = TRUE
    /\ Goto("setFailed")
    /\ UNCHANGED <<smVars, dnsVars, ipcVars, envVars>>

\* Mutant: the hook deactivates the kill switch.
BreakerDeactivates ==
    /\ rpc = "setFailed"
    /\ SetState("failed")
    /\ Goto("deactivate")
    /\ UNCHANGED <<tripped, dnsVars, ipcVars, envVars>>

BreakerSetsFailed ==
    /\ rpc = "setFailed"
    /\ SetState("failed")
    /\ Return
    /\ UNCHANGED <<tripped, dnsVars, ipcVars, envVars>>

DeactivateKillSwitch ==
    /\ rpc = "deactivate"
    /\ \E ok \in BOOLEAN : Deactivate(ok) /\ IF ok THEN Return ELSE Goto("redeactivate")
    /\ UNCHANGED <<smVars, tripped, ipcVars, envVars>>

RedeactivateKillSwitch ==
    /\ rpc = "redeactivate"
    /\ Return
    /\ \/ cancelled /\ UNCHANGED dnsVars
       \/ \E ok \in BOOLEAN : Deactivate(ok)
    /\ UNCHANGED <<smVars, tripped, ipcVars, envVars>>

Cycle ==
    \/ TearDown \/ ActivateKillSwitch \/ ReactivateKillSwitch
    \/ BackoffElapses \/ BackoffCancelled \/ ConnectFails \/ ConnectSucceeds
    \/ TryAlternative \/ FailoverExhausted \/ AlternativeFails \/ AlternativeSucceeds
    \/ Trip \/ BreakerHook \/ BreakerSetsFailed
    \/ DeactivateKillSwitch \/ RedeactivateKillSwitch

Reconnector == TakeUpdate \/ Cycle

-----------------------------------------------------------------------------
(* IPC requests.                                                            *)

HandlerAt(h, from, to) ==
    /\ hpc[h] = from
    /\ hpc' = [hpc EXCEPT ![h] = to]

\* handleConnect answers at once when connected; the other requests always act.
Request(h, r) ==
    /\ r = "connect" => current # "connected"
    /\ HandlerAt(h, "idle", IF r = "connect" THEN "resetTripped" ELSE "stop")
    /\ req' = [req EXCEPT ![h] = r]
    /\ userOff' = IF r = "disconnect" THEN userOff ELSE FALSE
    /\ UNCHANGED <<smVars, recVars, tripped, dnsVars, pendingStarts, envVars>>

\* ResetCircuitBreaker clears the service's flag, then the Reconnector's.
ResetTripped(h) ==
    /\ HandlerAt(h, "resetTripped", "resetFailed")
    /\ tripped' = FALSE
    /\ UNCHANGED <<smVars, recVars, dnsVars, pendingStarts, req, userOff, envVars>>

ResetFailed(h) ==
    /\ HandlerAt(h, "resetFailed", "stop")
    /\ failed' = FALSE
    /\ UNCHANGED <<rpc, cancelled, retries, failoverAttempted, alternatives>>
    /\ UNCHANGED <<smVars, tripped, dnsVars, pendingStarts, req, userOff, envVars>>

\* Reconnector.Stop cancels the running Start, if any, and waits for it.  The
\* cancellation takes with it a DNS proxy started under that context.
StopReconnector(h) ==
    /\ IF rpc = "stopped"
       THEN /\ HandlerAt(h, "stop", IF req[h] = "connect" THEN "connect" ELSE "disconnect")
            /\ UNCHANGED <<cancelled, proxy>>
       ELSE /\ HandlerAt(h, "stop", "wait")
            /\ cancelled' = TRUE
            /\ proxy' = IF proxy = "reconnector" THEN "none" ELSE proxy
    /\ UNCHANGED <<smVars, rpc, retries, failoverAttempted, alternatives, failed, tripped,
                   ksActive, pendingStarts, req, userOff, envVars>>

\* Client.Disconnect; a Disconnect request is then answered.
Disconnect(h) ==
    /\ HandlerAt(h, "disconnect", IF req[h] = "select" THEN "connect" ELSE "idle")
    /\ userOff' = (req[h] = "disconnect" \/ userOff)
    /\ SetState("disconnected")
    /\ UNCHANGED <<recVars, tripped, dnsVars, pendingStarts, req, envVars>>

HandlerConnect(h) ==
    /\ HandlerAt(h, "connect", "connecting")
    /\ SetState("connecting")
    /\ UNCHANGED <<recVars, tripped, dnsVars, pendingStarts, req, userOff, envVars>>

HandlerConnected(h, ok) ==
    /\ HandlerAt(h, "connecting", "respond")
    /\ SetState(IF ok THEN "connected" ELSE "disconnected")
    /\ UNCHANGED <<recVars, tripped, dnsVars, pendingStarts, req, userOff, envVars>>

\* `go r.Start(prg.Context())`, then the answer.
Respond(h) ==
    /\ HandlerAt(h, "respond", "idle")
    /\ pendingStarts < MaxPendingStarts
    /\ pendingStarts' = pendingStarts + 1
    /\ UNCHANGED <<smVars, recVars, tripped, dnsVars, req, userOff, envVars>>

HandlerStep(h) ==
    \/ ResetTripped(h) \/ ResetFailed(h) \/ StopReconnector(h) \/ Disconnect(h)
    \/ HandlerConnect(h) \/ HandlerConnected(h, TRUE) \/ HandlerConnected(h, FALSE)
    \/ Respond(h)

-----------------------------------------------------------------------------
(* Detection of a lost link, and the TUN recovery sequence.                 *)

\* recordDoHFailure and heartbeatLoop read the state, then set it: two steps.
DetectLoss(d) ==
    /\ current = "connected" /\ d \notin tripping
    /\ tripping' = tripping \cup {d}
    /\ UNCHANGED <<smVars, recVars, tripped, dnsVars, ipcVars, tunRecovery>>

ReportLoss(d) ==
    /\ d \in tripping
    /\ tripping' = tripping \ {d}
    /\ SetState("disconnected")
    /\ UNCHANGED <<recVars, tripped, dnsVars, ipcVars, tunRecovery>>

\* recoverTUN ends with ResetTransport and Connect, beside the Reconnector.
RecoverTUN ==
    /\ RecoveryEnabled /\ tunRecovery = "idle"
    /\ tunRecovery' = "connecting"
    /\ SetState("connecting")
    /\ UNCHANGED <<recVars, tripped, dnsVars, ipcVars, tripping>>

RecoverTUNEnds(ok) ==
    /\ tunRecovery = "connecting"
    /\ tunRecovery' = "idle"
    /\ SetState(IF ok THEN "connected" ELSE "disconnected")
    /\ UNCHANGED <<recVars, tripped, dnsVars, ipcVars, tripping>>

-----------------------------------------------------------------------------
Next ==
    \/ Start \/ Exit \/ Reconnector
    \/ \E h \in Handlers : HandlerStep(h) \/ \E r \in Requests : Request(h, r)
    \/ \E d \in Detectors : DetectLoss(d) \/ ReportLoss(d)
    \/ RecoverTUN \/ RecoverTUNEnds(TRUE) \/ RecoverTUNEnds(FALSE)

Spec == Init /\ [][Next]_vars

(***************************************************************************)
(* Goroutines that can run do run: the Reconnector (its timers fire, a     *)
(* Connect ends within its 5 s timeout; a cancelled select always sees     *)
(* ctx.Done in the end), the spawned Start, a handler between two of its   *)
(* steps, a detector past its check.  Nothing makes users send requests    *)
(* or links fail.                                                          *)
(***************************************************************************)
Fairness ==
    /\ WF_vars(Reconnector) /\ SF_vars(Exit) /\ WF_vars(Start)
    /\ \A h \in Handlers : WF_vars(HandlerStep(h))
    /\ \A d \in Detectors : WF_vars(ReportLoss(d))
    /\ WF_vars(RecoverTUNEnds(TRUE) \/ RecoverTUNEnds(FALSE))

FairSpec == Spec /\ Fairness

-----------------------------------------------------------------------------
(* Safety.                                                                  *)

\* The steps of a cycle that run with DNS cut off.
BlockedPcs == {"backoff", "connecting", "failover", "failoverConnecting", "trip",
               "hook", "setFailed"}

(***************************************************************************)
(* DNS is blocked for the whole of a reconnection, from the end of the     *)
(* activation (even a failed one) until a Connect succeeds                 *)
(* (reconnect.go:241-250): no handler revives the proxy meanwhile.         *)
(***************************************************************************)
DNSBlockedWhileReconnecting == rpc \in BlockedPcs => proxy = "none"

(***************************************************************************)
(* The kill switch is sound: while it reports itself active no DNS proxy   *)
(* answers, whoever started it and under whatever context                  *)
(* (kill_switch.go:17-29).                                                 *)
(***************************************************************************)
KillSwitchSound == ksActive => proxy = "none"

(***************************************************************************)
(* The circuit breaker leaves DNS blocked: as long as the Reconnector      *)
(* refuses to reconnect, the proxy stays down (reconnect.go:311-314).      *)
(***************************************************************************)
BreakerKeepsDNSBlocked == failed => proxy = "none"

(***************************************************************************)
(* The breaker trips strictly after a failover, when there is one to try   *)
(* (reconnect.go:38-41).                                                   *)
(***************************************************************************)
FailoverBeforeBreaker == rpc = "trip" /\ HasFailover => failoverAttempted

(***************************************************************************)
(* Whatever the channel dropped and whatever the handlers did, a           *)
(* Reconnector that sits in its select with nothing to read has not missed *)
(* a loss (state.go:38-40): a state still "disconnected" is one nobody has *)
(* to act on, because Stop was called or the breaker is open, or a handler *)
(* is between its reset of the breaker and its own Set.                    *)
(***************************************************************************)
NoLostDisconnect ==
    rpc = "select" /\ ~cancelled /\ updates = <<>> /\ current = "disconnected" =>
        failed \/ \E h \in Handlers : hpc[h] \in {"stop", "disconnect", "connect"}

-----------------------------------------------------------------------------
(* Liveness.                                                                *)

(***************************************************************************)
(* Every reconnection cycle ends: it connects, fails over, trips the       *)
(* breaker or is cancelled.                                                *)
(***************************************************************************)
CycleTerminates == rpc \in CyclePcs ~> rpc \notin CyclePcs

(***************************************************************************)
(* A handler waiting in Reconnector.Stop is released, also when Stop finds *)
(* a cycle running or a backlog of notifications (reconnect.go:186-198).   *)
(***************************************************************************)
StopTerminates == \A h \in Handlers : hpc[h] = "wait" ~> hpc[h] # "wait"

(***************************************************************************)
(* A loss is acted upon: the state leaves "disconnected", or nobody is to  *)
(* act on it because the Reconnector was stopped or its breaker is open.   *)
(***************************************************************************)
LossIsHandled ==
    current = "disconnected" ~> current # "disconnected" \/ rpc = "stopped" \/ failed

-----------------------------------------------------------------------------
(* Refinement.                                                              *)

Promise == INSTANCE ReconnectPromise WITH
    phase <- IF rpc = "stopped" THEN "off"
             ELSE IF rpc \in {"select", "hook", "setFailed"} THEN "watching"
             ELSE IF rpc \in {"reset", "activate", "reactivate"} THEN "cutting"
             ELSE IF rpc \in {"deactivate", "redeactivate"} THEN "restoring"
             ELSE "blocked",
    dns <- IF proxy = "none" THEN "blocked" ELSE "open",
    gaveUp <- failed,
    connected <- current = "connected"

(***************************************************************************)
(* The Reconnector, its kill switch and the handlers around it implement   *)
(* the promise of ReconnectPromise.                                        *)
(***************************************************************************)
KeepsPromise == Promise!Spec

-----------------------------------------------------------------------------
(* What comments of the code claim and the code does not do.                *)

(***************************************************************************)
(* handler.go:463: after a user-initiated Disconnect nothing reconnects by *)
(* itself.                                                                 *)
(***************************************************************************)
DisconnectIsFinal ==
    [][userOff => ~(rpc \notin CyclePcs /\ rpc' \in CyclePcs)]_vars
=============================================================================
