-------------------------- MODULE ReconnectProofs --------------------------
(***************************************************************************)
(* Proofs about the Reconnector, its kill switch and the IPC handlers, for *)
(* any number of handlers and detectors and any thresholds that pass the   *)
(* check of init().  The inductive invariant is IInv; each of its parts is *)
(* preserved by a lemma of its own.                                        *)
(***************************************************************************)
EXTENDS Reconnect, StateManagerLemmas, TLAPS

(***************************************************************************)
(* The retry counter counts the failures of the running cycle: zero        *)
(* outside, below the threshold whenever another attempt is due.           *)
(***************************************************************************)
RetriesCounted ==
    /\ rpc \in {"stopped", "select", "reset", "activate", "reactivate"} => retries = 0
    /\ rpc \in {"backoff", "connecting"} => retries < CircuitBreakerThreshold

(***************************************************************************)
(* A failover is recorded before it begins, and the breaker is reached     *)
(* only with the failover behind it.                                       *)
(***************************************************************************)
FailoverRecorded ==
    /\ rpc \in {"failover", "failoverConnecting"} => failoverAttempted
    /\ FailoverBeforeBreaker

(***************************************************************************)
(* The Reconnector that gave up is out of its cycle, with DNS blocked.     *)
(***************************************************************************)
GaveUpIsBlocked ==
    failed => proxy = "none" /\ rpc \in {"hook", "setFailed", "select", "stopped"}

DNSInv == KillSwitchSound /\ DNSBlockedWhileReconnecting /\ GaveUpIsBlocked

Waiting == \E h \in Handlers : hpc[h] = "wait"

(***************************************************************************)
(* Handlers wait in Stop exactly while the Start they cancelled runs; the  *)
(* end of a successful cycle has left notifications; and outside a cycle a *)
(* loss not in the channel is one somebody is responsible for.             *)
(***************************************************************************)
LossInv ==
    /\ NewestIsCurrent
    /\ cancelled /\ rpc # "stopped" => Waiting
    /\ Waiting => cancelled /\ rpc # "stopped"
    /\ rpc \in {"deactivate", "redeactivate"} => updates # <<>>
    /\ rpc \in {"select", "stopped"} /\ updates = <<>> /\ current = "disconnected" =>
         failed \/ \E h \in Handlers : hpc[h] \in {"stop", "wait", "disconnect", "connect"}

IInv == TypeOK /\ RetriesCounted /\ FailoverRecorded /\ DNSInv /\ LossInv

-----------------------------------------------------------------------------
(***************************************************************************)
(* The initial state satisfies the invariant (service.go:1567-1639).       *)
(***************************************************************************)
LEMMA InitIInv == Init => IInv
<1>1. SUFFICES ASSUME Init PROVE IInv
  OBVIOUS
<1>2. /\ <<>> \in Seq(ConnState)
      /\ Len(<<>>) = 0
      /\ Len(<<>>) <= UpdatesCap
  BY EmptySeq, UpdatesCapAssumption
<1>3. DEFINE q == Push(<<>>, "connecting")
<1>4. /\ q \in Seq(ConnState)
      /\ Len(q) <= UpdatesCap
  <2>1. "connecting" \in ConnState
    BY DEF ConnState
  <2>2. q \in Seq(ConnState) /\ Len(q) \in 1..UpdatesCap
    BY <1>2, <2>1, PushKeepsNewest
  <2>3. QED
    BY <2>2, UpdatesCapAssumption
<1>5. /\ updates \in Seq(ConnState)
      /\ Len(updates) <= UpdatesCap
      /\ updates # <<>>
      /\ updates[Len(updates)] = current
  <2>1. "connected" \in ConnState
    BY DEF ConnState
  <2>2. updates = Push(q, "connected") /\ current = "connected"
    BY <1>1 DEF Init
  <2>3. /\ updates \in Seq(ConnState)
        /\ Len(updates) \in 1..UpdatesCap
        /\ updates # <<>>
        /\ updates[Len(updates)] = "connected"
    <3>1. HIDE DEF q
    <3>2. QED
      BY <1>4, <2>1, <2>2, PushKeepsNewest
  <2>4. QED
    BY <2>2, <2>3, UpdatesCapAssumption
<1>6. SMTypeOK
  BY <1>1, <1>5 DEF Init, SMTypeOK, ConnState
<1>7. TypeOK
  <2>1. /\ 0 \in 0..CircuitBreakerThreshold
        /\ 0 \in 0..MaxAlternatives
        /\ 0 \in 0..MaxPendingStarts
    BY ReconnectAssumption
  <2>2. hpc \in [Handlers -> HandlerPcs] /\ req \in [Handlers -> RequestKinds]
    BY <1>1 DEF Init, HandlerPcs, RequestKinds
  <2>3. rpc \in RecPcs /\ proxy \in {"none", "service", "reconnector"}
    BY <1>1 DEF Init, RecPcs
  <2>4. QED
    BY <1>1, <1>6, <2>1, <2>2, <2>3 DEF Init, TypeOK
<1>8. RetriesCounted /\ FailoverRecorded /\ DNSInv
  BY <1>1 DEF Init, RetriesCounted, FailoverRecorded, FailoverBeforeBreaker, DNSInv,
     KillSwitchSound, DNSBlockedWhileReconnecting, BlockedPcs, GaveUpIsBlocked
<1>9. LossInv
  BY <1>1, <1>5 DEF Init, LossInv, NewestIsCurrent, Waiting
<1>10. QED
  BY <1>7, <1>8, <1>9 DEF IInv

-----------------------------------------------------------------------------
(***************************************************************************)
(* The state manager keeps its type: every step either leaves it alone,    *)
(* Sets a state or takes a notification.                                   *)
(***************************************************************************)
LEMMA NextOnStateManager ==
    ASSUME [Next]_vars
    PROVE  \/ UNCHANGED smVars
           \/ \E s \in ConnState : SetState(s)
           \/ Receive /\ TakeUpdate
<1>1. /\ "disconnected" \in ConnState
      /\ "connecting" \in ConnState
      /\ "connected" \in ConnState
      /\ "failed" \in ConnState
  BY DEF ConnState
<1>2. CASE Start \/ Exit \/ UNCHANGED vars
  BY <1>2 DEF Start, Exit, vars, smVars
<1>3. CASE TakeUpdate
  BY <1>3 DEF TakeUpdate
<1>4. CASE Cycle
  BY <1>1, <1>4 DEF Cycle, TearDown, ActivateKillSwitch, ReactivateKillSwitch,
     BackoffElapses, BackoffCancelled, ConnectFails, ConnectSucceeds, TryAlternative,
     FailoverExhausted, AlternativeFails, AlternativeSucceeds, Trip, BreakerHook,
     BreakerSetsFailed, DeactivateKillSwitch, RedeactivateKillSwitch
<1>5. ASSUME NEW h \in Handlers, HandlerStep(h) \/ \E r \in Requests : Request(h, r)
      PROVE  UNCHANGED smVars \/ \E s \in ConnState : SetState(s)
  BY <1>1, <1>5 DEF HandlerStep, ResetTripped, ResetFailed, StopReconnector, Disconnect,
     HandlerConnect, HandlerConnected, Respond, Request
<1>6. ASSUME NEW d \in Detectors, DetectLoss(d) \/ ReportLoss(d)
      PROVE  UNCHANGED smVars \/ \E s \in ConnState : SetState(s)
  BY <1>1, <1>6 DEF DetectLoss, ReportLoss
<1>7. CASE RecoverTUN \/ RecoverTUNEnds(TRUE) \/ RecoverTUNEnds(FALSE)
  BY <1>1, <1>7 DEF RecoverTUN, RecoverTUNEnds
<1>8. QED
  BY <1>2, <1>3, <1>4, <1>5, <1>6, <1>7 DEF Next, Reconnector

LEMMA SMTypeStep == ASSUME TypeOK, [Next]_vars PROVE SMTypeOK'
<1>1. SMTypeOK
  BY DEF TypeOK
<1>2. CASE UNCHANGED smVars
  BY <1>1, <1>2 DEF smVars, SMTypeOK
<1>3. ASSUME NEW s \in ConnState, SetState(s) PROVE SMTypeOK'
  BY <1>1, <1>3, SetKeepsType
<1>4. CASE Receive
  BY <1>1, <1>4, ReceiveKeepsType
<1>5. QED
  BY <1>2, <1>3, <1>4, NextOnStateManager

(***************************************************************************)
(* Where the Reconnector goes and what it counts: types and RetriesCounted *)
(* for its variables.                                                      *)
(***************************************************************************)
RecTypeOK ==
    /\ rpc \in RecPcs
    /\ cancelled \in BOOLEAN
    /\ retries \in 0..CircuitBreakerThreshold
    /\ failoverAttempted \in BOOLEAN
    /\ alternatives \in 0..MaxAlternatives
    /\ failed \in BOOLEAN

LEMMA ReturnStep ==
    ASSUME RecTypeOK, Return
    PROVE  RecTypeOK' /\ RetriesCounted' /\ rpc' = "select"
<1>1. 0 \in 0..CircuitBreakerThreshold /\ 0 \in 0..MaxAlternatives
  BY ReconnectAssumption
<1>2. rpc' = "select" /\ RecTypeOK'
  BY <1>1 DEF RecTypeOK, Return, RecPcs
<1>3. RetriesCounted'
  BY <1>2 DEF RetriesCounted, Return
<1>4. QED
  BY <1>2, <1>3

LEMMA GotoStep ==
    ASSUME RecTypeOK, NEW pc \in RecPcs, Goto(pc),
           pc \in {"stopped", "select", "reset", "activate", "reactivate"} => retries = 0,
           pc \in {"backoff", "connecting"} => retries < CircuitBreakerThreshold
    PROVE  RecTypeOK' /\ RetriesCounted'
  BY DEF RecTypeOK, Goto, RetriesCounted

LEMMA FailureStep ==
    ASSUME RecTypeOK, RetriesCounted, ConnectFails
    PROVE  RecTypeOK' /\ RetriesCounted'
<1>1. CASE cancelled
  BY <1>1, ReturnStep DEF ConnectFails
<1>2. CASE ~cancelled
  <2>1. /\ retries' = retries + 1
        /\ retries \in Nat
        /\ retries < CircuitBreakerThreshold
        /\ retries' \in 0..CircuitBreakerThreshold
    BY <1>2, ReconnectAssumption DEF ConnectFails, RecTypeOK, RetriesCounted
  <2>2. CASE rpc' = "failover"
    BY <1>2, <2>1, <2>2 DEF ConnectFails, AfterFailure, RecTypeOK, RetriesCounted, RecPcs, CyclePcs
  <2>3. CASE rpc' = AfterFailure(retries')
    BY <1>2, <2>1, <2>3, ReconnectAssumption
       DEF ConnectFails, AfterFailure, RecTypeOK, RetriesCounted, RecPcs, CyclePcs
  <2>4. QED
    BY <1>2, <2>2, <2>3 DEF ConnectFails
<1>3. QED
  BY <1>1, <1>2 DEF RecTypeOK

LEMMA RecTypeStep ==
    ASSUME RecTypeOK, RetriesCounted, [Next]_vars
    PROVE  RecTypeOK' /\ RetriesCounted'
<1>1. CASE UNCHANGED recVars
  BY <1>1 DEF recVars, RecTypeOK, RetriesCounted
<1>2. CASE Start \/ Exit \/ TakeUpdate
  <2>1. CASE Start
    BY <2>1 DEF Start, RecTypeOK, RetriesCounted, RecPcs, CyclePcs
  <2>2. CASE Exit
    BY <2>2, GotoStep DEF Exit, RetriesCounted, RecPcs
  <2>3. CASE TakeUpdate
    BY <2>3, GotoStep DEF TakeUpdate, RetriesCounted, RecPcs, CyclePcs
  <2>4. QED
    BY <1>2, <2>1, <2>2, <2>3
<1>3. CASE TearDown \/ ActivateKillSwitch \/ ReactivateKillSwitch \/ BackoffElapses
  <2>1. /\ {"activate", "backoff", "reactivate", "connecting"} \subseteq RecPcs
        /\ 0 < CircuitBreakerThreshold
    BY ReconnectAssumption DEF RecPcs, CyclePcs
  <2>2. CASE TearDown
    BY <2>1, <2>2, GotoStep DEF TearDown, RetriesCounted
  <2>3. CASE ActivateKillSwitch
    BY <2>1, <2>3, GotoStep DEF ActivateKillSwitch, RetriesCounted
  <2>4. CASE ReactivateKillSwitch
    BY <2>1, <2>4, GotoStep, ReturnStep DEF ReactivateKillSwitch, RetriesCounted
  <2>5. CASE BackoffElapses
    BY <2>1, <2>5, GotoStep DEF BackoffElapses, RetriesCounted
  <2>6. QED
    BY <1>3, <2>2, <2>3, <2>4, <2>5
<1>4. CASE BackoffCancelled
  BY <1>4, ReturnStep DEF BackoffCancelled
<1>5. CASE ConnectFails
  BY <1>5, FailureStep
<1>6. CASE TryAlternative
  BY <1>6, ReconnectAssumption DEF TryAlternative, RecTypeOK, RetriesCounted, RecPcs, CyclePcs
<1>7. CASE FailoverExhausted
  <2>1. AfterFailure(retries) \in RecPcs
    BY DEF AfterFailure, RecPcs, CyclePcs
  <2>2. AfterFailure(retries) = "backoff" => retries < CircuitBreakerThreshold
    BY ReconnectAssumption DEF AfterFailure, RecTypeOK
  <2>3. AfterFailure(retries) \in {"trip", "backoff"}
    BY DEF AfterFailure
  <2>4. QED
    BY <1>7, <2>1, <2>2, <2>3, GotoStep DEF FailoverExhausted
<1>8. CASE AlternativeFails \/ AlternativeSucceeds \/ ConnectSucceeds \/ BreakerHook
  BY <1>8, GotoStep DEF AlternativeFails, AlternativeSucceeds, ConnectSucceeds, BreakerHook,
     RecPcs, CyclePcs
<1>9. CASE Trip
  BY <1>9 DEF Trip, RecTypeOK, RetriesCounted, RecPcs, CyclePcs
<1>10. CASE BreakerSetsFailed \/ RedeactivateKillSwitch
  BY <1>10, ReturnStep DEF BreakerSetsFailed, RedeactivateKillSwitch
<1>11. CASE DeactivateKillSwitch
  BY <1>11, ReturnStep, GotoStep DEF DeactivateKillSwitch, RecPcs, CyclePcs
<1>12. ASSUME NEW h \in Handlers, HandlerStep(h) \/ \E r \in Requests : Request(h, r)
       PROVE  RecTypeOK' /\ RetriesCounted'
  <2>1. CASE ResetFailed(h)
    BY <2>1 DEF ResetFailed, RecTypeOK, RetriesCounted
  <2>2. CASE StopReconnector(h)
    BY <2>2 DEF StopReconnector, RecTypeOK, RetriesCounted
  <2>3. CASE UNCHANGED recVars
    BY <1>1, <2>3
  <2>4. QED
    BY <1>12, <2>1, <2>2, <2>3 DEF HandlerStep, ResetTripped, Disconnect,
       HandlerConnect, HandlerConnected, Respond, Request
<1>13. CASE \/ \E d \in Detectors : DetectLoss(d) \/ ReportLoss(d)
            \/ RecoverTUN \/ RecoverTUNEnds(TRUE) \/ RecoverTUNEnds(FALSE)
            \/ UNCHANGED vars
  BY <1>1, <1>13 DEF DetectLoss, ReportLoss, RecoverTUN, RecoverTUNEnds, vars
<1>14. QED
  BY <1>2, <1>3, <1>4, <1>5, <1>6, <1>7, <1>8, <1>9, <1>10, <1>11, <1>12, <1>13
     DEF Next, Reconnector, Cycle

-----------------------------------------------------------------------------
(***************************************************************************)
(* Types of the remaining variables.                                       *)
(***************************************************************************)
OtherTypeOK ==
    /\ tripped \in BOOLEAN
    /\ ksActive \in BOOLEAN
    /\ proxy \in {"none", "service", "reconnector"}
    /\ tripping \in SUBSET Detectors
    /\ pendingStarts \in 0..MaxPendingStarts
    /\ hpc \in [Handlers -> HandlerPcs]
    /\ req \in [Handlers -> RequestKinds]
    /\ tunRecovery \in {"idle", "connecting"}
    /\ userOff \in BOOLEAN

LEMMA TypeOKParts == TypeOK <=> SMTypeOK /\ RecTypeOK /\ OtherTypeOK
  BY DEF TypeOK, RecTypeOK, OtherTypeOK

LEMMA KillSwitchTypes ==
    ASSUME OtherTypeOK, NEW ok \in BOOLEAN, Activate(ok) \/ Deactivate(ok)
    PROVE  ksActive' \in BOOLEAN /\ proxy' \in {"none", "service", "reconnector"}
  BY DEF Activate, Deactivate, OtherTypeOK, dnsVars

LEMMA HandlerMoves ==
    ASSUME OtherTypeOK, NEW h \in Handlers, NEW from, NEW to \in HandlerPcs,
           HandlerAt(h, from, to)
    PROVE  hpc' \in [Handlers -> HandlerPcs]
  BY DEF OtherTypeOK, HandlerAt

LEMMA OtherTypeStep ==
    ASSUME OtherTypeOK, [Next]_vars
    PROVE  OtherTypeOK'
<1>1. CASE UNCHANGED <<tripped, dnsVars, ipcVars, envVars>>
  BY <1>1 DEF OtherTypeOK, dnsVars, ipcVars, envVars
<1>2. CASE Start
  BY <1>2, ReconnectAssumption DEF Start, OtherTypeOK, dnsVars, envVars
<1>3. CASE Exit
  BY <1>3 DEF Exit, OtherTypeOK, HandlerPcs, dnsVars, envVars
<1>4. CASE ActivateKillSwitch \/ ReactivateKillSwitch \/ DeactivateKillSwitch
           \/ RedeactivateKillSwitch
  <2>1. UNCHANGED <<tripped, ipcVars, envVars>>
    BY <1>4 DEF ActivateKillSwitch, ReactivateKillSwitch, DeactivateKillSwitch,
       RedeactivateKillSwitch
  <2>2. UNCHANGED dnsVars \/ \E ok \in BOOLEAN : Activate(ok) \/ Deactivate(ok)
    BY <1>4 DEF ActivateKillSwitch, ReactivateKillSwitch, DeactivateKillSwitch,
       RedeactivateKillSwitch
  <2>3. QED
    BY <2>1, <2>2, KillSwitchTypes DEF OtherTypeOK, dnsVars, ipcVars, envVars
<1>5. CASE BreakerHook
  BY <1>5 DEF BreakerHook, OtherTypeOK, dnsVars, ipcVars, envVars
<1>6. ASSUME NEW h \in Handlers, HandlerStep(h)
      PROVE  OtherTypeOK'
  <2>1. HandlerPcs = {"idle", "resetTripped", "resetFailed", "stop", "wait", "disconnect",
                      "connect", "connecting", "respond"}
    BY DEF HandlerPcs
  <2>2. \E from, to \in HandlerPcs : HandlerAt(h, from, to)
    BY <1>6, <2>1 DEF HandlerStep, ResetTripped, ResetFailed, StopReconnector, Disconnect,
       HandlerConnect, HandlerConnected, Respond
  <2>3. hpc' \in [Handlers -> HandlerPcs]
    BY <2>2, HandlerMoves
  <2>4. UNCHANGED <<req, envVars, ksActive>>
    BY <1>6 DEF HandlerStep, ResetTripped, ResetFailed, StopReconnector, Disconnect,
       HandlerConnect, HandlerConnected, Respond, dnsVars
  <2>5. pendingStarts' \in 0..MaxPendingStarts
    BY <1>6, ReconnectAssumption DEF HandlerStep, ResetTripped, ResetFailed, StopReconnector,
       Disconnect, HandlerConnect, HandlerConnected, Respond, OtherTypeOK
  <2>6. /\ tripped' \in BOOLEAN
        /\ userOff' \in BOOLEAN
        /\ proxy' \in {"none", "service", "reconnector"}
    BY <1>6 DEF HandlerStep, ResetTripped, ResetFailed, StopReconnector,
       Disconnect, HandlerConnect, HandlerConnected, Respond, OtherTypeOK, dnsVars
  <2>7. QED
    BY <2>3, <2>4, <2>5, <2>6 DEF OtherTypeOK, envVars
<1>7. ASSUME NEW h \in Handlers, NEW r \in Requests, Request(h, r)
      PROVE  OtherTypeOK'
  <2>1. r \in RequestKinds
    BY ReconnectAssumption
  <2>2. hpc' \in [Handlers -> HandlerPcs]
    BY <1>7, HandlerMoves DEF Request, HandlerPcs
  <2>3. QED
    BY <1>7, <2>1, <2>2 DEF Request, OtherTypeOK, dnsVars, envVars
<1>8. ASSUME NEW d \in Detectors, DetectLoss(d) \/ ReportLoss(d)
      PROVE  OtherTypeOK'
  BY <1>8 DEF DetectLoss, ReportLoss, OtherTypeOK, dnsVars, ipcVars
<1>9. CASE RecoverTUN \/ RecoverTUNEnds(TRUE) \/ RecoverTUNEnds(FALSE)
  BY <1>9 DEF RecoverTUN, RecoverTUNEnds, OtherTypeOK, dnsVars, ipcVars
<1>10. CASE TakeUpdate \/ Cycle \/ UNCHANGED vars
  BY <1>1, <1>4, <1>5, <1>10 DEF TakeUpdate, Cycle, TearDown, BackoffElapses, BackoffCancelled,
     ConnectFails, ConnectSucceeds, TryAlternative, FailoverExhausted, AlternativeFails,
     AlternativeSucceeds, Trip, BreakerSetsFailed, vars
<1>11. QED
  BY <1>2, <1>3, <1>6, <1>7, <1>8, <1>9, <1>10 DEF Next, Reconnector

(***************************************************************************)
(* Type correctness, for every value of the constants.                     *)
(***************************************************************************)
LEMMA TypeStep ==
    ASSUME TypeOK, RetriesCounted, [Next]_vars
    PROVE  TypeOK' /\ RetriesCounted'
<1>1. SMTypeOK /\ RecTypeOK /\ OtherTypeOK
  BY TypeOKParts
<1>2. SMTypeOK' /\ RecTypeOK' /\ OtherTypeOK' /\ RetriesCounted'
  BY <1>1, SMTypeStep, RecTypeStep, OtherTypeStep
<1>3. QED
  BY <1>2 DEF TypeOK, RecTypeOK, OtherTypeOK

-----------------------------------------------------------------------------
(***************************************************************************)
(* The failover comes before the breaker.                                  *)
(***************************************************************************)
LEMMA FailoverStep ==
    ASSUME TypeOK, RetriesCounted, FailoverRecorded, [Next]_vars
    PROVE  FailoverRecorded'
<1>1. CASE UNCHANGED <<rpc, failoverAttempted>>
  BY <1>1 DEF FailoverRecorded, FailoverBeforeBreaker
<1>2. CASE rpc' \notin {"failover", "failoverConnecting", "trip"}
  BY <1>2 DEF FailoverRecorded, FailoverBeforeBreaker
<1>3. CASE ConnectFails
  <2>1. CASE cancelled
    BY <1>2, <1>3, <2>1 DEF ConnectFails, Return
  <2>2. CASE ~cancelled /\ rpc' = "trip"
    <3>1. retries' = retries + 1 /\ retries \in Nat
      BY <1>3, <2>2, ReconnectAssumption DEF ConnectFails, TypeOK
    <3>2. retries' >= CircuitBreakerThreshold
      BY <1>3, <2>2, <3>1 DEF ConnectFails, AfterFailure
    <3>3. retries' >= MaxRetriesBeforeFailover
      BY <3>1, <3>2, ReconnectAssumption
    <3>4. HasFailover => failoverAttempted
      BY <1>3, <2>2, <3>3 DEF ConnectFails
    <3>5. UNCHANGED failoverAttempted
      BY <1>3, <2>2 DEF ConnectFails
    <3>6. QED
      BY <2>2, <3>4, <3>5 DEF FailoverRecorded, FailoverBeforeBreaker
  <2>3. CASE ~cancelled /\ rpc' # "trip"
    BY <1>3, <2>3 DEF ConnectFails, AfterFailure, FailoverRecorded, FailoverBeforeBreaker
  <2>4. QED
    BY <2>1, <2>2, <2>3 DEF TypeOK
<1>4. CASE TryAlternative \/ FailoverExhausted \/ AlternativeFails
  BY <1>4 DEF TryAlternative, FailoverExhausted, AlternativeFails, Goto, FailoverRecorded,
     FailoverBeforeBreaker
<1>5. CASE TakeUpdate \/ Start \/ Exit
  BY <1>1, <1>2, <1>5 DEF TakeUpdate, Start, Exit, Goto
<1>6. CASE Cycle
  BY <1>2, <1>3, <1>4, <1>6 DEF Cycle, TearDown, ActivateKillSwitch, ReactivateKillSwitch,
     BackoffElapses, BackoffCancelled, ConnectSucceeds, AlternativeSucceeds, Trip, BreakerHook,
     BreakerSetsFailed, DeactivateKillSwitch, RedeactivateKillSwitch, Goto, Return
<1>7. ASSUME NEW h \in Handlers, HandlerStep(h) \/ \E r \in Requests : Request(h, r)
      PROVE  UNCHANGED <<rpc, failoverAttempted>>
  BY <1>7 DEF HandlerStep, ResetTripped, ResetFailed, StopReconnector, Disconnect,
     HandlerConnect, HandlerConnected, Respond, Request, recVars
<1>8. CASE \/ \E d \in Detectors : DetectLoss(d) \/ ReportLoss(d)
           \/ RecoverTUN \/ RecoverTUNEnds(TRUE) \/ RecoverTUNEnds(FALSE)
           \/ UNCHANGED vars
  BY <1>1, <1>8 DEF DetectLoss, ReportLoss, RecoverTUN, RecoverTUNEnds, vars, recVars
<1>9. QED
  BY <1>1, <1>5, <1>6, <1>7, <1>8 DEF Next, Reconnector

-----------------------------------------------------------------------------
(***************************************************************************)
(* DNS stays cut off.                                                      *)
(***************************************************************************)
LEMMA ActivateCuts ==
    ASSUME KillSwitchSound, NEW ok \in BOOLEAN, Activate(ok)
    PROVE  KillSwitchSound' /\ proxy' = "none"
  BY DEF Activate, KillSwitchSound, dnsVars

LEMMA DeactivateSound ==
    ASSUME KillSwitchSound, ksActive \in BOOLEAN, NEW ok \in BOOLEAN, Deactivate(ok)
    PROVE  KillSwitchSound'
  BY DEF Deactivate, KillSwitchSound, dnsVars

LEMMA DNSStep ==
    ASSUME TypeOK, DNSInv, [Next]_vars
    PROVE  DNSInv'
<1> USE DEF DNSInv
<1>1. CASE UNCHANGED <<rpc, failed, dnsVars>>
  BY <1>1 DEF dnsVars, KillSwitchSound, DNSBlockedWhileReconnecting, GaveUpIsBlocked
<1>2. CASE Start \/ Exit \/ TakeUpdate
  BY <1>2 DEF Start, Exit, TakeUpdate, Goto, dnsVars, KillSwitchSound,
     DNSBlockedWhileReconnecting, BlockedPcs, GaveUpIsBlocked
<1>3. CASE TearDown
  BY <1>3 DEF TearDown, Goto, dnsVars, KillSwitchSound,
     DNSBlockedWhileReconnecting, BlockedPcs, GaveUpIsBlocked
<1>4. CASE ActivateKillSwitch
  BY <1>4, ActivateCuts DEF ActivateKillSwitch, Goto,
     DNSBlockedWhileReconnecting, BlockedPcs, GaveUpIsBlocked
<1>5. CASE ReactivateKillSwitch
  <2>1. CASE Return /\ UNCHANGED dnsVars
    BY <1>5, <2>1 DEF ReactivateKillSwitch, Return, dnsVars, KillSwitchSound,
       DNSBlockedWhileReconnecting, BlockedPcs, GaveUpIsBlocked
  <2>2. CASE Goto("backoff") /\ \E ok \in BOOLEAN : Activate(ok)
    BY <1>5, <2>2, ActivateCuts DEF ReactivateKillSwitch, Goto,
       DNSBlockedWhileReconnecting, BlockedPcs, GaveUpIsBlocked
  <2>3. QED
    BY <1>5, <2>1, <2>2 DEF ReactivateKillSwitch
<1>6. CASE DeactivateKillSwitch \/ RedeactivateKillSwitch
  <2>1. KillSwitchSound'
    <3>1. UNCHANGED dnsVars \/ \E ok \in BOOLEAN : Deactivate(ok)
      BY <1>6 DEF DeactivateKillSwitch, RedeactivateKillSwitch
    <3>2. QED
      BY <3>1, DeactivateSound DEF TypeOK, KillSwitchSound, dnsVars
  <2>2. ~failed /\ ~failed' /\ rpc' \notin BlockedPcs
    BY <1>6 DEF DeactivateKillSwitch, RedeactivateKillSwitch, Goto, Return, GaveUpIsBlocked,
       BlockedPcs
  <2>3. QED
    BY <2>1, <2>2 DEF DNSBlockedWhileReconnecting, GaveUpIsBlocked
<1>7. CASE ConnectFails
  <2>1. CASE Return
    BY <1>7, <2>1 DEF ConnectFails, Return, dnsVars, KillSwitchSound,
       DNSBlockedWhileReconnecting, BlockedPcs, GaveUpIsBlocked
  <2>2. CASE ~Return
    BY <1>7, <2>2 DEF ConnectFails, AfterFailure, dnsVars, KillSwitchSound,
       DNSBlockedWhileReconnecting, BlockedPcs, GaveUpIsBlocked
  <2>3. QED
    BY <2>1, <2>2
<1>8. CASE BackoffElapses \/ BackoffCancelled \/ ConnectSucceeds \/ AlternativeSucceeds
  BY <1>8 DEF BackoffElapses, BackoffCancelled, ConnectSucceeds, AlternativeSucceeds, Goto,
     Return, dnsVars, KillSwitchSound, DNSBlockedWhileReconnecting, BlockedPcs, GaveUpIsBlocked
<1>9. CASE TryAlternative \/ FailoverExhausted \/ AlternativeFails
  BY <1>9 DEF TryAlternative, FailoverExhausted, AlternativeFails, AfterFailure, Goto,
     dnsVars, KillSwitchSound, DNSBlockedWhileReconnecting, BlockedPcs, GaveUpIsBlocked
<1>10. CASE Trip \/ BreakerHook \/ BreakerSetsFailed
  BY <1>10 DEF Trip, BreakerHook, BreakerSetsFailed, Goto, Return,
     dnsVars, KillSwitchSound, DNSBlockedWhileReconnecting, BlockedPcs, GaveUpIsBlocked
<1>11. ASSUME NEW h \in Handlers, HandlerStep(h) \/ \E r \in Requests : Request(h, r)
       PROVE  DNSInv'
  <2>1. CASE ResetFailed(h)
    BY <2>1 DEF ResetFailed, dnsVars, KillSwitchSound, DNSBlockedWhileReconnecting,
       BlockedPcs, GaveUpIsBlocked
  <2>2. CASE StopReconnector(h)
    BY <2>2 DEF StopReconnector, KillSwitchSound, DNSBlockedWhileReconnecting,
       BlockedPcs, GaveUpIsBlocked
  <2>3. QED
    BY <1>1, <1>11, <2>1, <2>2 DEF HandlerStep, ResetTripped, Disconnect, HandlerConnect,
       HandlerConnected, Respond, Request, recVars
<1>12. CASE \/ \E d \in Detectors : DetectLoss(d) \/ ReportLoss(d)
            \/ RecoverTUN \/ RecoverTUNEnds(TRUE) \/ RecoverTUNEnds(FALSE)
            \/ UNCHANGED vars
  BY <1>1, <1>12 DEF DetectLoss, ReportLoss, RecoverTUN, RecoverTUNEnds, vars, recVars
<1>13. QED
  BY <1>2, <1>3, <1>4, <1>5, <1>6, <1>7, <1>8, <1>9, <1>10, <1>11, <1>12
     DEF Next, Reconnector, Cycle

-----------------------------------------------------------------------------
(***************************************************************************)
(* No loss is missed.  A step that Sets a state leaves it in the channel,  *)
(* so only a step that takes a notification, ends a cycle or moves a       *)
(* handler can leave a loss nobody sees.                                   *)
(***************************************************************************)
Responsible == \E h \in Handlers : hpc[h] \in {"stop", "wait", "disconnect", "connect"}

LEMMA NewestStep ==
    ASSUME TypeOK, NewestIsCurrent, [Next]_vars
    PROVE  NewestIsCurrent'
<1>1. SMTypeOK
  BY DEF TypeOK
<1>2. CASE UNCHANGED smVars
  BY <1>2 DEF smVars, NewestIsCurrent
<1>3. ASSUME NEW s \in ConnState, SetState(s) PROVE NewestIsCurrent'
  BY <1>1, <1>3, SetKeepsNewest
<1>4. CASE Receive
  BY <1>1, <1>4, ReceiveKeepsNewest
<1>5. QED
  BY <1>2, <1>3, <1>4, NextOnStateManager

LEMMA SetLeavesOne ==
    ASSUME TypeOK, NewestIsCurrent, NEW s \in ConnState, SetState(s)
    PROVE  updates' # <<>>
<1>1. SMTypeOK
  BY DEF TypeOK
<1>2. QED
  BY <1>1, SetKeepsNewest

LEMMA WaitingIsResponsible == Waiting => Responsible
  BY DEF Waiting, Responsible

LEMMA LossStep ==
    ASSUME TypeOK, DNSInv, LossInv, [Next]_vars
    PROVE  LossInv'
<1> DEFINE States == {"disconnected", "connecting", "connected", "failed"}
<1> USE DEF Responsible
<1>0. NewestIsCurrent' /\ \A s \in States : SetState(s) => updates' # <<>>
  BY NewestStep, SetLeavesOne DEF LossInv, ConnState
<1>1. CASE Start
  BY <1>0, <1>1 DEF Start, LossInv, Waiting, smVars
<1>2. CASE Exit
  <2>1. ~Waiting' /\ rpc' = "stopped"
    BY <1>2 DEF Exit, Goto, Waiting, TypeOK
  <2>2. \E h \in Handlers : hpc'[h] \in {"connect", "disconnect"}
    BY <1>2 DEF Exit, LossInv, Waiting, TypeOK
  <2>3. QED
    BY <1>0, <1>2, <2>1, <2>2 DEF Exit, LossInv, smVars
<1>3. CASE TakeUpdate
  <2>1. /\ UNCHANGED <<cancelled, hpc, current, failed>>
        /\ Receive
        /\ rpc = "select" /\ rpc' \in {"select", "reset"}
        /\ rpc' = "select" => failed \/ Head(updates) # "disconnected"
    BY <1>3 DEF TakeUpdate, Goto, ipcVars, Receive, TypeOK
  <2>2. updates' = <<>> => Head(updates) = current
    BY <2>1, ReceiveKeepsNewest DEF TypeOK, LossInv
  <2>3. QED
    BY <1>0, <2>1, <2>2 DEF LossInv, Waiting
<1>4. CASE Cycle
  <2>1. UNCHANGED <<cancelled, hpc>>
    BY <1>4 DEF Cycle, TearDown, ActivateKillSwitch, ReactivateKillSwitch,
       BackoffElapses, BackoffCancelled, ConnectFails, ConnectSucceeds, TryAlternative,
       FailoverExhausted, AlternativeFails, AlternativeSucceeds, Trip, BreakerHook,
       BreakerSetsFailed, DeactivateKillSwitch, RedeactivateKillSwitch, Goto, Return, ipcVars
  <2>2. rpc # "stopped" /\ rpc' # "stopped"
    BY <1>4 DEF Cycle, TearDown, ActivateKillSwitch, ReactivateKillSwitch,
       BackoffElapses, BackoffCancelled, ConnectFails, AfterFailure, ConnectSucceeds,
       TryAlternative, FailoverExhausted, AlternativeFails, AlternativeSucceeds, Trip,
       BreakerHook, BreakerSetsFailed, DeactivateKillSwitch, RedeactivateKillSwitch, Goto, Return
  <2>3. Waiting' = Waiting
    BY <2>1 DEF Waiting
  <2>4. rpc' \in {"deactivate", "redeactivate"} => updates' # <<>>
    BY <1>0, <1>4 DEF LossInv, Cycle, TearDown, ActivateKillSwitch, ReactivateKillSwitch,
       BackoffElapses, BackoffCancelled, ConnectFails, AfterFailure, ConnectSucceeds,
       TryAlternative, FailoverExhausted, AlternativeFails, AlternativeSucceeds, Trip,
       BreakerHook, BreakerSetsFailed, DeactivateKillSwitch, RedeactivateKillSwitch, Goto,
       Return, smVars
  <2>5. rpc' = "select" => cancelled \/ updates' # <<>>
    BY <1>0, <1>4 DEF LossInv, Cycle, TearDown, ActivateKillSwitch, ReactivateKillSwitch,
       BackoffElapses, BackoffCancelled, ConnectFails, AfterFailure, ConnectSucceeds,
       TryAlternative, FailoverExhausted, AlternativeFails, AlternativeSucceeds, Trip,
       BreakerHook, BreakerSetsFailed, DeactivateKillSwitch, RedeactivateKillSwitch, Goto,
       Return, smVars
  <2>6. cancelled => Responsible'
    BY <2>1, <2>2 DEF LossInv, Waiting
  <2>7. QED
    BY <1>0, <2>1, <2>2, <2>3, <2>4, <2>5, <2>6 DEF LossInv
<1>5. ASSUME NEW h \in Handlers, HandlerStep(h)
      PROVE  LossInv'
  <2>1. CASE StopReconnector(h)
    <3>1. CASE rpc = "stopped"
      <4>1. \E g \in Handlers : hpc'[g] \in {"connect", "disconnect"}
        BY <2>1, <3>1 DEF StopReconnector, HandlerAt, TypeOK
      <4>2. Waiting' = Waiting
        BY <2>1, <3>1 DEF StopReconnector, HandlerAt, TypeOK, Waiting
      <4>3. QED
        BY <1>0, <2>1, <3>1, <4>1, <4>2 DEF StopReconnector, LossInv, smVars
    <3>2. CASE rpc # "stopped"
      <4>1. hpc'[h] = "wait" /\ cancelled'
        BY <2>1, <3>2 DEF StopReconnector, HandlerAt, TypeOK
      <4>2. QED
        BY <1>0, <2>1, <3>2, <4>1 DEF StopReconnector, LossInv, Waiting, smVars
    <3>3. QED
      BY <3>1, <3>2
  <2>2. CASE ~StopReconnector(h)
    <3>1. Waiting' = Waiting /\ UNCHANGED <<rpc, cancelled>>
      BY <1>5, <2>2 DEF HandlerStep, ResetTripped, ResetFailed, Disconnect, HandlerConnect,
         HandlerConnected, Respond, HandlerAt, TypeOK, Waiting, recVars
    <3>2. \/ updates' # <<>>
          \/ UNCHANGED smVars /\ (ResetTripped(h) \/ ResetFailed(h) \/ Respond(h))
      BY <1>0, <1>5, <2>2 DEF HandlerStep, ResetTripped, ResetFailed, Disconnect,
         HandlerConnect, HandlerConnected, Respond
    <3>3. ResetTripped(h) \/ ResetFailed(h) \/ Respond(h) =>
             (failed \/ Responsible => failed' \/ Responsible')
      BY DEF ResetTripped, ResetFailed, Respond, HandlerAt, TypeOK, recVars
    <3>4. QED
      BY <1>0, <3>1, <3>2, <3>3 DEF LossInv, smVars
  <2>3. QED
    BY <2>1, <2>2
<1>6. ASSUME NEW h \in Handlers, NEW r \in Requests, Request(h, r)
      PROVE  LossInv'
  <2>1. Waiting' = Waiting /\ (Responsible => Responsible')
    BY <1>6 DEF Request, HandlerAt, TypeOK, Waiting
  <2>2. QED
    BY <1>0, <1>6, <2>1 DEF Request, LossInv, smVars, recVars
<1>7. CASE \/ \E d \in Detectors : DetectLoss(d) \/ ReportLoss(d)
           \/ RecoverTUN \/ RecoverTUNEnds(TRUE) \/ RecoverTUNEnds(FALSE)
           \/ UNCHANGED vars
  <2>1. UNCHANGED <<rpc, cancelled, failed, hpc>>
    BY <1>7 DEF DetectLoss, ReportLoss, RecoverTUN, RecoverTUNEnds, vars, recVars, ipcVars
  <2>2. UNCHANGED smVars \/ updates' # <<>>
    BY <1>0, <1>7 DEF DetectLoss, ReportLoss, RecoverTUN, RecoverTUNEnds, vars
  <2>3. QED
    BY <1>0, <2>1, <2>2 DEF LossInv, Waiting, smVars
<1>8. QED
  BY <1>1, <1>2, <1>3, <1>4, <1>5, <1>6, <1>7 DEF Next, Reconnector

-----------------------------------------------------------------------------
(***************************************************************************)
(* The inductive invariant.                                                *)
(***************************************************************************)
THEOREM Invariance == Spec => []IInv
<1>1. Init => IInv
  BY InitIInv
<1>2. IInv /\ [Next]_vars => IInv'
  BY TypeStep, FailoverStep, DNSStep, LossStep DEF IInv
<1>3. QED
  BY <1>1, <1>2, PTL DEF Spec

(***************************************************************************)
(* Every variable keeps its type; the retry counter never passes the       *)
(* threshold (reconnect.go:256-296).                                       *)
(***************************************************************************)
THEOREM TypeCorrect == Spec => []TypeOK
<1>1. IInv => TypeOK
  BY DEF IInv
<1>2. QED
  BY <1>1, Invariance, PTL

(***************************************************************************)
(* An active kill switch means no DNS proxy answers, whatever requests are *)
(* served meanwhile (kill_switch.go:17-29).                                *)
(***************************************************************************)
THEOREM KillSwitchIsSound == Spec => []KillSwitchSound
<1>1. IInv => KillSwitchSound
  BY DEF IInv, DNSInv
<1>2. QED
  BY <1>1, Invariance, PTL

(***************************************************************************)
(* DNS is blocked during a reconnection, even when the activation of the   *)
(* kill switch failed (reconnect.go:241-250).                              *)
(***************************************************************************)
THEOREM DNSIsBlocked == Spec => []DNSBlockedWhileReconnecting
<1>1. IInv => DNSBlockedWhileReconnecting
  BY DEF IInv, DNSInv
<1>2. QED
  BY <1>1, Invariance, PTL

(***************************************************************************)
(* A tripped breaker leaves DNS blocked (reconnect.go:311-314).            *)
(***************************************************************************)
THEOREM BreakerBlocksDNS == Spec => []BreakerKeepsDNSBlocked
<1>1. IInv => BreakerKeepsDNSBlocked
  BY DEF IInv, DNSInv, GaveUpIsBlocked, BreakerKeepsDNSBlocked
<1>2. QED
  BY <1>1, Invariance, PTL

(***************************************************************************)
(* The breaker trips only after the failover, for every pair of thresholds *)
(* init() lets through (reconnect.go:38-46).                               *)
(***************************************************************************)
THEOREM FailoverComesFirst == Spec => []FailoverBeforeBreaker
<1>1. IInv => FailoverBeforeBreaker
  BY DEF IInv, FailoverRecorded
<1>2. QED
  BY <1>1, Invariance, PTL

(***************************************************************************)
(* No loss of the tunnel is missed, for every capacity of the channel and  *)
(* any number of concurrent requests (state.go:38-40).                     *)
(***************************************************************************)
THEOREM NothingLost == Spec => []NoLostDisconnect
<1>1. IInv => NoLostDisconnect
  <2>1. SUFFICES ASSUME IInv, rpc = "select", ~cancelled, updates = <<>>,
                        current = "disconnected", ~failed
                 PROVE  \E h \in Handlers : hpc[h] \in {"stop", "disconnect", "connect"}
    BY DEF NoLostDisconnect
  <2>2. PICK h \in Handlers : hpc[h] \in {"stop", "wait", "disconnect", "connect"}
    BY <2>1 DEF IInv, LossInv
  <2>3. hpc[h] # "wait"
    BY <2>1 DEF IInv, LossInv, Waiting
  <2>4. QED
    BY <2>2, <2>3
<1>2. QED
  BY <1>1, Invariance, PTL

-----------------------------------------------------------------------------
(***************************************************************************)
(* What the steps of a cycle use up: attempts until the breaker trips, the *)
(* relays of the one failover, and the way to the end from where the       *)
(* Reconnector is.                                                         *)
(***************************************************************************)
Attempts == CircuitBreakerThreshold - retries
Detours == IF failoverAttempted THEN 2 * alternatives ELSE 2 * MaxAlternatives + 1
Way == CASE rpc = "reset" -> 8
         [] rpc \in {"activate", "failoverConnecting"} -> 7
         [] rpc \in {"reactivate", "failover"} -> 6
         [] rpc = "backoff" -> 5
         [] rpc = "connecting" -> 4
         [] rpc = "trip" -> 3
         [] rpc \in {"hook", "deactivate"} -> 2
         [] OTHER -> 1
StepsLeft == 2 * Attempts + Detours + Way
CycleLength == 2 * CircuitBreakerThreshold + 2 * MaxAlternatives + 9

\* A cycle never has more than CycleLength steps to go ...
CyclesAreBounded == rpc \in CyclePcs => StepsLeft \in 1..CycleLength

\* ... and each of its steps leaves fewer, or ends it: no sequence of failed attempts,
\* failovers and retried activations goes round, and no request, detector or recovery
\* that runs beside it sends it back.
CyclesShrink ==
    [][(rpc \in CyclePcs) =>
         IF Cycle THEN rpc' \notin CyclePcs \/ StepsLeft' < StepsLeft
         ELSE UNCHANGED <<rpc, StepsLeft>>]_vars

\* A handler that waits in Reconnector.Stop waits for a Start that runs and that has been
\* cancelled: the goroutine that closes done is there, and no later Start takes the
\* cancellation back (reconnect.go:186-198).
WaitersAreHeard == \A h \in Handlers : hpc[h] = "wait" => rpc # "stopped" /\ cancelled

LEMMA StepCount ==
    ASSUME IInv
    PROVE  /\ Attempts \in 0..CircuitBreakerThreshold
           /\ Detours \in 0..(2 * MaxAlternatives + 1) /\ Way \in 1..8
<1>1. /\ retries \in 0..CircuitBreakerThreshold /\ CircuitBreakerThreshold \in Nat
      /\ alternatives \in 0..MaxAlternatives /\ MaxAlternatives \in Nat
  BY ReconnectAssumption DEF IInv, TypeOK
<1>2. Attempts \in 0..CircuitBreakerThreshold
  BY <1>1 DEF Attempts
<1>3. Detours \in 0..(2 * MaxAlternatives + 1)
  BY <1>1 DEF Detours
<1>4. Way \in 1..8
  BY DEF Way
<1>5. QED
  BY <1>2, <1>3, <1>4

\* The failed attempt pays for what follows it, the failover included.
LEMMA FailureShortens ==
    ASSUME IInv, IInv', ConnectFails
    PROVE  rpc' \notin CyclePcs \/ StepsLeft' < StepsLeft
<1>1. CASE cancelled
  BY <1>1 DEF ConnectFails, Return, CyclePcs
<1>2. CASE ~cancelled
  <2>1. retries' = retries + 1 /\ retries \in Nat /\ CircuitBreakerThreshold \in Nat
    BY <1>2, ReconnectAssumption DEF ConnectFails, IInv, TypeOK
  <2>2. Attempts' = Attempts - 1 /\ Attempts \in Int
    BY <2>1 DEF Attempts
  <2>3. Way = 4
    BY DEF ConnectFails, Way
  <2>4. CASE rpc' = "failover"
    <3>1. ~failoverAttempted /\ failoverAttempted' /\ alternatives' \in 0..MaxAlternatives
      BY <1>2, <2>4 DEF ConnectFails, AfterFailure
    <3>2. Detours = 2 * MaxAlternatives + 1 /\ Detours' = 2 * alternatives'
      BY <3>1 DEF Detours
    <3>3. Way' = 6
      BY <2>4 DEF Way
    <3>4. /\ StepsLeft = 2 * Attempts + 2 * MaxAlternatives + 1 + 4
          /\ StepsLeft' = 2 * (Attempts - 1) + 2 * alternatives' + 6
      BY <2>2, <2>3, <3>1, <3>2, <3>3, ReconnectAssumption DEF StepsLeft
    <3>5. \A a, m, x \in Int : x <= m => 2 * (a - 1) + 2 * x + 6 < 2 * a + 2 * m + 1 + 4
      OBVIOUS
    <3>6. alternatives' \in Int /\ MaxAlternatives \in Int /\ alternatives' <= MaxAlternatives
      BY <3>1, ReconnectAssumption
    <3>7. QED
      BY <2>2, <3>4, <3>5, <3>6
  <2>5. CASE rpc' # "failover"
    <3>1. rpc' \in {"backoff", "trip"} /\ UNCHANGED <<failoverAttempted, alternatives>>
      BY <1>2, <2>5 DEF ConnectFails, AfterFailure
    <3>2. Detours' = Detours /\ Detours \in Int
      BY <3>1, StepCount DEF Detours
    <3>3. Way' \in {3, 5}
      BY <3>1 DEF Way
    <3>4. /\ StepsLeft = 2 * Attempts + Detours + 4
          /\ StepsLeft' = 2 * (Attempts - 1) + Detours + Way'
      BY <2>2, <2>3, <3>2 DEF StepsLeft
    <3>5. \A a, d \in Int, w \in {3, 5} : 2 * (a - 1) + d + w < 2 * a + d + 4
      OBVIOUS
    <3>6. QED
      BY <2>2, <3>2, <3>3, <3>4, <3>5
  <2>6. QED
    BY <2>4, <2>5
<1>3. QED
  BY <1>1, <1>2

LEMMA StepShortens ==
    ASSUME IInv, IInv', Cycle
    PROVE  rpc' \notin CyclePcs \/ StepsLeft' < StepsLeft
<1>1. ASSUME UNCHANGED <<retries, failoverAttempted, alternatives>>, Way' < Way
      PROVE  StepsLeft' < StepsLeft
  <2>1. Attempts' = Attempts /\ Detours' = Detours /\ Way' \in 1..8
    BY <1>1 DEF Attempts, Detours, Way
  <2>2. /\ StepsLeft = 2 * Attempts + Detours + Way
        /\ StepsLeft' = 2 * Attempts + Detours + Way'
    BY <2>1 DEF StepsLeft
  <2>3. QED
    BY <1>1, <2>1, <2>2, StepCount
<1>2. CASE Return
  BY <1>2 DEF Return, CyclePcs
<1>3. CASE TearDown \/ BackoffElapses \/ ConnectSucceeds \/ AlternativeFails \/ AlternativeSucceeds
  <2>1. UNCHANGED <<retries, failoverAttempted, alternatives>> /\ Way' < Way
    BY <1>3
    DEF TearDown, BackoffElapses, ConnectSucceeds, AlternativeFails, AlternativeSucceeds, Goto, Way
  <2>2. QED
    BY <1>1, <2>1
<1>4. CASE FailoverExhausted \/ Trip \/ BreakerHook
  <2>1. UNCHANGED <<retries, failoverAttempted, alternatives>> /\ Way' < Way
    BY <1>4 DEF FailoverExhausted, AfterFailure, Trip, BreakerHook, Goto, Way
  <2>2. QED
    BY <1>1, <2>1
<1>5. CASE ActivateKillSwitch \/ ReactivateKillSwitch \/ DeactivateKillSwitch
  <2>1. Return \/ (UNCHANGED <<retries, failoverAttempted, alternatives>> /\ Way' < Way)
    BY <1>5 DEF ActivateKillSwitch, ReactivateKillSwitch, DeactivateKillSwitch, Goto, Way
  <2>2. QED
    BY <1>1, <1>2, <2>1
<1>6. CASE TryAlternative
  <2>1. /\ failoverAttempted /\ failoverAttempted' /\ Attempts' = Attempts
        /\ alternatives' = alternatives - 1 /\ alternatives \in Nat
    BY <1>6, ReconnectAssumption
    DEF TryAlternative, IInv, TypeOK, FailoverRecorded, Attempts
  <2>2. Way = 6 /\ Way' = 7
    BY <1>6 DEF TryAlternative, Way
  <2>3. Detours = 2 * alternatives /\ Detours' = 2 * alternatives'
    BY <2>1 DEF Detours
  <2>4. QED
    BY <2>1, <2>2, <2>3, StepCount DEF StepsLeft
<1>7. CASE ConnectFails
  BY <1>7, FailureShortens
<1>8. QED
  BY <1>2, <1>3, <1>4, <1>5, <1>6, <1>7
  DEF Cycle, BackoffCancelled, BreakerSetsFailed, RedeactivateKillSwitch

LEMMA OthersLeaveCycle ==
    ASSUME IInv, [Next]_vars, ~Cycle, rpc \in CyclePcs
    PROVE  UNCHANGED <<rpc, StepsLeft>>
<1>1. UNCHANGED <<rpc, retries, failoverAttempted, alternatives>>
  <2>1. ~TakeUpdate /\ ~Exit /\ rpc # "stopped"
    BY DEF TakeUpdate, Exit, CyclePcs
  <2>2. ASSUME NEW h \in Handlers, HandlerStep(h) \/ \E r \in Requests : Request(h, r)
        PROVE  UNCHANGED <<rpc, retries, failoverAttempted, alternatives>>
    BY <2>2 DEF HandlerStep, ResetTripped, ResetFailed, StopReconnector, Disconnect,
       HandlerConnect, HandlerConnected, Respond, Request, recVars
  <2>3. CASE \/ Start \/ \E d \in Detectors : DetectLoss(d) \/ ReportLoss(d)
             \/ RecoverTUN \/ RecoverTUNEnds(TRUE) \/ RecoverTUNEnds(FALSE)
             \/ UNCHANGED vars
    BY <2>1, <2>3 DEF Start, DetectLoss, ReportLoss, RecoverTUN, RecoverTUNEnds, vars, recVars
  <2>4. QED
    BY <2>1, <2>2, <2>3 DEF Next, Reconnector
<1>2. QED
  BY <1>1 DEF StepsLeft, Attempts, Detours, Way

(***************************************************************************)
(* However the attempts, the failover and the kill switch turn out, and    *)
(* whatever requests, detectors and recoveries run beside it, a cycle of   *)
(* handleDisconnect has at most CycleLength steps of the Reconnector, each *)
(* bringing it closer to its end (reconnect.go:212-301).                   *)
(***************************************************************************)
THEOREM CyclesEnd == Spec => []CyclesAreBounded /\ CyclesShrink
<1>1. IInv => CyclesAreBounded
  <2>1. SUFFICES ASSUME IInv PROVE StepsLeft \in 1..CycleLength
    BY DEF CyclesAreBounded
  <2>2. CircuitBreakerThreshold \in Nat /\ MaxAlternatives \in Nat
    BY ReconnectAssumption
  <2>3. QED
    BY <2>1, <2>2, StepCount DEF StepsLeft, CycleLength
<1>2. IInv /\ IInv' /\ [Next]_vars =>
        [(rpc \in CyclePcs) =>
           IF Cycle THEN rpc' \notin CyclePcs \/ StepsLeft' < StepsLeft
           ELSE UNCHANGED <<rpc, StepsLeft>>]_vars
  BY StepShortens, OthersLeaveCycle
<1>3. QED
  BY <1>1, <1>2, Invariance, PTL DEF Spec, CyclesShrink

(***************************************************************************)
(* Every handler in Reconnector.Stop waits for a goroutine that runs and   *)
(* knows of it, with any number of handlers and spawned Starts             *)
(* (reconnect.go:129-198).                                                 *)
(***************************************************************************)
THEOREM WaitersHeard == Spec => []WaitersAreHeard
<1>1. IInv => WaitersAreHeard
  BY DEF IInv, LossInv, Waiting, WaitersAreHeard
<1>2. QED
  BY <1>1, Invariance, PTL

-----------------------------------------------------------------------------
(***************************************************************************)
(* The implementation of ReconnectPromise: each step maps to a step of the *)
(* promise or leaves its variables alone.                                  *)
(***************************************************************************)
LEMMA StepKeepsPromise ==
    ASSUME IInv, IInv', [Next]_vars
    PROVE  [Promise!Next]_(Promise!vars)
<1> USE DEF Promise!vars
<1>0. (current' = "connected") \in BOOLEAN
  OBVIOUS
<1>1. CASE UNCHANGED <<rpc, failed, dnsVars>>
  BY <1>0, <1>1 DEF Promise!Next, dnsVars
<1>2. CASE Start
  BY <1>0, <1>2 DEF Start, smVars, dnsVars, Promise!Next, Promise!TurnOn, Promise!Switch
<1>3. CASE Exit
  BY <1>0, <1>3 DEF Exit, Goto, smVars, dnsVars, Promise!Next, Promise!TurnOff, Promise!Switch
<1>4. CASE TakeUpdate
  BY <1>0, <1>4 DEF TakeUpdate, Goto, dnsVars, Promise!Next, Promise!Lose
<1>5. CASE TearDown
  BY <1>0, <1>5 DEF TearDown, Goto, dnsVars, Promise!Next
<1>6. CASE ActivateKillSwitch
  <2>1. proxy' = "none" /\ failed' = failed /\ rpc' \in {"backoff", "reactivate"}
        /\ rpc = "activate"
    BY <1>6, ActivateCuts DEF ActivateKillSwitch, Goto, IInv, DNSInv
  <2>2. QED
    BY <1>0, <2>1 DEF Promise!Next, Promise!Cut
<1>7. CASE ReactivateKillSwitch
  <2>1. CASE Return /\ UNCHANGED dnsVars
    BY <1>0, <1>7, <2>1 DEF ReactivateKillSwitch, Return, dnsVars, Promise!Next, Promise!Abandon
  <2>2. CASE Goto("backoff") /\ \E ok \in BOOLEAN : Activate(ok)
    <3>1. proxy' = "none" /\ failed' = failed /\ rpc' = "backoff" /\ rpc = "reactivate"
      BY <1>7, <2>2, ActivateCuts DEF ReactivateKillSwitch, Goto, IInv, DNSInv
    <3>2. QED
      BY <1>0, <3>1 DEF Promise!Next, Promise!Cut
  <2>3. QED
    BY <1>7, <2>1, <2>2 DEF ReactivateKillSwitch
<1>8. CASE BackoffElapses \/ TryAlternative \/ FailoverExhausted \/ AlternativeFails
  BY <1>0, <1>8 DEF BackoffElapses, TryAlternative, FailoverExhausted, AlternativeFails,
     AfterFailure, Goto, dnsVars, Promise!Next
<1>9. CASE BackoffCancelled
  BY <1>0, <1>9 DEF BackoffCancelled, Return, dnsVars, Promise!Next, Promise!Abandon
<1>10. CASE ConnectFails
  <2>1. CASE Return
    BY <1>0, <1>10, <2>1 DEF ConnectFails, Return, dnsVars, Promise!Next, Promise!Abandon
  <2>2. CASE ~Return
    BY <1>0, <1>10, <2>2 DEF ConnectFails, AfterFailure, dnsVars, Promise!Next
  <2>3. QED
    BY <2>1, <2>2
<1>11. CASE ConnectSucceeds \/ AlternativeSucceeds
  BY <1>0, <1>11 DEF ConnectSucceeds, AlternativeSucceeds, SetState, Goto, dnsVars,
     Promise!Next, Promise!Recover
<1>12. CASE Trip
  BY <1>0, <1>12 DEF Trip, dnsVars, Promise!Next, Promise!GiveUp
<1>13. CASE BreakerHook \/ BreakerSetsFailed
  BY <1>0, <1>13 DEF BreakerHook, BreakerSetsFailed, Goto, Return, dnsVars, Promise!Next
<1>14. CASE DeactivateKillSwitch \/ RedeactivateKillSwitch
  <2>1. /\ rpc \in {"deactivate", "redeactivate"}
        /\ rpc' \in {"redeactivate", "select"}
        /\ failed' = failed
    BY <1>14 DEF DeactivateKillSwitch, RedeactivateKillSwitch, Goto, Return
  <2>2. QED
    BY <1>0, <2>1 DEF Promise!Next, Promise!Restore
<1>15. ASSUME NEW h \in Handlers, HandlerStep(h) \/ \E r \in Requests : Request(h, r)
       PROVE  [Promise!Next]_(Promise!vars)
  <2>1. CASE ResetFailed(h)
    BY <1>0, <2>1 DEF ResetFailed, dnsVars, Promise!Next, Promise!Reset
  <2>2. CASE StopReconnector(h)
    <3>1. UNCHANGED <<rpc, failed>> /\ (proxy' = proxy \/ proxy' = "none")
      BY <2>2 DEF StopReconnector
    <3>2. QED
      BY <1>0, <3>1 DEF Promise!Next, Promise!Die
  <2>3. QED
    BY <1>1, <1>15, <2>1, <2>2 DEF HandlerStep, ResetTripped, Disconnect, HandlerConnect,
       HandlerConnected, Respond, Request, recVars
<1>16. CASE \/ \E d \in Detectors : DetectLoss(d) \/ ReportLoss(d)
            \/ RecoverTUN \/ RecoverTUNEnds(TRUE) \/ RecoverTUNEnds(FALSE)
            \/ UNCHANGED vars
  BY <1>1, <1>16 DEF DetectLoss, ReportLoss, RecoverTUN, RecoverTUNEnds, vars, recVars
<1>17. QED
  BY <1>2, <1>3, <1>4, <1>5, <1>6, <1>7, <1>8, <1>9, <1>10, <1>11, <1>12, <1>13, <1>14,
     <1>15, <1>16 DEF Next, Reconnector, Cycle

(***************************************************************************)
(* The Reconnector keeps its promise about DNS, for every value of the     *)
(* constants (reconnect.go:103-106).                                       *)
(***************************************************************************)
THEOREM ImplementsPromise == Spec => KeepsPromise
<1>1. Init => Promise!Init
  BY DEF Init, Promise!Init
<1>2. IInv /\ IInv' /\ [Next]_vars => [Promise!Next]_(Promise!vars)
  BY StepKeepsPromise
<1>3. QED
  BY <1>1, <1>2, Invariance, PTL DEF Spec, KeepsPromise, Promise!Spec
=============================================================================
