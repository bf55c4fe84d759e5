---------------------------- MODULE StateManager ----------------------------
(***************************************************************************)
(* internal/tunnel/state.go: the tunnel's connection state and its         *)
(* `updates` channel, a buffered channel that Set fills without ever       *)
(* blocking.  The RWMutex makes every method one atomic step.  The module  *)
(* holds the methods; the modules that extend it say who calls them.       *)
(***************************************************************************)
EXTENDS Naturals, Sequences

CONSTANT UpdatesCap     \* capacity of the updates channel (4 in the code)

ASSUME UpdatesCapAssumption == UpdatesCap \in Nat \ {0}

VARIABLES
    current,    \* the state Get() returns
    updates,    \* the notifications waiting in the channel, oldest first
    closed      \* Close() has been called

smVars == <<current, updates, closed>>

ConnState == {"disconnected", "connecting", "connected", "failed"}

SMTypeOK ==
    /\ current \in ConnState
    /\ updates \in Seq(ConnState)
    /\ Len(updates) <= UpdatesCap
    /\ closed \in BOOLEAN

NewStateManager ==
    /\ current = "disconnected"
    /\ updates = <<>>
    /\ closed = FALSE

\* Mutant: a full channel drops the new notification instead of the oldest.
PushDropsNewest(queue, s) ==
    IF Len(queue) < UpdatesCap THEN Append(queue, s) ELSE queue

(***************************************************************************)
(* What one non-blocking send leaves in the channel: when it is full the   *)
(* oldest entry is drained first.                                          *)
(***************************************************************************)
Push(queue, s) ==
    IF Len(queue) < UpdatesCap THEN Append(queue, s) ELSE Append(Tail(queue), s)

SetState(s) ==
    /\ current' = s
    /\ updates' = IF closed THEN updates ELSE Push(updates, s)
    /\ closed' = closed

\* A reader of Updates() takes the oldest notification.
Receive ==
    /\ updates # <<>>
    /\ updates' = Tail(updates)
    /\ UNCHANGED <<current, closed>>

Close ==
    /\ closed' = TRUE
    /\ UNCHANGED <<current, updates>>
=============================================================================
