------------------------- MODULE StateManagerLemmas -------------------------
(***************************************************************************)
(* Facts about the operators of StateManager, for every channel capacity,  *)
(* cited by the proofs of the modules that extend it.                      *)
(***************************************************************************)
EXTENDS StateManager, SequenceTheorems, TLAPS

(***************************************************************************)
(* One send on the updates channel keeps it within its capacity and leaves *)
(* the sent state as its newest entry (state.go:55-64).                    *)
(***************************************************************************)
LEMMA PushKeepsNewest ==
    ASSUME NEW q \in Seq(ConnState), Len(q) <= UpdatesCap, NEW s \in ConnState
    PROVE  /\ Push(q, s) \in Seq(ConnState)
           /\ Push(q, s) # <<>>
           /\ Len(Push(q, s)) \in 1..UpdatesCap
           /\ Push(q, s)[Len(Push(q, s))] = s
<1>1. CASE Len(q) < UpdatesCap
  BY <1>1, AppendProperties, UpdatesCapAssumption DEF Push
<1>2. CASE ~(Len(q) < UpdatesCap)
  <2>1. q # <<>> /\ Len(q) = UpdatesCap
    BY <1>2, UpdatesCapAssumption
  <2>2. Tail(q) \in Seq(ConnState) /\ Len(Tail(q)) = UpdatesCap - 1
    BY <2>1, HeadTailProperties
  <2>3. QED
    BY <1>2, <2>2, AppendProperties, UpdatesCapAssumption DEF Push
<1>3. QED
  BY <1>1, <1>2

(***************************************************************************)
(* Taking a notification leaves a channel content of the right type, within *)
(* the capacity (the receive of every reader of Updates()).                *)
(***************************************************************************)
LEMMA TakeKeepsType ==
    ASSUME NEW q \in Seq(ConnState), q # <<>>, Len(q) <= UpdatesCap
    PROVE  /\ Head(q) \in ConnState
           /\ Tail(q) \in Seq(ConnState)
           /\ Len(Tail(q)) <= UpdatesCap
  BY HeadTailProperties, LenProperties, UpdatesCapAssumption

(***************************************************************************)
(* Taking a notification removes the newest one only when it was the last  *)
(* in the channel, and then it is the one taken.                           *)
(***************************************************************************)
LEMMA TakeKeepsNewest ==
    ASSUME NEW q \in Seq(ConnState), q # <<>>
    PROVE  /\ Tail(q) = <<>> => Head(q) = q[Len(q)]
           /\ Tail(q) # <<>> => Tail(q)[Len(Tail(q))] = q[Len(q)]
<1>1. /\ Len(q) \in Nat
      /\ Len(q) # 0
      /\ Tail(q) \in Seq(ConnState)
      /\ Len(Tail(q)) = Len(q) - 1
      /\ \A i \in 1 .. Len(Tail(q)) : Tail(q)[i] = q[i + 1]
  BY HeadTailProperties, EmptySeq, LenProperties
<1>2. CASE Tail(q) = <<>>
  <2>1. Len(q) = 1
    <3>1. Len(q) - 1 = 0
      BY <1>1, <1>2, EmptySeq
    <3>2. \A n \in Nat : n - 1 = 0 => n = 1
      OBVIOUS
    <3>3. QED
      BY <3>1, <3>2, LenProperties
  <2>2. QED
    BY <1>2, <2>1
<1>3. CASE Tail(q) # <<>>
  <2>1. Len(Tail(q)) \in 1 .. Len(Tail(q))
    BY <1>1, <1>3, EmptySeq, LenProperties
  <2>2. QED
    BY <1>1, <1>3, <2>1
<1>4. QED
  BY <1>2, <1>3

(***************************************************************************)
(* A new state manager is well typed (state.go:31-36).                     *)
(***************************************************************************)
LEMMA NewTypeOK == NewStateManager => SMTypeOK
<1>1. <<>> \in Seq(ConnState) /\ Len(<<>>) = 0
  BY EmptySeq
<1>2. SUFFICES ASSUME NewStateManager PROVE SMTypeOK
  OBVIOUS
<1>3. current \in ConnState /\ closed \in BOOLEAN
  BY <1>2 DEF NewStateManager, ConnState
<1>4. updates \in Seq(ConnState) /\ Len(updates) = 0
  BY <1>1, <1>2 DEF NewStateManager
<1>5. QED
  BY <1>3, <1>4, UpdatesCapAssumption DEF SMTypeOK

(***************************************************************************)
(* Set and a receive preserve the type of the state manager                *)
(* (state.go:47-65).                                                       *)
(***************************************************************************)
LEMMA SetKeepsType ==
    ASSUME SMTypeOK, NEW s \in ConnState, SetState(s)
    PROVE  SMTypeOK'
  BY PushKeepsNewest DEF SMTypeOK, SetState

LEMMA ReceiveKeepsType ==
    ASSUME SMTypeOK, Receive
    PROVE  SMTypeOK' /\ Head(updates) \in ConnState
  BY TakeKeepsType DEF SMTypeOK, Receive

(***************************************************************************)
(* While the channel is open, Set leaves in it a newest notification equal *)
(* to the state, and a receive takes that one last (state.go:38-40).       *)
(***************************************************************************)
NewestIsCurrent ==
    ~closed /\ (updates # <<>> => updates[Len(updates)] = current)

LEMMA SetKeepsNewest ==
    ASSUME SMTypeOK, NewestIsCurrent, NEW s \in ConnState, SetState(s)
    PROVE  NewestIsCurrent' /\ updates' # <<>>
  BY PushKeepsNewest DEF SMTypeOK, SetState, NewestIsCurrent

LEMMA ReceiveKeepsNewest ==
    ASSUME SMTypeOK, NewestIsCurrent, Receive
    PROVE  NewestIsCurrent' /\ (updates' = <<>> => Head(updates) = current)
  BY TakeKeepsNewest DEF SMTypeOK, Receive, NewestIsCurrent
=============================================================================
