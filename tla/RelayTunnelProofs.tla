------------------------- MODULE RelayTunnelProofs -------------------------
(***************************************************************************)
(* What holds of a tunnel stream for every set of flows and every capacity *)
(* of the session channel: the type invariant, that nothing outlives the   *)
(* handler, and that the replies queued before the client's EOF are        *)
(* drained.                                                                *)
(***************************************************************************)
EXTENDS RelayTunnel, SequenceTheorems, TLAPS

\* Until OpenSession there is no goroutine, no timer, no session and no socket.
Lifecycle ==
    /\ main \in {"admit", "quota"} =>
           /\ reader = "off" /\ writer = "off" /\ idle = "off" /\ ~registered
           /\ \A f \in Flows : conn[f] = "none" /\ entry[f] = "none"
           /\ cancelled => client = "gone"
    /\ main \in {"admit", "returned"} => ~slot

\* The tail of the handler goes through its stages in order.  An open socket has its
\* entry in the table or lost by it, once the reader is not setting it up.
Teardown ==
    /\ \A f \in Flows : conn[f] = "open" =>
           entry[f] \in {"listed", "lost"} \/ (reader = "synack" /\ cur = f)
    /\ main \in {"waitWriter", "unregister", "closeDone", "closeEntries"} => reader = "done"
    /\ main \in {"unregister", "closeDone", "closeEntries"} => writer = "done"
    /\ main \in {"closeDone", "closeEntries"} => ~registered
    /\ main \in {"release", "returned"} =>
           /\ reader \in {"off", "done"} /\ writer \in {"off", "done"}
           /\ ~registered
           /\ \A f \in Flows : entry[f] # "listed" /\ (conn[f] = "open" => entry[f] = "lost")

\* Apart from a dead connection and the idle timer, the context is cancelled
\* only after the reader; and the writer drains only a cancelled session.
Cancellation ==
    /\ cancelled /\ client # "gone" /\ idle # "fired" => reader \in {"off", "done"}
    /\ writer \in {"drain", "drainWrite", "done"} => cancelled

\* The inductive invariant.
IInv == TypeOK /\ Lifecycle /\ Teardown /\ Cancellation /\ RepliesDrained

-----------------------------------------------------------------------------
LEMMA InitInv == Init => IInv
<1> SUFFICES ASSUME Init PROVE IInv
    OBVIOUS
<1>1. out \in Seq({"reply", "data"}) /\ Len(out) = 0
    BY EmptySeq DEF Init
<1>2. 0 \in 0..InCap /\ 0 \in 0..MaxData /\ 0 <= OutCap
    BY TunnelAssumption
<1>3. TypeOK
    BY <1>1, <1>2 DEF Init, TypeOK, PlacesOK, StoresOK
<1>4. Lifecycle /\ Teardown /\ Cancellation
    BY DEF Init, Lifecycle, Teardown, Cancellation
<1>5. RepliesDrained
    BY <1>1 DEF Init, RepliesDrained
<1> QED
    BY <1>3, <1>4, <1>5 DEF IInv

\* A packet pushed by anyone keeps the channel typed, bounded, and adds at
\* most itself.
LEMMA PushKeepsType ==
    ASSUME NEW packet \in {"reply", "data"}, TypeOK, Push(packet)
    PROVE  /\ out' \in Seq({"reply", "data"})
           /\ Len(out') <= OutCap
           /\ \A i \in 1..Len(out') : out'[i] = "reply" =>
                  packet = "reply" \/ \E j \in 1..Len(out) : out[j] = "reply"
<1>1. CASE out' = out
    BY <1>1 DEF TypeOK, StoresOK
<1>2. CASE Len(out) < OutCap /\ out' = Append(out, packet)
    <2>1. /\ out' \in Seq({"reply", "data"})
          /\ Len(out') = Len(out) + 1
          /\ \A i \in 1..Len(out) : out'[i] = out[i]
          /\ out'[Len(out) + 1] = packet
        BY <1>2, AppendProperties DEF TypeOK, StoresOK
    <2>2. Len(out) \in Nat
        BY LenProperties DEF TypeOK, StoresOK
    <2>3. Len(out') <= OutCap
        BY <1>2, <2>1, <2>2, TunnelAssumption
    <2>4. \A i \in 1..Len(out') : i \in 1..Len(out) \/ i = Len(out) + 1
        BY <2>1, <2>2
    <2> QED
        BY <2>1, <2>3, <2>4
<1> QED
    BY <1>1, <1>2 DEF Push

\* Taking the head keeps the channel typed, and shortens it.
LEMMA TailKeepsType ==
    ASSUME TypeOK, out # <<>>, out' = Tail(out)
    PROVE  /\ out' \in Seq({"reply", "data"})
           /\ Len(out') <= OutCap
<1>1. out' \in Seq({"reply", "data"}) /\ Len(out') = Len(out) - 1
    BY HeadTailProperties DEF TypeOK, StoresOK
<1>2. Len(out) \in Nat
    BY LenProperties DEF TypeOK, StoresOK
<1> QED
    BY <1>1, <1>2, TunnelAssumption DEF TypeOK, StoresOK

LEMMA PlacesStep ==
    ASSUME TypeOK, [Next]_vars
    PROVE  PlacesOK'
<1> USE DEF mainVars, linkVars, natVars, flowVars, TypeOK, PlacesOK
<1>1. CASE MainStep
    BY <1>1 DEF MainStep, Reject, AcquireSlot, RejectLate, OpenSession,
       ReaderEnded, WriterEnded, Unregister, CloseDone, CloseEntries, Release
<1>2. CASE ReaderStep
    BY <1>2 DEF ReaderStep, ReadFrame, ReadEnds, ForwardSilently, ForwardAnswers,
       OpenUDP, DialTCP, ForwardFin, ForwardRst, ReaderSends
<1>3. CASE WriterStep
    BY <1>3 DEF WriterStep, WriterTakes, WriterCancelled, WriteSucceeds,
       WriteFails, DrainTakes, DrainEnds
<1>4. CASE Environment
    BY <1>4 DEF Environment, IdleFires, RequestCancelled, ClientSends,
       ClientStalls, ClientResumes, ClientHalfCloses, ClientGoes, LoopReads,
       ConnEnds, EntryLeaves
<1>5. ASSUME NEW f \in Flows, LoopStep(f)
      PROVE  PlacesOK'
    BY <1>5 DEF LoopStep, LoopReadFails, LoopSends
<1>6. CASE UNCHANGED vars
    BY <1>6 DEF vars
<1> QED
    BY <1>1, <1>2, <1>3, <1>4, <1>5, <1>6 DEF Next

LEMMA StoresStep ==
    ASSUME TypeOK, [Next]_vars
    PROVE  StoresOK'
<1> USE DEF mainVars, linkVars, natVars, flowVars, TypeOK, StoresOK
<1>0. TCPFlows \subseteq Flows /\ UDPFlows \subseteq Flows
    BY DEF Flows
<1>1. CASE UNCHANGED <<inbound, cur, out, flowVars>>
    BY <1>1
<1>2. CASE CloseEntries
    BY <1>2 DEF CloseEntries
<1>3. CASE ReadFrame
    <2>1. inbound - 1 \in 0..InCap
        BY <1>3, TunnelAssumption DEF ReadFrame
    <2> QED
        BY <1>3, <2>1 DEF ReadFrame
<1>4. CASE ClientSends
    <2>1. inbound + 1 \in 0..InCap
        BY <1>4, TunnelAssumption DEF ClientSends
    <2> QED
        BY <1>4, <2>1 DEF ClientSends
<1>5. ASSUME NEW f \in Flows, OpenUDP(f) \/ DialTCP(f) \/ ForwardFin(f) \/ ForwardRst(f)
      PROVE  StoresOK'
    BY <1>5 DEF OpenUDP, DialTCP, ForwardFin, ForwardRst
<1>6. CASE ReaderSends
    BY <1>6, PushKeepsType DEF ReaderSends
<1>7. CASE WriterTakes \/ DrainTakes
    BY <1>7, TailKeepsType DEF WriterTakes, DrainTakes
<1>8. ASSUME NEW f \in Flows, LoopReads(f)
      PROVE  StoresOK'
    <2>1. data[f] + 1 \in 0..MaxData
        BY <1>8, TunnelAssumption DEF LoopReads
    <2> QED
        BY <1>8, <2>1 DEF LoopReads
<1>9. ASSUME NEW f \in Flows, LoopReadFails(f) \/ ConnEnds(f) \/ EntryLeaves(f)
      PROVE  StoresOK'
    BY <1>9 DEF LoopReadFails, ConnEnds, EntryLeaves
<1>10. ASSUME NEW f \in Flows, LoopSends(f)
       PROVE  StoresOK'
    BY <1>10, PushKeepsType DEF LoopSends
<1>11. CASE MainStep
    BY <1>11, <1>1, <1>2 DEF MainStep, Reject, AcquireSlot, RejectLate,
       OpenSession, ReaderEnded, WriterEnded, Unregister, CloseDone, Release
<1>12. CASE ReaderStep
    BY <1>12, <1>0, <1>1, <1>3, <1>5, <1>6 DEF ReaderStep, ReadEnds,
       ForwardSilently, ForwardAnswers
<1>13. CASE WriterStep
    BY <1>13, <1>1, <1>7 DEF WriterStep, WriterCancelled, WriteSucceeds,
       WriteFails, DrainEnds
<1>14. CASE Environment
    BY <1>14, <1>1, <1>4, <1>8, <1>9 DEF Environment, IdleFires,
       RequestCancelled, ClientStalls, ClientResumes, ClientHalfCloses, ClientGoes
<1>15. CASE UNCHANGED vars
    BY <1>15, <1>1 DEF vars
<1> QED
    BY <1>9, <1>10, <1>11, <1>12, <1>13, <1>14, <1>15 DEF Next, LoopStep

LEMMA LifecycleStep ==
    ASSUME IInv, [Next]_vars
    PROVE  Lifecycle'
<1> USE DEF Flows, mainVars, linkVars, natVars, flowVars, IInv, TypeOK, StoresOK
<1>1. CASE MainStep
    BY <1>1 DEF MainStep, Reject, AcquireSlot, RejectLate, OpenSession,
       ReaderEnded, WriterEnded, Unregister, CloseDone, CloseEntries, Release,
       Lifecycle, Teardown
<1>2. CASE ReaderStep
    BY <1>2 DEF ReaderStep, ReadFrame, ReadEnds, ForwardSilently, ForwardAnswers,
       OpenUDP, DialTCP, ForwardFin, ForwardRst, ReaderSends, Lifecycle,
       Teardown
<1>3. CASE WriterStep
    BY <1>3 DEF WriterStep, WriterTakes, WriterCancelled, WriteSucceeds,
       WriteFails, DrainTakes, DrainEnds, Lifecycle, Teardown
<1>4. CASE Environment
    <2>1. CASE IdleFires \/ RequestCancelled
        BY <2>1 DEF IdleFires, RequestCancelled, Lifecycle, Teardown
    <2>2. CASE ClientSends \/ ClientStalls \/ ClientResumes \/ ClientHalfCloses
        BY <2>2 DEF ClientSends, ClientStalls, ClientResumes, ClientHalfCloses,
           Lifecycle
    <2>3. CASE ClientGoes
        BY <2>3 DEF ClientGoes, Lifecycle
    <2>4. ASSUME NEW f \in Flows, LoopReads(f) \/ ConnEnds(f) \/ EntryLeaves(f)
          PROVE  Lifecycle'
        BY <2>4 DEF LoopReads, ConnEnds, EntryLeaves, Lifecycle
    <2> QED
        BY <1>4, <2>1, <2>2, <2>3, <2>4 DEF Environment
<1>5. ASSUME NEW f \in Flows, LoopStep(f)
      PROVE  Lifecycle'
    BY <1>5 DEF LoopStep, LoopReadFails, LoopSends, Lifecycle, Teardown
<1>6. CASE UNCHANGED vars
    BY <1>6 DEF vars, Lifecycle, Teardown
<1> QED
    BY <1>1, <1>2, <1>3, <1>4, <1>5, <1>6 DEF Next

LEMMA TeardownStep ==
    ASSUME IInv, [Next]_vars
    PROVE  Teardown'
<1> USE DEF Flows, mainVars, linkVars, natVars, flowVars, IInv, TypeOK, StoresOK
<1>1. CASE MainStep
    BY <1>1 DEF MainStep, Reject, AcquireSlot, RejectLate, OpenSession,
       ReaderEnded, WriterEnded, Unregister, CloseDone, CloseEntries, Release,
       Lifecycle, Teardown
<1>2. CASE ReaderStep
    BY <1>2 DEF ReaderStep, ReadFrame, ReadEnds, ForwardSilently, ForwardAnswers,
       OpenUDP, DialTCP, ForwardFin, ForwardRst, ReaderSends, Lifecycle,
       Teardown
<1>3. CASE WriterStep
    BY <1>3 DEF WriterStep, WriterTakes, WriterCancelled, WriteSucceeds,
       WriteFails, DrainTakes, DrainEnds, Lifecycle, Teardown
<1>4. CASE Environment
    BY <1>4 DEF Environment, IdleFires, RequestCancelled, ClientSends,
       ClientStalls, ClientResumes, ClientHalfCloses, ClientGoes, LoopReads,
       ConnEnds, EntryLeaves, Lifecycle, Teardown
<1>5. ASSUME NEW f \in Flows, LoopStep(f)
      PROVE  Teardown'
    BY <1>5 DEF LoopStep, LoopReadFails, LoopSends, Lifecycle, Teardown
<1>6. CASE UNCHANGED vars
    BY <1>6 DEF vars, Lifecycle, Teardown
<1> QED
    BY <1>1, <1>2, <1>3, <1>4, <1>5, <1>6 DEF Next

LEMMA CancellationStep ==
    ASSUME IInv, [Next]_vars
    PROVE  Cancellation'
<1> USE DEF Flows, mainVars, linkVars, natVars, flowVars, IInv, TypeOK, StoresOK
<1>1. CASE MainStep
    BY <1>1 DEF MainStep, Reject, AcquireSlot, RejectLate, OpenSession,
       ReaderEnded, WriterEnded, Unregister, CloseDone, CloseEntries, Release,
       Lifecycle, Teardown, Cancellation
<1>2. CASE ReaderStep
    BY <1>2 DEF ReaderStep, ReadFrame, ReadEnds, ForwardSilently, ForwardAnswers,
       OpenUDP, DialTCP, ForwardFin, ForwardRst, ReaderSends, Lifecycle,
       Teardown, Cancellation
<1>3. CASE WriterStep
    BY <1>3 DEF WriterStep, WriterTakes, WriterCancelled, WriteSucceeds,
       WriteFails, DrainTakes, DrainEnds, Lifecycle, Teardown,
       Cancellation
<1>4. CASE Environment
    BY <1>4 DEF Environment, IdleFires, RequestCancelled, ClientSends,
       ClientStalls, ClientResumes, ClientHalfCloses, ClientGoes, LoopReads,
       ConnEnds, EntryLeaves, Lifecycle, Teardown, Cancellation
<1>5. ASSUME NEW f \in Flows, LoopStep(f)
      PROVE  Cancellation'
    BY <1>5 DEF LoopStep, LoopReadFails, LoopSends, Lifecycle, Teardown,
       Cancellation
<1>6. CASE UNCHANGED vars
    BY <1>6 DEF vars, Lifecycle, Teardown, Cancellation
<1> QED
    BY <1>1, <1>2, <1>3, <1>4, <1>5, <1>6 DEF Next

LEMMA DrainStep ==
    ASSUME IInv, [Next]_vars
    PROVE  RepliesDrained'
<1> USE DEF Flows, mainVars, linkVars, natVars, flowVars, IInv, RepliesDrained
<1>1. CASE MainStep
    BY <1>1 DEF MainStep, Reject, AcquireSlot, RejectLate, OpenSession,
       ReaderEnded, WriterEnded, Unregister, CloseDone, CloseEntries, Release,
       Lifecycle
<1>2. CASE ReaderStep
    <2>1. CASE ReaderSends
        BY <2>1 DEF ReaderSends, Cancellation, TypeOK
    <2>2. CASE UNCHANGED <<writer, out, client, idle>>
        BY <2>2
    <2> QED
        BY <1>2, <2>1, <2>2 DEF ReaderStep, ReadFrame, ReadEnds, ForwardSilently,
           ForwardAnswers, OpenUDP, DialTCP, ForwardFin, ForwardRst
<1>3. CASE WriterStep
    <2>1. CASE DrainEnds
        BY <2>1 DEF DrainEnds
    <2>2. CASE WriteFails
        BY <2>2 DEF WriteFails
    <2>3. CASE writer' # "done"
        BY <2>3
    <2> QED
        BY <1>3, <2>1, <2>2, <2>3 DEF WriterStep, WriterTakes, WriterCancelled,
           WriteSucceeds, DrainTakes
<1>4. CASE Environment
    BY <1>4 DEF Environment, IdleFires, RequestCancelled, ClientSends,
       ClientStalls, ClientResumes, ClientHalfCloses, ClientGoes, LoopReads,
       ConnEnds, EntryLeaves
<1>5. ASSUME NEW f \in Flows, LoopStep(f)
      PROVE  RepliesDrained'
    <2>1. CASE LoopReadFails(f)
        BY <2>1 DEF LoopReadFails
    <2>2. CASE LoopSends(f)
        <3>1. \A i \in 1..Len(out') : out'[i] = "reply" =>
                 \E j \in 1..Len(out) : out[j] = "reply"
            BY <2>2, PushKeepsType DEF LoopSends
        <3> QED
            BY <2>2, <3>1 DEF LoopSends
    <2> QED
        BY <1>5, <2>1, <2>2 DEF LoopStep
<1>6. CASE UNCHANGED vars
    BY <1>6 DEF vars
<1> QED
    BY <1>1, <1>2, <1>3, <1>4, <1>5, <1>6 DEF Next

-----------------------------------------------------------------------------
\* IInv is an invariant of every stream.
THEOREM Invariance == Spec => []IInv
<1>1. IInv /\ [Next]_vars => IInv'
    BY PlacesStep, StoresStep, LifecycleStep, TeardownStep, CancellationStep, DrainStep
       DEF IInv, TypeOK
<1> QED
    BY InitInv, <1>1, PTL DEF Spec

\* Every variable of the stream keeps its type; the session channel never
\* holds more than OutCap packets.
THEOREM TypeCorrect == Spec => []TypeOK
<1>1. IInv => TypeOK
    BY DEF IInv
<1> QED
    BY Invariance, <1>1, PTL

\* A returned handler has left no goroutine on the stream, no slot, no session
\* and no open socket.
THEOREM NothingIsLeft == Spec => []NothingOutlivesHandler
<1>1. IInv => NothingOutlivesHandler
    BY DEF IInv, Lifecycle, Teardown, NothingOutlivesHandler, Astray
<1> QED
    BY Invariance, <1>1, PTL

\* The replies queued before the client's EOF are written before the end.
THEOREM RepliesAreDrained == Spec => []RepliesDrained
<1>1. IInv => RepliesDrained
    BY DEF IInv
<1> QED
    BY Invariance, <1>1, PTL

-----------------------------------------------------------------------------
(* The end of a stream: who waits for whom, and how much is left to do. *)

\* A reverse loop has a socket; a tail that waits for the writer has cancelled the
\* session; and cleanup has closed sc.done if it leaves any loop behind.
EndInv ==
    /\ main \in {"admit", "quota"} => \A f \in Flows : loop[f] = "off"
    /\ \A f \in Flows : loop[f] # "off" => conn[f] # "none"
    /\ reader = "synack" => conn[cur] # "none"
    /\ main \in {"waitWriter", "unregister", "closeDone", "closeEntries"} => cancelled
    /\ main \in {"waitReader", "waitWriter"} => writer # "off"
    /\ main \in {"closeEntries", "release", "returned"} =>
           doneClosed \/ \A f \in Flows : loop[f] = "off"

\* No reverse loop of a handler that has returned is blocked: its socket is closed, so its
\* Read fails, and its send gives up on the closed session, however full the channel is; but
\* one whose socket the table had lost stays in its Read until the server closes.
LoopsCanEnd ==
    main = "returned" =>
        \A f \in Flows : \/ loop[f] \in {"off", "ended"}
                         \/ loop[f] = "read" /\ conn[f] = "closed"
                         \/ loop[f] \in {"send", "sendFin"} /\ doneClosed
                         \/ loop[f] = "read" /\ Astray(f)

\* On a dead connection nothing holds up the handler whose reader has ended: it goes on
\* by itself, or waits for a writer that does not wait for anybody.
TailGoesOn ==
    client = "gone" /\ reader = "done" /\ main # "returned" =>
        \/ main \notin {"admit", "quota", "waitWriter"}
        \/ main = "waitWriter" /\ (writer = "select" => cancelled) /\ writer # "off"

\* What each goroutine has left: the tail its stages, a reverse loop what its server may
\* still send, the writer what is queued.
MainWay ==
    CASE main = "admit" -> 8 [] main = "quota" -> 7 [] main = "waitReader" -> 6
      [] main = "waitWriter" -> 5 [] main = "unregister" -> 4 [] main = "closeDone" -> 3
      [] main = "closeEntries" -> 2 [] main = "release" -> 1 [] OTHER -> 0
LoopPlace(f) ==
    CASE loop[f] = "send" -> 3 [] loop[f] = "read" -> 2 [] loop[f] = "sendFin" -> 1
      [] OTHER -> 0
LoopWay(f) == 2 * (MaxData - data[f]) + LoopPlace(f)
WriterPlace ==
    CASE writer = "write" -> 3 [] writer \in {"select", "drainWrite"} -> 2
      [] writer = "drain" -> 1 [] OTHER -> 0
WriterWay == 2 * Len(out) + WriterPlace

\* After the end of the reader no goroutine of the stream starts or starts over.  Each step
\* brings its own goroutine closer to its end and none of the others further from it; only
\* the writer is given more to do, by a reverse loop that comes closer to its own end.
WindsDown ==
    /\ reader' = "done"
    /\ MainWay' <= MainWay /\ (MainStep => MainWay' < MainWay)
    /\ \A f \in Flows : LoopWay(f)' <= LoopWay(f)
    /\ \A f \in Flows : LoopStep(f) \/ LoopReads(f) => LoopWay(f)' < LoopWay(f)
    /\ WriterStep => WriterWay' < WriterWay
    /\ WriterWay' <= WriterWay \/ \E f \in Flows : LoopSends(f)

EndedReaderWindsDown == [][(reader = "done") => WindsDown]_vars

-----------------------------------------------------------------------------
LEMMA EndInvInit == Init => EndInv
BY DEF Init, EndInv

LEMMA EndInvStep ==
    ASSUME IInv, EndInv, [Next]_vars
    PROVE  EndInv'
<1> USE DEF mainVars, linkVars, natVars, flowVars, IInv, TypeOK, StoresOK
<1>0. TCPFlows \subseteq Flows /\ UDPFlows \subseteq Flows
    BY DEF Flows
<1>1. CASE MainStep
    BY <1>1 DEF MainStep, Reject, AcquireSlot, RejectLate, OpenSession,
       ReaderEnded, WriterEnded, Unregister, CloseDone, CloseEntries, Release,
       EndInv, Lifecycle, Teardown
<1>2. CASE ReaderStep
    <2>1. /\ reader \notin {"off", "done"}
          /\ main \notin {"admit", "quota", "waitWriter", "unregister", "closeDone",
                          "closeEntries", "release", "returned"}
        BY <1>2 DEF ReaderStep, ReadFrame, ReadEnds, ForwardSilently, ForwardAnswers,
           OpenUDP, DialTCP, ForwardFin, ForwardRst, ReaderSends, Lifecycle, Teardown
    <2>2. main' = main /\ writer' = writer
        BY <1>2 DEF ReaderStep, ReadFrame, ReadEnds, ForwardSilently, ForwardAnswers,
           OpenUDP, DialTCP, ForwardFin, ForwardRst, ReaderSends
    <2>3. /\ \A f \in Flows : loop'[f] # "off" => conn'[f] # "none"
          /\ reader' = "synack" => conn'[cur'] # "none"
        BY <1>2, <1>0 DEF EndInv, ReaderStep, ReadFrame, ReadEnds, ForwardSilently,
           ForwardAnswers, OpenUDP, DialTCP, ForwardFin, ForwardRst, ReaderSends
    <2> QED
        BY <2>1, <2>2, <2>3 DEF EndInv
<1>3. CASE WriterStep
    BY <1>3 DEF WriterStep, WriterTakes, WriterCancelled, WriteSucceeds,
       WriteFails, DrainTakes, DrainEnds, EndInv
<1>4. CASE Environment
    BY <1>4 DEF Environment, IdleFires, RequestCancelled, ClientSends,
       ClientStalls, ClientResumes, ClientHalfCloses, ClientGoes, LoopReads,
       ConnEnds, EntryLeaves, EndInv
<1>5. ASSUME NEW f \in Flows, LoopStep(f)
      PROVE  EndInv'
    BY <1>5 DEF LoopStep, LoopReadFails, LoopSends, EndInv
<1>6. CASE UNCHANGED vars
    BY <1>6 DEF vars, EndInv
<1> QED
    BY <1>1, <1>2, <1>3, <1>4, <1>5, <1>6 DEF Next

LEMMA EndInvariance == Spec => []EndInv
<1>1. IInv /\ EndInv /\ [Next]_vars => EndInv'
    BY EndInvStep
<1> QED
    BY EndInvInit, <1>1, Invariance, PTL DEF Spec

\* The cleanup of a session unblocks every sender and every reader it leaves behind, for
\* any number of flows and any capacity of the channel (nat_table.go cleanup, which closes
\* sc.done before it closes the sockets).
THEOREM LoopsAreFreed == Spec => []LoopsCanEnd
<1>1. IInv /\ EndInv => LoopsCanEnd
    BY DEF IInv, TypeOK, StoresOK, Teardown, EndInv, LoopsCanEnd, Astray
<1> QED
    BY <1>1, Invariance, EndInvariance, PTL

\* With a dead connection and an ended reader the handler waits, if at all, for a writer
\* that is cancelled and whose every write returns (tunnel_handler.go, the tail of
\* serveTunnel).
THEOREM TailIsFree == Spec => []TailGoesOn
<1>1. IInv /\ EndInv => TailGoesOn
    <2>1. SUFFICES ASSUME IInv, EndInv, client = "gone", reader = "done", main # "returned"
                   PROVE  \/ main \notin {"admit", "quota", "waitWriter"}
                          \/ main = "waitWriter" /\ (writer = "select" => cancelled)
                             /\ writer # "off"
        BY DEF TailGoesOn
    <2> QED
        BY <2>1 DEF IInv, Lifecycle, Teardown, Cancellation, EndInv
<1> QED
    BY <1>1, Invariance, EndInvariance, PTL

-----------------------------------------------------------------------------
LEMMA LoopPlaces == \A f \in Flows : LoopPlace(f) \in 0..3
BY DEF LoopPlace

LEMMA LoopWays ==
    ASSUME TypeOK, NEW f \in Flows
    PROVE  /\ data[f] \in Int /\ MaxData \in Int
           /\ LoopPlace(f) \in 0..3 /\ LoopWay(f) = 2 * (MaxData - data[f]) + LoopPlace(f)
BY LoopPlaces, TunnelAssumption DEF TypeOK, StoresOK, LoopWay

\* A loop that is left alone keeps its distance.
LEMMA LoopsLeftAlone ==
    ASSUME TypeOK, NEW f \in Flows, loop'[f] = loop[f], data'[f] = data[f]
    PROVE  LoopWay(f)' <= LoopWay(f)
<1>1. LoopWay(f)' = LoopWay(f)
    BY DEF LoopWay, LoopPlace
<1> QED
    BY <1>1, LoopWays

\* A step of a reverse loop, or a read of it, brings it closer to its end and touches no
\* other.
LEMMA LoopShortens ==
    ASSUME TypeOK, NEW f \in Flows, LoopStep(f) \/ LoopReads(f)
    PROVE  /\ LoopWay(f)' < LoopWay(f) /\ LoopWay(f)' <= LoopWay(f)
           /\ \A g \in Flows \ {f} : loop'[g] = loop[g] /\ data'[g] = data[g]
<1> USE DEF TypeOK, StoresOK
<1>1. CASE LoopReads(f)
    <2>1. /\ LoopPlace(f) = 2 /\ LoopPlace(f)' \in 2..3 /\ data'[f] = data[f] + 1
          /\ \A g \in Flows \ {f} : loop'[g] = loop[g] /\ data'[g] = data[g]
        BY <1>1 DEF LoopReads, LoopPlace
    <2>2. LoopWay(f)' = 2 * (MaxData - (data[f] + 1)) + LoopPlace(f)'
        BY <2>1 DEF LoopWay
    <2>3. \A m, d \in Int, q \in 2..3 :
              /\ 2 * (m - (d + 1)) + q < 2 * (m - d) + 2
              /\ 2 * (m - (d + 1)) + q <= 2 * (m - d) + 2
        OBVIOUS
    <2>4. LoopWay(f)' < LoopWay(f) /\ LoopWay(f)' <= LoopWay(f)
        BY <2>1, <2>2, <2>3, LoopWays
    <2> QED
        BY <2>1, <2>4
<1>2. CASE LoopStep(f)
    <2>1. /\ LoopPlace(f)' < LoopPlace(f) /\ LoopPlace(f)' \in 0..3 /\ data'[f] = data[f]
          /\ \A g \in Flows \ {f} : loop'[g] = loop[g] /\ data'[g] = data[g]
        BY <1>2 DEF LoopStep, LoopReadFails, LoopSends, LoopPlace, flowVars
    <2>2. LoopWay(f)' = 2 * (MaxData - data[f]) + LoopPlace(f)'
        BY <2>1 DEF LoopWay
    <2>3. \A m, d \in Int, q, r \in 0..3 : q < r =>
              /\ 2 * (m - d) + q < 2 * (m - d) + r
              /\ 2 * (m - d) + q <= 2 * (m - d) + r
        OBVIOUS
    <2>4. LoopWay(f)' < LoopWay(f) /\ LoopWay(f)' <= LoopWay(f)
        BY <2>1, <2>2, <2>3, LoopWays
    <2> QED
        BY <2>1, <2>4
<1> QED
    BY <1>1, <1>2

LEMMA WriterPlaces == WriterPlace \in 0..3
BY DEF WriterPlace

\* A step of the writer leaves it less to do.
LEMMA WriterShortens ==
    ASSUME TypeOK, WriterStep
    PROVE  WriterWay' < WriterWay /\ WriterWay' <= WriterWay
<1>1. Len(out) \in Nat
    BY LenProperties DEF TypeOK, StoresOK
<1>2. CASE WriterTakes \/ DrainTakes
    <2>1. Len(out') = Len(out) - 1
        BY <1>2, HeadTailProperties DEF WriterTakes, DrainTakes, TypeOK, StoresOK
    <2>2. WriterPlace' = WriterPlace + 1
        BY <1>2 DEF WriterTakes, DrainTakes, WriterPlace
    <2>3. WriterWay' = 2 * (Len(out) - 1) + (WriterPlace + 1)
        BY <2>1, <2>2 DEF WriterWay
    <2> QED
        BY <1>1, <2>3, WriterPlaces DEF WriterWay
<1>3. CASE WriterCancelled \/ WriteSucceeds \/ WriteFails \/ DrainEnds
    <2>1. out' = out /\ WriterPlace' < WriterPlace /\ WriterPlace' \in 0..3
        BY <1>3 DEF WriterCancelled, WriteSucceeds, WriteFails, DrainEnds, WriterPlace
    <2>2. WriterWay' = 2 * Len(out) + WriterPlace'
        BY <2>1 DEF WriterWay
    <2> QED
        BY <1>1, <2>1, <2>2, WriterPlaces DEF WriterWay
<1> QED
    BY <1>2, <1>3 DEF WriterStep

\* The tail of the handler goes through its stages once.
LEMMA MainShortens ==
    ASSUME MainStep
    PROVE  MainWay' < MainWay
BY DEF MainStep, Reject, AcquireSlot, RejectLate, OpenSession, ReaderEnded, WriterEnded,
   Unregister, CloseDone, CloseEntries, Release, MainWay

LEMMA MainWays == MainWay \in 0..8
BY DEF MainWay

LEMMA StepWindsDown ==
    ASSUME IInv, [Next]_vars, vars' # vars, reader = "done"
    PROVE  WindsDown
<1> USE DEF mainVars, linkVars, natVars, flowVars
<1>0. TypeOK /\ main \notin {"admit", "quota"} /\ Len(out) \in Nat
    BY LenProperties DEF IInv, TypeOK, StoresOK, Lifecycle
<1>1. ~ReaderStep
    BY DEF ReaderStep, ReadFrame, ReadEnds, ForwardSilently, ForwardAnswers,
       OpenUDP, DialTCP, ForwardFin, ForwardRst, ReaderSends
<1>2. ASSUME ~MainStep, main' = main
      PROVE  MainWay' <= MainWay /\ (MainStep => MainWay' < MainWay)
    <2>1. MainWay' = MainWay
        BY <1>2 DEF MainWay
    <2> QED
        BY <1>2, <2>1, MainWays
<1>3. ASSUME ~WriterStep, out' = out, writer' = writer
      PROVE  (WriterStep => WriterWay' < WriterWay) /\ WriterWay' <= WriterWay
    <2>1. WriterWay' = WriterWay
        BY <1>3 DEF WriterWay, WriterPlace
    <2> QED
        BY <1>0, <1>3, <2>1, WriterPlaces DEF WriterWay
<1>4. ASSUME loop' = loop, data' = data, \A f \in Flows : ~LoopStep(f) /\ ~LoopReads(f)
      PROVE  /\ \A f \in Flows : LoopWay(f)' <= LoopWay(f)
             /\ \A f \in Flows : LoopStep(f) \/ LoopReads(f) => LoopWay(f)' < LoopWay(f)
    BY <1>0, <1>4, LoopsLeftAlone
<1>5. CASE MainStep
    <2>1. /\ MainWay' < MainWay /\ MainWay' \in 0..8 /\ main' # main
          /\ reader' = "done" /\ out' = out /\ writer' = writer /\ loop' = loop /\ data' = data
        BY <1>0, <1>5, MainShortens, MainWays
           DEF MainStep, Reject, AcquireSlot, RejectLate, OpenSession, ReaderEnded,
           WriterEnded, Unregister, CloseDone, CloseEntries, Release, MainWay
    <2>2. ~WriterStep /\ \A f \in Flows : ~LoopStep(f) /\ ~LoopReads(f)
        BY <2>1 DEF WriterStep, WriterTakes, WriterCancelled, WriteSucceeds, WriteFails,
           DrainTakes, DrainEnds, LoopStep, LoopReadFails, LoopSends, LoopReads
    <2> QED
        BY <1>3, <1>4, <2>1, <2>2, MainWays DEF WindsDown
<1>6. CASE WriterStep
    <2>1. /\ WriterWay' < WriterWay /\ WriterWay' <= WriterWay /\ writer' # writer
          /\ reader' = "done" /\ main' = main /\ loop' = loop /\ data' = data
        BY <1>0, <1>6, WriterShortens
           DEF WriterStep, WriterTakes, WriterCancelled, WriteSucceeds, WriteFails,
           DrainTakes, DrainEnds
    <2>2. ~MainStep /\ \A f \in Flows : ~LoopStep(f) /\ ~LoopReads(f)
        BY <2>1 DEF MainStep, Reject, AcquireSlot, RejectLate, OpenSession, ReaderEnded,
           WriterEnded, Unregister, CloseDone, CloseEntries, Release,
           LoopStep, LoopReadFails, LoopSends, LoopReads
    <2> QED
        BY <1>2, <1>4, <2>1, <2>2 DEF WindsDown
<1>7. ASSUME NEW f \in Flows, LoopStep(f) \/ LoopReads(f)
      PROVE  WindsDown
    <2>1. /\ loop'[f] # loop[f] \/ data'[f] # data[f]
          /\ reader' = "done" /\ main' = main /\ writer' = writer
          /\ out' = out \/ LoopSends(f)
        BY <1>0, <1>7 DEF LoopStep, LoopReadFails, LoopSends, LoopReads, TypeOK, StoresOK
    <2>2. ~MainStep /\ ~WriterStep
        BY <2>1 DEF MainStep, Reject, AcquireSlot, RejectLate, OpenSession, ReaderEnded,
           WriterEnded, Unregister, CloseDone, CloseEntries, Release,
           WriterStep, WriterTakes, WriterCancelled, WriteSucceeds, WriteFails,
           DrainTakes, DrainEnds
    <2>3. /\ LoopWay(f)' < LoopWay(f) /\ LoopWay(f)' <= LoopWay(f)
          /\ \A g \in Flows \ {f} : loop'[g] = loop[g] /\ data'[g] = data[g]
        BY <1>0, <1>7, LoopShortens
    <2>4. ASSUME NEW g \in Flows
          PROVE  /\ LoopWay(g)' <= LoopWay(g)
                 /\ LoopStep(g) \/ LoopReads(g) => LoopWay(g)' < LoopWay(g)
        <3>1. CASE g = f
            BY <2>3, <3>1
        <3>2. CASE g # f
            <4>1. LoopStep(g) \/ LoopReads(g) => LoopWay(g)' < LoopWay(g)
                BY <1>0, LoopShortens
            <4> QED
                BY <1>0, <2>3, <3>2, <4>1, LoopsLeftAlone
        <3> QED
            BY <3>1, <3>2
    <2> QED
        BY <1>2, <1>3, <2>1, <2>2, <2>4 DEF WindsDown
<1>8. CASE Environment /\ \A f \in Flows : ~LoopReads(f)
    <2>1. /\ reader' = "done" /\ main' = main /\ writer' = writer /\ out' = out
          /\ loop' = loop /\ data' = data
          /\ client' # client \/ body' # body \/ inbound' # inbound \/ idle' # idle
             \/ conn' # conn \/ entry' # entry \/ (RequestCancelled /\ cancelled' # cancelled)
        BY <1>0, <1>8 DEF Environment, IdleFires, RequestCancelled, ClientSends,
           ClientStalls, ClientResumes, ClientHalfCloses, ClientGoes, ConnEnds, EntryLeaves, TypeOK, StoresOK
    <2>2. ~MainStep /\ ~WriterStep
        BY <2>1 DEF MainStep, Reject, AcquireSlot, RejectLate, OpenSession, ReaderEnded,
           WriterEnded, Unregister, CloseDone, CloseEntries, Release,
           WriterStep, WriterTakes, WriterCancelled, WriteSucceeds, WriteFails,
           DrainTakes, DrainEnds, WriterWay
    <2>3. \A f \in Flows : ~LoopStep(f)
        BY <1>0, <2>1 DEF LoopStep, LoopReadFails, LoopSends, TypeOK, StoresOK
    <2> QED
        BY <1>2, <1>3, <1>4, <1>8, <2>1, <2>2, <2>3 DEF WindsDown
<1> QED
    BY <1>1, <1>5, <1>6, <1>7, <1>8 DEF Next, Environment

\* Once the reader has ended, whatever client, servers and timer do, the handler, the
\* writer and the reverse loops each have a bounded number of steps left and nobody starts
\* anything new (tunnel_handler.go, the tail of serveTunnel and its writer;
\* nat_table.go tcpReverseLoop, udpReverseLoop).
THEOREM StreamWindsDown == Spec => EndedReaderWindsDown
<1>1. IInv /\ [Next]_vars => [(reader = "done") => WindsDown]_vars
    BY StepWindsDown
<1> QED
    BY <1>1, Invariance, PTL DEF Spec, EndedReaderWindsDown
=============================================================================
