-------------------------- MODULE RelayFlowProofs --------------------------
(***************************************************************************)
(* What TLAPS proves of a TCP flow through the relay, for segments of any  *)
(* lengths and flows of any size, with or without eviction: the types and  *)
(* the four invariants of module RelayFlow.                                *)
(***************************************************************************)
EXTENDS RelayFlow, SequenceTheorems, TLAPS

\* The client's numbers: none is past its FIN, what the relay has acknowledged is
\* something the client has sent.
ClientNumbers ==
    /\ next \in 0..(MaxSeq + 1)
    /\ clientFin \in 0..MaxSeq \cup {None}
    /\ clientFin \in {None, 0} => next <= MaxSeq
    /\ clientFin \notin {None, 0} => next = clientFin + 1
    /\ next = 0 => /\ clientFin = None /\ finAck = None
                   /\ ~inTable /\ loop = "off" /\ conn = "none"
    /\ clientISN \in 0..MaxSeq
    /\ clientSeqNext \in 0..(MaxSeq + 1)
    /\ acked \in 0..next
    /\ next # 0 => clientSeqNext # 0
    /\ finAck # None => clientFin \notin {None, 0} /\ clientSeqNext <= next

\* A connection that may still be written to has received exactly the bytes
\* between the entry's ISN and the next one expected; a FIN under way moves
\* that number and is about to close the connection.
ServerStream ==
    /\ written \in Seq(1..MaxSeq)
    /\ ServerStreamInOrder
    /\ conn \in {"open", "eof"} /\ finAck = None
         => Len(written) = clientSeqNext - clientISN - 1
    /\ forwarded \in 0..MaxSeq
    /\ clientISN = 0 => Len(written) <= forwarded

\* Every byte below an acknowledgement has been written, FINs and the
\* segments of a re-created entry apart.
Acknowledged == clientFin \in {None, 0} /\ ~gap => acked <= forwarded + 1

\* The reverse loop is the only one to advance relaySeqNext: the sequence it
\* sends at is the end of what it has sent under the entry's ISN.
ClientStream ==
    /\ ClientStreamContiguous
    /\ reads \in 0..MaxReads
    /\ relaySeqNext \in 0..(reads + 1)
    /\ delivered \in 1..(reads + 1)
    /\ loop = "off" => delivered = 1 /\ ~renumbered
    /\ loop # "off" => StreamEnd = IF loop = "send" THEN relaySeqNext - 1 ELSE relaySeqNext
    /\ loop \in {"send", "sendFin"} => pending = StreamEnd
    /\ clientFin \in {None, 0} =>
          relayFin = None \/ (loop = "ended" /\ relayFin = StreamEnd)

\* The rest of the types; those of the numbers follow.
Labels ==
    /\ state \in {"none", "established", "finWait", "closed"}
    /\ conn \in {"none", "open", "eof", "closed"}
    /\ loop \in {"off", "read", "send", "sendFin", "ended"}
    /\ reader \in {"idle", "past"}
    /\ pending \in 0..(MaxReads + 1)
    /\ finAck \in 0..(MaxReads + 1) \cup {None}
    /\ relayFin \in 0..(MaxReads + 1) \cup {None}

Flags ==
    /\ inTable \in BOOLEAN /\ gap \in BOOLEAN
    /\ renumbered \in BOOLEAN /\ startedOver \in BOOLEAN /\ misplaced \in BOOLEAN

IInv == Labels /\ Flags /\ ClientNumbers /\ ServerStream /\ Acknowledged /\ ClientStream

-----------------------------------------------------------------------------
\* None is above every number of a run.
LEMMA NoneIsLarge ==
    /\ MaxSeq \in Nat \ {0} /\ MaxReads \in Nat /\ None \in Nat
    /\ None > MaxSeq + 1 /\ None > MaxReads + 1
BY FlowAssumption DEF None

\* A connection has received w: the bytes between isn and end, in order.
Received(w, isn, end) ==
    /\ w \in Seq(1..MaxSeq)
    /\ Len(w) = end - isn - 1
    /\ \A i \in 1..Len(w) : w[i] = isn + i

\* Writing the segment that comes next extends it.
LEMMA WrittenExtends ==
    ASSUME NEW w, NEW isn \in Nat, NEW from \in Nat \ {0}, NEW n \in Nat,
           from + n <= MaxSeq + 1, Received(w, isn, from)
    PROVE  Received(w \o Bytes(from, n), isn, from + n)
<1> DEFINE b == Bytes(from, n)
<1> USE DEF Received
<1>1. b \in [1..n -> 1..MaxSeq] /\ \A i \in 1..n : b[i] = from + i - 1
  BY NoneIsLarge DEF Bytes
<1>2. b \in Seq(1..MaxSeq) /\ Len(b) = n
  <2>1. b \in Seq(1..MaxSeq)
    BY <1>1, SeqDef
  <2>2. 1..n = 1..Len(b) /\ Len(b) \in Nat
    BY <1>1, <2>1, LenProperties
  <2> HIDE DEF b
  <2> QED
    BY <2>1, <2>2
<1> HIDE DEF b
<1>3. /\ w \o b \in Seq(1..MaxSeq) /\ Len(w \o b) = Len(w) + Len(b)
      /\ \A i \in 1..Len(w) + Len(b) :
            (w \o b)[i] = IF i <= Len(w) THEN w[i] ELSE b[i - Len(w)]
  BY <1>2, ConcatProperties
<1>4. Len(w) \in Nat
  BY LenProperties
<1>5. /\ w \o b \in Seq(1..MaxSeq) /\ Len(w \o b) = from + n - isn - 1
      /\ \A i \in 1..Len(w \o b) : (w \o b)[i] = isn + i
  <2> DEFINE c == w \o b
  <2>1. Len(c) = from + n - isn - 1 /\ 1..Len(c) = 1..Len(w) + Len(b)
    BY <1>2, <1>3, <1>4
  <2>2. \A i \in 1..Len(w) + Len(b) : c[i] = IF i <= Len(w) THEN w[i] ELSE b[i - Len(w)]
    BY <1>3
  <2> HIDE DEF c
  <2>3. ASSUME NEW i \in 1..Len(w) + Len(b)
        PROVE  c[i] = isn + i
    <3>1. CASE i <= Len(w)
      BY <1>4, <2>2, <3>1
    <3>2. CASE i > Len(w)
      BY <1>1, <1>2, <1>4, <2>2, <3>2
    <3> QED
      BY <1>4, <3>1, <3>2
  <2> QED
    BY <1>3, <2>1, <2>3 DEF c
<1> QED
  BY <1>5 DEF b

\* The whole of what an in-order segment of n bytes at seq changes.
LEMMA ForwardKeepsOrder ==
    ASSUME IInv, NEW seq \in Nat \ {0}, NEW n \in SegLens, seq + n <= MaxSeq + 1,
           finAck = None, ForwardData(seq, n), UNCHANGED <<clientISN, conn, finAck>>
    PROVE  /\ ServerStream'
           /\ clientSeqNext' \in {clientSeqNext, seq + n}
           /\ acked' \in {acked, seq + n}
           /\ gap' \in BOOLEAN
           /\ ~gap' => ~gap /\ (acked <= forwarded + 1 => acked' <= forwarded' + 1)
<1> USE NoneIsLarge
<1>0. n \in Nat \ {0}
  BY FlowAssumption
<1>1. CASE UNCHANGED <<written, clientSeqNext, acked, historyVars>>
  BY <1>1 DEF IInv, Flags, ServerStream, ServerStreamInOrder, historyVars
<1>2. CASE /\ seq = clientSeqNext /\ conn \in {"open", "eof"}
           /\ written' = written \o Bytes(seq, n)
           /\ clientSeqNext' = seq + n
           /\ acked' = Max(acked, seq + n)
           /\ Recorded(seq, n)
  <2>1. /\ written \in Seq(1..MaxSeq) /\ clientISN \in Nat
        /\ \A i \in 1..Len(written) : written[i] = clientISN + i
        /\ Len(written) = seq - clientISN - 1 /\ Len(written) \in Nat
    BY <1>2, LenProperties DEF IInv, ClientNumbers, ServerStream, ServerStreamInOrder
  <2>2. /\ written' \in Seq(1..MaxSeq) /\ ServerStreamInOrder'
        /\ Len(written') = (seq + n) - clientISN - 1
    <3>1. n \in Nat /\ Received(written, clientISN, seq)
      BY <1>0, <2>1 DEF Received
    <3>2. Received(written \o Bytes(seq, n), clientISN, seq + n)
      BY <2>1, <3>1, WrittenExtends
    <3>3. written' = written \o Bytes(seq, n) /\ clientISN' = clientISN
      BY <1>2
    <3>4. Received(written', clientISN', seq + n)
      BY <3>2, <3>3
    <3> QED
      BY ONLY <3>3, <3>4, Zenon DEF Received, ServerStreamInOrder
  <2>3. /\ forwarded \in 0..MaxSeq
        /\ clientISN = 0 => seq <= forwarded + 1
    BY <2>1 DEF IInv, ServerStream
  <2>4. /\ forwarded' \in 0..MaxSeq /\ forwarded' >= forwarded
        /\ clientISN = 0 => forwarded' >= seq + n - 1
    BY <1>0, <1>2, <2>3 DEF Recorded, Max
  <2>5. ServerStream'
    <3>1. clientSeqNext' = seq + n /\ clientISN' = clientISN
      BY <1>2
    <3> QED
      BY <1>0, <2>1, <2>2, <2>4, <3>1 DEF ServerStream
  <2>6. acked \in Nat /\ gap \in BOOLEAN
    BY DEF IInv, ClientNumbers, Flags
  <2>7. gap' = (gap \/ clientISN # 0)
    BY <1>2 DEF Recorded
  <2>8. gap' \in BOOLEAN /\ (~gap' => ~gap /\ clientISN = 0)
    BY <2>6, <2>7
  <2>9. acked' \in {acked, seq + n}
    BY <1>0, <1>2, <2>6 DEF Max
  <2> QED
    BY <1>0, <1>2, <2>3, <2>4, <2>5, <2>6, <2>8, <2>9
<1> QED
  BY <1>1, <1>2 DEF ForwardData

\* A packet that creates an entry in mid-stream.
LEMMA RecreateKeepsInv ==
    ASSUME IInv, NEW seq \in Nat \ {0}, Recreate(seq), seq <= next',
           finAck = None, UNCHANGED <<finAck, reads>>,
           next' \in 0..(MaxSeq + 1), next' >= next,
           clientFin' \in 0..MaxSeq \cup {None},
           clientFin' \in {None, 0} => clientFin \in {None, 0} /\ next' <= MaxSeq,
           clientFin' \notin {None, 0} => next' = clientFin' + 1
    PROVE  IInv'
<1> USE NoneIsLarge DEF IInv, Recreate, OpenTCP, historyVars
<1>1. ClientNumbers'
  <2>1. /\ clientISN' = seq /\ clientSeqNext' = seq + 1 /\ acked' = acked /\ seq <= MaxSeq
        /\ finAck' = None
    OBVIOUS
  <2>2. acked \in 0..next /\ next \in 0..(MaxSeq + 1)
    BY DEF ClientNumbers
  <2>3. next' # 0 /\ clientSeqNext' # 0 /\ clientSeqNext' \in 0..(MaxSeq + 1)
    BY <2>1
  <2>4. acked' \in 0..next'
    BY <2>1, <2>2
  <2>5. clientISN' \in 0..MaxSeq
    BY <2>1
  <2>6. clientFin' \in {None, 0} => next' <= MaxSeq
    OBVIOUS
  <2> QED
    BY <2>1, <2>3, <2>4, <2>5, <2>6 DEF ClientNumbers
<1>2. written' \in Seq(1..MaxSeq) /\ Len(written') = 0
  OBVIOUS
<1>3. Labels'
  BY DEF Labels
<1>4. ServerStream' /\ Acknowledged'
  BY <1>2 DEF ServerStream, ServerStreamInOrder, Acknowledged
<1>5. ClientStream'
  <2>1. ClientStreamContiguous'
    BY Zenon DEF ClientStream, ClientStreamContiguous
  <2>2. /\ loop' = "read" /\ relaySeqNext' = 1 /\ relayFin' = None /\ StreamEnd' = 1
        /\ delivered' = delivered /\ reads' = reads
    BY DEF StreamEnd
  <2>3. reads \in 0..MaxReads /\ delivered \in 1..(reads + 1)
    BY DEF ClientStream
  <2> QED
    BY ONLY <2>1, <2>2, <2>3, NoneIsLarge DEF ClientStream
<1>6. Flags'
  BY DEF Flags
<1> QED
  BY <1>1, <1>3, <1>4, <1>5, <1>6

\* What a step that leaves the reverse loop and its numbers alone keeps.
LEMMA StreamKept ==
    ASSUME ClientStream, UNCHANGED <<relaySeqNext, loopVars, streamVars, reads>>,
           \/ relayFin' = relayFin /\ (clientFin' \in {None, 0} => clientFin \in {None, 0})
           \/ clientFin' \notin {None, 0}
    PROVE  ClientStream'
BY NoneIsLarge DEF ClientStream, ClientStreamContiguous, StreamEnd, loopVars, streamVars

\* A segment, in every state of the entry.
LEMMA SegmentKeepsInv ==
    ASSUME IInv, next # 0, NEW seq \in Nat \ {0}, NEW n \in SegLens, Segment(seq, n),
           seq + n <= MaxSeq + 1, seq <= MaxSeq, seq + n <= next',
           next' \in 0..(MaxSeq + 1), next' >= next,
           clientFin' = clientFin,
           clientFin \in {None, 0} => next' <= MaxSeq,
           clientFin \notin {None, 0} => next' = clientFin + 1
    PROVE  IInv'
<1> USE NoneIsLarge
<1>0. n \in Nat \ {0} /\ next' # 0
  BY FlowAssumption
<1>1. finAck = None /\ UNCHANGED <<finAck, reads>>
  BY DEF Segment
<1>2. CASE /\ reader' \in {"idle", "past"}
           /\ UNCHANGED <<inTable, entryVars, relaySeqNext, conn, written, acked,
                          loopVars, sentVars, historyVars>>
  <2> USE <1>1, <1>2 DEF IInv, entryVars, sentVars, historyVars
  <2>1. ClientNumbers'
    BY <1>0 DEF ClientNumbers, loopVars
  <2>2. Labels'
    BY DEF Labels, loopVars
  <2>3. Flags'
    BY Zenon DEF Flags, streamVars
  <2>4. ServerStream' /\ Acknowledged'
    BY DEF ServerStream, ServerStreamInOrder, Acknowledged
  <2>5. ClientStream'
    BY StreamKept
  <2> QED
    BY <2>1, <2>2, <2>3, <2>4, <2>5
<1>3. CASE /\ reader = "past" /\ reader' = "idle"
           /\ ForwardData(seq, n)
           /\ UNCHANGED <<inTable, state, clientISN, relaySeqNext, conn, loopVars, sentVars>>
  <2>1. /\ ServerStream'
        /\ clientSeqNext' \in {clientSeqNext, seq + n}
        /\ acked' \in {acked, seq + n}
        /\ gap' \in BOOLEAN
        /\ ~gap' => ~gap /\ (acked <= forwarded + 1 => acked' <= forwarded' + 1)
    BY <1>1, <1>3, ForwardKeepsOrder
  <2>2. ClientNumbers'
    BY <1>0, <1>1, <1>3, <2>1 DEF IInv, ClientNumbers, loopVars
  <2>3. Labels'
    BY <1>0, <1>1, <1>3, <2>1, <2>2
       DEF IInv, Labels, loopVars, sentVars
  <2>6. Flags'
    BY <1>3, <2>1, Zenon DEF IInv, Flags, sentVars, streamVars
  <2>4. Acknowledged'
    BY <2>1 DEF IInv, Acknowledged
  <2>5. ClientStream'
    BY <1>1, <1>3, StreamKept DEF IInv, sentVars
  <2> QED
    BY <2>1, <2>2, <2>3, <2>4, <2>5, <2>6 DEF IInv
<1>4. CASE Recreate(seq)
  <2>1. clientFin' \in 0..MaxSeq \cup {None}
    BY DEF IInv, ClientNumbers
  <2>2. clientFin' \notin {None, 0} => next' = clientFin' + 1
    OBVIOUS
  <2> QED
    BY <1>0, <1>1, <1>4, <2>1, <2>2, RecreateKeepsInv
<1> QED
  BY <1>2, <1>3, <1>4 DEF Segment

\* Nothing but a segment of data writes to the connection or acknowledges data, a
\* FIN apart, whose acknowledgement is not of data alone.
LEMMA Inductive == Spec => []IInv
<1> USE NoneIsLarge
<1>1. Init => IInv
  <2> SUFFICES ASSUME Init PROVE IInv
    OBVIOUS
  <2> USE DEF Init
  <2>1. written \in Seq(1..MaxSeq) /\ Len(written) = 0
    OBVIOUS
  <2>2. Labels /\ ClientNumbers
    BY DEF Labels, ClientNumbers
  <2>3. ServerStream /\ Acknowledged /\ ClientStream
    BY <2>1 DEF ServerStream, ServerStreamInOrder, Acknowledged, ClientStream,
                ClientStreamContiguous, StreamEnd
  <2>4. Flags
    BY DEF Flags
  <2> QED
    BY <2>2, <2>3, <2>4 DEF IInv
<1>2. IInv /\ [Next]_vars => IInv'
  <2> SUFFICES ASSUME IInv, [Next]_vars PROVE IInv'
    OBVIOUS
  <2>1. CASE Syn
    <3> USE <2>1 DEF Syn, OpenTCP, IInv
    <3>1. ClientNumbers'
      BY DEF ClientNumbers, historyVars
    <3>2. written' \in Seq(1..MaxSeq) /\ Len(written') = 0
      OBVIOUS
    <3>3. Labels'
      BY <3>1, <3>2 DEF Labels, ClientNumbers, historyVars
    <3>4. ServerStream' /\ Acknowledged'
      BY <3>2 DEF ServerStream, ServerStreamInOrder, Acknowledged, historyVars
    <3>5. ClientStream'
      <4>1. loop = "off"
        BY DEF ClientNumbers
      <4>2. ClientStreamContiguous'
        BY <4>1 DEF ClientStream, ClientStreamContiguous
      <4> QED
        BY <4>1, <4>2 DEF ClientStream, StreamEnd, ClientNumbers
    <3>6. Flags'
      BY DEF Flags, historyVars
    <3> QED
      BY <3>1, <3>3, <3>4, <3>5, <3>6
  <2>2. ASSUME NEW n \in SegLens, NewSegment(n) PROVE IInv'
    <3>1. n \in Nat \ {0} /\ next \in Nat \ {0}
      BY <2>2, FlowAssumption DEF NewSegment, IInv, ClientNumbers
    <3>2. /\ next' = next + n /\ next + n <= MaxSeq
          /\ clientFin = None /\ clientFin' = clientFin /\ Segment(next, n)
      BY <2>2 DEF NewSegment
    <3> QED
      BY <3>1, <3>2, SegmentKeepsInv
  <2>3. ASSUME NEW n \in SegLens, NEW seq \in 1..acked, Retransmit(seq, n) PROVE IInv'
    <3>1. n \in Nat \ {0} /\ seq \in Nat \ {0} /\ next \in 0..(MaxSeq + 1)
      BY <2>3, FlowAssumption DEF Retransmit, IInv, ClientNumbers
    <3>2. /\ next' = next /\ clientFin' = clientFin /\ Segment(seq, n)
          /\ seq + n <= next
      BY <2>3 DEF Retransmit, clientVars
    <3>3. clientFin \in {None, 0} => next <= MaxSeq
      BY DEF IInv, ClientNumbers
    <3>4. clientFin \notin {None, 0} => next = clientFin + 1
      BY DEF IInv, ClientNumbers
    <3>5. seq <= MaxSeq
      BY <3>1, <3>2
    <3> QED
      BY <3>1, <3>2, <3>3, <3>4, <3>5, SegmentKeepsInv
  <2>4. ASSUME NEW n \in Nat, Fin(n) PROVE IInv'
    <3> USE DEF IInv
    <3>0. /\ next \in Nat \ {0} /\ clientFin = None /\ finAck = None /\ next + n <= MaxSeq
          /\ clientFin' = next + n /\ next' = next + n + 1 /\ UNCHANGED reads
      BY <2>4 DEF Fin, ClientNumbers
    <3>1. CASE Recreate(next) /\ UNCHANGED finAck
      BY <3>0, <3>1, RecreateKeepsInv
    <3>2. CASE /\ reader = "past" /\ reader' = "idle"
               /\ state' = "finWait"
               /\ clientSeqNext' = next + 1
               /\ finAck' = relaySeqNext
               /\ UNCHANGED <<inTable, clientISN, relaySeqNext, conn, written, acked, loopVars,
                              sentVars, historyVars>>
      <4> USE <3>0, <3>2 DEF sentVars, historyVars
      <4>1. ClientNumbers'
        BY DEF ClientNumbers, ClientStream, loopVars
      <4>2. Labels'
        BY DEF Labels, ClientStream, loopVars
      <4>3. ServerStream' /\ Acknowledged'
        BY DEF ServerStream, ServerStreamInOrder, Acknowledged, ClientStream
      <4>4. ClientStream'
        BY StreamKept
      <4>5. Flags'
        BY Zenon DEF Flags, streamVars
      <4> QED
        BY <4>1, <4>2, <4>3, <4>4, <4>5
    <3> QED
      BY <2>4, <3>1, <3>2 DEF Fin
  <2>5. CASE FinAcknowledged
    <3> USE <2>5 DEF FinAcknowledged, IInv, clientVars, entryVars, historyVars
    <3>1. ClientNumbers'
      BY DEF ClientNumbers, Max, loopVars
    <3>2. Labels'
      BY DEF Labels, Min, loopVars
    <3>3. ServerStream' /\ Acknowledged'
      BY DEF ServerStream, ServerStreamInOrder, Acknowledged, ClientNumbers
    <3>4. ClientStream'
      BY StreamKept DEF ClientNumbers
    <3>5. Flags'
      BY Zenon DEF Flags, streamVars
    <3> QED
      BY <3>1, <3>2, <3>3, <3>4, <3>5
  <2>6. CASE Rst
    <3> USE DEF IInv
    <3>0. /\ next \in Nat \ {0} /\ finAck = None /\ UNCHANGED <<next, finAck, reads>>
          /\ clientFin' = IF clientFin = None THEN 0 ELSE clientFin
      BY <2>6 DEF Rst, ClientNumbers
    <3>1. CASE Recreate(next)
      <4>1. /\ clientFin' \in 0..MaxSeq \cup {None}
            /\ clientFin' \in {None, 0} => clientFin \in {None, 0} /\ next' <= MaxSeq
            /\ clientFin' \notin {None, 0} => next' = clientFin' + 1
            /\ next' \in 0..(MaxSeq + 1)
        BY <3>0 DEF ClientNumbers
      <4> QED
        BY <3>0, <3>1, <4>1, RecreateKeepsInv
    <3>2. CASE /\ reader = "past" /\ reader' = "idle"
               /\ state' = "closed"
               /\ conn' = "closed"
               /\ UNCHANGED <<inTable, clientISN, clientSeqNext, relaySeqNext,
                              written, acked, loopVars, sentVars, historyVars>>
      <4> USE <3>0, <3>2 DEF sentVars, historyVars
      <4>1. ClientNumbers'
        BY DEF ClientNumbers, loopVars
      <4>2. Labels'
        BY DEF Labels, loopVars
      <4>3. ServerStream' /\ Acknowledged'
        BY DEF ServerStream, ServerStreamInOrder, Acknowledged, ClientNumbers
      <4>4. ClientStream'
        BY StreamKept
      <4>5. Flags'
        BY Zenon DEF Flags, streamVars
      <4> QED
        BY <4>1, <4>2, <4>3, <4>4, <4>5
    <3> QED
      BY <2>6, <3>1, <3>2 DEF Rst
  <2>12. ASSUME PureAck \/ ReaderChecks PROVE IInv'
    <3> USE DEF IInv
    <3>1. CASE PureAck /\ Recreate(next)
      <4>1. /\ next \in Nat \ {0} /\ finAck = None
            /\ UNCHANGED <<next, clientFin, finAck, reads>>
        BY <3>1 DEF PureAck, clientVars, ClientNumbers
      <4>2. /\ clientFin' \in 0..MaxSeq \cup {None}
            /\ clientFin' \in {None, 0} => clientFin \in {None, 0} /\ next' <= MaxSeq
            /\ clientFin' \notin {None, 0} => next' = clientFin' + 1
            /\ next' \in 0..(MaxSeq + 1)
        BY <4>1 DEF ClientNumbers
      <4> QED
        BY <3>1, <4>1, <4>2, RecreateKeepsInv
    <3>2. CASE /\ reader' \in {"idle", "past"}
               /\ UNCHANGED <<clientVars, inTable, entryVars, relaySeqNext, conn, written,
                              acked, finAck, loopVars, sentVars, reads, historyVars>>
      <4> USE <3>2 DEF clientVars, entryVars, sentVars, historyVars
      <4>1. ClientNumbers'
        BY DEF ClientNumbers, loopVars
      <4>2. Labels'
        BY DEF Labels, loopVars
      <4>3. ServerStream' /\ Acknowledged'
        BY DEF ServerStream, ServerStreamInOrder, Acknowledged
      <4>4. ClientStream'
        BY StreamKept
      <4>5. Flags'
        BY Zenon DEF Flags, streamVars
      <4> QED
        BY <4>1, <4>2, <4>3, <4>4, <4>5
    <3> QED
      BY <2>12, <3>1, <3>2 DEF PureAck, ReaderChecks
  <2>7. CASE LoopReads \/ LoopSends
    <3> USE <2>7 DEF LoopReads, LoopSends, IInv, clientVars, entryVars, sentVars, historyVars
    <3>1. ClientNumbers'
      BY DEF ClientNumbers
    <3>2. ClientStream'
      <4>1. CASE LoopReads
        BY <4>1 DEF ClientStream, ClientStreamContiguous, StreamEnd, streamVars
      <4>2. CASE LoopSends
        <5>1. pending = StreamEnd /\ ~misplaced /\ StreamEnd = relaySeqNext - 1
          BY <4>2 DEF ClientStream, ClientStreamContiguous
        <5>2. ~misplaced'
          BY <4>2, <5>1, Zenon
        <5>3. delivered' = relaySeqNext /\ ~renumbered' /\ StreamEnd' = relaySeqNext
          BY <4>2, <5>1 DEF ClientStream, StreamEnd
        <5>4. ~startedOver' => ~startedOver /\ ~renumbered
          BY <4>2 DEF Flags
        <5>5. ~startedOver' => delivered' = reads + 1
          BY <4>2, <5>1, <5>3, <5>4 DEF ClientStream, ClientStreamContiguous, StreamEnd
        <5>6. /\ relaySeqNext' = relaySeqNext /\ relaySeqNext \in 1..(reads + 1)
              /\ reads' = reads /\ loop' = "read"
          BY <4>2, <5>1 DEF ClientStream, StreamEnd
        <5>7. ClientStreamContiguous'
          BY <5>2, <5>5, <5>6, Zenon DEF ClientStreamContiguous
        <5>8. clientFin' \in {None, 0} => relayFin' = None
          BY <4>2 DEF ClientStream
        <5> QED
          BY <5>3, <5>6, <5>7, <5>8 DEF ClientStream
      <4> QED
        BY <4>1, <4>2
    <3>3. Labels'
      <4>1. CASE LoopReads
        BY <4>1 DEF Labels, ClientStream, streamVars
      <4>2. CASE LoopSends
        BY <4>2 DEF Labels
      <4> QED
        BY <4>1, <4>2
    <3>4. ServerStream' /\ Acknowledged'
      BY DEF ServerStream, ServerStreamInOrder, Acknowledged
    <3>5. Flags'
      <4>1. CASE LoopReads
        BY <4>1 DEF Flags, streamVars
      <4>2. CASE LoopSends
        <5>1. misplaced' \in BOOLEAN /\ startedOver' \in BOOLEAN /\ renumbered' \in BOOLEAN
          BY <4>2, Zenon DEF Flags
        <5> QED
          BY <4>2, <5>1, Zenon DEF Flags
      <4> QED
        BY <4>1, <4>2
    <3> QED
      BY <3>1, <3>2, <3>3, <3>4, <3>5
  <2>8. CASE LoopEnds \/ LoopSendsFin
    <3> USE <2>8 DEF LoopEnds, LoopSendsFin, IInv, clientVars, entryVars, sentVars, historyVars
    <3>1. ClientNumbers'
      BY DEF ClientNumbers
    <3>2. ClientStream'
      <4>1. CASE LoopEnds
        BY <4>1 DEF ClientStream, ClientStreamContiguous, StreamEnd, streamVars
      <4>2. CASE LoopSendsFin
        BY <4>2 DEF ClientStream, ClientStreamContiguous, StreamEnd, streamVars, Labels, Min
      <4> QED
        BY <4>1, <4>2
    <3>3. Labels'
      <4>1. CASE LoopEnds
        BY <4>1 DEF Labels, ClientStream
      <4>2. CASE LoopSendsFin
        BY <4>2 DEF Labels, Min
      <4> QED
        BY <4>1, <4>2
    <3>4. ServerStream' /\ Acknowledged'
      BY DEF ServerStream, ServerStreamInOrder, Acknowledged
    <3>5. Flags'
      BY DEF Flags, streamVars
    <3> QED
      BY <3>1, <3>2, <3>3, <3>4, <3>5
  <2>9. CASE ServerCloses \/ Evict
    <3> USE <2>9 DEF ServerCloses, Evict, IInv, clientVars, entryVars, sentVars, historyVars
    <3>1. ClientNumbers'
      BY DEF ClientNumbers, loopVars
    <3>2. Labels'
      BY DEF Labels, loopVars
    <3>3. ServerStream' /\ Acknowledged'
      BY DEF ServerStream, ServerStreamInOrder, Acknowledged
    <3>4. ClientStream'
      BY StreamKept
    <3>5. Flags'
      BY Zenon DEF Flags, streamVars
    <3> QED
      BY <3>1, <3>2, <3>3, <3>4, <3>5
  <2>10. CASE UNCHANGED vars
    BY <2>10 DEF vars, IInv, Labels, Flags, ClientNumbers, ServerStream, ServerStreamInOrder,
                 Acknowledged, ClientStream, ClientStreamContiguous, StreamEnd
  <2>11. Next => \/ \E n \in Nat : Fin(n)
                 \/ \E n \in SegLens : NewSegment(n) \/ \E seq \in 1..acked : Retransmit(seq, n)
                 \/ Syn \/ ReaderChecks \/ FinAcknowledged \/ PureAck \/ Rst \/ LoopReads \/ LoopSends \/ LoopEnds
                 \/ LoopSendsFin \/ ServerCloses \/ Evict
    BY FlowAssumption DEF Next
  <2> QED
    BY <2>1, <2>2, <2>3, <2>4, <2>5, <2>6, <2>7, <2>8, <2>9, <2>10, <2>11, <2>12
<1> QED
  BY <1>1, <1>2, PTL DEF Spec

\* The sequence numbers stay within their bounds, whatever the client sends.
THEOREM TypeCorrect == Spec => []TypeOK
<1>1. IInv => TypeOK
  BY NoneIsLarge DEF IInv, Labels, Flags, ClientNumbers, ServerStream, ClientStream, TypeOK
<1> QED
  BY <1>1, Inductive, PTL

\* A server connection gets the client's bytes in order, with no gap and none twice,
\* whatever is retransmitted, refused or re-created (forwardTCPData).
THEOREM ServerGetsStream == Spec => []ServerStreamInOrder
<1>1. IInv => ServerStreamInOrder
  BY DEF IInv, ServerStream
<1> QED
  BY <1>1, Inductive, PTL

\* Under each relayISN the data sent to the client is contiguous, although its numbers are
\* read under the lock and used after it (tcpReverseLoop); and until a re-created entry
\* sends data the client has been sent every byte the server gave, at its place.
THEOREM ClientGetsStream == Spec => []ClientStreamContiguous
<1>1. IInv => ClientStreamContiguous
  BY DEF IInv, ClientStream
<1> QED
  BY <1>1, Inductive, PTL

\* Before a FIN of the client, what the relay has acknowledged it has written.
THEOREM AcknowledgedIsWritten == Spec => []AckedBeforeFinIsForwarded
<1>1. IInv => AckedBeforeFinIsForwarded
  BY DEF IInv, Acknowledged, ClientNumbers, ServerStream, AckedBeforeFinIsForwarded,
         AckedIsForwarded
<1> QED
  BY <1>1, Inductive, PTL

\* When the server closes first, no data follows the relay's FIN.
THEOREM FinEndsStream == Spec => []RelayFinIsLast
<1>1. IInv => RelayFinIsLast
  BY DEF IInv, ClientStream, RelayFinIsLast
<1> QED
  BY <1>1, Inductive, PTL
=============================================================================
