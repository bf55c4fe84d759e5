----------------------------- MODULE RelayFlow -----------------------------
(***************************************************************************)
(* One TCP flow through the relay: the client's segments, the userspace    *)
(* TCP state of its natEntry, and the two goroutines that use it, the      *)
(* session's reader and the flow's reverse loop (relay/relay/nat_table.go: *)
(* openTCP, handleTCPPacket, forwardTCPData, tcpReverseLoop).              *)
(* Sequence numbers count from each side's ISN: the client's SYN is 0 and  *)
(* its data bytes are 1, 2, ...; the relay's data starts at 1 under every  *)
(* relayISN.  Each entry draws its own: numbers of two entries do not      *)
(* compare, and the client, which knows the first ISN only, sees its       *)
(* stream start over.  A server read returns one byte.  Runs are far       *)
(* shorter than 2^32: the code's uint32 arithmetic does not wrap.          *)
(***************************************************************************)
EXTENDS Naturals, Sequences

CONSTANTS
    SegLens,       \* lengths of the client's data segments
    MaxSeq,        \* bound on the client's sequence numbers
    MaxReads,      \* bound on the reads that return server data
    MidStream,     \* the entry may be evicted, and re-created by a later packet
    Fins           \* the FINs the client may send: "bare", "withData"

ASSUME FlowAssumption ==
    /\ SegLens \subseteq Nat \ {0}
    /\ MaxSeq \in Nat \ {0}
    /\ MaxReads \in Nat
    /\ MidStream \in BOOLEAN
    /\ Fins \subseteq {"bare", "withData"}

None == MaxSeq + MaxReads + 2    \* above every sequence number of a run

VARIABLES
    next, clientFin,              \* client: next sequence number, its FIN's (0: reset)
    inTable,                      \* the table holds the entry
    reader,                       \* session reader: "idle", "past" the check of a packet
    state,                        \* natEntry.tcpState
    clientISN,                    \* sequence of the packet that created the entry
    clientSeqNext, relaySeqNext,  \* fields of the entry
    conn,                         \* server socket: "none", "open", "eof", "closed"
    written,                      \* bytes written to that socket, in order
    acked,                        \* highest acknowledgement sent to the client
    finAck,                       \* FIN-ACK the reader is about to send, or None
    loop, pending,                \* the reverse loop, the sequence it sends at
    delivered,                    \* end of the data sent to the client, kept over entries
    renumbered,                   \* the entry has another ISN than that data
    startedOver,                  \* data has been sent under another ISN than the first
    misplaced,                    \* data was sent elsewhere than at that end, or at 1
    relayFin,                     \* lowest sequence of the entry's FINs, or None
    reads,                        \* server reads so far
    forwarded,                    \* end of the client's bytes all written to a server
    gap                           \* a re-created entry has written data

clientVars == <<next, clientFin>>
entryVars == <<state, clientISN, clientSeqNext>>
historyVars == <<forwarded, gap>>
loopVars == <<loop, pending>>
streamVars == <<delivered, renumbered, startedOver, misplaced>>
sentVars == <<streamVars, relayFin>>
vars == <<next, clientFin, inTable, reader, state, clientISN, clientSeqNext, relaySeqNext,
          conn, written, acked, finAck, loop, pending, delivered, renumbered, startedOver,
          misplaced, relayFin, reads, forwarded, gap>>

TypeOK ==
    /\ {next, clientFin, clientISN, clientSeqNext, acked} \subseteq 0..(MaxSeq + 1) \cup {None}
    /\ {relaySeqNext, pending, delivered} \subseteq 0..(MaxReads + 1)
    /\ {finAck, relayFin} \subseteq 0..(MaxReads + 1) \cup {None}
    /\ state \in {"none", "established", "finWait", "closed"}
    /\ conn \in {"none", "open", "eof", "closed"}
    /\ loop \in {"off", "read", "send", "sendFin", "ended"}
    /\ written \in Seq(1..MaxSeq)
    /\ {inTable, renumbered, startedOver, misplaced, gap} \subseteq BOOLEAN
    /\ reader \in {"idle", "past"}
    /\ reads \in 0..MaxReads
    /\ forwarded \in 0..MaxSeq

Init ==
    /\ next = 0 /\ clientFin = None
    /\ inTable = FALSE /\ reader = "idle" /\ state = "none"
    /\ clientISN = 0 /\ clientSeqNext = 0 /\ relaySeqNext = 0
    /\ conn = "none" /\ written = <<>>
    /\ acked = 0 /\ finAck = None
    /\ loop = "off" /\ pending = 0
    /\ delivered = 1 /\ renumbered = FALSE /\ startedOver = FALSE /\ misplaced = FALSE
    /\ relayFin = None
    /\ reads = 0 /\ forwarded = 0 /\ gap = FALSE

Max(a, b) == IF a > b THEN a ELSE b
Min(a, b) == IF a < b THEN a ELSE b
Bytes(from, n) == [i \in 1..n |-> from + i - 1]

-----------------------------------------------------------------------------
(* The entry: openTCP on the first packet of the tuple. *)

\* A new entry for a packet at seq, whatever its flags.  Its relayISN is a new random
\* number; the SYN-ACK tells it to a client that is connecting (seq 0), which takes its
\* acknowledgement of seq + 1, and means nothing to another (RFC 5961).
OpenTCP(seq) ==
    /\ inTable' = TRUE
    /\ state' = "established"
    /\ clientISN' = seq
    /\ clientSeqNext' = seq + 1
    /\ relaySeqNext' = 1
    /\ conn' = "open"
    /\ written' = <<>>
    /\ acked' = IF seq = 0 THEN 1 ELSE acked
    /\ loop' = "read" /\ pending' = 0
    /\ renumbered' = (seq # 0) /\ relayFin' = None
    /\ UNCHANGED <<delivered, startedOver, misplaced>>

\* A packet finds no entry and creates one; forwardNew finds a payload out of order.
\* (Bound: it comes after the end of the old entry's reverse loop.)
Recreate(seq) ==
    /\ reader = "idle" /\ ~inTable /\ loop = "ended" /\ seq <= MaxSeq
    /\ OpenTCP(seq)
    /\ UNCHANGED <<reader, historyVars>>

\* What the history keeps of n bytes written from seq on.
Recorded(seq, n) ==
    /\ forwarded' = IF seq <= forwarded + 1 THEN Max(forwarded, seq + n - 1) ELSE forwarded
    /\ gap' = (gap \/ clientISN # 0)

\* Mutant: any segment is written, in order or not.
ForwardAnyData(seq, n) ==
    /\ conn \in {"open", "eof"}
    /\ written' = written \o Bytes(seq, n)
    /\ clientSeqNext' = seq + n
    /\ acked' = Max(acked, seq + n)
    /\ Recorded(seq, n)

\* Mutant: a segment the socket refused is acknowledged all the same.
AckUnwritten(seq, n) ==
    /\ written' = IF seq = clientSeqNext /\ conn = "open"
                  THEN written \o Bytes(seq, n) ELSE written
    /\ IF seq = clientSeqNext /\ conn = "open" THEN Recorded(seq, n)
       ELSE UNCHANGED historyVars
    /\ clientSeqNext' = Max(clientSeqNext, seq + n)
    /\ acked' = Max(acked, seq + n)

\* forwardTCPData: only the next segment is written, and acknowledged once
\* written; a dead socket may refuse it.
ForwardData(seq, n) ==
    \/ /\ seq = clientSeqNext
       /\ conn \in {"open", "eof"}
       /\ written' = written \o Bytes(seq, n)
       /\ clientSeqNext' = seq + n
       /\ acked' = Max(acked, seq + n)
       /\ Recorded(seq, n)
    \/ /\ seq # clientSeqNext \/ conn # "open"
       /\ UNCHANGED <<written, clientSeqNext, acked, historyVars>>

-----------------------------------------------------------------------------
(* Packets of the client, each handled by the reader when it is free. *)

Syn ==
    /\ next = 0
    /\ next' = 1
    /\ OpenTCP(0)
    /\ UNCHANGED <<clientFin, reader, finAck, reads, historyVars>>

\* The reader has the entry of a packet and has seen it not closed; the sweeper and
\* the reverse loop may go on before it handles the packet.
ReaderChecks ==
    /\ reader = "idle" /\ finAck = None
    /\ inTable /\ state # "closed"
    /\ reader' = "past"
    /\ UNCHANGED <<clientVars, inTable, entryVars, relaySeqNext, conn, written, acked,
                   finAck, loopVars, sentVars, reads, historyVars>>

\* It handles a segment of n bytes at seq: handleTCPPacket, or a new entry.
Segment(seq, n) ==
    /\ finAck = None
    /\ \/ /\ reader = "idle" /\ inTable /\ state = "closed"
          /\ UNCHANGED <<inTable, reader, entryVars, relaySeqNext, conn, written, acked,
                         loopVars, sentVars, historyVars>>
       \/ /\ reader = "past" /\ reader' = "idle"
          /\ ForwardData(seq, n)
          /\ UNCHANGED <<inTable, state, clientISN, relaySeqNext, conn, loopVars, sentVars>>
       \/ Recreate(seq)
    /\ UNCHANGED <<finAck, reads>>

NewSegment(n) ==
    /\ next > 0 /\ clientFin = None
    /\ next + n <= MaxSeq
    /\ next' = next + n
    /\ Segment(next, n)
    /\ UNCHANGED clientFin

\* A segment sent again, before its acknowledgement came.
Retransmit(seq, n) ==
    /\ 0 < seq /\ seq <= acked /\ seq + n <= next
    /\ clientFin = None \/ seq + n <= clientFin
    /\ Segment(seq, n)
    /\ UNCHANGED clientVars

\* A packet without payload, SYN, FIN and RST changes an existing entry in nothing.
PureAck ==
    /\ next > 0 /\ clientFin # 0 /\ finAck = None
    /\ \/ /\ reader = "past" /\ reader' = "idle"
          /\ UNCHANGED <<inTable, entryVars, relaySeqNext, conn, written, acked,
                         loopVars, sentVars, historyVars>>
       \/ Recreate(next)
    /\ UNCHANGED <<clientVars, finAck, reads>>

\* A FIN, first half: the state changes under the lock, the FIN-ACK's numbers
\* are read.  A payload on the segment is not looked at.  One without an entry opens one.
Fin(n) ==
    /\ next > 0 /\ clientFin = None /\ finAck = None
    /\ next + n <= MaxSeq
    /\ clientFin' = next + n
    /\ next' = next + n + 1
    /\ \/ /\ reader = "past" /\ reader' = "idle"
          /\ state' = "finWait"
          /\ clientSeqNext' = next + 1
          /\ finAck' = relaySeqNext
          /\ UNCHANGED <<inTable, clientISN, relaySeqNext, conn, written, acked, loopVars,
                         sentVars, historyVars>>
       \/ Recreate(next) /\ UNCHANGED finAck
    /\ UNCHANGED reads

\* Second half: send the FIN-ACK, close the socket.
FinAcknowledged ==
    /\ finAck # None
    /\ relayFin' = Min(relayFin, finAck)
    /\ acked' = Max(acked, clientSeqNext)
    /\ conn' = "closed"
    /\ finAck' = None
    /\ UNCHANGED <<clientVars, inTable, reader, entryVars, relaySeqNext, written,
                   loopVars, streamVars, reads, historyVars>>

\* The client resets: it sends nothing new (no FIN yet: it is put at 0).  A RST
\* without an entry opens one.
Rst ==
    /\ next > 0 /\ finAck = None
    /\ clientFin' = IF clientFin = None THEN 0 ELSE clientFin
    /\ \/ /\ reader = "past" /\ reader' = "idle"
          /\ state' = "closed"
          /\ conn' = "closed"
          /\ UNCHANGED <<inTable, clientISN, clientSeqNext, relaySeqNext,
                         written, acked, loopVars, sentVars, historyVars>>
       \/ Recreate(next)
    /\ UNCHANGED <<next, finAck, reads>>

-----------------------------------------------------------------------------
(* tcpReverseLoop. *)

\* Mutant: the sequence number is advanced twice for one read.
LoopReadsCountsTwice ==
    /\ loop = "read" /\ conn = "open" /\ reads < MaxReads
    /\ reads' = reads + 1
    /\ pending' = relaySeqNext
    /\ relaySeqNext' = relaySeqNext + 2
    /\ loop' = "send"
    /\ UNCHANGED <<clientVars, inTable, reader, entryVars, conn, written, acked, finAck,
                   sentVars, historyVars>>

LoopReads ==
    /\ loop = "read" /\ conn = "open" /\ reads < MaxReads
    /\ reads' = reads + 1
    /\ pending' = relaySeqNext
    /\ relaySeqNext' = relaySeqNext + 1
    /\ loop' = "send"
    /\ UNCHANGED <<clientVars, inTable, reader, entryVars, conn, written, acked, finAck,
                   sentVars, historyVars>>

\* Where the data of the entry goes on: at 1 under an ISN that has carried none.
StreamEnd == IF renumbered THEN 1 ELSE delivered

LoopSends ==
    /\ loop = "send"
    /\ misplaced' = (misplaced \/ pending # StreamEnd)
    /\ startedOver' = (startedOver \/ renumbered)
    /\ delivered' = pending + 1 /\ renumbered' = FALSE
    /\ loop' = "read"
    /\ UNCHANGED <<clientVars, inTable, reader, entryVars, relaySeqNext, conn, written,
                   acked, finAck, pending, relayFin, reads, historyVars>>

\* Mutant: the end of the stream is announced before the last read is sent.
LoopEndsEarly ==
    /\ loop \in {"read", "send"} /\ conn \in {"eof", "closed"}
    /\ state' = "closed"
    /\ pending' = IF loop = "send" THEN pending ELSE relaySeqNext
    /\ relayFin' = Min(relayFin, pending')
    /\ UNCHANGED <<clientVars, inTable, reader, clientISN, clientSeqNext, relaySeqNext, conn,
                   written, acked, finAck, streamVars, reads, historyVars, loop>>

\* conn.Read fails: mark closed; a FIN follows unless a RST closed it already.
LoopEnds ==
    /\ loop = "read" /\ conn \in {"eof", "closed"}
    /\ loop' = IF state = "closed" THEN "ended" ELSE "sendFin"
    /\ state' = "closed"
    /\ pending' = relaySeqNext
    /\ UNCHANGED <<clientVars, inTable, reader, clientISN, clientSeqNext, relaySeqNext, conn,
                   written, acked, finAck, sentVars, reads, historyVars>>

LoopSendsFin ==
    /\ loop = "sendFin"
    /\ relayFin' = Min(relayFin, pending)
    /\ loop' = "ended"
    /\ UNCHANGED <<clientVars, inTable, reader, entryVars, relaySeqNext, conn, written,
                   acked, finAck, pending, streamVars, reads, historyVars>>

-----------------------------------------------------------------------------
(* The server, and the sweeper. *)

ServerCloses ==
    /\ conn = "open"
    /\ conn' = "eof"
    /\ UNCHANGED <<clientVars, inTable, reader, entryVars, relaySeqNext, written, acked,
                   finAck, loopVars, sentVars, reads, historyVars>>

\* evictEntry after the TTL, by a sweep that read lastSeen before the packet came.
Evict ==
    /\ MidStream
    /\ inTable /\ inTable' = FALSE
    /\ conn' = "closed"
    /\ UNCHANGED <<clientVars, reader, entryVars, relaySeqNext, written, acked, finAck,
                   loopVars, sentVars, reads, historyVars>>

Next == \/ Syn
        \/ \E n \in SegLens : NewSegment(n) \/ \E seq \in 1..acked : Retransmit(seq, n)
        \/ "bare" \in Fins /\ Fin(0)
        \/ \E n \in SegLens : "withData" \in Fins /\ Fin(n)
        \/ ReaderChecks \/ FinAcknowledged \/ PureAck \/ Rst
        \/ LoopReads \/ LoopSends \/ LoopEnds \/ LoopSendsFin
        \/ ServerCloses \/ Evict

Spec == Init /\ [][Next]_vars

-----------------------------------------------------------------------------
(* Properties. *)

\* A server connection receives the client's bytes with no gap and none twice, from
\* the one that follows the packet which created the entry, whatever is retransmitted
\* or re-created.
ServerStreamInOrder == \A i \in 1..Len(written) : written[i] = clientISN + i

\* Under each relayISN the data sent to the client is contiguous from 1 on.  Until an
\* entry re-created in mid-stream sends data, which starts over under an ISN the client
\* does not know (nat_table.go:425), the client has been sent every byte the server
\* connections gave, at its place in the one stream its SYN opened.
ClientStreamContiguous ==
    /\ ~misplaced
    /\ ~startedOver => delivered = IF loop = "send" THEN reads ELSE reads + 1

\* The relay never acknowledges what it does not hold: clientSeqNext is the
\* "next expected byte from client" (nat_table.go:119), so every byte below an
\* acknowledgement has been written to a server, the FIN's number excepted.
AckedIsForwarded ==
    \A b \in 1..(acked - 1) : b = clientFin \/ b <= forwarded

\* A client that has not sent a FIN has lost nothing that was acknowledged,
\* whatever was refused, retransmitted or re-created; unless a re-created entry, which
\* counts the packet that created it as a SYN, went on with the segment after its first byte.
AckedBeforeFinIsForwarded == clientFin \in {None, 0} /\ ~gap => AckedIsForwarded

\* When the server closes first, the FIN it causes ends the stream of its ISN: no
\* data is sent at or above its number, so that relaySeqNext stays the "next
\* sequence number for data to client" (nat_table.go:120).
RelayFinIsLast ==
    clientFin \in {None, 0} => relayFin = None \/ StreamEnd <= relayFin
=============================================================================
