---------------------------- MODULE RelayTunnel ----------------------------
(***************************************************************************)
(* One POST /tunnel stream of the relay, from admission to cleanup:        *)
(*   relay/relay/tunnel_handler.go  the handler, its reader, its writer    *)
(*                                  and the idle monitor                   *)
(*   relay/relay/nat_table.go       the session channel (OpenSession,      *)
(*                                  sendToSession) and the reverse loops   *)
(* A flow is one NAT entry of this session: a socket to a server and the   *)
(* goroutine that reads it.  A packet is known by who queued it: "reply"   *)
(* (the reader, answering a frame itself: SYN-ACK, ACK, FIN-ACK, RST, DNS  *)
(* answer) or "data" (a reverse loop).  The port pool and the table are in *)
(* RelayNat.                                                               *)
(***************************************************************************)
EXTENDS Naturals, Sequences, FiniteSets

CONSTANTS
    TCPFlows, UDPFlows,  \* NAT entries this session may open
    OutCap,              \* natReverseBufSz, 256 in the code
    InCap,               \* bound on frames in flight from the client
    MaxData              \* bound on the packets a server sends on one flow

Flows == TCPFlows \cup UDPFlows

ASSUME TunnelAssumption ==
    /\ TCPFlows \cap UDPFlows = {}
    /\ OutCap \in Nat \ {0}
    /\ InCap \in Nat \ {0}
    /\ MaxData \in Nat

VARIABLES
    main,        \* the handler's own goroutine
    slot,        \* an IPLimiter slot is held
    client,      \* "reading", "stalled" (does not read) or "gone"
    body,        \* request body: "open" or "ended"
    inbound,     \* frames of the body not read yet
    reader, cur, \* the reader goroutine, and the flow its reply belongs to
    writer,      \* the writer goroutine
    out,         \* sessionChan.ch
    cancelled,   \* sessionCtx
    idle,        \* idle monitor: "off", "armed", "fired"
    registered,  \* the session is in NAT.sessions
    doneClosed,  \* sessionChan.done is closed
    conn,        \* socket of each flow: "none", "open", "closed"
    entry,       \* its entry: "none", "listed" in the table, "lost" from it, "evicted"
    loop,        \* its reverse loop
    data         \* packets its server has sent

mainVars == <<main, slot>>
linkVars == <<client, body, inbound>>
natVars  == <<registered, doneClosed>>
flowVars == <<conn, entry, loop, data>>
vars == <<main, slot, client, body, inbound, reader, cur, writer, out,
          cancelled, idle, registered, doneClosed, conn, entry, loop, data>>

\* Where each goroutine and each party is.
PlacesOK ==
    /\ main \in {"admit", "quota", "waitReader", "waitWriter", "unregister",
                 "closeDone", "closeEntries", "release", "returned"}
    /\ slot \in BOOLEAN
    /\ client \in {"reading", "stalled", "gone"}
    /\ body \in {"open", "ended"}
    /\ reader \in {"off", "read", "forward", "reply", "synack", "finack", "done"}
    /\ writer \in {"off", "select", "write", "drain", "drainWrite", "done"}
    /\ cancelled \in BOOLEAN
    /\ idle \in {"off", "armed", "fired"}
    /\ registered \in BOOLEAN
    /\ doneClosed \in BOOLEAN

\* What is in flight, and the flows.
StoresOK ==
    /\ inbound \in 0..InCap
    /\ cur \in Flows
    /\ out \in Seq({"reply", "data"})
    /\ Len(out) <= OutCap
    /\ conn \in [Flows -> {"none", "open", "closed"}]
    /\ entry \in [Flows -> {"none", "listed", "lost", "evicted"}]
    /\ loop \in [Flows -> {"off", "read", "send", "sendFin", "ended"}]
    /\ data \in [Flows -> 0..MaxData]

TypeOK == PlacesOK /\ StoresOK

Init ==
    /\ main = "admit"  /\ slot = FALSE
    /\ client = "reading"  /\ body = "open"  /\ inbound = 0
    /\ reader = "off"  /\ cur \in Flows  /\ writer = "off"
    /\ out = <<>>  /\ cancelled = FALSE  /\ idle = "off"
    /\ registered = FALSE  /\ doneClosed = FALSE
    /\ conn = [f \in Flows |-> "none"]
    /\ entry = [f \in Flows |-> "none"]
    /\ loop = [f \in Flows |-> "off"]
    /\ data = [f \in Flows |-> 0]

-----------------------------------------------------------------------------
(* Admission: ServeHTTP, and serveTunnel up to its two goroutines. *)

\* Bad method, token, expiry, IP hash, or no slot: nothing has been acquired.
Reject ==
    /\ main = "admit"
    /\ main' = "returned"
    /\ UNCHANGED <<slot, linkVars, reader, cur, writer, out, cancelled, idle,
                   natVars, flowVars>>

AcquireSlot ==
    /\ main = "admit"
    /\ main' = "quota"
    /\ slot' = TRUE
    /\ UNCHANGED <<linkVars, reader, cur, writer, out, cancelled, idle,
                   natVars, flowVars>>

\* Quota exhausted, or no session ID: the deferred Release runs.
RejectLate ==
    /\ main = "quota"
    /\ main' = "release"
    /\ UNCHANGED <<slot, linkVars, reader, cur, writer, out, cancelled, idle,
                   natVars, flowVars>>

OpenSession ==
    /\ main = "quota"
    /\ main' = "waitReader"
    /\ registered' = TRUE
    /\ reader' = "read"
    /\ writer' = "select"
    /\ idle' = "armed"
    /\ UNCHANGED <<slot, linkVars, cur, out, cancelled, doneClosed, flowVars>>

-----------------------------------------------------------------------------
(* sendToSession: the lookup is one step, the blocking send another. *)

\* Mutant: the channel has no bound.
PushUnbounded(packet) ==
    /\ Len(out) <= OutCap
    /\ out' = Append(out, packet)

\* The second half: push when there is room, or give up on a dead session.
Push(packet) ==
    \/ /\ Len(out) < OutCap
       /\ out' = Append(out, packet)
    \/ /\ doneClosed
       /\ UNCHANGED out


-----------------------------------------------------------------------------
(* The reader goroutine: read a frame, Forward it, send what it answers. *)

ReadFrame ==
    /\ reader = "read"
    /\ inbound > 0
    /\ inbound' = inbound - 1
    /\ reader' = "forward"
    /\ UNCHANGED <<mainVars, client, body, cur, writer, out, cancelled, idle,
                   natVars, flowVars>>

\* EOF, a read error, or a frame whose size is out of range.
ReadEnds ==
    /\ reader = "read"
    /\ body = "ended" \/ inbound > 0
    /\ reader' = "done"
    /\ UNCHANGED <<mainVars, linkVars, cur, writer, out, cancelled, idle,
                   natVars, flowVars>>

\* Forward returns an error, or the packet needs no answer: keep reading.
ForwardSilently ==
    /\ reader = "forward"
    /\ reader' = "read"
    /\ UNCHANGED <<mainVars, linkVars, cur, writer, out, cancelled, idle,
                   natVars, flowVars>>

\* An intercepted DNS query, a refused dial, or data on an open TCP flow.
ForwardAnswers ==
    /\ reader = "forward"
    /\ reader' = "reply"
    /\ UNCHANGED <<mainVars, linkVars, cur, writer, out, cancelled, idle,
                   natVars, flowVars>>

\* openUDP: the reverse loop starts at once; then Translate stores the entry.
OpenUDP(f) ==
    /\ reader = "forward"
    /\ conn[f] = "none"
    /\ conn' = [conn EXCEPT ![f] = "open"]
    /\ entry' = [entry EXCEPT ![f] = "listed"]
    /\ loop' = [loop EXCEPT ![f] = "read"]
    /\ reader' = "read"
    /\ UNCHANGED <<mainVars, linkVars, cur, writer, out, cancelled, idle,
                   natVars, data>>

\* openTCP: dial, then send the SYN-ACK, and only then start the loop and store.
DialTCP(f) ==
    /\ reader = "forward"
    /\ conn[f] = "none"
    /\ conn' = [conn EXCEPT ![f] = "open"]
    /\ cur' = f
    /\ reader' = "synack"
    /\ UNCHANGED <<mainVars, linkVars, writer, out, cancelled, idle, natVars,
                   entry, loop, data>>

\* A FIN on an open flow is answered before the socket is closed.
ForwardFin(f) ==
    /\ reader = "forward"
    /\ conn[f] = "open" /\ entry[f] = "listed"
    /\ cur' = f
    /\ reader' = "finack"
    /\ UNCHANGED <<mainVars, linkVars, writer, out, cancelled, idle, natVars,
                   flowVars>>

ForwardRst(f) ==
    /\ reader = "forward"
    /\ conn[f] = "open" /\ entry[f] = "listed"
    /\ conn' = [conn EXCEPT ![f] = "closed"]
    /\ reader' = "read"
    /\ UNCHANGED <<mainVars, linkVars, cur, writer, out, cancelled, idle,
                   natVars, entry, loop, data>>

\* sendToSession of the reader's own packet returns.
ReaderSends ==
    /\ reader \in {"reply", "synack", "finack"}
    /\ Push("reply")
    /\ reader' = "read"
    /\ loop' = IF reader = "synack" THEN [loop EXCEPT ![cur] = "read"] ELSE loop
    /\ entry' = IF reader = "synack" THEN [entry EXCEPT ![cur] = "listed"] ELSE entry
    /\ conn' = IF reader = "finack" THEN [conn EXCEPT ![cur] = "closed"] ELSE conn
    /\ UNCHANGED <<mainVars, linkVars, cur, writer, cancelled, idle, natVars,
                   data>>

-----------------------------------------------------------------------------
(* The reverse loop of a flow: tcpReverseLoop, udpReverseLoop. *)

\* conn.Read returns data; sendToSession looks the session up.
LoopReads(f) ==
    /\ loop[f] = "read"
    /\ conn[f] = "open"
    /\ data[f] < MaxData
    /\ data' = [data EXCEPT ![f] = @ + 1]
    /\ loop' = [loop EXCEPT ![f] = IF registered THEN "send" ELSE "read"]
    /\ UNCHANGED <<mainVars, linkVars, reader, cur, writer, out, cancelled,
                   idle, natVars, conn, entry>>

\* conn.Read fails: a TCP loop in an open state sends a FIN first, if the
\* session is still there; a UDP loop just returns.
LoopReadFails(f) ==
    /\ loop[f] = "read"
    /\ conn[f] = "closed"
    /\ \/ loop' = [loop EXCEPT ![f] = "ended"]
       \/ /\ f \in TCPFlows
          /\ registered
          /\ loop' = [loop EXCEPT ![f] = "sendFin"]
    /\ UNCHANGED <<mainVars, linkVars, reader, cur, writer, out, cancelled,
                   idle, natVars, conn, entry, data>>

\* The server closes, or an eviction does.
ConnEnds(f) ==
    /\ conn[f] = "open"
    /\ conn' = [conn EXCEPT ![f] = "closed"]
    /\ UNCHANGED <<mainVars, linkVars, reader, cur, writer, out, cancelled,
                   idle, natVars, entry, loop, data>>

\* The entry leaves the table before its socket is closed: the sweeper is between the two
\* (evictEntry), or it has deleted by its key the successor of the entry it chose, and
\* nobody closes this one's socket (RelayNat).  After its socket nothing depends on it.
EntryLeaves(f) ==
    /\ entry[f] = "listed" /\ conn[f] = "open"
    /\ entry' = [entry EXCEPT ![f] = "lost"]
    /\ UNCHANGED <<mainVars, linkVars, reader, cur, writer, out, cancelled,
                   idle, natVars, conn, loop, data>>

LoopSends(f) ==
    /\ loop[f] \in {"send", "sendFin"}
    /\ Push("data")
    /\ loop' = [loop EXCEPT ![f] = IF loop[f] = "send" THEN "read" ELSE "ended"]
    /\ UNCHANGED <<mainVars, linkVars, reader, cur, writer, cancelled, idle,
                   natVars, conn, entry, data>>

-----------------------------------------------------------------------------
(* The writer goroutine. *)

WriterTakes ==
    /\ writer = "select"
    /\ out # <<>>
    /\ out' = Tail(out)
    /\ writer' = "write"
    /\ UNCHANGED <<mainVars, linkVars, reader, cur, cancelled, idle, natVars,
                   flowVars>>

\* Mutant: a cancelled context ends the writer without draining.
WriterSkipsDrain ==
    /\ writer = "select"
    /\ cancelled
    /\ writer' = "done"
    /\ UNCHANGED <<mainVars, linkVars, reader, cur, out, cancelled, idle,
                   natVars, flowVars>>

WriterCancelled ==
    /\ writer = "select"
    /\ cancelled
    /\ writer' = "drain"
    /\ UNCHANGED <<mainVars, linkVars, reader, cur, out, cancelled, idle,
                   natVars, flowVars>>

\* writeFrame succeeds: the client takes the frame.
WriteSucceeds ==
    /\ writer \in {"write", "drainWrite"}
    /\ client = "reading"
    /\ writer' = IF writer = "write" THEN "select" ELSE "drain"
    /\ UNCHANGED <<mainVars, linkVars, reader, cur, out, cancelled, idle,
                   natVars, flowVars>>

\* writeFrame fails: cancel() and return, except when draining.
WriteFails ==
    /\ writer \in {"write", "drainWrite"}
    /\ client = "gone"
    /\ cancelled' = TRUE
    /\ writer' = IF writer = "write" THEN "done" ELSE "drain"
    /\ UNCHANGED <<mainVars, linkVars, reader, cur, out, idle, natVars, flowVars>>

DrainTakes ==
    /\ writer = "drain"
    /\ out # <<>>
    /\ out' = Tail(out)
    /\ writer' = "drainWrite"
    /\ UNCHANGED <<mainVars, linkVars, reader, cur, cancelled, idle, natVars,
                   flowVars>>

DrainEnds ==
    /\ writer = "drain"
    /\ out = <<>>
    /\ writer' = "done"
    /\ UNCHANGED <<mainVars, linkVars, reader, cur, out, cancelled, idle,
                   natVars, flowVars>>

-----------------------------------------------------------------------------
(* The handler's tail: wait, cancel, wait, then the deferred calls. *)

\* Mutant: the handler does not wait for its writer.
ReaderEndedNoWait ==
    /\ main = "waitReader"
    /\ reader = "done"
    /\ cancelled' = TRUE
    /\ body' = "ended"
    /\ main' = "unregister"
    /\ UNCHANGED <<slot, client, inbound, reader, cur, writer, out, idle,
                   natVars, flowVars>>

\* <-readerDone; body.Close(); cancel()
ReaderEnded ==
    /\ main = "waitReader"
    /\ reader = "done"
    /\ cancelled' = TRUE
    /\ body' = "ended"
    /\ main' = "waitWriter"
    /\ UNCHANGED <<slot, client, inbound, reader, cur, writer, out, idle,
                   natVars, flowVars>>

WriterEnded ==
    /\ main = "waitWriter"
    /\ writer = "done"
    /\ main' = "unregister"
    /\ UNCHANGED <<slot, linkVars, reader, cur, writer, out, cancelled, idle,
                   natVars, flowVars>>

\* cleanup: delete(n.sessions, sid)
Unregister ==
    /\ main = "unregister"
    /\ registered' = FALSE
    /\ main' = "closeDone"
    /\ UNCHANGED <<slot, linkVars, reader, cur, writer, out, cancelled, idle,
                   doneClosed, flowVars>>

\* Mutant: cleanup forgets close(sc.done).
CloseDoneForgotten ==
    /\ main = "closeDone"
    /\ main' = "closeEntries"
    /\ UNCHANGED <<slot, linkVars, reader, cur, writer, out, cancelled, idle,
                   natVars, flowVars>>

\* cleanup: close(sc.done)
CloseDone ==
    /\ main = "closeDone"
    /\ doneClosed' = TRUE
    /\ main' = "closeEntries"
    /\ UNCHANGED <<slot, linkVars, reader, cur, writer, out, cancelled, idle,
                   registered, flowVars>>

\* cleanup: closeSessionEntries(sid), which evicts what it finds in the table.
CloseEntries ==
    /\ main = "closeEntries"
    /\ conn' = [f \in Flows |-> IF entry[f] = "listed" THEN "closed" ELSE conn[f]]
    /\ entry' = [f \in Flows |-> IF entry[f] = "listed" THEN "evicted" ELSE entry[f]]
    /\ main' = "release"
    /\ UNCHANGED <<slot, linkVars, reader, cur, writer, out, cancelled, idle,
                   natVars, loop, data>>

\* The remaining deferred calls: cancel(), then ipLimiter.Release.
Release ==
    /\ main = "release"
    /\ slot' = FALSE
    /\ cancelled' = TRUE
    /\ main' = "returned"
    /\ UNCHANGED <<linkVars, reader, cur, writer, out, idle, natVars, flowVars>>

-----------------------------------------------------------------------------
(* The idle monitor, and the client. *)

\* 90 s without a frame: cancel(), once; Reset then has nobody to wake.
IdleFires ==
    /\ idle = "armed"
    /\ ~cancelled
    /\ reader # "done"
    /\ idle' = "fired"
    /\ cancelled' = TRUE
    /\ UNCHANGED <<mainVars, linkVars, reader, cur, writer, out, natVars, flowVars>>

ClientSends ==
    /\ client # "gone"
    /\ body = "open"
    /\ inbound < InCap
    /\ inbound' = inbound + 1
    /\ UNCHANGED <<mainVars, client, body, reader, cur, writer, out, cancelled,
                   idle, natVars, flowVars>>

ClientStalls ==
    /\ client = "reading"
    /\ client' = "stalled"
    /\ UNCHANGED <<mainVars, body, inbound, reader, cur, writer, out, cancelled,
                   idle, natVars, flowVars>>

ClientResumes ==
    /\ client = "stalled"
    /\ client' = "reading"
    /\ UNCHANGED <<mainVars, body, inbound, reader, cur, writer, out, cancelled,
                   idle, natVars, flowVars>>

\* The client ends its side of the stream and keeps reading.
ClientHalfCloses ==
    /\ client # "gone"
    /\ body = "open"
    /\ body' = "ended"
    /\ UNCHANGED <<mainVars, client, inbound, reader, cur, writer, out,
                   cancelled, idle, natVars, flowVars>>

\* The connection dies: reads and writes fail from now on.
ClientGoes ==
    /\ client # "gone"
    /\ client' = "gone"
    /\ body' = "ended"
    /\ UNCHANGED <<mainVars, inbound, reader, cur, writer, out, cancelled, idle,
                   natVars, flowVars>>

\* net/http then cancels the request context, from which sessionCtx derives.
RequestCancelled ==
    /\ client = "gone"
    /\ ~cancelled
    /\ main # "admit"
    /\ cancelled' = TRUE
    /\ UNCHANGED <<mainVars, linkVars, reader, cur, writer, out, idle, natVars,
                   flowVars>>

-----------------------------------------------------------------------------
MainStep == \/ Reject \/ AcquireSlot \/ RejectLate \/ OpenSession
            \/ ReaderEnded \/ WriterEnded
            \/ Unregister \/ CloseDone \/ CloseEntries \/ Release
ReaderStep == \/ ReadFrame \/ ReadEnds \/ ForwardSilently \/ ForwardAnswers
              \/ \E f \in UDPFlows : OpenUDP(f)
              \/ \E f \in TCPFlows : DialTCP(f) \/ ForwardFin(f) \/ ForwardRst(f)
              \/ ReaderSends
WriterStep == \/ WriterTakes \/ WriterCancelled \/ WriteSucceeds \/ WriteFails
              \/ DrainTakes \/ DrainEnds
LoopStep(f) == LoopReadFails(f) \/ LoopSends(f)
Environment == \/ IdleFires \/ RequestCancelled
               \/ ClientSends \/ ClientStalls \/ ClientResumes
               \/ ClientHalfCloses \/ ClientGoes
               \/ \E f \in Flows : LoopReads(f) \/ ConnEnds(f) \/ EntryLeaves(f)

Next == MainStep \/ ReaderStep \/ WriterStep \/ Environment
        \/ \E f \in Flows : LoopStep(f)

Spec == Init /\ [][Next]_vars

\* Every goroutine that can go on does, and net/http notices a dead connection;
\* the client, the servers and the idle timer promise nothing.
Fairness ==
    /\ WF_vars(MainStep) /\ WF_vars(ReaderStep) /\ WF_vars(WriterStep)
    /\ WF_vars(RequestCancelled)
    /\ \A f \in Flows : WF_vars(LoopStep(f))
FairSpec == Spec /\ Fairness

-----------------------------------------------------------------------------
(* Properties. *)

\* An open socket whose entry the table has lost: nothing of the session finds it.
Astray(f) == conn[f] = "open" /\ entry[f] = "lost"

\* When the handler has returned, net/http may reuse the response and the
\* stream: its reader and writer have stopped touching them, the slot is free,
\* no entry of the session is in the table, and no socket is left open but one
\* whose entry had left the table before the cleanup.
NothingOutlivesHandler ==
    main = "returned" =>
        /\ reader \in {"off", "done"}
        /\ writer \in {"off", "done"}
        /\ ~slot /\ ~registered
        /\ \A f \in Flows : entry[f] # "listed" /\ (conn[f] = "open" => Astray(f))

\* The packets the reader queued before the client's EOF are written before
\* the stream ends ("Drains remaining channel items after context
\* cancellation"), unless the connection died or the idle timer cut it.
RepliesDrained ==
    writer = "done" /\ client # "gone" /\ idle # "fired" =>
        \A i \in 1..Len(out) : out[i] # "reply"

\* Once the client is gone and the reader has noticed, the whole session is
\* torn down: the handler returns and every reverse loop ends, but one whose
\* socket the table had lost, which goes on until its server closes.
EndedReaderTearsDown ==
    (client = "gone" /\ reader = "done") ~>
        (main = "returned" /\ \A f \in Flows : loop[f] \in {"off", "ended"} \/ Astray(f))

\* nat_table.go:171: "`done` is closed by cleanup so a blocked sender unblocks
\* when the session goes away (prevents goroutine leaks ...)".
SendersUnblock ==
    \A f \in Flows : (client = "gone" /\ loop[f] = "send") ~> loop[f] # "send"
=============================================================================
