------------------------------ MODULE RelayNat ------------------------------
(***************************************************************************)
(* The relay's NAT table and its port pool:                                *)
(*   relay/relay/nat_table.go     Translate, the sweeper, session cleanup, *)
(*                                Shutdown                                 *)
(*   relay/relay/nat_portpool.go  allocate, release                        *)
(* The two sync.Maps, the pool and the counters are each atomic, and no    *)
(* lock spans them: a process below is a goroutine going from one to the   *)
(* next.  A key is a 5-tuple of one session; an entry is a number, its     *)
(* fields in the sequence entries, so that a re-created key has a new one. *)
(***************************************************************************)
EXTENDS Integers, Sequences, FiniteSets

CONSTANTS
    Sessions,           \* tunnel sessions, each read by one goroutine
    Keys, SessionOf,    \* 5-tuples, and the session each belongs to
    Ports,              \* NATPortRangeMin..NATPortRangeMax
    Ticker, Stopper,    \* sweepLoop, and the goroutine calling Shutdown
    Evictors,           \* what may evict in this instance
    MaxEntries          \* bound on the entries ever created

EvictorKinds == {"ticker", "exhaustion", "cleanup", "shutdown"}

ASSUME NatAssumption ==
    /\ IsFiniteSet(Ports) /\ Ports # {}
    /\ Keys # {}
    /\ SessionOf \in [Keys -> Sessions]
    /\ Ticker # Stopper
    /\ {Ticker, Stopper} \cap Sessions = {}
    /\ Evictors \subseteq EvictorKinds
    /\ MaxEntries \in Nat

Procs == Sessions \cup {Ticker, Stopper}

VARIABLES
    free, allocated,      \* portPool
    byTuple, byPort,      \* entriesByTuple, entriesByNATPort (0: no entry)
    entries,              \* every natEntry ever made
    count,                \* entriesCount and portsUsed, always moved together
    stopped,              \* NAT.stopped
    at,                   \* where each goroutine is
    range,                \* why it is ranging over the table
    key, port, hold,      \* its locals: the key, port and entry in hand
    visited,              \* keys its Range has visited
    contended             \* two goroutines have been evicting one entry

tables == <<byTuple, byPort, entries>>
pool == <<free, allocated>>
vars == <<free, allocated, byTuple, byPort, entries, count, stopped,
          at, range, key, port, hold, visited, contended>>

Forwarding == {"allocate", "retry", "dial", "storeTuple", "storePort", "addCount"}
Evicting == {"deleteTuple", "deletePort", "closeConn", "release", "subCount"}

TypeOK ==
    /\ free \in Seq(Ports)
    /\ allocated \subseteq Ports
    /\ entries \in Seq([key : Keys, port : Ports, open : BOOLEAN, stale : BOOLEAN])
    /\ byTuple \in [Keys -> 0..Len(entries)]
    /\ byPort \in [Ports -> 0..Len(entries)]
    /\ count \in Int
    /\ stopped \in BOOLEAN
    /\ at \in [Procs -> {"idle", "scan", "done"} \cup Forwarding \cup Evicting]
    /\ range \in [Procs -> {"none", "sweep", "cleanup", "shut"}]
    /\ key \in [Procs -> Keys]
    /\ port \in [Procs -> Ports]
    /\ hold \in [Procs -> 0..Len(entries)]
    /\ \A q \in Procs : at[q] \in Evicting => hold[q] # 0 /\ range[q] # "none"
    /\ visited \in [Procs -> SUBSET Keys]
    /\ contended \in BOOLEAN

AnyKey == CHOOSE k \in Keys : TRUE
AnyPort == CHOOSE p \in Ports : TRUE

\* newPortPool shuffles the range.
Shuffles == {s \in [1..Cardinality(Ports) -> Ports] :
                \A i, j \in 1..Cardinality(Ports) : s[i] = s[j] => i = j}

Init ==
    /\ free \in Shuffles
    /\ allocated = {}
    /\ byTuple = [k \in Keys |-> 0]
    /\ byPort = [p \in Ports |-> 0]
    /\ entries = <<>>
    /\ count = 0
    /\ stopped = FALSE
    /\ at = [q \in Procs |-> "idle"]
    /\ range = [q \in Procs |-> "none"]
    /\ key = [q \in Procs |-> AnyKey]
    /\ port = [q \in Procs |-> AnyPort]
    /\ hold = [q \in Procs |-> 0]
    /\ visited = [q \in Procs |-> {}]
    /\ contended = FALSE

Goto(q, place) == at' = [at EXCEPT ![q] = place]

\* Translate returns: its locals are gone.
Return(q) ==
    /\ Goto(q, "idle")
    /\ key' = [key EXCEPT ![q] = AnyKey]
    /\ port' = [port EXCEPT ![q] = AnyPort]
    /\ hold' = [hold EXCEPT ![q] = 0]

StartRange(q, why) ==
    /\ range' = [range EXCEPT ![q] = why]
    /\ Goto(q, "scan")

-----------------------------------------------------------------------------
(* portPool: a stack of free ports and the set of those handed out. *)

Allocate(p) ==
    /\ free # <<>>
    /\ p = free[Len(free)]
    /\ free' = SubSeq(free, 1, Len(free) - 1)
    /\ allocated' = allocated \cup {p}

\* Mutant: no "guard against double-release".
ReleaseUnguarded(p) ==
    /\ allocated' = allocated \ {p}
    /\ free' = Append(free, p)

ReleasePort(p) ==
    IF p \in allocated
    THEN /\ allocated' = allocated \ {p}
         /\ free' = Append(free, p)
    ELSE UNCHANGED pool

-----------------------------------------------------------------------------
(* Translate, run by the reader goroutine of session q. *)

\* The fast path: refresh the entry; the packet may make it close its socket
\* (RST, FIN).  The entry stays in the table.
TranslateHit(q, k) ==
    /\ at[q] = "idle"
    /\ ~stopped
    /\ SessionOf[k] = q
    /\ byTuple[k] # 0
    /\ \E open \in {FALSE, entries[byTuple[k]].open} :
         entries' = [entries EXCEPT ![byTuple[k]] = [@ EXCEPT !.stale = FALSE, !.open = open]]
    /\ UNCHANGED <<pool, byTuple, byPort, count, stopped, at, range, key, port,
                   hold, visited, contended>>

TranslateMiss(q, k) ==
    /\ at[q] = "idle"
    /\ ~stopped
    /\ SessionOf[k] = q
    /\ byTuple[k] = 0
    /\ key' = [key EXCEPT ![q] = k]
    /\ Goto(q, "allocate")
    /\ UNCHANGED <<pool, tables, count, stopped, range, port, hold, visited, contended>>

AllocatePort(q) ==
    /\ at[q] \in {"allocate", "retry"}
    /\ \E p \in Ports : Allocate(p) /\ port' = [port EXCEPT ![q] = p]
    /\ Goto(q, "dial")
    /\ UNCHANGED <<tables, count, stopped, range, key, hold, visited, contended>>

\* The pool is empty: a synchronous sweep, then one more try.
SweepOnExhaustion(q) ==
    /\ at[q] = "allocate"
    /\ free = <<>>
    /\ "exhaustion" \in Evictors
    /\ StartRange(q, "sweep")
    /\ UNCHANGED <<pool, tables, count, stopped, key, port, hold, visited, contended>>

\* ErrNATPortExhausted: the packet is dropped.
Exhausted(q) ==
    /\ \/ at[q] = "retry"
       \/ at[q] = "allocate" /\ "exhaustion" \notin Evictors
    /\ free = <<>>
    /\ Return(q)
    /\ UNCHANGED <<pool, tables, count, stopped, range, visited, contended>>

\* A refused dial, or a port some socket is still bound to.
DialFails(q) ==
    /\ at[q] = "dial"
    /\ ReleasePort(port[q])
    /\ Return(q)
    /\ UNCHANGED <<tables, count, stopped, range, visited, contended>>

DialSucceeds(q) ==
    /\ at[q] = "dial"
    /\ Len(entries) < MaxEntries
    /\ \A i \in 1..Len(entries) : entries[i].open => entries[i].port # port[q]
    /\ entries' = Append(entries, [key |-> key[q], port |-> port[q],
                                   open |-> TRUE, stale |-> FALSE])
    /\ hold' = [hold EXCEPT ![q] = Len(entries) + 1]
    /\ Goto(q, "storeTuple")
    /\ UNCHANGED <<pool, byTuple, byPort, count, stopped, range, key, port, visited, contended>>

StoreTuple(q) ==
    /\ at[q] = "storeTuple"
    /\ byTuple' = [byTuple EXCEPT ![key[q]] = hold[q]]
    /\ Goto(q, "storePort")
    /\ UNCHANGED <<pool, byPort, entries, count, stopped, range, key, port,
                   hold, visited, contended>>

StorePort(q) ==
    /\ at[q] = "storePort"
    /\ byPort' = [byPort EXCEPT ![port[q]] = hold[q]]
    /\ Goto(q, "addCount")
    /\ UNCHANGED <<pool, byTuple, entries, count, stopped, range, key, port,
                   hold, visited, contended>>

AddCount(q) ==
    /\ at[q] = "addCount"
    /\ count' = count + 1
    /\ Return(q)
    /\ UNCHANGED <<pool, tables, stopped, range, visited, contended>>

-----------------------------------------------------------------------------
(* Who ranges over entriesByTuple, and when. *)

TickerFires ==
    /\ at[Ticker] = "idle"
    /\ "ticker" \in Evictors
    /\ ~stopped
    /\ StartRange(Ticker, "sweep")
    /\ UNCHANGED <<pool, tables, count, stopped, key, port, hold, visited, contended>>

\* The stream ends: cleanup runs closeSessionEntries once the reader is done.
CleanupSession(q) ==
    /\ at[q] = "idle"
    /\ "cleanup" \in Evictors
    /\ StartRange(q, "cleanup")
    /\ UNCHANGED <<pool, tables, count, stopped, key, port, hold, visited, contended>>

Shutdown ==
    /\ at[Stopper] = "idle"
    /\ "shutdown" \in Evictors
    /\ stopped' = TRUE
    /\ StartRange(Stopper, "shut")
    /\ UNCHANGED <<pool, tables, count, key, port, hold, visited, contended>>

\* Which entries a range evicts.
Selects(q, i) ==
    CASE range[q] = "sweep"   -> entries[i].stale
      [] range[q] = "cleanup" -> SessionOf[entries[i].key] = q
      [] range[q] = "shut"    -> TRUE

\* evictEntry deletes the tuple first; Shutdown closes the socket first.
FirstStep(why) == IF why = "shut" THEN "closeConn" ELSE "deleteTuple"
NextStep(q) ==
    CASE at[q] = "deleteTuple" -> "deletePort"
      [] at[q] = "deletePort"  -> IF range[q] = "shut" THEN "release" ELSE "closeConn"
      [] at[q] = "closeConn"   -> IF range[q] = "shut" THEN "deleteTuple" ELSE "release"
      [] at[q] = "release"     -> "subCount"
      [] at[q] = "subCount"    -> "scan"

\* Mutant: the callback works on the entry of the previous iteration.
VisitHoldsPrevious(q, k) ==
    /\ at[q] = "scan"
    /\ k \notin visited[q]
    /\ byTuple[k] # 0
    /\ visited' = [visited EXCEPT ![q] = @ \cup {k}]
    /\ IF Selects(q, byTuple[k]) THEN Goto(q, FirstStep(range[q])) ELSE UNCHANGED at
    /\ UNCHANGED <<pool, tables, count, stopped, range, key, port, hold, contended>>

\* Range loads the entry of a key not visited yet, and the callback tests it.
\* (Range may also skip a key stored after it began: as if visited earlier.)
Visit(q, k) ==
    /\ at[q] = "scan"
    /\ k \notin visited[q]
    /\ byTuple[k] # 0
    /\ visited' = [visited EXCEPT ![q] = @ \cup {k}]
    /\ IF Selects(q, byTuple[k])
       THEN /\ Goto(q, FirstStep(range[q]))
            /\ hold' = [hold EXCEPT ![q] = byTuple[k]]
            /\ contended' = (contended \/ \E r \in Procs \ {q} :
                                 at[r] \in Evicting /\ hold[r] = byTuple[k])
       ELSE UNCHANGED <<at, hold, contended>>
    /\ UNCHANGED <<pool, tables, count, stopped, range, key, port>>

\* Mutant: the range of a session's cleanup may end early.
RangeEndsEarly(q) ==
    /\ at[q] = "scan"
    /\ range' = [range EXCEPT ![q] = "none"]
    /\ visited' = [visited EXCEPT ![q] = {}]
    /\ hold' = [hold EXCEPT ![q] = 0]
    /\ Goto(q, CASE q = Ticker -> "idle"
                 [] q \in Sessions /\ range[q] = "sweep" -> "retry"
                 [] OTHER -> "done")
    /\ UNCHANGED <<pool, tables, count, stopped, key, port, contended>>

RangeEnds(q) ==
    /\ at[q] = "scan"
    /\ \A k \in Keys \ visited[q] : byTuple[k] = 0
    /\ range' = [range EXCEPT ![q] = "none"]
    /\ visited' = [visited EXCEPT ![q] = {}]
    /\ hold' = [hold EXCEPT ![q] = 0]
    /\ Goto(q, CASE q = Ticker -> "idle"
                 [] q \in Sessions /\ range[q] = "sweep" -> "retry"
                 [] OTHER -> "done")
    /\ UNCHANGED <<pool, tables, count, stopped, key, port, contended>>

-----------------------------------------------------------------------------
(* evictEntry, and the callback of Shutdown: the key is the one visited,    *)
(* whatever the table holds under it by now.                                *)

DeleteTuple(q) ==
    /\ at[q] = "deleteTuple"
    /\ byTuple' = [byTuple EXCEPT ![entries[hold[q]].key] = 0]
    /\ Goto(q, NextStep(q))
    /\ UNCHANGED <<pool, byPort, entries, count, stopped, range, key, port, hold, visited, contended>>

DeletePort(q) ==
    /\ at[q] = "deletePort"
    /\ byPort' = [byPort EXCEPT ![entries[hold[q]].port] = 0]
    /\ Goto(q, NextStep(q))
    /\ UNCHANGED <<pool, byTuple, entries, count, stopped, range, key, port, hold, visited, contended>>

\* Mutant: the entry goes and its socket stays.
CloseForgotten(q) ==
    /\ at[q] = "closeConn"
    /\ Goto(q, NextStep(q))
    /\ UNCHANGED <<pool, tables, count, stopped, range, key, port, hold, visited, contended>>

CloseConn(q) ==
    /\ at[q] = "closeConn"
    /\ entries' = [entries EXCEPT ![hold[q]] = [@ EXCEPT !.open = FALSE]]
    /\ Goto(q, NextStep(q))
    /\ UNCHANGED <<pool, byTuple, byPort, count, stopped, range, key, port, hold, visited, contended>>

\* Mutant: evictEntry forgets to give the port back.
ReleaseForgotten(q) ==
    /\ at[q] = "release"
    /\ Goto(q, NextStep(q))
    /\ UNCHANGED <<pool, tables, count, stopped, range, key, port, hold, visited, contended>>

Release(q) ==
    /\ at[q] = "release"
    /\ ReleasePort(entries[hold[q]].port)
    /\ Goto(q, NextStep(q))
    /\ UNCHANGED <<tables, count, stopped, range, key, port, hold, visited, contended>>

SubCount(q) ==
    /\ at[q] = "subCount"
    /\ count' = count - 1
    /\ Goto(q, NextStep(q))
    /\ UNCHANGED <<pool, tables, stopped, range, key, port, hold, visited, contended>>

-----------------------------------------------------------------------------
(* Time, and the reverse loops. *)

\* lastSeen is read by a range only, so it is followed while the entry is in
\* the table.
Reachable(i) == i \in 1..Len(entries) /\ byTuple[entries[i].key] = i

\* The TTL of an entry passes with no packet.
Expire(i) ==
    /\ Reachable(i)
    /\ ~entries[i].stale
    /\ entries' = [entries EXCEPT ![i] = [@ EXCEPT !.stale = TRUE]]
    /\ UNCHANGED <<pool, byTuple, byPort, count, stopped, at, range, key, port, hold, visited, contended>>

\* A packet from the server refreshes lastSeen.
ReverseTraffic(i) ==
    /\ Reachable(i)
    /\ entries[i].open /\ entries[i].stale
    /\ entries' = [entries EXCEPT ![i] = [@ EXCEPT !.stale = FALSE]]
    /\ UNCHANGED <<pool, byTuple, byPort, count, stopped, at, range, key, port, hold, visited, contended>>

-----------------------------------------------------------------------------
Translate(q) == \/ \E k \in Keys : TranslateHit(q, k) \/ TranslateMiss(q, k)
                \/ AllocatePort(q) \/ SweepOnExhaustion(q) \/ Exhausted(q)
                \/ DialFails(q) \/ DialSucceeds(q)
                \/ StoreTuple(q) \/ StorePort(q) \/ AddCount(q)
Evict(q) == \/ \E k \in Keys : Visit(q, k)
            \/ RangeEnds(q)
            \/ DeleteTuple(q) \/ DeletePort(q) \/ CloseConn(q)
            \/ Release(q) \/ SubCount(q)

Next == \/ \E s \in Sessions : Translate(s) \/ CleanupSession(s)
        \/ TickerFires \/ Shutdown
        \/ \E q \in Procs : Evict(q)
        \/ \E i \in 1..MaxEntries : Expire(i) \/ ReverseTraffic(i)

Spec == Init /\ [][Next]_vars

-----------------------------------------------------------------------------
(* Properties. *)

\* No port is twice in the pool, and none is both free and handed out, however
\* many goroutines release it.
PoolSound ==
    /\ \A i, j \in 1..Len(free) : free[i] = free[j] => i = j
    /\ \A i \in 1..Len(free) : free[i] \notin allocated

Quiet == \A q \in Procs : at[q] \in {"idle", "done"}
Live == {k \in Keys : byTuple[k] # 0}

\* nat_table.go:361: "Stats returns current NAT table statistics", and
\* nat_portpool.go:41 guards against a double release.  They hold between
\* requests, as long as no two goroutines have evicted one entry: the
\* counters count the table, and every port handed out belongs to an entry.
Accounting ==
    Quiet /\ ~contended =>
        /\ count = Cardinality(Live)
        /\ allocated = {entries[byTuple[k]].port : k \in Live}

\* _bmad-output/planning-artifacts/architecture.md:481: entries go by
\* "Eviction par TTL": with the same proviso, an entry whose socket is open is
\* still in the table, where a range can find it.
OpenSocketsAreSwept ==
    Quiet /\ ~contended =>
        \A i \in 1..Len(entries) :
            entries[i].open => byTuple[entries[i].key] = i

\* Once the cleanup of a session has returned, no entry of it is in the table,
\* whoever else was evicting meanwhile.
EndedSessionForgotten ==
    \A s \in Sessions : at[s] = "done" =>
        \A k \in Keys : SessionOf[k] = s => byTuple[k] = 0
=============================================================================
