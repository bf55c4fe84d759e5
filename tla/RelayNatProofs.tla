--------------------------- MODULE RelayNatProofs ---------------------------
(***************************************************************************)
(* What TLAPS proves of the NAT table and its port pool, for any sessions, *)
(* keys, ports and evictors, and any number of entries: the types and the  *)
(* four invariants of module RelayNat.                                     *)
(***************************************************************************)
EXTENDS RelayNat, FiniteSetTheorems, SequenceTheorems, TLAPS

\* Which goroutine is where: only one that ranges evicts, only a reader translates.
Places ==
    /\ \A q \in Procs : range[q] # "none" <=> at[q] \in {"scan"} \cup Evicting
    /\ \A q \in Procs : range[q] = "cleanup" \/ at[q] \in Forwarding => q \in Sessions
    /\ \A q \in Procs : range[q] = "none" => visited[q] = {}
    /\ \A q \in Sessions : range[q] # "shut"

-----------------------------------------------------------------------------
(* The entries ever made. *)

Entry == [key : Keys, port : Ports, open : BOOLEAN, stale : BOOLEAN]

LEMMA EntryTypes ==
    ASSUME TypeOK
    PROVE  /\ entries \in Seq(Entry) /\ Len(entries) \in Nat
           /\ \A i \in 1..Len(entries) : /\ entries[i] \in Entry
                                         /\ entries[i].key \in Keys
                                         /\ entries[i].port \in Ports
                                         /\ entries[i].open \in BOOLEAN
<1>1. entries \in Seq(Entry) /\ Len(entries) \in Nat
  BY LenProperties DEF TypeOK, Entry
<1>2. ASSUME NEW i \in 1..Len(entries)
      PROVE  entries[i] \in Entry
  BY <1>1, ElementOfSeq
<1>3. \A e \in Entry : e.key \in Keys /\ e.port \in Ports /\ e.open \in BOOLEAN
  BY DEF Entry
<1> QED
  BY <1>1, <1>2, <1>3

\* No step takes an entry back, moves it to another key or port, or reopens its socket.
EntriesKept ==
    /\ Len(entries) <= Len(entries')
    /\ \A i \in 1..Len(entries) : /\ entries'[i].key = entries[i].key
                                  /\ entries'[i].port = entries[i].port
                                  /\ entries'[i].open => entries[i].open

LEMMA EntryChanges ==
    ASSUME entries \in Seq(Entry), NEW i \in 1..Len(entries), NEW e \in Entry,
           e.key = entries[i].key, e.port = entries[i].port, e.open => entries[i].open,
           entries' = [entries EXCEPT ![i] = e]
    PROVE  entries' \in Seq(Entry) /\ Len(entries') = Len(entries) /\ EntriesKept
<1>1. entries' \in Seq(Entry) /\ Len(entries') = Len(entries)
  BY ExceptSeq
<1>2. \A j \in 1..Len(entries) : entries'[j] = IF j = i THEN e ELSE entries[j]
  BY ElementOfSeq, LenProperties
<1> QED
  BY <1>1, <1>2, LenProperties DEF EntriesKept

\* What writing a field leaves of the others.
LEMMA Ages ==
    ASSUME NEW e \in Entry, NEW b \in BOOLEAN
    PROVE  /\ [e EXCEPT !.stale = b] \in Entry
           /\ [e EXCEPT !.stale = b].key = e.key
           /\ [e EXCEPT !.stale = b].port = e.port
           /\ [e EXCEPT !.stale = b].open = e.open
BY DEF Entry

LEMMA Closed ==
    ASSUME NEW e \in Entry, NEW b \in BOOLEAN
    PROVE  /\ [e EXCEPT !.open = b] \in Entry
           /\ [e EXCEPT !.open = b].key = e.key
           /\ [e EXCEPT !.open = b].port = e.port
           /\ [e EXCEPT !.open = b].open = b
BY DEF Entry

LEMMA Touched ==
    ASSUME NEW e \in Entry, NEW b \in BOOLEAN, NEW o \in BOOLEAN
    PROVE  /\ [e EXCEPT !.stale = b, !.open = o] \in Entry
           /\ [e EXCEPT !.stale = b, !.open = o].key = e.key
           /\ [e EXCEPT !.stale = b, !.open = o].port = e.port
           /\ [e EXCEPT !.stale = b, !.open = o].open = o
BY DEF Entry

\* An entry is added by a dial; the others change its socket and its age only.
LEMMA EntriesStep ==
    ASSUME TypeOK, Next
    PROVE  /\ entries' \in Seq(Entry) /\ EntriesKept
           /\ Len(entries') = Len(entries) \/ \E q \in Procs : DialSucceeds(q)
<1> DEFINE Sound == /\ entries' \in Seq(Entry) /\ EntriesKept
                    /\ Len(entries') = Len(entries) \/ \E q \in Procs : DialSucceeds(q)
<1> DEFINE Changes == \/ UNCHANGED entries
                      \/ \E q \in Procs : DialSucceeds(q) \/ CloseConn(q)
                      \/ \E q \in Procs, k \in Keys : TranslateHit(q, k)
                      \/ \E i \in 1..MaxEntries : Expire(i) \/ ReverseTraffic(i)
<1>0. entries \in Seq(Entry) /\ Len(entries) \in Nat
  BY EntryTypes
<1>1. Changes
  BY DEF Next, Translate, Evict, TranslateMiss, AllocatePort, SweepOnExhaustion, Exhausted,
         DialFails, StoreTuple, StorePort, AddCount, CleanupSession, TickerFires, Shutdown,
         Visit, RangeEnds, DeleteTuple, DeletePort, Release, SubCount, tables, Procs
<1>2. CASE UNCHANGED entries
  BY <1>0, <1>2 DEF EntriesKept
<1>3. ASSUME NEW q \in Procs, DialSucceeds(q)
      PROVE  Sound
  <2> DEFINE e == [key |-> key[q], port |-> port[q], open |-> TRUE, stale |-> FALSE]
  <2>1. e \in Entry /\ entries' = Append(entries, e)
    BY <1>3 DEF DialSucceeds, TypeOK, Entry
  <2> HIDE DEF e
  <2> QED
    BY <1>0, <1>3, <2>1, AppendProperties DEF EntriesKept
<1>4. ASSUME NEW q \in Procs, CloseConn(q)
      PROVE  Sound
  <2>1. hold[q] \in 1..Len(entries)
    BY <1>0, <1>4 DEF CloseConn, TypeOK, Evicting
  <2>2. entries[hold[q]] \in Entry
    BY <1>0, <2>1, ElementOfSeq
  <2> DEFINE e == [entries[hold[q]] EXCEPT !.open = FALSE]
  <2>3. e \in Entry /\ e.key = entries[hold[q]].key /\ e.port = entries[hold[q]].port /\ ~e.open
    BY <2>2, Closed, Zenon
  <2>4. entries' = [entries EXCEPT ![hold[q]] = e]
    BY <1>4 DEF CloseConn
  <2> HIDE DEF e
  <2> QED
    BY <1>0, <2>1, <2>3, <2>4, EntryChanges
<1>5. ASSUME NEW q \in Procs, NEW k \in Keys, TranslateHit(q, k)
      PROVE  Sound
  <2> DEFINE i == byTuple[k]
  <2>1. i \in 1..Len(entries)
    BY <1>0, <1>5 DEF TranslateHit, TypeOK
  <2> HIDE DEF i
  <2>2. entries[i] \in Entry
    BY <1>0, <2>1, ElementOfSeq
  <2>3. entries[i].open \in BOOLEAN
    BY <2>2 DEF Entry
  <2>4. PICK open \in {FALSE, entries[i].open} :
           entries' = [entries EXCEPT ![i] = [@ EXCEPT !.stale = FALSE, !.open = open]]
    BY <1>5 DEF TranslateHit, i
  <2> DEFINE e == [entries[i] EXCEPT !.stale = FALSE, !.open = open]
  <2>5. entries' = [entries EXCEPT ![i] = e]
    BY <2>4
  <2>6. open \in BOOLEAN /\ (open => entries[i].open)
    BY <2>3, Zenon
  <2>7. e \in Entry /\ e.key = entries[i].key /\ e.port = entries[i].port
        /\ (e.open => entries[i].open)
    BY <2>2, <2>6, Touched, Zenon
  <2> HIDE DEF e
  <2> QED
    BY <1>0, <2>1, <2>5, <2>7, EntryChanges
<1>6. ASSUME NEW i \in 1..MaxEntries, Expire(i) \/ ReverseTraffic(i)
      PROVE  Sound
  <2>1. i \in 1..Len(entries)
    BY <1>6 DEF Expire, ReverseTraffic, Reachable
  <2>2. entries[i] \in Entry
    BY <1>0, <2>1, ElementOfSeq
  <2>3. PICK b \in BOOLEAN : entries' = [entries EXCEPT ![i] = [@ EXCEPT !.stale = b]]
    BY <1>6 DEF Expire, ReverseTraffic
  <2> DEFINE e == [entries[i] EXCEPT !.stale = b]
  <2>4. entries' = [entries EXCEPT ![i] = e]
    BY <2>3
  <2>5. e \in Entry /\ e.key = entries[i].key /\ e.port = entries[i].port
        /\ e.open = entries[i].open
    BY <2>2, Ages, Zenon
  <2> HIDE DEF e
  <2> QED
    BY <1>0, <2>1, <2>4, <2>5, EntryChanges
<1> QED
  BY <1>1, <1>2, <1>3, <1>4, <1>5, <1>6

-----------------------------------------------------------------------------
(* The port pool: popping and pushing keep it without repetition. *)

PoolTypes == free \in Seq(Ports) /\ allocated \subseteq Ports

LEMMA AllocateKeepsPool ==
    ASSUME PoolTypes, PoolSound, NEW p \in Ports, Allocate(p)
    PROVE  PoolTypes' /\ PoolSound' /\ p \notin allocated /\ allocated' = allocated \cup {p}
<1>1. Len(free) \in Nat /\ \A i \in 1..Len(free) : free[i] \in Ports
  BY LenProperties, ElementOfSeq DEF PoolTypes
<1>2. free # <<>> /\ p = free[Len(free)] /\ free' = SubSeq(free, 1, Len(free) - 1)
  BY DEF Allocate
<1>3. Len(free) # 0
  BY <1>2, EmptySeq DEF PoolTypes
<1>4. /\ free' \in Seq(Ports) /\ Len(free') = Len(free) - 1
      /\ \A i \in 1..Len(free) - 1 : free'[i] = free[i]
  <2> DEFINE n == Len(free) - 1
  <2>1. n \in Nat /\ \A i \in 1..n : free[i] \in Ports
    BY <1>1, <1>3
  <2> HIDE DEF n
  <2>2. /\ SubSeq(free, 1, n) \in Seq(Ports)
        /\ Len(SubSeq(free, 1, n)) = IF 1 <= n THEN n - 1 + 1 ELSE 0
        /\ \A i \in 1..(n - 1 + 1) : SubSeq(free, 1, n)[i] = free[1 + i - 1]
    BY <2>1, SubSeqProperties
  <2>3. free' = SubSeq(free, 1, n)
    BY <1>2 DEF n
  <2>4. free' \in Seq(Ports) /\ Len(free') = n
    BY <2>1, <2>2, <2>3
  <2>5. \A i \in 1..n : free'[i] = free[i]
    BY <2>1, <2>2, <2>3
  <2> QED
    BY <2>4, <2>5 DEF n
<1>5. allocated' = allocated \cup {p} /\ p \notin allocated
  BY <1>1, <1>2, <1>3 DEF Allocate, PoolSound
<1>6. \A i \in 1..Len(free') : i \in 1..Len(free) /\ i # Len(free) /\ free'[i] = free[i]
  BY <1>1, <1>4
<1>7. PoolSound'
  <2>1. Len(free) \in 1..Len(free)
    BY <1>1, <1>3
  <2>2. \A i \in 1..Len(free') : free'[i] # p /\ free'[i] \notin allocated
    BY <1>2, <1>6, <2>1 DEF PoolSound
  <2> QED
    BY <1>5, <1>6, <2>2 DEF PoolSound
<1> QED
  BY <1>4, <1>5, <1>7 DEF PoolTypes

LEMMA ReleaseKeepsPool ==
    ASSUME PoolTypes, PoolSound, NEW p \in Ports, ReleasePort(p)
    PROVE  PoolTypes' /\ PoolSound' /\ allocated' = allocated \ {p}
<1>1. CASE p \notin allocated
  BY <1>1 DEF ReleasePort, pool, PoolTypes, PoolSound
<1>2. CASE p \in allocated
  <2>1. allocated' = allocated \ {p} /\ free' = Append(free, p)
    BY <1>2 DEF ReleasePort
  <2>2. /\ free' \in Seq(Ports) /\ Len(free') = Len(free) + 1 /\ Len(free) \in Nat
        /\ \A i \in 1..Len(free) : free'[i] = free[i]
        /\ free'[Len(free) + 1] = p
    BY <2>1, AppendProperties, LenProperties DEF PoolTypes
  <2>3. \A i \in 1..Len(free) : free[i] # p
    BY <1>2 DEF PoolSound
  <2>4. \A i \in 1..Len(free') : i \in 1..Len(free) \/ i = Len(free) + 1
    BY <2>2
  <2>5. \A i, j \in 1..Len(free') : free'[i] = free'[j] => i = j
    BY <2>2, <2>3, <2>4 DEF PoolSound
  <2>6. \A i \in 1..Len(free') : free'[i] \notin allocated'
    BY <2>1, <2>2, <2>4 DEF PoolSound
  <2> QED
    BY <2>1, <2>2, <2>5, <2>6 DEF PoolTypes, PoolSound
<1> QED
  BY <1>1, <1>2

LEMMA PoolInit == Init => PoolTypes /\ PoolSound
<1> SUFFICES ASSUME Init PROVE PoolTypes /\ PoolSound
  OBVIOUS
<1>1. Cardinality(Ports) \in Nat
  BY NatAssumption, FS_CardinalityType
<1>2. free \in [1..Cardinality(Ports) -> Ports] /\ allocated = {}
  BY DEF Init, Shuffles
<1>3. free \in Seq(Ports) /\ 1..Len(free) = 1..Cardinality(Ports)
  <2>1. free \in Seq(Ports)
    BY <1>1, <1>2, SeqDef
  <2> QED
    BY <1>2, <2>1, LenProperties
<1> QED
  BY <1>2, <1>3 DEF Init, Shuffles, PoolTypes, PoolSound

\* A port goes from the pool to a reader, and back to it once.
LEMMA PoolStep ==
    ASSUME TypeOK, PoolSound, Next
    PROVE  PoolTypes' /\ PoolSound'
<1>1. PoolTypes
  BY DEF TypeOK, PoolTypes
<1>2. \/ UNCHANGED pool
      \/ \E q \in Procs : AllocatePort(q) \/ DialFails(q) \/ Release(q)
  BY DEF Next, Translate, Evict, TranslateHit, TranslateMiss, SweepOnExhaustion, Exhausted,
         DialSucceeds, StoreTuple, StorePort, AddCount, CleanupSession, TickerFires, Shutdown,
         Visit, RangeEnds, DeleteTuple, DeletePort, CloseConn, SubCount, Expire,
         ReverseTraffic, Procs
<1>3. CASE UNCHANGED pool
  BY <1>1, <1>3 DEF pool, PoolTypes, PoolSound
<1>4. ASSUME NEW q \in Procs, AllocatePort(q) PROVE PoolTypes' /\ PoolSound'
  BY <1>1, <1>4, AllocateKeepsPool DEF AllocatePort
<1>5. ASSUME NEW q \in Procs, DialFails(q) PROVE PoolTypes' /\ PoolSound'
  BY <1>1, <1>5, ReleaseKeepsPool DEF DialFails, TypeOK
<1>6. ASSUME NEW q \in Procs, Release(q) PROVE PoolTypes' /\ PoolSound'
  <2>1. hold[q] \in 1..Len(entries)
    BY <1>6, EntryTypes DEF Release, TypeOK, Evicting
  <2>2. entries[hold[q]].port \in Ports
    BY <2>1, EntryTypes
  <2> QED
    BY <1>1, <1>6, <2>2, ReleaseKeepsPool DEF Release
<1> QED
  BY <1>2, <1>3, <1>4, <1>5, <1>6

-----------------------------------------------------------------------------
(* Types, and who is where. *)

\* The locals of the goroutines.
LocalTypes ==
    /\ at \in [Procs -> {"idle", "scan", "done"} \cup Forwarding \cup Evicting]
    /\ range \in [Procs -> {"none", "sweep", "cleanup", "shut"}]
    /\ key \in [Procs -> Keys]
    /\ port \in [Procs -> Ports]
    /\ hold \in [Procs -> 0..Len(entries)]
    /\ \A q \in Procs : at[q] \in Evicting => hold[q] # 0 /\ range[q] # "none"
    /\ visited \in [Procs -> SUBSET Keys]

LEMMA LocalStep ==
    ASSUME TypeOK, Places, Next
    PROVE  LocalTypes' /\ Places'
<1> USE DEF Goto, Return, StartRange, tables
<1>0. LocalTypes /\ Places
  BY DEF TypeOK, LocalTypes
<1>1. Len(entries') \in Nat /\ Len(entries) \in Nat /\ Len(entries) <= Len(entries')
  BY EntriesStep, EntryTypes, LenProperties DEF EntriesKept
<1>2. AnyKey \in Keys /\ AnyPort \in Ports
  BY NatAssumption DEF AnyKey, AnyPort
<1>3. {Ticker, Stopper} \subseteq Procs /\ Sessions \subseteq Procs
      /\ Ticker \notin Sessions /\ Stopper \notin Sessions /\ Ticker # Stopper
  BY NatAssumption DEF Procs
<1>4. ASSUME NEW q \in Sessions, NEW k \in Keys, TranslateMiss(q, k) PROVE LocalTypes' /\ Places'
  BY <1>0, <1>1, <1>2, <1>3, <1>4 DEF TranslateMiss, LocalTypes, Places, Forwarding, Evicting
<1>5. ASSUME NEW q \in Sessions, AllocatePort(q) PROVE LocalTypes' /\ Places'
  BY <1>0, <1>1, <1>2, <1>3, <1>5 DEF AllocatePort, LocalTypes, Places, Forwarding, Evicting
<1>6. ASSUME NEW q \in Sessions, SweepOnExhaustion(q) PROVE LocalTypes' /\ Places'
  BY <1>0, <1>1, <1>2, <1>3, <1>6 DEF SweepOnExhaustion, LocalTypes, Places, Forwarding, Evicting
<1>7. ASSUME NEW q \in Sessions, Exhausted(q) PROVE LocalTypes' /\ Places'
  BY <1>0, <1>1, <1>2, <1>3, <1>7 DEF Exhausted, LocalTypes, Places, Forwarding, Evicting
<1>8. ASSUME NEW q \in Sessions, DialFails(q) PROVE LocalTypes' /\ Places'
  BY <1>0, <1>1, <1>2, <1>3, <1>8 DEF DialFails, LocalTypes, Places, Forwarding, Evicting
<1>9. ASSUME NEW q \in Sessions, DialSucceeds(q) PROVE LocalTypes' /\ Places'
  BY <1>0, <1>1, <1>2, <1>3, <1>9 DEF DialSucceeds, LocalTypes, Places, Forwarding, Evicting
<1>10. ASSUME NEW q \in Sessions, StoreTuple(q) PROVE LocalTypes' /\ Places'
  BY <1>0, <1>1, <1>2, <1>3, <1>10 DEF StoreTuple, LocalTypes, Places, Forwarding, Evicting
<1>11. ASSUME NEW q \in Sessions, StorePort(q) PROVE LocalTypes' /\ Places'
  BY <1>0, <1>1, <1>2, <1>3, <1>11 DEF StorePort, LocalTypes, Places, Forwarding, Evicting
<1>12. ASSUME NEW q \in Sessions, AddCount(q) PROVE LocalTypes' /\ Places'
  BY <1>0, <1>1, <1>2, <1>3, <1>12 DEF AddCount, LocalTypes, Places, Forwarding, Evicting
<1>13. ASSUME NEW q \in Sessions, CleanupSession(q) PROVE LocalTypes' /\ Places'
  BY <1>0, <1>1, <1>2, <1>3, <1>13 DEF CleanupSession, LocalTypes, Places, Forwarding, Evicting
<1>14. CASE TickerFires
  BY <1>0, <1>1, <1>2, <1>3, <1>14 DEF TickerFires, LocalTypes, Places, Forwarding, Evicting
<1>15. CASE Shutdown
  BY <1>0, <1>1, <1>2, <1>3, <1>15 DEF Shutdown, LocalTypes, Places, Forwarding, Evicting
<1>16. ASSUME NEW q \in Procs, NEW k \in Keys, Visit(q, k) PROVE LocalTypes' /\ Places'
  <2>1. byTuple[k] \in 0..Len(entries) /\ byTuple[k] # 0
    BY <1>16 DEF Visit, TypeOK
  <2>2. CASE Selects(q, byTuple[k])
    <3>1. /\ at[q] = "scan" /\ at' = [at EXCEPT ![q] = FirstStep(range[q])]
          /\ hold' = [hold EXCEPT ![q] = byTuple[k]]
          /\ visited' = [visited EXCEPT ![q] = @ \cup {k}]
          /\ UNCHANGED <<range, key, port, entries>>
      BY <1>16, <2>2 DEF Visit
    <3>2. FirstStep(range[q]) \in Evicting /\ FirstStep(range[q]) \notin Forwarding
      BY DEF FirstStep, Evicting, Forwarding
    <3>3. range[q] # "none"
      BY <1>0, <3>1 DEF Places
    <3>4. LocalTypes'
      BY <1>0, <2>1, <3>1, <3>2, <3>3 DEF LocalTypes
    <3>5. Places'
      BY <1>0, <3>1, <3>2, <3>3 DEF LocalTypes, Places
    <3> QED
      BY <3>4, <3>5
  <2>3. CASE ~Selects(q, byTuple[k])
    BY <1>0, <1>1, <1>16, <2>3 DEF Visit, LocalTypes, Places
  <2> QED
    BY <2>2, <2>3
<1>17. ASSUME NEW q \in Procs, RangeEnds(q) PROVE LocalTypes' /\ Places'
  <2>1. PICK place \in {"idle", "retry", "done"} :
           at' = [at EXCEPT ![q] = place] /\ (place = "retry" => q \in Sessions)
    BY <1>0, <1>3, <1>17 DEF RangeEnds, LocalTypes, Places, Procs
  <2> QED
    BY <1>0, <1>1, <1>17, <2>1 DEF RangeEnds, LocalTypes, Places, Forwarding, Evicting
<1>18. ASSUME NEW q \in Procs, DeleteTuple(q) PROVE LocalTypes' /\ Places'
  BY <1>0, <1>1, <1>2, <1>3, <1>18 DEF DeleteTuple, NextStep, FirstStep, LocalTypes, Places, Forwarding, Evicting
<1>19. ASSUME NEW q \in Procs, DeletePort(q) PROVE LocalTypes' /\ Places'
  BY <1>0, <1>1, <1>2, <1>3, <1>19 DEF DeletePort, NextStep, FirstStep, LocalTypes, Places, Forwarding, Evicting
<1>20. ASSUME NEW q \in Procs, CloseConn(q) PROVE LocalTypes' /\ Places'
  BY <1>0, <1>1, <1>2, <1>3, <1>20 DEF CloseConn, NextStep, FirstStep, LocalTypes, Places, Forwarding, Evicting
<1>21. ASSUME NEW q \in Procs, Release(q) PROVE LocalTypes' /\ Places'
  BY <1>0, <1>1, <1>2, <1>3, <1>21 DEF Release, NextStep, FirstStep, LocalTypes, Places, Forwarding, Evicting
<1>22. ASSUME NEW q \in Procs, SubCount(q) PROVE LocalTypes' /\ Places'
  BY <1>0, <1>1, <1>2, <1>3, <1>22 DEF SubCount, NextStep, FirstStep, LocalTypes, Places, Forwarding, Evicting
<1>23. CASE UNCHANGED <<at, range, key, port, hold, visited>>
  BY <1>0, <1>1, <1>23 DEF LocalTypes, Places
<1> QED
  BY <1>4, <1>5, <1>6, <1>7, <1>8, <1>9, <1>10, <1>11, <1>12, <1>13, <1>14, <1>15, <1>16, <1>17, <1>18, <1>19, <1>20, <1>21, <1>22, <1>23
     DEF Next, Translate, Evict, TranslateHit, Expire, ReverseTraffic

\* Who writes the table: a reader its key, an evictor the key of the entry in hand.
LEMMA TableSteps ==
    ASSUME Next
    PROVE  \/ UNCHANGED byTuple
           \/ \E q \in Sessions : StoreTuple(q)
           \/ \E q \in Procs : DeleteTuple(q)
BY DEF Next, Translate, Evict, TranslateHit, TranslateMiss, AllocatePort, SweepOnExhaustion,
       Exhausted, DialFails, DialSucceeds, StorePort, AddCount, CleanupSession, TickerFires,
       Shutdown, Visit, RangeEnds, DeletePort, CloseConn, Release, SubCount, Expire,
       ReverseTraffic, tables

LEMMA TypeStep ==
    ASSUME TypeOK, Places, PoolSound, Next
    PROVE  TypeOK'
<1>1. /\ entries' \in Seq(Entry) /\ Len(entries') \in Nat /\ Len(entries) \in Nat
      /\ Len(entries) <= Len(entries')
  BY EntriesStep, EntryTypes, LenProperties DEF EntriesKept
<1>2. PoolTypes' /\ LocalTypes'
  BY PoolStep, LocalStep
<1> DEFINE Numbers == 0..Len(entries')
<1>8. byTuple \in [Keys -> Numbers] /\ byPort \in [Ports -> Numbers] /\ hold \in [Procs -> Numbers]
  <2>1. 0..Len(entries) \subseteq Numbers /\ 0 \in Numbers
    BY <1>1
  <2> HIDE DEF Numbers
  <2> QED
    BY <2>1 DEF TypeOK
<1>9. 0 \in Numbers
  BY <1>1
<1> HIDE DEF Numbers
<1>3. byTuple' \in [Keys -> Numbers]
  <2>1. ASSUME NEW q \in Sessions, StoreTuple(q) PROVE byTuple' \in [Keys -> Numbers]
    BY <1>8, <2>1 DEF StoreTuple, TypeOK, Procs
  <2>2. ASSUME NEW q \in Procs, DeleteTuple(q) PROVE byTuple' \in [Keys -> Numbers]
    BY <1>8, <1>9, <2>2 DEF DeleteTuple, TypeOK
  <2> QED
    BY <1>8, <2>1, <2>2, TableSteps
<1>4. byPort' \in [Ports -> Numbers]
  <2>1. ASSUME NEW q \in Sessions, StorePort(q) PROVE byPort' \in [Ports -> Numbers]
    BY <1>8, <2>1 DEF StorePort, TypeOK, Procs
  <2>2. ASSUME NEW q \in Procs, DeletePort(q) PROVE byPort' \in [Ports -> Numbers]
    BY <1>8, <1>9, <2>2 DEF DeletePort, TypeOK
  <2>3. \/ UNCHANGED byPort
        \/ \E q \in Sessions : StorePort(q)
        \/ \E q \in Procs : DeletePort(q)
    BY DEF Next, Translate, Evict, TranslateHit, TranslateMiss, AllocatePort, SweepOnExhaustion,
           Exhausted, DialFails, DialSucceeds, StoreTuple, AddCount, CleanupSession, TickerFires,
           Shutdown, Visit, RangeEnds, DeleteTuple, CloseConn, Release, SubCount, Expire,
           ReverseTraffic, tables
  <2> QED
    BY <1>8, <2>1, <2>2, <2>3
<1>5. count' \in Int
  <2>1. \/ UNCHANGED count \/ count' = count + 1 \/ count' = count - 1
    BY DEF Next, Translate, Evict, TranslateHit, TranslateMiss, AllocatePort, SweepOnExhaustion,
           Exhausted, DialFails, DialSucceeds, StoreTuple, StorePort, AddCount, CleanupSession,
           TickerFires, Shutdown, Visit, RangeEnds, DeleteTuple, DeletePort, CloseConn, Release,
           SubCount, Expire, ReverseTraffic, tables
  <2> QED
    BY <2>1 DEF TypeOK
<1>6. stopped' \in BOOLEAN
  <2>1. UNCHANGED stopped \/ stopped' = TRUE
    BY DEF Next, Translate, Evict, TranslateHit, TranslateMiss, AllocatePort, SweepOnExhaustion,
           Exhausted, DialFails, DialSucceeds, StoreTuple, StorePort, AddCount, CleanupSession,
           TickerFires, Shutdown, Visit, RangeEnds, DeleteTuple, DeletePort, CloseConn, Release,
           SubCount, Expire, ReverseTraffic
  <2> QED
    BY <2>1 DEF TypeOK
<1>7. contended' \in BOOLEAN
  <2>1. UNCHANGED contended \/ \E q \in Procs, k \in Keys : Visit(q, k)
    BY DEF Next, Translate, Evict, TranslateHit, TranslateMiss, AllocatePort, SweepOnExhaustion,
           Exhausted, DialFails, DialSucceeds, StoreTuple, StorePort, AddCount, CleanupSession,
           TickerFires, Shutdown, RangeEnds, DeleteTuple, DeletePort, CloseConn, Release,
           SubCount, Expire, ReverseTraffic
  <2> QED
    BY <2>1 DEF Visit, TypeOK
<1> QED
  BY <1>1, <1>2, <1>3, <1>4, <1>5, <1>6, <1>7 DEF TypeOK, PoolTypes, LocalTypes, Entry, Numbers

-----------------------------------------------------------------------------
(* The readers, the table, and the end of a session. *)

\* Translate found no entry under the key of session q's packet.
Missing(q) == at[q] \in {"allocate", "retry", "dial", "storeTuple"} \/ range[q] = "sweep"

\* Only the reader of its session stores a key, and nobody else the one it has found missing.
Readers ==
    /\ \A q \in Sessions :
          at[q] \in Forwarding \/ range[q] = "sweep" => SessionOf[key[q]] = q
    /\ \A q \in Sessions : Missing(q) => byTuple[key[q]] = 0
    /\ \A q \in Sessions : at[q] \in {"storeTuple", "storePort", "addCount"} => hold[q] # 0
    /\ \A q \in Sessions : at[q] = "storeTuple" =>
          entries[hold[q]].key = key[q] /\ entries[hold[q]].port = port[q]

Table == \A k \in Keys : byTuple[k] # 0 => entries[byTuple[k]].key = k

LEMMA TableStep ==
    ASSUME TypeOK, Places, Readers, Table, Next
    PROVE  Table'
<1>1. EntriesKept
  BY EntriesStep
<1>2. \A k \in Keys : byTuple[k] # 0 => byTuple[k] \in 1..Len(entries)
  BY EntryTypes DEF TypeOK
<1>3. CASE UNCHANGED byTuple
  BY <1>1, <1>2, <1>3 DEF Table, EntriesKept
<1>4. ASSUME NEW q \in Sessions, StoreTuple(q) PROVE Table'
  BY <1>4 DEF StoreTuple, Readers, Table, TypeOK, Procs
<1>5. ASSUME NEW q \in Procs, DeleteTuple(q) PROVE Table'
  BY <1>5 DEF DeleteTuple, Table, TypeOK
<1> QED
  BY <1>3, <1>4, <1>5, TableSteps

LEMMA ReturnKeepsReaders ==
    ASSUME TypeOK, Places, Readers, EntriesKept, NEW q \in Sessions, at[q] \in Forwarding, Return(q),
           UNCHANGED <<byTuple, range>>
    PROVE  Readers'
<1>1. q \in Procs /\ range[q] = "none"
  BY DEF Procs, Places, Forwarding, Evicting, TypeOK
<1>2. at'[q] = "idle" /\ range'[q] = "none"
  BY <1>1 DEF Return, Goto, TypeOK
<1>3. \A r \in Sessions \ {q} : /\ r \in Procs /\ at'[r] = at[r] /\ range'[r] = range[r]
                                /\ key'[r] = key[r] /\ port'[r] = port[r] /\ hold'[r] = hold[r]
  BY DEF Return, Goto, TypeOK, Procs
<1>4. \A r \in Sessions : at[r] = "storeTuple" => hold[r] \in 1..Len(entries)
  BY EntryTypes DEF Readers, TypeOK, Procs
<1> QED
  BY <1>2, <1>3, <1>4 DEF Readers, Missing, Forwarding, EntriesKept

\* The ticker and the one that calls Shutdown are no readers.
LEMMA StartKeepsReaders ==
    ASSUME TypeOK, Readers, EntriesKept, NEW p, p \notin Sessions, NEW why,
           StartRange(p, why), UNCHANGED <<byTuple, key, port, hold>>
    PROVE  Readers'
<1>1. \A s \in Sessions : at'[s] = at[s] /\ range'[s] = range[s]
  BY DEF StartRange, Goto, TypeOK, Procs
<1>2. \A s \in Sessions : Missing(s)' <=> Missing(s)
  BY <1>1 DEF Missing
<1>3. \A s \in Sessions : at[s] = "storeTuple" => hold[s] \in 1..Len(entries)
  BY EntryTypes DEF Readers, TypeOK, Procs
<1> QED
  BY <1>1, <1>2, <1>3 DEF Readers, EntriesKept

\* An eviction ends nobody's Translate, and only empties the table.
LEMMA EvictKeepsReaders ==
    ASSUME TypeOK, Readers, EntriesKept, NEW q \in Procs, at[q] \in Evicting,
           Goto(q, NextStep(q)), NextStep(q) \in Evicting \cup {"scan"},
           \A k \in Keys : byTuple'[k] \in {byTuple[k], 0},
           UNCHANGED <<range, key, port, hold>>
    PROVE  Readers'
<1>1. \A s \in Sessions : s \in Procs /\ key[s] \in Keys
  BY DEF TypeOK, Procs
<1>2. \A s \in Sessions :
        \/ at'[s] = at[s]
        \/ at'[s] \in Evicting \cup {"scan"}
  BY <1>1 DEF Goto, TypeOK
<1>3. \A s \in Sessions : \A p \in Forwarding : at'[s] = p => at[s] = p
  BY <1>2 DEF Forwarding, Evicting
<1>4. \A s \in Sessions : Missing(s)' => Missing(s)
  BY <1>3 DEF Missing, Forwarding
<1>5. \A s \in Sessions : at[s] = "storeTuple" => hold[s] \in 1..Len(entries)
  BY EntryTypes DEF Readers, TypeOK, Procs
<1>6. \A s \in Sessions : at'[s] \in Forwarding => at[s] \in Forwarding
  BY <1>3
<1>7. \A s \in Sessions : byTuple[key[s]] = 0 => byTuple'[key[s]] = 0
  BY <1>1
<1>8. {"storeTuple", "storePort", "addCount"} \subseteq Forwarding
  BY DEF Forwarding
<1> QED
  BY <1>3, <1>4, <1>5, <1>6, <1>7, <1>8 DEF Readers, EntriesKept

LEMMA ReadersStep ==
    ASSUME TypeOK, Places, Readers, Next
    PROVE  Readers'
<1> USE DEF Goto, Return, StartRange, tables, Missing
<1>1. EntriesKept
  BY EntriesStep
<1>2. Sessions \subseteq Procs /\ Len(entries) \in Nat
  BY EntryTypes DEF Procs
<1>3. \A q \in Sessions : hold[q] # 0 => hold[q] \in 1..Len(entries)
  BY <1>2 DEF TypeOK
<1>4. ASSUME NEW q \in Sessions, NEW k \in Keys, TranslateMiss(q, k) PROVE Readers'
  BY <1>1, <1>2, <1>3, <1>4 DEF TranslateMiss, TypeOK, Places, Readers, EntriesKept, Forwarding
<1>5. ASSUME NEW q \in Sessions, AllocatePort(q) PROVE Readers'
  BY <1>1, <1>2, <1>3, <1>5 DEF AllocatePort, TypeOK, Places, Readers, EntriesKept, Forwarding
<1>6. ASSUME NEW q \in Sessions, SweepOnExhaustion(q) PROVE Readers'
  BY <1>1, <1>2, <1>3, <1>6 DEF SweepOnExhaustion, TypeOK, Places, Readers, EntriesKept, Forwarding
<1>7. ASSUME NEW q \in Sessions, Exhausted(q) PROVE Readers'
  BY <1>1, <1>7, ReturnKeepsReaders DEF Exhausted, Forwarding
<1>8. ASSUME NEW q \in Sessions, DialFails(q) PROVE Readers'
  BY <1>1, <1>8, ReturnKeepsReaders DEF DialFails, Forwarding
<1>9. ASSUME NEW q \in Sessions, DialSucceeds(q) PROVE Readers'
  <2>1. /\ at[q] = "dial" /\ at' = [at EXCEPT ![q] = "storeTuple"]
        /\ hold' = [hold EXCEPT ![q] = Len(entries) + 1]
        /\ UNCHANGED <<range, key, port, byTuple>>
    BY <1>9 DEF DialSucceeds
  <2>2. Len(entries) + 1 # 0 /\ entries'[Len(entries) + 1].key = key[q]
        /\ entries'[Len(entries) + 1].port = port[q]
    BY <1>2, <1>9 DEF DialSucceeds, TypeOK
  <2>3. /\ \A s \in Sessions : at'[s] = IF s = q THEN "storeTuple" ELSE at[s]
        /\ \A s \in Sessions : hold'[s] = IF s = q THEN Len(entries) + 1 ELSE hold[s]
    BY <1>2, <2>1 DEF TypeOK
  <2>4. \A s \in Sessions : (at'[s] \in Forwarding <=> at[s] \in Forwarding) /\ (Missing(s)' <=> Missing(s))
    BY <2>1, <2>3 DEF Forwarding
  <2>5. ASSUME NEW s \in Sessions \ {q}, at[s] = "storeTuple"
        PROVE  entries'[hold[s]].key = entries[hold[s]].key /\ entries'[hold[s]].port = entries[hold[s]].port
    BY <1>1, <1>3, <2>5 DEF Readers, EntriesKept
  <2> HIDE DEF Missing
  <2>6. /\ \A s \in Sessions : at'[s] \in Forwarding \/ range'[s] = "sweep" => SessionOf[key'[s]] = s
        /\ \A s \in Sessions : Missing(s)' => byTuple'[key'[s]] = 0
    BY <2>1, <2>4 DEF Readers
  <2>7. \A s \in Sessions : at'[s] \in {"storeTuple", "storePort", "addCount"} => hold'[s] # 0
    BY <2>2, <2>3 DEF Readers
  <2>8. \A s \in Sessions : at'[s] = "storeTuple" =>
          entries'[hold'[s]].key = key'[s] /\ entries'[hold'[s]].port = port'[s]
    BY <2>1, <2>2, <2>3, <2>5 DEF Readers
  <2> QED
    BY <2>6, <2>7, <2>8 DEF Readers
<1>10. ASSUME NEW q \in Sessions, StoreTuple(q) PROVE Readers'
  <2>1. \A r \in Sessions \ {q} : Missing(r) => key[r] # key[q]
    BY <1>10 DEF StoreTuple, Readers, Forwarding
  <2>2. \A r \in Sessions \ {q} : at'[r] = at[r]
    BY <1>10 DEF StoreTuple, TypeOK, Procs
  <2>3. at'[q] = "storePort" /\ hold'[q] # 0 /\ range[q] = "none"
    BY <1>2, <1>10 DEF StoreTuple, Readers, TypeOK, Places, Evicting
  <2>4. \A r \in Sessions \ {q} : Missing(r) => byTuple'[key[r]] = 0
    BY <1>2, <1>10, <2>1 DEF StoreTuple, Readers, TypeOK
  <2> QED
    BY <1>10, <2>2, <2>3, <2>4 DEF StoreTuple, Readers, Forwarding
<1>11. ASSUME NEW q \in Sessions, StorePort(q) PROVE Readers'
  BY <1>1, <1>2, <1>3, <1>11 DEF StorePort, TypeOK, Places, Readers, EntriesKept, Forwarding
<1>12. ASSUME NEW q \in Sessions, AddCount(q) PROVE Readers'
  BY <1>1, <1>12, ReturnKeepsReaders DEF AddCount, Forwarding
<1>13. ASSUME NEW q \in Sessions, CleanupSession(q) PROVE Readers'
  BY <1>1, <1>2, <1>3, <1>13 DEF CleanupSession, TypeOK, Places, Readers, EntriesKept, Forwarding
<1>14. CASE TickerFires
  BY <1>1, <1>2, <1>3, <1>14, StartKeepsReaders, NatAssumption DEF TickerFires
<1>15. CASE Shutdown
  BY <1>1, <1>2, <1>3, <1>15, StartKeepsReaders, NatAssumption DEF Shutdown
<1>16. ASSUME NEW q \in Procs, NEW k \in Keys, Visit(q, k) PROVE Readers'
  <2>1. /\ at[q] = "scan" /\ at'[q] \in {"scan", "closeConn", "deleteTuple"}
        /\ \A r \in Procs \ {q} : at'[r] = at[r] /\ hold'[r] = hold[r]
        /\ UNCHANGED <<byTuple, entries, range, key, port>>
    BY <1>16 DEF Visit, FirstStep, TypeOK
  <2> HIDE DEF Missing
  <2>2. \A r \in Sessions : Missing(r)' => Missing(r)
    BY <1>2, <2>1 DEF Missing
  <2> QED
    BY <1>2, <2>1, <2>2 DEF Readers, Forwarding
<1>17. ASSUME NEW q \in Procs, RangeEnds(q) PROVE Readers'
  BY <1>1, <1>2, <1>3, <1>17 DEF RangeEnds, NextStep, FirstStep, TypeOK, Places, Readers, EntriesKept, Forwarding, Evicting
<1>18. ASSUME NEW q \in Procs, DeleteTuple(q) PROVE Readers'
  BY <1>1, <1>18, EvictKeepsReaders DEF DeleteTuple, NextStep, Evicting, TypeOK
<1>19. ASSUME NEW q \in Procs, DeletePort(q) PROVE Readers'
  BY <1>1, <1>19, EvictKeepsReaders DEF DeletePort, NextStep, Evicting, TypeOK
<1>20. ASSUME NEW q \in Procs, CloseConn(q) PROVE Readers'
  BY <1>1, <1>20, EvictKeepsReaders DEF CloseConn, NextStep, Evicting, TypeOK
<1>21. ASSUME NEW q \in Procs, Release(q) PROVE Readers'
  BY <1>1, <1>21, EvictKeepsReaders DEF Release, NextStep, Evicting, TypeOK
<1>22. ASSUME NEW q \in Procs, SubCount(q) PROVE Readers'
  BY <1>1, <1>22, EvictKeepsReaders DEF SubCount, NextStep, Evicting, TypeOK
<1>23. CASE UNCHANGED <<byTuple, at, range, key, port, hold>>
  BY <1>1, <1>2, <1>3, <1>23 DEF Readers, EntriesKept
<1> QED
  BY <1>4, <1>5, <1>6, <1>7, <1>8, <1>9, <1>10, <1>11, <1>12, <1>13, <1>14, <1>15, <1>16, <1>17, <1>18, <1>19, <1>20, <1>21, <1>22, <1>23
     DEF Next, Translate, Evict, TranslateHit, Expire, ReverseTraffic

\* A goroutine's locals are its own: another's step leaves them alone.
Kept(s) ==
    /\ at'[s] = at[s] /\ range'[s] = range[s] /\ key'[s] = key[s]
    /\ port'[s] = port[s] /\ hold'[s] = hold[s] /\ visited'[s] = visited[s]

ReaderSteps(q) ==
    \/ (\E k \in Keys : TranslateMiss(q, k))
    \/ AllocatePort(q) \/ SweepOnExhaustion(q) \/ Exhausted(q) \/ DialFails(q)
    \/ DialSucceeds(q) \/ StoreTuple(q) \/ StorePort(q) \/ AddCount(q) \/ CleanupSession(q)

Steps(q) ==
    \/ q \in Sessions /\ ReaderSteps(q)
    \/ q = Ticker /\ TickerFires
    \/ q = Stopper /\ Shutdown
    \/ Evict(q)

LEMMA StepsOfOne ==
    ASSUME TypeOK, Next
    PROVE  /\ \A s \in Procs : Kept(s) \/ Steps(s)
           /\ \/ \E q \in Procs : Steps(q) /\ \A s \in Procs \ {q} : Kept(s)
              \/ /\ \A s \in Procs : Kept(s)
                 /\ UNCHANGED <<pool, byTuple, byPort, count, contended>>
<1> USE DEF Goto, Return, StartRange
<1>1. ASSUME NEW q \in Sessions, ReaderSteps(q)
      PROVE  q \in Procs /\ Steps(q) /\ \A s \in Procs \ {q} : Kept(s)
  <2> SUFFICES \A s \in Procs \ {q} : Kept(s)
    BY <1>1 DEF Steps, Procs
  <2>1. ASSUME NEW k \in Keys, TranslateMiss(q, k) PROVE \A s \in Procs \ {q} : Kept(s)
    BY <2>1 DEF TranslateMiss, TypeOK, Kept
  <2>2. CASE AllocatePort(q)
    BY <2>2 DEF AllocatePort, TypeOK, Kept
  <2>3. CASE SweepOnExhaustion(q)
    BY <2>3 DEF SweepOnExhaustion, TypeOK, Kept
  <2>4. CASE Exhausted(q)
    BY <2>4 DEF Exhausted, TypeOK, Kept
  <2>5. CASE DialFails(q)
    BY <2>5 DEF DialFails, TypeOK, Kept
  <2>6. CASE DialSucceeds(q)
    BY <2>6 DEF DialSucceeds, TypeOK, Kept
  <2>7. CASE StoreTuple(q)
    BY <2>7 DEF StoreTuple, TypeOK, Kept
  <2>8. CASE StorePort(q)
    BY <2>8 DEF StorePort, TypeOK, Kept
  <2>9. CASE AddCount(q)
    BY <2>9 DEF AddCount, TypeOK, Kept
  <2>10. CASE CleanupSession(q)
    BY <2>10 DEF CleanupSession, TypeOK, Kept
  <2> QED
    BY <1>1, <2>1, <2>2, <2>3, <2>4, <2>5, <2>6, <2>7, <2>8, <2>9, <2>10 DEF ReaderSteps
<1>2. ASSUME NEW q \in Procs, Evict(q)
      PROVE  Steps(q) /\ \A s \in Procs \ {q} : Kept(s)
  <2> SUFFICES \A s \in Procs \ {q} : Kept(s)
    BY <1>2 DEF Steps
  <2>1. ASSUME NEW k \in Keys, Visit(q, k) PROVE \A s \in Procs \ {q} : Kept(s)
    BY <2>1 DEF Visit, TypeOK, Kept
  <2>2. CASE RangeEnds(q)
    BY <2>2 DEF RangeEnds, TypeOK, Kept
  <2>3. CASE DeleteTuple(q)
    BY <2>3 DEF DeleteTuple, TypeOK, Kept
  <2>4. CASE DeletePort(q)
    BY <2>4 DEF DeletePort, TypeOK, Kept
  <2>5. CASE CloseConn(q)
    BY <2>5 DEF CloseConn, TypeOK, Kept
  <2>6. CASE Release(q)
    BY <2>6 DEF Release, TypeOK, Kept
  <2>7. CASE SubCount(q)
    BY <2>7 DEF SubCount, TypeOK, Kept
  <2> QED
    BY <1>2, <2>1, <2>2, <2>3, <2>4, <2>5, <2>6, <2>7 DEF Evict
<1>3. ASSUME TickerFires PROVE \A s \in Procs \ {Ticker} : Kept(s)
  BY <1>3 DEF TickerFires, TypeOK, Kept
<1>4. ASSUME Shutdown PROVE \A s \in Procs \ {Stopper} : Kept(s)
  BY <1>4 DEF Shutdown, TypeOK, Kept
<1>5. CASE UNCHANGED <<pool, byTuple, byPort, count, contended, at, range, key, port, hold, visited>>
  BY <1>5 DEF Kept
<1>6. \/ \E q \in Sessions : ReaderSteps(q)
      \/ TickerFires \/ Shutdown
      \/ \E q \in Procs : Evict(q)
      \/ UNCHANGED <<pool, byTuple, byPort, count, contended, at, range, key, port, hold, visited>>
  BY DEF Next, Translate, TranslateHit, Expire, ReverseTraffic, ReaderSteps
<1>7. TickerFires => Ticker \in Procs /\ Steps(Ticker)
  BY DEF Steps, Procs
<1>8. Shutdown => Stopper \in Procs /\ Steps(Stopper)
  BY DEF Steps, Procs
<1>9. \/ \E q \in Procs : Steps(q) /\ \A s \in Procs \ {q} : Kept(s)
      \/ /\ \A s \in Procs : Kept(s)
         /\ UNCHANGED <<pool, byTuple, byPort, count, contended>>
  BY <1>1, <1>2, <1>3, <1>4, <1>5, <1>6, <1>7, <1>8
<1> QED
  BY <1>9

\* A key appears in the table only while the reader of its session stores it.
LEMMA OnlyReadersStore ==
    ASSUME TypeOK, Readers, Next
    PROVE  \A k \in Keys : byTuple[k] = 0 /\ byTuple'[k] # 0 => at[SessionOf[k]] = "storeTuple"
<1>1. ASSUME NEW q \in Sessions, StoreTuple(q), NEW k \in Keys, byTuple[k] = 0, byTuple'[k] # 0
      PROVE  at[SessionOf[k]] = "storeTuple"
  BY <1>1 DEF StoreTuple, TypeOK, Readers, Forwarding
<1>2. ASSUME NEW q \in Procs, DeleteTuple(q), NEW k \in Keys, byTuple[k] = 0
      PROVE  byTuple'[k] = 0
  BY <1>2 DEF DeleteTuple, TypeOK
<1> QED
  BY <1>1, <1>2, TableSteps

\* A cleanup leaves no key of its session behind it, whatever the others evict.
CleanedIn(s) ==
    /\ at[s] = "done" => \A k \in Keys : SessionOf[k] = s => byTuple[k] = 0
    /\ range[s] = "cleanup" =>
          \A k \in visited[s] : SessionOf[k] = s =>
              byTuple[k] = 0 \/ (at[s] = "deleteTuple" /\ entries[hold[s]].key = k)

Cleaned == \A s \in Sessions : CleanedIn(s)

LEMMA CleanedStep ==
    ASSUME TypeOK, Places, Readers, Table, Cleaned, Next
    PROVE  Cleaned'
<1> SUFFICES ASSUME NEW s \in Sessions PROVE CleanedIn(s)'
  BY DEF Cleaned
<1> USE DEF CleanedIn, Goto, Return, StartRange, tables
<1>1. ASSUME NEW k \in Keys, SessionOf[k] = s, byTuple[k] = 0, at[s] # "storeTuple"
      PROVE  byTuple'[k] = 0
  BY <1>1, OnlyReadersStore
<1>2. \A i \in 1..Len(entries) : entries'[i].key = entries[i].key
  BY EntriesStep DEF EntriesKept
<1>3. s \in Procs /\ s # Ticker /\ s # Stopper
  BY NatAssumption DEF Procs
<1>4. at[s] = "deleteTuple" => hold[s] \in 1..Len(entries)
  BY <1>3, EntryTypes DEF TypeOK, Evicting
<1>5. visited[s] \subseteq Keys /\ visited'[s] \subseteq Keys
  BY <1>3, LocalStep DEF TypeOK, LocalTypes
<1>6. CleanedIn(s)
  BY DEF Cleaned
<1>7. range[s] # "none" <=> at[s] \in {"scan"} \cup Evicting
  BY <1>3 DEF Places
<1>8. CASE Kept(s)
  BY <1>1, <1>2, <1>4, <1>5, <1>6, <1>7, <1>8 DEF Kept, Evicting
<1>9. CASE CleanupSession(s)
  <2>1. at[s] = "idle" /\ range[s] = "none" /\ visited[s] = {}
    BY <1>3, <1>7, <1>9 DEF CleanupSession, Places, Evicting
  <2>2. at'[s] = "scan" /\ visited'[s] = {}
    BY <1>3, <1>9, <2>1 DEF CleanupSession, TypeOK
  <2> QED
    BY <2>2
<1>10. CASE ReaderSteps(s) /\ ~CleanupSession(s)
  <2>1. at'[s] # "done" /\ range'[s] # "cleanup"
    BY <1>3, <1>7, <1>10 DEF ReaderSteps, TranslateMiss, AllocatePort, SweepOnExhaustion, Exhausted,
       DialFails, DialSucceeds, StoreTuple, StorePort, AddCount, TypeOK, Evicting
  <2> QED
    BY <2>1
<1>11. ASSUME NEW k \in Keys, Visit(s, k) PROVE CleanedIn(s)'
  <2>1. /\ at[s] = "scan" /\ visited'[s] = visited[s] \cup {k}
        /\ UNCHANGED <<byTuple, entries, range>> /\ byTuple[k] # 0
        /\ entries[byTuple[k]].key = k
    BY <1>3, <1>11 DEF Visit, TypeOK, Table
  <2>2. CASE range[s] = "cleanup" /\ Selects(s, byTuple[k])
    <3>1. at'[s] = "deleteTuple" /\ hold'[s] = byTuple[k]
      BY <1>3, <1>11, <2>2 DEF Visit, FirstStep, TypeOK
    <3> QED
      BY <1>6, <2>1, <2>2, <3>1
  <2>3. CASE range[s] = "cleanup" /\ ~Selects(s, byTuple[k])
    <3>1. at'[s] = "scan" /\ SessionOf[k] # s
      BY <1>3, <1>11, <2>1, <2>3 DEF Visit, Selects, TypeOK
    <3> QED
      BY <1>6, <2>1, <2>3, <3>1
  <2>4. CASE range[s] # "cleanup"
    <3>1. at'[s] # "done"
      BY <1>3, <1>11, <2>1 DEF Visit, FirstStep, TypeOK
    <3> QED
      BY <2>1, <2>4, <3>1
  <2> QED
    BY <2>2, <2>3, <2>4
<1>12. CASE RangeEnds(s)
  <2>1. /\ at[s] = "scan" /\ range'[s] = "none" /\ UNCHANGED byTuple
        /\ \A k \in Keys \ visited[s] : byTuple[k] = 0
        /\ at'[s] = "done" => range[s] # "sweep"
    BY <1>3, <1>12 DEF RangeEnds, TypeOK
  <2>2. at'[s] = "done" => range[s] = "cleanup"
    BY <1>3, <1>7, <2>1 DEF Places, TypeOK
  <2> QED
    BY <1>6, <2>1, <2>2
<1>13. CASE DeleteTuple(s)
  <2>1. at[s] = "deleteTuple" /\ at'[s] = "deletePort" /\ UNCHANGED <<range, visited>>
    BY <1>3, <1>13 DEF DeleteTuple, NextStep, TypeOK
  <2>2. entries[hold[s]].key \in Keys /\ byTuple' = [byTuple EXCEPT ![entries[hold[s]].key] = 0]
    BY <1>4, <1>13, <2>1, EntryTypes DEF DeleteTuple
  <2>3. \A k \in Keys : byTuple'[k] = IF k = entries[hold[s]].key THEN 0 ELSE byTuple[k]
    BY <2>2 DEF TypeOK
  <2> QED
    BY <1>5, <1>6, <2>1, <2>3
<1>14. CASE DeletePort(s) \/ CloseConn(s) \/ Release(s) \/ SubCount(s)
  <2>1. /\ at[s] \in Evicting \ {"deleteTuple"} /\ at'[s] # "done"
        /\ UNCHANGED <<byTuple, range, visited>>
    BY <1>3, <1>14 DEF DeletePort, CloseConn, Release, SubCount, NextStep, TypeOK, Evicting
  <2> QED
    BY <1>6, <2>1
<1> QED
  BY <1>3, <1>8, <1>9, <1>10, <1>11, <1>12, <1>13, <1>14, StepsOfOne DEF Steps, Evict

-----------------------------------------------------------------------------
(* As long as no two goroutines have evicted one entry. *)

\* An evictor has not yet deleted the key of the entry in hand, or has.
Deletes(q) == at[q] = "deleteTuple" \/ (at[q] = "closeConn" /\ range[q] = "shut")
Deleted(q) == at[q] \in Evicting /\ ~Deletes(q)

\* No two evictors hold the same entry, and what they will delete is that entry.
Alone ==
    /\ \A q, r \in Procs : q # r /\ at[q] \in Evicting /\ at[r] \in Evicting => hold[q] # hold[r]
    /\ \A q \in Procs : Deletes(q) => byTuple[entries[hold[q]].key] = hold[q]

\* What the rest of the section uses of a step.
LEMMA StepFacts ==
    ASSUME TypeOK, Places, Next
    PROVE  /\ ~contended' => ~contended
           /\ Sessions \subseteq Procs /\ Len(entries) \in Nat
           /\ \A q \in Procs : at[q] \in Evicting => hold[q] \in 1..Len(entries)
           /\ \A k \in Keys : byTuple[k] # 0 => byTuple[k] \in 1..Len(entries)
           /\ \A i \in 1..Len(entries) : /\ entries[i].key \in Keys /\ entries[i].port \in Ports
                                         /\ entries'[i].key = entries[i].key
                                         /\ entries'[i].port = entries[i].port
<1>1. UNCHANGED contended \/ \E q \in Procs, k \in Keys : Visit(q, k)
  BY DEF Next, Translate, Evict, TranslateHit, TranslateMiss, AllocatePort, SweepOnExhaustion,
         Exhausted, DialFails, DialSucceeds, StoreTuple, StorePort, AddCount, CleanupSession,
         TickerFires, Shutdown, RangeEnds, DeleteTuple, DeletePort, CloseConn, Release,
         SubCount, Expire, ReverseTraffic
<1>2. ~contended' => ~contended
  BY <1>1, Zenon DEF Visit
<1>3. \A q \in Procs : at[q] \in Evicting => hold[q] \in 1..Len(entries)
  BY EntryTypes DEF TypeOK
<1>4. \A k \in Keys : byTuple[k] # 0 => byTuple[k] \in 1..Len(entries)
  BY EntryTypes DEF TypeOK
<1> QED
  BY <1>2, <1>3, <1>4, EntryTypes, EntriesStep DEF EntriesKept, Procs

\* Goroutine q takes an entry in hand only by a visit, which notices the other evictors.
LEMMA Visited ==
    ASSUME TypeOK, NEW q \in Procs, NEW k \in Keys, Visit(q, k), ~contended'
    PROVE  /\ at[q] = "scan" /\ byTuple[k] # 0
           /\ UNCHANGED <<pool, tables, count, range, port, key>>
           /\ \/ at'[q] = "scan" /\ hold'[q] = hold[q]
              \/ /\ at'[q] = FirstStep(range[q]) /\ hold'[q] = byTuple[k]
                 /\ \A r \in Procs \ {q} : at[r] \in Evicting => hold[r] # byTuple[k]
<1>1. CASE Selects(q, byTuple[k])
  <2>1. /\ at' = [at EXCEPT ![q] = FirstStep(range[q])]
        /\ hold' = [hold EXCEPT ![q] = byTuple[k]]
        /\ contended' = (contended \/ \E r \in Procs \ {q} :
                            at[r] \in Evicting /\ hold[r] = byTuple[k])
    BY <1>1 DEF Visit, Goto
  <2>2. \A r \in Procs \ {q} : at[r] \in Evicting => hold[r] # byTuple[k]
    BY <2>1, Zenon
  <2> QED
    BY <2>1, <2>2 DEF Visit, TypeOK
<1>2. CASE ~Selects(q, byTuple[k])
  BY <1>2 DEF Visit, TypeOK
<1> QED
  BY <1>1, <1>2

\* An evictor has kept its entry, or has just visited it.
LEMMA InHand ==
    ASSUME TypeOK, Places, Next, NEW q \in Procs, at'[q] \in Evicting
    PROVE  \/ /\ at[q] \in Evicting
              /\ hold'[q] = hold[q] /\ range'[q] = range[q]
              /\ Deletes(q)' => Deletes(q)
           \/ at[q] = "scan" /\ \E k \in Keys : Visit(q, k)
<1> USE DEF Goto, Return, StartRange, Deletes
<1>1. CASE Kept(q)
  BY <1>1 DEF Kept
<1>2. CASE q \in Sessions /\ ReaderSteps(q)
  BY <1>2 DEF ReaderSteps, TranslateMiss, AllocatePort, SweepOnExhaustion, Exhausted, DialFails,
              DialSucceeds, StoreTuple, StorePort, AddCount, CleanupSession, TypeOK, Evicting
<1>3. CASE (q = Ticker /\ TickerFires) \/ (q = Stopper /\ Shutdown)
  BY <1>3 DEF TickerFires, Shutdown, TypeOK, Evicting
<1>4. CASE RangeEnds(q)
  BY <1>4 DEF RangeEnds, TypeOK, Evicting
<1>5. CASE DeleteTuple(q) \/ DeletePort(q) \/ CloseConn(q) \/ Release(q) \/ SubCount(q)
  <2>1. at[q] \in Evicting /\ UNCHANGED <<hold, range>> /\ at'[q] = NextStep(q)
    BY <1>5 DEF DeleteTuple, DeletePort, CloseConn, Release, SubCount, TypeOK, Evicting
  <2>2. Deletes(q)' => Deletes(q)
    BY <2>1 DEF NextStep, Evicting
  <2> QED
    BY <2>1, <2>2
<1>6. ASSUME NEW k \in Keys, Visit(q, k) PROVE at[q] = "scan"
  BY <1>6 DEF Visit
<1>7. Kept(q) \/ Steps(q)
  BY StepsOfOne
<1> HIDE DEF Goto, Return, StartRange, Deletes
<1> QED
  BY <1>1, <1>2, <1>3, <1>4, <1>5, <1>6, <1>7 DEF Steps, Evict

LEMMA AloneStep ==
    ASSUME TypeOK, Places, Readers, Table, Alone, Next, ~contended'
    PROVE  Alone'
<1>1. /\ Sessions \subseteq Procs /\ Len(entries) \in Nat
      /\ \A q \in Procs : at[q] \in Evicting => hold[q] \in 1..Len(entries)
      /\ \A k \in Keys : byTuple[k] # 0 => byTuple[k] \in 1..Len(entries)
      /\ \A i \in 1..Len(entries) : /\ entries[i].key \in Keys
                                    /\ entries'[i].key = entries[i].key
  BY StepFacts
<1>2. ASSUME NEW q \in Procs, at'[q] \in Evicting, NEW k \in Keys, Visit(q, k)
      PROVE  /\ at[q] = "scan" /\ byTuple[k] # 0 /\ hold'[q] = byTuple[k] /\ byTuple' = byTuple
             /\ \A r \in Procs \ {q} : at[r] \in Evicting => hold[r] # byTuple[k]
  BY <1>2, Visited DEF Evicting, tables
<1>3. ASSUME NEW q \in Procs, NEW r \in Procs, q # r, at'[q] \in Evicting, at'[r] \in Evicting
      PROVE  hold'[q] # hold'[r]
  <2>1. CASE at[q] \in Evicting /\ hold'[q] = hold[q] /\ at[r] \in Evicting /\ hold'[r] = hold[r]
    BY <1>3, <2>1 DEF Alone
  <2>2. CASE at[q] = "scan" /\ at[r] = "scan"
    BY <1>3, <2>2, StepsOfOne DEF Kept, Evicting
  <2>3. CASE at[r] \in Evicting /\ hold'[r] = hold[r] /\ \E k \in Keys : Visit(q, k)
    BY <1>2, <1>3, <2>3
  <2>4. CASE at[q] \in Evicting /\ hold'[q] = hold[q] /\ \E k \in Keys : Visit(r, k)
    BY <1>2, <1>3, <2>4
  <2> QED
    BY <1>3, <2>1, <2>2, <2>3, <2>4, InHand
<1>4. ASSUME NEW r \in Procs, Deletes(r), Deletes(r)', hold'[r] = hold[r]
      PROVE  byTuple'[entries'[hold'[r]].key] = hold'[r]
  <2> DEFINE i == hold[r]
             k == entries[i].key
  <2>1. /\ at[r] \in Evicting /\ i \in 1..Len(entries) /\ k \in Keys /\ entries'[i].key = k
        /\ byTuple[k] = i
    BY <1>1, <1>4 DEF Alone, Deletes, Evicting
  <2>2. byTuple'[k] = byTuple[k]
    <3>1. ASSUME NEW q \in Sessions, StoreTuple(q) PROVE byTuple'[k] = byTuple[k]
      <4>1. byTuple[key[q]] = 0
        BY <3>1 DEF StoreTuple, Readers, Missing
      <4> QED
        BY <2>1, <3>1, <4>1 DEF StoreTuple, TypeOK
    <3>2. ASSUME NEW q \in Procs, DeleteTuple(q) PROVE byTuple'[k] = byTuple[k]
      <4>1. q # r
        BY <1>4, <3>2 DEF DeleteTuple, Deletes, Goto, NextStep, TypeOK
      <4>2. /\ at[q] \in Evicting /\ Deletes(q)
            /\ hold[q] \in 1..Len(entries) /\ entries[hold[q]].key \in Keys
        BY <1>1, <3>2 DEF DeleteTuple, Deletes, Evicting
      <4>3. entries[hold[q]].key # k
        BY <2>1, <4>1, <4>2 DEF Alone
      <4> QED
        BY <2>1, <3>2, <4>2, <4>3 DEF DeleteTuple, TypeOK
    <3> QED
      BY <3>1, <3>2, TableSteps
  <2> QED
    BY <1>4, <2>1, <2>2
<1>5. ASSUME NEW r \in Procs, NEW k \in Keys, Visit(r, k), Deletes(r)'
      PROVE  byTuple'[entries'[hold'[r]].key] = hold'[r]
  <2>1. at'[r] \in Evicting
    BY <1>5 DEF Deletes, Evicting
  <2> QED
    BY <1>1, <1>2, <1>5, <2>1 DEF Table
<1>6. \A r \in Procs : Deletes(r)' => at'[r] \in Evicting
  BY DEF Deletes, Evicting
<1> QED
  BY <1>3, <1>4, <1>5, <1>6, InHand DEF Alone

\* Goroutine q has taken the port p out of the pool for an entry not yet in the table, or
\* has taken its entry out of the table and will return the port.
Has(q, p) ==
    \/ at[q] \in {"dial", "storeTuple"} /\ port[q] = p
    \/ Deleted(q) /\ at[q] # "subCount" /\ entries[hold[q]].port = p

\* The entry under key k has the port p.
Uses(k, p) == byTuple[k] # 0 /\ entries[byTuple[k]].port = p

\* A port handed out belongs to one entry of the table, or to one goroutine.
Owners ==
    /\ \A p \in Ports :
          p \in allocated <=> (\E k \in Keys : Uses(k, p)) \/ (\E q \in Procs : Has(q, p))
    /\ \A p \in Ports : \A k, l \in Keys : Uses(k, p) /\ Uses(l, p) => k = l
    /\ \A p \in Ports : \A q, r \in Procs : Has(q, p) /\ Has(r, p) => q = r
    /\ \A p \in Ports : \A k \in Keys, q \in Procs : ~(Uses(k, p) /\ Has(q, p))

LEMMA OwnersStep ==
    ASSUME TypeOK, Places, PoolSound, Readers, Table, Alone, Owners, Next, ~contended'
    PROVE  Owners'
<1>1. /\ Sessions \subseteq Procs /\ Len(entries) \in Nat
      /\ \A q \in Procs : at[q] \in Evicting => hold[q] \in 1..Len(entries)
      /\ \A k \in Keys : byTuple[k] # 0 => byTuple[k] \in 1..Len(entries)
      /\ \A i \in 1..Len(entries) : /\ entries[i].key \in Keys /\ entries[i].port \in Ports
                                    /\ entries'[i].key = entries[i].key
                                    /\ entries'[i].port = entries[i].port
  BY StepFacts
<1>2. ASSUME NEW r \in Procs, at'[r] = at[r], range'[r] = range[r],
             port'[r] = port[r], hold'[r] = hold[r], NEW p \in Ports
      PROVE  Has(r, p)' <=> Has(r, p)
  BY <1>1, <1>2 DEF Has, Deleted, Deletes
<1>3. ASSUME UNCHANGED byTuple, NEW k \in Keys, NEW p \in Ports
      PROVE  Uses(k, p)' <=> Uses(k, p)
  BY <1>1, <1>3 DEF Uses
<1>4. CASE (\A r \in Procs : Kept(r)) /\ UNCHANGED <<pool, byTuple>>
  BY <1>2, <1>3, <1>4 DEF Owners, Kept, pool
<1>5. ASSUME NEW q \in Procs, Steps(q), \A s \in Procs \ {q} : Kept(s) PROVE Owners'
  <2>1. ASSUME NEW r \in Procs \ {q}, NEW p \in Ports PROVE Has(r, p)' <=> Has(r, p)
    BY <1>2, <1>5, <2>1 DEF Kept
  <2>2. CASE /\ UNCHANGED <<byTuple, allocated>>
             /\ \A p \in Ports : Has(q, p)' <=> Has(q, p)
    BY <1>3, <2>1, <2>2 DEF Owners
  <2>3. ASSUME q \in Sessions, ReaderSteps(q),
               ~AllocatePort(q), ~DialFails(q), ~StoreTuple(q)
        PROVE  UNCHANGED <<byTuple, allocated>> /\ \A p \in Ports : Has(q, p)' <=> Has(q, p)
    <3>1. CASE DialSucceeds(q)
      BY <3>1 DEF DialSucceeds, Goto, pool, TypeOK, Has, Deleted, Deletes, Evicting
    <3>2. ASSUME ~DialSucceeds(q)
          PROVE  /\ UNCHANGED <<byTuple, allocated>>
                 /\ at[q] \notin Evicting \cup {"dial", "storeTuple"}
                 /\ at'[q] \notin Evicting \cup {"dial", "storeTuple"}
      BY <2>3, <3>2 DEF ReaderSteps, TranslateMiss, SweepOnExhaustion, Exhausted, StorePort,
         AddCount, CleanupSession, Goto, Return, StartRange, pool, tables, TypeOK, Evicting
    <3> QED
      BY <3>1, <3>2 DEF Has, Deleted
  <2>4. ASSUME (q = Ticker /\ TickerFires) \/ (q = Stopper /\ Shutdown)
        PROVE  UNCHANGED <<byTuple, allocated>> /\ \A p \in Ports : Has(q, p)' <=> Has(q, p)
    BY <2>4 DEF TickerFires, Shutdown, StartRange, Goto, pool, tables, TypeOK, Has, Deleted, Evicting
  <2>5. ASSUME NEW k \in Keys, Visit(q, k)
        PROVE  UNCHANGED <<byTuple, allocated>> /\ \A p \in Ports : Has(q, p)' <=> Has(q, p)
    <3>1. /\ UNCHANGED <<byTuple, allocated>> /\ at[q] = "scan"
          /\ at'[q] = "scan" \/ Deletes(q)'
      BY <2>5, Visited DEF Deletes, FirstStep, pool, tables
    <3> QED
      BY <3>1 DEF Has, Deleted, Deletes, Evicting
  <2>6. ASSUME RangeEnds(q) \/ DeletePort(q) \/ CloseConn(q) \/ SubCount(q)
        PROVE  UNCHANGED <<byTuple, allocated>> /\ \A p \in Ports : Has(q, p)' <=> Has(q, p)
    <3>1. CASE RangeEnds(q)
      BY <3>1 DEF RangeEnds, Goto, pool, tables, TypeOK, Has, Deleted, Evicting
    <3>2. CASE DeletePort(q) \/ CloseConn(q) \/ SubCount(q)
      <4>1. /\ UNCHANGED <<byTuple, allocated, range, port, hold>>
            /\ at[q] \in {"deletePort", "closeConn", "subCount"} /\ at'[q] = NextStep(q)
        BY <3>2 DEF DeletePort, CloseConn, SubCount, Goto, pool, tables, TypeOK
      <4>2. /\ at'[q] \notin {"dial", "storeTuple"}
            /\ (Deleted(q) /\ at[q] # "subCount")' <=> (Deleted(q) /\ at[q] # "subCount")
        BY <4>1 DEF NextStep, Deleted, Deletes, Evicting
      <4> QED
        BY <1>1, <4>1, <4>2 DEF Has, Deleted
    <3> QED
      BY <2>6, <3>1, <3>2
  <2>7. CASE AllocatePort(q)
    <3>1. PICK p0 \in Ports : Allocate(p0) /\ port' = [port EXCEPT ![q] = p0]
      BY <2>7 DEF AllocatePort
    <3>2. PoolTypes
      BY DEF PoolTypes, TypeOK
    <3>3. p0 \notin allocated /\ allocated' = allocated \cup {p0} /\ UNCHANGED byTuple
      BY <2>7, <3>1, <3>2, AllocateKeepsPool DEF AllocatePort, tables
    <3>4. \A p \in Ports : ~Has(q, p) /\ (Has(q, p)' <=> p = p0)
      BY <2>7, <3>1 DEF AllocatePort, Goto, TypeOK, Has, Deleted, Evicting
    <3>5. \A k \in Keys, p \in Ports : Uses(k, p)' <=> Uses(k, p)
      BY <1>3, <3>3
    <3> QED
      BY <2>1, <3>3, <3>4, <3>5 DEF Owners
  <2>8. ASSUME NEW p0 \in Ports, Has(q, p0), \A p \in Ports : ~Has(q, p)', ReleasePort(p0),
               UNCHANGED byTuple
        PROVE  Owners'
    <3>1. allocated' = allocated \ {p0}
      BY <2>8, ReleaseKeepsPool DEF PoolTypes, TypeOK
    <3>2. \A p \in Ports : Has(q, p) => p = p0
      BY <2>8 DEF Has, Deleted, Evicting
    <3>3. \A k \in Keys, p \in Ports : Uses(k, p)' <=> Uses(k, p)
      BY <1>3, <2>8
    <3> QED
      BY <2>1, <2>8, <3>1, <3>2, <3>3 DEF Owners
  <2>9. CASE DialFails(q)
    <3>1. port[q] \in Ports /\ Has(q, port[q]) /\ \A p \in Ports : ~Has(q, p)'
      BY <2>9 DEF DialFails, Return, Goto, TypeOK, Has, Deleted, Evicting
    <3> QED
      BY <2>8, <2>9, <3>1 DEF DialFails, tables
  <2>10. CASE Release(q)
    <3>1. /\ entries[hold[q]].port \in Ports /\ Has(q, entries[hold[q]].port)
          /\ \A p \in Ports : ~Has(q, p)'
      BY <1>1, <2>10 DEF Release, NextStep, Goto, TypeOK, Has, Deleted, Deletes, Evicting
    <3> QED
      BY <2>8, <2>10, <3>1 DEF Release, tables
  <2>11. CASE q \in Sessions /\ StoreTuple(q)
    <3> DEFINE k0 == key[q]
               p0 == port[q]
    <3>1. /\ k0 \in Keys /\ p0 \in Ports /\ byTuple[k0] = 0
          /\ hold[q] \in 1..Len(entries) /\ entries'[hold[q]].port = p0
          /\ byTuple' = [byTuple EXCEPT ![k0] = hold[q]] /\ UNCHANGED allocated
      BY <1>1, <2>11 DEF StoreTuple, Readers, Missing, TypeOK, pool
    <3>2. \A p \in Ports : (Has(q, p) <=> p = p0) /\ ~Has(q, p)'
      BY <2>11 DEF StoreTuple, Goto, TypeOK, Has, Deleted, Evicting
    <3>a. \A k \in Keys : byTuple'[k] = IF k = k0 THEN hold[q] ELSE byTuple[k]
      BY <3>1 DEF TypeOK
    <3>b. byTuple[k0] = 0 /\ byTuple'[k0] # 0 /\ entries'[byTuple'[k0]].port = p0
      BY <1>1, <3>1, <3>a
    <3>c. ASSUME NEW k \in Keys, k # k0, NEW p \in Ports  PROVE Uses(k, p)' <=> Uses(k, p)
      <4>1. byTuple'[k] = byTuple[k]
        BY <3>a, <3>c
      <4>2. CASE byTuple[k] = 0
        BY <4>1, <4>2 DEF Uses
      <4>3. CASE byTuple[k] # 0
        <5>1. entries'[byTuple[k]].port = entries[byTuple[k]].port
          BY <1>1, <3>c, <4>3 DEF TypeOK
        <5> QED
          BY <4>1, <5>1 DEF Uses
      <4> QED
        BY <4>2, <4>3
    <3>d. k0 \in Keys /\ p0 \in Ports
      BY <3>1
    <3> HIDE DEF k0, p0
    <3>e. ASSUME NEW k \in Keys, k = k0, NEW p \in Ports PROVE ~Uses(k, p) /\ (Uses(k, p)' <=> p = p0)
      BY <3>b, <3>e DEF Uses
    <3>3. ASSUME NEW k \in Keys, NEW p \in Ports
          PROVE  Uses(k, p)' <=> (Uses(k, p) \/ (k = k0 /\ p = p0))
      <4>1. CASE k = k0
        BY <3>3, <3>e, <4>1
      <4>2. CASE k # k0
        BY <3>3, <3>c, <4>2
      <4> QED
        BY <4>1, <4>2
    <3> QED
      BY <2>1, <3>1, <3>2, <3>3 DEF Owners
  <2>12. CASE DeleteTuple(q)
    <3> DEFINE k0 == entries[hold[q]].key
               p0 == entries[hold[q]].port
    <3>1. /\ hold[q] \in 1..Len(entries) /\ k0 \in Keys /\ p0 \in Ports /\ byTuple[k0] = hold[q]
          /\ byTuple' = [byTuple EXCEPT ![k0] = 0] /\ UNCHANGED <<allocated, entries, hold>>
      BY <1>1, <2>12 DEF DeleteTuple, Alone, Deletes, Evicting, pool
    <3>2. \A p \in Ports : ~Has(q, p) /\ (Has(q, p)' <=> p = p0)
      BY <2>12, <3>1 DEF DeleteTuple, NextStep, Goto, TypeOK, Has, Deleted, Deletes, Evicting
    <3>a. \A k \in Keys : byTuple'[k] = IF k = k0 THEN 0 ELSE byTuple[k]
      BY <3>1 DEF TypeOK
    <3>3. \A k \in Keys, p \in Ports : Uses(k, p)' <=> (Uses(k, p) /\ k # k0)
      BY <3>1, <3>a DEF Uses
    <3>4. Uses(k0, p0)
      BY <3>1 DEF Uses
    <3>5. \A p \in Ports : Uses(k0, p) => p = p0
      BY <3>1 DEF Uses
    <3> HIDE DEF k0, p0
    <3> QED
      BY <2>1, <3>1, <3>2, <3>3, <3>4, <3>5 DEF Owners
  <2> QED
    BY <1>5, <2>2, <2>3, <2>4, <2>5, <2>6, <2>7, <2>9, <2>10, <2>11, <2>12 DEF Steps, Evict
<1> QED
  BY <1>4, <1>5, StepsOfOne

\* Goroutine q is about to put its entry into the table, or to close the socket of one it
\* has taken out.
Closes(q) == at[q] = "storeTuple" \/ (at[q] \in {"deletePort", "closeConn"} /\ range[q] # "shut")

\* An open socket belongs to an entry of the table, or to a goroutine that will close it;
\* Shutdown closes it first.
Sockets ==
    /\ \A q \in Procs :
          range[q] = "shut" /\ at[q] \in Evicting \ {"closeConn"} => ~entries[hold[q]].open
    /\ \A i \in 1..Len(entries) : entries[i].open =>
          byTuple[entries[i].key] = i \/ \E q \in Procs : hold[q] = i /\ Closes(q)

\* What a dial adds is in the hands of its reader.
LEMMA OpenedByDial ==
    ASSUME TypeOK, Next, NEW i \in 1..Len(entries'), i \notin 1..Len(entries)
    PROVE  \E q \in Procs : hold'[q] = i /\ Closes(q)'
<1> USE DEF Goto
<1>1. Len(entries) \in Nat /\ Len(entries') \in Nat
  BY EntryTypes, EntriesStep, LenProperties
<1>2. PICK q \in Procs : DialSucceeds(q)
  BY <1>1, EntriesStep
<1> DEFINE e == [key |-> key[q], port |-> port[q], open |-> TRUE, stale |-> FALSE]
<1>3. e \in Entry /\ entries' = Append(entries, e) /\ entries \in Seq(Entry)
  BY <1>2, EntryTypes DEF DialSucceeds, TypeOK, Entry
<1> HIDE DEF e
<1>4. Len(entries') = Len(entries) + 1
  BY <1>3, AppendProperties
<1> QED
  BY <1>1, <1>2, <1>4 DEF DialSucceeds, Closes, TypeOK

LEMMA ClosedByEvictor ==
    ASSUME TypeOK, NEW q \in Procs, CloseConn(q)
    PROVE  ~entries'[hold[q]].open
<1> DEFINE i == hold[q]
           e == [entries[i] EXCEPT !.open = FALSE]
<1>1. i \in 1..Len(entries)
  BY EntryTypes DEF CloseConn, TypeOK, Evicting
<1>2. entries[i] \in Entry /\ entries \in Seq(Entry)
  BY <1>1, EntryTypes
<1>3. e \in Entry /\ ~e.open
  BY <1>2, Closed, Zenon
<1>4. entries' = [entries EXCEPT ![i] = e]
  BY DEF CloseConn
<1> HIDE DEF e, i
<1>5. entries'[i] = e
  BY <1>1, <1>2, <1>3, <1>4, ExceptSeq
<1> QED
  BY <1>3, <1>5 DEF i

\* What a goroutine does next where it matters to the sockets.
LEMMA StepAt ==
    ASSUME TypeOK, Next, NEW q \in Procs
    PROVE  /\ at[q] = "storeTuple" => Kept(q) \/ (q \in Sessions /\ StoreTuple(q))
           /\ at[q] = "deletePort" => Kept(q) \/ DeletePort(q)
           /\ at[q] = "closeConn" => Kept(q) \/ CloseConn(q)
<1>1. /\ \A k \in Keys : TranslateMiss(q, k) => at[q] = "idle"
      /\ AllocatePort(q) => at[q] \in {"allocate", "retry"}
      /\ SweepOnExhaustion(q) => at[q] = "allocate"
      /\ Exhausted(q) => at[q] \in {"allocate", "retry"}
      /\ DialFails(q) => at[q] = "dial"
      /\ DialSucceeds(q) => at[q] = "dial"
  BY DEF TranslateMiss, AllocatePort, SweepOnExhaustion, Exhausted, DialFails, DialSucceeds
<1>2. /\ StoreTuple(q) => at[q] = "storeTuple"
      /\ StorePort(q) => at[q] = "storePort"
      /\ AddCount(q) => at[q] = "addCount"
      /\ CleanupSession(q) => at[q] = "idle"
      /\ q = Ticker /\ TickerFires => at[q] = "idle"
      /\ q = Stopper /\ Shutdown => at[q] = "idle"
  BY DEF StoreTuple, StorePort, AddCount, CleanupSession, TickerFires, Shutdown
<1>3. /\ \A k \in Keys : Visit(q, k) => at[q] = "scan"
      /\ RangeEnds(q) => at[q] = "scan"
      /\ DeleteTuple(q) => at[q] = "deleteTuple"
      /\ DeletePort(q) => at[q] = "deletePort"
      /\ CloseConn(q) => at[q] = "closeConn"
      /\ Release(q) => at[q] = "release"
      /\ SubCount(q) => at[q] = "subCount"
  BY DEF Visit, RangeEnds, DeleteTuple, DeletePort, CloseConn, Release, SubCount
<1>4. Kept(q) \/ Steps(q)
  BY StepsOfOne
<1> QED
  BY <1>1, <1>2, <1>3, <1>4 DEF Steps, ReaderSteps, Evict

LEMMA SocketsStep ==
    ASSUME TypeOK, Places, Readers, Table, Alone, Sockets, Next, ~contended'
    PROVE  Sockets'
<1>1. /\ Sessions \subseteq Procs /\ Len(entries) \in Nat
      /\ \A q \in Procs : at[q] \in Evicting => hold[q] \in 1..Len(entries)
      /\ \A i \in 1..Len(entries) : /\ entries[i].key \in Keys
                                    /\ entries'[i].key = entries[i].key
  BY StepFacts
<1>2. \A i \in 1..Len(entries) : entries'[i].open => entries[i].open
  BY EntriesStep DEF EntriesKept
<1>3. ASSUME NEW q \in Procs, range'[q] = "shut", at'[q] \in Evicting \ {"closeConn"}
      PROVE  ~entries'[hold'[q]].open
  <2>1. ASSUME NEW k \in Keys, Visit(q, k) PROVE FALSE
    BY <1>3, <2>1, Visited DEF FirstStep, Evicting
  <2>2. at[q] \in Evicting /\ hold'[q] = hold[q] /\ range'[q] = range[q]
    BY <1>3, <2>1, InHand
  <2>3. CASE at[q] = "closeConn"
    BY <1>3, <2>2, <2>3, StepAt, ClosedByEvictor DEF Kept
  <2>4. CASE at[q] # "closeConn"
    BY <1>1, <1>2, <1>3, <2>2, <2>4 DEF Sockets
  <2> QED
    BY <2>3, <2>4
<1>4. ASSUME NEW i \in 1..Len(entries), entries'[i].open
      PROVE  byTuple'[entries'[i].key] = i \/ \E q \in Procs : hold'[q] = i /\ Closes(q)'
  <2> DEFINE k == entries[i].key
  <2>1. k \in Keys /\ entries'[i].key = k /\ entries[i].open
    BY <1>1, <1>2, <1>4
  <2>2. CASE byTuple[k] = i
    <3>1. ASSUME NEW q \in Sessions, StoreTuple(q) PROVE byTuple'[k] = byTuple[k]
      <4>1. byTuple[key[q]] = 0
        BY <3>1 DEF StoreTuple, Readers, Missing
      <4> QED
        BY <1>4, <2>1, <2>2, <3>1, <4>1 DEF StoreTuple, TypeOK
    <3>2. ASSUME NEW q \in Procs, DeleteTuple(q), byTuple'[k] # byTuple[k]
          PROVE  hold'[q] = i /\ Closes(q)'
      <4>1. entries[hold[q]].key = k /\ Deletes(q) /\ at[q] = "deleteTuple"
        BY <1>1, <2>1, <3>2 DEF DeleteTuple, Deletes, TypeOK, Evicting
      <4>2. hold[q] = i
        BY <2>2, <4>1 DEF Alone
      <4>3. range[q] # "shut"
        BY <2>1, <4>1, <4>2 DEF Sockets, Evicting
      <4> QED
        BY <3>2, <4>1, <4>2, <4>3 DEF DeleteTuple, NextStep, Goto, Closes, TypeOK
    <3> QED
      BY <2>1, <2>2, <3>1, <3>2, TableSteps
  <2>3. ASSUME NEW q \in Procs, hold[q] = i, Closes(q)
        PROVE  byTuple'[k] = i \/ (hold'[q] = i /\ Closes(q)')
    <3>1. CASE Kept(q)
      BY <2>3, <3>1 DEF Kept, Closes
    <3>2. CASE q \in Sessions /\ StoreTuple(q)
      BY <2>1, <2>3, <3>2 DEF StoreTuple, Readers, TypeOK
    <3>3. CASE DeletePort(q)
      BY <2>3, <3>3 DEF DeletePort, NextStep, Goto, Closes, TypeOK
    <3>4. CASE CloseConn(q)
      BY <1>4, <2>3, <3>4, ClosedByEvictor
    <3> QED
      BY <2>3, <3>1, <3>2, <3>3, <3>4, StepAt DEF Closes
  <2> QED
    BY <2>1, <2>2, <2>3 DEF Sockets
<1>5. \A i \in 1..Len(entries') : i \notin 1..Len(entries) => \E q \in Procs : hold'[q] = i /\ Closes(q)'
  BY OpenedByDial
<1> QED
  BY <1>3, <1>4, <1>5 DEF Sockets

\* Stored but not counted yet; taken out of the table but counted still.
Stored == {q \in Procs : at[q] \in {"storePort", "addCount"}}
Gone == {q \in Procs : Deleted(q)}

Counts ==
    /\ IsFiniteSet(Live) /\ IsFiniteSet(Stored) /\ IsFiniteSet(Gone)
    /\ count + Cardinality(Stored) = Cardinality(Live) + Cardinality(Gone)

LEMMA CountsStep ==
    ASSUME TypeOK, Places, Readers, Table, Alone, Counts, Next, ~contended'
    PROVE  Counts'
<1>0. /\ count \in Int /\ Cardinality(Live) \in Nat /\ Cardinality(Stored) \in Nat
      /\ Cardinality(Gone) \in Nat
  BY FS_CardinalityType DEF Counts, TypeOK
<1>1. /\ Sessions \subseteq Procs
      /\ \A q \in Procs : at[q] \in Evicting => hold[q] \in 1..Len(entries)
      /\ \A i \in 1..Len(entries) : entries[i].key \in Keys
  BY StepFacts
<1>2. CASE UNCHANGED count /\ Live' = Live /\ Stored' = Stored /\ Gone' = Gone
  BY <1>2 DEF Counts
<1>3. CASE (\A r \in Procs : Kept(r)) /\ UNCHANGED <<byTuple, count>>
  BY <1>2, <1>3 DEF Kept, Live, Stored, Gone, Deleted, Deletes
<1>4. ASSUME NEW q \in Procs, Steps(q), \A s \in Procs \ {q} : Kept(s) PROVE Counts'
  <2>1. \A s \in Procs \ {q} : /\ at'[s] \in {"storePort", "addCount"}
                                     <=> at[s] \in {"storePort", "addCount"}
                               /\ Deleted(s)' <=> Deleted(s)
    BY <1>4 DEF Kept, Deleted, Deletes
  <2>2. ASSUME at'[q] \in {"storePort", "addCount"} <=> at[q] \in {"storePort", "addCount"},
               Deleted(q)' <=> Deleted(q)
        PROVE  Stored' = Stored /\ Gone' = Gone
    BY <2>1, <2>2 DEF Stored, Gone
  <2>3. CASE /\ q \in Sessions /\ ReaderSteps(q)
             /\ ~StoreTuple(q) /\ ~AddCount(q)
    <3>1. /\ UNCHANGED <<byTuple, count>>
          /\ at'[q] \in {"storePort", "addCount"} <=> at[q] \in {"storePort", "addCount"}
          /\ at[q] \notin Evicting /\ at'[q] \notin Evicting
      BY <2>3 DEF ReaderSteps, TranslateMiss, AllocatePort, SweepOnExhaustion, Exhausted,
         DialFails, DialSucceeds, StorePort, CleanupSession, Goto, Return, StartRange, tables,
         TypeOK, Evicting
    <3> QED
      BY <1>2, <2>2, <3>1 DEF Live, Deleted
  <2>4. CASE (q = Ticker /\ TickerFires) \/ (q = Stopper /\ Shutdown)
    <3>1. /\ UNCHANGED <<byTuple, count>> /\ at[q] = "idle" /\ at'[q] = "scan"
      BY <2>4 DEF TickerFires, Shutdown, StartRange, Goto, tables, TypeOK
    <3> QED
      BY <1>2, <2>2, <3>1 DEF Live, Deleted, Evicting
  <2>5. ASSUME NEW k \in Keys, Visit(q, k) PROVE Counts'
    <3>1. /\ UNCHANGED <<byTuple, count>> /\ at[q] = "scan"
          /\ at'[q] \in {"scan", "closeConn", "deleteTuple"} /\ ~Deleted(q)'
      BY <2>5, Visited DEF Deleted, Deletes, FirstStep, tables, Evicting
    <3> QED
      BY <1>2, <2>2, <3>1 DEF Live, Deleted, Evicting
  <2>6. CASE RangeEnds(q)
    <3>1. /\ UNCHANGED <<byTuple, count>> /\ at[q] = "scan" /\ at'[q] \in {"idle", "retry", "done"}
      BY <2>6 DEF RangeEnds, Goto, tables, TypeOK
    <3> QED
      BY <1>2, <2>2, <3>1 DEF Live, Deleted, Evicting
  <2>7. CASE DeletePort(q) \/ CloseConn(q) \/ Release(q)
    <3>1. /\ UNCHANGED <<byTuple, count, range>>
          /\ at[q] \in {"deletePort", "closeConn", "release"} /\ at'[q] = NextStep(q)
      BY <2>7 DEF DeletePort, CloseConn, Release, Goto, tables, TypeOK
    <3>2. Deleted(q)' <=> Deleted(q)
      BY <3>1 DEF NextStep, Deleted, Deletes, Evicting
    <3>3. at'[q] \notin {"storePort", "addCount"}
      BY <3>1 DEF NextStep
    <3> QED
      BY <1>2, <2>2, <3>1, <3>2, <3>3 DEF Live
  <2>8. CASE q \in Sessions /\ StoreTuple(q)
    <3> DEFINE k == key[q]
    <3>1. /\ k \in Keys /\ byTuple[k] = 0 /\ hold[q] # 0
          /\ byTuple' = [byTuple EXCEPT ![k] = hold[q]] /\ UNCHANGED count
          /\ at[q] = "storeTuple" /\ at'[q] = "storePort"
      BY <2>8 DEF StoreTuple, Readers, Missing, Goto, TypeOK
    <3>2. k \notin Live /\ Live' = Live \cup {k}
      BY <3>1 DEF Live, TypeOK
    <3>3. q \notin Stored /\ Stored' = Stored \cup {q} /\ Gone' = Gone
      BY <2>1, <3>1 DEF Stored, Gone, Deleted, Evicting
    <3>4. /\ IsFiniteSet(Live') /\ Cardinality(Live') = Cardinality(Live) + 1
          /\ IsFiniteSet(Stored') /\ Cardinality(Stored') = Cardinality(Stored) + 1
      BY <3>2, <3>3, FS_AddElement DEF Counts
    <3> QED
      BY <1>0, <3>1, <3>3, <3>4 DEF Counts
  <2>9. CASE q \in Sessions /\ AddCount(q)
    <3>1. /\ UNCHANGED byTuple /\ count' = count + 1 /\ at[q] = "addCount" /\ at'[q] = "idle"
      BY <2>9 DEF AddCount, Return, Goto, tables, TypeOK
    <3>2. Live' = Live /\ q \in Stored /\ Stored' = Stored \ {q} /\ Gone' = Gone
      BY <2>1, <3>1 DEF Live, Stored, Gone, Deleted, Evicting
    <3>3. IsFiniteSet(Stored') /\ Cardinality(Stored') = Cardinality(Stored) - 1
      BY <3>2, FS_RemoveElement DEF Counts
    <3> QED
      BY <1>0, <3>1, <3>2, <3>3 DEF Counts
  <2>10. CASE DeleteTuple(q)
    <3> DEFINE k == entries[hold[q]].key
    <3>1. /\ k \in Keys /\ byTuple[k] # 0 /\ UNCHANGED <<count, range>>
          /\ byTuple' = [byTuple EXCEPT ![k] = 0]
          /\ at[q] = "deleteTuple" /\ at'[q] = "deletePort"
      BY <1>1, <2>10 DEF DeleteTuple, Alone, Deletes, NextStep, Goto, TypeOK, Evicting
    <3>2. k \in Live /\ Live' = Live \ {k}
      BY <3>1 DEF Live, TypeOK
    <3>3. q \notin Gone /\ Gone' = Gone \cup {q} /\ Stored' = Stored
      BY <2>1, <3>1 DEF Stored, Gone, Deleted, Deletes, Evicting
    <3>4. /\ IsFiniteSet(Live') /\ Cardinality(Live') = Cardinality(Live) - 1
          /\ IsFiniteSet(Gone') /\ Cardinality(Gone') = Cardinality(Gone) + 1
      BY <3>2, <3>3, FS_AddElement, FS_RemoveElement DEF Counts
    <3> QED
      BY <1>0, <3>1, <3>3, <3>4 DEF Counts
  <2>11. CASE SubCount(q)
    <3>1. /\ UNCHANGED byTuple /\ count' = count - 1 /\ at[q] = "subCount" /\ at'[q] = "scan"
      BY <2>11 DEF SubCount, NextStep, Goto, tables, TypeOK
    <3>2. Live' = Live /\ Stored' = Stored /\ q \in Gone /\ Gone' = Gone \ {q}
      BY <2>1, <3>1 DEF Live, Stored, Gone, Deleted, Deletes, Evicting
    <3>3. IsFiniteSet(Gone') /\ Cardinality(Gone') = Cardinality(Gone) - 1
      BY <3>2, FS_RemoveElement DEF Counts
    <3> QED
      BY <1>0, <3>1, <3>2, <3>3 DEF Counts
  <2> QED
    BY <1>4, <2>3, <2>4, <2>5, <2>6, <2>7, <2>8, <2>9, <2>10, <2>11 DEF Steps, Evict
<1> QED
  BY <1>3, <1>4, StepsOfOne

-----------------------------------------------------------------------------
(* The theorems. *)

Uncontended == Alone /\ Owners /\ Sockets /\ Counts

IInv == /\ TypeOK /\ PoolSound /\ Places /\ Readers /\ Table /\ Cleaned
        /\ ~contended => Uncontended

LEMMA InitIInv == Init => IInv
<1> SUFFICES ASSUME Init PROVE IInv
  OBVIOUS
<1>1. PoolTypes /\ PoolSound
  BY PoolInit
<1>2. /\ allocated = {} /\ byTuple = [k \in Keys |-> 0] /\ byPort = [p \in Ports |-> 0]
      /\ entries = <<>> /\ count = 0 /\ at = [q \in Procs |-> "idle"]
      /\ range = [q \in Procs |-> "none"] /\ key = [q \in Procs |-> AnyKey]
      /\ port = [q \in Procs |-> AnyPort] /\ hold = [q \in Procs |-> 0]
      /\ visited = [q \in Procs |-> {}] /\ stopped = FALSE /\ contended = FALSE
  BY DEF Init
<1>3. AnyKey \in Keys /\ AnyPort \in Ports
  BY NatAssumption DEF AnyKey, AnyPort
<1>4. Len(entries) = 0 /\ entries \in Seq(Entry) /\ 0 \in 0..Len(entries)
  BY <1>2
<1>5. TypeOK
  <2>1. contended \in BOOLEAN /\ stopped \in BOOLEAN
    BY <1>2, Zenon
  <2> QED
    BY <1>1, <1>2, <1>3, <1>4, <2>1 DEF TypeOK, PoolTypes, Entry, Evicting
<1>6. Places /\ Table
  BY <1>2 DEF Places, Table, Procs, Forwarding, Evicting
<1>7. Readers
  BY <1>2 DEF Readers, Missing, Procs, Forwarding
<1>8. Cleaned
  BY <1>2 DEF Cleaned, CleanedIn, Procs
<1>9. Alone /\ Owners
  BY <1>2 DEF Alone, Deletes, Owners, Uses, Has, Deleted, Evicting
<1>10. Sockets
  BY <1>2, <1>4 DEF Sockets, Evicting
<1>11. Counts
  <2>1. Live = {} /\ Stored = {} /\ Gone = {}
    BY <1>2 DEF Live, Stored, Gone, Deleted, Evicting
  <2> QED
    BY <1>2, <2>1, FS_EmptySet DEF Counts
<1> QED
  BY <1>1, <1>5, <1>6, <1>7, <1>8, <1>9, <1>10, <1>11 DEF IInv, Uncontended

LEMMA StutterKeepsIInv ==
    ASSUME IInv, UNCHANGED vars
    PROVE  IInv'
<1> USE DEF vars
<1>1. TypeOK' /\ PoolSound'
  BY DEF IInv, TypeOK, PoolSound
<1>2. Places' /\ Readers' /\ Table' /\ Cleaned'
  BY DEF IInv, Places, Readers, Missing, Table, Cleaned, CleanedIn
<1>3. Uncontended' <=> Uncontended
  BY DEF Uncontended, Alone, Deletes, Owners, Uses, Has, Deleted, Sockets, Closes, Counts,
         Live, Stored, Gone
<1> QED
  BY <1>1, <1>2, <1>3, Zenon DEF IInv

LEMMA Inductive == Spec => []IInv
<1>1. IInv /\ [Next]_vars => IInv'
  <2> SUFFICES ASSUME IInv, [Next]_vars PROVE IInv'
    OBVIOUS
  <2>1. CASE UNCHANGED vars
    BY <2>1, StutterKeepsIInv
  <2>2. CASE Next
    <3>1. TypeOK /\ PoolSound /\ Places /\ Readers /\ Table /\ Cleaned
      BY DEF IInv
    <3>2. TypeOK' /\ PoolSound' /\ Places' /\ Readers' /\ Table' /\ Cleaned'
      BY <2>2, <3>1, TypeStep, PoolStep, LocalStep, ReadersStep, TableStep, CleanedStep
    <3>3. ASSUME ~contended' PROVE Uncontended'
      <4>1. Alone /\ Owners /\ Sockets /\ Counts
        BY <2>2, <3>1, <3>3, StepFacts DEF IInv, Uncontended
      <4> QED
        BY <2>2, <3>1, <3>3, <4>1, AloneStep, OwnersStep, SocketsStep, CountsStep DEF Uncontended
    <3> QED
      BY <3>2, <3>3 DEF IInv
  <2> QED
    BY <2>1, <2>2
<1> QED
  BY <1>1, InitIInv, PTL DEF Spec

\* Types, among them that an evictor always has an entry in hand.
THEOREM TypeCorrect == Spec => []TypeOK
<1>1. IInv => TypeOK
  BY DEF IInv
<1> QED
  BY <1>1, Inductive, PTL

\* No port is twice in the pool, and none is both free and handed out, however many
\* goroutines release it (portPool.release).
THEOREM PoolIsSound == Spec => []PoolSound
<1>1. IInv => PoolSound
  BY DEF IInv
<1> QED
  BY <1>1, Inductive, PTL

\* Once a session's cleanup has returned, the table holds nothing of it, whoever else was
\* evicting meanwhile (closeSessionEntries).
THEOREM CleanupForgets == Spec => []EndedSessionForgotten
<1>1. IInv => EndedSessionForgotten
  BY DEF IInv, Cleaned, CleanedIn, EndedSessionForgotten
<1> QED
  BY <1>1, Inductive, PTL

\* Unless two goroutines have evicted one entry, an open socket is one that a sweep can
\* find (evictEntry, Shutdown).
THEOREM OpenIsInTable == Spec => []OpenSocketsAreSwept
<1>1. IInv => OpenSocketsAreSwept
  <2> SUFFICES ASSUME IInv, Quiet, ~contended, NEW i \in 1..Len(entries), entries[i].open
               PROVE  byTuple[entries[i].key] = i
    BY DEF OpenSocketsAreSwept
  <2>1. \A q \in Procs : ~Closes(q)
    BY DEF Quiet, Closes
  <2> QED
    BY <2>1 DEF IInv, Uncontended, Sockets
<1> QED
  BY <1>1, Inductive, PTL

\* With the same proviso the counters count the table, and every port handed out belongs
\* to an entry of it: none is lost to the pool (Stats, portPool).
THEOREM CountersCount == Spec => []Accounting
<1>1. IInv => Accounting
  <2> SUFFICES ASSUME IInv, Quiet, ~contended
               PROVE  /\ count = Cardinality(Live)
                      /\ allocated = {entries[byTuple[k]].port : k \in Live}
    BY DEF Accounting
  <2>1. Counts /\ Owners /\ TypeOK
    BY DEF IInv, Uncontended
  <2>2. Stored = {} /\ Gone = {}
    BY DEF Quiet, Stored, Gone, Deleted, Evicting
  <2>3. count = Cardinality(Live)
    <3>1. Cardinality(Stored) = 0 /\ Cardinality(Gone) = 0
      BY <2>2, FS_EmptySet
    <3>2. count \in Int /\ Cardinality(Live) \in Nat
      BY <2>1, FS_CardinalityType DEF Counts, TypeOK
    <3> QED
      BY <2>1, <3>1, <3>2 DEF Counts
  <2>4. \A p \in Ports, q \in Procs : ~Has(q, p)
    BY DEF Quiet, Has, Deleted, Evicting
  <2>5. \A p \in Ports : p \in allocated <=> \E k \in Keys : Uses(k, p)
    BY <2>1, <2>4 DEF Owners
  <2>6. \A k \in Live : k \in Keys /\ entries[byTuple[k]].port \in Ports
    BY <2>1, EntryTypes DEF Live, TypeOK
  <2>7. allocated \subseteq Ports
    BY <2>1 DEF TypeOK
  <2>8. \A p : p \in allocated <=> \E k \in Live : p = entries[byTuple[k]].port
    BY <2>5, <2>6, <2>7 DEF Uses, Live
  <2> QED
    BY <2>3, <2>8
<1> QED
  BY <1>1, Inductive, PTL
=============================================================================
