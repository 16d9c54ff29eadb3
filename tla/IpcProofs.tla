------------------------------ MODULE IpcProofs ------------------------------
(***************************************************************************)
(* Proofs about inter process communication, for every number of processes *)
(* and blocks: the segments' table keeps its entries apart and in step     *)
(* with the heap, the semaphores' table has room for what is written to    *)
(* it, and whoever leaves leaves nothing in it.  Both tables are walked    *)
(* over by loops that shrink them meanwhile; what a turn keeps, the loop   *)
(* keeps (TurnByTurn).  And the philosophers: those who wait do so for     *)
(* ever, for every number of them.                                         *)
(***************************************************************************)
EXTENDS Ipc, Philosophers, ArrayLemmas

(***************************************************************************)
(* No entry that realloc adds to the segments' table is one of a process:  *)
(* the table is searched by owner in all its slots.  Its address and size  *)
(* may be anything, those of a segment that is allocated, too.             *)
(***************************************************************************)
CleanSegments == \A r \in Recycled : r.owner \notin Pid

-----------------------------------------------------------------------------
(* The processes                                                           *)

\* Every process there is has one of the pids.
PidsGiven ==
  /\ DOMAIN running \subseteq Process
  /\ running \in [DOMAIN running -> Pid]

LEMMA PidsAreNumbers == Pid \subseteq Nat \ {0}
BY DEF Pid

(***************************************************************************)
(* The number of processes there are, one more of them, is among the pids. *)
(***************************************************************************)
LEMMA PidsStart ==
  ASSUME PidsGiven, NEW p \in Process, Starts(p)
  PROVE  PidsGiven'
<1> DEFINE old == DOMAIN running
           pid == Cardinality(old) + 1
<1>1. /\ p \notin old
      /\ running' = [q \in old \cup {p} |-> IF q = p THEN pid ELSE running[q]]
  BY DEF Starts
<1>2. old \subseteq Process /\ running \in [old -> Pid]
  BY DEF PidsGiven
<1>3. pid \in Pid
  <2>1. IsFiniteSet(Process) /\ old \cup {p} \subseteq Process
    BY <1>2, IpcAssumption
  <2>2. /\ IsFiniteSet(old) /\ Cardinality(old) \in Nat /\ Cardinality(Process) \in Nat
        /\ Cardinality(old \cup {p}) <= Cardinality(Process)
    BY <1>2, <2>1, FS_Subset, FS_CardinalityType
  <2>3. Cardinality(old \cup {p}) = Cardinality(old) + 1
    BY <1>1, <2>2, FS_AddElement
  <2> QED
    BY <2>2, <2>3 DEF Pid
<1> HIDE DEF old, pid
<1>4. DOMAIN running' = old \cup {p} /\ running' \in [old \cup {p} -> Pid]
  BY <1>1, <1>2, <1>3
<1> QED
  BY <1>2, <1>4 DEF PidsGiven

LEMMA NoPidsAtStart ==
  ASSUME Init
  PROVE  PidsGiven
<1>1. DOMAIN running = {} /\ running = [p \in {} |-> running[p]]
  BY DEF Init
<1>2. running \in [{} -> Pid]
  BY <1>1
<1> QED
  BY <1>1, <1>2 DEF PidsGiven

LEMMA PidsExit ==
  ASSUME PidsGiven, NEW p, running' = [q \in DOMAIN running \ {p} |-> running[q]]
  PROVE  PidsGiven'
<1>1. DOMAIN running' = DOMAIN running \ {p}
  OBVIOUS
<1>2. running' \in [DOMAIN running \ {p} -> Pid]
  BY DEF PidsGiven
<1> QED
  BY <1>1, <1>2 DEF PidsGiven

-----------------------------------------------------------------------------
(* Segments: the invariant                                                 *)

\* A slot that no search for the entries of a process stops at.
Unused(r) == r.owner \notin Pid

\* t has this many slots, of which the first n are segments of their own.
SlotsOf(t, n, size) ==
  /\ n \in Nat /\ size \in Nat
  /\ n <= size /\ (size = 0 \/ size < 2 * n)
  /\ DOMAIN t = 0..(size - 1)
  /\ \A i \in 0..(size - 1) : t[i] \in [addr : Nat, owner : Int, size : Nat]
  /\ \A i \in 0..(n - 1) : t[i].addr \in Address /\ t[i].owner \in Pid
  /\ \A i \in n..(size - 1) : Unused(t[i])
  /\ \A i, j \in 0..(n - 1) : t[i].addr = t[j].addr => i = j

\* The segments among the first n slots of t are what is allocated in h.
HeapOf(t, n, h) ==
  /\ \A i \in 0..(n - 1) : t[i].addr \in DOMAIN h /\ h[t[i].addr] = t[i].size
  /\ \A a \in DOMAIN h : \E i \in 0..(n - 1) : t[i].addr = a

ShmInv ==
  /\ SlotsOf(shmTable, shmTabEntries, shmTabSize)
  /\ HeapOf(shmTable, shmTabEntries, heap)
  /\ PidsGiven

-----------------------------------------------------------------------------
(* Segments: what the operations do to the table's value                   *)

LEMMA NoSegmentIsUnused == Unused(NoSegment)
BY PidsAreNumbers DEF Unused, NoSegment

LEMMA SlotCount ==
  ASSUME NEW t, NEW size \in Nat, DOMAIN t = 0..(size - 1)
  PROVE  Cardinality(DOMAIN t) = size
<1>1. 0 \in Int /\ size - 1 \in Int
  OBVIOUS
<1>2. Cardinality(0..(size - 1)) = IF 0 > size - 1 THEN 0 ELSE (size - 1) - 0 + 1
  BY <1>1, FS_Interval
<1> QED
  BY <1>2

\* t2 is t without the segment in slot i.
WithoutSlot(t2, t, n, i) ==
  /\ \A k \in 0..(n - 2) : t2[k] = t[IF k < i THEN k ELSE k + 1]
  /\ \A k \in 0..(n - 1) : k # i => \E m \in 0..(n - 2) : t2[m] = t[k]

(***************************************************************************)
(* Clearing a slot, closing the hole and halving the array leave a table   *)
(* of the others.                                                          *)
(***************************************************************************)
LEMMA RemovedSlots ==
  ASSUME NEW t, NEW n, NEW size, SlotsOf(t, n, size),
         NEW i \in 0..(n - 1)
  PROVE  /\ SlotsOf(Removed(t, n, i), n - 1, Cardinality(DOMAIN Removed(t, n, i)))
         /\ WithoutSlot(Removed(t, n, i), t, n, i)
<1> DEFINE t0 == [t EXCEPT ![i] = NoSegment]
           used == {k \in DOMAIN t0 : t0[k].addr # 0}
           c == Compact(t0, used, NoSegment)
           r == Removed(t, n, i)
           half == IF n - 1 <= size \div 2 THEN size \div 2 ELSE size
<1>1. /\ n \in Nat /\ size \in Nat /\ i \in Nat
      /\ i < n /\ n <= size /\ size < 2 * n
      /\ DOMAIN t = 0..(size - 1)
  BY DEF SlotsOf
<1>2. n \in 1..size /\ i \in 0..(size - 1)
  BY <1>1
<1>3. /\ DOMAIN t0 = 0..(size - 1)
      /\ t0[i] = NoSegment
      /\ \A k \in 0..(size - 1) : k # i => t0[k] = t[k]
  BY <1>1, <1>2
<1> HIDE DEF t0
<1>4. OneHole(used, n, i, size)
  <2>1. \A k \in 0..(n - 1) : k # i => t0[k].addr # 0
    <3>1. \A k \in 0..(n - 1) : k \in 0..(size - 1) /\ t[k].addr \in Address
      BY <1>1 DEF SlotsOf
    <3> QED
      BY <1>3, <3>1, IpcAssumption
  <2>2. t0[i].addr = 0
    BY <1>3 DEF NoSegment
  <2>3. \A k \in 0..(n - 1) : k \in 0..(size - 1)
    BY <1>1
  <2> QED
    BY <1>3, <2>1, <2>2, <2>3 DEF OneHole
<1> HIDE DEF used
<1>5. HoleClosed(c, t0, used, n, i, size, NoSegment)
  BY <1>1, <1>2, <1>3, <1>4, CompactAroundHole
<1>6. used \subseteq 0..(size - 1)
  BY <1>4 DEF OneHole
<1>7. /\ DOMAIN c = 0..(size - 1)
      /\ \A k \in 0..(n - 2) : c[k] = t[IF k < i THEN k ELSE k + 1]
  <2>1. ASSUME NEW k \in 0..(n - 2)
        PROVE  c[k] = t[IF k < i THEN k ELSE k + 1]
    <3> DEFINE s == IF k < i THEN k ELSE k + 1
    <3>1. s \in 0..(size - 1) /\ s # i
      BY <1>1
    <3>2. c[k] = t0[s]
      BY <1>5 DEF HoleClosed
    <3> QED
      BY <1>3, <3>1, <3>2
  <2> QED
    BY <1>5, <2>1 DEF HoleClosed
<1>8. \A k \in (n - 1)..(size - 1) :
        c[k] = NoSegment \/ \E j \in n..(size - 1) : c[k] = t[j]
  <2> TAKE k \in (n - 1)..(size - 1)
  <2>1. c[k] = NoSegment \/ \E j \in used : j >= n /\ c[k] = t0[j]
    BY <1>5 DEF HoleClosed
  <2>2. ASSUME NEW j \in used, j >= n, c[k] = t0[j]
        PROVE  j \in n..(size - 1) /\ c[k] = t[j]
    BY <1>1, <1>3, <1>6, <2>2
  <2> QED
    BY <2>1, <2>2
<1>9. Cardinality(DOMAIN c) = size
  BY <1>1, <1>7, SlotCount
<1>10. r = Shrunk(c, n - 1)
  BY DEF Removed, shmTabDefrag, c, used, t0
<1> HIDE DEF c, r
<1>11. /\ half \in Nat /\ n - 1 <= half /\ half <= size
       /\ half = 0 \/ half < 2 * (n - 1)
  BY <1>1
<1>12. /\ DOMAIN r = 0..(half - 1)
       /\ \A k \in 0..(half - 1) : r[k] = c[k]
  BY <1>7, <1>9, <1>10 DEF Shrunk
<1>13. Cardinality(DOMAIN r) = half
  BY <1>11, <1>12, SlotCount
<1> HIDE DEF half
<1>14. \A k \in 0..(n - 2) : r[k] = t[IF k < i THEN k ELSE k + 1]
  BY <1>1, <1>7, <1>11, <1>12
<1>15. \A k \in (n - 1)..(half - 1) :
         r[k] = NoSegment \/ \E j \in n..(size - 1) : r[k] = t[j]
  BY <1>1, <1>8, <1>11, <1>12
<1>16. SlotsOf(r, n - 1, half)
  <2>1. \A k \in 0..(half - 1) : r[k] \in [addr : Nat, owner : Int, size : Nat]
    <3> TAKE k \in 0..(half - 1)
    <3>1. NoSegment \in [addr : Nat, owner : Int, size : Nat]
      BY DEF NoSegment
    <3>2. CASE k \in 0..(n - 2)
      <4>1. (IF k < i THEN k ELSE k + 1) \in 0..(size - 1)
        BY <1>1, <3>2
      <4> QED
        BY <1>14, <3>2, <4>1 DEF SlotsOf
    <3>3. CASE k \in (n - 1)..(half - 1)
      <4>1. \A j \in n..(size - 1) : j \in 0..(size - 1)
        BY <1>1
      <4> QED
        BY <1>15, <3>1, <3>3, <4>1 DEF SlotsOf
    <3> QED
      BY <1>1, <1>11, <3>2, <3>3
  <2>2. \A k \in 0..((n - 1) - 1) : r[k].addr \in Address /\ r[k].owner \in Pid
    <3> TAKE k \in 0..((n - 1) - 1)
    <3>1. k \in 0..(n - 2) /\ (IF k < i THEN k ELSE k + 1) \in 0..(n - 1)
      BY <1>1
    <3> QED
      BY <1>14, <3>1 DEF SlotsOf
  <2>3. \A k \in (n - 1)..(half - 1) : Unused(r[k])
    BY <1>15, NoSegmentIsUnused DEF SlotsOf
  <2>4. \A k, l \in 0..((n - 1) - 1) : r[k].addr = r[l].addr => k = l
    <3> TAKE k, l \in 0..((n - 1) - 1)
    <3> HAVE r[k].addr = r[l].addr
    <3> DEFINE a == IF k < i THEN k ELSE k + 1
               b == IF l < i THEN l ELSE l + 1
    <3>1. a \in 0..(n - 1) /\ b \in 0..(n - 1) /\ k \in 0..(n - 2) /\ l \in 0..(n - 2)
      BY <1>1
    <3>2. t[a].addr = t[b].addr
      BY <1>14, <3>1
    <3>3. a = b
      BY <3>1, <3>2 DEF SlotsOf
    <3> QED
      BY <1>1, <3>3
  <2>5. /\ n - 1 \in Nat /\ half \in Nat /\ n - 1 <= half
        /\ half = 0 \/ half < 2 * (n - 1)
        /\ DOMAIN r = 0..(half - 1)
    BY <1>1, <1>11, <1>12
  <2> QED
    BY <2>1, <2>2, <2>3, <2>4, <2>5 DEF SlotsOf
<1>17. WithoutSlot(r, t, n, i)
  <2>1. ASSUME NEW k \in 0..(n - 1), k # i
        PROVE  \E m \in 0..(n - 2) : r[m] = t[k]
    <3> DEFINE m == IF k < i THEN k ELSE k - 1
    <3>1. m \in 0..(n - 2) /\ (IF m < i THEN m ELSE m + 1) = k
      BY <1>1, <2>1
    <3> QED
      BY <1>14, <3>1
  <2> QED
    BY <1>14, <2>1 DEF WithoutSlot
<1> QED
  BY <1>13, <1>16, <1>17 DEF r
\* The table when entry has been written behind its first n slots.
WithEntry(t, n, recycled, entry) == [Enlarged(t, n, recycled) EXCEPT ![n] = entry]

(***************************************************************************)
(* Doubling a full array, or closing holes that are not there, makes room  *)
(* behind the segments and leaves them where they are.                     *)
(***************************************************************************)
LEMMA EnlargedSlots ==
  ASSUME CleanSegments,
         NEW t, NEW n, NEW size, SlotsOf(t, n, size),
         NEW recycled \in RecycledMemory(t, n),
         NEW entry \in [addr : Address, owner : Pid, size : Nat],
         \A i \in 0..(n - 1) : t[i].addr # entry.addr
  PROVE  LET e == WithEntry(t, n, recycled, entry)
         IN  /\ SlotsOf(e, n + 1, Cardinality(DOMAIN e))
             /\ e[n] = entry /\ \A i \in 0..(n - 1) : e[i] = t[i]
<1> DEFINE e == WithEntry(t, n, recycled, entry)
           used == {k \in DOMAIN t : t[k].addr # 0}
           c == Compact(t, used, NoSegment)
           large == Enlarged(t, n, recycled)
           doubled == IF size = 0 THEN 1 ELSE 2 * size
           new == IF n >= size THEN doubled ELSE size
<1>1. /\ n \in Nat /\ size \in Nat
      /\ n <= size /\ (size = 0 \/ size < 2 * n)
      /\ DOMAIN t = 0..(size - 1)
      /\ Cardinality(DOMAIN t) = size
  BY SlotCount DEF SlotsOf
<1>2. new \in Nat /\ n + 1 <= new /\ new < 2 * (n + 1) /\ size <= new
  BY <1>1
<1>3. /\ DOMAIN large = 0..(new - 1)
      /\ \A i \in 0..(n - 1) : large[i] = t[i]
      /\ \A i \in n..(new - 1) :
           large[i] = NoSegment \/ large[i] \in Recycled \/ \E j \in n..(size - 1) : large[i] = t[j]
  <2>1. CASE n >= size
    <3> DEFINE last == IF size = 0 THEN 0 ELSE 2 * size - 1
    <3>1. /\ large = [i \in 0..last |-> IF i < size THEN t[i] ELSE recycled[i]]
          /\ recycled \in [size..last -> Recycled]
      BY <1>1, <2>1 DEF Enlarged, RecycledMemory
    <3>2. last \in Int /\ last = new - 1 /\ n = size
      BY <1>1, <2>1
    <3> HIDE DEF large, last, new
    <3>3. /\ DOMAIN large = 0..(new - 1)
          /\ \A i \in 0..(new - 1) : large[i] = IF i < size THEN t[i] ELSE recycled[i]
          /\ \A i \in size..(new - 1) : recycled[i] \in Recycled
      BY <3>1, <3>2
    <3> QED
      BY <1>1, <1>2, <3>2, <3>3
  <2>2. CASE n < size
    <3>1. large = c /\ new = size
      BY <1>1, <2>2 DEF Enlarged, shmTabDefrag
    <3>2. used \subseteq 0..(size - 1) /\ 0..(n - 1) \subseteq used
      <4>1. \A k \in 0..(n - 1) : k \in 0..(size - 1) /\ t[k].addr # 0
        BY <1>1, IpcAssumption DEF SlotsOf
      <4> QED
        BY <1>1, <4>1
    <3>3. n \in 0..size
      BY <1>1
    <3> HIDE DEF used
    <3>4. PrefixKept(c, t, used, n, size, NoSegment)
      BY <1>1, <3>2, <3>3, CompactWithoutHole
    <3> QED
      BY <3>1, <3>4 DEF PrefixKept
  <2>3. n >= size \/ n < size
    BY <1>1
  <2> HIDE DEF large, new
  <2> QED
    BY <2>1, <2>2, <2>3
<1> HIDE DEF large, new
<1>4. n \in 0..(new - 1)
  BY <1>1, <1>2
<1>5. /\ DOMAIN e = 0..(new - 1)
      /\ e[n] = entry
      /\ \A i \in 0..(new - 1) : i # n => e[i] = large[i]
  BY <1>3, <1>4 DEF large, WithEntry
<1> HIDE DEF e
<1>6. \A i \in 0..(n - 1) : e[i] = t[i]
  BY <1>1, <1>2, <1>3, <1>5
<1>7. \A i \in (n + 1)..(new - 1) :
           e[i] = NoSegment \/ e[i] \in Recycled \/ \E j \in n..(size - 1) : e[i] = t[j]
  BY <1>1, <1>2, <1>3, <1>5
<1>8. Cardinality(DOMAIN e) = new
  BY <1>2, <1>5, SlotCount
<1>9. \A i \in 0..(size - 1) : t[i] \in [addr : Nat, owner : Int, size : Nat]
  BY DEF SlotsOf
<1>10. \A i \in 0..(new - 1) : e[i] \in [addr : Nat, owner : Int, size : Nat]
  <2> TAKE i \in 0..(new - 1)
  <2>1. entry \in [addr : Nat, owner : Int, size : Nat]
    <3>1. Address \subseteq Nat /\ Pid \subseteq Int
      BY IpcAssumption, PidsAreNumbers
    <3> QED
      BY <3>1
  <2>2. NoSegment \in [addr : Nat, owner : Int, size : Nat]
    BY DEF NoSegment
  <2>3. CASE i \in 0..(n - 1)
    <3>1. i \in 0..(size - 1)
      BY <1>1, <2>3
    <3> QED
      BY <1>6, <1>9, <2>3, <3>1
  <2>4. CASE i = n
    BY <1>5, <2>1, <2>4
  <2>5. CASE i \in (n + 1)..(new - 1)
    <3>1. \A j \in n..(size - 1) : j \in 0..(size - 1)
      BY <1>1
    <3>2. \A r \in Recycled : r \in [addr : Nat, owner : Int, size : Nat]
      BY ShmAssumption
    <3> QED
      BY <1>7, <1>9, <2>2, <2>5, <3>1, <3>2
  <2> QED
    BY <1>1, <1>2, <2>3, <2>4, <2>5
<1>11. \A i \in 0..((n + 1) - 1) : e[i].addr \in Address /\ e[i].owner \in Pid
  <2>1. \A i \in 0..((n + 1) - 1) : i = n \/ i \in 0..(n - 1)
    BY <1>1
  <2>2. \A i \in 0..(n - 1) : t[i].addr \in Address /\ t[i].owner \in Pid
    BY DEF SlotsOf
  <2> QED
    BY <1>5, <1>6, <2>1, <2>2
<1>12. \A i \in (n + 1)..(new - 1) : Unused(e[i])
  <2>1. \A j \in n..(size - 1) : Unused(t[j])
    BY DEF SlotsOf
  <2> QED
    BY <1>7, <2>1, NoSegmentIsUnused DEF CleanSegments, Unused
<1>13. \A i, j \in 0..((n + 1) - 1) : e[i].addr = e[j].addr => i = j
  <2>1. \A i \in 0..((n + 1) - 1) : i = n \/ i \in 0..(n - 1)
    BY <1>1
  <2>2. \A i, j \in 0..(n - 1) : t[i].addr = t[j].addr => i = j
    BY DEF SlotsOf
  <2> QED
    BY <1>5, <1>6, <2>1, <2>2
<1>14. /\ n + 1 \in Nat /\ new \in Nat /\ n + 1 <= new
       /\ new = 0 \/ new < 2 * (n + 1)
  BY <1>1, <1>2
<1>15. SlotsOf(e, n + 1, new)
  BY <1>5, <1>10, <1>11, <1>12, <1>13, <1>14 DEF SlotsOf
<1> QED
  BY <1>5, <1>6, <1>8, <1>15 DEF e

(***************************************************************************)
(* A search by address finds a slot that holds it.  It is a segment if its *)
(* owner is a process.                                                     *)
(***************************************************************************)
LEMMA FoundSegment ==
  ASSUME ShmInv, NEW addr,
         shmTabContains(addr) > -1
  PROVE  LET i == shmTabContains(addr)
         IN  /\ i \in 0..(shmTabSize - 1)
             /\ shmTable[i].addr = addr
             /\ shmTable[i].owner \in Pid => i \in Segments
<1> DEFINE found == {i \in DOMAIN shmTable : shmTable[i].addr = addr}
           i == shmTabContains(addr)
<1>1. /\ shmTabEntries \in Nat /\ shmTabSize \in Nat /\ shmTabEntries <= shmTabSize
      /\ DOMAIN shmTable = 0..(shmTabSize - 1)
      /\ \A k \in shmTabEntries..(shmTabSize - 1) : Unused(shmTable[k])
  BY DEF ShmInv, SlotsOf
<1>2. found # {} /\ i = LeastOf(found)
  BY DEF shmTabContains
<1>3. found \subseteq Nat
  BY <1>1
<1>4. i \in found
  BY <1>2, <1>3, LeastOfIsLeast
<1> HIDE DEF i
<1>5. i \in 0..(shmTabSize - 1) /\ shmTable[i].addr = addr
  BY <1>1, <1>4
<1>6. i \in Segments \/ Unused(shmTable[i])
  BY <1>1, <1>5 DEF Segments
<1> QED
  BY <1>5, <1>6 DEF Unused, i

(***************************************************************************)
(* The segments are in front of the slots that are in no use, so that a    *)
(* search for the address of one finds it, whatever is behind them.        *)
(***************************************************************************)
LEMMA FoundAllocated ==
  ASSUME ShmInv, NEW addr \in DOMAIN heap
  PROVE  LET i == shmTabContains(addr)
         IN  i > -1 /\ shmTable[i].size = heap[addr]
<1> DEFINE found == {i \in DOMAIN shmTable : shmTable[i].addr = addr}
<1>1. /\ shmTabEntries \in Nat /\ shmTabSize \in Nat /\ shmTabEntries <= shmTabSize
      /\ DOMAIN shmTable = 0..(shmTabSize - 1)
      /\ \A i, j \in 0..(shmTabEntries - 1) : shmTable[i].addr = shmTable[j].addr => i = j
  BY DEF ShmInv, SlotsOf
<1>2. PICK k \in 0..(shmTabEntries - 1) : shmTable[k].addr = addr
  BY DEF ShmInv, HeapOf
<1>3. heap[addr] = shmTable[k].size
  BY <1>2 DEF ShmInv, HeapOf
<1>4. k \in found /\ found \subseteq Nat
  BY <1>1, <1>2
<1>5. /\ shmTabContains(addr) = LeastOf(found)
      /\ LeastOf(found) \in found /\ LeastOf(found) <= k
  BY <1>4, LeastOfIsLeast DEF shmTabContains
<1> DEFINE i == LeastOf(found)
<1>6. i \in Nat /\ i \in 0..(shmTabEntries - 1) /\ shmTable[i].addr = addr
  BY <1>1, <1>4, <1>5
<1> HIDE DEF found, i
<1>7. i = k
  BY <1>1, <1>2, <1>6
<1> QED
  BY <1>3, <1>5, <1>6, <1>7 DEF i
-----------------------------------------------------------------------------
(* Segments: the calls                                                     *)

LEMMA StartSegments ==
  ASSUME ShmInv, NEW p \in Process, Start(p)
  PROVE  ShmInv' /\ Held \subseteq Held'
<1>1. PidsGiven'
  BY PidsStart DEF ShmInv, Start
<1> QED
  BY <1>1 DEF Start, ShmInv, SlotsOf, HeapOf, Held, Segments, Unused

LEMMA InitSegments ==
  ASSUME CleanSegments, ShmInv, NEW p \in Process, NEW size \in Size,
         ShmInit(p, size)
  PROVE  ShmInv' /\ Held \subseteq Held'
<1> DEFINE n == shmTabEntries
           pid == running[p]
<1>1. PICK addr \in Address \ DOMAIN heap :
        /\ \E recycled \in RecycledMemory(shmTable, n) :
             SetTable([Enlarged(shmTable, n, recycled)
                         EXCEPT ![n] = [addr |-> addr, owner |-> pid, size |-> size]],
                      n + 1)
        /\ heap' = [a \in DOMAIN heap \cup {addr} |-> IF a = addr THEN size ELSE heap[a]]
  BY DEF ShmInit
<1> DEFINE entry == [addr |-> addr, owner |-> pid, size |-> size]
<1>2. entry \in [addr : Address, owner : Pid, size : Nat]
  <2>1. pid \in Pid
    BY DEF ShmInit, ShmInv, PidsGiven
  <2> QED
    BY <2>1, ShmAssumption
<1>3. entry.addr = addr /\ entry.size = size
  OBVIOUS
<1> HIDE DEF entry
<1>4. PICK recycled \in RecycledMemory(shmTable, n) :
        SetTable([Enlarged(shmTable, n, recycled) EXCEPT ![n] = entry], n + 1)
  BY <1>1 DEF entry
<1>5. /\ shmTable' = WithEntry(shmTable, n, recycled, entry)
      /\ shmTabSize' = Cardinality(DOMAIN shmTable')
      /\ shmTabEntries' = n + 1
  BY <1>4 DEF SetTable, WithEntry
<1>6. SlotsOf(shmTable, n, shmTabSize) /\ HeapOf(shmTable, n, heap) /\ PidsGiven
  BY DEF ShmInv
<1>7. \A i \in 0..(n - 1) : shmTable[i].addr # entry.addr
  BY <1>3, <1>6 DEF HeapOf
<1> HIDE DEF n
<1>8. /\ SlotsOf(shmTable', n + 1, Cardinality(DOMAIN shmTable'))
      /\ shmTable'[n] = entry
      /\ \A i \in 0..(n - 1) : shmTable'[i] = shmTable[i]
  BY <1>2, <1>4, <1>5, <1>6, <1>7, EnlargedSlots
<1>9. n \in Nat
  BY <1>6 DEF SlotsOf
<1>10. HeapOf(shmTable', n + 1, heap')
  <2>1. /\ DOMAIN heap' = DOMAIN heap \cup {addr}
        /\ heap'[addr] = size
        /\ \A a \in DOMAIN heap : heap'[a] = heap[a]
    BY <1>1
  <2>2. \A i \in 0..((n + 1) - 1) : i = n \/ i \in 0..(n - 1)
    BY <1>9
  <2>3. n \in 0..((n + 1) - 1) /\ \A i \in 0..(n - 1) : i \in 0..((n + 1) - 1)
    BY <1>9
  <2>4. \A i \in 0..(n - 1) : shmTable[i].addr \in DOMAIN heap /\ heap[shmTable[i].addr] = shmTable[i].size
    BY <1>6 DEF HeapOf
  <2>5. \A a \in DOMAIN heap : \E i \in 0..(n - 1) : shmTable[i].addr = a
    BY <1>6 DEF HeapOf
  <2>6. \A i \in 0..((n + 1) - 1) :
          shmTable'[i].addr \in DOMAIN heap' /\ heap'[shmTable'[i].addr] = shmTable'[i].size
    BY <1>3, <1>8, <2>1, <2>2, <2>4
  <2>7. \A a \in DOMAIN heap' : \E i \in 0..((n + 1) - 1) : shmTable'[i].addr = a
    BY <1>3, <1>8, <2>1, <2>3, <2>5
  <2> QED
    BY <2>6, <2>7 DEF HeapOf
<1>11. Held \subseteq Held'
  <2>1. \A i \in 0..(n - 1) : i \in 0..((n + 1) - 1)
    BY <1>9
  <2>2. Held = {shmTable[i] : i \in 0..(n - 1)} /\ Held' = {shmTable'[i] : i \in 0..((n + 1) - 1)}
    BY <1>5 DEF Held, Segments, n
  <2> QED
    BY <1>8, <2>1, <2>2
<1> QED
  BY <1>5, <1>6, <1>8, <1>10, <1>11 DEF ShmInit, ShmInv, PidsGiven

(***************************************************************************)
(* What is left in the heap is what the segments left in the table hold.   *)
(***************************************************************************)
LEMMA RemovedHeap ==
  ASSUME NEW t, NEW n, NEW size, SlotsOf(t, n, size),
         NEW i \in 0..(n - 1), NEW t2, WithoutSlot(t2, t, n, i),
         NEW h, HeapOf(t, n, h),
         NEW h2, DOMAIN h2 = DOMAIN h \ {t[i].addr}, \A a \in DOMAIN h2 : h2[a] = h[a]
  PROVE  HeapOf(t2, n - 1, h2)
<1>1. n \in Nat /\ i \in 0..(n - 1) /\ (n - 1) - 1 = n - 2
  BY DEF SlotsOf
<1>2. \A k \in 0..(n - 2) : t2[k] = t[IF k < i THEN k ELSE k + 1]
  BY DEF WithoutSlot
<1>3. \A k, l \in 0..(n - 1) : t[k].addr = t[l].addr => k = l
  BY DEF SlotsOf
<1>4. \A k \in 0..(n - 1) : t[k].addr \in DOMAIN h /\ h[t[k].addr] = t[k].size
  BY DEF HeapOf
<1>5. \A k \in 0..((n - 1) - 1) : t2[k].addr \in DOMAIN h2 /\ h2[t2[k].addr] = t2[k].size
  <2> TAKE k \in 0..((n - 1) - 1)
  <2> DEFINE s == IF k < i THEN k ELSE k + 1
  <2>1. k \in 0..(n - 2) /\ s \in 0..(n - 1) /\ s # i
    BY <1>1
  <2>2. t2[k] = t[s]
    BY <1>2, <2>1
  <2> HIDE DEF s
  <2>3. t[s].addr # t[i].addr
    BY <1>1, <1>3, <2>1
  <2> QED
    BY <1>4, <2>1, <2>2, <2>3
<1>6. ASSUME NEW a \in DOMAIN h2
      PROVE  \E k \in 0..((n - 1) - 1) : t2[k].addr = a
  <2>1. a \in DOMAIN h /\ a # t[i].addr
    OBVIOUS
  <2>2. PICK k \in 0..(n - 1) : t[k].addr = a
    BY <2>1 DEF HeapOf
  <2>3. \E m \in 0..(n - 2) : t2[m] = t[k]
    BY <2>1, <2>2 DEF WithoutSlot
  <2> QED
    BY <1>1, <2>2, <2>3
<1> QED
  BY <1>5, <1>6 DEF HeapOf

LEMMA DestroySegment ==
  ASSUME ShmInv, NEW p \in Process, NEW addr, ShmDestroy(p, addr)
  PROVE  ShmInv' /\ \A s \in Held \ Held' : s.owner = running[p] /\ s.addr = addr
<1> DEFINE i == shmTabContains(addr)
           n == shmTabEntries
           pid == running[p]
           t2 == Removed(shmTable, n, i)
<1>1. /\ i > -1 /\ shmTable[i].owner = pid
      /\ shmTable' = t2 /\ shmTabSize' = Cardinality(DOMAIN t2) /\ shmTabEntries' = n - 1
      /\ heap' = Freed({addr})
      /\ running' = running
  BY DEF ShmDestroy, SetTable
<1>2. i \in 0..(n - 1) /\ shmTable[i].addr = addr
  <2>1. pid \in Pid
    BY DEF ShmDestroy, ShmInv, PidsGiven
  <2> QED
    BY <1>1, <2>1, FoundSegment DEF Segments
<1> HIDE DEF i, t2
<1>3. SlotsOf(shmTable, n, shmTabSize) /\ HeapOf(shmTable, n, heap)
  BY DEF ShmInv
<1> HIDE DEF n
<1>4. SlotsOf(t2, n - 1, Cardinality(DOMAIN t2)) /\ WithoutSlot(t2, shmTable, n, i)
  BY <1>2, <1>3, RemovedSlots DEF t2
<1>5. DOMAIN heap' = DOMAIN heap \ {shmTable[i].addr} /\ \A a \in DOMAIN heap' : heap'[a] = heap[a]
  BY <1>1, <1>2 DEF Freed
<1>6. HeapOf(t2, n - 1, heap')
  BY <1>2, <1>3, <1>4, <1>5, RemovedHeap
<1>7. ShmInv'
  BY <1>1, <1>4, <1>6 DEF ShmInv, PidsGiven
<1>8. ASSUME NEW k \in 0..(n - 1), k # i
      PROVE  shmTable[k] \in Held'
  <2>1. PICK m \in 0..(n - 2) : t2[m] = shmTable[k]
    BY <1>4, <1>8 DEF WithoutSlot
  <2>2. m \in Segments' /\ shmTable'[m] = shmTable[k]
    <3>1. n \in Nat
      BY <1>3 DEF SlotsOf
    <3> QED
      BY <1>1, <2>1, <3>1 DEF Segments
  <2> QED
    BY <2>2 DEF Held
<1>9. \A s \in Held \ Held' : s = shmTable[i]
  BY <1>8 DEF Held, Segments, n
<1> QED
  BY <1>1, <1>2, <1>7, <1>9

\* What a turn of shmTabRemove's loop for pid leaves: a table of segments that
\* are what has not been freed, among them all of the others.
Swept(pid, state) ==
  /\ SlotsOf(state.table, state.entries, Cardinality(DOMAIN state.table))
  /\ HeapOf(state.table, state.entries, Freed(state.freed))
  /\ \A i \in Segments : shmTable[i].owner # pid =>
       \E m \in 0..(state.entries - 1) : state.table[m] = shmTable[i]

LEMMA SweepTurn ==
  ASSUME NEW pid \in Pid, NEW i, NEW state, Swept(pid, state)
  PROVE  Swept(pid, RemoveStep(pid, i, state))
<1> DEFINE t == state.table
           n == state.entries
           size == Cardinality(DOMAIN t)
           t2 == Removed(t, n, i)
           freed == state.freed \cup {t[i].addr}
<1>1. CASE i \in DOMAIN t /\ t[i].owner = pid
  <2> DEFINE next == [table |-> t2, entries |-> n - 1, freed |-> freed]
  <2>1. RemoveStep(pid, i, state) = next
    BY <1>1 DEF RemoveStep
  <2>2. next.table = t2 /\ next.entries = n - 1 /\ next.freed = freed
    OBVIOUS
  <2> HIDE DEF next
  <2>3. SlotsOf(t, n, size) /\ HeapOf(t, n, Freed(state.freed))
    BY DEF Swept
  <2>4. i \in 0..(n - 1)
    <3>1. \A k \in n..(size - 1) : t[k].owner # pid
      BY <2>3 DEF SlotsOf, Unused
    <3>2. n \in Nat /\ size \in Nat /\ n <= size /\ i \in 0..(size - 1)
      BY <1>1, <2>3 DEF SlotsOf
    <3> QED
      BY <1>1, <3>1, <3>2
  <2> HIDE DEF t, n, size
  <2>5. SlotsOf(t2, n - 1, Cardinality(DOMAIN t2)) /\ WithoutSlot(t2, t, n, i)
    BY <2>3, <2>4, RemovedSlots
  <2> HIDE DEF t2
  <2>6. /\ DOMAIN Freed(freed) = DOMAIN Freed(state.freed) \ {t[i].addr}
        /\ \A a \in DOMAIN Freed(freed) : Freed(freed)[a] = Freed(state.freed)[a]
    BY DEF Freed
  <2>7. HeapOf(t2, n - 1, Freed(freed))
    BY <2>3, <2>4, <2>5, <2>6, RemovedHeap
  <2>8. ASSUME NEW j \in Segments, shmTable[j].owner # pid
        PROVE  \E m \in 0..((n - 1) - 1) : t2[m] = shmTable[j]
    <3>1. PICK k \in 0..(n - 1) : t[k] = shmTable[j]
      BY <2>8 DEF Swept, t, n
    <3>2. k # i
      BY <1>1, <2>8, <3>1
    <3>3. \E m \in 0..(n - 2) : t2[m] = t[k]
      BY <2>5, <3>2 DEF WithoutSlot
    <3>4. (n - 1) - 1 = n - 2
      BY <2>3 DEF SlotsOf
    <3> QED
      BY <3>1, <3>3, <3>4
  <2> QED
    BY <2>1, <2>2, <2>5, <2>7, <2>8 DEF Swept
<1>2. CASE ~ (i \in DOMAIN t /\ t[i].owner = pid)
  <2>1. RemoveStep(pid, i, state) = state
    BY <1>2 DEF RemoveStep
  <2> QED
    BY <2>1
<1> QED
  BY <1>1, <1>2

\* The states of the loop of shmTabRemove(pid) up to its turn m.
Sweeping(f, pid, m) ==
  f = [k \in 0..m |->
         IF k = 0
         THEN [table |-> shmTable, entries |-> shmTabEntries, freed |-> {}]
         ELSE RemoveStep(pid, k - 1, f[k - 1])]

LEMMA SweepingExists ==
  ASSUME NEW n \in Nat, NEW pid
  PROVE  \E f : Sweeping(f, pid, n)
<1> DEFINE start == [table |-> shmTable, entries |-> shmTabEntries, freed |-> {}]
           reached == {m \in Nat : \E f : Sweeping(f, pid, m)}
<1> SUFFICES \A k \in 0..n : k \in reached
  OBVIOUS
<1>1. 0 \in reached
  <2>1. Sweeping([k \in 0..0 |-> start], pid, 0)
    BY DEF Sweeping
  <2> QED
    BY <2>1
<1>2. ASSUME NEW m \in 0..(n - 1), m \in reached
      PROVE  m + 1 \in reached
  <2>1. PICK f : Sweeping(f, pid, m)
    BY <1>2
  <2> DEFINE g == [k \in 0..(m + 1) |-> IF k = m + 1 THEN RemoveStep(pid, m, f[m]) ELSE f[k]]
  <2>2. m \in Nat /\ m + 1 \in Nat /\ (m + 1) - 1 = m
    OBVIOUS
  <2>3. \A k \in 0..m : f[k] = IF k = 0 THEN start ELSE RemoveStep(pid, k - 1, f[k - 1])
    BY <2>1 DEF Sweeping
  <2> HIDE DEF start
  <2>4. \A k \in 0..(m + 1) : g[k] = IF k = 0 THEN start ELSE RemoveStep(pid, k - 1, g[k - 1])
    <3> TAKE k \in 0..(m + 1)
    <3>1. CASE k = m + 1
      <4>1. g[k] = RemoveStep(pid, m, f[m]) /\ g[m] = f[m] /\ k # 0 /\ k - 1 = m
        BY <2>2, <3>1
      <4> QED
        BY <4>1
    <3>2. CASE k \in 0..m
      <4>1. g[k] = f[k] /\ (k # 0 => k - 1 \in 0..m /\ g[k - 1] = f[k - 1])
        BY <2>2, <3>2
      <4> QED
        BY <2>3, <3>2, <4>1
    <3> QED
      BY <2>2, <3>1, <3>2
  <2>5. g = [k \in 0..(m + 1) |-> IF k = 0 THEN start ELSE RemoveStep(pid, k - 1, g[k - 1])]
    BY <2>4
  <2>6. Sweeping(g, pid, m + 1)
    BY <2>5 DEF Sweeping, start
  <2> QED
    BY <2>2, <2>6
<1> HIDE DEF reached
<1> QED
  BY <1>1, <1>2, TurnByTurn

(***************************************************************************)
(* So does the whole loop, although the array is halved under it.          *)
(***************************************************************************)
LEMMA Sweep ==
  ASSUME ShmInv, NEW pid \in Pid
  PROVE  Swept(pid, shmTabRemove(pid))
<1> DEFINE f == CHOOSE f : Sweeping(f, pid, shmTabSize)
           start == [table |-> shmTable, entries |-> shmTabEntries, freed |-> {}]
           good == {k \in 0..shmTabSize : Swept(pid, f[k])}
<1>1. shmTabSize \in Nat /\ Cardinality(DOMAIN shmTable) = shmTabSize
  BY SlotCount DEF ShmInv, SlotsOf
<1>2. shmTabRemove(pid) = f[shmTabSize]
  BY DEF shmTabRemove, Sweeping
<1>3. Sweeping(f, pid, shmTabSize)
  BY <1>1, SweepingExists
<1> HIDE DEF f
<1>4. \A k \in 0..shmTabSize : f[k] = IF k = 0 THEN start ELSE RemoveStep(pid, k - 1, f[k - 1])
  BY <1>3 DEF Sweeping
<1>5. 0 \in good
  <2>1. f[0] = start /\ start.table = shmTable /\ start.entries = shmTabEntries /\ start.freed = {}
    BY <1>1, <1>4
  <2> HIDE DEF start
  <2>2. HeapOf(shmTable, shmTabEntries, Freed({}))
    <3>1. DOMAIN Freed({}) = DOMAIN heap /\ \A a \in DOMAIN heap : Freed({})[a] = heap[a]
      BY DEF Freed
    <3> QED
      BY <3>1 DEF ShmInv, HeapOf
  <2>3. Swept(pid, start)
    BY <1>1, <2>1, <2>2 DEF Swept, ShmInv, Segments
  <2> QED
    BY <1>1, <2>1, <2>3
<1>6. ASSUME NEW k \in 0..(shmTabSize - 1), k \in good
      PROVE  k + 1 \in good
  <2>1. k + 1 \in 0..shmTabSize /\ k + 1 # 0 /\ (k + 1) - 1 = k
    BY <1>1
  <2>2. f[k + 1] = RemoveStep(pid, k, f[k])
    BY <1>4, <2>1
  <2>3. Swept(pid, f[k])
    BY <1>6
  <2>4. Swept(pid, f[k + 1])
    BY <2>2, <2>3, SweepTurn
  <2> QED
    BY <2>1, <2>4
<1> HIDE DEF good
<1>7. shmTabSize \in good
  BY <1>1, <1>5, <1>6, TurnByTurn
<1> QED
  BY <1>2, <1>7 DEF good

LEMMA ExitSegments ==
  ASSUME ShmInv, NEW p \in Process, ShmExit(p)
  PROVE  ShmInv' /\ \A s \in Held \ Held' : s.owner = running[p]
<1> DEFINE pid == running[p]
           end == shmTabRemove(pid)
<1>1. /\ shmTable' = end.table
      /\ shmTabSize' = Cardinality(DOMAIN end.table)
      /\ shmTabEntries' = end.entries
      /\ heap' = Freed(end.freed)
  BY DEF ShmExit, SetTable
<1>2. pid \in Pid
  BY DEF ShmExit, ShmInv, PidsGiven
<1> HIDE DEF pid
<1>3. Swept(pid, end)
  BY <1>2, Sweep
<1> HIDE DEF end
<1>4. PidsGiven'
  BY PidsExit DEF ShmExit, ShmInv
<1>5. ShmInv'
  BY <1>1, <1>3, <1>4 DEF Swept, ShmInv
<1>6. ASSUME NEW i \in Segments, shmTable[i].owner # pid
      PROVE  shmTable[i] \in Held'
  <2>1. PICK m \in 0..(end.entries - 1) : end.table[m] = shmTable[i]
    BY <1>6, <1>3 DEF Swept
  <2> QED
    BY <1>1, <2>1 DEF Held, Segments
<1> QED
  BY <1>5, <1>6 DEF Held, pid

-----------------------------------------------------------------------------
(* Segments: the invariant is one                                          *)

SegmentStep ==
  \E p \in Process :
    \/ Start(p)
    \/ \E size \in Size : ShmInit(p, size)
    \/ \E addr \in Address \cup {0} : ShmDestroy(p, addr)
    \/ ShmExit(p)

\* What a step does about the segments is one of the calls on them, or nothing.
LEMMA SegmentSteps ==
  ASSUME IpcNext
  PROVE  SegmentStep \/ UNCHANGED vars
BY DEF IpcNext, SegmentStep, SegmentCall, SemaphoreCall, Leave, vars,
       sem_init, sem_post, sem_wait, sem_destroy

\* What OnlyOwnersFree says of a step.
FreedByOwner ==
  \A s \in Held \ Held' : \E p \in DOMAIN running :
    running[p] = s.owner /\ (ShmDestroy(p, s.addr) \/ ShmExit(p))

LEMMA SegmentsKept ==
  ASSUME CleanSegments, ShmInv, [IpcNext]_ipcVars
  PROVE  ShmInv' /\ [FreedByOwner]_vars
<1>1. CASE UNCHANGED vars
  BY <1>1 DEF vars, ShmInv, SlotsOf, HeapOf, Unused, PidsGiven
<1>2. CASE SegmentStep
  <2>1. PICK p \in Process :
          \/ Start(p)
          \/ \E size \in Size : ShmInit(p, size)
          \/ \E addr \in Address \cup {0} : ShmDestroy(p, addr)
          \/ ShmExit(p)
    BY <1>2 DEF SegmentStep
  <2>2. CASE Start(p)
    BY <2>2, StartSegments DEF FreedByOwner
  <2>3. CASE \E size \in Size : ShmInit(p, size)
    BY <2>3, InitSegments DEF FreedByOwner
  <2>4. CASE \E addr \in Address \cup {0} : ShmDestroy(p, addr)
    <3>1. PICK addr \in Address \cup {0} : ShmDestroy(p, addr)
      BY <2>4
    <3>2. p \in DOMAIN running
      BY <3>1 DEF ShmDestroy
    <3>3. ShmInv' /\ \A s \in Held \ Held' : s.owner = running[p] /\ s.addr = addr
      BY <3>1, DestroySegment
    <3> QED
      BY <3>1, <3>2, <3>3 DEF FreedByOwner
  <2>5. CASE ShmExit(p)
    <3>1. p \in DOMAIN running
      BY <2>5 DEF ShmExit
    <3>2. ShmInv' /\ \A s \in Held \ Held' : s.owner = running[p]
      BY <2>5, ExitSegments
    <3> QED
      BY <2>5, <3>1, <3>2 DEF FreedByOwner
  <2> QED
    BY <2>1, <2>2, <2>3, <2>4, <2>5
<1>3. CASE UNCHANGED ipcVars
  BY <1>1, <1>3 DEF ipcVars
<1> QED
  BY <1>1, <1>2, <1>3, SegmentSteps

LEMMA ShmInvariant ==
  ASSUME CleanSegments
  PROVE  IpcSpec => []ShmInv
<1>1. IpcInit => ShmInv
  <2> SUFFICES ASSUME Init
               PROVE  ShmInv
    BY DEF IpcInit
  <2>1. /\ DOMAIN shmTable = {} /\ DOMAIN heap = {} /\ shmTabSize = 0
        /\ shmTabEntries = 0
    BY DEF Init
  <2>2. 0..(0 - 1) = {}
    OBVIOUS
  <2>3. PidsGiven
    BY NoPidsAtStart
  <2> QED
    BY <2>1, <2>2, <2>3 DEF ShmInv, SlotsOf, HeapOf
<1>2. ShmInv /\ [IpcNext]_ipcVars => ShmInv'
  BY SegmentsKept
<1> QED
  BY <1>1, <1>2, PTL DEF IpcSpec

-----------------------------------------------------------------------------
(* Semaphores: the invariant                                               *)

\* t has this many slots, less than twice as many as the n entries that it is
\* said to have, and no fewer.  Whether it has these entries is not said.
EntriesOf(t, n, size) ==
  /\ n \in Nat /\ size \in Nat
  /\ n <= size /\ (size = 0 \/ size < 2 * n)
  /\ t \in [0..(size - 1) -> Entry]

SemInv ==
  /\ EntriesOf(semTable, semTabEntries, semTabSize)
  /\ PidsGiven
  /\ DOMAIN semValue \subseteq Address
  /\ \A sem \in DOMAIN semValue : semValue[sem] \in Int
  /\ waitsAt \in [Process -> {0} \cup DOMAIN semValue]
  /\ corrupted \in BOOLEAN

-----------------------------------------------------------------------------
(* Semaphores: what the operations do to the table's value                 *)

LEMMA NoEntryIsEntry == NoEntry \in Entry
BY DEF NoEntry, Entry

\* t2 has some of the entries of t, where they were, and no others.
Part(t2, t) ==
  /\ DOMAIN t2 \subseteq DOMAIN t
  /\ \A i \in DOMAIN t2 : t2[i] = t[i] \/ t2[i] = NoEntry

LEMMA PartOfPart ==
  ASSUME NEW t1, NEW t2, NEW t3, Part(t1, t2), Part(t2, t3)
  PROVE  Part(t1, t3)
BY DEF Part

(***************************************************************************)
(* Clearing a slot and halving the array by the count leave a part of the  *)
(* table, still with room for what the count says.                         *)
(***************************************************************************)
LEMMA ClearedEntries ==
  ASSUME NEW t, NEW n, NEW size, EntriesOf(t, n, size),
         NEW i \in DOMAIN t
  PROVE  LET t2 == SemCleared(t, n, i)
         IN  /\ EntriesOf(t2, n - 1, Cardinality(DOMAIN t2))
             /\ Part(t2, t)
             /\ i \in DOMAIN t2 => t2[i] = NoEntry
<1> DEFINE t0 == [t EXCEPT ![i] = NoEntry]
           t2 == SemCleared(t, n, i)
           half == IF n - 1 <= size \div 2 THEN size \div 2 ELSE size
<1>1. /\ n \in Nat /\ size \in Nat /\ n <= size /\ (size = 0 \/ size < 2 * n)
      /\ DOMAIN t = 0..(size - 1)
      /\ \A k \in 0..(size - 1) : t[k] \in Entry
  BY DEF EntriesOf
<1>2. i \in 0..(size - 1) /\ n >= 1
  BY <1>1
<1>3. /\ DOMAIN t0 = 0..(size - 1)
      /\ t0[i] = NoEntry /\ \A k \in 0..(size - 1) : k # i => t0[k] = t[k]
      /\ t0 = [k \in 0..(size - 1) |-> t0[k]]
  BY <1>1, <1>2
<1>4. t2 = SemShrunk(t0, n - 1)
  BY DEF SemCleared, semTabDefrag
<1> HIDE DEF t0, t2
<1>5. Cardinality(DOMAIN t0) = size
  BY <1>1, <1>3, SlotCount
<1>6. /\ half \in Nat /\ n - 1 <= half /\ half <= size
      /\ half = 0 \/ half < 2 * (n - 1)
  BY <1>1, <1>2
<1>7. t2 = [k \in 0..(half - 1) |-> t0[k]]
  <2>1. CASE n - 1 <= size \div 2
    <3>1. t2 = [k \in 0..(size \div 2 - 1) |-> t0[k]]
      BY <1>4, <1>5, <2>1 DEF SemShrunk
    <3> QED
      BY <2>1, <3>1
  <2>2. CASE ~ (n - 1 <= size \div 2)
    <3>1. t2 = t0 /\ half = size
      BY <1>4, <1>5, <2>2 DEF SemShrunk
    <3> HIDE DEF half
    <3> QED
      BY <1>3, <3>1
  <2> QED
    BY <2>1, <2>2
<1> HIDE DEF half
<1>8. /\ DOMAIN t2 = 0..(half - 1)
      /\ \A k \in 0..(half - 1) : t2[k] = t0[k] /\ k \in 0..(size - 1)
  BY <1>1, <1>6, <1>7
<1>9. Part(t2, t) /\ (i \in DOMAIN t2 => t2[i] = NoEntry)
  BY <1>1, <1>3, <1>8 DEF Part
<1>10. t2 \in [0..(half - 1) -> Entry]
  <2>1. \A k \in 0..(half - 1) : t0[k] \in Entry
    BY <1>1, <1>3, <1>8, NoEntryIsEntry
  <2> QED
    BY <1>7, <2>1
<1>11. Cardinality(DOMAIN t2) = half
  BY <1>6, <1>8, SlotCount
<1>12. EntriesOf(t2, n - 1, half)
  BY <1>1, <1>2, <1>6, <1>10 DEF EntriesOf
<1> QED
  BY <1>9, <1>11, <1>12 DEF t2

(***************************************************************************)
(* What is written behind as many slots as the count says is inside the    *)
(* array, and the array stays as small as it may be.                       *)
(***************************************************************************)
LEMMA AddedEntry ==
  ASSUME SemInv, NEW entry \in Entry, semTableAdd(entry)
  PROVE  EntriesOf(semTable', semTabEntries', semTabSize')
<1> DEFINE n == semTabEntries
           size == semTabSize
           new == GrownSize
           t2 == semTable'
<1>1. CASE semTabDuplicate(entry)
  BY <1>1 DEF semTableAdd, SemInv
<1>2. CASE ~ semTabDuplicate(entry)
  <2>1. PICK recycled \in [size..(new - 1) -> RecycledEntry] :
          SetSemTable([i \in 0..(new - 1) |->
                         IF i = n THEN entry
                         ELSE IF i < size THEN semTable[i]
                         ELSE recycled[i]],
                      n + 1)
    BY <1>2 DEF semTableAdd
  <2>2. /\ t2 = [i \in 0..(new - 1) |->
                   IF i = n THEN entry ELSE IF i < size THEN semTable[i] ELSE recycled[i]]
        /\ semTabSize' = Cardinality(DOMAIN t2)
        /\ semTabEntries' = n + 1
    BY <2>1 DEF SetSemTable
  <2>3. /\ n \in Nat /\ size \in Nat /\ n <= size /\ (size = 0 \/ size < 2 * n)
        /\ \A k \in 0..(size - 1) : semTable[k] \in Entry
    BY DEF SemInv, EntriesOf
  <2>4. /\ new \in Nat /\ n + 1 <= new /\ size <= new
        /\ new < 2 * (n + 1)
    BY <2>3 DEF GrownSize, MustGrow
  <2> HIDE DEF n, size, new, t2
  <2>5. \A i \in size..(new - 1) : recycled[i] \in Entry
    BY <2>1, SemAssumption
  <2>6. \A i \in 0..(new - 1) :
          (IF i = n THEN entry ELSE IF i < size THEN semTable[i] ELSE recycled[i]) \in Entry
    BY <2>3, <2>4, <2>5
  <2>7. t2 \in [0..(new - 1) -> Entry]
    BY <2>2, <2>6
  <2>8. Cardinality(DOMAIN t2) = new
    BY <2>2, <2>4, SlotCount
  <2>9. EntriesOf(t2, n + 1, new)
    BY <2>3, <2>4, <2>7 DEF EntriesOf
  <2> QED
    BY <2>2, <2>8, <2>9 DEF t2
<1> QED
  BY <1>1, <1>2

-----------------------------------------------------------------------------
(* Semaphores: the loops                                                   *)

\* The states of the loop of semTableNotify(sem) up to its turn m.
Notifying(f, sem, m) ==
  f = [k \in 0..m |->
         IF k = 0 THEN [table |-> semTable, entries |-> semTabEntries]
         ELSE NotifyStep(sem, f[k - 1])]

LEMMA NotifyingExists ==
  ASSUME NEW n \in Nat, NEW sem
  PROVE  \E f : Notifying(f, sem, n)
<1> DEFINE start == [table |-> semTable, entries |-> semTabEntries]
           reached == {m \in Nat : \E f : Notifying(f, sem, m)}
<1> SUFFICES \A k \in 0..n : k \in reached
  OBVIOUS
<1>1. 0 \in reached
  <2>1. Notifying([k \in 0..0 |-> start], sem, 0)
    BY DEF Notifying
  <2> QED
    BY <2>1
<1>2. ASSUME NEW m \in 0..(n - 1), m \in reached
      PROVE  m + 1 \in reached
  <2>1. PICK f : Notifying(f, sem, m)
    BY <1>2
  <2> DEFINE g == [k \in 0..(m + 1) |-> IF k = m + 1 THEN NotifyStep(sem, f[m]) ELSE f[k]]
  <2>2. m \in Nat /\ m + 1 \in Nat /\ (m + 1) - 1 = m
    OBVIOUS
  <2>3. \A k \in 0..m : f[k] = IF k = 0 THEN start ELSE NotifyStep(sem, f[k - 1])
    BY <2>1 DEF Notifying
  <2> HIDE DEF start
  <2>4. \A k \in 0..(m + 1) : g[k] = IF k = 0 THEN start ELSE NotifyStep(sem, g[k - 1])
    <3> TAKE k \in 0..(m + 1)
    <3>1. CASE k = m + 1
      <4>1. g[k] = NotifyStep(sem, f[m]) /\ g[m] = f[m] /\ k # 0 /\ k - 1 = m
        BY <2>2, <3>1
      <4> QED
        BY <4>1
    <3>2. CASE k \in 0..m
      <4>1. g[k] = f[k] /\ (k # 0 => k - 1 \in 0..m /\ g[k - 1] = f[k - 1])
        BY <2>2, <3>2
      <4> QED
        BY <2>3, <3>2, <4>1
    <3> QED
      BY <2>2, <3>1, <3>2
  <2>5. g = [k \in 0..(m + 1) |-> IF k = 0 THEN start ELSE NotifyStep(sem, g[k - 1])]
    BY <2>4
  <2>6. Notifying(g, sem, m + 1)
    BY <2>5 DEF Notifying, start
  <2> QED
    BY <2>2, <2>6
<1> HIDE DEF reached
<1> QED
  BY <1>1, <1>2, TurnByTurn

\* The states of the loop of semTableRemove(pid) up to its turn m.
Clearing(f, pid, m) ==
  f = [k \in 0..m |->
         IF k = 0 THEN [table |-> semTable, entries |-> semTabEntries, wild |-> FALSE]
         ELSE SemRemoveStep(pid, k - 1, f[k - 1])]

LEMMA ClearingExists ==
  ASSUME NEW n \in Nat, NEW pid
  PROVE  \E f : Clearing(f, pid, n)
<1> DEFINE start == [table |-> semTable, entries |-> semTabEntries, wild |-> FALSE]
           reached == {m \in Nat : \E f : Clearing(f, pid, m)}
<1> SUFFICES \A k \in 0..n : k \in reached
  OBVIOUS
<1>1. 0 \in reached
  <2>1. Clearing([k \in 0..0 |-> start], pid, 0)
    BY DEF Clearing
  <2> QED
    BY <2>1
<1>2. ASSUME NEW m \in 0..(n - 1), m \in reached
      PROVE  m + 1 \in reached
  <2>1. PICK f : Clearing(f, pid, m)
    BY <1>2
  <2> DEFINE g == [k \in 0..(m + 1) |-> IF k = m + 1 THEN SemRemoveStep(pid, m, f[m]) ELSE f[k]]
  <2>2. m \in Nat /\ m + 1 \in Nat /\ (m + 1) - 1 = m
    OBVIOUS
  <2>3. \A k \in 0..m : f[k] = IF k = 0 THEN start ELSE SemRemoveStep(pid, k - 1, f[k - 1])
    BY <2>1 DEF Clearing
  <2> HIDE DEF start
  <2>4. \A k \in 0..(m + 1) : g[k] = IF k = 0 THEN start ELSE SemRemoveStep(pid, k - 1, g[k - 1])
    <3> TAKE k \in 0..(m + 1)
    <3>1. CASE k = m + 1
      <4>1. g[k] = SemRemoveStep(pid, m, f[m]) /\ g[m] = f[m] /\ k # 0 /\ k - 1 = m
        BY <2>2, <3>1
      <4> QED
        BY <4>1
    <3>2. CASE k \in 0..m
      <4>1. g[k] = f[k] /\ (k # 0 => k - 1 \in 0..m /\ g[k - 1] = f[k - 1])
        BY <2>2, <3>2
      <4> QED
        BY <2>3, <3>2, <4>1
    <3> QED
      BY <2>2, <3>1, <3>2
  <2>5. g = [k \in 0..(m + 1) |-> IF k = 0 THEN start ELSE SemRemoveStep(pid, k - 1, g[k - 1])]
    BY <2>4
  <2>6. Clearing(g, pid, m + 1)
    BY <2>5 DEF Clearing, start
  <2> QED
    BY <2>2, <2>6
<1> HIDE DEF reached
<1> QED
  BY <1>1, <1>2, TurnByTurn

\* What a turn of either loop leaves: a part of the table with room for what
\* the count says.
PartLeft(state) ==
  /\ EntriesOf(state.table, state.entries, Cardinality(DOMAIN state.table))
  /\ Part(state.table, semTable)

LEMMA NotifyTurn ==
  ASSUME NEW sem, NEW state, PartLeft(state)
  PROVE  PartLeft(NotifyStep(sem, state))
<1> DEFINE t == state.table
           n == state.entries
           waiting == {i \in DOMAIN t : t[i].sem = sem /\ t[i].waitingPid # 0}
           i == semTabContains(t, sem)
           t2 == SemCleared(t, n, i)
           next == [table |-> t2, entries |-> n - 1]
<1>1. CASE i = -1
  BY <1>1 DEF NotifyStep
<1>2. CASE i # -1
  <2>1. NotifyStep(sem, state) = next /\ next.table = t2 /\ next.entries = n - 1
    BY <1>2 DEF NotifyStep
  <2> HIDE DEF next
  <2>2. EntriesOf(t, n, Cardinality(DOMAIN t)) /\ Part(t, semTable)
    BY DEF PartLeft
  <2>3. waiting # {} /\ i = LeastOf(waiting)
    BY <1>2 DEF semTabContains, FirstOf
  <2>4. waiting \subseteq Nat
    BY <2>2 DEF EntriesOf
  <2>5. i \in waiting
    BY <2>3, <2>4, LeastOfIsLeast
  <2> HIDE DEF i
  <2>6. i \in DOMAIN t
    BY <2>5
  <2> HIDE DEF t, n
  <2>7. EntriesOf(t2, n - 1, Cardinality(DOMAIN t2)) /\ Part(t2, t)
    BY <2>2, <2>6, ClearedEntries
  <2>8. Part(t2, semTable)
    BY <2>2, <2>7, PartOfPart
  <2> QED
    BY <2>1, <2>7, <2>8 DEF PartLeft
<1> QED
  BY <1>1, <1>2

LEMMA PartAtStart ==
  ASSUME SemInv
  PROVE  /\ semTabSize \in Nat
         /\ EntriesOf(semTable, semTabEntries, Cardinality(DOMAIN semTable))
         /\ Part(semTable, semTable)
BY SlotCount DEF SemInv, EntriesOf, Part

(***************************************************************************)
(* Whatever is notified, entries only go, and the count with them.         *)
(***************************************************************************)
LEMMA Notify ==
  ASSUME SemInv, NEW sem
  PROVE  PartLeft(Notified(sem))
<1> DEFINE f == CHOOSE f : Notifying(f, sem, semTabSize)
           start == [table |-> semTable, entries |-> semTabEntries]
           good == {k \in 0..semTabSize : PartLeft(f[k])}
<1>1. semTabSize \in Nat
  BY PartAtStart
<1>2. Notified(sem) = f[semTabSize]
  BY DEF Notified, Notifying
<1>3. Notifying(f, sem, semTabSize)
  BY <1>1, NotifyingExists
<1> HIDE DEF f
<1>4. \A k \in 0..semTabSize : f[k] = IF k = 0 THEN start ELSE NotifyStep(sem, f[k - 1])
  BY <1>3 DEF Notifying
<1>5. 0 \in good
  <2>1. f[0] = start /\ start.table = semTable /\ start.entries = semTabEntries
    BY <1>1, <1>4
  <2> HIDE DEF start
  <2>2. PartLeft(start)
    BY <2>1, PartAtStart DEF PartLeft
  <2> QED
    BY <1>1, <2>1, <2>2
<1>6. ASSUME NEW k \in 0..(semTabSize - 1), k \in good
      PROVE  k + 1 \in good
  <2>1. k + 1 \in 0..semTabSize /\ k + 1 # 0 /\ (k + 1) - 1 = k
    BY <1>1
  <2>2. f[k + 1] = NotifyStep(sem, f[k])
    BY <1>4, <2>1
  <2>3. PartLeft(f[k + 1])
    BY <1>6, <2>2, NotifyTurn
  <2> QED
    BY <2>1, <2>3
<1> HIDE DEF good
<1>7. semTabSize \in good
  BY <1>1, <1>5, <1>6, TurnByTurn
<1> QED
  BY <1>2, <1>7 DEF good

\* What a turn of semTableRemove(pid) leaves besides: none of pid's in the slots
\* before k.
Cleared(pid, k, state) ==
  /\ PartLeft(state)
  /\ \A i \in 0..(k - 1) : i \in DOMAIN state.table => ~ IsOf(state.table[i], pid)
  /\ state.wild \in BOOLEAN

LEMMA ClearTurn ==
  ASSUME NEW pid \in Pid, NEW k \in Nat, NEW state, Cleared(pid, k, state)
  PROVE  Cleared(pid, k + 1, SemRemoveStep(pid, k, state))
<1> DEFINE t == state.table
           n == state.entries
           t2 == SemCleared(t, n, k)
           wild == state.wild \/ (t[k].waitingPid = 0 /\ k \notin DOMAIN t2)
           next == [table |-> t2, entries |-> n - 1, wild |-> wild]
<1>1. ~ IsOf(NoEntry, pid)
  BY PidsAreNumbers DEF IsOf, NoEntry
<1>2. \A i \in 0..((k + 1) - 1) : i = k \/ i \in 0..(k - 1)
  OBVIOUS
<1>3. CASE k \in DOMAIN t /\ IsOf(t[k], pid)
  <2>1. /\ SemRemoveStep(pid, k, state) = next
        /\ next.table = t2 /\ next.entries = n - 1 /\ next.wild = wild
    BY <1>3 DEF SemRemoveStep
  <2>2. wild \in BOOLEAN
    BY DEF Cleared
  <2> HIDE DEF next, wild
  <2>3. EntriesOf(t, n, Cardinality(DOMAIN t)) /\ Part(t, semTable)
    BY DEF Cleared, PartLeft
  <2>4. \A i \in 0..(k - 1) : i \in DOMAIN t => ~ IsOf(t[i], pid)
    BY DEF Cleared
  <2>5. k \in DOMAIN t
    BY <1>3
  <2> HIDE DEF t, n
  <2>6. /\ EntriesOf(t2, n - 1, Cardinality(DOMAIN t2)) /\ Part(t2, t)
        /\ k \in DOMAIN t2 => t2[k] = NoEntry
    BY <2>3, <2>5, ClearedEntries
  <2> HIDE DEF t2
  <2>7. Part(t2, semTable)
    BY <2>3, <2>6, PartOfPart
  <2>8. \A i \in 0..((k + 1) - 1) : i \in DOMAIN t2 => ~ IsOf(t2[i], pid)
    BY <1>1, <1>2, <2>4, <2>6 DEF Part
  <2> QED
    BY <2>1, <2>2, <2>6, <2>7, <2>8 DEF Cleared, PartLeft
<1>4. CASE ~ (k \in DOMAIN t /\ IsOf(t[k], pid))
  <2>1. SemRemoveStep(pid, k, state) = state
    BY <1>4 DEF SemRemoveStep
  <2> QED
    BY <1>2, <1>4, <2>1 DEF Cleared
<1> QED
  BY <1>3, <1>4

(***************************************************************************)
(* When semTableRemove is done, nothing of pid is in the table, although   *)
(* its loop ends early when the array is halved.                           *)
(***************************************************************************)
LEMMA Clear ==
  ASSUME SemInv, NEW pid \in Pid
  PROVE  Cleared(pid, semTabSize, WithoutThoseOf(pid))
<1> DEFINE f == CHOOSE f : Clearing(f, pid, semTabSize)
           start == [table |-> semTable, entries |-> semTabEntries, wild |-> FALSE]
           good == {k \in 0..semTabSize : Cleared(pid, k, f[k])}
<1>1. semTabSize \in Nat
  BY PartAtStart
<1>2. WithoutThoseOf(pid) = f[semTabSize]
  BY DEF WithoutThoseOf, Clearing
<1>3. Clearing(f, pid, semTabSize)
  BY <1>1, ClearingExists
<1> HIDE DEF f
<1>4. \A k \in 0..semTabSize :
        f[k] = IF k = 0 THEN start ELSE SemRemoveStep(pid, k - 1, f[k - 1])
  BY <1>3 DEF Clearing
<1>5. 0 \in good
  <2>1. start.table = semTable /\ start.entries = semTabEntries /\ start.wild \in BOOLEAN
    OBVIOUS
  <2> HIDE DEF start
  <2>4. f[0] = start
    BY <1>1, <1>4
  <2>2. 0..(0 - 1) = {}
    OBVIOUS
  <2>3. Cleared(pid, 0, start)
    BY <2>1, <2>2, PartAtStart DEF Cleared, PartLeft
  <2> QED
    BY <1>1, <2>3, <2>4
<1>6. ASSUME NEW k \in 0..(semTabSize - 1), k \in good
      PROVE  k + 1 \in good
  <2>1. k \in Nat /\ k + 1 \in 0..semTabSize /\ k + 1 # 0 /\ (k + 1) - 1 = k
    BY <1>1
  <2>2. f[k + 1] = SemRemoveStep(pid, k, f[k])
    BY <1>4, <2>1
  <2>3. Cleared(pid, k, f[k])
    BY <1>6
  <2>4. Cleared(pid, k + 1, f[k + 1])
    BY <2>1, <2>2, <2>3, ClearTurn
  <2> QED
    BY <2>1, <2>4
<1> HIDE DEF good
<1>7. semTabSize \in good
  BY <1>1, <1>5, <1>6, TurnByTurn
<1> QED
  BY <1>2, <1>7 DEF good
-----------------------------------------------------------------------------
(* Semaphores: the calls                                                   *)

LEMMA StartSemaphores ==
  ASSUME SemInv, NEW p \in Process, Start(p), UNCHANGED semVars
  PROVE  SemInv'
<1>1. PidsGiven'
  BY PidsStart DEF Start, SemInv
<1> QED
  BY <1>1 DEF SemInv, semVars

LEMMA InitSemaphore ==
  ASSUME SemInv, NEW p \in Process, NEW sem \in Address, sem_init(p, sem)
  PROVE  SemInv'
<1> DEFINE entry == [sem |-> sem, waitingPid |-> 0, owner |-> running[p]]
<1>1. /\ semTableAdd(entry) /\ p \in DOMAIN running
      /\ running' = running /\ waitsAt' = waitsAt /\ corrupted' = corrupted
  BY DEF sem_init, Calls
<1>2. semValue' = [a \in DOMAIN semValue \cup {sem} |-> IF a = sem THEN 0 ELSE semValue[a]]
  BY DEF sem_init
<1>3. /\ DOMAIN semValue' = DOMAIN semValue \cup {sem}
      /\ \A a \in DOMAIN semValue' : semValue'[a] = 0 \/ (a \in DOMAIN semValue /\ semValue'[a] = semValue[a])
  BY <1>2
<1>4. /\ DOMAIN semValue' \subseteq Address
      /\ \A a \in DOMAIN semValue' : semValue'[a] \in Int
      /\ waitsAt' \in [Process -> {0} \cup DOMAIN semValue']
  BY <1>1, <1>3 DEF SemInv
<1>5. entry \in Entry
  <2>1. running[p] \in Pid
    BY <1>1 DEF SemInv, PidsGiven
  <2> QED
    BY <2>1, IpcAssumption, PidsAreNumbers DEF Entry
<1> HIDE DEF entry
<1>6. EntriesOf(semTable', semTabEntries', semTabSize')
  BY <1>1, <1>5, AddedEntry
<1> QED
  BY <1>1, <1>4, <1>6 DEF SemInv, PidsGiven

LEMMA PostSemaphore ==
  ASSUME SemInv, NEW p, NEW sem, sem_post(p, sem)
  PROVE  SemInv'
<1> DEFINE end == Notified(NextWord(Posted(sem)))
<1>1. /\ semTable' = end.table /\ semTabEntries' = end.entries
      /\ semTabSize' = Cardinality(DOMAIN end.table)
      /\ UNCHANGED <<running, semValue, waitsAt, corrupted>>
  BY DEF sem_post, semTableNotify, SetSemTable
<1>2. PartLeft(end)
  BY Notify
<1> HIDE DEF end
<1> QED
  BY <1>1, <1>2 DEF PartLeft, SemInv, PidsGiven

LEMMA OwnerIsNumber ==
  ASSUME SemInv, NEW sem
  PROVE  semGetOwner(sem) \in Nat
<1> DEFINE found == {i \in DOMAIN semTable : semTable[i].sem = sem}
<1>1. /\ DOMAIN semTable = 0..(semTabSize - 1) /\ semTabSize \in Nat
      /\ \A i \in DOMAIN semTable : semTable[i].owner \in Nat
  BY DEF SemInv, EntriesOf, Entry
<1>2. CASE found = {}
  BY <1>2 DEF semGetOwner, FirstOf
<1>3. CASE found # {}
  <2>1. found \subseteq Nat
    BY <1>1
  <2>2. LeastOf(found) \in found
    BY <1>3, <2>1, LeastOfIsLeast
  <2>3. FirstOf(found) = LeastOf(found) /\ FirstOf(found) # -1
    BY <1>3, <2>1, <2>2 DEF FirstOf
  <2> QED
    BY <1>1, <2>2, <2>3 DEF semGetOwner
<1> QED
  BY <1>2, <1>3

LEMMA WaitAtSemaphore ==
  ASSUME SemInv, NEW p \in Process, NEW sem \in Address, sem_wait(p, sem)
  PROVE  SemInv'
<1> DEFINE entry == [sem |-> sem, waitingPid |-> running[p], owner |-> semGetOwner(sem)]
<1>1. /\ p \in DOMAIN running /\ sem \in DOMAIN semValue
      /\ running' = running /\ semValue' = semValue /\ corrupted' = corrupted
  BY DEF sem_wait, Calls
<1>2. CASE semValue[sem] # 0
  <2>1. UNCHANGED <<semTable, semTabSize, semTabEntries, waitsAt>>
    BY <1>2 DEF sem_wait
  <2> QED
    BY <1>1, <2>1 DEF SemInv, PidsGiven
<1>3. CASE semValue[sem] = 0
  <2>1. semTableAdd(entry) /\ waitsAt' = [waitsAt EXCEPT ![p] = sem]
    BY <1>3 DEF sem_wait
  <2>2. entry \in Entry
    <3>1. running[p] \in Pid
      BY <1>1 DEF SemInv, PidsGiven
    <3> QED
      BY <3>1, IpcAssumption, PidsAreNumbers, OwnerIsNumber DEF Entry
  <2> HIDE DEF entry
  <2>3. EntriesOf(semTable', semTabEntries', semTabSize')
    BY <2>1, <2>2, AddedEntry
  <2>4. waitsAt' \in [Process -> {0} \cup DOMAIN semValue]
    BY <1>1, <2>1 DEF SemInv
  <2> QED
    BY <1>1, <2>3, <2>4 DEF SemInv, PidsGiven
<1> QED
  BY <1>2, <1>3

\* What semTableRemove(pid) leaves in the table.
NothingOf(pid) ==
  /\ EntriesOf(semTable', semTabEntries', semTabSize')
  /\ \A i \in DOMAIN semTable' : ~ IsOf(semTable'[i], pid)
  /\ corrupted' \in BOOLEAN

LEMMA RemoveSemaphores ==
  ASSUME SemInv, NEW pid \in Pid, semTableRemove(pid)
  PROVE  NothingOf(pid)
<1> DEFINE end == WithoutThoseOf(pid)
<1>1. /\ semTable' = end.table /\ semTabEntries' = end.entries
      /\ semTabSize' = Cardinality(DOMAIN end.table)
  BY DEF semTableRemove, SetSemTable
<1>2. corrupted' \in BOOLEAN
  BY DEF semTableRemove
<1>3. Cleared(pid, semTabSize, end)
  BY Clear
<1> HIDE DEF end
<1>4. EntriesOf(end.table, end.entries, Cardinality(DOMAIN end.table)) /\ Part(end.table, semTable)
  BY <1>3 DEF Cleared, PartLeft
<1>5. DOMAIN end.table \subseteq 0..(semTabSize - 1)
  BY <1>4 DEF Part, SemInv, EntriesOf
<1>6. \A i \in DOMAIN end.table : ~ IsOf(end.table[i], pid)
  BY <1>3, <1>5 DEF Cleared
<1> QED
  BY <1>1, <1>2, <1>4, <1>6 DEF NothingOf

LEMMA DestroySemaphore ==
  ASSUME SemInv, NEW p \in Process, NEW sem, sem_destroy(p, sem)
  PROVE  SemInv'
<1>1. semTableRemove(running[p]) /\ UNCHANGED <<running, semValue, waitsAt>>
  BY DEF sem_destroy
<1>2. running[p] \in Pid
  BY DEF sem_destroy, Calls, SemInv, PidsGiven
<1>3. NothingOf(running[p])
  BY <1>1, <1>2, RemoveSemaphores
<1> QED
  BY <1>1, <1>3 DEF NothingOf, SemInv, PidsGiven

LEMMA LeaveSemaphores ==
  ASSUME SemInv, NEW p \in Process, Leave(p)
  PROVE  SemInv' /\ NothingOf(running[p])
<1>1. /\ semTableRemove(running[p])
      /\ waitsAt' = [waitsAt EXCEPT ![p] = 0]
      /\ semValue' = semValue
      /\ running' = [q \in DOMAIN running \ {p} |-> running[q]]
  BY DEF Leave, SemLeave, ShmExit
<1>2. running[p] \in Pid
  BY DEF Leave, SemLeave, SemInv, PidsGiven
<1>3. NothingOf(running[p])
  BY <1>1, <1>2, RemoveSemaphores
<1>4. waitsAt' \in [Process -> {0} \cup DOMAIN semValue]
  BY <1>1 DEF SemInv
<1>5. PidsGiven'
  BY <1>1, PidsExit DEF SemInv
<1> QED
  BY <1>1, <1>3, <1>4, <1>5 DEF NothingOf, SemInv

\* What NothingOfWhoLeaves says of a step.
LeavesNothing ==
  \A p \in DOMAIN running \ DOMAIN running', i \in DOMAIN semTable' :
    /\ semTable'[i].waitingPid # running[p]
    /\ semTable'[i].waitingPid = 0 => semTable'[i].owner # running[p]

LEMMA SemaphoresKept ==
  ASSUME SemInv, [IpcNext]_ipcVars
  PROVE  SemInv' /\ LeavesNothing
<1>1. CASE UNCHANGED ipcVars
  BY <1>1 DEF ipcVars, vars, semVars, SemInv, PidsGiven, LeavesNothing
<1>2. CASE IpcNext
  <2>1. PICK p \in Process :
          \/ Start(p) /\ ~corrupted /\ UNCHANGED semVars
          \/ SegmentCall(p)
          \/ SemaphoreCall(p)
          \/ Leave(p)
    BY <1>2 DEF IpcNext
  <2>2. CASE Start(p) /\ UNCHANGED semVars
    <3>1. DOMAIN running \ DOMAIN running' = {}
      BY <2>2 DEF Start, Starts
    <3> QED
      BY <2>2, <3>1, StartSemaphores DEF LeavesNothing
  <2>3. CASE SegmentCall(p)
    <3>1. running' = running /\ UNCHANGED semVars
      BY <2>3 DEF SegmentCall, ShmInit, ShmDestroy
    <3> QED
      BY <3>1 DEF semVars, SemInv, PidsGiven, LeavesNothing
  <2>4. CASE SemaphoreCall(p)
    <3>1. running' = running
      BY <2>4 DEF SemaphoreCall, sem_init, sem_post, sem_wait, sem_destroy
    <3>2. ASSUME NEW sem \in Address, sem_init(p, sem)
          PROVE  SemInv'
      BY <3>2, InitSemaphore
    <3>3. ASSUME NEW sem \in Address, sem_post(p, sem)
          PROVE  SemInv'
      BY <3>3, PostSemaphore
    <3>4. ASSUME NEW sem \in Address, sem_wait(p, sem)
          PROVE  SemInv'
      BY <3>4, WaitAtSemaphore
    <3>5. ASSUME NEW sem \in Address, sem_destroy(p, sem)
          PROVE  SemInv'
      BY <3>5, DestroySemaphore
    <3>6. SemInv'
      BY <2>4, <3>2, <3>3, <3>4, <3>5 DEF SemaphoreCall
    <3> QED
      BY <3>1, <3>6 DEF LeavesNothing
  <2>5. CASE Leave(p)
    <3>1. DOMAIN running \ DOMAIN running' \subseteq {p}
      BY <2>5 DEF Leave, ShmExit
    <3> QED
      BY <2>5, <3>1, LeaveSemaphores DEF LeavesNothing, NothingOf, IsOf
  <2> QED
    BY <2>1, <2>2, <2>3, <2>4, <2>5
<1> QED
  BY <1>1, <1>2

LEMMA SemInvariant == IpcSpec => []SemInv
<1>1. IpcInit => SemInv
  <2> SUFFICES ASSUME Init, SemTableInit
               PROVE  SemInv
    BY DEF IpcInit
  <2>1. semTable = <<>> /\ semTabSize = 0 /\ semTabEntries = 0
    BY DEF SemTableInit
  <2>2. 0..(0 - 1) = {} /\ DOMAIN semValue = {}
    BY DEF SemTableInit
  <2>3. EntriesOf(semTable, semTabEntries, semTabSize)
    <3>1. semTable = [i \in {} |-> semTable[i]]
      BY <2>1
    <3>2. semTable \in [{} -> Entry]
      BY <3>1
    <3> QED
      BY <2>1, <2>2, <3>2 DEF EntriesOf
  <2>4. waitsAt \in [Process -> {0} \cup DOMAIN semValue] /\ corrupted \in BOOLEAN
    BY DEF SemTableInit
  <2>5. PidsGiven
    BY NoPidsAtStart
  <2> QED
    BY <2>2, <2>3, <2>4, <2>5 DEF SemInv
<1>2. SemInv /\ [IpcNext]_ipcVars => SemInv'
  BY SemaphoresKept
<1> QED
  BY <1>1, <1>2, PTL DEF IpcSpec

-----------------------------------------------------------------------------
(* The theorems                                                            *)

(***************************************************************************)
(* The segments' array has the slots that shmTabSize says, whatever is     *)
(* doubled and halved.                                                     *)
(***************************************************************************)
THEOREM SegmentsTypeCorrect ==
  ASSUME CleanSegments
  PROVE  IpcSpec => []ShmTypeOK
<1>1. ShmInv => ShmTypeOK
  <2> SUFFICES ASSUME ShmInv
               PROVE  ShmTypeOK
    OBVIOUS
  <2>1. /\ DOMAIN shmTable = 0..(shmTabSize - 1) /\ shmTabEntries \in Nat
        /\ \A i \in 0..(shmTabSize - 1) : shmTable[i] \in [addr : Nat, owner : Int, size : Nat]
    BY DEF ShmInv, SlotsOf
  <2>2. DOMAIN heap \subseteq Address
    BY DEF ShmInv, SlotsOf, HeapOf
  <2>3. PidsGiven
    BY DEF ShmInv
  <2> QED
    BY <2>1, <2>2, <2>3 DEF ShmTypeOK, PidsGiven
<1> QED
  BY <1>1, ShmInvariant, PTL

(***************************************************************************)
(* However many entries one shmTabRemove takes out of the array that it    *)
(* shrinks, there is a slot for every entry, and less than twice as many.  *)
(***************************************************************************)
THEOREM SegmentsHaveRoom ==
  ASSUME CleanSegments
  PROVE  IpcSpec => []ShmCapacity
<1>1. ShmInv => ShmCapacity
  BY DEF ShmInv, SlotsOf, ShmCapacity
<1> QED
  BY <1>1, ShmInvariant, PTL

(***************************************************************************)
(* No segment is lost, freed twice or entered twice: the entries of the    *)
(* table are exactly what is allocated, each with its size.                *)
(***************************************************************************)
THEOREM TableAndHeapAgree ==
  ASSUME CleanSegments
  PROVE  IpcSpec => []TableMatchesHeap
<1>1. ShmInv => TableMatchesHeap
  <2> SUFFICES ASSUME ShmInv
               PROVE  TableMatchesHeap
    OBVIOUS
  <2>1. \A i, j \in 0..(shmTabEntries - 1) : shmTable[i].addr = shmTable[j].addr => i = j
    BY DEF ShmInv, SlotsOf
  <2>2. /\ \A i \in 0..(shmTabEntries - 1) :
             shmTable[i].addr \in DOMAIN heap /\ heap[shmTable[i].addr] = shmTable[i].size
        /\ \A a \in DOMAIN heap : \E i \in 0..(shmTabEntries - 1) : shmTable[i].addr = a
    BY DEF ShmInv, HeapOf
  <2>3. DOMAIN heap = {shmTable[i].addr : i \in Segments}
    BY <2>2 DEF Segments
  <2> QED
    BY <2>1, <2>2, <2>3 DEF TableMatchesHeap, Segments
<1> QED
  BY <1>1, ShmInvariant, PTL

(***************************************************************************)
(* shm_write lets a process write to an allocated segment exactly what     *)
(* fits into it, although it looks the address up in all slots and memory  *)
(* that realloc adds may hold that address with another size.              *)
(***************************************************************************)
THEOREM WritesStayInside ==
  ASSUME CleanSegments
  PROVE  IpcSpec => []WritesFit
<1>1. ShmInv => WritesFit
  <2> SUFFICES ASSUME ShmInv, NEW addr \in DOMAIN heap, NEW size \in Size
               PROVE  Accepts(addr, size) <=> size <= heap[addr]
    BY DEF WritesFit
  <2> QED
    BY FoundAllocated DEF Accepts
<1> QED
  BY <1>1, ShmInvariant, PTL

(***************************************************************************)
(* A segment goes only when a process with its owner's pid destroys it or  *)
(* leaves, through holes closed and arrays halved in the middle of a walk  *)
(* over them, and when several processes have the pid, too.                *)
(***************************************************************************)
THEOREM OwnersFree ==
  ASSUME CleanSegments
  PROVE  IpcSpec => OnlyOwnersFree
<1>1. ShmInv /\ [IpcNext]_ipcVars => [FreedByOwner]_vars
  BY SegmentsKept
<1> QED
  BY <1>1, ShmInvariant, PTL DEF IpcSpec, OnlyOwnersFree, FreedByOwner

(***************************************************************************)
(* The semaphores' array has the slots that semTabSize says, whatever the  *)
(* memory holds that is added to it.                                       *)
(***************************************************************************)
THEOREM SemaphoresTypeCorrect == IpcSpec => []SemTypeOK
<1>1. SemInv => SemTypeOK
  BY DEF SemInv, EntriesOf, SemTypeOK
<1> QED
  BY <1>1, SemInvariant, PTL

(***************************************************************************)
(* Although entries are overwritten, cut off and read back, there is a     *)
(* slot where semTableAdd writes, and less than twice as many slots as the *)
(* count says.                                                             *)
(***************************************************************************)
THEOREM SemaphoresHaveRoom == IpcSpec => []SemCapacity
<1>1. SemInv => SemCapacity
  BY DEF SemInv, EntriesOf, SemCapacity
<1> QED
  BY <1>1, SemInvariant, PTL

(***************************************************************************)
(* Exit and kill leave no entry of the pid in the table: semTableRemove    *)
(* walks on to where the array ends now, however often it has halved it,   *)
(* and clears every slot of the pid that is still there.                   *)
(***************************************************************************)
THEOREM LeavesNoneBehind == IpcSpec => NothingOfWhoLeaves
<1>1. SemInv /\ [IpcNext]_ipcVars => [LeavesNothing]_<<running, semVars>>
  BY SemaphoresKept
<1> QED
  BY <1>1, SemInvariant, PTL DEF IpcSpec, NothingOfWhoLeaves, LeavesNothing

-----------------------------------------------------------------------------
(* The philosophers                                                        *)

\* What sem_init stored is all that is ever in a semaphore, and who waits does so
\* at one there is.
ValuesStay ==
  /\ \A sem \in DOMAIN semValue : semValue[sem] = 0
  /\ waitsAt \in [Process -> {0} \cup DOMAIN semValue]

LEMMA ValuesStayKept ==
  ASSUME ValuesStay, [PhilNext]_philVars
  PROVE  /\ ValuesStay'
         /\ \A p \in Process : waitsAt[p] # 0 => waitsAt'[p] = waitsAt[p]
<1> DEFINE Kept == \A p \in Process : waitsAt[p] # 0 => waitsAt'[p] = waitsAt[p]
<1>1. CASE UNCHANGED <<semValue, waitsAt>>
  BY <1>1 DEF ValuesStay
<1>2. ASSUME NEW p, NEW sem, sem_init(p, sem)
      PROVE  ValuesStay' /\ Kept
  BY <1>2 DEF sem_init, ValuesStay
<1>3. ASSUME NEW p \in Process, NEW sem, sem_wait(p, sem)
      PROVE  ValuesStay' /\ Kept
  <2>1. /\ waitsAt[p] = 0 /\ semValue' = semValue
        /\ sem \in DOMAIN semValue /\ waitsAt' = [waitsAt EXCEPT ![p] = sem]
    BY <1>3 DEF sem_wait, Calls, ValuesStay
  <2> QED
    BY <2>1 DEF ValuesStay
<1>4. ASSUME NEW p \in Process, Return(p)
      PROVE  FALSE
  <2>1. waitsAt[p] \in DOMAIN semValue
    BY <1>4 DEF Return, ValuesStay
  <2> QED
    BY <1>4, <2>1 DEF Return, ValuesStay
<1>5. CASE Setup
  <2>1. CASE Allocate
    BY <1>2, <2>1 DEF Allocate
  <2>2. CASE ForkPhilosopher
    BY <1>1, <2>2 DEF ForkPhilosopher, semVars
  <2> QED
    BY <1>5, <2>1, <2>2 DEF Setup
<1>6. ASSUME NEW p \in Process, Runs(p)
      PROVE  ValuesStay' /\ Kept
  <2>1. CASE sem_post(p, rightSem(p))
    BY <1>1, <2>1 DEF sem_post
  <2>2. CASE sem_wait(p, leftSem(p))
    BY <1>3, <2>2
  <2> QED
    BY <1>4, <1>6, <2>1, <2>2 DEF Runs, philOp
<1>7. CASE UNCHANGED philVars
  BY <1>1, <1>7 DEF philVars, semVars
<1> QED
  BY <1>5, <1>6, <1>7 DEF PhilNext

(***************************************************************************)
(* However many philosophers there are: whoever waits never goes on,       *)
(* because sem_post and sem_wait move the handler's pointer to the         *)
(* semaphore (hilevel.c:639, hilevel.c:662) and leave its value as         *)
(* sem_init made it, which is what libc's sem_wait spins on (libc.c:306).  *)
(***************************************************************************)
THEOREM WhoWaitsNeverGoesOn ==
  ASSUME NEW p \in Process
  PROVE  PhilSpec => [](waitsAt[p] # 0 => [](waitsAt[p] # 0))
<1> DEFINE Waits == waitsAt[p] # 0
<1>1. PhilInit => ValuesStay
  BY DEF PhilInit, SemTableInit, ValuesStay
<1>2. ValuesStay /\ [PhilNext]_philVars => ValuesStay'
  BY ValuesStayKept
<1>3. ValuesStay /\ [PhilNext]_philVars /\ Waits => Waits'
  BY ValuesStayKept
<1> HIDE DEF Waits
<1>4. PhilSpec => [](Waits => []Waits)
  BY <1>1, <1>2, <1>3, PTL DEF PhilSpec
<1> QED
  BY <1>4 DEF Waits

(***************************************************************************)
(* So once all of them wait, however many, they do for ever: from there    *)
(* on WaitEnds does not hold of any behaviour.                             *)
(***************************************************************************)
THEOREM AllWaitForEver ==
  PhilSpec => []((\A p \in Process : waitsAt[p] # 0)
                   => [](\A p \in Process : waitsAt[p] # 0))
<1> DEFINE AllWait == \A p \in Process : waitsAt[p] # 0
<1>1. PhilInit => ValuesStay
  BY DEF PhilInit, SemTableInit, ValuesStay
<1>2. ValuesStay /\ [PhilNext]_philVars => ValuesStay'
  BY ValuesStayKept
<1>3. ValuesStay /\ [PhilNext]_philVars /\ AllWait => AllWait'
  BY ValuesStayKept
<1> HIDE DEF AllWait
<1>4. PhilSpec => [](AllWait => []AllWait)
  BY <1>1, <1>2, <1>3, PTL DEF PhilSpec
<1> QED
  BY <1>4 DEF AllWait
=============================================================================
