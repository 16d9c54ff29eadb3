----------------------- MODULE MultiLevelQueueProofs -----------------------
(***************************************************************************)
(* Proofs about MultiLevelQueue.tla, for every MAX_PROCS, MAX_QUEUE_LEVELS *)
(* and Junk of a clean heap: the heap arrays stay well formed through      *)
(* doubling, halving and defragmenting, and are FIFO queues.               *)
(*                                                                         *)
(* The lemmas are about values of the mlfq_t and not about the variable,   *)
(* so that the proofs about the kernel can use them within a handler.      *)
(***************************************************************************)
EXTENDS MultiLevelQueue, ArrayLemmas, SequenceTheorems

-----------------------------------------------------------------------------
(* One array                                                               *)

\* The words of q that are processes: the first length ones.
Prefix(q) == 0..(q.length - 1)

Has(q, pid) == \E i \in Prefix(q) : q.processes[i] = pid

(***************************************************************************)
(* A queue's array: distinct pids first, then words that are none.         *)
(***************************************************************************)
ArrayOf(q) ==
  /\ q \in [processes : [0..(q.size - 1) -> Pid \cup Junk],
            length    : 0..q.size,
            size      : Nat \ {0}]
  /\ \A i \in Prefix(q) : q.processes[i] \in Pid
  /\ \A i, j \in Prefix(q) : q.processes[i] = q.processes[j] => i = j
  /\ \A i \in q.length..(q.size - 1) : q.processes[i] \in Junk

\* More than half of it is in use, or it is one word.
Tight(q) == q.size = 1 \/ q.size < 2 * q.length

LEMMA ArrayFacts ==
  ASSUME NEW q, ArrayOf(q)
  PROVE  /\ q = [processes |-> q.processes, length |-> q.length, size |-> q.size]
         /\ q.size \in Nat /\ q.size >= 1
         /\ q.length \in Nat /\ q.length <= q.size
         /\ q.processes \in [0..(q.size - 1) -> Pid \cup Junk]
BY DEF ArrayOf

LEMMA ZeroIsNoPid == 0 \notin Pid /\ 0 \in Junk /\ Pid \subseteq Int
BY ConfigAssumption DEF Pid, CONSOLE_PID

(***************************************************************************)
(* WithSpace gives an array that has room for one more and the same        *)
(* processes.                                                              *)
(***************************************************************************)
LEMMA SpaciousArray ==
  ASSUME NEW q, ArrayOf(q), NEW r \in WithSpace(q)
  PROVE  /\ ArrayOf(r)
         /\ r.length = q.length /\ r.length < r.size
         /\ r.size = IF q.length < q.size THEN q.size ELSE 2 * q.size
         /\ \A i \in Prefix(q) : r.processes[i] = q.processes[i]
<1>1. /\ q = [processes |-> q.processes, length |-> q.length, size |-> q.size]
      /\ q.size \in Nat /\ q.size >= 1
      /\ q.length \in Nat /\ q.length <= q.size
      /\ q.processes \in [0..(q.size - 1) -> Pid \cup Junk]
  BY ArrayFacts
<1>2. CASE q.length < q.size
  BY <1>1, <1>2 DEF WithSpace
<1>3. CASE ~ (q.length < q.size)
  <2>1. PICK words \in Garbage(q.size, q.size) : r = WithMoreWords(q, words)
    BY <1>3 DEF WithSpace
  <2> DEFINE more == [i \in 0..(2 * q.size - 1) |->
                        IF i < q.size THEN q.processes[i] ELSE words[i]]
  <2>2. r = [processes |-> more, length |-> q.length, size |-> 2 * q.size]
    BY <1>1, <2>1 DEF WithMoreWords
  <2>3. q.length = q.size
    BY <1>1, <1>3
  <2>4. \A i \in 0..(q.size - 1) : more[i] = q.processes[i]
    BY <1>1
  <2>5. \A i \in q.size..(2 * q.size - 1) : more[i] \in Junk
    <3>1. words \in [q.size..(q.size + q.size - 1) -> Junk]
      BY DEF Garbage
    <3>2. q.size + q.size = 2 * q.size
      BY <1>1
    <3> QED
      BY <1>1, <3>1, <3>2
  <2>6. more \in [0..(2 * q.size - 1) -> Pid \cup Junk]
    <3>1. ASSUME NEW i \in 0..(2 * q.size - 1)
          PROVE  more[i] \in Pid \cup Junk
      <4>1. i \in 0..(q.size - 1) \/ i \in q.size..(2 * q.size - 1)
        BY <1>1
      <4> QED
        BY <1>1, <2>4, <2>5, <4>1
    <3> QED
      BY <3>1
  <2> HIDE DEF more
  <2>7. 2 * q.size \in Nat \ {0} /\ q.length \in 0..(2 * q.size)
    BY <1>1
  <2>8. Prefix(r) = Prefix(q) /\ Prefix(q) = 0..(q.size - 1)
    BY <2>2, <2>3 DEF Prefix
  <2>9. r \in [processes : [0..(r.size - 1) -> Pid \cup Junk],
               length : 0..r.size, size : Nat \ {0}]
    BY <2>2, <2>6, <2>7
  <2>10. ArrayOf(r)
    BY <2>2, <2>3, <2>4, <2>5, <2>8, <2>9 DEF ArrayOf
  <2> QED
    BY <1>1, <1>3, <2>2, <2>3, <2>4, <2>8, <2>10
<1> QED
  BY <1>2, <1>3

(***************************************************************************)
(* addToQueue's write at index length, and its defrag, put the process     *)
(* behind the others and move nobody.                                      *)
(***************************************************************************)
LEMMA AppendedArray ==
  ASSUME CleanHeap, NEW q, ArrayOf(q), NEW pid \in Pid, ~ Has(q, pid),
         NEW r \in WithSpace(q)
  PROVE  /\ ArrayOf(Appended(r, pid))
         /\ Appended(r, pid).length = q.length + 1
         /\ \A i \in Prefix(q) : Appended(r, pid).processes[i] = q.processes[i]
         /\ Appended(r, pid).processes[q.length] = pid
         /\ Tight(q) => Tight(Appended(r, pid))
<1> DEFINE a == Appended(r, pid)
           n == q.length
           s == r.size
           written == [r.processes EXCEPT ![n] = pid]
           used == {i \in DOMAIN written : written[i] # 0}
           c == Compact(written, used, 0)
<1>1. /\ ArrayOf(r) /\ r.length = n /\ n < s
      /\ s = IF n < q.size THEN q.size ELSE 2 * q.size
      /\ \A i \in Prefix(q) : r.processes[i] = q.processes[i]
  BY SpaciousArray
<1>2. /\ r = [processes |-> r.processes, length |-> n, size |-> s]
      /\ s \in Nat /\ n \in Nat
      /\ r.processes \in [0..(s - 1) -> Pid \cup Junk]
  BY <1>1, ArrayFacts
<1>3. a = [processes |-> c, length |-> n + 1, size |-> s]
  <2> DEFINE w == [r EXCEPT !.processes[r.length] = pid, !.length = @ + 1]
  <2>1. w = [processes |-> written, length |-> n + 1, size |-> s]
    <3> DEFINE x == [r EXCEPT !.processes = written]
    <3>1. w = [x EXCEPT !.length = n + 1]
      BY <1>1
    <3>2. x = [processes |-> written, length |-> n, size |-> s]
      BY <1>2
    <3> HIDE DEF x, w, written
    <3> QED
      BY <3>1, <3>2
  <2> HIDE DEF w, written
  <2>2. queueDefrag(w) = [processes |-> c, length |-> n + 1, size |-> s]
    BY <2>1 DEF queueDefrag
  <2> QED
    BY <2>2 DEF Appended, w
<1>4. /\ DOMAIN written = 0..(s - 1)
      /\ written[n] = pid
      /\ \A i \in 0..(s - 1) : i # n => written[i] = r.processes[i]
  BY <1>1, <1>2
<1> HIDE DEF written
<1>5. \A i \in 0..(n - 1) : written[i] = q.processes[i] /\ written[i] \in Pid
  <2> TAKE i \in 0..(n - 1)
  <2>1. i \in Prefix(q) /\ i \in 0..(s - 1) /\ i # n
    BY <1>1, <1>2 DEF Prefix
  <2> QED
    BY <1>1, <1>4, <2>1 DEF ArrayOf
<1>6. \A i \in (n + 1)..(s - 1) : written[i] \in Junk
  <2> TAKE i \in (n + 1)..(s - 1)
  <2>1. i \in n..(s - 1) /\ i \in 0..(s - 1) /\ i # n
    BY <1>2
  <2> QED
    BY <1>1, <1>4, <2>1 DEF ArrayOf
<1>7. used \subseteq 0..(s - 1) /\ 0..((n + 1) - 1) \subseteq used
  <2>1. ASSUME NEW i \in 0..((n + 1) - 1)
        PROVE  i \in used
    <3>1. i \in 0..(s - 1) /\ (i = n \/ i \in 0..(n - 1))
      BY <1>1, <1>2
    <3> QED
      BY <1>4, <1>5, <3>1, ZeroIsNoPid
  <2> QED
    BY <1>4, <2>1
<1> HIDE DEF used
<1>8. /\ DOMAIN c = 0..(s - 1)
      /\ \A k \in 0..n : c[k] = written[k]
      /\ \A k \in (n + 1)..(s - 1) :
           c[k] = 0 \/ \E j \in (n + 1)..(s - 1) : j \in used /\ c[k] = written[j]
  <2> DEFINE m == n + 1
  <2>1. m \in 0..s /\ m - 1 = n
    BY <1>1, <1>2
  <2>2. 0..(m - 1) \subseteq used
    BY <1>7
  <2> HIDE DEF m
  <2>3. PrefixKept(c, written, used, m, s, 0)
    BY <1>2, <1>4, <1>7, <2>1, <2>2, CompactWithoutHole DEF c
  <2> QED
    BY <2>1, <2>3 DEF m, PrefixKept
<1>9. c = [k \in 0..(s - 1) |-> c[k]]
  BY <1>4, <1>8 DEF Compact
<1> HIDE DEF c, a
<1>10. \A k \in (n + 1)..(s - 1) : c[k] \in Junk
  BY <1>6, <1>8, ZeroIsNoPid
<1>11. \A k \in 0..(n - 1) : c[k] = q.processes[k] /\ c[k] \in Pid
  BY <1>2, <1>5, <1>8
<1>12. c[n] = pid
  BY <1>2, <1>4, <1>8
<1>13. c \in [0..(s - 1) -> Pid \cup Junk]
  <2>1. ASSUME NEW k \in 0..(s - 1)
        PROVE  c[k] \in Pid \cup Junk
    <3>1. k \in 0..(n - 1) \/ k = n \/ k \in (n + 1)..(s - 1)
      BY <1>2
    <3> QED
      BY <1>10, <1>11, <1>12, <3>1
  <2> QED
    BY <1>9, <2>1
<1>14. /\ a.length = n + 1 /\ a.size = s /\ a.processes = c
       /\ Prefix(a) = 0..n
  BY <1>2, <1>3 DEF Prefix
<1>15. a \in [processes : [0..(a.size - 1) -> Pid \cup Junk],
              length : 0..a.size, size : Nat \ {0}]
  BY <1>1, <1>2, <1>3, <1>13
<1>16. ASSUME NEW i \in 0..n, NEW j \in 0..n, c[i] = c[j]
       PROVE  i = j
  <2>1. (i = n \/ i \in Prefix(q)) /\ (j = n \/ j \in Prefix(q))
    BY <1>2 DEF Prefix
  <2>2. \A k \in Prefix(q) : c[k] = q.processes[k] /\ c[k] # pid
    BY <1>11 DEF Prefix, Has
  <2> QED
    BY <1>12, <1>16, <2>1, <2>2 DEF ArrayOf
<1>17. \A i \in 0..n : c[i] \in Pid
  BY <1>2, <1>11, <1>12
<1>18. ArrayOf(a)
  BY <1>10, <1>14, <1>15, <1>16, <1>17 DEF ArrayOf
<1>19. Tight(q) => Tight(a)
  <2>1. q.size \in Nat /\ q.size >= 1 /\ n <= q.size
    BY ArrayFacts
  <2> QED
    BY <1>1, <1>2, <1>14, <2>1 DEF Tight
<1> QED
  BY <1>11, <1>12, <1>14, <1>18, <1>19 DEF a, Prefix

(***************************************************************************)
(* removeFromMLFQ's clearing, defrag and halving take one process out and  *)
(* cut off none of the others.                                             *)
(***************************************************************************)
LEMMA RemovedArray ==
  ASSUME CleanHeap, NEW q, ArrayOf(q), NEW i \in Prefix(q)
  PROVE  /\ ArrayOf(Halved(Without(q, i)))
         /\ Halved(Without(q, i)).length = q.length - 1
         /\ \A k \in 0..(q.length - 2) :
              Halved(Without(q, i)).processes[k] = q.processes[IF k < i THEN k ELSE k + 1]
         /\ Tight(q) => Tight(Halved(Without(q, i)))
<1> DEFINE n == q.length
           s == q.size
           cleared == [q.processes EXCEPT ![i] = 0]
           used == {j \in DOMAIN cleared : cleared[j] # 0}
           c == Compact(cleared, used, 0)
           u == Without(q, i)
           h == Halved(u)
           z == IF n - 1 <= s \div 2 /\ s > 1 THEN s \div 2 ELSE s
           d == [k \in 0..(z - 1) |-> c[k]]
<1>1. /\ q = [processes |-> q.processes, length |-> n, size |-> s]
      /\ s \in Nat /\ s >= 1 /\ n \in Nat /\ n <= s
      /\ q.processes \in [0..(s - 1) -> Pid \cup Junk]
      /\ i \in Nat /\ i < n
      /\ \A j \in 0..(n - 1) : q.processes[j] \in Pid
      /\ \A j \in n..(s - 1) : q.processes[j] \in Junk
  BY ArrayFacts DEF ArrayOf, Prefix
<1>2. u = [processes |-> c, length |-> n - 1, size |-> s]
  <2> DEFINE x == [q EXCEPT !.processes = cleared]
             w == [q EXCEPT !.processes[i] = 0, !.length = @ - 1]
  <2>1. w = [x EXCEPT !.length = n - 1]
    BY <1>1
  <2>2. x = [processes |-> cleared, length |-> n, size |-> s]
    <3>1. q = [processes |-> q.processes, length |-> n, size |-> s]
      BY <1>1
    <3> QED
      BY <3>1
  <2> HIDE DEF x, cleared
  <2>3. w = [processes |-> cleared, length |-> n - 1, size |-> s]
    BY <2>1, <2>2
  <2> HIDE DEF w
  <2>4. queueDefrag(w) = [processes |-> c, length |-> n - 1, size |-> s]
    BY <2>3 DEF queueDefrag
  <2> QED
    BY <2>4 DEF Without, w
<1>3. /\ DOMAIN cleared = 0..(s - 1)
      /\ cleared[i] = 0
      /\ \A j \in 0..(s - 1) : j # i => cleared[j] = q.processes[j]
  BY <1>1
<1> HIDE DEF cleared
<1>4. OneHole(used, n, i, s)
  <2>1. used \subseteq 0..(s - 1)
    BY <1>3
  <2>2. ASSUME NEW j \in 0..(n - 1)
        PROVE  j \in used <=> j # i
    <3>1. j \in 0..(s - 1)
      BY <1>1
    <3> QED
      BY <1>1, <1>3, <3>1, ZeroIsNoPid
  <2> QED
    BY <2>1, <2>2 DEF OneHole
<1>5. used \subseteq 0..(s - 1)
  BY <1>4 DEF OneHole
<1> HIDE DEF used
<1>6. /\ DOMAIN c = 0..(s - 1)
      /\ \A k \in 0..(n - 2) : c[k] = cleared[IF k < i THEN k ELSE k + 1]
      /\ \A k \in (n - 1)..(s - 1) :
           c[k] = 0 \/ \E j \in used : j >= n /\ c[k] = cleared[j]
  <2>1. n \in 1..s /\ i \in 0..(n - 1)
    BY <1>1
  <2>2. HoleClosed(c, cleared, used, n, i, s, 0)
    BY <1>1, <1>3, <1>4, <2>1, CompactAroundHole DEF c
  <2> QED
    BY <2>2 DEF HoleClosed
<1> HIDE DEF c
<1>7. \A k \in 0..(n - 2) : c[k] = q.processes[IF k < i THEN k ELSE k + 1]
  BY <1>1, <1>3, <1>6
<1>8. \A k \in (n - 1)..(s - 1) : c[k] \in Junk
  <2> TAKE k \in (n - 1)..(s - 1)
  <2>1. ASSUME NEW j \in used, j >= n, c[k] = cleared[j]
        PROVE  c[k] \in Junk
    <3>1. j \in 0..(s - 1) /\ j \in n..(s - 1) /\ j # i
      BY <1>1, <1>5, <2>1
    <3> QED
      BY <1>1, <1>3, <2>1, <3>1
  <2> QED
    BY <1>6, <2>1, ZeroIsNoPid
<1>9. z \in Nat /\ z >= 1 /\ z <= s /\ n - 1 <= z
  BY <1>1
<1>10. h = [processes |-> d, length |-> n - 1, size |-> z]
  <2>1. CASE n - 1 <= s \div 2 /\ s > 1
    <3>1. h = [u EXCEPT !.size = s \div 2,
                        !.processes = [k \in 0..(s \div 2 - 1) |-> c[k]]]
      BY <1>2, <2>1 DEF Halved
    <3>2. z = s \div 2
      BY <2>1
    <3> HIDE DEF u, h, z
    <3> QED
      BY <1>2, <3>1, <3>2
  <2>2. CASE ~ (n - 1 <= s \div 2 /\ s > 1)
    <3>1. h = u /\ z = s
      BY <1>2, <2>2 DEF Halved
    <3>2. c = [k \in 0..(s - 1) |-> c[k]]
      BY <1>3, <1>6 DEF c, Compact
    <3> HIDE DEF u, h, z
    <3> QED
      BY <1>2, <3>1, <3>2
  <2> QED
    BY <2>1, <2>2
<1>11. Tight(q) => z = 1 \/ z < 2 * (n - 1)
  BY <1>1 DEF Tight
<1> HIDE DEF u, h, z
<1>12. \A k \in 0..(n - 2) : d[k] = q.processes[IF k < i THEN k ELSE k + 1]
  BY <1>1, <1>7, <1>9
<1>13. \A k \in (n - 1)..(z - 1) : d[k] \in Junk
  BY <1>1, <1>8, <1>9
<1>14. ASSUME NEW k \in 0..(n - 2)
       PROVE  d[k] \in Pid
  <2> DEFINE source == IF k < i THEN k ELSE k + 1
  <2>1. source \in 0..(n - 1)
    BY <1>1
  <2>2. d[k] = q.processes[source]
    BY <1>12
  <2> HIDE DEF d, source
  <2> QED
    BY <1>1, <2>1, <2>2
<1>15. d \in [0..(z - 1) -> Pid \cup Junk]
  <2>1. ASSUME NEW k \in 0..(z - 1)
        PROVE  d[k] \in Pid \cup Junk
    <3>1. k \in 0..(n - 2) \/ k \in (n - 1)..(z - 1)
      BY <1>1, <1>9
    <3> QED
      BY <1>13, <1>14, <3>1
  <2> QED
    BY <2>1
<1> HIDE DEF d
<1>16. /\ h.length = n - 1 /\ h.size = z /\ h.processes = d
       /\ Prefix(h) = 0..(n - 2)
  BY <1>1, <1>10 DEF Prefix
<1>17. h \in [processes : [0..(h.size - 1) -> Pid \cup Junk],
              length : 0..h.size, size : Nat \ {0}]
  BY <1>1, <1>9, <1>10, <1>15
<1>18. ASSUME NEW j \in 0..(n - 2), NEW k \in 0..(n - 2), d[j] = d[k]
       PROVE  j = k
  <2> DEFINE source(x) == IF x < i THEN x ELSE x + 1
  <2>1. source(j) \in Prefix(q) /\ source(k) \in Prefix(q)
    BY <1>1 DEF Prefix
  <2>2. q.processes[source(j)] = q.processes[source(k)]
    BY <1>12, <1>18
  <2>3. source(j) = source(k)
    BY <2>1, <2>2 DEF ArrayOf
  <2> QED
    BY <1>1, <2>3
<1>19. ArrayOf(h)
  BY <1>13, <1>14, <1>16, <1>17, <1>18 DEF ArrayOf
<1> QED
  BY <1>11, <1>12, <1>16, <1>19 DEF h, u, Tight

-----------------------------------------------------------------------------
(* All the queues                                                          *)

\* pid is queued at level l of m.
At(m, l, pid) == l \in Level(m) /\ Has(m.queues[l], pid)

\* Who is queued.
Held(m) == {pid \in Pid : \E l \in Level(m) : Has(m.queues[l], pid)}

(***************************************************************************)
(* What the operators keep: arrays as above at every level, nobody in two  *)
(* of them.                                                                *)
(***************************************************************************)
WellFormed(m) ==
  /\ m.levels \in 1..MAX_QUEUE_LEVELS
  /\ m = [queues |-> m.queues, levels |-> m.levels, processCount |-> m.processCount]
  /\ m.queues = [l \in Level(m) |-> m.queues[l]]
  /\ \A l \in Level(m) : ArrayOf(m.queues[l]) /\ Tight(m.queues[l])
  /\ \A k, l \in Level(m), pid \in Pid :
       At(m, k, pid) /\ At(m, l, pid) => k = l

MlfqOf(m) == WellFormed(m) /\ m.processCount = Cardinality(Held(m))

\* In r, pid is at level l, or nowhere if there is no such level; all others
\* are where they are in m.
Relocated(m, r, pid, l) ==
  \A k \in 0..MAX_QUEUE_LEVELS :
    \A x : At(r, k, x) <=> IF x = pid THEN k = l ELSE At(m, k, x)

LEMMA Levels ==
  ASSUME NEW m, WellFormed(m)
  PROVE  /\ m.levels \in Nat /\ 1 <= m.levels /\ m.levels <= MAX_QUEUE_LEVELS
         /\ MAX_QUEUE_LEVELS \in Nat
         /\ Level(m) \subseteq 0..MAX_QUEUE_LEVELS
         /\ 0 \in Level(m) /\ 1 \in Level(m) /\ m.levels \in Level(m)
         /\ DOMAIN m.queues = Level(m)
         /\ m = [queues |-> m.queues, levels |-> m.levels,
                 processCount |-> m.processCount]
<1>1. m.levels \in 1..MAX_QUEUE_LEVELS /\ MAX_QUEUE_LEVELS \in Nat
  BY ConfigAssumption DEF WellFormed
<1>2. m.queues = [l \in Level(m) |-> m.queues[l]]
  BY DEF WellFormed
<1>3. DOMAIN m.queues = Level(m)
  BY <1>2
<1>4. m = [queues |-> m.queues, levels |-> m.levels, processCount |-> m.processCount]
  BY DEF WellFormed
<1> QED
  BY <1>1, <1>3, <1>4 DEF Level

(***************************************************************************)
(* What inMLFQ can find: the words past a queue's length are no process's. *)
(***************************************************************************)
LEMMA PositionsAreQueued ==
  ASSUME NEW m, WellFormed(m), NEW pid, pid \notin Junk,
         NEW p \in Positions(m, pid)
  PROVE  /\ p = [level |-> p.level, index |-> p.index]
         /\ p.level \in Level(m)
         /\ p.index \in Prefix(m.queues[p.level])
         /\ m.queues[p.level].processes[p.index] = pid
<1>1. /\ p \in UNION {{[level |-> l, index |-> i] : i \in 0..(m.queues[l].size - 1)} :
                        l \in Level(m)}
      /\ m.queues[p.level].processes[p.index] = pid
  BY DEF Positions
<1>2. PICK l \in Level(m) :
        p \in {[level |-> l, index |-> i] : i \in 0..(m.queues[l].size - 1)}
  BY <1>1
<1>3. PICK i \in 0..(m.queues[l].size - 1) : p = [level |-> l, index |-> i]
  BY <1>2
<1>4. p.level = l /\ p.index = i
  BY <1>3
<1>5. ArrayOf(m.queues[l])
  BY DEF WellFormed
<1>6. m.queues[l].size \in Nat /\ m.queues[l].length \in Nat
  BY <1>5, ArrayFacts
<1>7. ~ (i \in m.queues[l].length..(m.queues[l].size - 1))
  BY <1>1, <1>4, <1>5 DEF ArrayOf
<1>8. i \in Prefix(m.queues[l])
  BY <1>6, <1>7 DEF Prefix
<1> QED
  BY <1>1, <1>3, <1>4, <1>8

(***************************************************************************)
(* inMLFQ searches words past the queues' lengths too.  What it finds is   *)
(* the process's place nevertheless, and it is where the process is.       *)
(***************************************************************************)
LEMMA SearchFinds ==
  ASSUME NEW m, WellFormed(m), NEW pid, pid \notin Junk
  PROVE  LET p == inMLFQ(m, pid)
         IN  \/ /\ p.level \in Level(m)
                /\ p.index \in Prefix(m.queues[p.level])
                /\ m.queues[p.level].processes[p.index] = pid
             \/ /\ \A l \in Level(m) : ~ At(m, l, pid)
                /\ p = [level |-> -1, index |-> -1]
<1> DEFINE found == Positions(m, pid)
           all == UNION {{[level |-> l, index |-> i] : i \in 0..(m.queues[l].size - 1)} :
                           l \in Level(m)}
           level == LeastOf({p.level : p \in found})
           indices == {p.index : p \in {q \in found : q.level = level}}
<1>1. \A p \in found : /\ p.level \in Level(m)
                       /\ p.index \in Prefix(m.queues[p.level])
                       /\ m.queues[p.level].processes[p.index] = pid
  BY PositionsAreQueued
<1>2. ASSUME NEW l \in Level(m), At(m, l, pid)
      PROVE  found # {}
  <2>1. PICK i \in Prefix(m.queues[l]) : m.queues[l].processes[i] = pid
    BY <1>2 DEF At, Has
  <2>2. ArrayOf(m.queues[l])
    BY DEF WellFormed
  <2>3. i \in 0..(m.queues[l].size - 1)
    BY <2>2, ArrayFacts DEF Prefix
  <2> DEFINE p == [level |-> l, index |-> i]
  <2>4. p \in all /\ p.level = l /\ p.index = i
    BY <2>3
  <2>5. m.queues[p.level].processes[p.index] = pid
    BY <2>1, <2>4
  <2> HIDE DEF p
  <2>6. p \in found
    BY <2>4, <2>5 DEF Positions
  <2> QED
    BY <2>6
<1>3. CASE found = {}
  <2>1. inMLFQ(m, pid) = [level |-> -1, index |-> -1]
    BY <1>3 DEF inMLFQ
  <2> QED
    BY <1>2, <1>3, <2>1
<1>4. CASE found # {}
  <2>1. inMLFQ(m, pid) = [level |-> level, index |-> LeastOf(indices)]
    BY <1>4 DEF inMLFQ
  <2>2. {p.level : p \in found} # {} /\ {p.level : p \in found} \subseteq Nat
    BY <1>1, <1>4, Levels
  <2>3. level \in {p.level : p \in found}
    BY <2>2, LeastOfIsLeast
  <2> HIDE DEF level, found
  <2>4. indices # {}
    BY <2>3
  <2>5. indices \subseteq Nat
    BY <1>1 DEF Prefix
  <2>6. LeastOf(indices) \in indices
    BY <2>4, <2>5, LeastOfIsLeast
  <2>7. PICK p \in found : p.level = level /\ p.index = LeastOf(indices)
    BY <2>6
  <2> HIDE DEF indices
  <2>8. inMLFQ(m, pid).level = p.level /\ inMLFQ(m, pid).index = p.index
    BY <2>1, <2>7
  <2> QED
    BY <1>1, <2>8
<1> QED
  BY <1>3, <1>4

-----------------------------------------------------------------------------
(* Arrays as sequences                                                     *)

ListOf(q) == [i \in 1..q.length |-> q.processes[i - 1]]

\* The processes of level l in their order; none if the level is not there.
Listed(m, l) == IF l \in Level(m) THEN ListOf(m.queues[l]) ELSE <<>>

LEMMA ListIsSequence ==
  ASSUME NEW q, ArrayOf(q)
  PROVE  /\ ListOf(q) \in Seq(Pid)
         /\ Len(ListOf(q)) = q.length
         /\ DOMAIN ListOf(q) = 1..q.length
         /\ \A i \in 1..q.length : ListOf(q)[i] = q.processes[i - 1]
<1>1. q.length \in Nat
  BY ArrayFacts
<1>2. \A i \in 1..q.length : q.processes[i - 1] \in Pid
  BY <1>1 DEF ArrayOf, Prefix
<1>3. ListOf(q) \in [1..q.length -> Pid]
  BY <1>2 DEF ListOf
<1>4. ListOf(q) \in Seq(Pid)
  BY <1>1, <1>3
<1>5. Len(ListOf(q)) = q.length
  BY <1>1, <1>3, <1>4
<1> QED
  BY <1>4, <1>5 DEF ListOf

LEMMA AppendedList ==
  ASSUME CleanHeap, NEW q, ArrayOf(q), NEW pid \in Pid, ~ Has(q, pid),
         NEW r \in WithSpace(q)
  PROVE  ListOf(Appended(r, pid)) = Append(ListOf(q), pid)
<1> DEFINE a == Appended(r, pid)
           n == q.length
<1>1. /\ ArrayOf(a) /\ a.length = n + 1
      /\ \A i \in Prefix(q) : a.processes[i] = q.processes[i]
      /\ a.processes[n] = pid
  BY AppendedArray
<1>2. n \in Nat
  BY ArrayFacts
<1>3. /\ ListOf(q) \in Seq(Pid) /\ Len(ListOf(q)) = n
      /\ \A i \in 1..n : ListOf(q)[i] = q.processes[i - 1]
  BY ListIsSequence
<1> HIDE DEF a
<1>4. /\ ListOf(a) \in Seq(Pid) /\ Len(ListOf(a)) = n + 1
      /\ \A i \in 1..(n + 1) : ListOf(a)[i] = a.processes[i - 1]
  BY <1>1, ListIsSequence
<1> DEFINE b == Append(ListOf(q), pid)
<1>5. /\ b \in Seq(Pid) /\ Len(b) = n + 1
      /\ \A i \in 1..n : b[i] = ListOf(q)[i]
      /\ b[n + 1] = pid
  BY <1>3, AppendProperties
<1>6. ASSUME NEW i \in 1..(n + 1)
      PROVE  ListOf(a)[i] = b[i]
  <2>1. CASE i = n + 1
    BY <1>1, <1>2, <1>4, <1>5, <2>1
  <2>2. CASE i # n + 1
    <3>1. i \in 1..n /\ i - 1 \in Prefix(q)
      BY <1>2, <2>2 DEF Prefix
    <3> QED
      BY <1>1, <1>3, <1>4, <1>5, <3>1
  <2> QED
    BY <2>1, <2>2
<1> HIDE DEF b
<1>7. ListOf(a) = b
  BY <1>2, <1>4, <1>5, <1>6, SeqEqual
<1> QED
  BY <1>7 DEF a, b

LEMMA DroppedElsewhere ==
  ASSUME NEW q, ArrayOf(q), NEW pid, ~ Has(q, pid)
  PROVE  FQ!DroppedFrom(ListOf(q), pid) = ListOf(q)
<1>1. \A i \in DOMAIN ListOf(q) : ListOf(q)[i] # pid
  <2> TAKE i \in DOMAIN ListOf(q)
  <2>1. i \in 1..q.length /\ ListOf(q)[i] = q.processes[i - 1] /\ q.length \in Nat
    BY ListIsSequence, ArrayFacts
  <2>2. i - 1 \in Prefix(q)
    BY <2>1 DEF Prefix
  <2> QED
    BY <2>1, <2>2 DEF Has
<1> QED
  BY <1>1 DEF FQ!DroppedFrom

LEMMA DroppedList ==
  ASSUME CleanHeap, NEW q, ArrayOf(q), NEW i \in Prefix(q)
  PROVE  ListOf(Halved(Without(q, i))) = FQ!DroppedFrom(ListOf(q), q.processes[i])
<1> DEFINE h == Halved(Without(q, i))
           n == q.length
           pid == q.processes[i]
           s == ListOf(q)
           front == SubSeq(s, 1, i)
           back == SubSeq(s, i + 2, n)
<1>1. /\ ArrayOf(h) /\ h.length = n - 1
      /\ \A k \in 0..(n - 2) : h.processes[k] = q.processes[IF k < i THEN k ELSE k + 1]
  BY RemovedArray
<1>2. n \in Nat /\ i \in Nat /\ i < n
  BY ArrayFacts DEF Prefix
<1>3. /\ s \in Seq(Pid) /\ Len(s) = n /\ DOMAIN s = 1..n
      /\ \A k \in 1..n : s[k] = q.processes[k - 1]
  BY ListIsSequence
<1> HIDE DEF h
<1>4. /\ ListOf(h) \in Seq(Pid) /\ Len(ListOf(h)) = n - 1
      /\ \A k \in 1..(n - 1) : ListOf(h)[k] = h.processes[k - 1]
  BY <1>1, ListIsSequence
<1> HIDE DEF s, pid
<1>5. FQ!DroppedFrom(s, pid) = front \o back
  <2> DEFINE at == CHOOSE k \in DOMAIN s : s[k] = pid
  <2>1. i + 1 \in DOMAIN s /\ s[i + 1] = pid
    BY <1>2, <1>3 DEF pid
  <2>2. at \in DOMAIN s /\ s[at] = pid
    BY <2>1
  <2> HIDE DEF at
  <2>3. at - 1 \in Prefix(q) /\ q.processes[at - 1] = q.processes[i]
    BY <1>2, <1>3, <2>2 DEF Prefix, pid
  <2>4. at = i + 1
    BY <1>2, <1>3, <2>2, <2>3 DEF ArrayOf
  <2>5. FQ!DroppedFrom(s, pid) = FQ!RemoveAt(s, at)
    BY <2>1 DEF FQ!DroppedFrom, at
  <2>6. at - 1 = i /\ at + 1 = i + 2
    BY <1>2, <2>4
  <2> QED
    BY <1>3, <2>5, <2>6 DEF FQ!RemoveAt
<1>6. /\ front \in Seq(Pid) /\ Len(front) = i
      /\ \A k \in 1..i : front[k] = s[k]
  <2>1. 1 \in 1..(Len(s) + 1) /\ i \in 0..Len(s)
    BY <1>2, <1>3
  <2> QED
    BY <1>2, <1>3, <2>1, SubSeqProperties
<1>7. /\ back \in Seq(Pid) /\ Len(back) = n - 1 - i
      /\ \A k \in 1..(n - 1 - i) : back[k] = s[i + 1 + k]
  <2>1. i + 2 \in 1..(Len(s) + 1) /\ n \in (i + 2 - 1)..Len(s)
    BY <1>2, <1>3
  <2> QED
    BY <1>2, <1>3, <2>1, SubSeqProperties
<1> HIDE DEF front, back
<1> DEFINE d == front \o back
<1>8. /\ d \in Seq(Pid) /\ Len(d) = n - 1
      /\ \A k \in 1..(n - 1) : d[k] = IF k <= i THEN front[k] ELSE back[k - i]
  <2>1. /\ d \in Seq(Pid) /\ Len(d) = Len(front) + Len(back)
        /\ \A k \in 1..(Len(front) + Len(back)) :
             d[k] = IF k <= Len(front) THEN front[k] ELSE back[k - Len(front)]
    BY <1>6, <1>7, ConcatProperties
  <2> HIDE DEF d
  <2>2. Len(front) + Len(back) = n - 1
    BY <1>2, <1>6, <1>7
  <2> QED
    BY <1>6, <2>1, <2>2
<1> HIDE DEF d
<1>9. ASSUME NEW k \in 1..(n - 1)
      PROVE  ListOf(h)[k] = d[k]
  <2>1. ListOf(h)[k] = q.processes[IF k - 1 < i THEN k - 1 ELSE k]
    BY <1>1, <1>2, <1>4
  <2>2. CASE k <= i
    BY <1>2, <1>3, <1>6, <1>8, <2>1, <2>2
  <2>3. CASE k > i
    <3>1. k - i \in 1..(n - 1 - i) /\ k + 1 \in 1..n /\ i + 1 + (k - i) = k + 1
      BY <1>2, <2>3
    <3>2. d[k] = back[k - i]
      BY <1>2, <1>8, <2>3
    <3>3. d[k] = s[k + 1]
      BY <1>7, <3>1, <3>2
    <3>4. s[k + 1] = q.processes[(k + 1) - 1]
      BY <1>3, <3>1
    <3>5. (k + 1) - 1 = k /\ ~ (k - 1 < i)
      BY <1>2, <2>3
    <3> QED
      BY <2>1, <3>3, <3>4, <3>5
  <2> QED
    BY <1>2, <2>2, <2>3
<1>10. ListOf(h) = d
  BY <1>2, <1>4, <1>8, <1>9, SeqEqual
<1> QED
  BY <1>5, <1>10 DEF h, d, s, pid

-----------------------------------------------------------------------------
(* Writing one queue back                                                  *)

Replaced(m, l, q, count) ==
  [m EXCEPT !.queues[l] = q, !.processCount = count]

LEMMA ReplacedFields ==
  ASSUME NEW m, WellFormed(m), NEW l \in Level(m), NEW q, NEW count
  PROVE  LET r == Replaced(m, l, q, count)
         IN  /\ r = [queues |-> r.queues, levels |-> r.levels,
                     processCount |-> r.processCount]
             /\ r.levels = m.levels /\ Level(r) = Level(m)
             /\ r.processCount = count
             /\ r.queues = [k \in Level(m) |-> IF k = l THEN q ELSE m.queues[k]]
<1> DEFINE queues == [m.queues EXCEPT ![l] = q]
           r == Replaced(m, l, q, count)
           x == [m EXCEPT !.queues = queues]
<1>1. m = [queues |-> m.queues, levels |-> m.levels, processCount |-> m.processCount]
  BY DEF WellFormed
<1>2. x = [queues |-> queues, levels |-> m.levels, processCount |-> m.processCount]
  BY <1>1
<1>3. r = [x EXCEPT !.processCount = count]
  BY DEF Replaced
<1>4. queues = [k \in Level(m) |-> IF k = l THEN q ELSE m.queues[k]]
  <2>1. m.queues = [k \in Level(m) |-> m.queues[k]]
    BY DEF WellFormed
  <2> QED
    BY <2>1
<1> HIDE DEF x, queues, r
<1>5. r = [queues |-> queues, levels |-> m.levels, processCount |-> count]
  BY <1>2, <1>3
<1>6. r.queues = queues /\ r.levels = m.levels /\ r.processCount = count
  BY <1>5
<1>7. Level(r) = Level(m)
  BY <1>6 DEF Level
<1>8. r = [queues |-> r.queues, levels |-> r.levels, processCount |-> r.processCount]
  BY <1>5, <1>6
<1> QED
  BY <1>4, <1>6, <1>7, <1>8 DEF r

(***************************************************************************)
(* It is harmless if everybody in the new array was in the old one or in   *)
(* none.                                                                   *)
(***************************************************************************)
LEMMA ReplacedIsWellFormed ==
  ASSUME NEW m, WellFormed(m), NEW l \in Level(m), NEW count,
         NEW q, ArrayOf(q), Tight(q),
         \A x \in Pid : Has(q, x) => At(m, l, x) \/ \A k \in Level(m) : ~ At(m, k, x)
  PROVE  /\ WellFormed(Replaced(m, l, q, count))
         /\ \A k, x : At(Replaced(m, l, q, count), k, x)
                        <=> IF k = l THEN Has(q, x) ELSE At(m, k, x)
<1> DEFINE r == Replaced(m, l, q, count)
<1>1. /\ r = [queues |-> r.queues, levels |-> r.levels, processCount |-> r.processCount]
      /\ r.levels = m.levels /\ Level(r) = Level(m)
      /\ r.queues = [k \in Level(m) |-> IF k = l THEN q ELSE m.queues[k]]
  BY ReplacedFields
<1> HIDE DEF r
<1>2. /\ r.queues[l] = q
      /\ \A k \in Level(m) : k # l => r.queues[k] = m.queues[k]
  BY <1>1
<1>3. \A k, x : At(r, k, x) <=> IF k = l THEN Has(q, x) ELSE At(m, k, x)
  BY <1>1, <1>2 DEF At
<1>4. r.queues = [k \in Level(r) |-> r.queues[k]]
  BY <1>1
<1>5. \A k \in Level(r) : ArrayOf(r.queues[k]) /\ Tight(r.queues[k])
  BY <1>1, <1>2 DEF WellFormed
<1>6. ASSUME NEW j \in Level(r), NEW k \in Level(r), NEW x \in Pid,
             At(r, j, x), At(r, k, x)
      PROVE  j = k
  <2>1. j \in Level(m) /\ k \in Level(m)
    BY <1>1
  <2> QED
    BY <1>3, <1>6, <2>1 DEF WellFormed
<1>7. r.levels \in 1..MAX_QUEUE_LEVELS
  BY <1>1 DEF WellFormed
<1>8. WellFormed(r)
  BY <1>1, <1>4, <1>5, <1>6, <1>7 DEF WellFormed
<1> QED
  BY <1>3, <1>8 DEF r

-----------------------------------------------------------------------------
(* Adding a process                                                        *)

LEMMA HasAppended ==
  ASSUME CleanHeap, NEW q, ArrayOf(q), NEW pid \in Pid, ~ Has(q, pid),
         NEW r \in WithSpace(q), NEW x
  PROVE  Has(Appended(r, pid), x) <=> Has(q, x) \/ x = pid
<1> DEFINE a == Appended(r, pid)
<1>1. /\ a.length = q.length + 1
      /\ \A i \in Prefix(q) : a.processes[i] = q.processes[i]
      /\ a.processes[q.length] = pid
  BY AppendedArray
<1>2. q.length \in Nat
  BY ArrayFacts
<1> HIDE DEF a
<1>3. q.length \in Prefix(a)
  BY <1>1, <1>2 DEF Prefix
<1>4. \A i \in Prefix(q) : i \in Prefix(a)
  BY <1>1, <1>2 DEF Prefix
<1>5. \A i \in Prefix(a) : i \in Prefix(q) \/ i = q.length
  BY <1>1, <1>2 DEF Prefix
<1>6. Has(a, x) <=> Has(q, x) \/ x = pid
  BY <1>1, <1>3, <1>4, <1>5 DEF Has
<1> QED
  BY <1>6 DEF a

LEMMA HeldIsFinite ==
  ASSUME NEW m
  PROVE  /\ IsFiniteSet(Pid) /\ IsFiniteSet(Held(m))
         /\ Cardinality(Held(m)) \in Nat /\ Cardinality(Held(m)) <= Cardinality(Pid)
<1>1. MAX_PROCS - 1 \in Int /\ 1 \in Int
  BY ConfigAssumption
<1>2. IsFiniteSet(1..(MAX_PROCS - 1))
  BY <1>1, FS_Interval
<1>3. IsFiniteSet((1..(MAX_PROCS - 1)) \cup {CONSOLE_PID})
  BY <1>2, FS_AddElement
<1>4. Pid = (1..(MAX_PROCS - 1)) \cup {CONSOLE_PID}
  BY DEF Pid
<1>5. IsFiniteSet(Pid)
  BY <1>3, <1>4
<1>6. Held(m) \subseteq Pid
  BY DEF Held
<1> QED
  BY <1>5, <1>6, FS_Subset, FS_CardinalityType

LEMMA AddedProcess ==
  ASSUME CleanHeap, NEW m, MlfqOf(m), NEW pid \in Pid, pid \notin Held(m),
         NEW l \in Level(m), NEW r \in addToQueue(m, pid, l)
  PROVE  /\ MlfqOf(r)
         /\ r.levels = m.levels
         /\ Held(r) = Held(m) \cup {pid}
         /\ \A k, x : At(r, k, x) <=> At(m, k, x) \/ (k = l /\ x = pid)
         /\ Listed(r, l) = Append(Listed(m, l), pid)
         /\ \A k : k # l => Listed(r, k) = Listed(m, k)
<1> DEFINE q == m.queues[l]
<1>1. WellFormed(m) /\ m.processCount = Cardinality(Held(m))
  BY DEF MlfqOf
<1>2. PICK w \in WithSpace(q) :
        r = [m EXCEPT !.queues[l] = Appended(w, pid), !.processCount = @ + 1]
  BY DEF addToQueue
<1> DEFINE a == Appended(w, pid)
<1>3. r = Replaced(m, l, a, m.processCount + 1)
  BY <1>2 DEF Replaced
<1>4. ArrayOf(q) /\ Tight(q)
  BY <1>1 DEF WellFormed
<1>5. \A k \in Level(m) : ~ At(m, k, pid)
  BY DEF Held, At
<1>6. ~ Has(q, pid)
  BY <1>5 DEF At
<1>7. ArrayOf(a) /\ Tight(a)
  BY <1>4, <1>6, AppendedArray
<1>8. \A x : Has(a, x) <=> Has(q, x) \/ x = pid
  BY <1>4, <1>6, HasAppended
<1>9. ListOf(a) = Append(ListOf(q), pid)
  BY <1>4, <1>6, AppendedList
<1> HIDE DEF a
<1>10. \A x \in Pid : Has(a, x) => At(m, l, x) \/ \A k \in Level(m) : ~ At(m, k, x)
  BY <1>5, <1>8 DEF At
<1>11. /\ WellFormed(r)
       /\ \A k, x : At(r, k, x) <=> IF k = l THEN Has(a, x) ELSE At(m, k, x)
  BY <1>1, <1>3, <1>7, <1>10, ReplacedIsWellFormed
<1>12. /\ r.levels = m.levels /\ Level(r) = Level(m)
       /\ r.processCount = m.processCount + 1
       /\ r.queues = [k \in Level(m) |-> IF k = l THEN a ELSE m.queues[k]]
  BY <1>1, <1>3, ReplacedFields
<1>13. \A k, x : At(r, k, x) <=> At(m, k, x) \/ (k = l /\ x = pid)
  BY <1>8, <1>11 DEF At
<1>14. Held(r) = Held(m) \cup {pid}
  <2>1. \A x \in Pid : x \in Held(r) <=> x \in Held(m) \/ x = pid
    BY <1>12, <1>13 DEF Held, At
  <2> QED
    BY <2>1 DEF Held
<1>15. r.processCount = Cardinality(Held(r))
  BY <1>1, <1>12, <1>14, HeldIsFinite, FS_AddElement
<1>16. Listed(r, l) = Append(Listed(m, l), pid)
  BY <1>9, <1>12 DEF Listed
<1>17. \A k : k # l => Listed(r, k) = Listed(m, k)
  BY <1>12 DEF Listed
<1> QED
  BY <1>11, <1>12, <1>13, <1>14, <1>15, <1>16, <1>17 DEF MlfqOf

-----------------------------------------------------------------------------
(* Removing a process                                                      *)

LEMMA HasRemoved ==
  ASSUME CleanHeap, NEW q, ArrayOf(q), NEW i \in Prefix(q), NEW x
  PROVE  Has(Halved(Without(q, i)), x) <=> Has(q, x) /\ x # q.processes[i]
<1> DEFINE h == Halved(Without(q, i))
           n == q.length
           source(k) == IF k < i THEN k ELSE k + 1
<1>1. /\ h.length = n - 1
      /\ \A k \in 0..(n - 2) : h.processes[k] = q.processes[source(k)]
  BY RemovedArray
<1>2. n \in Nat /\ i \in Nat /\ i < n
  BY ArrayFacts DEF Prefix
<1> HIDE DEF h
<1>3. Prefix(h) = 0..(n - 2)
  BY <1>1, <1>2 DEF Prefix
<1>4. ASSUME Has(h, x)
      PROVE  Has(q, x) /\ x # q.processes[i]
  <2>1. PICK k \in 0..(n - 2) : h.processes[k] = x
    BY <1>3, <1>4 DEF Has
  <2>2. source(k) \in Prefix(q) /\ source(k) # i
    BY <1>2 DEF Prefix
  <2>3. x = q.processes[source(k)]
    BY <1>1, <2>1
  <2> HIDE DEF source
  <2> QED
    BY <2>2, <2>3 DEF Has, ArrayOf
<1>5. ASSUME Has(q, x), x # q.processes[i]
      PROVE  Has(h, x)
  <2>1. PICK j \in Prefix(q) : q.processes[j] = x
    BY <1>5 DEF Has
  <2> DEFINE k == IF j < i THEN j ELSE j - 1
  <2>2. k \in 0..(n - 2) /\ source(k) = j
    BY <1>2, <1>5, <2>1 DEF Prefix
  <2>3. h.processes[k] = x
    BY <1>1, <2>1, <2>2
  <2> HIDE DEF k
  <2> QED
    BY <1>3, <2>2, <2>3 DEF Has
<1> QED
  BY <1>4, <1>5 DEF h

(***************************************************************************)
(* Deleting the last level when it is empty loses nobody.                  *)
(***************************************************************************)
LEMMA LastLevelDropped ==
  ASSUME NEW m, WellFormed(m), m.levels > 1, m.queues[m.levels].length = 0
  PROVE  LET r == WithoutLastLevel(m)
         IN  /\ WellFormed(r)
             /\ r.levels = m.levels - 1 /\ r.processCount = m.processCount
             /\ \A k, x : At(r, k, x) <=> At(m, k, x)
             /\ \A k : Listed(r, k) = Listed(m, k)
<1> DEFINE r == WithoutLastLevel(m)
           queues == [l \in 0..(m.levels - 1) |-> m.queues[l]]
           x == [m EXCEPT !.levels = m.levels - 1]
           last == m.queues[m.levels]
<1>1. /\ m.levels \in Nat /\ 1 <= m.levels /\ m.levels <= MAX_QUEUE_LEVELS
      /\ MAX_QUEUE_LEVELS \in Nat
      /\ m.levels \in Level(m)
      /\ m = [queues |-> m.queues, levels |-> m.levels, processCount |-> m.processCount]
  BY Levels
<1>2. r = [queues |-> queues, levels |-> m.levels - 1, processCount |-> m.processCount]
  <2>1. x = [queues |-> m.queues, levels |-> m.levels - 1, processCount |-> m.processCount]
    BY <1>1
  <2>2. r = [x EXCEPT !.queues = queues]
    BY <1>1 DEF WithoutLastLevel
  <2> HIDE DEF x, queues, r
  <2> QED
    BY <2>1, <2>2
<1> HIDE DEF r
<1>3. /\ r.queues = queues /\ r.levels = m.levels - 1
      /\ r.processCount = m.processCount
      /\ Level(r) = 0..(m.levels - 1)
  BY <1>2 DEF Level
<1>4. \A k : k \in Level(m) <=> k \in Level(r) \/ k = m.levels
  BY <1>1, <1>3 DEF Level
<1>5. \A k \in Level(r) : r.queues[k] = m.queues[k]
  BY <1>3
<1>6. ~ (m.levels \in Level(r))
  BY <1>1, <1>3
<1>7. last.length = 0
  OBVIOUS
<1> HIDE DEF queues, last
<1>8. \A y : ~ Has(last, y)
  <2>1. Prefix(last) = {}
    BY <1>7 DEF Prefix
  <2> QED
    BY <2>1 DEF Has
<1>9. ListOf(last) = <<>>
  BY <1>7 DEF ListOf
<1>10. \A k, y : At(r, k, y) <=> At(m, k, y)
  BY <1>4, <1>5, <1>8 DEF At, last
<1>11. \A k : Listed(r, k) = Listed(m, k)
  BY <1>4, <1>5, <1>6, <1>9 DEF Listed, last
<1>12. WellFormed(r)
  <2>1. r.levels \in 1..MAX_QUEUE_LEVELS
    BY <1>1, <1>3
  <2>2. r.queues = [k \in Level(r) |-> r.queues[k]]
    BY <1>3 DEF queues
  <2>3. r = [queues |-> r.queues, levels |-> r.levels, processCount |-> r.processCount]
    BY <1>2, <1>3
  <2>4. \A k \in Level(r) : ArrayOf(r.queues[k]) /\ Tight(r.queues[k])
    BY <1>4, <1>5 DEF WellFormed
  <2>5. \A j, k \in Level(r), y \in Pid : At(r, j, y) /\ At(r, k, y) => j = k
    BY <1>4, <1>10 DEF WellFormed
  <2> QED
    BY <2>1, <2>2, <2>3, <2>4, <2>5 DEF WellFormed
<1> QED
  BY <1>3, <1>10, <1>11, <1>12 DEF r

(***************************************************************************)
(* removeFromMLFQ takes out its process wherever it is, and nobody else.   *)
(***************************************************************************)
LEMMA RemovedProcess ==
  ASSUME CleanHeap, NEW m, MlfqOf(m), NEW pid \in Pid
  PROVE  LET r == removeFromMLFQ(m, pid)
         IN  /\ MlfqOf(r)
             /\ r.levels = m.levels \/ r.levels = m.levels - 1
             /\ Held(r) = Held(m) \ {pid}
             /\ \A k, x : At(r, k, x) <=> At(m, k, x) /\ x # pid
             /\ \A k : Listed(r, k) = FQ!DroppedFrom(Listed(m, k), pid)
<1> DEFINE r == removeFromMLFQ(m, pid)
           p == inMLFQ(m, pid)
           q == m.queues[p.level]
           h == Halved(Without(q, p.index))
           removed == Replaced(m, p.level, h, m.processCount - 1)
<1>1. WellFormed(m) /\ m.processCount = Cardinality(Held(m))
  BY DEF MlfqOf
<1>2. pid \notin Junk
  BY DEF CleanHeap
<1>3. FQ!DroppedFrom(<<>>, pid) = <<>>
  BY DEF FQ!DroppedFrom
<1>4. CASE /\ \A l \in Level(m) : ~ At(m, l, pid)
           /\ p = [level |-> -1, index |-> -1]
  <2>1. r = m
    BY <1>4 DEF removeFromMLFQ
  <2>2. \A k, x : At(m, k, x) => x # pid
    BY <1>4 DEF At
  <2>3. pid \notin Held(m)
    BY <1>4 DEF Held, At
  <2>4. ASSUME NEW k
        PROVE  Listed(m, k) = FQ!DroppedFrom(Listed(m, k), pid)
    <3>1. CASE k \in Level(m)
      <4>1. ArrayOf(m.queues[k]) /\ ~ Has(m.queues[k], pid)
        BY <1>1, <1>4, <3>1 DEF WellFormed, At
      <4> QED
        BY <3>1, <4>1, DroppedElsewhere DEF Listed
    <3>2. CASE k \notin Level(m)
      BY <1>3, <3>2 DEF Listed
    <3> QED
      BY <3>1, <3>2
  <2> QED
    BY <2>1, <2>2, <2>3, <2>4
<1>5. CASE /\ p.level \in Level(m)
           /\ p.index \in Prefix(q)
           /\ q.processes[p.index] = pid
  <2>1. ArrayOf(q) /\ Tight(q)
    BY <1>1, <1>5 DEF WellFormed
  <2>2. ArrayOf(h) /\ Tight(h)
    BY <1>5, <2>1, RemovedArray
  <2>3. \A x : Has(h, x) <=> Has(q, x) /\ x # pid
    BY <1>5, <2>1, HasRemoved
  <2>4. ListOf(h) = FQ!DroppedFrom(ListOf(q), pid)
    BY <1>5, <2>1, DroppedList
  <2>5. r = IF p.level > 0 /\ p.level >= m.levels /\ h.length <= 0 /\ m.levels > 1
            THEN WithoutLastLevel(removed)
            ELSE removed
    <3>1. ~ (p.level < 0)
      BY <1>1, <1>5, Levels DEF Level
    <3> QED
      BY <3>1 DEF removeFromMLFQ, Replaced
  <2>6. /\ h.length \in Nat
        /\ p.level \in Nat /\ m.levels \in Nat /\ p.level <= m.levels
    BY <1>1, <1>5, <2>2, ArrayFacts, Levels DEF Level
  <2>7. /\ removed.levels = m.levels /\ Level(removed) = Level(m)
        /\ removed.processCount = m.processCount - 1
        /\ removed.queues = [k \in Level(m) |-> IF k = p.level THEN h ELSE m.queues[k]]
    BY <1>1, <1>5, ReplacedFields
  <2>8. /\ WellFormed(removed)
        /\ \A k, x : At(removed, k, x) <=> IF k = p.level THEN Has(h, x) ELSE At(m, k, x)
    <3>1. \A x \in Pid :
            Has(h, x) => At(m, p.level, x) \/ \A k \in Level(m) : ~ At(m, k, x)
      BY <1>5, <2>3 DEF At
    <3> QED
      BY <1>1, <1>5, <2>2, <3>1, ReplacedIsWellFormed
  <2> HIDE DEF r, removed, h
  <2>9. \A k \in Level(m) : At(m, k, pid) => k = p.level
    <3>1. At(m, p.level, pid)
      BY <1>5 DEF At, Has
    <3> QED
      BY <1>1, <1>5, <3>1 DEF WellFormed
  <2>10. \A k, x : At(removed, k, x) <=> At(m, k, x) /\ x # pid
    <3>1. \A x : At(m, p.level, x) <=> Has(q, x)
      BY <1>5 DEF At
    <3>2. \A k : At(m, k, pid) => k = p.level
      BY <2>9 DEF At
    <3> QED
      BY <2>3, <2>8, <3>1, <3>2
  <2>11. ASSUME NEW k
         PROVE  Listed(removed, k) = FQ!DroppedFrom(Listed(m, k), pid)
    <3>1. CASE k = p.level
      BY <1>5, <2>4, <2>7, <3>1 DEF Listed
    <3>2. CASE k \in Level(m) /\ k # p.level
      <4>1. ArrayOf(m.queues[k]) /\ ~ Has(m.queues[k], pid)
        BY <1>1, <2>9, <3>2 DEF WellFormed, At
      <4>2. Listed(removed, k) = ListOf(m.queues[k])
        BY <2>7, <3>2 DEF Listed
      <4>3. Listed(m, k) = ListOf(m.queues[k])
        BY <3>2 DEF Listed
      <4> QED
        BY <4>1, <4>2, <4>3, DroppedElsewhere
    <3>3. CASE k \notin Level(m)
      BY <1>3, <2>7, <3>3 DEF Listed
    <3> QED
      BY <3>1, <3>2, <3>3
  <2>12. /\ WellFormed(r) /\ r.processCount = m.processCount - 1
         /\ r.levels = m.levels \/ r.levels = m.levels - 1
         /\ \A k, x : At(r, k, x) <=> At(removed, k, x)
         /\ \A k : Listed(r, k) = Listed(removed, k)
    <3>1. CASE p.level > 0 /\ p.level >= m.levels /\ h.length <= 0 /\ m.levels > 1
      <4>1. p.level = m.levels /\ h.length = 0
        BY <2>6, <3>1
      <4>2. removed.queues[removed.levels] = h /\ removed.levels > 1
        BY <1>5, <2>7, <3>1, <4>1
      <4>3. r = WithoutLastLevel(removed)
        BY <2>5, <3>1
      <4>4. /\ WellFormed(r)
            /\ r.levels = removed.levels - 1 /\ r.processCount = removed.processCount
            /\ \A k, x : At(r, k, x) <=> At(removed, k, x)
            /\ \A k : Listed(r, k) = Listed(removed, k)
        BY <2>8, <4>1, <4>2, <4>3, LastLevelDropped
      <4> QED
        BY <2>7, <4>4
    <3>2. CASE ~ (p.level > 0 /\ p.level >= m.levels /\ h.length <= 0 /\ m.levels > 1)
      BY <2>5, <2>7, <2>8, <3>2
    <3> QED
      BY <3>1, <3>2
  <2>13. \A k, x : At(r, k, x) <=> At(m, k, x) /\ x # pid
    BY <2>10, <2>12
  <2>14. Held(r) = Held(m) \ {pid}
    <3>1. \A x \in Pid : x \in Held(r) <=> x \in Held(m) /\ x # pid
      BY <2>13 DEF Held, At
    <3> QED
      BY <3>1 DEF Held
  <2>15. pid \in Held(m)
    BY <1>5 DEF Held, Has
  <2>16. Cardinality(Held(r)) = Cardinality(Held(m)) - 1
    BY <2>14, <2>15, HeldIsFinite, FS_RemoveElement
  <2> QED
    BY <1>1, <2>11, <2>12, <2>13, <2>14, <2>16 DEF MlfqOf, r
<1> QED
  BY <1>1, <1>2, <1>4, <1>5, SearchFinds

-----------------------------------------------------------------------------
(* Adding a level                                                          *)

LEMMA InvokedLevel ==
  ASSUME NEW m, MlfqOf(m), m.levels < MAX_QUEUE_LEVELS
  PROVE  LET r == invokeQueueFCFS(m)
         IN  /\ MlfqOf(r)
             /\ r.levels = m.levels + 1
             /\ Held(r) = Held(m)
             /\ \A k, x : At(r, k, x) <=> At(m, k, x)
             /\ \A k : Listed(r, k) = Listed(m, k)
<1> DEFINE r == invokeQueueFCFS(m)
           queues == [l \in 0..(m.levels + 1) |->
                        IF l \in Level(m) THEN m.queues[l] ELSE EmptyQueue]
           x == [m EXCEPT !.levels = m.levels + 1]
<1>1. /\ m.levels \in Nat /\ 1 <= m.levels
      /\ MAX_QUEUE_LEVELS \in Nat
      /\ m = [queues |-> m.queues, levels |-> m.levels, processCount |-> m.processCount]
  BY Levels DEF MlfqOf
<1>2. r = [queues |-> queues, levels |-> m.levels + 1, processCount |-> m.processCount]
  <2>1. x = [queues |-> m.queues, levels |-> m.levels + 1, processCount |-> m.processCount]
    BY <1>1
  <2>2. r = [x EXCEPT !.queues = queues]
    BY <1>1 DEF invokeQueueFCFS
  <2> HIDE DEF x, queues, r
  <2> QED
    BY <2>1, <2>2
<1> HIDE DEF r
<1>3. /\ r.queues = queues /\ r.levels = m.levels + 1
      /\ r.processCount = m.processCount
      /\ Level(r) = 0..(m.levels + 1)
  BY <1>2 DEF Level
<1>4. \A k : k \in Level(r) <=> k \in Level(m) \/ k = m.levels + 1
  BY <1>1, <1>3 DEF Level
<1>5. ~ (m.levels + 1 \in Level(m))
  BY <1>1 DEF Level
<1>6. /\ \A k \in Level(m) : r.queues[k] = m.queues[k]
      /\ r.queues[m.levels + 1] = EmptyQueue
  BY <1>3, <1>4, <1>5
<1> HIDE DEF queues
<1>7. /\ EmptyQueue.length = 0 /\ EmptyQueue.size = 1
      /\ EmptyQueue.processes = [i \in {0} |-> 0]
      /\ EmptyQueue \in [processes : [0..(EmptyQueue.size - 1) -> Pid \cup Junk],
                         length : 0..EmptyQueue.size, size : Nat \ {0}]
  <2>1. 0..(1 - 1) = {0}
    OBVIOUS
  <2>2. [i \in {0} |-> 0] \in [0..(1 - 1) -> Pid \cup Junk]
    BY <2>1, ZeroIsNoPid
  <2> QED
    BY <2>2 DEF EmptyQueue
<1>8. Prefix(EmptyQueue) = {}
  BY <1>7 DEF Prefix
<1>9. ArrayOf(EmptyQueue) /\ Tight(EmptyQueue)
  BY <1>7, <1>8, ZeroIsNoPid DEF ArrayOf, Tight
<1>10. (\A y : ~ Has(EmptyQueue, y)) /\ ListOf(EmptyQueue) = <<>>
  BY <1>7, <1>8 DEF Has, ListOf
<1>11. \A k, y : At(r, k, y) <=> At(m, k, y)
  BY <1>4, <1>6, <1>10 DEF At
<1>12. \A k : Listed(r, k) = Listed(m, k)
  BY <1>4, <1>5, <1>6, <1>10 DEF Listed
<1>13. Held(r) = Held(m)
  <2>1. \A y \in Pid : y \in Held(r) <=> y \in Held(m)
    BY <1>11 DEF Held, At
  <2> QED
    BY <2>1 DEF Held
<1>14. WellFormed(r)
  <2>1. r.levels \in 1..MAX_QUEUE_LEVELS
    BY <1>1, <1>3
  <2>2. r.queues = [k \in Level(r) |-> r.queues[k]]
    BY <1>3 DEF queues
  <2>3. r = [queues |-> r.queues, levels |-> r.levels, processCount |-> r.processCount]
    BY <1>2, <1>3
  <2>4. \A k \in Level(r) : ArrayOf(r.queues[k]) /\ Tight(r.queues[k])
    BY <1>4, <1>6, <1>9 DEF WellFormed, MlfqOf
  <2>5. \A j, k \in Level(r), y \in Pid : At(r, j, y) /\ At(r, k, y) => j = k
    BY <1>11 DEF WellFormed, MlfqOf, At
  <2> QED
    BY <2>1, <2>2, <2>3, <2>4, <2>5 DEF WellFormed
<1> QED
  BY <1>3, <1>11, <1>12, <1>13, <1>14 DEF MlfqOf, r

-----------------------------------------------------------------------------
(* The invariant                                                           *)

MlfqInv == MlfqOf(multiLevelQueue)

LEMMA InitialQueues ==
  /\ MlfqOf(invokeQueueMLFQ)
  /\ Held(invokeQueueMLFQ) = {}
  /\ \A l : Listed(invokeQueueMLFQ, l) = <<>>
<1> DEFINE m == invokeQueueMLFQ
<1>1. /\ m.queues = [l \in 0..1 |-> EmptyQueue] /\ m.levels = 1 /\ m.processCount = 0
      /\ m = [queues |-> m.queues, levels |-> m.levels, processCount |-> m.processCount]
      /\ Level(m) = 0..1
  BY DEF invokeQueueMLFQ, Level
<1> HIDE DEF m
<1>2. \A l \in Level(m) : m.queues[l] = EmptyQueue
  BY <1>1
<1>3. /\ EmptyQueue.length = 0 /\ EmptyQueue.size = 1
      /\ EmptyQueue \in [processes : [0..(EmptyQueue.size - 1) -> Pid \cup Junk],
                         length : 0..EmptyQueue.size, size : Nat \ {0}]
      /\ EmptyQueue.processes = [i \in {0} |-> 0]
  <2>1. 0..(1 - 1) = {0}
    OBVIOUS
  <2>2. [i \in {0} |-> 0] \in [0..(1 - 1) -> Pid \cup Junk]
    BY <2>1, ZeroIsNoPid
  <2> QED
    BY <2>2 DEF EmptyQueue
<1>4. Prefix(EmptyQueue) = {}
  BY <1>3 DEF Prefix
<1>5. ArrayOf(EmptyQueue) /\ Tight(EmptyQueue)
  BY <1>3, <1>4, ZeroIsNoPid DEF ArrayOf, Tight
<1>6. (\A y : ~ Has(EmptyQueue, y)) /\ ListOf(EmptyQueue) = <<>>
  BY <1>3, <1>4 DEF Has, ListOf
<1>7. WellFormed(m)
  <2>1. m.levels \in 1..MAX_QUEUE_LEVELS
    BY <1>1, ConfigAssumption
  <2>2. \A k, l \in Level(m), pid \in Pid : At(m, k, pid) /\ At(m, l, pid) => k = l
    BY <1>2, <1>6 DEF At
  <2> QED
    BY <1>1, <1>2, <1>5, <2>1, <2>2 DEF WellFormed
<1>8. Held(m) = {}
  BY <1>2, <1>6 DEF Held
<1>9. \A l : Listed(m, l) = <<>>
  BY <1>2, <1>6 DEF Listed
<1> QED
  BY <1>1, <1>7, <1>8, <1>9, FS_EmptySet DEF MlfqOf, m

(***************************************************************************)
(* Removing a process and putting it at the back of a level, as Demote and *)
(* ToRoundRobin do.                                                        *)
(***************************************************************************)
LEMMA MovedProcess ==
  ASSUME CleanHeap, NEW m, MlfqOf(m), NEW pid \in Pid,
         NEW l \in Level(removeFromMLFQ(m, pid)),
         NEW r \in addToQueue(removeFromMLFQ(m, pid), pid, l)
  PROVE  /\ MlfqOf(r)
         /\ Held(r) = Held(m) \cup {pid}
         /\ \A k, x : At(r, k, x) <=> IF x = pid THEN k = l ELSE At(m, k, x)
         /\ Listed(r, l) = Append(FQ!DroppedFrom(Listed(m, l), pid), pid)
         /\ \A k : k # l => Listed(r, k) = FQ!DroppedFrom(Listed(m, k), pid)
<1> DEFINE d == removeFromMLFQ(m, pid)
<1>1. /\ MlfqOf(d)
      /\ Held(d) = Held(m) \ {pid}
      /\ \A k, x : At(d, k, x) <=> At(m, k, x) /\ x # pid
      /\ \A k : Listed(d, k) = FQ!DroppedFrom(Listed(m, k), pid)
  BY RemovedProcess
<1> HIDE DEF d
<1>2. l \in Level(d) /\ r \in addToQueue(d, pid, l) /\ pid \notin Held(d)
  BY <1>1 DEF d
<1>3. /\ MlfqOf(r)
      /\ Held(r) = Held(d) \cup {pid}
      /\ \A k, x : At(r, k, x) <=> At(d, k, x) \/ (k = l /\ x = pid)
      /\ Listed(r, l) = Append(Listed(d, l), pid)
      /\ \A k : k # l => Listed(r, k) = Listed(d, k)
  BY <1>1, <1>2, AddedProcess
<1> QED
  BY <1>1, <1>3

(***************************************************************************)
(* The same for the level that Demote may have to add first.               *)
(***************************************************************************)
LEMMA DemotedProcess ==
  ASSUME CleanHeap, MlfqInv, NEW pid \in Pid, NEW l \in 1..MAX_QUEUE_LEVELS,
         Demote(pid, l)
  PROVE  /\ MlfqInv'
         /\ Relocated(multiLevelQueue, multiLevelQueue', pid, l)
         /\ Listed(multiLevelQueue', l) =
              Append(FQ!DroppedFrom(Listed(multiLevelQueue, l), pid), pid)
         /\ \A k : k # l => Listed(multiLevelQueue', k) =
                              FQ!DroppedFrom(Listed(multiLevelQueue, k), pid)
<1> DEFINE m == multiLevelQueue
           invoked == IF l = m.levels + 1 THEN invokeQueueFCFS(m) ELSE m
           removed == removeFromMLFQ(invoked, pid)
<1>1. l <= removed.levels /\ m' \in addToQueue(removed, pid, l)
  BY DEF Demote
<1>2. MlfqOf(m) /\ l \in Nat /\ 1 <= l /\ l <= MAX_QUEUE_LEVELS /\ MAX_QUEUE_LEVELS \in Nat
  BY ConfigAssumption DEF MlfqInv
<1>3. /\ MlfqOf(invoked)
      /\ \A k, x : At(invoked, k, x) <=> At(m, k, x)
      /\ \A k : Listed(invoked, k) = Listed(m, k)
  <2>1. CASE l = m.levels + 1
    <3>1. m.levels < MAX_QUEUE_LEVELS
      BY <1>2, <2>1, Levels DEF MlfqOf
    <3> QED
      BY <1>2, <2>1, <3>1, InvokedLevel
  <2>2. CASE l # m.levels + 1
    BY <1>2, <2>2
  <2> QED
    BY <2>1, <2>2
<1> HIDE DEF invoked
<1>4. l \in Level(removed)
  <2>1. removed.levels \in Nat
    BY <1>3, RemovedProcess, Levels DEF MlfqOf
  <2> QED
    BY <1>1, <1>2, <2>1 DEF Level
<1>5. /\ MlfqOf(m')
      /\ \A k, x : At(m', k, x) <=> IF x = pid THEN k = l ELSE At(invoked, k, x)
      /\ Listed(m', l) = Append(FQ!DroppedFrom(Listed(invoked, l), pid), pid)
      /\ \A k : k # l => Listed(m', k) = FQ!DroppedFrom(Listed(invoked, k), pid)
  BY <1>1, <1>3, <1>4, MovedProcess
<1> QED
  BY <1>3, <1>5 DEF MlfqInv, Relocated

-----------------------------------------------------------------------------
(* The steps, and what they are to FeedbackQueues.tla                      *)

LEMMA ContentsAreListed ==
  /\ allContents = [l \in 0..MAX_QUEUE_LEVELS |-> Listed(multiLevelQueue, l)]
  /\ allContents' = [l \in 0..MAX_QUEUE_LEVELS |-> Listed(multiLevelQueue', l)]
BY DEF allContents, Contents, Queue, Listed, ListOf

LEMMA QueuedAreHeld ==
  ASSUME MlfqInv
  PROVE  FQ!Queued = Held(multiLevelQueue)
<1> DEFINE m == multiLevelQueue
<1>1. WellFormed(m) /\ Level(m) \subseteq 0..MAX_QUEUE_LEVELS
  BY Levels DEF MlfqInv, MlfqOf
<1>2. ASSUME NEW l \in Level(m)
      PROVE  FQ!ToSet(Listed(m, l)) = {x \in Pid : Has(m.queues[l], x)}
  <2> DEFINE q == m.queues[l]
  <2>1. ArrayOf(q)
    BY <1>1 DEF WellFormed
  <2>2. /\ DOMAIN ListOf(q) = 1..q.length /\ q.length \in Nat
        /\ \A i \in 1..q.length : ListOf(q)[i] = q.processes[i - 1]
    BY <2>1, ListIsSequence, ArrayFacts
  <2>3. FQ!ToSet(ListOf(q)) = {ListOf(q)[i] : i \in 1..q.length}
    BY <2>2 DEF FQ!ToSet
  <2>4. ASSUME NEW i \in 1..q.length
        PROVE  ListOf(q)[i] \in Pid /\ Has(q, ListOf(q)[i])
    <3>1. i - 1 \in Prefix(q)
      BY <2>2 DEF Prefix
    <3> QED
      BY <2>1, <2>2, <3>1 DEF ArrayOf, Has
  <2>5. ASSUME NEW x \in Pid, Has(q, x)
        PROVE  \E i \in 1..q.length : ListOf(q)[i] = x
    <3>1. PICK k \in Prefix(q) : q.processes[k] = x
      BY <2>5 DEF Has
    <3>2. k + 1 \in 1..q.length /\ (k + 1) - 1 = k
      BY <2>2 DEF Prefix
    <3> QED
      BY <2>2, <3>1, <3>2
  <2> QED
    BY <2>3, <2>4, <2>5 DEF Listed
<1>3. \A l \in 0..MAX_QUEUE_LEVELS : l \notin Level(m) => FQ!ToSet(Listed(m, l)) = {}
  BY DEF Listed, FQ!ToSet
<1>4. FQ!Queued = UNION {FQ!ToSet(Listed(m, l)) : l \in 0..MAX_QUEUE_LEVELS}
  BY ContentsAreListed DEF FQ!Queued
<1>5. ASSUME NEW x
      PROVE  x \in FQ!Queued <=> x \in Held(m)
  <2>1. x \in FQ!Queued <=> \E l \in 0..MAX_QUEUE_LEVELS : x \in FQ!ToSet(Listed(m, l))
    BY <1>4
  <2>2. x \in Held(m) <=> \E l \in Level(m) : x \in {y \in Pid : Has(m.queues[l], y)}
    BY DEF Held
  <2> QED
    BY <1>1, <1>2, <1>3, <2>1, <2>2
<1> QED
  BY <1>5

\* Everything below is said of values of the lists only.
LEMMA MovedLists ==
  ASSUME NEW pid \in Pid, NEW l \in 0..MAX_QUEUE_LEVELS,
         Listed(multiLevelQueue', l) =
           Append(FQ!DroppedFrom(Listed(multiLevelQueue, l), pid), pid),
         \A k : k # l => Listed(multiLevelQueue', k) =
                           FQ!DroppedFrom(Listed(multiLevelQueue, k), pid)
  PROVE  FQ!Move(pid, l)
<1>1. FQ!Dropped(pid) =
        [k \in 0..MAX_QUEUE_LEVELS |-> FQ!DroppedFrom(Listed(multiLevelQueue, k), pid)]
  BY ContentsAreListed DEF FQ!Dropped
<1>2. allContents' = [FQ!Dropped(pid) EXCEPT ![l] = Append(@, pid)]
  BY <1>1, ContentsAreListed
<1> QED
  BY <1>2 DEF FQ!Move

LEMMA EnterStep ==
  ASSUME CleanHeap, MlfqInv, NEW pid \in Pid, Enter(pid)
  PROVE  /\ MlfqInv' /\ FQ!Enter(pid)
         /\ Relocated(multiLevelQueue, multiLevelQueue', pid, 1)
<1> DEFINE m == multiLevelQueue
<1>1. MlfqOf(m) /\ pid \notin Junk /\ 1 \in Level(m)
  BY Levels DEF MlfqInv, MlfqOf, CleanHeap
<1>2. inMLFQ(m, pid).level < 0 /\ m' \in addToQueue(m, pid, 1)
  BY DEF Enter
<1>3. pid \notin Held(m)
  <2>1. ~ (inMLFQ(m, pid).level \in Level(m))
    BY <1>1, <1>2, Levels DEF Level, MlfqOf
  <2>2. \A l \in Level(m) : ~ At(m, l, pid)
    BY <1>1, <2>1, SearchFinds DEF MlfqOf
  <2> QED
    BY <2>2 DEF Held, At
<1>4. /\ MlfqOf(m')
      /\ \A k, x : At(m', k, x) <=> At(m, k, x) \/ (k = 1 /\ x = pid)
      /\ Listed(m', 1) = Append(Listed(m, 1), pid)
      /\ \A k : k # 1 => Listed(m', k) = Listed(m, k)
  BY <1>1, <1>2, <1>3, AddedProcess
<1>5. pid \notin FQ!Queued
  BY <1>3, QueuedAreHeld
<1>6. 1 \in 0..MAX_QUEUE_LEVELS
  BY ConfigAssumption
<1>7. allContents' = [allContents EXCEPT ![1] = Append(@, pid)]
  BY <1>4, <1>6, ContentsAreListed
<1>8. \A k : ~ At(m, k, pid)
  BY <1>3 DEF At, Held
<1>9. Relocated(m, m', pid, 1)
  BY <1>4, <1>8 DEF Relocated
<1> QED
  BY <1>4, <1>5, <1>7, <1>9 DEF MlfqInv, FQ!Enter

LEMMA LeaveStep ==
  ASSUME CleanHeap, MlfqInv, NEW pid \in Pid, Leave(pid)
  PROVE  /\ MlfqInv' /\ FQ!Leave(pid)
         /\ Relocated(multiLevelQueue, multiLevelQueue', pid, -1)
<1> DEFINE m == multiLevelQueue
<1>1. MlfqOf(m) /\ pid \notin Junk
  BY DEF MlfqInv, CleanHeap
<1>2. inMLFQ(m, pid).level >= 0 /\ m' = removeFromMLFQ(m, pid)
  BY DEF Leave
<1>3. pid \in Held(m)
  <2>1. inMLFQ(m, pid) # [level |-> -1, index |-> -1]
    BY <1>2
  <2>2. \E l \in Level(m) : Has(m.queues[l], pid)
    BY <1>1, <2>1, SearchFinds DEF MlfqOf, Has
  <2> QED
    BY <2>2 DEF Held
<1>4. /\ MlfqOf(m')
      /\ \A k, x : At(m', k, x) <=> At(m, k, x) /\ x # pid
      /\ \A k : Listed(m', k) = FQ!DroppedFrom(Listed(m, k), pid)
  BY <1>1, <1>2, RemovedProcess
<1>5. pid \in FQ!Queued
  BY <1>3, QueuedAreHeld
<1>6. allContents' = FQ!Dropped(pid)
  BY <1>4, ContentsAreListed DEF FQ!Dropped
<1>7. \A k \in 0..MAX_QUEUE_LEVELS : k # -1
  BY ConfigAssumption
<1>8. Relocated(m, m', pid, -1)
  BY <1>4, <1>7 DEF Relocated
<1> QED
  BY <1>4, <1>5, <1>6, <1>8 DEF MlfqInv, FQ!Leave

LEMMA DemoteStep ==
  ASSUME CleanHeap, MlfqInv, NEW pid \in Pid, NEW l \in 1..MAX_QUEUE_LEVELS,
         Demote(pid, l)
  PROVE  /\ MlfqInv' /\ FQ!Move(pid, l)
         /\ Relocated(multiLevelQueue, multiLevelQueue', pid, l)
<1>1. l \in 0..MAX_QUEUE_LEVELS
  BY ConfigAssumption
<1> QED
  BY <1>1, DemotedProcess, MovedLists

LEMMA RoundRobinStep ==
  ASSUME CleanHeap, MlfqInv, NEW pid \in Pid, ToRoundRobin(pid)
  PROVE  /\ MlfqInv' /\ FQ!Move(pid, 0)
         /\ Relocated(multiLevelQueue, multiLevelQueue', pid, 0)
<1> DEFINE m == multiLevelQueue
<1>1. MlfqOf(m) /\ m' \in addToQueue(removeFromMLFQ(m, pid), pid, 0)
  BY DEF MlfqInv, ToRoundRobin
<1>2. 0 \in Level(removeFromMLFQ(m, pid))
  BY <1>1, RemovedProcess, Levels DEF MlfqOf
<1>3. /\ MlfqOf(m')
      /\ \A k, x : At(m', k, x) <=> IF x = pid THEN k = 0 ELSE At(m, k, x)
      /\ Listed(m', 0) = Append(FQ!DroppedFrom(Listed(m, 0), pid), pid)
      /\ \A k : k # 0 => Listed(m', k) = FQ!DroppedFrom(Listed(m, k), pid)
  BY <1>1, <1>2, MovedProcess
<1>4. 0 \in 0..MAX_QUEUE_LEVELS
  BY ConfigAssumption
<1> QED
  BY <1>3, <1>4, MovedLists DEF MlfqInv, Relocated

(***************************************************************************)
(* Each call keeps the invariant, and is one step of the abstract queues.  *)
(***************************************************************************)
LEMMA EveryCall ==
  ASSUME CleanHeap, MlfqInv, [MLFQNext]_multiLevelQueue
  PROVE  MlfqInv' /\ [FQ!Next]_allContents
<1>1. CASE UNCHANGED multiLevelQueue
  BY <1>1, ContentsAreListed DEF MlfqInv
<1>2. CASE MLFQNext
  <2>1. PICK pid \in Pid :
          \/ Enter(pid)
          \/ Leave(pid)
          \/ \E l \in 1..MAX_QUEUE_LEVELS : Demote(pid, l)
          \/ ToRoundRobin(pid)
    BY <1>2 DEF MLFQNext
  <2>2. CASE Enter(pid)
    BY <2>2, EnterStep DEF FQ!Next
  <2>3. CASE Leave(pid)
    BY <2>3, LeaveStep DEF FQ!Next
  <2>4. CASE \E l \in 1..MAX_QUEUE_LEVELS : Demote(pid, l)
    <3>1. PICK l \in 1..MAX_QUEUE_LEVELS : Demote(pid, l)
      BY <2>4
    <3>2. l \in 0..MAX_QUEUE_LEVELS
      BY ConfigAssumption
    <3> QED
      BY <3>1, <3>2, DemoteStep DEF FQ!Next
  <2>5. CASE ToRoundRobin(pid)
    <3>1. 0 \in 0..MAX_QUEUE_LEVELS
      BY ConfigAssumption
    <3> QED
      BY <2>5, <3>1, RoundRobinStep DEF FQ!Next
  <2> QED
    BY <2>1, <2>2, <2>3, <2>4, <2>5
<1> QED
  BY <1>1, <1>2

LEMMA MlfqInvariant ==
  ASSUME CleanHeap
  PROVE  MLFQSpec => []MlfqInv
<1>1. MLFQInit => MlfqInv
  BY InitialQueues DEF MLFQInit, MlfqInv
<1>2. MlfqInv /\ [MLFQNext]_multiLevelQueue => MlfqInv'
  BY EveryCall
<1> QED
  BY <1>1, <1>2, PTL DEF MLFQSpec

-----------------------------------------------------------------------------
(* What the invariant says of the queues at any moment                     *)

LEMMA MlfqTyped ==
  ASSUME MlfqInv
  PROVE  MLFQTypeOK
<1> DEFINE m == multiLevelQueue
<1>1. WellFormed(m) /\ m.processCount = Cardinality(Held(m))
  BY DEF MlfqInv, MlfqOf
<1>2. m.processCount \in 0..Cardinality(Pid)
  BY <1>1, HeldIsFinite, FS_CardinalityType
<1>3. m.levels \in 1..MAX_QUEUE_LEVELS /\ DOMAIN m.queues = Level(m)
  BY <1>1, Levels DEF WellFormed
<1>4. \A l \in Level(m) : /\ Queue(l).size \in Nat \ {0}
                          /\ Queue(l).length \in 0..Queue(l).size
                          /\ Queue(l).processes \in [0..(Queue(l).size - 1) -> Pid \cup Junk]
  BY <1>1, ArrayFacts DEF WellFormed, Queue
<1> QED
  BY <1>2, <1>3, <1>4 DEF MLFQTypeOK

LEMMA MlfqLivePrefix ==
  ASSUME MlfqInv
  PROVE  LivePrefix
<1> SUFFICES ASSUME NEW l \in Level(multiLevelQueue)
             PROVE  /\ \A i \in 0..(Queue(l).length - 1) : Queue(l).processes[i] \in Pid
                    /\ \A i \in Queue(l).length..(Queue(l).size - 1) :
                         Queue(l).processes[i] \in Junk
  BY DEF LivePrefix
<1>1. ArrayOf(multiLevelQueue.queues[l])
  BY DEF MlfqInv, MlfqOf, WellFormed
<1> QED
  BY <1>1 DEF ArrayOf, Prefix, Queue

LEMMA MlfqQueuedOnce ==
  ASSUME CleanHeap, MlfqInv
  PROVE  QueuedOnce
<1> SUFFICES ASSUME NEW pid \in Pid
             PROVE  Cardinality(Positions(multiLevelQueue, pid)) <= 1
  BY DEF QueuedOnce
<1> DEFINE m == multiLevelQueue
           found == Positions(m, pid)
<1>1. WellFormed(m) /\ pid \notin Junk
  BY DEF MlfqInv, MlfqOf, CleanHeap
<1>2. ASSUME NEW p \in found, NEW q \in found
      PROVE  p = q
  <2>1. /\ p = [level |-> p.level, index |-> p.index]
        /\ p.level \in Level(m)
        /\ p.index \in Prefix(m.queues[p.level])
        /\ m.queues[p.level].processes[p.index] = pid
    BY <1>1, PositionsAreQueued
  <2>2. /\ q = [level |-> q.level, index |-> q.index]
        /\ q.level \in Level(m)
        /\ q.index \in Prefix(m.queues[q.level])
        /\ m.queues[q.level].processes[q.index] = pid
    BY <1>1, PositionsAreQueued
  <2>3. At(m, p.level, pid) /\ At(m, q.level, pid)
    BY <2>1, <2>2 DEF At, Has
  <2>4. p.level = q.level
    BY <1>1, <2>1, <2>2, <2>3 DEF WellFormed
  <2>5. ArrayOf(m.queues[p.level])
    BY <1>1, <2>1 DEF WellFormed
  <2>6. p.index = q.index
    BY <2>1, <2>2, <2>4, <2>5 DEF ArrayOf
  <2> QED
    BY <2>1, <2>2, <2>4, <2>6
<1>3. CASE found = {}
  BY <1>3, FS_EmptySet
<1>4. CASE found # {}
  <2>1. PICK p \in found : TRUE
    BY <1>4
  <2>2. found = {p}
    BY <1>2, <2>1
  <2>3. Cardinality({p}) = 1
    BY FS_Singleton
  <2> HIDE DEF found
  <2>4. Cardinality(found) <= 1
    BY <2>2, <2>3
  <2> QED
    BY <2>4 DEF found
<1> QED
  BY <1>3, <1>4

LEMMA MlfqCount ==
  ASSUME CleanHeap, MlfqInv
  PROVE  CountMatches
<1> DEFINE m == multiLevelQueue
<1>1. WellFormed(m) /\ m.processCount = Cardinality(Held(m))
  BY DEF MlfqInv, MlfqOf
<1>2. ASSUME NEW pid \in Pid
      PROVE  inMLFQ(m, pid).level >= 0 <=> pid \in Held(m)
  <2>1. pid \notin Junk
    BY DEF CleanHeap
  <2>2. CASE inMLFQ(m, pid).level \in Level(m)
    <3>1. inMLFQ(m, pid).level >= 0 /\ inMLFQ(m, pid).level # -1
      BY <1>1, <2>2, Levels
    <3>2. \E l \in Level(m) : Has(m.queues[l], pid)
      BY <1>1, <2>1, <3>1, SearchFinds DEF Has
    <3> QED
      BY <3>1, <3>2 DEF Held
  <2>3. CASE ~ (inMLFQ(m, pid).level \in Level(m))
    <3>1. /\ \A l \in Level(m) : ~ At(m, l, pid)
          /\ inMLFQ(m, pid) = [level |-> -1, index |-> -1]
      BY <1>1, <2>1, <2>3, SearchFinds
    <3>2. inMLFQ(m, pid).level = -1
      BY <3>1
    <3> QED
      BY <3>1, <3>2 DEF Held, At
  <2> QED
    BY <2>2, <2>3
<1>3. {pid \in Pid : inMLFQ(m, pid).level >= 0} = Held(m)
  BY <1>2 DEF Held
<1> QED
  BY <1>1, <1>3 DEF CountMatches

LEMMA MlfqTight ==
  ASSUME MlfqInv
  PROVE  TightQueues
BY DEF MlfqInv, MlfqOf, WellFormed, Tight, TightQueues, Queue

-----------------------------------------------------------------------------
(* The theorems                                                            *)

(***************************************************************************)
(* The arrays always have the words their sizes say, and there are never   *)
(* more FCFS levels than MAX_QUEUE_LEVELS.                                 *)
(***************************************************************************)
THEOREM MLFQTypeCorrect ==
  ASSUME CleanHeap
  PROVE  MLFQSpec => []MLFQTypeOK
<1>1. MlfqInv => MLFQTypeOK
  BY MlfqTyped
<1> QED
  BY <1>1, MlfqInvariant, PTL

(***************************************************************************)
(* The pids of a queue are the first words of its array, and no removal,   *)
(* move or halving leaves one behind them.  That the words which doubling  *)
(* adds read as none is not shown but assumed (CleanHeap).                 *)
(***************************************************************************)
THEOREM PidsStayInFront ==
  ASSUME CleanHeap
  PROVE  MLFQSpec => []LivePrefix
<1>1. MlfqInv => LivePrefix
  BY MlfqLivePrefix
<1> QED
  BY <1>1, MlfqInvariant, PTL

(***************************************************************************)
(* No order of dispatches, demotions and removals queues a process twice.  *)
(***************************************************************************)
THEOREM NobodyQueuedTwice ==
  ASSUME CleanHeap
  PROVE  MLFQSpec => []QueuedOnce
<1>1. MlfqInv => QueuedOnce
  BY MlfqQueuedOnce
<1> QED
  BY <1>1, MlfqInvariant, PTL

(***************************************************************************)
(* addToQueue and removeFromMLFQ keep processCount in step with the queues.*)
(***************************************************************************)
THEOREM CountIsKept ==
  ASSUME CleanHeap
  PROVE  MLFQSpec => []CountMatches
<1>1. MlfqInv => CountMatches
  BY MlfqCount
<1> QED
  BY <1>1, MlfqInvariant, PTL

(***************************************************************************)
(* The halving undoes the doubling before half of an array is unused.      *)
(***************************************************************************)
THEOREM QueuesStayTight ==
  ASSUME CleanHeap
  PROVE  MLFQSpec => []TightQueues
<1>1. MlfqInv => TightQueues
  BY MlfqTight
<1> QED
  BY <1>1, MlfqInvariant, PTL

(***************************************************************************)
(* The heap arrays implement FIFO queues: of a call of the queue functions *)
(* everybody but the process it names keeps their level and their place,   *)
(* whatever is doubled, halved, defragmented, added or deleted underneath. *)
(***************************************************************************)
THEOREM ArraysAreFIFOQueues ==
  ASSUME CleanHeap
  PROVE  MLFQSpec => ImplementsFeedbackQueues
<1>1. MLFQInit => FQ!Init
  <2>1. \A l : MLFQInit => Listed(multiLevelQueue, l) = <<>>
    BY InitialQueues DEF MLFQInit
  <2> QED
    BY <2>1, ContentsAreListed DEF FQ!Init
<1>2. MlfqInv /\ [MLFQNext]_multiLevelQueue => [FQ!Next]_allContents
  BY EveryCall
<1> QED
  BY <1>1, <1>2, MlfqInvariant, PTL
     DEF MLFQSpec, ImplementsFeedbackQueues, FQ!Spec
=============================================================================
