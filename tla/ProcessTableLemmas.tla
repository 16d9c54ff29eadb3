------------------------- MODULE ProcessTableLemmas -------------------------
(***************************************************************************)
(* Lemmas about the values of the process table: what the operators of     *)
(* ProcessTable.tla do to a table, for every MAX_PROCS and every content   *)
(* of recycled memory.  They know nothing of who makes the calls, so that  *)
(* the proofs about the table on its own and about the kernel share them.  *)
(***************************************************************************)
EXTENDS ProcessTable, ArrayLemmas

-----------------------------------------------------------------------------
(* Searching the table                                                     *)

LEMMA ContainsFinds ==
  ASSUME NEW size \in Nat, NEW t, DOMAIN t = 0..(size - 1), NEW pid,
         procTableContains(t, pid) # -1
  PROVE  /\ procTableContains(t, pid) \in 0..(size - 1)
         /\ t[procTableContains(t, pid)].pid = pid
<1> DEFINE found == {i \in DOMAIN t : t[i].pid = pid}
<1>1. found # {} /\ procTableContains(t, pid) = LeastOf(found)
  BY DEF procTableContains
<1>2. found \subseteq Nat
  OBVIOUS
<1>3. LeastOf(found) \in found
  BY <1>1, <1>2, LeastOfIsLeast
<1> QED
  BY <1>1, <1>3

-----------------------------------------------------------------------------
(* Deleting an entry                                                       *)

\* d, of s slots, is t, of size slots and n entries, without the entry in
\* slot pos: those behind it move up, no other changes, none is cut off.
EntryDeleted(d, s, t, size, n, pos) ==
  /\ s \in Nat /\ n - 1 <= s /\ s <= size
  /\ d \in [0..(s - 1) -> PCB]
  /\ \A k \in 0..(n - 2) : d[k] = t[IF k < pos THEN k ELSE k + 1]
  /\ \A k \in (n - 1)..(s - 1) :
       d[k] = ZeroPCB \/ \E j \in n..(size - 1) : d[k] = t[j]

(***************************************************************************)
(* procDelete's clearing, defragmenting and halving do that.               *)
(***************************************************************************)
LEMMA DeletedEntries ==
  ASSUME NEW size \in Nat, NEW n \in 2..size, NEW pos \in 0..(n - 1),
         NEW t \in [0..(size - 1) -> PCB],
         \A i \in 0..(n - 1) : t[i].pid # 0
  PROVE  EntryDeleted(Deleted(t, size, n, pos), SizeAfterDelete(size, n),
                      t, size, n, pos)
<1> DEFINE s == SizeAfterDelete(size, n)
           d == Deleted(t, size, n, pos)
           cleared == [t EXCEPT ![pos] = ZeroPCB]
           used == {i \in 0..(size - 1) : cleared[i].pid # 0}
           c == Compact(cleared, used, ZeroPCB)
<1>1. size \in Nat /\ n \in Nat /\ pos \in Nat /\ 2 <= n /\ pos < n /\ n <= size
  OBVIOUS
<1>2. s \in Nat /\ n - 1 <= s /\ s <= size
  BY <1>1 DEF SizeAfterDelete
<1>3. /\ DOMAIN cleared = 0..(size - 1)
      /\ cleared[pos] = ZeroPCB
      /\ \A i \in 0..(size - 1) : i # pos => cleared[i] = t[i]
  BY <1>1
<1>4. ZeroPCB \in PCB /\ ZeroPCB.pid = 0
  BY ConfigAssumption
     DEF ZeroPCB, PCB, ZeroContext, Context, Code, Stack, Status
<1>5. OneHole(used, n, pos, size)
  BY <1>1, <1>3, <1>4 DEF OneHole
<1>6. n \in 1..size
  BY <1>1
<1>7. d = [i \in 0..(s - 1) |-> c[i]]
  BY <1>3 DEF Deleted, procDefrag
<1> HIDE DEF s, d, cleared, used, c
<1>8. /\ \A k \in 0..(n - 2) : c[k] = cleared[IF k < pos THEN k ELSE k + 1]
      /\ \A k \in (n - 1)..(size - 1) :
           c[k] = ZeroPCB \/ \E j \in used : j >= n /\ c[k] = cleared[j]
  <2>1. HoleClosed(c, cleared, used, n, pos, size, ZeroPCB)
    BY <1>3, <1>5, <1>6, CompactAroundHole DEF c
  <2> QED
    BY <2>1 DEF HoleClosed
<1>9. \A k \in 0..(n - 2) : d[k] = t[IF k < pos THEN k ELSE k + 1]
  <2> TAKE k \in 0..(n - 2)
  <2>1. k \in 0..(s - 1)
    BY <1>1, <1>2
  <2>2. d[k] = c[k]
    BY <2>1, <1>7
  <2> QED
    BY <2>2, <1>1, <1>3, <1>8
<1>10. \A k \in (n - 1)..(s - 1) :
         d[k] = ZeroPCB \/ \E j \in n..(size - 1) : d[k] = t[j]
  <2> TAKE k \in (n - 1)..(s - 1)
  <2>1. k \in 0..(s - 1) /\ k \in (n - 1)..(size - 1)
    BY <1>1, <1>2
  <2>2. d[k] = c[k]
    BY <2>1, <1>7
  <2>3. CASE c[k] = ZeroPCB
    BY <2>2, <2>3
  <2>4. ASSUME NEW j \in used, j >= n, c[k] = cleared[j]
        PROVE  \E i \in n..(size - 1) : d[k] = t[i]
    <3>1. j \in 0..(size - 1)
      BY DEF used
    <3>2. j \in n..(size - 1) /\ j # pos
      BY <3>1, <2>4, <1>1
    <3> QED
      BY <3>1, <3>2, <2>2, <2>4, <1>3
  <2> QED
    BY <2>1, <2>3, <2>4, <1>8
<1>11. d \in [0..(s - 1) -> PCB]
  <2>1. ASSUME NEW k \in 0..(s - 1)
        PROVE  d[k] \in PCB
    <3>1. CASE k <= n - 2
      BY <3>1, <1>1, <1>9
    <3>2. CASE k > n - 2
      BY <3>2, <1>1, <1>4, <1>10
    <3> QED
      BY <3>1, <3>2, <1>1
  <2> QED
    BY <2>1, <1>7
<1> QED
  BY <1>2, <1>9, <1>10, <1>11 DEF s, d, EntryDeleted

-----------------------------------------------------------------------------
(* The inductive invariant.  It is stated of the values of the variables,  *)
(* so that what a call does to it is a lemma about those values.           *)

(***************************************************************************)
(* A table t of n processes in s slots.  The parts need one another: a     *)
(* fork stays inside the array because of the second line, procDelete      *)
(* finds the right entry because nothing behind the processes looks like a *)
(* pid (the last line), and the entry it finds is never the console's      *)
(* because that is the first.                                              *)
(***************************************************************************)
TableOf(t, s, n) ==
  /\ s \in Nat /\ n \in 1..MAX_PROCS /\ t \in [0..(s - 1) -> PCB]
  /\ n <= s /\ s < 2 * n
  /\ t[0].pid = CONSOLE_PID /\ t[0].tos = 0
  /\ \A i \in 1..(n - 1) :
       i <= t[i].pid /\ t[i].pid < MAX_PROCS /\ t[i].tos = t[i].pid
  /\ \A i \in n..(s - 1) : t[i].pid \in Junk

TableInv == TableOf(procTable, procTabSize, PROCS)

\* u has the processes of t, of n processes, but for the one in slot d.
AllBut(d, t, u, n) ==
  /\ \A i \in 0..(d - 1) : u[i].pid = t[i].pid /\ u[i].tos = t[i].tos
  /\ \A i \in (d + 1)..(n - 1) : u[i - 1].pid = t[i].pid /\ u[i - 1].tos = t[i].tos

LEMMA LivePids ==
  ASSUME NEW t, NEW s, NEW n, TableOf(t, s, n)
  PROVE  /\ s \in Nat /\ n \in Nat /\ 1 <= n /\ n <= s /\ n <= MAX_PROCS
         /\ \A i \in 0..(n - 1) : /\ t[i] \in PCB
                                  /\ t[i].pid \in Pid
                                  /\ t[i].pid # 0
                                  /\ t[i].pid = CONSOLE_PID <=> i = 0
<1>1. s \in Nat /\ n \in Nat /\ 1 <= n /\ n <= s /\ n <= MAX_PROCS /\ MAX_PROCS \in Nat
  BY ConfigAssumption DEF TableOf
<1>2. ASSUME NEW i \in 0..(n - 1)
      PROVE  t[i] \in PCB /\ t[i].pid \in Int
  <2>1. i \in 0..(s - 1)
    BY <1>1
  <2> QED
    BY <2>1 DEF TableOf, PCB
<1>3. t[0].pid = -1
  BY DEF TableOf, CONSOLE_PID
<1>4. ASSUME NEW i \in 1..(n - 1)
      PROVE  t[i].pid \in 1..(MAX_PROCS - 1)
  <2>1. i \in 0..(n - 1)
    BY <1>1
  <2>2. i <= t[i].pid /\ t[i].pid < MAX_PROCS
    BY DEF TableOf
  <2> QED
    BY <2>1, <2>2, <1>1, <1>2
<1>5. \A i \in 0..(n - 1) : i = 0 \/ i \in 1..(n - 1)
  BY <1>1
<1> QED
  BY <1>1, <1>2, <1>3, <1>4, <1>5 DEF Pid, CONSOLE_PID

(***************************************************************************)
(* fork: the table with a child behind the processes, in new memory or old.*)
(***************************************************************************)
LEMMA GrownTable ==
  ASSUME NEW t, NEW s, NEW n, TableOf(t, s, n), n < MAX_PROCS,
         NEW p \in 0..(s - 1), NEW c \in Context, NEW fresh \in FreshMemory(n, s)
  PROVE  LET u == [WithRoom(t, s, n, fresh) EXCEPT ![n] = Child(t[p], c, n)]
         IN  /\ TableOf(u, SizeWithRoom(s, n), n + 1)
             /\ AllBut(n, t, u, n)
             /\ u[n] = Child(t[p], c, n) /\ \A i \in 0..(n - 1) : u[i] = t[i]
             /\ \A i \in (n + 1)..(SizeWithRoom(s, n) - 1) :
                  u[i].priority = 0 \/ \E j \in n..(s - 1) : u[i] = t[j]
<1> DEFINE child == Child(t[p], c, n)
           room  == WithRoom(t, s, n, fresh)
           size  == SizeWithRoom(s, n)
           u     == [room EXCEPT ![n] = child]
<1>1. /\ s \in Nat /\ n \in Nat /\ 1 <= n /\ n <= s /\ s < 2 * n
      /\ t \in [0..(s - 1) -> PCB]
      /\ \A i \in n..(s - 1) : t[i].pid \in Junk
  BY ConfigAssumption DEF TableOf
<1>2. child \in PCB /\ child.pid = n /\ child.tos = n
  <2>1. p \in 0..(s - 1)
    BY <1>1
  <2>2. t[p] \in PCB
    BY <1>1, <2>1
  <2>3. t[p].ctx \in Context
    BY <2>2 DEF PCB
  <2>4. [t[p].ctx EXCEPT !.pc = c.pc, !.sp = c.sp, !.r0 = 0] \in Context
    BY <2>3 DEF Context
  <2>5. n \in Stack /\ n \in Int
    BY <1>1, ConfigAssumption DEF Stack
  <2> QED
    BY <2>2, <2>4, <2>5 DEF Child, PCB
<1>3. size \in Nat /\ s <= size /\ n + 1 <= size /\ size < 2 * (n + 1)
  BY <1>1, ConfigAssumption DEF SizeWithRoom, Full
<1>4. /\ room \in [0..(size - 1) -> PCB]
      /\ \A i \in 0..(s - 1) : room[i] = t[i]
      /\ \A i \in n..(size - 1) : room[i].pid \in Junk
      /\ \A i \in s..(size - 1) : room[i].priority = 0
  <2>1. CASE Full(n, s)
    <3>1. size = 2 * s
      BY <2>1 DEF SizeWithRoom
    <3>2. fresh \in [s..(size - 1) -> Junk]
      BY <2>1, <3>1 DEF FreshMemory
    <3>3. room = [i \in 0..(size - 1) |->
                    IF i < s THEN t[i] ELSE [ZeroPCB EXCEPT !.pid = fresh[i]]]
      BY <2>1, <3>1 DEF WithRoom, Doubled
    <3>4. ASSUME NEW i \in s..(size - 1)
          PROVE  /\ [ZeroPCB EXCEPT !.pid = fresh[i]] \in PCB
                 /\ [ZeroPCB EXCEPT !.pid = fresh[i]].pid \in Junk
                 /\ [ZeroPCB EXCEPT !.pid = fresh[i]].priority = 0
      <4>1. fresh[i] \in Junk /\ fresh[i] \in Int
        BY <3>2, ConfigAssumption
      <4> QED
        BY <4>1, ConfigAssumption
           DEF ZeroPCB, PCB, ZeroContext, Context, Code, Stack, Status
    <3> HIDE DEF room, size
    <3>5. \A i \in 0..(s - 1) : room[i] = t[i]
      BY <1>1, <1>3, <3>3
    <3>6. ASSUME NEW i \in 0..(size - 1)
          PROVE  /\ room[i] \in PCB
                 /\ i >= n => room[i].pid \in Junk
                 /\ i >= s => room[i].priority = 0
      <4>1. CASE i < s
        <5>1. i \in 0..(s - 1)
          BY <4>1, <1>1
        <5>2. /\ i >= n => i \in n..(s - 1)
              /\ ~ (i >= s)
          BY <5>1, <1>1
        <5> QED
          BY <5>1, <5>2, <1>1, <3>5
      <4>2. CASE ~ (i < s)
        <5>1. i \in s..(size - 1)
          BY <4>2, <1>1, <1>3
        <5>2. room[i] = [ZeroPCB EXCEPT !.pid = fresh[i]]
          BY <4>2, <3>3
        <5> QED
          BY <5>1, <5>2, <3>4
      <4> QED
        BY <4>1, <4>2
    <3>7. room \in [0..(size - 1) -> PCB]
      BY <3>3, <3>6
    <3>8. \A i \in n..(size - 1) : room[i].pid \in Junk
      BY <1>1, <1>3, <3>6
    <3>9. \A i \in s..(size - 1) : room[i].priority = 0
      BY <1>1, <1>3, <3>6
    <3> QED
      BY <3>5, <3>7, <3>8, <3>9
  <2>2. CASE ~ Full(n, s)
    <3>1. size = s /\ room = t
      BY <2>2 DEF SizeWithRoom, WithRoom
    <3> QED
      BY <1>1, <3>1
  <2> QED
    BY <2>1, <2>2
<1> HIDE DEF room, child, size
<1>5. n \in 0..(size - 1)
  BY <1>1, <1>3
<1>6. /\ u \in [0..(size - 1) -> PCB]
      /\ u[n] = child
      /\ \A i \in 0..(size - 1) : i # n => u[i] = room[i]
  BY <1>2, <1>4, <1>5
<1> HIDE DEF u
<1>7. \A i \in 0..(n - 1) : u[i] = t[i]
  BY <1>1, <1>3, <1>4, <1>6
<1>8. \A i \in (n + 1)..(size - 1) : u[i].pid \in Junk
  BY <1>1, <1>3, <1>4, <1>6
<1>9. u[0].pid = CONSOLE_PID /\ u[0].tos = 0
  BY <1>1, <1>7 DEF TableOf
<1>10. ASSUME NEW i \in 1..((n + 1) - 1)
       PROVE  i <= u[i].pid /\ u[i].pid < MAX_PROCS /\ u[i].tos = u[i].pid
  <2>1. CASE i = n
    BY <2>1, <1>1, <1>2, <1>6
  <2>2. CASE i # n
    <3>1. i \in 1..(n - 1) /\ i \in 0..(n - 1)
      BY <2>2, <1>1
    <3> QED
      BY <3>1, <1>7 DEF TableOf
  <2> QED
    BY <2>1, <2>2
<1>11. n + 1 \in 1..MAX_PROCS
  BY <1>1, ConfigAssumption
<1>12. TableOf(u, size, n + 1)
  BY <1>3, <1>6, <1>8, <1>9, <1>10, <1>11 DEF TableOf
<1>13. AllBut(n, t, u, n)
  BY <1>1, <1>7 DEF AllBut
<1>14. ASSUME NEW i \in (n + 1)..(size - 1)
       PROVE  u[i].priority = 0 \/ \E j \in n..(s - 1) : u[i] = t[j]
  <2>1. i \in 0..(size - 1) /\ i # n /\ (i \in n..(s - 1) \/ i \in s..(size - 1))
    BY <1>1, <1>3
  <2>2. u[i] = room[i]
    BY <1>6, <2>1
  <2>3. ASSUME i \in n..(s - 1)
        PROVE  u[i] = t[i]
    BY <1>1, <1>4, <2>2, <2>3
  <2> QED
    BY <1>4, <2>1, <2>2, <2>3
<1> QED
  BY <1>6, <1>7, <1>12, <1>13, <1>14 DEF u, room, child, size

(***************************************************************************)
(* exit and kill: the table without the entry in a slot behind the         *)
(* console's.                                                              *)
(***************************************************************************)
LEMMA ShrunkTable ==
  ASSUME NEW t, NEW s, NEW n, TableOf(t, s, n), NEW pos \in 1..(n - 1)
  PROVE  /\ TableOf(Deleted(t, s, n, pos), SizeAfterDelete(s, n), n - 1)
         /\ AllBut(pos, t, Deleted(t, s, n, pos), n)
         /\ EntryDeleted(Deleted(t, s, n, pos), SizeAfterDelete(s, n), t, s, n, pos)
<1> DEFINE d    == Deleted(t, s, n, pos)
           size == SizeAfterDelete(s, n)
<1>1. /\ s \in Nat /\ n \in Nat /\ 2 <= n /\ n <= s /\ s < 2 * n /\ n <= MAX_PROCS
      /\ pos \in Nat /\ 1 <= pos /\ pos < n
      /\ t \in [0..(s - 1) -> PCB]
  BY ConfigAssumption DEF TableOf
<1>2. EntryDeleted(d, size, t, s, n, pos)
  <2>1. n \in 2..s /\ pos \in 0..(n - 1)
    BY <1>1
  <2>2. \A i \in 0..(n - 1) : t[i].pid # 0
    BY LivePids
  <2> QED
    BY <1>1, <2>1, <2>2, DeletedEntries
<1>3. size < 2 * (n - 1)
  BY <1>1 DEF SizeAfterDelete
<1> HIDE DEF d, size
<1>4. /\ size \in Nat /\ n - 1 <= size /\ size <= s
      /\ d \in [0..(size - 1) -> PCB]
      /\ \A k \in 0..(n - 2) : d[k] = t[IF k < pos THEN k ELSE k + 1]
      /\ \A k \in (n - 1)..(size - 1) :
           d[k] = ZeroPCB \/ \E j \in n..(s - 1) : d[k] = t[j]
  BY <1>2 DEF EntryDeleted
<1>5. d[0].pid = CONSOLE_PID /\ d[0].tos = 0
  <2>1. 0 \in 0..(n - 2) /\ 0 < pos
    BY <1>1
  <2>2. d[0] = t[0]
    BY <1>4, <2>1
  <2> QED
    BY <2>2 DEF TableOf
<1>6. ASSUME NEW i \in 1..((n - 1) - 1)
      PROVE  i <= d[i].pid /\ d[i].pid < MAX_PROCS /\ d[i].tos = d[i].pid
  <2> DEFINE source == IF i < pos THEN i ELSE i + 1
  <2>1. i \in 0..(n - 2) /\ source \in 1..(n - 1) /\ i <= source
    BY <1>1
  <2>2. d[i] = t[source]
    BY <1>4, <2>1
  <2>3. /\ source <= t[source].pid /\ t[source].pid < MAX_PROCS
        /\ t[source].tos = t[source].pid
    BY <2>1 DEF TableOf
  <2>4. t[source] \in PCB /\ t[source].pid \in Int
    BY <1>1, <2>1 DEF PCB
  <2> HIDE DEF source
  <2>5. i \in Nat /\ source \in Nat
    BY <2>1
  <2>6. i <= t[source].pid
    BY <2>1, <2>3, <2>4, <2>5
  <2> QED
    BY <2>2, <2>3, <2>6
<1>7. ASSUME NEW i \in (n - 1)..(size - 1)
      PROVE  d[i].pid \in Junk
  <2>1. CASE d[i] = ZeroPCB
    BY <2>1, ConfigAssumption DEF ZeroPCB
  <2>2. CASE \E j \in n..(s - 1) : d[i] = t[j]
    BY <2>2 DEF TableOf
  <2> QED
    BY <2>1, <2>2, <1>4
<1>8. n - 1 \in 1..MAX_PROCS
  BY <1>1, ConfigAssumption
<1>9. TableOf(d, size, n - 1)
  BY <1>3, <1>4, <1>5, <1>6, <1>7, <1>8 DEF TableOf
<1>10. ASSUME NEW i \in 0..(pos - 1)
       PROVE  d[i] = t[i]
  <2>1. i \in 0..(n - 2) /\ i < pos
    BY <1>1
  <2> QED
    BY <1>4, <2>1
<1>11. ASSUME NEW i \in (pos + 1)..(n - 1)
       PROVE  d[i - 1] = t[i]
  <2>1. i - 1 \in 0..(n - 2) /\ ~ (i - 1 < pos) /\ (i - 1) + 1 = i
    BY <1>1
  <2> QED
    BY <1>4, <2>1
<1>12. AllBut(pos, t, d, n)
  BY <1>10, <1>11 DEF AllBut
<1> QED
  BY <1>2, <1>9, <1>12 DEF d, size

(***************************************************************************)
(* exec, and the writes of dispatch, schedule and the system calls: a slot *)
(* overwritten, its pid and its stack kept.                                *)
(***************************************************************************)
LEMMA WrittenTable ==
  ASSUME NEW t, NEW s, NEW n, TableOf(t, s, n),
         NEW i \in 0..(s - 1), NEW e \in PCB, e.pid = t[i].pid, e.tos = t[i].tos
  PROVE  /\ TableOf([t EXCEPT ![i] = e], s, n)
         /\ AllBut(n, t, [t EXCEPT ![i] = e], n)
<1> DEFINE u == [t EXCEPT ![i] = e]
<1>1. /\ s \in Nat /\ n \in Nat /\ 1 <= n /\ n <= s
      /\ t \in [0..(s - 1) -> PCB]
  BY ConfigAssumption DEF TableOf
<1>2. /\ u \in [0..(s - 1) -> PCB]
      /\ \A k \in 0..(s - 1) : u[k].pid = t[k].pid /\ u[k].tos = t[k].tos
  BY <1>1
<1> HIDE DEF u
<1>3. /\ \A k \in 0..(n - 1) : k \in 0..(s - 1)
      /\ \A k \in 1..(n - 1) : k \in 0..(s - 1)
      /\ \A k \in n..(s - 1) : k \in 0..(s - 1)
      /\ 0 \in 0..(s - 1)
  BY <1>1
<1>4. u[0].pid = CONSOLE_PID /\ u[0].tos = 0
  BY <1>2, <1>3 DEF TableOf
<1>5. \A k \in 1..(n - 1) :
        k <= u[k].pid /\ u[k].pid < MAX_PROCS /\ u[k].tos = u[k].pid
  BY <1>2, <1>3 DEF TableOf
<1>6. \A k \in n..(s - 1) : u[k].pid \in Junk
  BY <1>2, <1>3 DEF TableOf
<1>7. TableOf(u, s, n)
  BY <1>2, <1>4, <1>5, <1>6 DEF TableOf
<1>8. AllBut(n, t, u, n)
  BY <1>1, <1>2, <1>3 DEF AllBut
<1> QED
  BY <1>7, <1>8 DEF u

(***************************************************************************)
(* What the invariant says of the table at any moment.                     *)
(***************************************************************************)
LEMMA TableMeans ==
  ASSUME CleanHeap, TableInv
  PROVE  PTTypeOK /\ Capacity /\ ProcsCounts /\ ConsoleFirst /\ SlotBelowPid
<1>1. PTTypeOK
  BY ConfigAssumption DEF TableInv, TableOf, PTTypeOK
<1>2. Capacity
  BY DEF TableInv, TableOf, Capacity
<1>3. ProcsCounts
  <2>1. \A i \in 0..(PROCS - 1) : procTable[i].pid \in Pid
    BY LivePids DEF TableInv
  <2>2. \A i \in PROCS..(procTabSize - 1) : procTable[i].pid \notin Pid
    BY DEF TableInv, TableOf, CleanHeap
  <2>3. PROCS \in Nat /\ procTabSize \in Nat /\ PROCS <= procTabSize
    BY LivePids DEF TableInv
  <2> QED
    BY <2>1, <2>2, <2>3 DEF ProcsCounts, Live
<1>4. ConsoleFirst
  BY LivePids DEF TableInv, ConsoleFirst, Live
<1>5. SlotBelowPid
  <2>1. PROCS \in Nat
    BY LivePids DEF TableInv
  <2>2. \A i \in Live : i = 0 \/ i \in 1..(PROCS - 1)
    BY <2>1 DEF Live
  <2>3. \A i \in 1..(PROCS - 1) : i > 0 /\ i # 0
    BY <2>1
  <2> QED
    BY <2>2, <2>3 DEF TableInv, TableOf, SlotBelowPid
<1> QED
  BY <1>1, <1>2, <1>3, <1>4, <1>5
=============================================================================
