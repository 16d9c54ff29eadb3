---------------------------- MODULE KernelProofs ----------------------------
(***************************************************************************)
(* Proofs about the whole kernel, for every MAX_PROCS, MAX_QUEUE_LEVELS,   *)
(* MAX_HISTORY_PROCS, every set of programs and of commands.               *)
(***************************************************************************)
EXTENDS Kernel, ProcessTableLemmas, MultiLevelQueueProofs

\* What is typed as a pid does not read like the pid word of a slot that is
\* not in use.  The word is 0 in a cleared slot, and "kill 0" does find it.
TypedPidsAreNoJunk == TypedPid \cap Junk = {}

-----------------------------------------------------------------------------
(* The table with what the handlers write into it                          *)

(***************************************************************************)
(* The table as in ProcessTableLemmas; live entries are in live states, no *)
(* other entry could be chosen by schedule() (its priority is 0), and the  *)
(* code of the console's entry is the console's.                           *)
(***************************************************************************)
KTable(t, s, n) ==
  /\ TableOf(t, s, n)
  /\ \A i \in 0..(n - 1) : t[i].status \in LiveStatus
  /\ \A i \in n..(s - 1) : t[i].priority = 0
  /\ t[0].ctx.pc \notin Program

\* Two tables of s slots have the same pids and stacks.
SamePids(t, u, s) ==
  \A k \in 0..(s - 1) : u[k].pid = t[k].pid /\ u[k].tos = t[k].tos

\* The pids of the first n entries of t.
Pids(t, n) == {t[i].pid : i \in 0..(n - 1)}

LEMMA TableFacts ==
  ASSUME NEW t, NEW s, NEW n, KTable(t, s, n)
  PROVE  /\ s \in Nat /\ n \in Nat /\ 1 <= n /\ n <= s /\ n <= MAX_PROCS
         /\ MAX_PROCS \in Nat /\ MAX_PROCS > 1
         /\ t \in [0..(s - 1) -> PCB] /\ DOMAIN t = 0..(s - 1)
         /\ 0 \in 0..(n - 1) /\ \A i \in 0..(n - 1) : i \in 0..(s - 1)
         /\ \A i \in 0..(s - 1) : t[i] \in PCB
<1>1. TableOf(t, s, n) /\ MAX_PROCS \in Nat /\ MAX_PROCS > 1
  BY ConfigAssumption DEF KTable
<1>2. s \in Nat /\ n \in Nat /\ 1 <= n /\ n <= s /\ n <= MAX_PROCS
  BY <1>1, LivePids
<1>3. t \in [0..(s - 1) -> PCB]
  BY <1>1 DEF TableOf
<1> QED
  BY <1>1, <1>2, <1>3

(***************************************************************************)
(* Searching for the pid of a process finds a process; the console's only  *)
(* if it is its pid.                                                       *)
(***************************************************************************)
LEMMA FindsLive ==
  ASSUME NEW t, NEW s, NEW n, KTable(t, s, n), NEW pid \in Pids(t, n)
  PROVE  /\ procTableContains(t, pid) \in 0..(n - 1)
         /\ t[procTableContains(t, pid)].pid = pid
         /\ pid # CONSOLE_PID => procTableContains(t, pid) \in 1..(n - 1)
         /\ pid \in Pid
<1> DEFINE found == {i \in DOMAIN t : t[i].pid = pid}
           at == procTableContains(t, pid)
<1>1. /\ s \in Nat /\ n \in Nat /\ n <= s
      /\ DOMAIN t = 0..(s - 1) /\ \A i \in 0..(n - 1) : i \in 0..(s - 1)
  BY TableFacts
<1>2. PICK i \in 0..(n - 1) : t[i].pid = pid
  BY DEF Pids
<1>3. i \in found
  BY <1>1, <1>2
<1>4. found \subseteq Nat
  BY <1>1
<1>5. at = LeastOf(found)
  BY <1>3 DEF procTableContains
<1>6. at \in found /\ at <= i
  BY <1>3, <1>4, <1>5, LeastOfIsLeast
<1> HIDE DEF at
<1>7. at \in 0..(n - 1) /\ t[at].pid = pid
  BY <1>1, <1>2, <1>6
<1>8. TableOf(t, s, n)
  BY DEF KTable
<1>9. pid \in Pid /\ (pid = CONSOLE_PID <=> at = 0)
  BY <1>7, <1>8, LivePids
<1> QED
  BY <1>1, <1>7, <1>9 DEF at

(***************************************************************************)
(* A pid that no dead slot holds is found in a live one, if at all.        *)
(***************************************************************************)
LEMMA FoundIsLive ==
  ASSUME NEW t, NEW s, NEW n, KTable(t, s, n), NEW pid, pid \notin Junk,
         procTableContains(t, pid) # -1
  PROVE  /\ procTableContains(t, pid) \in 0..(n - 1)
         /\ t[procTableContains(t, pid)].pid = pid
         /\ pid \in Pids(t, n) /\ pid \in Pid
<1> DEFINE at == procTableContains(t, pid)
<1>1. s \in Nat /\ n \in Nat /\ n <= s /\ DOMAIN t = 0..(s - 1)
  BY TableFacts
<1>2. at \in 0..(s - 1) /\ t[at].pid = pid
  BY <1>1, ContainsFinds
<1>3. \A i \in n..(s - 1) : t[i].pid \in Junk
  BY DEF KTable, TableOf
<1> HIDE DEF at
<1>4. at \in 0..(n - 1)
  BY <1>1, <1>2, <1>3
<1>5. pid \in Pids(t, n)
  BY <1>2, <1>4 DEF Pids
<1> QED
  BY <1>2, <1>4, <1>5, FindsLive DEF at

(***************************************************************************)
(* An entry overwritten.                                                   *)
(***************************************************************************)
LEMMA WrittenKTable ==
  ASSUME NEW t, NEW s, NEW n, KTable(t, s, n),
         NEW i \in 0..(s - 1), NEW e \in PCB, e.pid = t[i].pid, e.tos = t[i].tos,
         i < n => e.status \in LiveStatus,
         i >= n => e.priority = 0,
         i = 0 => e.ctx.pc \notin Program
  PROVE  /\ KTable([t EXCEPT ![i] = e], s, n)
         /\ SamePids(t, [t EXCEPT ![i] = e], s)
<1> DEFINE u == [t EXCEPT ![i] = e]
<1>1. /\ s \in Nat /\ n \in Nat /\ 1 <= n /\ n <= s
      /\ t \in [0..(s - 1) -> PCB] /\ 0 \in 0..(n - 1)
      /\ \A k \in 0..(n - 1) : k \in 0..(s - 1)
  BY TableFacts
<1>2. /\ u[i] = e
      /\ \A k \in 0..(s - 1) : k # i => u[k] = t[k]
  BY <1>1
<1>3. TableOf(u, s, n)
  BY WrittenTable DEF KTable
<1> HIDE DEF u
<1>4. \A k \in 0..(n - 1) : u[k].status \in LiveStatus
  BY <1>1, <1>2 DEF KTable
<1>5. \A k \in n..(s - 1) : u[k].priority = 0
  BY <1>1, <1>2 DEF KTable
<1>6. u[0].ctx.pc \notin Program
  BY <1>1, <1>2 DEF KTable
<1>7. KTable(u, s, n)
  BY <1>3, <1>4, <1>5, <1>6 DEF KTable
<1>8. SamePids(t, u, s)
  BY <1>2 DEF SamePids
<1> QED
  BY <1>7, <1>8 DEF u

(***************************************************************************)
(* dispatch's save, in an entry that may be one in use or not, or nowhere. *)
(***************************************************************************)
LEMMA SavedKTable ==
  ASSUME NEW t, NEW s, NEW n, KTable(t, s, n), NEW prev, NEW c \in Context,
         prev = 0 => c.pc \notin Program
  PROVE  /\ KTable(Saved(t, prev, c), s, n)
         /\ SamePids(t, Saved(t, prev, c), s)
         /\ prev \in DOMAIN t => /\ Saved(t, prev, c)[prev].status = "READY"
                                 /\ Saved(t, prev, c)[prev].ctx = c
                                 /\ Saved(t, prev, c)[prev].priority = t[prev].priority
         /\ \A k \in 0..(s - 1) : k # prev => Saved(t, prev, c)[k] = t[k]
<1> DEFINE e == [t[prev] EXCEPT !.ctx = c, !.status = "READY"]
<1>1. /\ s \in Nat /\ n \in Nat /\ t \in [0..(s - 1) -> PCB]
      /\ DOMAIN t = 0..(s - 1)
  BY TableFacts
<1>2. CASE prev \in DOMAIN t
  <2>1. t[prev] \in PCB /\ prev \in 0..(s - 1)
    BY <1>1, <1>2
  <2>2. /\ e \in PCB /\ e.pid = t[prev].pid /\ e.tos = t[prev].tos
        /\ e.status = "READY" /\ e.ctx = c /\ e.priority = t[prev].priority
    BY <2>1 DEF PCB, Status
  <2>3. Saved(t, prev, c) = [t EXCEPT ![prev] = e]
    BY <1>1, <1>2 DEF Saved
  <2> HIDE DEF e
  <2>4. e.status \in LiveStatus
    BY <2>2 DEF LiveStatus
  <2>5. prev >= n => e.priority = 0
    <3>1. prev >= n => prev \in n..(s - 1)
      BY <1>1, <2>1
    <3> QED
      BY <2>2, <3>1 DEF KTable
  <2>6. KTable([t EXCEPT ![prev] = e], s, n) /\ SamePids(t, [t EXCEPT ![prev] = e], s)
    BY <2>1, <2>2, <2>4, <2>5, WrittenKTable
  <2>7. /\ [t EXCEPT ![prev] = e][prev] = e
        /\ \A k \in 0..(s - 1) : k # prev => [t EXCEPT ![prev] = e][k] = t[k]
    BY <1>1, <2>1
  <2> QED
    BY <2>2, <2>3, <2>6, <2>7
<1>3. CASE prev \notin DOMAIN t
  BY <1>3 DEF Saved, SamePids
<1> QED
  BY <1>2, <1>3

(***************************************************************************)
(* fork: the table with a child.                                           *)
(***************************************************************************)
LEMMA GrownKTable ==
  ASSUME NEW t, NEW s, NEW n, KTable(t, s, n), n < MAX_PROCS,
         NEW p \in 0..(s - 1), t[p].status \in LiveStatus,
         NEW c \in Context, NEW fresh \in FreshMemory(n, s)
  PROVE  LET u == [WithRoom(t, s, n, fresh) EXCEPT ![n] = Child(t[p], c, n)]
         IN  /\ KTable(u, SizeWithRoom(s, n), n + 1)
             /\ AllBut(n, t, u, n)
             /\ \A i \in 0..(n - 1) : u[i] = t[i]
             /\ u[n] = Child(t[p], c, n)
<1> DEFINE u == [WithRoom(t, s, n, fresh) EXCEPT ![n] = Child(t[p], c, n)]
           size == SizeWithRoom(s, n)
<1>1. /\ TableOf(u, size, n + 1)
      /\ AllBut(n, t, u, n)
      /\ u[n] = Child(t[p], c, n) /\ \A i \in 0..(n - 1) : u[i] = t[i]
      /\ \A i \in (n + 1)..(size - 1) :
           u[i].priority = 0 \/ \E j \in n..(s - 1) : u[i] = t[j]
  BY GrownTable DEF KTable
<1> HIDE DEF u, size
<1>2. s \in Nat /\ n \in Nat /\ 1 <= n /\ n <= s /\ 0 \in 0..(n - 1) /\ t[p] \in PCB
  BY TableFacts
<1>3. u[n].status \in LiveStatus
  BY <1>1, <1>2 DEF Child, PCB
<1>4. \A i \in 0..((n + 1) - 1) : i \in 0..(n - 1) \/ i = n
  BY <1>2
<1>5. \A i \in 0..((n + 1) - 1) : u[i].status \in LiveStatus
  BY <1>1, <1>3, <1>4 DEF KTable
<1>6. \A i \in (n + 1)..(size - 1) : u[i].priority = 0
  BY <1>1 DEF KTable
<1>7. u[0].ctx.pc \notin Program
  BY <1>1, <1>2 DEF KTable
<1>8. KTable(u, size, n + 1)
  BY <1>1, <1>5, <1>6, <1>7 DEF KTable
<1> QED
  BY <1>1, <1>8 DEF u, size

(***************************************************************************)
(* exit and kill: the table without an entry behind the console's.         *)
(***************************************************************************)
LEMMA ShrunkKTable ==
  ASSUME NEW t, NEW s, NEW n, KTable(t, s, n), NEW pos \in 1..(n - 1)
  PROVE  LET d == Deleted(t, s, n, pos)
         IN  /\ KTable(d, SizeAfterDelete(s, n), n - 1)
             /\ AllBut(pos, t, d, n)
             /\ d[0] = t[0]
             /\ \A x \in Pids(t, n) : x # t[pos].pid => x \in Pids(d, n - 1)
<1> DEFINE d == Deleted(t, s, n, pos)
           size == SizeAfterDelete(s, n)
<1>1. /\ TableOf(d, size, n - 1)
      /\ AllBut(pos, t, d, n)
      /\ \A k \in 0..(n - 2) : d[k] = t[IF k < pos THEN k ELSE k + 1]
      /\ \A k \in (n - 1)..(size - 1) :
           d[k] = ZeroPCB \/ \E j \in n..(s - 1) : d[k] = t[j]
  BY ShrunkTable DEF KTable, EntryDeleted
<1> HIDE DEF d, size
<1>2. n \in Nat /\ 2 <= n /\ pos \in Nat /\ 1 <= pos /\ pos < n
  BY TableFacts
<1>3. \A i \in 0..((n - 1) - 1) : d[i].status \in LiveStatus
  <2> TAKE i \in 0..((n - 1) - 1)
  <2>1. i \in 0..(n - 2)
    BY <1>2
  <2>2. (IF i < pos THEN i ELSE i + 1) \in 0..(n - 1)
    BY <1>2, <2>1
  <2> QED
    BY <1>1, <2>1, <2>2 DEF KTable
<1>4. \A i \in (n - 1)..(size - 1) : d[i].priority = 0
  BY <1>1 DEF KTable, ZeroPCB
<1>5. d[0] = t[0] /\ d[0].ctx.pc \notin Program
  <2>1. 0 \in 0..(n - 2) /\ 0 < pos
    BY <1>2
  <2> QED
    BY <1>1, <2>1 DEF KTable
<1>6. KTable(d, size, n - 1)
  BY <1>1, <1>3, <1>4, <1>5 DEF KTable
<1>7. ASSUME NEW x \in Pids(t, n), x # t[pos].pid
      PROVE  x \in Pids(d, n - 1)
  <2>1. PICK i \in 0..(n - 1) : t[i].pid = x
    BY DEF Pids
  <2> DEFINE k == IF i < pos THEN i ELSE i - 1
  <2>2. i # pos
    BY <1>7, <2>1
  <2>3. k \in 0..(n - 2) /\ (IF k < pos THEN k ELSE k + 1) = i
    BY <1>2, <2>2
  <2>4. d[k] = t[i]
    BY <1>1, <2>3
  <2> HIDE DEF k
  <2>5. k \in 0..((n - 1) - 1)
    BY <1>2, <2>3
  <2> QED
    BY <2>1, <2>4, <2>5 DEF Pids
<1> QED
  BY <1>1, <1>5, <1>6, <1>7 DEF d, size

-----------------------------------------------------------------------------
(* The invariant                                                           *)

\* Whoever is queued has an entry.
QueuesOf(m, t, n) ==
  \A k \in 0..MAX_QUEUE_LEVELS : \A x : At(m, k, x) => x \in Pids(t, n)

(***************************************************************************)
(* The running code, when there are n entries.  A program's is that of an  *)
(* entry behind the console's, of the one that currentProc points to.  The *)
(* last process left is at the prompt, or has called exit: it is not the   *)
(* child of a fork, whose exec would write into the console's entry.       *)
(***************************************************************************)
Running(current, c, p, i, n) ==
  /\ current \in Stack /\ c \in Context
  /\ p \in {"user", "age", "pick", "fault"} /\ i \in 0..(n - 1)
  /\ c.pc \in Program => current \in 1..(n - 1)
  /\ n = 1 => p \in {"user", "fault"} /\ c.pc \in {"prompt", "exited"}

HistoryInv ==
  /\ procTabHistorySize \in Nat /\ HISTORY_PROCS \in Nat
  /\ HISTORY_PROCS > 0 => procTabHistorySize > 0
  /\ HistoryFits

(***************************************************************************)
(* The inductive invariant of the kernel.                                  *)
(***************************************************************************)
KInv ==
  /\ KTable(procTable, procTabSize, PROCS)
  /\ MlfqInv
  /\ QueuesOf(multiLevelQueue, procTable, PROCS)
  /\ Running(currentProc, cpu, pc, slot, PROCS)
  /\ PROCS_ACTIVE \in Int /\ PROCS_ACTIVE >= -1
  /\ reply \in BOOLEAN
  /\ HistoryInv

\* What every step does: it keeps the invariant, removes one process at most
\* from the table, and moves one at most in the queues.
Preserves == KInv' /\ Survive /\ [FQ!Next]_allContents

LEMMA InvFacts ==
  ASSUME KInv
  PROVE  /\ procTabSize \in Nat /\ PROCS \in Nat /\ 1 <= PROCS /\ PROCS <= procTabSize
         /\ PROCS <= MAX_PROCS /\ MAX_PROCS \in Nat /\ MAX_PROCS > 1
         /\ procTable \in [0..(procTabSize - 1) -> PCB]
         /\ DOMAIN procTable = 0..(procTabSize - 1)
         /\ 0 \in 0..(PROCS - 1) /\ \A i \in 0..(PROCS - 1) : i \in 0..(procTabSize - 1)
         /\ \A i \in 0..(procTabSize - 1) : procTable[i] \in PCB
         /\ Live = 0..(PROCS - 1)
BY TableFacts DEF KInv, Live

LEMMA Codes ==
  /\ "none" \notin Program /\ "prompt" \notin Program /\ "forked" \notin Program
  /\ "exited" \notin Program /\ "spinning" \notin Program
  /\ \A c \in Context :
       /\ c.pc = "P5" => c.pc \in Program
       /\ c.pc = "diningPhil" => c.pc \in Program
BY ProgramAssumption DEF Context, Code

(***************************************************************************)
(* A handler that leaves the history alone.                                *)
(***************************************************************************)
LEMMA HistoryKept ==
  ASSUME KInv, UNCHANGED historyVars
  PROVE  HistoryInv'
BY DEF KInv, HistoryInv, historyVars, HistoryFits

(***************************************************************************)
(* Whoever changes no pid loses no process.                                *)
(***************************************************************************)
LEMMA SameSurvive ==
  ASSUME KInv, AllBut(PROCS, procTable, procTable', PROCS)
  PROVE  Survive
<1>1. PROCS \in 0..PROCS
  BY InvFacts
<1> QED
  BY <1>1 DEF AllBut, Survive, SameProcess

LEMMA SamePidsAllBut ==
  ASSUME NEW t, NEW u, NEW s \in Nat, NEW n \in Nat, n <= s, SamePids(t, u, s)
  PROVE  AllBut(n, t, u, n) /\ Pids(u, n) = Pids(t, n)
<1>1. \A k \in 0..(n - 1) : k \in 0..(s - 1)
  OBVIOUS
<1>2. \A k \in (n + 1)..(n - 1) : FALSE
  OBVIOUS
<1>3. \A k \in 0..(n - 1) : u[k].pid = t[k].pid /\ u[k].tos = t[k].tos
  BY <1>1 DEF SamePids
<1> QED
  BY <1>2, <1>3 DEF AllBut, Pids

(***************************************************************************)
(* A relocation of somebody who has an entry, or out of the queues, keeps  *)
(* QueuesOf.                                                               *)
(***************************************************************************)
LEMMA RelocatedQueuesOf ==
  ASSUME NEW m, NEW r, NEW t, NEW n, NEW u, NEW w, QueuesOf(m, t, n),
         NEW pid, NEW l, Relocated(m, r, pid, l),
         l \in 0..MAX_QUEUE_LEVELS => pid \in Pids(u, w),
         \A x \in Pids(t, n) : x # pid => x \in Pids(u, w)
  PROVE  QueuesOf(r, u, w)
BY DEF QueuesOf, Relocated

(***************************************************************************)
(* dispatch: next, a live entry of t, runs from now on.  k is what PROCS   *)
(* is by then, against which addToMLFQ tests.                              *)
(***************************************************************************)
LEMMA Resumed ==
  ASSUME CleanHeap, MlfqInv, NEW t, NEW s, NEW n, KTable(t, s, n),
         QueuesOf(multiLevelQueue, t, n),
         NEW next \in 0..(n - 1), NEW k, Resume(t, multiLevelQueue, k, next)
  PROVE  /\ KTable(procTable', s, n) /\ SamePids(t, procTable', s)
         /\ MlfqInv' /\ QueuesOf(multiLevelQueue', procTable', n)
         /\ [FQ!Next]_allContents
         /\ currentProc' = next /\ next \in Stack
         /\ cpu' \in Context
         /\ cpu'.pc \in Program => next \in 1..(n - 1)
<1> DEFINE e == [t[next] EXCEPT !.status = "EXECUTING"]
           pid == t[next].pid
           m == multiLevelQueue
<1>1. /\ s \in Nat /\ n \in Nat /\ n <= s /\ n <= MAX_PROCS /\ MAX_PROCS \in Nat
      /\ t \in [0..(s - 1) -> PCB] /\ next \in 0..(s - 1) /\ t[next] \in PCB
  BY TableFacts
<1>2. /\ procTable' = [t EXCEPT ![next].status = "EXECUTING"]
      /\ m' \in addToMLFQ(m, pid, k)
      /\ currentProc' = next
      /\ cpu' = IF reply THEN [t[next].ctx EXCEPT !.r0 = 0] ELSE t[next].ctx
  BY DEF Resume
<1>3. KTable(procTable', s, n) /\ SamePids(t, procTable', s)
  <2>1. /\ e \in PCB /\ e.pid = t[next].pid /\ e.tos = t[next].tos
        /\ e.status = "EXECUTING" /\ e.ctx = t[next].ctx
    BY <1>1 DEF PCB, Status
  <2>2. e.status \in LiveStatus
    BY <2>1 DEF LiveStatus
  <2>3. ~ (next >= n)
    BY <1>1
  <2>4. next = 0 => e.ctx.pc \notin Program
    BY <2>1 DEF KTable
  <2>5. procTable' = [t EXCEPT ![next] = e]
    BY <1>1, <1>2
  <2> HIDE DEF e
  <2>6. KTable([t EXCEPT ![next] = e], s, n) /\ SamePids(t, [t EXCEPT ![next] = e], s)
    BY <1>1, <2>1, <2>2, <2>3, <2>4, WrittenKTable
  <2> QED
    BY <2>5, <2>6
<1>4. pid \in Pids(t, n) /\ pid \in Pid
  BY FindsLive DEF Pids
<1>5. Pids(procTable', n) = Pids(t, n)
  BY <1>1, <1>3, SamePidsAllBut
<1>6. MlfqInv' /\ QueuesOf(m', procTable', n) /\ [FQ!Next]_allContents
  <2>1. CASE m' = m
    <3>1. UNCHANGED allContents
      BY <2>1, ContentsAreListed
    <3> QED
      BY <1>5, <2>1, <3>1 DEF MlfqInv, QueuesOf
  <2>2. CASE Enter(pid)
    <3>1. MlfqInv' /\ FQ!Enter(pid) /\ Relocated(m, m', pid, 1)
      BY <1>4, <2>2, EnterStep
    <3>2. QueuesOf(m', procTable', n)
      BY <1>4, <1>5, <3>1, RelocatedQueuesOf
    <3> QED
      BY <1>4, <3>1, <3>2 DEF FQ!Next
  <2>3. m' = m \/ Enter(pid)
    BY <1>2 DEF addToMLFQ, Enter
  <2> QED
    BY <2>1, <2>2, <2>3
<1>7. t[next].ctx \in Context
  BY <1>1 DEF PCB
<1>8. cpu' \in Context /\ cpu'.pc = t[next].ctx.pc
  BY <1>2, <1>7 DEF Context
<1>9. cpu'.pc \in Program => next \in 1..(n - 1)
  <2>1. next = 0 \/ next \in 1..(n - 1)
    BY <1>1
  <2> QED
    BY <1>8, <2>1 DEF KTable
<1>10. next \in Stack
  BY <1>1 DEF Stack
<1> QED
  BY <1>2, <1>3, <1>6, <1>8, <1>9, <1>10

-----------------------------------------------------------------------------
(* What the handlers have in common                                        *)

(***************************************************************************)
(* The table with something written into an entry in use, as all handlers  *)
(* do it that neither add nor remove one.                                  *)
(***************************************************************************)
LEMMA EntryWritten ==
  ASSUME KInv, NEW i \in 0..(PROCS - 1), NEW e \in PCB,
         e.pid = procTable[i].pid, e.tos = procTable[i].tos,
         e.status \in LiveStatus, i = 0 => e.ctx.pc \notin Program,
         procTable' = [procTable EXCEPT ![i] = e],
         procTabSize' = procTabSize, PROCS' = PROCS
  PROVE  /\ KTable(procTable', procTabSize', PROCS')
         /\ Pids(procTable', PROCS') = Pids(procTable, PROCS)
         /\ Survive
<1>1. /\ procTabSize \in Nat /\ PROCS \in Nat /\ PROCS <= procTabSize
      /\ i \in 0..(procTabSize - 1) /\ ~ (i >= PROCS)
  BY InvFacts
<1>2. /\ KTable(procTable', procTabSize, PROCS)
      /\ SamePids(procTable, procTable', procTabSize)
  BY <1>1, WrittenKTable DEF KInv
<1>3. /\ AllBut(PROCS, procTable, procTable', PROCS)
      /\ Pids(procTable', PROCS) = Pids(procTable, PROCS)
  BY <1>1, <1>2, SamePidsAllBut
<1>4. Survive
  BY <1>3, SameSurvive
<1> QED
  BY <1>2, <1>3, <1>4

LEMMA QueuesUntouched ==
  ASSUME KInv, multiLevelQueue' = multiLevelQueue,
         \A x \in Pids(procTable, PROCS) : x \in Pids(procTable', PROCS')
  PROVE  /\ MlfqInv' /\ QueuesOf(multiLevelQueue', procTable', PROCS')
         /\ [FQ!Next]_allContents
<1>1. UNCHANGED allContents
  BY ContentsAreListed
<1> QED
  BY <1>1 DEF KInv, MlfqInv, QueuesOf

(***************************************************************************)
(* removeFromMLFQ, of a process that may be queued or not.                 *)
(***************************************************************************)
LEMMA TakenOut ==
  ASSUME CleanHeap, KInv, NEW pid \in Pid,
         multiLevelQueue' = removeFromMLFQ(multiLevelQueue, pid),
         \A x \in Pids(procTable, PROCS) : x # pid => x \in Pids(procTable', PROCS')
  PROVE  /\ MlfqInv' /\ QueuesOf(multiLevelQueue', procTable', PROCS')
         /\ [FQ!Next]_allContents
<1> DEFINE m == multiLevelQueue
<1>1. MlfqInv /\ QueuesOf(m, procTable, PROCS)
  BY DEF KInv
<1>2. CASE inMLFQ(m, pid).level >= 0
  <2>1. Leave(pid)
    BY <1>2 DEF Leave
  <2>2. MlfqInv' /\ FQ!Leave(pid) /\ Relocated(m, m', pid, -1)
    BY <1>1, <2>1, LeaveStep
  <2>3. -1 \notin 0..MAX_QUEUE_LEVELS
    BY ConfigAssumption
  <2>4. QueuesOf(m', procTable', PROCS')
    BY <1>1, <2>2, <2>3, RelocatedQueuesOf
  <2> QED
    BY <2>2, <2>4 DEF FQ!Next
<1>3. CASE ~ (inMLFQ(m, pid).level >= 0)
  <2>1. WellFormed(m) /\ pid \notin Junk
    BY <1>1 DEF MlfqInv, MlfqOf, CleanHeap
  <2>2. inMLFQ(m, pid).level \in Level(m) => inMLFQ(m, pid).level >= 0
    BY <2>1, Levels
  <2>3. /\ \A l \in Level(m) : ~ At(m, l, pid)
        /\ inMLFQ(m, pid).level = -1
    BY <1>3, <2>1, <2>2, SearchFinds
  <2>4. m' = m
    BY <2>3 DEF removeFromMLFQ
  <2>5. UNCHANGED allContents
    BY <2>4, ContentsAreListed
  <2>6. \A k : ~ At(m, k, pid)
    BY <2>3 DEF At
  <2>7. QueuesOf(m', procTable', PROCS')
    BY <1>1, <2>4, <2>6 DEF QueuesOf
  <2> QED
    BY <1>1, <2>4, <2>5, <2>7 DEF MlfqInv
<1> QED
  BY <1>2, <1>3

(***************************************************************************)
(* A step of the running code that touches neither table nor queues.       *)
(***************************************************************************)
LEMMA RegistersOnly ==
  ASSUME KInv, UNCHANGED <<procTable, procTabSize, PROCS, multiLevelQueue>>,
         Running(currentProc', cpu', pc', slot', PROCS),
         PROCS_ACTIVE' \in Int, PROCS_ACTIVE' >= -1, reply' \in BOOLEAN, HistoryInv'
  PROVE  Preserves
<1>1. MlfqInv' /\ QueuesOf(multiLevelQueue', procTable', PROCS') /\ [FQ!Next]_allContents
  BY QueuesUntouched
<1>2. AllBut(PROCS, procTable, procTable', PROCS)
  BY InvFacts, SamePidsAllBut DEF SamePids
<1>3. Survive
  BY <1>2, SameSurvive
<1> QED
  BY <1>1, <1>3 DEF KInv, Preserves

LEMMA RunningFacts ==
  ASSUME KInv
  PROVE  /\ Running(currentProc, cpu, pc, slot, PROCS)
         /\ cpu \in Context /\ currentProc \in Stack /\ slot \in 0..(PROCS - 1)
         /\ PROCS_ACTIVE \in Int /\ PROCS_ACTIVE >= -1 /\ reply \in BOOLEAN
         /\ cpu.pc \in Program => currentProc \in 1..(PROCS - 1)
         /\ PROCS = 1 => /\ pc \in {"user", "fault"}
                         /\ cpu.pc \in {"prompt", "exited"}
BY DEF KInv, Running

\* The registers that the handlers leave behind.
LEMMA NextRegisters ==
  ASSUME NEW c \in Context, NEW code \in Code, NEW r \in {0, 1}
  PROVE  /\ [c EXCEPT !.pc = code] \in Context
         /\ [c EXCEPT !.pc = code].pc = code
         /\ [c EXCEPT !.pc = code, !.r0 = r] \in Context
         /\ [c EXCEPT !.pc = code, !.r0 = r].pc = code
         /\ [c EXCEPT !.r0 = r] \in Context
         /\ [c EXCEPT !.r0 = r].pc = c.pc
         /\ c.pc \in Code
BY DEF Context

(***************************************************************************)
(* schedule() is called with n processes by code that is at the prompt, or *)
(* has exited.                                                             *)
(***************************************************************************)
LEMMA CallsSchedule ==
  ASSUME NEW n \in Nat, n >= 1, CallSchedule(n), currentProc' \in Stack,
         cpu' \in Context, cpu'.pc \in {"prompt", "exited"}
  PROVE  Running(currentProc', cpu', pc', slot', n)
<1>1. cpu'.pc \notin Program
  BY Codes
<1>2. pc' = (IF n > 1 THEN "age" ELSE "user") /\ slot' = 0
  BY DEF CallSchedule
<1> QED
  BY <1>1, <1>2 DEF Running

-----------------------------------------------------------------------------
(* The steps, one lemma for each kind                                      *)

(***************************************************************************)
(* The history table makes room for its entry, as long as it is to grow.   *)
(***************************************************************************)
LEMMA HistoryGrows ==
  ASSUME KInv, procHistoryInit
  PROVE  HistoryInv'
<1>1. /\ procTabHistorySize \in Nat /\ HISTORY_PROCS \in Nat
      /\ HISTORY_PROCS > 0 => procTabHistorySize > 0
      /\ HistoryFits /\ MAX_HISTORY_PROCS \in Nat
  BY HistoryAssumption DEF KInv, HistoryInv
<1>2. procTabHistorySize' = SizeForEntry /\ HISTORY_PROCS' = HISTORY_PROCS + 1
  BY DEF procHistoryInit
<1>3. SizeForEntry \in Nat /\ SizeForEntry > 0
  BY <1>1 DEF SizeForEntry
<1>4. HISTORY_PROCS + 1 <= MAX_HISTORY_PROCS => HISTORY_PROCS + 1 <= SizeForEntry
  BY <1>1 DEF SizeForEntry, HistoryFits
<1> QED
  BY <1>1, <1>2, <1>3, <1>4 DEF HistoryInv, HistoryFits

\* The steps after which the same processes are queued in the same order.
StepOfRegisters ==
  \/ ForkOfFreedEntry
  \/ ExecRefused
  \/ \E pid \in TypedPid : KillStoreOverflow(pid)
  \/ Tick
  \/ MissingLevel
  \/ PickNone
  \/ UNCHANGED vars

LEMMA RegistersStep ==
  ASSUME KInv, StepOfRegisters
  PROVE  Preserves
<1> USE RunningFacts
<1>1. CASE ForkOfFreedEntry
  <2>1. cpu.pc \in {"prompt", "forked"} /\ cpu.pc \notin Program
    BY <1>1, Codes DEF ForkOfFreedEntry, AtPrompt
  <2>2. Running(currentProc', cpu', pc', slot', PROCS)
    BY <1>1, <2>1 DEF ForkOfFreedEntry, Running
  <2>3. HistoryInv'
    BY <1>1, HistoryKept DEF ForkOfFreedEntry
  <2> QED
    BY <1>1, <2>2, <2>3, RegistersOnly DEF ForkOfFreedEntry
<1>2. CASE ExecRefused
  <2>1. cpu' \in Context /\ cpu'.pc = "prompt" /\ "prompt" \notin Program
    BY <1>2, Codes, NextRegisters DEF ExecRefused, Code
  <2>2. Running(currentProc', cpu', pc', slot', PROCS)
    BY <1>2, <2>1 DEF ExecRefused, IsChild, Running
  <2>3. HistoryInv'
    BY <1>2, HistoryKept DEF ExecRefused
  <2> QED
    BY <1>2, <2>2, <2>3, RegistersOnly DEF ExecRefused
<1>3. CASE \E pid \in TypedPid : KillStoreOverflow(pid)
  <2>1. PICK pid \in TypedPid : KillStoreOverflow(pid)
    BY <1>3
  <2>2. Running(currentProc', cpu', pc', slot', PROCS)
    BY <2>1 DEF KillStoreOverflow, Running
  <2>3. HistoryInv'
    BY <2>1, HistoryGrows DEF KillStoreOverflow
  <2> QED
    BY <2>1, <2>2, <2>3, RegistersOnly DEF KillStoreOverflow
<1>4. CASE Tick
  <2>1. PROCS \in Nat /\ PROCS > 1 /\ pc' = "age" /\ slot' = 0
    BY <1>4, InvFacts DEF Tick, CallSchedule
  <2>2. Running(currentProc', cpu', pc', slot', PROCS)
    BY <1>4, <2>1 DEF Tick, Running
  <2>3. HistoryInv'
    BY <1>4, HistoryKept DEF Tick
  <2> QED
    BY <1>4, <2>2, <2>3, RegistersOnly DEF Tick
<1>5. CASE MissingLevel
  <2>1. Running(currentProc', cpu', pc', slot', PROCS)
    BY <1>5 DEF MissingLevel, Running
  <2>2. HistoryInv'
    BY <1>5, HistoryKept DEF MissingLevel
  <2> QED
    BY <1>5, <2>1, <2>2, RegistersOnly DEF MissingLevel
<1>6. CASE PickNone
  <2>1. cpu' \in Context /\ cpu'.pc = cpu.pc
    <3>1. [cpu EXCEPT !.r0 = 0] \in Context /\ [cpu EXCEPT !.r0 = 0].pc = cpu.pc
      BY NextRegisters DEF Context
    <3> QED
      BY <1>6, <3>1 DEF PickNone
  <2>2. Running(currentProc', cpu', pc', slot', PROCS)
    BY <1>6, <2>1 DEF PickNone, Running
  <2>3. HistoryInv'
    BY <1>6, HistoryKept DEF PickNone
  <2> QED
    BY <1>6, <2>2, <2>3, RegistersOnly DEF PickNone
<1>7. CASE UNCHANGED vars
  <2>1. HistoryInv'
    BY <1>7, HistoryKept DEF vars
  <2> QED
    BY <1>7, <2>1, RegistersOnly DEF vars, kernelVars
<1> QED
  BY <1>1, <1>2, <1>3, <1>4, <1>5, <1>6, <1>7 DEF StepOfRegisters

(***************************************************************************)
(* dispatch by schedule(), to somebody who is queued.                      *)
(***************************************************************************)
LEMMA SwitchStep ==
  ASSUME CleanHeap, KInv, pc = "pick",
         NEW pid \in Pids(procTable, PROCS), SwitchTo(pid)
  PROVE  Preserves
<1> DEFINE t == Saved(procTable, currentProc, cpu)
           next == procTableContains(procTable, pid)
<1>1. /\ KTable(procTable, procTabSize, PROCS) /\ MlfqInv
      /\ QueuesOf(multiLevelQueue, procTable, PROCS)
  BY DEF KInv
<1>2. currentProc = 0 => cpu.pc \notin Program
  BY RunningFacts, InvFacts
<1>3. KTable(t, procTabSize, PROCS) /\ SamePids(procTable, t, procTabSize)
  BY <1>1, <1>2, RunningFacts, SavedKTable
<1>4. next \in 0..(PROCS - 1)
  BY <1>1, FindsLive
<1> HIDE DEF t, next
<1>5. AllBut(PROCS, procTable, t, PROCS) /\ Pids(t, PROCS) = Pids(procTable, PROCS)
  BY <1>3, InvFacts, SamePidsAllBut
<1>6. QueuesOf(multiLevelQueue, t, PROCS)
  BY <1>1, <1>5 DEF QueuesOf
<1>7. Resume(t, multiLevelQueue, PROCS, next)
  BY DEF SwitchTo, t, next
<1>8. /\ KTable(procTable', procTabSize, PROCS) /\ SamePids(t, procTable', procTabSize)
      /\ MlfqInv' /\ QueuesOf(multiLevelQueue', procTable', PROCS)
      /\ [FQ!Next]_allContents
      /\ currentProc' = next /\ next \in Stack
      /\ cpu' \in Context
      /\ cpu'.pc \in Program => next \in 1..(PROCS - 1)
  BY <1>1, <1>3, <1>4, <1>6, <1>7, Resumed
<1>9. /\ pc' = "user" /\ reply' = FALSE
      /\ UNCHANGED <<procTabSize, PROCS, PROCS_ACTIVE, slot, historyVars>>
  BY DEF SwitchTo
<1>10. Running(currentProc', cpu', pc', slot', PROCS)
  BY <1>8, <1>9, RunningFacts DEF Running
<1>11. SamePids(procTable, procTable', procTabSize)
  BY <1>3, <1>8 DEF SamePids
<1>12. Survive
  BY <1>11, InvFacts, SamePidsAllBut, SameSurvive
<1>13. HistoryInv'
  BY <1>9, HistoryKept
<1> QED
  BY <1>8, <1>9, <1>10, <1>12, <1>13, RunningFacts DEF KInv, Preserves

(***************************************************************************)
(* Whoever is in front of a queue's length is a process.                   *)
(***************************************************************************)
LEMMA QueuedHasEntry ==
  ASSUME KInv, NEW l \in Level(multiLevelQueue),
         NEW i \in 0..(multiLevelQueue.queues[l].length - 1)
  PROVE  multiLevelQueue.queues[l].processes[i] \in Pids(procTable, PROCS)
<1>1. WellFormed(multiLevelQueue) /\ QueuesOf(multiLevelQueue, procTable, PROCS)
  BY DEF KInv, MlfqInv, MlfqOf
<1>2. l \in 0..MAX_QUEUE_LEVELS
  BY <1>1, Levels
<1>3. At(multiLevelQueue, l, multiLevelQueue.queues[l].processes[i])
  BY DEF At, Has, Prefix
<1> QED
  BY <1>1, <1>2, <1>3 DEF QueuesOf

(***************************************************************************)
(* schedule() switches to processes of the table only.                     *)
(***************************************************************************)
LEMMA PickFCFSSwitches ==
  ASSUME KInv, PickFCFS
  PROVE  pc = "pick" /\ \E pid \in Pids(procTable, PROCS) : SwitchTo(pid)
<1> DEFINE all == UNION {{[level |-> k, index |-> j] :
                            j \in 0..(multiLevelQueue.queues[k].length - 1)} :
                         k \in 1..multiLevelQueue.levels}
           levels == {p.level : p \in Candidates}
           l == LeastOf(levels)
           indices == {p.index : p \in {c \in Candidates : c.level = l}}
           i == LeastOf(indices)
<1>1. /\ WellFormed(multiLevelQueue) /\ multiLevelQueue.levels \in Nat
      /\ Level(multiLevelQueue) = 0..multiLevelQueue.levels
  BY Levels DEF KInv, MlfqInv, MlfqOf, Level
<1>2. Candidates \subseteq all /\ Candidates # {}
  BY DEF Candidates, PickFCFS
<1>3. \A p \in all : /\ p.level \in 1..multiLevelQueue.levels
                     /\ p.index \in 0..(multiLevelQueue.queues[p.level].length - 1)
  OBVIOUS
<1> HIDE DEF all
<1>4. l \in levels
  <2>1. levels \subseteq Nat
    BY <1>1, <1>2, <1>3
  <2>2. levels # {}
    BY <1>2
  <2> HIDE DEF levels
  <2> QED
    BY <2>1, <2>2, LeastOfIsLeast
<1> HIDE DEF l
<1>5. i \in indices
  <2>1. indices \subseteq Nat
    BY <1>2, <1>3
  <2>2. indices # {}
    BY <1>4
  <2> HIDE DEF indices
  <2> QED
    BY <2>1, <2>2, LeastOfIsLeast
<1> HIDE DEF i
<1>6. PICK p \in Candidates : p.level = l /\ p.index = i
  BY <1>5
<1>7. l \in 1..multiLevelQueue.levels /\ i \in 0..(multiLevelQueue.queues[l].length - 1)
  BY <1>2, <1>3, <1>6
<1>8. multiLevelQueue.queues[l].processes[i] \in Pids(procTable, PROCS)
  BY <1>1, <1>7, QueuedHasEntry
<1>9. pc = "pick" /\ SwitchTo(multiLevelQueue.queues[l].processes[i])
  BY DEF PickFCFS, l, i
<1> QED
  BY <1>8, <1>9

(***************************************************************************)
(* When every process is in the round robin queue, its loop runs over the  *)
(* words past its length too.  The pid that it looks for there may be that *)
(* of a slot not in use, but such a slot has the priority 0.               *)
(***************************************************************************)
LEMMA PickRoundRobinSwitches ==
  ASSUME CleanHeap, KInv, PickRoundRobin
  PROVE  pc = "pick" /\ \E pid \in Pids(procTable, PROCS) : SwitchTo(pid)
<1> DEFINE q == multiLevelQueue.queues[0]
           z == LeastOf(CurrentTurn)
           y == IF z # q.length - 1 THEN z + 1 ELSE 0
           at == procTableContains(procTable, CurrentPid)
<1>1. /\ WellFormed(multiLevelQueue) /\ 0 \in Level(multiLevelQueue)
      /\ KTable(procTable, procTabSize, PROCS)
  BY Levels DEF KInv, MlfqInv, MlfqOf
<1>2. ArrayOf(q)
  BY <1>1 DEF WellFormed
<1>3. /\ q.size \in Nat /\ q.length \in Nat /\ q.length <= q.size
      /\ \A i \in q.length..(q.size - 1) : q.processes[i] \in Junk
  BY <1>2, ArrayFacts DEF ArrayOf
<1>4. /\ CurrentTurn \subseteq 0..(q.size - 1)
      /\ \A i \in CurrentTurn : q.processes[i] = CurrentPid
      /\ CurrentTurn # {}
      /\ CurrentTurn # {} => CurrentPid # 0 /\ Runnable(CurrentPid)
  BY <1>3 DEF CurrentTurn, RoundRobin, PickRoundRobin
<1>5. z \in CurrentTurn
  <2>1. CurrentTurn \subseteq Nat
    BY <1>3, <1>4
  <2> QED
    BY <1>4, <2>1, LeastOfIsLeast
<1> HIDE DEF z
<1>6. CurrentPid \notin Junk
  <2>1. /\ procTabSize \in Nat /\ PROCS \in Nat /\ PROCS <= procTabSize
        /\ DOMAIN procTable = 0..(procTabSize - 1)
    BY InvFacts
  <2>2. CurrentPid = procTable[currentProc].pid /\ currentProc \in DOMAIN procTable
    BY <1>4 DEF CurrentPid
  <2>3. {i \in DOMAIN procTable : procTable[i].pid = CurrentPid} # {}
    BY <2>2
  <2>4. {i \in DOMAIN procTable : procTable[i].pid = CurrentPid} \subseteq Nat
    BY <2>1
  <2>5. at = LeastOf({i \in DOMAIN procTable : procTable[i].pid = CurrentPid})
    BY <2>3 DEF procTableContains
  <2>6. at \in {i \in DOMAIN procTable : procTable[i].pid = CurrentPid}
    BY <2>3, <2>4, <2>5, LeastOfIsLeast
  <2>7. at \in 0..(procTabSize - 1) /\ procTable[at].pid = CurrentPid
    BY <2>1, <2>6
  <2>8. procTable[at].priority # 0
    BY <1>4 DEF Runnable, EntryOf
  <2> HIDE DEF at
  <2>9. at \in 0..(PROCS - 1)
    BY <1>1, <2>1, <2>7, <2>8 DEF KTable
  <2>10. CurrentPid \in Pids(procTable, PROCS)
    BY <2>7, <2>9 DEF Pids
  <2>11. CurrentPid \in Pid
    BY <1>1, <2>10, FindsLive
  <2> QED
    BY <2>11 DEF CleanHeap
<1>7. z \in 0..(q.length - 1)
  BY <1>3, <1>4, <1>5, <1>6
<1>8. y \in 0..(q.length - 1)
  BY <1>3, <1>7
<1> HIDE DEF y
<1>9. q.processes[y] \in Pids(procTable, PROCS)
  BY <1>1, <1>8, QueuedHasEntry
<1>10. pc = "pick" /\ SwitchTo(q.processes[y])
  BY DEF PickRoundRobin, RoundRobin, y, z
<1> QED
  BY <1>9, <1>10

(***************************************************************************)
(* An iteration of schedule()'s first loop, whatever it did to the queues. *)
(***************************************************************************)
LEMMA NextSlotStep ==
  ASSUME KInv, pc = "age", NEW m, NextSlot(m)
  PROVE  /\ procTable[slot].pid \in Pids(procTable, PROCS)
         /\ procTable[slot].pid \in Pid
         /\ multiLevelQueue' = m
         /\ Pids(procTable', PROCS') = Pids(procTable, PROCS)
         /\ MlfqInv' /\ QueuesOf(multiLevelQueue', procTable', PROCS')
              /\ [FQ!Next]_allContents
            => Preserves
<1> DEFINE e == [procTable[slot] EXCEPT !.priority = Aged(slot)]
<1>1. /\ procTable' = [procTable EXCEPT ![slot].priority = Aged(slot)]
      /\ multiLevelQueue' = m
      /\ slot' = IF slot + 1 < PROCS THEN slot + 1 ELSE 0
      /\ pc' = IF slot + 1 < PROCS THEN "age" ELSE "pick"
      /\ UNCHANGED <<procTabSize, PROCS, PROCS_ACTIVE, currentProc, cpu, reply, historyVars>>
  BY DEF NextSlot
<1>2. /\ slot \in 0..(PROCS - 1) /\ PROCS \in Nat /\ procTable[slot] \in PCB
      /\ slot \in 0..(procTabSize - 1) /\ DOMAIN procTable = 0..(procTabSize - 1)
      /\ KTable(procTable, procTabSize, PROCS)
  BY RunningFacts, InvFacts DEF KInv
<1>3. Aged(slot) \in Nat
  BY <1>2 DEF Aged, Raised, PCB
<1>4. /\ e \in PCB /\ e.pid = procTable[slot].pid /\ e.tos = procTable[slot].tos
      /\ e.status = procTable[slot].status /\ e.ctx = procTable[slot].ctx
  BY <1>2, <1>3 DEF PCB
<1>5. procTable' = [procTable EXCEPT ![slot] = e]
  BY <1>1, <1>2
<1> HIDE DEF e
<1>6. e.status \in LiveStatus /\ (slot = 0 => e.ctx.pc \notin Program)
  BY <1>2, <1>4 DEF KTable
<1>7. /\ KTable(procTable', procTabSize', PROCS')
      /\ Pids(procTable', PROCS') = Pids(procTable, PROCS)
      /\ Survive
  BY <1>1, <1>2, <1>4, <1>5, <1>6, EntryWritten
<1>8. slot' \in 0..(PROCS - 1)
  BY <1>1, <1>2
<1>9. Running(currentProc', cpu', pc', slot', PROCS')
  BY <1>1, <1>8, RunningFacts DEF Running
<1>10. HistoryInv'
  BY <1>1, HistoryKept
<1>11. procTable[slot].pid \in Pids(procTable, PROCS)
  BY <1>2 DEF Pids
<1>12. procTable[slot].pid \in Pid
  BY <1>2, <1>11, FindsLive
<1> QED
  BY <1>1, <1>7, <1>9, <1>10, <1>11, <1>12, RunningFacts DEF KInv, Preserves

LEMMA AgingStep ==
  ASSUME CleanHeap, KInv, KeepQueue \/ ChangeQueue \/ FallToRoundRobin
  PROVE  Preserves
<1> DEFINE pid == procTable[slot].pid
           m == multiLevelQueue
<1>1. CASE KeepQueue
  <2> DEFINE r == IF Aged(slot) = 0 THEN removeFromMLFQ(m, pid) ELSE m
  <2>1. pc = "age" /\ NextSlot(r)
    BY <1>1 DEF KeepQueue
  <2> HIDE DEF r
  <2>2. /\ pid \in Pid /\ m' = r
        /\ Pids(procTable', PROCS') = Pids(procTable, PROCS)
        /\ MlfqInv' /\ QueuesOf(m', procTable', PROCS') /\ [FQ!Next]_allContents
             => Preserves
    BY <2>1, NextSlotStep
  <2>3. m' = removeFromMLFQ(m, pid) \/ m' = m
    BY <2>2 DEF r
  <2> QED
    BY <2>2, <2>3, TakenOut, QueuesUntouched
<1>2. CASE ChangeQueue
  <2>1. pc = "age"
    BY <1>2 DEF ChangeQueue
  <2>2. PICK l \in 1..MAX_QUEUE_LEVELS :
               /\ l <= Target(l).levels
               /\ \E r \in addToQueue(Target(l), pid, l) : NextSlot(r)
    BY <1>2 DEF ChangeQueue
  <2>3. PICK r \in addToQueue(Target(l), pid, l) : NextSlot(r)
    BY <2>2
  <2>4. /\ pid \in Pids(procTable, PROCS) /\ pid \in Pid /\ m' = r
        /\ Pids(procTable', PROCS') = Pids(procTable, PROCS)
        /\ MlfqInv' /\ QueuesOf(m', procTable', PROCS') /\ [FQ!Next]_allContents
             => Preserves
    BY <2>1, <2>3, NextSlotStep
  <2>5. Demote(pid, l)
    BY <2>2, <2>3, <2>4 DEF Demote, Target
  <2>6. MlfqInv' /\ FQ!Move(pid, l) /\ Relocated(m, m', pid, l)
    BY <2>4, <2>5, DemoteStep DEF KInv
  <2>7. QueuesOf(m, procTable, PROCS)
    BY DEF KInv
  <2>8. QueuesOf(m', procTable', PROCS')
    BY <2>4, <2>6, <2>7, RelocatedQueuesOf
  <2>9. l \in 0..MAX_QUEUE_LEVELS
    BY ConfigAssumption
  <2> QED
    BY <2>4, <2>6, <2>8, <2>9 DEF FQ!Next
<1>3. CASE FallToRoundRobin
  <2>1. pc = "age"
    BY <1>3 DEF FallToRoundRobin
  <2>2. PICK r \in addToQueue(removeFromMLFQ(m, pid), pid, 0) : NextSlot(r)
    BY <1>3 DEF FallToRoundRobin
  <2>3. /\ pid \in Pids(procTable, PROCS) /\ pid \in Pid /\ m' = r
        /\ Pids(procTable', PROCS') = Pids(procTable, PROCS)
        /\ MlfqInv' /\ QueuesOf(m', procTable', PROCS') /\ [FQ!Next]_allContents
             => Preserves
    BY <2>1, <2>2, NextSlotStep
  <2>4. ToRoundRobin(pid)
    BY <2>2, <2>3 DEF ToRoundRobin
  <2>5. MlfqInv' /\ FQ!Move(pid, 0) /\ Relocated(m, m', pid, 0)
    BY <2>3, <2>4, RoundRobinStep DEF KInv
  <2>6. QueuesOf(m, procTable, PROCS)
    BY DEF KInv
  <2>7. QueuesOf(m', procTable', PROCS')
    BY <2>3, <2>5, <2>6, RelocatedQueuesOf
  <2>8. 0 \in 0..MAX_QUEUE_LEVELS
    BY ConfigAssumption
  <2> QED
    BY <2>3, <2>5, <2>7, <2>8 DEF FQ!Next
<1> QED
  BY <1>1, <1>2, <1>3

(***************************************************************************)
(* priority, pause, unpause and sem_wait: something written into an entry. *)
(***************************************************************************)
LEMMA NiceStep ==
  ASSUME CleanHeap, TypedPidsAreNoJunk, KInv, NEW pid \in TypedPid, Nice(pid)
  PROVE  Preserves
<1> DEFINE pos == procTableContains(procTable, pid)
           e == [procTable[pos] EXCEPT !.priority = 1]
<1>1. /\ KTable(procTable, procTabSize, PROCS) /\ pos > -1
      /\ procTable' = [procTable EXCEPT ![pos].priority = 1]
      /\ cpu' = [cpu EXCEPT !.pc = "prompt"]
      /\ CallSchedule(PROCS)
      /\ UNCHANGED <<procTabSize, PROCS, multiLevelQueue, PROCS_ACTIVE, currentProc,
                     reply, historyVars>>
  BY DEF KInv, Nice
<1>2. pos \in 0..(PROCS - 1)
  BY <1>1, FoundIsLive DEF TypedPidsAreNoJunk
<1> HIDE DEF pos
<1>3. /\ procTable[pos] \in PCB /\ pos \in DOMAIN procTable
      /\ PROCS \in Nat /\ PROCS >= 1
  BY <1>2, InvFacts
<1>4. /\ e \in PCB /\ e.pid = procTable[pos].pid /\ e.tos = procTable[pos].tos
      /\ e.status = procTable[pos].status /\ e.ctx = procTable[pos].ctx
  BY <1>3 DEF PCB
<1>5. procTable' = [procTable EXCEPT ![pos] = e]
  BY <1>1, <1>3
<1> HIDE DEF e
<1>6. e.status \in LiveStatus /\ (pos = 0 => e.ctx.pc \notin Program)
  BY <1>1, <1>2, <1>4 DEF KTable
<1>7. /\ KTable(procTable', procTabSize', PROCS')
      /\ Pids(procTable', PROCS') = Pids(procTable, PROCS)
      /\ Survive
  BY <1>1, <1>2, <1>4, <1>5, <1>6, EntryWritten
<1>8. MlfqInv' /\ QueuesOf(multiLevelQueue', procTable', PROCS') /\ [FQ!Next]_allContents
  BY <1>1, <1>7, QueuesUntouched
<1>9. cpu' \in Context /\ cpu'.pc = "prompt"
  BY <1>1, RunningFacts, NextRegisters DEF Code
<1>10. Running(currentProc', cpu', pc', slot', PROCS')
  BY <1>1, <1>3, <1>9, RunningFacts, CallsSchedule
<1>11. HistoryInv'
  BY <1>1, HistoryKept
<1> QED
  BY <1>1, <1>7, <1>8, <1>10, <1>11, RunningFacts DEF KInv, Preserves

LEMMA PauseStep ==
  ASSUME CleanHeap, TypedPidsAreNoJunk, KInv, NEW pid \in TypedPid, Pause(pid)
  PROVE  Preserves
<1> DEFINE pos == procTableContains(procTable, pid)
           e == [procTable[pos] EXCEPT !.priority = 0, !.status = "WAITING"]
<1>1. /\ KTable(procTable, procTabSize, PROCS) /\ pos > 0
      /\ procTable' = [procTable EXCEPT ![pos].priority = 0, ![pos].status = "WAITING"]
      /\ multiLevelQueue' = removeFromMLFQ(multiLevelQueue, pid)
      /\ PROCS_ACTIVE' = Decremented(PROCS_ACTIVE)
      /\ cpu' = [cpu EXCEPT !.pc = "prompt"]
      /\ UNCHANGED <<procTabSize, PROCS, currentProc, pc, slot, reply, historyVars>>
  BY DEF KInv, Pause
<1>2. pos \in 0..(PROCS - 1) /\ pid \in Pid
  BY <1>1, FoundIsLive DEF TypedPidsAreNoJunk
<1> HIDE DEF pos
<1>3. procTable[pos] \in PCB /\ pos \in DOMAIN procTable /\ PROCS \in Nat
  BY <1>2, InvFacts
<1>4. /\ e \in PCB /\ e.pid = procTable[pos].pid /\ e.tos = procTable[pos].tos
      /\ e.status = "WAITING" /\ e.ctx = procTable[pos].ctx
  BY <1>3 DEF PCB, Status
<1>5. procTable' = [procTable EXCEPT ![pos] = e]
  <2> DEFINE x == [procTable[pos] EXCEPT !.priority = 0]
             u == [procTable EXCEPT ![pos] = x]
  <2>1. u = [procTable EXCEPT ![pos].priority = 0]
    BY <1>3
  <2>2. procTable' = [u EXCEPT ![pos].status = "WAITING"]
    BY <1>1, <2>1
  <2>3. u[pos] = x /\ e = [x EXCEPT !.status = "WAITING"]
    BY <1>3
  <2> HIDE DEF x, e
  <2> QED
    BY <1>3, <2>2, <2>3
<1> HIDE DEF e
<1>6. e.status \in LiveStatus /\ (pos = 0 => e.ctx.pc \notin Program)
  BY <1>1, <1>2, <1>4 DEF KTable, LiveStatus
<1>7. /\ KTable(procTable', procTabSize', PROCS')
      /\ Pids(procTable', PROCS') = Pids(procTable, PROCS)
      /\ Survive
  BY <1>1, <1>2, <1>4, <1>5, <1>6, EntryWritten
<1>8. MlfqInv' /\ QueuesOf(multiLevelQueue', procTable', PROCS') /\ [FQ!Next]_allContents
  BY <1>1, <1>2, <1>7, TakenOut
<1>9. cpu' \in Context /\ cpu'.pc = "prompt" /\ "prompt" \notin Program
  BY <1>1, RunningFacts, NextRegisters, Codes DEF Code
<1>10. Running(currentProc', cpu', pc', slot', PROCS')
  BY <1>1, <1>9, RunningFacts DEF Running
<1>11. HistoryInv'
  BY <1>1, HistoryKept
<1>12. PROCS_ACTIVE' \in Int /\ PROCS_ACTIVE' >= -1
  BY <1>1, RunningFacts DEF Decremented
<1> QED
  BY <1>1, <1>7, <1>8, <1>10, <1>11, <1>12, RunningFacts DEF KInv, Preserves

LEMMA UnpauseStep ==
  ASSUME CleanHeap, TypedPidsAreNoJunk, KInv, NEW pid \in TypedPid, Unpause(pid)
  PROVE  Preserves
<1> DEFINE pos == procTableContains(procTable, pid)
           e == [procTable[pos] EXCEPT !.priority = 1, !.status = "READY"]
<1>1. /\ KTable(procTable, procTabSize, PROCS) /\ pos > 0
      /\ procTable' = [procTable EXCEPT ![pos].priority = 1, ![pos].status = "READY"]
      /\ PROCS_ACTIVE' = PROCS_ACTIVE + 1
      /\ cpu' = [cpu EXCEPT !.pc = "prompt"]
      /\ CallSchedule(PROCS)
      /\ UNCHANGED <<procTabSize, PROCS, multiLevelQueue, currentProc, reply, historyVars>>
  BY DEF KInv, Unpause
<1>2. pos \in 0..(PROCS - 1)
  BY <1>1, FoundIsLive DEF TypedPidsAreNoJunk
<1> HIDE DEF pos
<1>3. /\ procTable[pos] \in PCB /\ pos \in DOMAIN procTable
      /\ PROCS \in Nat /\ PROCS >= 1
  BY <1>2, InvFacts
<1>4. /\ e \in PCB /\ e.pid = procTable[pos].pid /\ e.tos = procTable[pos].tos
      /\ e.status = "READY" /\ e.ctx = procTable[pos].ctx
  BY <1>3 DEF PCB, Status
<1>5. procTable' = [procTable EXCEPT ![pos] = e]
  <2> DEFINE x == [procTable[pos] EXCEPT !.priority = 1]
             u == [procTable EXCEPT ![pos] = x]
  <2>1. u = [procTable EXCEPT ![pos].priority = 1]
    BY <1>3
  <2>2. procTable' = [u EXCEPT ![pos].status = "READY"]
    BY <1>1, <2>1
  <2>3. u[pos] = x /\ e = [x EXCEPT !.status = "READY"]
    BY <1>3
  <2> HIDE DEF x, e
  <2> QED
    BY <1>3, <2>2, <2>3
<1> HIDE DEF e
<1>6. e.status \in LiveStatus /\ (pos = 0 => e.ctx.pc \notin Program)
  BY <1>1, <1>2, <1>4 DEF KTable, LiveStatus
<1>7. /\ KTable(procTable', procTabSize', PROCS')
      /\ Pids(procTable', PROCS') = Pids(procTable, PROCS)
      /\ Survive
  BY <1>1, <1>2, <1>4, <1>5, <1>6, EntryWritten
<1>8. MlfqInv' /\ QueuesOf(multiLevelQueue', procTable', PROCS') /\ [FQ!Next]_allContents
  BY <1>1, <1>7, QueuesUntouched
<1>9. cpu' \in Context /\ cpu'.pc = "prompt"
  BY <1>1, RunningFacts, NextRegisters DEF Code
<1>10. Running(currentProc', cpu', pc', slot', PROCS')
  BY <1>1, <1>3, <1>9, RunningFacts, CallsSchedule
<1>11. HistoryInv'
  BY <1>1, HistoryKept
<1>12. PROCS_ACTIVE' \in Int /\ PROCS_ACTIVE' >= -1
  BY <1>1, RunningFacts
<1> QED
  BY <1>1, <1>7, <1>8, <1>10, <1>11, <1>12, RunningFacts DEF KInv, Preserves

\* The running program's pid.
LEMMA ProgramHasPid ==
  ASSUME KInv, cpu.pc \in Program
  PROVE  /\ CurrentPid \in Pids(procTable, PROCS) /\ CurrentPid # CONSOLE_PID
         /\ CurrentPid \in Pid /\ currentProc \in 1..(PROCS - 1)
         /\ PROCS \in Nat /\ PROCS > 1
<1>1. /\ currentProc \in 1..(PROCS - 1) /\ PROCS \in Nat
      /\ \A i \in 0..(PROCS - 1) : i \in DOMAIN procTable
      /\ TableOf(procTable, procTabSize, PROCS)
  BY RunningFacts, InvFacts DEF KInv, KTable
<1>2. currentProc \in 0..(PROCS - 1) /\ currentProc # 0 /\ PROCS > 1
  BY <1>1
<1>3. CurrentPid = procTable[currentProc].pid
  BY <1>1, <1>2 DEF CurrentPid
<1>4. CurrentPid # CONSOLE_PID /\ CurrentPid \in Pid
  BY <1>1, <1>2, <1>3, LivePids
<1>5. CurrentPid \in Pids(procTable, PROCS)
  BY <1>2, <1>3 DEF Pids
<1> QED
  BY <1>1, <1>2, <1>4, <1>5

LEMMA SemWaitStep ==
  ASSUME KInv, SemWait
  PROVE  Preserves
<1> DEFINE pos == procTableContains(procTable, CurrentPid)
           e == [procTable[pos] EXCEPT !.status = "WAITING"]
<1>1. /\ KTable(procTable, procTabSize, PROCS)
      /\ pc = "user" /\ cpu.pc = "diningPhil"
      /\ procTable' = [procTable EXCEPT ![pos].status = "WAITING"]
      /\ cpu' = [cpu EXCEPT !.pc = "spinning", !.r0 = 0]
      /\ UNCHANGED <<procTabSize, PROCS, multiLevelQueue,
                     PROCS_ACTIVE, currentProc, pc, slot, reply, historyVars>>
  BY DEF KInv, SemWait
<1>2. CurrentPid \in Pids(procTable, PROCS) /\ PROCS > 1
  BY <1>1, RunningFacts, Codes, ProgramHasPid
<1>3. pos \in 0..(PROCS - 1)
  BY <1>1, <1>2, FindsLive
<1> HIDE DEF pos
<1>4. procTable[pos] \in PCB /\ pos \in DOMAIN procTable /\ PROCS \in Nat
  BY <1>3, InvFacts
<1>5. /\ e \in PCB /\ e.pid = procTable[pos].pid /\ e.tos = procTable[pos].tos
      /\ e.status = "WAITING" /\ e.ctx = procTable[pos].ctx
  BY <1>4 DEF PCB, Status
<1>6. procTable' = [procTable EXCEPT ![pos] = e]
  BY <1>1, <1>4
<1> HIDE DEF e
<1>7. e.status \in LiveStatus /\ (pos = 0 => e.ctx.pc \notin Program)
  BY <1>1, <1>5 DEF KTable, LiveStatus
<1>8. /\ KTable(procTable', procTabSize', PROCS')
      /\ Pids(procTable', PROCS') = Pids(procTable, PROCS)
      /\ Survive
  BY <1>1, <1>3, <1>5, <1>6, <1>7, EntryWritten
<1>9. MlfqInv' /\ QueuesOf(multiLevelQueue', procTable', PROCS') /\ [FQ!Next]_allContents
  BY <1>1, <1>8, QueuesUntouched
<1>10. cpu' \in Context /\ cpu'.pc = "spinning" /\ "spinning" \notin Program
  <2>1. "spinning" \in Code /\ "spinning" \notin Program
    BY Codes DEF Code
  <2>2. /\ [cpu EXCEPT !.pc = "spinning", !.r0 = 0] \in Context
        /\ [cpu EXCEPT !.pc = "spinning", !.r0 = 0].pc = "spinning"
    BY <2>1, RunningFacts, NextRegisters
  <2> QED
    BY <1>1, <2>1, <2>2
<1>11. Running(currentProc', cpu', pc', slot', PROCS')
  BY <1>1, <1>2, <1>10, RunningFacts DEF Running
<1>12. HistoryInv'
  BY <1>1, HistoryKept
<1> QED
  BY <1>1, <1>8, <1>9, <1>11, <1>12, RunningFacts DEF KInv, Preserves

(***************************************************************************)
(* exit and kill, of a process behind the console's.                       *)
(***************************************************************************)
LEMMA TerminateStep ==
  ASSUME CleanHeap, KInv, NEW pid \in Pids(procTable, PROCS), Terminate(pid),
         cpu' \in Context, cpu'.pc \in {"prompt", "exited"},
         reply' \in BOOLEAN, HistoryInv'
  PROVE  Preserves
<1> DEFINE pos == procTableContains(procTable, pid)
<1>1. /\ KTable(procTable, procTabSize, PROCS) /\ pos > 0
      /\ multiLevelQueue' = removeFromMLFQ(multiLevelQueue, pid)
      /\ procTable' = Deleted(procTable, procTabSize, PROCS, pos)
      /\ procTabSize' = SizeAfterDelete(procTabSize, PROCS)
      /\ PROCS' = PROCS - 1
      /\ PROCS_ACTIVE' = Decremented(PROCS_ACTIVE)
      /\ CallSchedule(PROCS - 1)
      /\ UNCHANGED currentProc
  BY DEF KInv, Terminate
<1>2. pos \in 0..(PROCS - 1) /\ procTable[pos].pid = pid /\ pid \in Pid
  BY <1>1, FindsLive
<1> HIDE DEF pos
<1>3. PROCS \in Nat /\ PROCS >= 1 /\ pos \in 1..(PROCS - 1)
  BY <1>1, <1>2, InvFacts
<1>4. PROCS - 1 \in Nat /\ PROCS - 1 >= 1 /\ pos \in 0..PROCS
  BY <1>3
<1>5. /\ KTable(procTable', procTabSize', PROCS')
      /\ AllBut(pos, procTable, procTable', PROCS)
      /\ \A x \in Pids(procTable, PROCS) : x # pid => x \in Pids(procTable', PROCS')
  BY <1>1, <1>2, <1>3, ShrunkKTable
<1>6. Survive
  BY <1>1, <1>4, <1>5 DEF Survive, SameProcess, AllBut
<1>7. MlfqInv' /\ QueuesOf(multiLevelQueue', procTable', PROCS') /\ [FQ!Next]_allContents
  BY <1>1, <1>2, <1>5, TakenOut
<1>8. Running(currentProc', cpu', pc', slot', PROCS - 1)
  BY <1>1, <1>4, RunningFacts, CallsSchedule
<1>9. PROCS_ACTIVE' \in Int /\ PROCS_ACTIVE' >= -1
  BY <1>1, RunningFacts DEF Decremented
<1> QED
  BY <1>1, <1>5, <1>6, <1>7, <1>8, <1>9 DEF KInv, Preserves

LEMMA ExitStep ==
  ASSUME CleanHeap, KInv, Exit
  PROVE  Preserves
<1>1. /\ pc = "user" /\ cpu.pc = "P5" /\ Terminate(CurrentPid)
      /\ cpu' = [cpu EXCEPT !.pc = "exited"]
      /\ UNCHANGED <<reply, historyVars>>
  BY DEF Exit
<1>2. CurrentPid \in Pids(procTable, PROCS)
  BY <1>1, RunningFacts, Codes, ProgramHasPid
<1>3. cpu' \in Context /\ cpu'.pc = "exited"
  BY <1>1, RunningFacts, NextRegisters DEF Code
<1>4. HistoryInv' /\ reply' \in BOOLEAN
  BY <1>1, HistoryKept, RunningFacts
<1> QED
  BY <1>1, <1>2, <1>3, <1>4, TerminateStep

LEMMA KilledStep ==
  ASSUME CleanHeap, TypedPidsAreNoJunk, KInv, NEW pid \in TypedPid, Killed(pid),
         HistoryInv'
  PROVE  Preserves
<1>1. /\ Terminate(pid)
      /\ cpu' = [cpu EXCEPT !.pc = "prompt", !.r0 = 0]
      /\ reply' = (PROCS - 1 > 1)
  BY DEF Killed
<1>2. KTable(procTable, procTabSize, PROCS) /\ procTableContains(procTable, pid) # -1
  BY <1>1 DEF KInv, Terminate
<1>3. pid \in Pids(procTable, PROCS)
  BY <1>2, FoundIsLive DEF TypedPidsAreNoJunk
<1>4. cpu' \in Context /\ cpu'.pc = "prompt"
  <2>1. "prompt" \in Code
    BY DEF Code
  <2>2. /\ [cpu EXCEPT !.pc = "prompt", !.r0 = 0] \in Context
        /\ [cpu EXCEPT !.pc = "prompt", !.r0 = 0].pc = "prompt"
    BY <2>1, RunningFacts, NextRegisters
  <2> QED
    BY <1>1, <2>2
<1>5. reply' \in BOOLEAN
  BY <1>1
<1> QED
  BY <1>1, <1>3, <1>4, <1>5, TerminateStep

LEMMA KillStep ==
  ASSUME CleanHeap, TypedPidsAreNoJunk, KInv, NEW pid \in TypedPid,
         Kill(pid) \/ KillStore(pid)
  PROVE  Preserves
<1>1. HistoryInv'
  BY HistoryKept, HistoryGrows DEF Kill, KillStore
<1> QED
  BY <1>1, KilledStep DEF Kill, KillStore

(***************************************************************************)
(* exec: the last entry is never the console's, because a process that is  *)
(* not alone is there to call it.                                          *)
(***************************************************************************)
LEMMA ExecStep ==
  ASSUME CleanHeap, KInv, NEW a \in Program, Exec(a)
  PROVE  Preserves
<1> DEFINE last == PROCS - 1
           e == Restarted(procTable[last], a)
           t == [procTable EXCEPT ![last] = e]
           next == procTableContains(t, t[last].pid)
<1>1. /\ KTable(procTable, procTabSize, PROCS) /\ MlfqInv
      /\ QueuesOf(multiLevelQueue, procTable, PROCS)
  BY DEF KInv
<1>2. /\ pc = "user" /\ cpu.pc = "forked"
      /\ UNCHANGED <<procTabSize, PROCS, PROCS_ACTIVE, pc, slot, reply, historyVars>>
  BY DEF Exec, IsChild
<1>3. PROCS \in Nat /\ PROCS > 1 /\ last \in 0..(procTabSize - 1)
      /\ last \in 0..(PROCS - 1) /\ last # 0 /\ ~ (last >= PROCS)
      /\ DOMAIN procTable = 0..(procTabSize - 1) /\ procTable[last] \in PCB
  BY <1>2, RunningFacts, InvFacts
<1>4. Resume(t, multiLevelQueue, PROCS, next)
  <2>1. t = [procTable EXCEPT ![PROCS - 1] = Restarted(@, a)]
    OBVIOUS
  <2> QED
    BY <2>1 DEF Exec
<1>5. /\ e \in PCB /\ e.pid = procTable[last].pid /\ e.tos = procTable[last].tos
      /\ e.status = procTable[last].status
  <2>1. [pc |-> a, sp |-> procTable[last].tos, r0 |-> 0] \in Context
    BY <1>3 DEF PCB, Context, Code
  <2> QED
    BY <1>3, <2>1 DEF Restarted, PCB
<1> HIDE DEF last, e
<1>6. e.status \in LiveStatus
  BY <1>1, <1>3, <1>5 DEF KTable
<1>7. KTable(t, procTabSize, PROCS) /\ SamePids(procTable, t, procTabSize)
  BY <1>1, <1>3, <1>5, <1>6, WrittenKTable
<1> HIDE DEF t
<1>8. t[last].pid \in Pids(t, PROCS)
  BY <1>3 DEF Pids
<1>9. next \in 0..(PROCS - 1)
  BY <1>7, <1>8, FindsLive
<1> HIDE DEF next
<1>10. Pids(t, PROCS) = Pids(procTable, PROCS)
  BY <1>7, InvFacts, SamePidsAllBut
<1>11. QueuesOf(multiLevelQueue, t, PROCS)
  BY <1>1, <1>10 DEF QueuesOf
<1>12. /\ KTable(procTable', procTabSize, PROCS) /\ SamePids(t, procTable', procTabSize)
       /\ MlfqInv' /\ QueuesOf(multiLevelQueue', procTable', PROCS)
       /\ [FQ!Next]_allContents
       /\ currentProc' = next /\ next \in Stack
       /\ cpu' \in Context
       /\ cpu'.pc \in Program => next \in 1..(PROCS - 1)
  BY <1>1, <1>4, <1>7, <1>9, <1>11, Resumed
<1>13. Running(currentProc', cpu', pc', slot', PROCS)
  BY <1>2, <1>3, <1>12, RunningFacts DEF Running
<1>14. SamePids(procTable, procTable', procTabSize)
  BY <1>7, <1>12 DEF SamePids
<1>15. Survive
  BY <1>14, InvFacts, SamePidsAllBut, SameSurvive
<1>16. HistoryInv'
  BY <1>2, HistoryKept
<1> QED
  BY <1>2, <1>12, <1>13, <1>15, <1>16, RunningFacts DEF KInv, Preserves

(***************************************************************************)
(* fork, by the console or a philosopher, whose entry need not be one in   *)
(* use: a console that kill left on a slot behind the others goes on.      *)
(***************************************************************************)
LEMMA ForkStep ==
  ASSUME CleanHeap, KInv, pc = "user", NEW c \in Context,
         currentProc = 0 => c.pc \notin Program,
         ForkWith(c)
  PROVE  Preserves
<1> DEFINE n == PROCS
           s == procTabSize
           parent == Saved(procTable, currentProc, c)
           child == Child(parent[currentProc], c, n)
           Copied(fresh) == [WithRoom(parent, s, n, fresh) EXCEPT ![n] = child]
           size == SizeWithRoom(s, n)
<1>1. /\ KTable(procTable, s, n) /\ MlfqInv
      /\ QueuesOf(multiLevelQueue, procTable, n)
      /\ n \in Nat /\ n >= 1 /\ s \in Nat /\ n <= s /\ DOMAIN procTable = 0..(s - 1)
  BY InvFacts DEF KInv
<1>2. /\ n < MAX_PROCS /\ currentProc \in DOMAIN procTable
      /\ procTabSize' = size /\ PROCS' = n + 1
      /\ PROCS_ACTIVE' = PROCS_ACTIVE + 1
      /\ UNCHANGED <<pc, slot, reply, historyVars>>
  BY DEF ForkWith
<1>3. PICK fresh \in FreshMemory(n, s) :
        Resume(Saved(Copied(fresh), currentProc, c), multiLevelQueue, n + 1,
               procTableContains(Copied(fresh), child.pid))
  BY DEF ForkWith
<1> DEFINE copied == Copied(fresh)
           saved == Saved(copied, currentProc, c)
           next == procTableContains(copied, child.pid)
\* the parent, saved
<1>4. /\ KTable(parent, s, n) /\ SamePids(procTable, parent, s)
      /\ parent[currentProc].status = "READY"
  BY <1>1, <1>2, SavedKTable
<1>5. AllBut(n, procTable, parent, n) /\ Pids(parent, n) = Pids(procTable, n)
  BY <1>1, <1>4, SamePidsAllBut
<1> HIDE DEF parent
\* the copy behind it
<1>6. /\ KTable(copied, size, n + 1)
      /\ AllBut(n, parent, copied, n)
      /\ \A i \in 0..(n - 1) : copied[i] = parent[i]
      /\ copied[n] = child
  <2>1. currentProc \in 0..(s - 1) /\ "READY" \in LiveStatus
    BY <1>1, <1>2 DEF LiveStatus
  <2> QED
    BY <1>2, <1>4, <2>1, GrownKTable
<1> HIDE DEF child, copied, size
<1>7. /\ child.pid \in Pids(copied, n + 1)
      /\ \A x \in Pids(procTable, n) : x \in Pids(copied, n + 1)
  <2>1. n \in 0..((n + 1) - 1) /\ \A i \in 0..(n - 1) : i \in 0..((n + 1) - 1)
    BY <1>1
  <2>2. \A x \in Pids(parent, n) : x \in Pids(copied, n + 1)
    BY <1>6, <2>1 DEF Pids
  <2> QED
    BY <1>5, <1>6, <2>1, <2>2 DEF Pids
<1>8. next \in 0..n
  <2>1. next \in 0..((n + 1) - 1)
    BY <1>6, <1>7, FindsLive
  <2> QED
    BY <1>1, <2>1
<1> HIDE DEF next
\* the parent saved once more, by dispatch
<1>9. KTable(saved, size, n + 1) /\ SamePids(copied, saved, size)
  BY <1>6, SavedKTable
<1> HIDE DEF saved
<1>10. size \in Nat /\ n + 1 \in Nat /\ n + 1 <= size
  BY <1>6, TableFacts
<1>11. Pids(saved, n + 1) = Pids(copied, n + 1)
  BY <1>9, <1>10, SamePidsAllBut
<1>12. QueuesOf(multiLevelQueue, saved, n + 1)
  BY <1>1, <1>7, <1>11 DEF QueuesOf
<1>13. Resume(saved, multiLevelQueue, n + 1, next)
  BY <1>3 DEF saved, copied, next
<1>14. next \in 0..((n + 1) - 1)
  BY <1>1, <1>8
<1>15. /\ KTable(procTable', size, n + 1) /\ SamePids(saved, procTable', size)
       /\ MlfqInv' /\ QueuesOf(multiLevelQueue', procTable', n + 1)
       /\ [FQ!Next]_allContents
       /\ currentProc' = next /\ next \in Stack
       /\ cpu' \in Context
       /\ cpu'.pc \in Program => next \in 1..((n + 1) - 1)
  BY <1>1, <1>9, <1>12, <1>13, <1>14, Resumed
<1>16. Running(currentProc', cpu', pc', slot', n + 1)
  <2>1. slot' \in 0..((n + 1) - 1) /\ n + 1 # 1
    BY <1>1, <1>2, RunningFacts
  <2> QED
    BY <1>2, <1>15, <2>1 DEF Running
<1>17. Survive
  <2>1. \A i \in 0..(n - 1) : i \in 0..(s - 1) /\ i \in 0..(size - 1)
    BY <1>1, <1>10
  <2>2. \A i \in 0..(n - 1) : /\ procTable'[i].pid = procTable[i].pid
                              /\ procTable'[i].tos = procTable[i].tos
    BY <1>4, <1>6, <1>9, <1>15, <2>1 DEF SamePids
  <2>3. AllBut(n, procTable, procTable', n)
    BY <1>1, <2>2 DEF AllBut
  <2> QED
    BY <2>3, SameSurvive
<1>18. HistoryInv'
  BY <1>2, HistoryKept
<1>19. PROCS_ACTIVE' \in Int /\ PROCS_ACTIVE' >= -1
  BY <1>2, RunningFacts
<1> QED
  BY <1>2, <1>15, <1>16, <1>17, <1>18, <1>19, RunningFacts DEF KInv, Preserves

LEMMA ForksStep ==
  ASSUME CleanHeap, KInv, Fork \/ ForkPhilosopher
  PROVE  Preserves
<1>1. CASE Fork
  <2> DEFINE c == [cpu EXCEPT !.pc = "forked", !.r0 = 1]
  <2>1. pc = "user" /\ ForkWith(c)
    BY <1>1 DEF Fork, AtPrompt
  <2>2. "forked" \in Code /\ "forked" \notin Program
    BY Codes DEF Code
  <2>3. c \in Context /\ c.pc = "forked"
    BY <2>2, RunningFacts, NextRegisters
  <2> QED
    BY <2>1, <2>2, <2>3, ForkStep
<1>2. CASE ForkPhilosopher
  <2>1. pc = "user" /\ cpu.pc = "diningPhil" /\ ForkWith(cpu)
    BY <1>2 DEF ForkPhilosopher
  <2>2. currentProc # 0
    BY <2>1, RunningFacts, Codes, InvFacts
  <2> QED
    BY <2>1, <2>2, RunningFacts, ForkStep
<1> QED
  BY <1>1, <1>2

-----------------------------------------------------------------------------
(* Together                                                                *)

LEMMA EveryStep ==
  ASSUME CleanHeap, TypedPidsAreNoJunk, KInv, [Next]_vars
  PROVE  Preserves
<1>1. CASE StepOfRegisters
  BY <1>1, RegistersStep
<1>2. CASE Fork \/ ForkPhilosopher
  BY <1>2, ForksStep
<1>3. CASE SemWait
  BY <1>3, SemWaitStep
<1>4. CASE \E a \in Program : Exec(a)
  BY <1>4, ExecStep
<1>5. CASE Exit
  BY <1>5, ExitStep
<1>6. CASE \E pid \in TypedPid : Kill(pid) \/ KillStore(pid)
  BY <1>6, KillStep
<1>7. CASE \E pid \in TypedPid : Nice(pid) \/ Pause(pid) \/ Unpause(pid)
  BY <1>7, NiceStep, PauseStep, UnpauseStep
<1>8. CASE KeepQueue \/ ChangeQueue \/ FallToRoundRobin
  BY <1>8, AgingStep
<1>9. CASE PickFCFS
  BY <1>9, PickFCFSSwitches, SwitchStep
<1>10. CASE PickRoundRobin
  BY <1>10, PickRoundRobinSwitches, SwitchStep
<1> QED
  BY <1>1, <1>2, <1>3, <1>4, <1>5, <1>6, <1>7, <1>8, <1>9, <1>10
     DEF Next, SystemCall, Schedule, StepOfRegisters

(***************************************************************************)
(* Reset leaves the console alone in the table, dispatched and, where      *)
(* there is room for another process, queued.                              *)
(***************************************************************************)
LEMMA Reset ==
  ASSUME CleanHeap, Boot
  PROVE  KInv
<1> DEFINE e == [ConsoleEntry EXCEPT !.status = "EXECUTING"]
<1>1. MAX_PROCS \in Nat /\ MAX_PROCS > 1 /\ "prompt" \notin Program
  BY ConfigAssumption, Codes
<1>2. /\ procTable = [i \in {0} |-> e] /\ procTabSize = 1 /\ PROCS = 1
      /\ multiLevelQueue \in addToMLFQ(invokeQueueMLFQ, CONSOLE_PID, 1)
      /\ PROCS_ACTIVE = 1 /\ currentProc = 0 /\ cpu = ConsoleEntry.ctx
      /\ pc = "user" /\ slot = 0 /\ reply = FALSE /\ HistoryInit
  BY DEF Boot
<1>3. 0 \in Stack /\ ConsoleEntry.ctx \in Context /\ ConsoleEntry.ctx.pc = "prompt"
  BY <1>1 DEF Stack, ConsoleEntry, ZeroContext, Context, Code
<1>4. /\ e \in PCB /\ e.pid = CONSOLE_PID /\ e.tos = 0 /\ e.ctx = ConsoleEntry.ctx
      /\ e.status = "EXECUTING"
  <2>1. /\ ConsoleEntry \in PCB
        /\ ConsoleEntry.pid = CONSOLE_PID /\ ConsoleEntry.tos = 0
    BY <1>3 DEF ConsoleEntry, PCB, Status, CONSOLE_PID
  <2> QED
    BY <2>1 DEF PCB, Status
<1> HIDE DEF e
<1>5. 0..(1 - 1) = {0}
  OBVIOUS
<1>6. TableOf(procTable, 1, 1)
  BY <1>1, <1>2, <1>4, <1>5 DEF TableOf
<1>7. KTable(procTable, procTabSize, PROCS)
  BY <1>1, <1>2, <1>3, <1>4, <1>5, <1>6 DEF KTable, LiveStatus
<1>8. CONSOLE_PID \in Pid /\ CONSOLE_PID \in Pids(procTable, PROCS)
  BY <1>2, <1>4, <1>5 DEF Pid, Pids
<1>9. MlfqInv /\ QueuesOf(multiLevelQueue, procTable, PROCS)
  <2> DEFINE b == invokeQueueMLFQ
  <2>1. MlfqOf(b) /\ Held(b) = {}
    BY InitialQueues
  <2>2. \A k, x : ~ At(b, k, x)
    BY DEF At, Level, Has, Prefix, invokeQueueMLFQ, EmptyQueue
  <2>3. CASE multiLevelQueue = b
    BY <2>1, <2>2, <2>3 DEF MlfqInv, QueuesOf
  <2>4. CASE multiLevelQueue \in addToQueue(b, CONSOLE_PID, 1)
    <3>1. 1 \in Level(b)
      BY <2>1, Levels DEF MlfqOf
    <3>2. /\ MlfqOf(multiLevelQueue)
          /\ \A k, x : At(multiLevelQueue, k, x)
                         <=> At(b, k, x) \/ (k = 1 /\ x = CONSOLE_PID)
      BY <1>8, <2>1, <2>4, <3>1, AddedProcess
    <3> QED
      BY <1>8, <2>2, <3>2 DEF MlfqInv, QueuesOf
  <2>5. multiLevelQueue = b \/ multiLevelQueue \in addToQueue(b, CONSOLE_PID, 1)
    BY <1>2 DEF addToMLFQ
  <2> QED
    BY <2>3, <2>4, <2>5
<1>10. Running(currentProc, cpu, pc, slot, PROCS)
  BY <1>1, <1>2, <1>3 DEF Running
<1>11. HistoryInv
  BY <1>2, HistoryAssumption DEF HistoryInit, HistoryInv, HistoryFits
<1>12. PROCS_ACTIVE \in Int /\ PROCS_ACTIVE >= -1
  BY <1>2
<1>13. reply \in BOOLEAN
  BY <1>2
<1> QED
  BY <1>7, <1>9, <1>10, <1>11, <1>12, <1>13 DEF KInv

LEMMA KInvariant ==
  ASSUME CleanHeap, TypedPidsAreNoJunk
  PROVE  Spec => []KInv
<1>1. Boot => KInv
  BY Reset
<1>2. KInv /\ [Next]_vars => KInv'
  BY EveryStep DEF Preserves
<1> QED
  BY <1>1, <1>2, PTL DEF Spec

-----------------------------------------------------------------------------
(* What the invariant says of the kernel at any moment                     *)

LEMMA KTyped ==
  ASSUME KInv
  PROVE  KTypeOK
<1>1. PTTypeOK
  BY InvFacts DEF PTTypeOK
<1>2. MLFQTypeOK
  BY MlfqTyped DEF KInv
<1> QED
  BY <1>1, <1>2, InvFacts, RunningFacts DEF KTypeOK, KInv, Running

LEMMA KQueuedAreLive ==
  ASSUME CleanHeap, KInv
  PROVE  QueuedAreLive
<1> SUFFICES ASSUME NEW pid \in Pid, inMLFQ(multiLevelQueue, pid).level >= 0
             PROVE  procTableContains(procTable, pid) >= 0
  BY DEF QueuedAreLive
<1> DEFINE p == inMLFQ(multiLevelQueue, pid)
<1>1. /\ WellFormed(multiLevelQueue) /\ QueuesOf(multiLevelQueue, procTable, PROCS)
      /\ KTable(procTable, procTabSize, PROCS)
  BY DEF KInv, MlfqInv, MlfqOf
<1>2. pid \notin Junk
  BY DEF CleanHeap
<1>3. p # [level |-> -1, index |-> -1]
  OBVIOUS
<1>4. /\ p.level \in Level(multiLevelQueue)
      /\ p.index \in Prefix(multiLevelQueue.queues[p.level])
      /\ multiLevelQueue.queues[p.level].processes[p.index] = pid
  BY <1>1, <1>2, <1>3, SearchFinds
<1>5. pid \in Pids(procTable, PROCS)
  BY <1>4, QueuedHasEntry DEF Prefix
<1>6. procTableContains(procTable, pid) \in 0..(PROCS - 1)
  BY <1>1, <1>5, FindsLive
<1> QED
  BY <1>6

LEMMA KProgramsHaveEntries ==
  ASSUME KInv
  PROVE  ProgramsHaveEntries
<1> SUFFICES ASSUME cpu.pc \in Program
             PROVE  procTableContains(procTable, CurrentPid) > 0
  BY DEF ProgramsHaveEntries
<1>1. KTable(procTable, procTabSize, PROCS)
  BY DEF KInv
<1>2. procTableContains(procTable, CurrentPid) \in 1..(PROCS - 1)
  BY <1>1, ProgramHasPid, FindsLive
<1> QED
  BY <1>2

-----------------------------------------------------------------------------
(* The theorems                                                            *)

(***************************************************************************)
(* Whatever is called, typed and interrupted: schedule() indexes the table *)
(* within the processes there are, currentProc points into the table or to *)
(* one of its former slots, and the arrays have the words their sizes say. *)
(***************************************************************************)
THEOREM KernelTypeCorrect ==
  ASSUME CleanHeap, TypedPidsAreNoJunk
  PROVE  Spec => []KTypeOK
<1>1. KInv => KTypeOK
  BY KTyped
<1> QED
  BY <1>1, KInvariant, PTL

(***************************************************************************)
(* Table and queues agree: schedule() never looks up a queued pid in vain, *)
(* because exit, kill and pause take a process out of the queues whenever  *)
(* they take it out of the table.                                          *)
(***************************************************************************)
THEOREM TheQueuedAreLive ==
  ASSUME CleanHeap, TypedPidsAreNoJunk
  PROVE  Spec => []QueuedAreLive
<1>1. KInv => QueuedAreLive
  BY KQueuedAreLive
<1> QED
  BY <1>1, KInvariant, PTL

(***************************************************************************)
(* dispatch, which is called of processes that are queued and of others,   *)
(* and the moves of schedule() never queue a process twice.                *)
(***************************************************************************)
THEOREM KernelQueuesOnce ==
  ASSUME CleanHeap, TypedPidsAreNoJunk
  PROVE  Spec => []QueuedOnce
<1>1. KInv => QueuedOnce
  BY MlfqQueuedOnce DEF KInv
<1> QED
  BY <1>1, KInvariant, PTL

(***************************************************************************)
(* schedule()'s branch for STATUS_INVALID is dead code: no entry in use    *)
(* ever has that status, nor CREATED or TERMINATED.                        *)
(***************************************************************************)
THEOREM NoEntryInvalid ==
  ASSUME CleanHeap, TypedPidsAreNoJunk
  PROVE  Spec => []NoInvalidEntry
<1>1. KInv => NoInvalidEntry
  BY DEF KInv, KTable, NoInvalidEntry, Live
<1> QED
  BY <1>1, KInvariant, PTL

(***************************************************************************)
(* Up to MAX_HISTORY_PROCS entries of killed processes find room in the    *)
(* history table, as long as it doubles.                                   *)
(***************************************************************************)
THEOREM HistoryHasRoom ==
  ASSUME CleanHeap, TypedPidsAreNoJunk
  PROVE  Spec => []HistoryFits
<1>1. KInv => HistoryFits
  BY DEF KInv, HistoryInv
<1> QED
  BY <1>1, KInvariant, PTL

(***************************************************************************)
(* However many processes exit and are killed in front of it, a running    *)
(* program is found by its pid behind the console's slot: exit and         *)
(* sem_wait, which do not test what they find, find an entry.              *)
(***************************************************************************)
THEOREM RunningProgramsHaveEntries ==
  ASSUME CleanHeap, TypedPidsAreNoJunk
  PROVE  Spec => []ProgramsHaveEntries
<1>1. KInv => ProgramsHaveEntries
  BY KProgramsHaveEntries
<1> QED
  BY <1>1, KInvariant, PTL

(***************************************************************************)
(* No system call, interrupt or scheduling step loses or reorders any      *)
(* process but the one that it ends.                                       *)
(***************************************************************************)
THEOREM KernelLosesNobody ==
  ASSUME CleanHeap, TypedPidsAreNoJunk
  PROVE  Spec => ProcessesSurvive
<1>1. KInv /\ [Next]_vars => [Survive]_vars
  BY EveryStep DEF Preserves
<1> QED
  BY <1>1, KInvariant, PTL DEF Spec, ProcessesSurvive

(***************************************************************************)
(* Each step of the kernel is a step of the abstract FIFO queues, or none: *)
(* nobody is overtaken within a level.                                     *)
(***************************************************************************)
THEOREM KernelQueuesAreFIFO ==
  ASSUME CleanHeap, TypedPidsAreNoJunk
  PROVE  Spec => QueuesStayFIFO
<1>1. KInv /\ [Next]_vars => [FQ!Next]_allContents
  BY EveryStep DEF Preserves
<1> QED
  BY <1>1, KInvariant, PTL DEF Spec, QueuesStayFIFO

(***************************************************************************)
(* The guarantees of the process table on its own hold under the kernel's  *)
(* calls, and under what dispatch and schedule write into it in place.     *)
(***************************************************************************)
THEOREM KernelKeepsTable ==
  ASSUME CleanHeap, TypedPidsAreNoJunk
  PROVE  Spec => [](Capacity /\ ProcsCounts /\ ConsoleFirst /\ SlotBelowPid)
<1>1. KInv => TableInv
  BY DEF KInv, KTable, TableInv
<1>2. TableInv => Capacity /\ ProcsCounts /\ ConsoleFirst /\ SlotBelowPid
  BY TableMeans
<1> QED
  BY <1>1, <1>2, KInvariant, PTL

-----------------------------------------------------------------------------
(* What holds only as long as no process ends: that dispatch preserves     *)
(* registers, and that aging leaves every process queued at the level of   *)
(* its priority.                                                           *)

\* Nobody types kill and no program exits: processes stay in the slots they got.
NobodyEnds == Command \cap {"kill", "kill-store"} = {} /\ "P5" \notin Program

-----------------------------------------------------------------------------
(* Powers of two                                                           *)

LEMMA PowerOfTwoIsDefined ==
  /\ PowerOfTwo \in [Nat -> Nat]
  /\ PowerOfTwo[0] = 1
  /\ \A n \in Nat : PowerOfTwo[n + 1] = 2 * PowerOfTwo[n]
<1>1. ArePowers(PowerOfTwo, 2)
  <2>1. \E f : f = [n \in Nat |-> IF n = 0 THEN 1 ELSE 2 * f[n - 1]]
    BY AllPowersExist DEF ArePowers
  <2> QED
    BY <2>1 DEF PowerOfTwo, ArePowers
<1> QED
  BY <1>1, PowersMultiply

LEMMA PowersGrow ==
  ASSUME NEW j \in Nat, NEW n \in Nat, j < n
  PROVE  /\ PowerOfTwo[j] \in Nat /\ PowerOfTwo[n] \in Nat
         /\ PowerOfTwo[j] >= 1 /\ PowerOfTwo[j] < PowerOfTwo[n]
<1> DEFINE P(k) == PowerOfTwo[k]
           zeros == {k \in Nat : ~ (P(k) >= 1)}
           bad == {k \in Nat : k > j /\ ~ (P(j) < P(k))}
<1>1. /\ \A k \in Nat : P(k) \in Nat
      /\ P(0) = 1 /\ \A k \in Nat : P(k + 1) = 2 * P(k)
  BY PowerOfTwoIsDefined
<1> HIDE DEF P
<1>2. zeros = {}
  <2>1. SUFFICES ASSUME zeros # {}
                 PROVE  FALSE
    OBVIOUS
  <2>2. LeastOf(zeros) \in zeros /\ \A k \in zeros : LeastOf(zeros) <= k
    BY <2>1, LeastOfIsLeast
  <2>3. PICK k \in Nat : ~ (P(k) >= 1) /\ \A i \in zeros : k <= i
    BY <2>2
  <2>4. k # 0
    BY <1>1, <2>3
  <2>5. k - 1 \in Nat /\ k - 1 \notin zeros /\ (k - 1) + 1 = k
    BY <2>3, <2>4
  <2>6. P(k - 1) >= 1 /\ P(k - 1) \in Nat /\ P(k) = 2 * P(k - 1)
    BY <1>1, <2>5
  <2> QED
    BY <2>3, <2>6
<1>3. \A k \in Nat : P(k) >= 1
  BY <1>2
<1>4. bad = {}
  <2>1. SUFFICES ASSUME bad # {}
                 PROVE  FALSE
    OBVIOUS
  <2>2. LeastOf(bad) \in bad /\ \A k \in bad : LeastOf(bad) <= k
    BY <2>1, LeastOfIsLeast
  <2>3. PICK k \in Nat : k > j /\ ~ (P(j) < P(k)) /\ \A i \in bad : k <= i
    BY <2>2
  <2>4. k - 1 \in Nat /\ (k - 1) + 1 = k /\ k - 1 \notin bad
    BY <2>3
  <2>5. P(k) = 2 * P(k - 1) /\ P(k - 1) \in Nat /\ P(k - 1) >= 1 /\ P(j) \in Nat
    BY <1>1, <1>3, <2>4
  <2>6. k - 1 = j \/ P(j) < P(k - 1)
    BY <2>3, <2>4
  <2>7. P(j) <= P(k - 1)
    BY <2>5, <2>6
  <2> QED
    BY <2>3, <2>5, <2>7
<1>5. P(j) < P(n)
  BY <1>4
<1> QED
  BY <1>1, <1>3, <1>5 DEF P

-----------------------------------------------------------------------------
(* Thresholds and levels                                                   *)

LEMMA Thresholds ==
  /\ MAX_QUEUE_LEVELS \in Nat /\ MAX_QUEUE_LEVELS >= 1
  /\ Top \in Nat /\ Top = Threshold(MAX_QUEUE_LEVELS)
  /\ Threshold(1) = 1 /\ Threshold(2) = 2
  /\ \A l \in 1..(MAX_QUEUE_LEVELS + 1) : Threshold(l) \in Nat /\ Threshold(l) >= 1
  /\ \A k, l \in 1..(MAX_QUEUE_LEVELS + 1) : k < l => Threshold(k) < Threshold(l)
<1>1. MAX_QUEUE_LEVELS \in Nat /\ MAX_QUEUE_LEVELS >= 1
  BY ConfigAssumption
<1>2. ASSUME NEW l \in 1..(MAX_QUEUE_LEVELS + 1)
      PROVE  Threshold(l) \in Nat /\ Threshold(l) >= 1
  <2>1. l - 1 \in Nat /\ l \in Nat /\ l - 1 < l
    BY <1>1
  <2> QED
    BY <2>1, PowersGrow DEF Threshold
<1>3. ASSUME NEW k \in 1..(MAX_QUEUE_LEVELS + 1), NEW l \in 1..(MAX_QUEUE_LEVELS + 1),
             k < l
      PROVE  Threshold(k) < Threshold(l)
  <2>1. k - 1 \in Nat /\ l - 1 \in Nat /\ k - 1 < l - 1
    BY <1>1, <1>3
  <2> QED
    BY <2>1, PowersGrow DEF Threshold
<1>4. Threshold(1) = 1
  <2>1. 1 - 1 = 0
    OBVIOUS
  <2> QED
    BY <2>1, PowerOfTwoIsDefined DEF Threshold
<1>5. Threshold(2) = 2
  <2>1. 2 - 1 = 0 + 1
    OBVIOUS
  <2>2. PowerOfTwo[0 + 1] = 2 * PowerOfTwo[0]
    BY PowerOfTwoIsDefined
  <2> QED
    BY <2>1, <2>2, PowerOfTwoIsDefined DEF Threshold
<1>6. MAX_QUEUE_LEVELS \in 1..(MAX_QUEUE_LEVELS + 1)
  BY <1>1
<1> QED
  BY <1>1, <1>2, <1>3, <1>4, <1>5, <1>6 DEF Top

\* The levels that would take a process of this priority.
Fitting(p) == {l \in 1..MAX_QUEUE_LEVELS : p < Threshold(l + 1)}

(***************************************************************************)
(* The level that schedule() wants a process at.                           *)
(***************************************************************************)
LEMMA WantedLevels ==
  /\ \A p \in Nat : LevelOf(p) \in 0..MAX_QUEUE_LEVELS
  /\ \A l \in 1..MAX_QUEUE_LEVELS : LevelOf(Threshold(l)) = l
  /\ LevelOf(Top + 1) = 0
  /\ \A p \in Nat :
       p + 1 # Top + 1 /\ (\A l \in 1..MAX_QUEUE_LEVELS : p + 1 # Threshold(l))
         => LevelOf(p + 1) = LevelOf(p)
<1>1. /\ MAX_QUEUE_LEVELS \in Nat /\ MAX_QUEUE_LEVELS >= 1 /\ Top \in Nat
      /\ \A l \in 1..MAX_QUEUE_LEVELS : /\ l \in 1..(MAX_QUEUE_LEVELS + 1)
                                        /\ l + 1 \in 1..(MAX_QUEUE_LEVELS + 1)
                                        /\ l \in Nat
  BY Thresholds
<1>2. Top < Threshold(MAX_QUEUE_LEVELS + 1) /\ Threshold(MAX_QUEUE_LEVELS + 1) \in Nat
  BY <1>1, Thresholds
<1>3. \A p : LevelOf(p) = IF p > Top THEN 0 ELSE LeastOf(Fitting(p))
  BY DEF LevelOf, Fitting
<1>4. ASSUME NEW p \in Nat, p <= Top
      PROVE  /\ LeastOf(Fitting(p)) \in Fitting(p)
             /\ \A l \in Fitting(p) : LeastOf(Fitting(p)) <= l
  <2>1. Fitting(p) \subseteq Nat
    BY <1>1 DEF Fitting
  <2>2. MAX_QUEUE_LEVELS \in Fitting(p)
    BY <1>1, <1>2, <1>4 DEF Fitting
  <2> QED
    BY <2>1, <2>2, LeastOfIsLeast
<1>5. ASSUME NEW p \in Nat
      PROVE  LevelOf(p) \in 0..MAX_QUEUE_LEVELS
  <2>1. p > Top \/ p <= Top
    BY <1>1
  <2>2. Fitting(p) \subseteq 0..MAX_QUEUE_LEVELS
    BY <1>1 DEF Fitting
  <2> QED
    BY <1>1, <1>3, <1>4, <2>1, <2>2
<1>6. ASSUME NEW l \in 1..MAX_QUEUE_LEVELS
      PROVE  LevelOf(Threshold(l)) = l
  <2> DEFINE p == Threshold(l)
             w == LeastOf(Fitting(p))
  <2>1. p \in Nat /\ p <= Top
    <3>1. l = MAX_QUEUE_LEVELS \/ l < MAX_QUEUE_LEVELS
      BY <1>1
    <3>2. MAX_QUEUE_LEVELS \in 1..(MAX_QUEUE_LEVELS + 1)
      BY <1>1
    <3> QED
      BY <1>1, <3>1, <3>2, Thresholds
  <2>2. l \in Fitting(p)
    BY <1>1, Thresholds DEF Fitting
  <2>3. w \in Fitting(p) /\ w <= l
    BY <1>4, <2>1, <2>2
  <2>4. LevelOf(p) = w
    BY <1>1, <1>3, <2>1
  <2> HIDE DEF w
  <2>5. w \in 1..MAX_QUEUE_LEVELS /\ Threshold(l) < Threshold(w + 1)
    BY <2>3 DEF Fitting
  <2>6. ~ (w + 1 <= l)
    <3>1. ASSUME w + 1 = l
          PROVE  FALSE
      BY <1>1, <2>1, <2>5, <3>1
    <3>2. ASSUME w + 1 < l
          PROVE  FALSE
      <4>1. Threshold(w + 1) < Threshold(l)
        BY <1>1, <2>5, <3>2, Thresholds
      <4>2. Threshold(w + 1) \in Nat
        BY <1>1, <2>5, Thresholds
      <4> QED
        BY <2>1, <2>5, <4>1, <4>2
    <3> QED
      BY <1>1, <2>5, <3>1, <3>2
  <2> QED
    BY <1>1, <2>3, <2>4, <2>5, <2>6
<1>7. LevelOf(Top + 1) = 0
  BY <1>1, <1>3
<1>8. ASSUME NEW p \in Nat, p + 1 # Top + 1,
             \A l \in 1..MAX_QUEUE_LEVELS : p + 1 # Threshold(l)
      PROVE  LevelOf(p + 1) = LevelOf(p)
  <2>1. CASE p > Top
    BY <1>1, <1>3, <2>1
  <2>2. CASE p <= Top
    <3>1. p + 1 <= Top /\ p <= Top /\ ~ (p > Top) /\ ~ (p + 1 > Top)
      BY <1>1, <1>8, <2>2
    <3>2. ASSUME NEW l \in 1..MAX_QUEUE_LEVELS
          PROVE  p < Threshold(l + 1) <=> p + 1 < Threshold(l + 1)
      <4>1. Threshold(l + 1) \in Nat
        BY <1>1, Thresholds
      <4>2. p + 1 # Threshold(l + 1)
        <5>1. CASE l = MAX_QUEUE_LEVELS
          BY <1>1, <1>2, <3>1, <5>1
        <5>2. CASE l # MAX_QUEUE_LEVELS
          <6>1. l + 1 \in 1..MAX_QUEUE_LEVELS
            BY <1>1, <5>2
          <6> QED
            BY <1>8, <6>1
        <5> QED
          BY <5>1, <5>2
      <4> QED
        BY <4>1, <4>2
    <3>3. Fitting(p) = Fitting(p + 1)
      BY <3>2 DEF Fitting
    <3> QED
      BY <1>3, <3>1, <3>3
  <2> QED
    BY <1>1, <2>1, <2>2
<1> QED
  BY <1>5, <1>6, <1>7, <1>8

-----------------------------------------------------------------------------
(* What the steps write into the table                                     *)

\* u is t, of n entries, after a dispatch from prev, which had the registers
\* c, to next.
Dispatched(prev, c, next, t, u, n) ==
  \A i \in 0..(n - 1) :
    /\ u[i].pid = t[i].pid /\ u[i].priority = t[i].priority
    /\ u[i].status = IF i = next THEN "EXECUTING"
                     ELSE IF i = prev THEN "READY" ELSE t[i].status
    /\ u[i].ctx = IF i = prev THEN c ELSE t[i].ctx

\* u is t, of n entries, but for the status and the priority of entry i.
OnlyEntry(i, t, u, n) ==
  /\ \A k \in 0..(n - 1) : k # i => u[k] = t[k]
  /\ u[i].pid = t[i].pid /\ u[i].ctx = t[i].ctx

LEMMA DispatchedEntries ==
  ASSUME NEW t, NEW s, NEW n, KTable(t, s, n), NEW prev, NEW c \in Context,
         NEW next \in 0..(n - 1),
         NEW u, u = [Saved(t, prev, c) EXCEPT ![next].status = "EXECUTING"]
  PROVE  Dispatched(prev, c, next, t, u, n)
<1> DEFINE saved == Saved(t, prev, c)
           e == [saved[next] EXCEPT !.status = "EXECUTING"]
<1>1. /\ s \in Nat /\ n \in Nat /\ n <= s
      /\ t \in [0..(s - 1) -> PCB] /\ next \in 0..(s - 1)
      /\ \A i \in 0..(n - 1) : i \in 0..(s - 1)
  BY TableFacts
<1>2. /\ saved \in [0..(s - 1) -> PCB]
      /\ \A i \in 0..(s - 1) :
           /\ saved[i].pid = t[i].pid /\ saved[i].priority = t[i].priority
           /\ saved[i].status = IF i = prev THEN "READY" ELSE t[i].status
           /\ saved[i].ctx = IF i = prev THEN c ELSE t[i].ctx
  <2> DEFINE f == [t[prev] EXCEPT !.ctx = c, !.status = "READY"]
  <2>1. CASE prev \in DOMAIN t
    <3>1. t[prev] \in PCB /\ prev \in 0..(s - 1)
      BY <1>1, <2>1
    <3>2. /\ f \in PCB /\ f.pid = t[prev].pid /\ f.priority = t[prev].priority
          /\ f.status = "READY" /\ f.ctx = c
      BY <3>1 DEF PCB, Status
    <3>3. saved = [t EXCEPT ![prev] = f]
      BY <1>1, <2>1 DEF Saved
    <3> HIDE DEF f, saved
    <3>4. /\ saved \in [0..(s - 1) -> PCB]
          /\ saved[prev] = f /\ \A i \in 0..(s - 1) : i # prev => saved[i] = t[i]
      BY <1>1, <3>1, <3>2, <3>3
    <3> QED
      BY <3>2, <3>4
  <2>2. CASE prev \notin DOMAIN t
    BY <1>1, <2>2 DEF Saved
  <2> QED
    BY <2>1, <2>2
<1> HIDE DEF saved
<1>3. /\ u[next] = e /\ \A i \in 0..(s - 1) : i # next => u[i] = saved[i]
  BY <1>1, <1>2 DEF saved
<1>4. saved[next] \in PCB
  BY <1>1, <1>2
<1>5. /\ e.pid = saved[next].pid /\ e.priority = saved[next].priority
      /\ e.status = "EXECUTING" /\ e.ctx = saved[next].ctx
  BY <1>4 DEF PCB
<1> HIDE DEF e
<1> SUFFICES ASSUME NEW i \in 0..(n - 1)
             PROVE  /\ u[i].pid = t[i].pid /\ u[i].priority = t[i].priority
                    /\ u[i].status = IF i = next THEN "EXECUTING"
                                     ELSE IF i = prev THEN "READY" ELSE t[i].status
                    /\ u[i].ctx = IF i = prev THEN c ELSE t[i].ctx
  BY DEF Dispatched
<1>6. i \in 0..(s - 1)
  BY <1>1
<1>7. CASE i = next
  BY <1>2, <1>3, <1>5, <1>6, <1>7
<1>8. CASE i # next
  BY <1>2, <1>3, <1>6, <1>8
<1> QED
  BY <1>7, <1>8

\* What runs now was dispatched from the entry that currentProc points to.
Restored ==
  /\ cpu'.pc = procTable'[currentProc'].ctx.pc
  /\ cpu'.sp = procTable'[currentProc'].ctx.sp

LEMMA ResumeRestores ==
  ASSUME NEW t, NEW s, NEW n, KTable(t, s, n), NEW next \in 0..(n - 1),
         NEW m, NEW k, Resume(t, m, k, next)
  PROVE  Restored
<1> DEFINE e == [t[next] EXCEPT !.status = "EXECUTING"]
<1>1. /\ t \in [0..(s - 1) -> PCB] /\ next \in 0..(s - 1) /\ t[next] \in PCB
  BY TableFacts
<1>2. /\ procTable' = [t EXCEPT ![next].status = "EXECUTING"]
      /\ currentProc' = next
      /\ cpu' = IF reply THEN [t[next].ctx EXCEPT !.r0 = 0] ELSE t[next].ctx
  BY DEF Resume
<1>3. e.ctx = t[next].ctx /\ t[next].ctx \in Context
  BY <1>1 DEF PCB
<1>4. procTable'[next] = e
  BY <1>1, <1>2
<1> HIDE DEF e
<1>5. cpu'.pc = t[next].ctx.pc /\ cpu'.sp = t[next].ctx.sp
  BY <1>2, <1>3 DEF Context
<1> QED
  BY <1>2, <1>3, <1>4, <1>5 DEF Restored

(***************************************************************************)
(* schedule()'s dispatch, and the registers it restores.                   *)
(***************************************************************************)
LEMMA SwitchEntries ==
  ASSUME KInv, NEW pid \in Pids(procTable, PROCS), SwitchTo(pid)
  PROVE  /\ Dispatched(currentProc, cpu, currentProc', procTable, procTable', PROCS)
         /\ currentProc' \in 0..(PROCS - 1)
         /\ Restored
         /\ PROCS' = PROCS /\ PROCS_ACTIVE' = PROCS_ACTIVE
         /\ pc' = "user" /\ reply' = FALSE
         /\ \E x \in Pid : multiLevelQueue' \in addToMLFQ(multiLevelQueue, x, PROCS)
<1> DEFINE t == Saved(procTable, currentProc, cpu)
           next == procTableContains(procTable, pid)
<1>1. /\ KTable(procTable, procTabSize, PROCS) /\ cpu \in Context
      /\ cpu.pc \in Program => currentProc # 0
  <2>1. cpu.pc \in Program => currentProc \in 1..(PROCS - 1)
    BY RunningFacts
  <2> QED
    BY <2>1, RunningFacts DEF KInv
<1>2. next \in 0..(PROCS - 1)
  BY <1>1, FindsLive
<1>3. /\ procTable' = [t EXCEPT ![next].status = "EXECUTING"]
      /\ multiLevelQueue' \in addToMLFQ(multiLevelQueue, t[next].pid, PROCS)
      /\ currentProc' = next
      /\ cpu' = IF reply THEN [t[next].ctx EXCEPT !.r0 = 0] ELSE t[next].ctx
      /\ PROCS' = PROCS /\ PROCS_ACTIVE' = PROCS_ACTIVE
      /\ pc' = "user" /\ reply' = FALSE
  BY DEF SwitchTo, Resume
<1>4. /\ KTable(t, procTabSize, PROCS)
      /\ \A k \in 0..(procTabSize - 1) : k # currentProc => t[k] = procTable[k]
  BY <1>1, SavedKTable
<1>5. Dispatched(currentProc, cpu, next, procTable, procTable', PROCS)
  BY <1>1, <1>2, <1>3, DispatchedEntries
<1> HIDE DEF t, next
<1>6. Restored
  <2>1. Resume(t, multiLevelQueue, PROCS, next)
    BY DEF SwitchTo, t, next
  <2> QED
    BY <1>2, <1>4, <2>1, ResumeRestores
<1>7. t[next].pid \in Pid
  <2>1. t[next].pid \in Pids(t, PROCS)
    BY <1>2 DEF Pids
  <2> QED
    BY <1>4, <2>1, FindsLive
<1> QED
  BY <1>2, <1>3, <1>5, <1>6, <1>7

\* The other steps that leave the table as it is.
LEMMA QuietSteps ==
  ASSUME StepOfRegisters
  PROVE  /\ procTable' = procTable /\ PROCS' = PROCS
         /\ PROCS_ACTIVE' = PROCS_ACTIVE /\ currentProc' = currentProc
         /\ multiLevelQueue' = multiLevelQueue
         /\ reply' = reply \/ reply' = FALSE
BY DEF StepOfRegisters, ForkOfFreedEntry, ExecRefused, KillStoreOverflow, Tick,
       MissingLevel, PickNone, vars, kernelVars

-----------------------------------------------------------------------------
(* The tables after the system calls                                       *)

(***************************************************************************)
(* fork: the caller, unless its entry is gone, is saved, and the child is  *)
(* behind the others, with the priority 1.                                 *)
(***************************************************************************)
LEMMA ForkEntries ==
  ASSUME KInv, NEW c \in Context, currentProc = 0 => c.pc \notin Program, ForkWith(c)
  PROVE  /\ Dispatched(currentProc, c, currentProc', procTable, procTable', PROCS)
         /\ PROCS' = PROCS + 1 /\ currentProc' \in 0..PROCS
         /\ procTable'[PROCS].pid = PROCS /\ procTable'[PROCS].priority = 1
         /\ procTable'[PROCS].status = IF currentProc' = PROCS THEN "EXECUTING" ELSE "READY"
         /\ PROCS_ACTIVE' = PROCS_ACTIVE + 1 /\ pc' = pc /\ reply' = reply
         /\ Restored
         /\ \E x \in Pid : multiLevelQueue' \in addToMLFQ(multiLevelQueue, x, PROCS + 1)
<1> DEFINE n == PROCS
           s == procTabSize
           parent == Saved(procTable, currentProc, c)
           child == Child(parent[currentProc], c, n)
           Copied(fresh) == [WithRoom(parent, s, n, fresh) EXCEPT ![n] = child]
           size == SizeWithRoom(s, n)
<1>1. /\ KTable(procTable, s, n)
      /\ n \in Nat /\ n >= 1 /\ s \in Nat /\ n <= s /\ DOMAIN procTable = 0..(s - 1)
      /\ procTable \in [0..(s - 1) -> PCB]
  BY InvFacts DEF KInv
<1>2. /\ n < MAX_PROCS /\ currentProc \in DOMAIN procTable
      /\ PROCS' = n + 1 /\ PROCS_ACTIVE' = PROCS_ACTIVE + 1 /\ pc' = pc /\ reply' = reply
  BY DEF ForkWith
<1>3. PICK fresh \in FreshMemory(n, s) :
        Resume(Saved(Copied(fresh), currentProc, c), multiLevelQueue, n + 1,
               procTableContains(Copied(fresh), child.pid))
  BY DEF ForkWith
<1> DEFINE copied == Copied(fresh)
           saved == Saved(copied, currentProc, c)
           next == procTableContains(copied, child.pid)
<1>4. /\ KTable(parent, s, n)
      /\ parent[currentProc].status = "READY"
      /\ parent[currentProc].ctx = c
      /\ parent[currentProc].priority = procTable[currentProc].priority
      /\ \A k \in 0..(s - 1) : k # currentProc => parent[k] = procTable[k]
      /\ SamePids(procTable, parent, s)
  <2> HIDE DEF parent, s, n
  <2>1. /\ KTable(parent, s, n) /\ SamePids(procTable, parent, s)
        /\ currentProc \in DOMAIN procTable =>
             /\ parent[currentProc].status = "READY"
             /\ parent[currentProc].ctx = c
             /\ parent[currentProc].priority = procTable[currentProc].priority
        /\ \A k \in 0..(s - 1) : k # currentProc => parent[k] = procTable[k]
    BY <1>1, SavedKTable DEF parent
  <2> QED
    BY <1>2, <2>1
<1>5. child.pid = n /\ child.priority = 1 /\ child.status = "READY"
  <2>1. parent[currentProc] \in PCB
    BY <1>1, <1>2, <1>4, TableFacts
  <2> QED
    BY <1>4, <2>1 DEF Child, PCB
<1> HIDE DEF parent
<1>6. /\ KTable(copied, size, n + 1)
      /\ \A i \in 0..(n - 1) : copied[i] = parent[i]
      /\ copied[n] = child
  <2>1. currentProc \in 0..(s - 1) /\ "READY" \in LiveStatus
    BY <1>1, <1>2 DEF LiveStatus
  <2> QED
    BY <1>2, <1>4, <2>1, GrownKTable
<1> HIDE DEF child, copied, size
<1>7. child.pid \in Pids(copied, n + 1)
  <2>1. n \in 0..((n + 1) - 1)
    BY <1>1
  <2> QED
    BY <1>6, <2>1 DEF Pids
<1>8. next \in 0..((n + 1) - 1)
  BY <1>6, <1>7, FindsLive
<1> HIDE DEF next
<1>9. /\ procTable' = [saved EXCEPT ![next].status = "EXECUTING"]
      /\ multiLevelQueue' \in addToMLFQ(multiLevelQueue, saved[next].pid, n + 1)
      /\ currentProc' = next
  BY <1>3 DEF Resume, saved, copied, next
<1>10. Dispatched(currentProc, c, next, copied, procTable', n + 1)
  BY <1>6, <1>8, <1>9, DispatchedEntries
<1>11. saved[next].pid \in Pid /\ Restored
  <2>1. KTable(saved, size, n + 1)
    BY <1>6, SavedKTable
  <2>2. saved[next].pid \in Pids(saved, n + 1)
    BY <1>8 DEF Pids
  <2>3. Resume(saved, multiLevelQueue, n + 1, next)
    BY <1>3 DEF saved, copied, next
  <2> HIDE DEF saved
  <2>4. Restored
    BY <1>8, <2>1, <2>3, ResumeRestores
  <2> QED
    BY <2>1, <2>2, <2>4, FindsLive
<1> HIDE DEF saved
<1>12. Dispatched(currentProc, c, next, procTable, procTable', n)
  <2> SUFFICES ASSUME NEW i \in 0..(n - 1)
               PROVE  /\ procTable'[i].pid = procTable[i].pid
                      /\ procTable'[i].priority = procTable[i].priority
                      /\ procTable'[i].status =
                           IF i = next THEN "EXECUTING"
                           ELSE IF i = currentProc THEN "READY" ELSE procTable[i].status
                      /\ procTable'[i].ctx =
                           IF i = currentProc THEN c ELSE procTable[i].ctx
    BY DEF Dispatched
  <2>1. i \in 0..((n + 1) - 1) /\ i \in 0..(s - 1) /\ copied[i] = parent[i]
    BY <1>1, <1>6
  <2>2. /\ procTable'[i].pid = parent[i].pid
        /\ procTable'[i].priority = parent[i].priority
        /\ procTable'[i].status =
             IF i = next THEN "EXECUTING"
             ELSE IF i = currentProc THEN "READY" ELSE parent[i].status
        /\ procTable'[i].ctx = IF i = currentProc THEN c ELSE parent[i].ctx
    BY <1>10, <2>1 DEF Dispatched
  <2>3. parent[i].pid = procTable[i].pid
    BY <1>4, <2>1 DEF SamePids
  <2>4. parent[i].priority = procTable[i].priority
    BY <1>4, <2>1
  <2>5. i # currentProc => parent[i] = procTable[i]
    BY <1>4, <2>1
  <2> QED
    BY <2>2, <2>3, <2>4, <2>5
<1>13. /\ procTable'[n].pid = n /\ procTable'[n].priority = 1
       /\ procTable'[n].status = IF next = n THEN "EXECUTING" ELSE "READY"
  <2>1. n \in 0..((n + 1) - 1)
    BY <1>1
  <2> QED
    BY <1>5, <1>6, <1>10, <2>1 DEF Dispatched
<1>14. (n + 1) - 1 = n
  BY <1>1
<1> QED
  BY <1>2, <1>8, <1>9, <1>11, <1>12, <1>13, <1>14

(***************************************************************************)
(* exec: nobody is saved, and the last entry starts afresh.                *)
(***************************************************************************)
LEMMA ExecEntries ==
  ASSUME KInv, NEW a \in Program, Exec(a)
  PROVE  /\ \A i \in 0..(PROCS - 1) :
              /\ procTable'[i].pid = procTable[i].pid
              /\ procTable'[i].priority = IF i = PROCS - 1 THEN 1 ELSE procTable[i].priority
              /\ procTable'[i].status = IF i = currentProc' THEN "EXECUTING"
                                                            ELSE procTable[i].status
         /\ procTable'[0].ctx = procTable[0].ctx
         /\ Restored
         /\ PROCS' = PROCS /\ currentProc' \in 0..(PROCS - 1)
         /\ PROCS_ACTIVE' = PROCS_ACTIVE /\ pc = "user" /\ pc' = pc /\ reply' = reply
         /\ \E x \in Pid : multiLevelQueue' \in addToMLFQ(multiLevelQueue, x, PROCS)
<1> DEFINE last == PROCS - 1
           e == Restarted(procTable[last], a)
           t == [procTable EXCEPT ![last] = e]
           next == procTableContains(t, t[last].pid)
           u == [t EXCEPT ![next].status = "EXECUTING"]
<1>1. KTable(procTable, procTabSize, PROCS)
  BY DEF KInv
<1>2. /\ pc = "user" /\ cpu.pc = "forked"
      /\ PROCS' = PROCS /\ PROCS_ACTIVE' = PROCS_ACTIVE /\ pc' = pc /\ reply' = reply
  BY DEF Exec, IsChild
<1>3. PROCS \in Nat /\ PROCS > 1 /\ last \in 0..(procTabSize - 1)
      /\ last \in 0..(PROCS - 1) /\ last # 0 /\ ~ (last >= PROCS)
      /\ DOMAIN procTable = 0..(procTabSize - 1) /\ procTable[last] \in PCB
      /\ procTable \in [0..(procTabSize - 1) -> PCB]
      /\ \A i \in 0..(PROCS - 1) : i \in 0..(procTabSize - 1)
  BY <1>2, RunningFacts, InvFacts
<1>4. /\ procTable' = u
      /\ multiLevelQueue' \in addToMLFQ(multiLevelQueue, t[next].pid, PROCS)
      /\ currentProc' = next
  <2>1. t = [procTable EXCEPT ![PROCS - 1] = Restarted(@, a)]
    OBVIOUS
  <2> QED
    BY <2>1 DEF Exec, Resume
<1>5. /\ e \in PCB /\ e.pid = procTable[last].pid /\ e.tos = procTable[last].tos
      /\ e.status = procTable[last].status /\ e.priority = 1
  <2>1. [pc |-> a, sp |-> procTable[last].tos, r0 |-> 0] \in Context
    BY <1>3 DEF PCB, Context, Code
  <2> QED
    BY <1>3, <2>1 DEF Restarted, PCB
<1> HIDE DEF last, e
<1>6. e.status \in LiveStatus
  BY <1>1, <1>3, <1>5 DEF KTable
<1>7. KTable(t, procTabSize, PROCS)
  BY <1>1, <1>3, <1>5, <1>6, WrittenKTable
<1>8. /\ t \in [0..(procTabSize - 1) -> PCB]
      /\ \A i \in 0..(PROCS - 1) :
           /\ t[i].pid = procTable[i].pid /\ t[i].status = procTable[i].status
           /\ t[i].priority = IF i = last THEN 1 ELSE procTable[i].priority
      /\ t[0] = procTable[0]
  BY <1>3, <1>5
<1> HIDE DEF t
<1>9. t[last].pid \in Pids(t, PROCS)
  BY <1>3 DEF Pids
<1>10. next \in 0..(PROCS - 1)
  BY <1>7, <1>9, FindsLive
<1> HIDE DEF next
<1>11. Restored
  <2>1. t = [procTable EXCEPT ![PROCS - 1] = Restarted(@, a)]
    BY DEF t, last, e
  <2>2. Resume(t, multiLevelQueue, PROCS, next)
    BY <2>1 DEF Exec, next, last
  <2> QED
    BY <1>7, <1>10, <2>2, ResumeRestores
<1>12. ASSUME NEW i \in 0..(PROCS - 1)
       PROVE  /\ u[i].pid = t[i].pid /\ u[i].priority = t[i].priority
              /\ u[i].ctx = t[i].ctx
              /\ u[i].status = IF i = next THEN "EXECUTING" ELSE t[i].status
  <2>1. i \in 0..(procTabSize - 1) /\ next \in 0..(procTabSize - 1) /\ t[next] \in PCB
    BY <1>3, <1>8, <1>10
  <2> QED
    BY <1>8, <2>1 DEF PCB
<1>13. t[next].pid \in Pids(t, PROCS)
  BY <1>10 DEF Pids
<1>14. t[next].pid \in Pid
  BY <1>7, <1>13, FindsLive
<1> HIDE DEF u
<1>15. \A i \in 0..(PROCS - 1) :
         /\ procTable'[i].pid = procTable[i].pid
         /\ procTable'[i].priority = IF i = PROCS - 1 THEN 1 ELSE procTable[i].priority
         /\ procTable'[i].status = IF i = currentProc' THEN "EXECUTING"
                                                       ELSE procTable[i].status
  BY <1>4, <1>8, <1>12 DEF last
<1>16. procTable'[0].ctx = procTable[0].ctx
  <2>1. 0 \in 0..(PROCS - 1)
    BY <1>3
  <2> QED
    BY <1>4, <1>8, <1>12, <2>1
<1> QED
  BY <1>2, <1>4, <1>10, <1>14, <1>15, <1>11, <1>16

(***************************************************************************)
(* An iteration of schedule()'s first loop writes a priority only.         *)
(***************************************************************************)
LEMMA AgingEntries ==
  ASSUME KInv, NEW m, NextSlot(m)
  PROVE  /\ OnlyEntry(slot, procTable, procTable', PROCS)
         /\ procTable'[slot].status = procTable[slot].status
         /\ procTable'[slot].priority = Aged(slot)
         /\ Aged(slot) = procTable[slot].priority
              \/ Aged(slot) = procTable[slot].priority + 1
         /\ slot \in 0..(PROCS - 1) /\ procTable[slot].priority \in Nat
         /\ PROCS' = PROCS /\ PROCS_ACTIVE' = PROCS_ACTIVE /\ currentProc' = currentProc
         /\ reply' = reply /\ multiLevelQueue' = m
         /\ slot' = IF slot + 1 < PROCS THEN slot + 1 ELSE 0
         /\ pc' = IF slot + 1 < PROCS THEN "age" ELSE "pick"
<1>1. /\ procTable' = [procTable EXCEPT ![slot].priority = Aged(slot)]
      /\ multiLevelQueue' = m
      /\ slot' = IF slot + 1 < PROCS THEN slot + 1 ELSE 0
      /\ pc' = IF slot + 1 < PROCS THEN "age" ELSE "pick"
      /\ PROCS' = PROCS /\ PROCS_ACTIVE' = PROCS_ACTIVE /\ currentProc' = currentProc
      /\ reply' = reply
  BY DEF NextSlot
<1>2. /\ slot \in 0..(PROCS - 1) /\ slot \in 0..(procTabSize - 1)
      /\ procTable \in [0..(procTabSize - 1) -> PCB] /\ procTable[slot] \in PCB
      /\ \A i \in 0..(PROCS - 1) : i \in 0..(procTabSize - 1)
  BY RunningFacts, InvFacts
<1> DEFINE e == [procTable[slot] EXCEPT !.priority = Aged(slot)]
<1>3. /\ e.pid = procTable[slot].pid /\ e.ctx = procTable[slot].ctx
      /\ e.status = procTable[slot].status /\ e.priority = Aged(slot)
  BY <1>2 DEF PCB
<1>4. procTable' = [procTable EXCEPT ![slot] = e]
  BY <1>1
<1> HIDE DEF e
<1>5. procTable'[slot] = e /\ \A k \in 0..(PROCS - 1) : k # slot => procTable'[k] = procTable[k]
  BY <1>2, <1>4
<1>6. procTable[slot].priority \in Nat
  BY <1>2 DEF PCB
<1>7. Aged(slot) = procTable[slot].priority \/ Aged(slot) = procTable[slot].priority + 1
  BY DEF Aged, Raised
<1> QED
  BY <1>1, <1>2, <1>3, <1>5, <1>6, <1>7 DEF OnlyEntry

(***************************************************************************)
(* priority, pause, unpause and sem_wait write into one entry in use.      *)
(***************************************************************************)
LEMMA WrittenEntry ==
  ASSUME KInv, NEW i \in 0..(PROCS - 1), NEW e,
         e.pid = procTable[i].pid, e.ctx = procTable[i].ctx,
         procTable' = [procTable EXCEPT ![i] = e]
  PROVE  OnlyEntry(i, procTable, procTable', PROCS) /\ procTable'[i] = e
<1>1. /\ i \in DOMAIN procTable
      /\ \A k \in 0..(PROCS - 1) : k \in DOMAIN procTable
  BY InvFacts
<1>2. procTable'[i] = e /\ \A k \in 0..(PROCS - 1) : k # i => procTable'[k] = procTable[k]
  BY <1>1
<1> QED
  BY <1>2 DEF OnlyEntry

LEMMA NiceEntries ==
  ASSUME TypedPidsAreNoJunk, KInv, NEW pid \in TypedPid, Nice(pid)
  PROVE  \E i \in 0..(PROCS - 1) :
           /\ OnlyEntry(i, procTable, procTable', PROCS)
           /\ procTable'[i].priority = 1 /\ procTable'[i].status = procTable[i].status
           /\ multiLevelQueue' = multiLevelQueue /\ PROCS_ACTIVE' = PROCS_ACTIVE
<1> DEFINE pos == procTableContains(procTable, pid)
           e == [procTable[pos] EXCEPT !.priority = 1]
<1>1. /\ KTable(procTable, procTabSize, PROCS) /\ pos > -1
      /\ procTable' = [procTable EXCEPT ![pos].priority = 1]
      /\ multiLevelQueue' = multiLevelQueue /\ PROCS_ACTIVE' = PROCS_ACTIVE
  BY DEF KInv, Nice
<1>2. pos \in 0..(PROCS - 1)
  BY <1>1, FoundIsLive DEF TypedPidsAreNoJunk
<1> HIDE DEF pos
<1>3. procTable[pos] \in PCB
  BY <1>2, InvFacts
<1>4. /\ e.pid = procTable[pos].pid /\ e.ctx = procTable[pos].ctx
      /\ e.status = procTable[pos].status /\ e.priority = 1
  BY <1>3 DEF PCB
<1>5. procTable' = [procTable EXCEPT ![pos] = e]
  BY <1>1
<1> HIDE DEF e
<1> QED
  BY <1>1, <1>2, <1>4, <1>5, WrittenEntry

LEMMA PauseEntries ==
  ASSUME TypedPidsAreNoJunk, KInv, NEW pid \in TypedPid, Pause(pid)
  PROVE  \E i \in 0..(PROCS - 1) :
           /\ OnlyEntry(i, procTable, procTable', PROCS)
           /\ procTable'[i].priority = 0
           /\ multiLevelQueue' = removeFromMLFQ(multiLevelQueue, procTable[i].pid)
<1> DEFINE pos == procTableContains(procTable, pid)
           x == [procTable[pos] EXCEPT !.priority = 0]
           e == [x EXCEPT !.status = "WAITING"]
           u == [procTable EXCEPT ![pos] = x]
<1>1. /\ KTable(procTable, procTabSize, PROCS) /\ pos > 0
      /\ procTable' = [procTable EXCEPT ![pos].priority = 0, ![pos].status = "WAITING"]
      /\ multiLevelQueue' = removeFromMLFQ(multiLevelQueue, pid)
  BY DEF KInv, Pause
<1>2. pos \in 0..(PROCS - 1) /\ procTable[pos].pid = pid
  BY <1>1, FoundIsLive DEF TypedPidsAreNoJunk
<1> HIDE DEF pos
<1>3. procTable[pos] \in PCB /\ pos \in DOMAIN procTable
  BY <1>2, InvFacts
<1>4. e.pid = procTable[pos].pid /\ e.ctx = procTable[pos].ctx /\ e.priority = 0
  BY <1>3 DEF PCB
<1>5. procTable' = [procTable EXCEPT ![pos] = e]
  <2>1. u = [procTable EXCEPT ![pos].priority = 0]
    BY <1>3
  <2>2. procTable' = [u EXCEPT ![pos].status = "WAITING"]
    BY <1>1, <2>1
  <2>3. u[pos] = x
    BY <1>3
  <2> HIDE DEF x
  <2> QED
    BY <1>3, <2>2, <2>3
<1> HIDE DEF e
<1> QED
  BY <1>1, <1>2, <1>4, <1>5, WrittenEntry

LEMMA UnpauseEntries ==
  ASSUME TypedPidsAreNoJunk, KInv, NEW pid \in TypedPid, Unpause(pid)
  PROVE  \E i \in 0..(PROCS - 1) :
           /\ OnlyEntry(i, procTable, procTable', PROCS)
           /\ procTable'[i].priority = 1
           /\ multiLevelQueue' = multiLevelQueue
<1> DEFINE pos == procTableContains(procTable, pid)
           x == [procTable[pos] EXCEPT !.priority = 1]
           e == [x EXCEPT !.status = "READY"]
           u == [procTable EXCEPT ![pos] = x]
<1>1. /\ KTable(procTable, procTabSize, PROCS) /\ pos > 0
      /\ procTable' = [procTable EXCEPT ![pos].priority = 1, ![pos].status = "READY"]
      /\ multiLevelQueue' = multiLevelQueue
  BY DEF KInv, Unpause
<1>2. pos \in 0..(PROCS - 1)
  BY <1>1, FoundIsLive DEF TypedPidsAreNoJunk
<1> HIDE DEF pos
<1>3. procTable[pos] \in PCB /\ pos \in DOMAIN procTable
  BY <1>2, InvFacts
<1>4. e.pid = procTable[pos].pid /\ e.ctx = procTable[pos].ctx /\ e.priority = 1
  BY <1>3 DEF PCB
<1>5. procTable' = [procTable EXCEPT ![pos] = e]
  <2>1. u = [procTable EXCEPT ![pos].priority = 1]
    BY <1>3
  <2>2. procTable' = [u EXCEPT ![pos].status = "READY"]
    BY <1>1, <2>1
  <2>3. u[pos] = x
    BY <1>3
  <2> HIDE DEF x
  <2> QED
    BY <1>3, <2>2, <2>3
<1> HIDE DEF e
<1> QED
  BY <1>1, <1>2, <1>4, <1>5, WrittenEntry

LEMMA SemWaitEntries ==
  ASSUME KInv, SemWait
  PROVE  \E i \in 0..(PROCS - 1) :
           /\ OnlyEntry(i, procTable, procTable', PROCS)
           /\ procTable'[i].priority = procTable[i].priority
           /\ multiLevelQueue' = multiLevelQueue
<1> DEFINE pos == procTableContains(procTable, CurrentPid)
           e == [procTable[pos] EXCEPT !.status = "WAITING"]
<1>1. /\ KTable(procTable, procTabSize, PROCS) /\ cpu.pc = "diningPhil"
      /\ procTable' = [procTable EXCEPT ![pos].status = "WAITING"]
      /\ multiLevelQueue' = multiLevelQueue
  BY DEF KInv, SemWait
<1>2. CurrentPid \in Pids(procTable, PROCS)
  BY <1>1, RunningFacts, Codes, ProgramHasPid
<1>3. pos \in 0..(PROCS - 1)
  BY <1>1, <1>2, FindsLive
<1> HIDE DEF pos
<1>4. procTable[pos] \in PCB
  BY <1>3, InvFacts
<1>5. /\ e.pid = procTable[pos].pid /\ e.ctx = procTable[pos].ctx
      /\ e.priority = procTable[pos].priority
  BY <1>4 DEF PCB
<1>6. procTable' = [procTable EXCEPT ![pos] = e]
  BY <1>1
<1> HIDE DEF e
<1> QED
  BY <1>1, <1>3, <1>5, <1>6, WrittenEntry

\* These four.
StepOfEntry ==
  \/ SemWait
  \/ \E pid \in TypedPid : Nice(pid) \/ Pause(pid) \/ Unpause(pid)

LEMMA EntrySteps ==
  ASSUME TypedPidsAreNoJunk, KInv, StepOfEntry
  PROVE  /\ \E i \in 0..(PROCS - 1) :
              /\ OnlyEntry(i, procTable, procTable', PROCS)
              /\ \/ /\ multiLevelQueue' = multiLevelQueue
                    /\ \/ procTable'[i].priority = 1
                       \/ procTable'[i].priority = procTable[i].priority
                 \/ /\ multiLevelQueue' = removeFromMLFQ(multiLevelQueue, procTable[i].pid)
                    /\ procTable'[i].priority = 0
         /\ PROCS' = PROCS /\ currentProc' = currentProc
         /\ pc = "user" /\ (pc' = "user" \/ (pc' = "age" /\ slot' = 0))
<1>1. /\ PROCS' = PROCS /\ currentProc' = currentProc
      /\ pc = "user" /\ (pc' = "user" \/ (pc' = "age" /\ slot' = 0))
  BY DEF StepOfEntry, SemWait, Nice, Pause, Unpause, CallSchedule, AtPrompt
<1>2. CASE SemWait
  BY <1>1, <1>2, SemWaitEntries
<1>3. CASE \E pid \in TypedPid : Nice(pid)
  BY <1>1, <1>3, NiceEntries
<1>4. CASE \E pid \in TypedPid : Pause(pid)
  BY <1>1, <1>4, PauseEntries
<1>5. CASE \E pid \in TypedPid : Unpause(pid)
  BY <1>1, <1>5, UnpauseEntries
<1> QED
  BY <1>2, <1>3, <1>4, <1>5 DEF StepOfEntry

\* The steps by which a process ends.
StepOfEnd == Exit \/ \E pid \in TypedPid : Kill(pid) \/ KillStore(pid)

\* The forks, and the iterations of schedule()'s first loop.
StepOfFork ==
  /\ pc = "user"
  /\ \E c \in Context : /\ currentProc = 0 => c.pc \notin Program
                        /\ c.pc # "spinning"
                        /\ ForkWith(c)

StepOfAging == KeepQueue \/ ChangeQueue \/ FallToRoundRobin

(***************************************************************************)
(* The kinds of steps there are.                                           *)
(***************************************************************************)
LEMMA Steps ==
  ASSUME CleanHeap, KInv, [Next]_vars
  PROVE  \/ StepOfRegisters \/ StepOfFork \/ StepOfEntry \/ StepOfEnd \/ StepOfAging
         \/ \E a \in Program : Exec(a)
         \/ \E pid \in Pids(procTable, PROCS) : SwitchTo(pid)
<1>1. Fork => StepOfFork
  <2> SUFFICES ASSUME Fork
               PROVE  StepOfFork
    OBVIOUS
  <2> DEFINE c == [cpu EXCEPT !.pc = "forked", !.r0 = 1]
  <2>1. pc = "user" /\ ForkWith(c)
    BY DEF Fork, AtPrompt
  <2>2. "forked" \in Code /\ "forked" \notin Program
    BY Codes DEF Code
  <2>3. c \in Context /\ c.pc = "forked"
    BY <2>2, RunningFacts, NextRegisters
  <2> HIDE DEF c
  <2> QED
    BY <2>1, <2>2, <2>3 DEF StepOfFork
<1>2. ForkPhilosopher => StepOfFork
  <2> SUFFICES ASSUME ForkPhilosopher
               PROVE  StepOfFork
    OBVIOUS
  <2>1. pc = "user" /\ cpu.pc = "diningPhil" /\ ForkWith(cpu)
    BY DEF ForkPhilosopher
  <2>2. currentProc # 0
    BY <2>1, RunningFacts, Codes, InvFacts
  <2> QED
    BY <2>1, <2>2, RunningFacts DEF StepOfFork
<1>3. PickFCFS \/ PickRoundRobin => \E pid \in Pids(procTable, PROCS) : SwitchTo(pid)
  BY PickFCFSSwitches, PickRoundRobinSwitches
<1> QED
  BY <1>1, <1>2, <1>3
     DEF Next, SystemCall, Schedule, StepOfRegisters, StepOfEntry, StepOfEnd, StepOfAging

\* An iteration of the first loop is a NextSlot.
LEMMA AgingSteps ==
  ASSUME StepOfAging
  PROVE  pc = "age" /\ \E m : NextSlot(m)
BY DEF StepOfAging, KeepQueue, ChangeQueue, FallToRoundRobin

LEMMA NobodyEnded ==
  ASSUME NobodyEnds, KInv, StepOfEnd
  PROVE  FALSE
BY Codes, RunningFacts DEF NobodyEnds, StepOfEnd, Exit, Kill, KillStore

-----------------------------------------------------------------------------
(* A program is where it was dispatched from                               *)

(***************************************************************************)
(* currentProc is on the entry of the program that runs.  Nothing but a    *)
(* dispatch lets a program run, and the console's entry holds no program   *)
(* and nobody who spins.                                                   *)
(***************************************************************************)
InPlace ==
  /\ cpu.pc \in Program \cup {"spinning"}
       => /\ currentProc \in 1..(PROCS - 1)
          /\ procTable[currentProc].ctx.sp = cpu.sp
  /\ procTable[0].ctx.pc # "spinning"

\* What a dispatch makes of it.
LEMMA RestoredInPlace ==
  ASSUME KInv', Restored, currentProc' \in 0..(PROCS' - 1),
         procTable'[0].ctx.pc # "spinning"
  PROVE  InPlace'
<1>1. procTable'[0].ctx.pc \notin Program /\ PROCS' \in Nat
  <2>1. KTable(procTable', procTabSize', PROCS')
    BY DEF KInv
  <2> QED
    BY <2>1, TableFacts DEF KTable
<1>2. cpu'.pc \in Program \cup {"spinning"} => currentProc' # 0
  BY <1>1 DEF Restored
<1>3. currentProc' # 0 => currentProc' \in 1..(PROCS' - 1)
  BY <1>1
<1> QED
  BY <1>2, <1>3 DEF Restored, InPlace

\* A step after which the same code runs, or code that is no program's.
LEMMA StaysInPlace ==
  ASSUME KInv, InPlace, currentProc' = currentProc, PROCS' = PROCS,
         \A i \in 0..(PROCS - 1) : procTable'[i].ctx = procTable[i].ctx,
         \/ cpu'.pc \notin Program \cup {"spinning"}
         \/ cpu.pc \in Program \cup {"spinning"} /\ cpu'.sp = cpu.sp
  PROVE  InPlace'
<1>1. 0 \in 0..(PROCS - 1) /\ \A i \in 1..(PROCS - 1) : i \in 0..(PROCS - 1)
  BY InvFacts
<1> QED
  BY <1>1 DEF InPlace

\* exit and kill leave the console's entry where it is, and no program runs.
LEMMA EndsInPlace ==
  ASSUME TypedPidsAreNoJunk, KInv, InPlace, StepOfEnd
  PROVE  InPlace'
<1>1. /\ KTable(procTable, procTabSize, PROCS)
      /\ cpu \in Context
  BY RunningFacts DEF KInv
<1>2. CASE Exit
  <2>1. CurrentPid \in Pids(procTable, PROCS)
    BY <1>2, RunningFacts, Codes, ProgramHasPid DEF Exit
  <2>2. procTableContains(procTable, CurrentPid) \in 1..(PROCS - 1)
    <3>1. procTableContains(procTable, CurrentPid) \in 0..(PROCS - 1)
      BY <1>1, <2>1, FindsLive
    <3> QED
      BY <1>2, <3>1 DEF Exit, Terminate
  <2>3. procTable'[0] = procTable[0]
    BY <1>1, <1>2, <2>2, ShrunkKTable DEF Exit, Terminate
  <2>4. cpu'.pc = "exited"
    BY <1>1, <1>2 DEF Exit, Context
  <2> QED
    BY <2>3, <2>4, Codes DEF InPlace
<1>3. ASSUME NEW pid \in TypedPid, Killed(pid)
      PROVE  InPlace'
  <2>1. procTableContains(procTable, pid) \in 1..(PROCS - 1)
    <3>1. procTableContains(procTable, pid) > 0
      BY <1>3 DEF Killed, Terminate
    <3>2. procTableContains(procTable, pid) \in 0..(PROCS - 1)
      BY <1>1, <3>1, FoundIsLive DEF TypedPidsAreNoJunk
    <3> QED
      BY <3>1, <3>2
  <2>2. procTable'[0] = procTable[0]
    BY <1>1, <1>3, <2>1, ShrunkKTable DEF Killed, Terminate
  <2>3. cpu'.pc = "prompt"
    BY <1>1, <1>3 DEF Killed, Context
  <2> QED
    BY <2>2, <2>3, Codes DEF InPlace
<1> QED
  BY <1>2, <1>3 DEF StepOfEnd, Kill, KillStore

LEMMA EveryStepInPlace ==
  ASSUME CleanHeap, TypedPidsAreNoJunk, KInv, KInv', InPlace, [Next]_vars
  PROVE  InPlace'
<1>1. cpu \in Context /\ PROCS \in Nat /\ 0 \in 0..(PROCS - 1)
  BY RunningFacts, InvFacts
<1>2. CASE StepOfRegisters
  <2>1. /\ currentProc' = currentProc /\ PROCS' = PROCS
        /\ \A i \in 0..(PROCS - 1) : procTable'[i].ctx = procTable[i].ctx
    BY <1>2, QuietSteps
  <2>2. \/ cpu' = cpu \/ cpu' = [cpu EXCEPT !.pc = "prompt"]
        \/ cpu' = [cpu EXCEPT !.r0 = 0]
    BY <1>2 DEF StepOfRegisters, ForkOfFreedEntry, ExecRefused, KillStoreOverflow, Tick,
                MissingLevel, PickNone, vars, kernelVars
  <2>3. cpu'.pc = "prompt" \/ (cpu'.pc = cpu.pc /\ cpu'.sp = cpu.sp)
    BY <1>1, <2>2 DEF Context
  <2> QED
    BY <2>1, <2>3, Codes, StaysInPlace
<1>3. CASE StepOfFork
  <2>1. PICK c \in Context : /\ currentProc = 0 => c.pc \notin Program
                             /\ c.pc # "spinning" /\ ForkWith(c)
    BY <1>3 DEF StepOfFork
  <2>2. /\ Dispatched(currentProc, c, currentProc', procTable, procTable', PROCS)
        /\ PROCS' = PROCS + 1 /\ currentProc' \in 0..PROCS /\ Restored
    BY <2>1, ForkEntries
  <2>3. procTable'[0].ctx.pc # "spinning"
    BY <1>1, <2>1, <2>2 DEF Dispatched, InPlace
  <2>4. currentProc' \in 0..(PROCS' - 1)
    BY <1>1, <2>2
  <2> QED
    BY <2>2, <2>3, <2>4, RestoredInPlace
<1>4. CASE StepOfEntry
  <2>1. PICK i \in 0..(PROCS - 1) : OnlyEntry(i, procTable, procTable', PROCS)
    BY <1>4, EntrySteps
  <2>2. \A k \in 0..(PROCS - 1) : procTable'[k].ctx = procTable[k].ctx
    BY <2>1 DEF OnlyEntry
  <2>3. cpu'.pc = "prompt" \/ (cpu.pc = "diningPhil" /\ cpu'.sp = cpu.sp)
    BY <1>1, <1>4 DEF StepOfEntry, SemWait, Nice, Pause, Unpause, Context
  <2>4. PROCS' = PROCS /\ currentProc' = currentProc
    BY <1>4, EntrySteps
  <2> QED
    BY <1>1, <2>2, <2>3, <2>4, Codes, StaysInPlace
<1>5. CASE StepOfEnd
  BY <1>5, EndsInPlace
<1>6. CASE StepOfAging
  <2>1. PICK m : NextSlot(m)
    BY <1>6, AgingSteps
  <2>2. /\ OnlyEntry(slot, procTable, procTable', PROCS)
        /\ PROCS' = PROCS /\ currentProc' = currentProc
    BY <2>1, AgingEntries
  <2>3. \A k \in 0..(PROCS - 1) : procTable'[k].ctx = procTable[k].ctx
    BY <2>2 DEF OnlyEntry
  <2>4. cpu' = cpu
    BY <2>1 DEF NextSlot
  <2> QED
    BY <2>2, <2>3, <2>4, StaysInPlace
<1>7. CASE \E a \in Program : Exec(a)
  BY <1>7, ExecEntries, RestoredInPlace DEF InPlace
<1>8. CASE \E pid \in Pids(procTable, PROCS) : SwitchTo(pid)
  <2>1. /\ Dispatched(currentProc, cpu, currentProc', procTable, procTable', PROCS)
        /\ PROCS' = PROCS /\ currentProc' \in 0..(PROCS - 1) /\ Restored
    BY <1>8, SwitchEntries
  <2>2. currentProc = 0 => cpu.pc # "spinning"
    BY DEF InPlace
  <2>3. procTable'[0].ctx.pc # "spinning"
    BY <1>1, <2>1, <2>2 DEF Dispatched, InPlace
  <2> QED
    BY <2>1, <2>3, RestoredInPlace
<1> QED
  BY <1>2, <1>3, <1>4, <1>5, <1>6, <1>7, <1>8, Steps

LEMMA BootInPlace ==
  ASSUME Boot
  PROVE  InPlace
<1>1. ConsoleEntry.ctx.pc = "prompt"
  BY DEF ConsoleEntry, ZeroContext
<1>2. procTable[0] = [ConsoleEntry EXCEPT !.status = "EXECUTING"]
  BY DEF Boot
<1>3. procTable[0].ctx = ConsoleEntry.ctx /\ cpu = ConsoleEntry.ctx
  BY <1>2 DEF Boot, ConsoleEntry
<1> QED
  BY <1>1, <1>3, Codes DEF InPlace

(***************************************************************************)
(* The registers of an interrupted program are saved where they came from, *)
(* however many exits and kills have moved entries, and whatever exec and  *)
(* fork do through currentProc: who is saved over a neighbour after a      *)
(* deletion is never a program that goes on.                               *)
(***************************************************************************)
THEOREM ProgramsStayInPlace ==
  ASSUME CleanHeap, TypedPidsAreNoJunk
  PROVE  Spec => []SavedInItsOwnEntry
<1>1. Boot => InPlace
  BY BootInPlace
<1>2. KInv /\ KInv' /\ InPlace /\ [Next]_vars => InPlace'
  BY EveryStepInPlace
<1>3. KInv /\ InPlace => SavedInItsOwnEntry
  <2> SUFFICES ASSUME KInv, InPlace
               PROVE  SavedInItsOwnEntry
    OBVIOUS
  <2>1. \A i \in 1..(PROCS - 1) : i \in Live \ {0}
    BY InvFacts
  <2> QED
    BY <2>1 DEF InPlace, SavedInItsOwnEntry
<1> QED
  BY <1>1, <1>2, <1>3, KInvariant, PTL DEF Spec

-----------------------------------------------------------------------------
(* As long as no process ends, currentProc points to an entry in use       *)

CurrentLive == currentProc \in 0..(PROCS - 1)

LEMMA CurrentStaysLive ==
  ASSUME CleanHeap, TypedPidsAreNoJunk, NobodyEnds, KInv, CurrentLive, [Next]_vars
  PROVE  CurrentLive'
<1>1. PROCS \in Nat
  BY InvFacts
<1>2. CASE StepOfRegisters
  BY <1>2, QuietSteps DEF CurrentLive
<1>3. CASE StepOfFork
  BY <1>1, <1>3, ForkEntries DEF StepOfFork, CurrentLive
<1>4. CASE StepOfEntry
  BY <1>4, EntrySteps DEF CurrentLive
<1>5. CASE StepOfEnd
  BY <1>5, NobodyEnded
<1>6. CASE StepOfAging
  BY <1>6, AgingSteps, AgingEntries DEF CurrentLive
<1>7. CASE \E a \in Program : Exec(a)
  BY <1>7, ExecEntries DEF CurrentLive
<1>8. CASE \E pid \in Pids(procTable, PROCS) : SwitchTo(pid)
  BY <1>8, SwitchEntries DEF CurrentLive
<1> QED
  BY <1>2, <1>3, <1>4, <1>5, <1>6, <1>7, <1>8, Steps

LEMMA BootIsLive ==
  ASSUME Boot
  PROVE  CurrentLive
BY DEF Boot, CurrentLive

\* What PreservesContexts says of a step.
KeepsContexts ==
  /\ pc = "pick" /\ currentProc' # currentProc => procTable'[currentProc].ctx = cpu
  /\ \A i \in Live \ {currentProc} :
       procTable'[i].ctx # procTable[i].ctx => \E a \in Program : Exec(a)

LEMMA EveryStepKeepsContexts ==
  ASSUME CleanHeap, TypedPidsAreNoJunk, NobodyEnds, KInv, CurrentLive, [Next]_vars
  PROVE  KeepsContexts
<1> USE InvFacts
<1>1. CASE StepOfRegisters
  BY <1>1, QuietSteps DEF KeepsContexts
<1>2. CASE StepOfFork
  BY <1>2, ForkEntries DEF StepOfFork, KeepsContexts, Dispatched
<1>3. CASE StepOfEntry
  <2>1. PICK i \in 0..(PROCS - 1) : OnlyEntry(i, procTable, procTable', PROCS)
    BY <1>3, EntrySteps
  <2>2. \A k \in Live : procTable'[k].ctx = procTable[k].ctx
    BY <2>1 DEF OnlyEntry
  <2> QED
    BY <1>3, <2>2, EntrySteps DEF KeepsContexts
<1>4. CASE StepOfEnd
  BY <1>4, NobodyEnded
<1>5. CASE StepOfAging
  <2>1. OnlyEntry(slot, procTable, procTable', PROCS) /\ currentProc' = currentProc
    BY <1>5, AgingSteps, AgingEntries
  <2>2. \A k \in Live : procTable'[k].ctx = procTable[k].ctx
    BY <2>1 DEF OnlyEntry
  <2> QED
    BY <2>1, <2>2 DEF KeepsContexts
<1>6. CASE \E a \in Program : Exec(a)
  BY <1>6, ExecEntries DEF KeepsContexts
<1>7. CASE \E pid \in Pids(procTable, PROCS) : SwitchTo(pid)
  <2>1. Dispatched(currentProc, cpu, currentProc', procTable, procTable', PROCS)
    BY <1>7, SwitchEntries
  <2> QED
    BY <2>1 DEF KeepsContexts, Dispatched, CurrentLive
<1> QED
  BY <1>1, <1>2, <1>3, <1>4, <1>5, <1>6, <1>7, Steps

(***************************************************************************)
(* dispatch saves the registers of the process it switches from in that    *)
(* process's entry, where nothing changes them until it runs again: not    *)
(* the forks, which write through currentProc twice, nor the table's       *)
(* growing, nor what schedule() and the console write into entries.        *)
(***************************************************************************)
THEOREM DispatchPreservesContexts ==
  ASSUME CleanHeap, TypedPidsAreNoJunk, NobodyEnds
  PROVE  Spec => PreservesContexts
<1>1. Boot => CurrentLive
  BY BootIsLive
<1>2. KInv /\ CurrentLive /\ [Next]_vars => CurrentLive'
  BY CurrentStaysLive
<1>3. KInv /\ CurrentLive /\ [Next]_vars =>
        [/\ pc = "pick" /\ currentProc' # currentProc => procTable'[currentProc].ctx = cpu
         /\ \A i \in Live \ {currentProc} :
              procTable'[i].ctx # procTable[i].ctx => \E a \in Program : Exec(a)]_vars
  BY EveryStepKeepsContexts DEF KeepsContexts
<1> QED
  BY <1>1, <1>2, <1>3, KInvariant, PTL DEF Spec, PreservesContexts

-----------------------------------------------------------------------------
(* Who is queued where                                                     *)

\* schedule()'s first loop is done with slot i.
Passed(i) == pc = "pick" \/ (pc = "age" /\ i < slot)

\* Whoever has aged twice, or once and the loop is past it, is at the level of
\* its priority.  A priority of 1 alone does not say so: fork, exec, priority
\* and unpause set it, and leave the queueing to schedule().
Placed(i) ==
  procTable[i].priority >= 2 \/ (Passed(i) /\ procTable[i].priority = 1)
    => At(multiLevelQueue, LevelOf(procTable[i].priority), procTable[i].pid)

(***************************************************************************)
(* As long as no process ends, a pid is its slot's number.  So no two are  *)
(* the same, and a move that is meant for one process moves only that one. *)
(***************************************************************************)
LevelInv ==
  /\ \A i \in 1..(PROCS - 1) : procTable[i].pid = i
  /\ \A i \in 0..(PROCS - 1) : Placed(i)

LEMMA PidsDiffer ==
  ASSUME KInv, LevelInv, NEW i \in 0..(PROCS - 1), NEW j \in 0..(PROCS - 1), i # j
  PROVE  procTable[i].pid # procTable[j].pid
<1>1. TableOf(procTable, procTabSize, PROCS) /\ PROCS \in Nat
  BY InvFacts DEF KInv, KTable
<1>2. \A k \in 0..(PROCS - 1) : procTable[k].pid = CONSOLE_PID <=> k = 0
  BY <1>1, LivePids
<1>3. \A k \in 0..(PROCS - 1) : k = 0 \/ k \in 1..(PROCS - 1)
  BY <1>1
<1>4. \A k \in 1..(PROCS - 1) : procTable[k].pid = k
  BY DEF LevelInv
<1> QED
  BY <1>2, <1>3, <1>4

(***************************************************************************)
(* dispatch queues whoever it dispatches, if nobody has, and moves nobody. *)
(***************************************************************************)
LEMMA EnteringKeeps ==
  ASSUME CleanHeap, KInv, NEW n, NEW x \in Pid,
         multiLevelQueue' \in addToMLFQ(multiLevelQueue, x, n),
         NEW k \in 0..MAX_QUEUE_LEVELS, NEW y, At(multiLevelQueue, k, y)
  PROVE  At(multiLevelQueue', k, y)
<1>1. CASE multiLevelQueue' = multiLevelQueue
  BY <1>1
<1>2. CASE Enter(x)
  <2>1. WellFormed(multiLevelQueue) /\ x \notin Junk /\ MlfqInv
    BY DEF KInv, MlfqInv, MlfqOf, CleanHeap
  <2>2. Relocated(multiLevelQueue, multiLevelQueue', x, 1)
    BY <1>2, <2>1, EnterStep
  <2>3. y # x
    <3>1. inMLFQ(multiLevelQueue, x).level < 0
      BY <1>2 DEF Enter
    <3>2. ~ (inMLFQ(multiLevelQueue, x).level \in Level(multiLevelQueue))
      BY <2>1, <3>1, Levels
    <3>3. \A l \in Level(multiLevelQueue) : ~ At(multiLevelQueue, l, x)
      BY <2>1, <3>2, SearchFinds
    <3> QED
      BY <3>3 DEF At
  <2> QED
    BY <2>2, <2>3 DEF Relocated
<1>3. multiLevelQueue' = multiLevelQueue \/ Enter(x)
  BY DEF addToMLFQ, Enter
<1> QED
  BY <1>1, <1>2, <1>3

\* The steps in which somebody may be queued and nobody is moved, at the end of
\* which schedule()'s first loop has passed nobody.
LEMMA PlacedStaysPlaced ==
  ASSUME KInv, NEW i \in 0..(PROCS - 1), Placed(i), ~ Passed(i)',
         procTable'[i].pid = procTable[i].pid,
         procTable'[i].priority \in {0, 1, procTable[i].priority},
         \A k \in 0..MAX_QUEUE_LEVELS :
           procTable'[i].priority # 0 /\ At(multiLevelQueue, k, procTable[i].pid)
             => At(multiLevelQueue', k, procTable[i].pid)
  PROVE  Placed(i)'
<1> SUFFICES ASSUME procTable'[i].priority >= 2
             PROVE  At(multiLevelQueue', LevelOf(procTable'[i].priority), procTable'[i].pid)
  BY DEF Placed, LevelOf
<1>1. procTable'[i].priority = procTable[i].priority
  OBVIOUS
<1>2. procTable[i].priority \in Nat
  BY InvFacts DEF PCB
<1>3. LevelOf(procTable[i].priority) \in 0..MAX_QUEUE_LEVELS
  BY <1>2, WantedLevels
<1>4. At(multiLevelQueue, LevelOf(procTable[i].priority), procTable[i].pid)
  BY <1>1 DEF Placed
<1> QED
  BY <1>1, <1>3, <1>4

LEMMA QuietPlaces ==
  ASSUME KInv, StepOfRegisters, NEW i \in 0..(PROCS - 1), Placed(i)
  PROVE  Placed(i)'
<1>1. PROCS \in Nat /\ i \in Nat
  BY InvFacts
<1>2. Passed(i)' => Passed(i)
  BY <1>1 DEF StepOfRegisters, ForkOfFreedEntry, ExecRefused, IsChild, KillStoreOverflow,
              Tick, CallSchedule, MissingLevel, PickNone, vars, kernelVars, Passed
<1>3. procTable' = procTable /\ multiLevelQueue' = multiLevelQueue
  BY QuietSteps
<1> QED
  BY <1>2, <1>3 DEF Placed, LevelOf

(***************************************************************************)
(* An iteration of the first loop: how the queues are relocated, and that  *)
(* the process in the slot is where its new priority wants it.             *)
(***************************************************************************)
LEMMA AgingRelocates ==
  ASSUME CleanHeap, KInv, LevelInv, StepOfAging
  PROVE  LET pid == procTable[slot].pid
         IN  /\ \A k \in 0..MAX_QUEUE_LEVELS : \A x :
                  x # pid => (At(multiLevelQueue', k, x) <=> At(multiLevelQueue, k, x))
             /\ Aged(slot) >= 1 => At(multiLevelQueue', LevelOf(Aged(slot)), pid)
<1> DEFINE pid == procTable[slot].pid
           m == multiLevelQueue
           p == procTable[slot].priority
           a == Aged(slot)
<1>1. pc = "age" /\ \E r : NextSlot(r)
  BY AgingSteps
<1>2. /\ slot \in 0..(PROCS - 1) /\ p \in Nat /\ (a = p \/ a = p + 1) /\ a \in Nat
      /\ MlfqInv
  <2>1. slot \in 0..(PROCS - 1) /\ p \in Nat /\ (a = p \/ a = p + 1)
    BY <1>1, AgingEntries
  <2> HIDE DEF a, p
  <2> QED
    BY <2>1 DEF KInv
<1>3. pid \in Pid
  BY <1>1, NextSlotStep
<1> HIDE DEF a
<1>4. CASE KeepQueue
  <2> DEFINE r == IF a = 0 THEN removeFromMLFQ(m, pid) ELSE m
  <2>1. /\ a # Top + 1 /\ \A l \in 1..MAX_QUEUE_LEVELS : a # Threshold(l)
        /\ NextSlot(r)
    BY <1>4 DEF KeepQueue, a
  <2>2. m' = r
    BY <2>1 DEF NextSlot
  <2>3. CASE a = 0
    <3>1. \A k, x : At(m', k, x) <=> At(m, k, x) /\ x # pid
      BY <1>2, <1>3, <2>2, <2>3, RemovedProcess DEF MlfqInv
    <3> QED
      BY <2>3, <3>1 DEF a
  <2>4. CASE a # 0
    <3>1. m' = m
      BY <2>2, <2>4
    <3>2. a >= 3
      <4>1. a # 1
        BY <2>1, Thresholds
      <4>2. a # 2
        <5>1. CASE MAX_QUEUE_LEVELS = 1
          BY <2>1, <5>1, Thresholds
        <5>2. CASE MAX_QUEUE_LEVELS # 1
          <6>1. 2 \in 1..MAX_QUEUE_LEVELS
            BY <5>2, Thresholds
          <6> QED
            BY <2>1, <6>1, Thresholds
        <5> QED
          BY <5>1, <5>2
      <4> QED
        BY <1>2, <2>4, <4>1, <4>2
    <3>3. At(m, LevelOf(p), pid)
      <4>1. p >= 2 /\ Placed(slot)
        BY <1>2, <3>2 DEF LevelInv
      <4> QED
        BY <4>1 DEF Placed
    <3>4. LevelOf(a) = LevelOf(p)
      <4>1. CASE a = p
        BY <4>1
      <4>2. CASE a = p + 1
        BY <1>2, <2>1, <4>2, WantedLevels
      <4> QED
        BY <1>2, <4>1, <4>2
    <3> QED
      BY <3>1, <3>3, <3>4 DEF a
  <2> QED
    BY <2>3, <2>4
<1>5. CASE ChangeQueue
  <2>1. PICK l \in 1..MAX_QUEUE_LEVELS :
          /\ a = Threshold(l) /\ l <= Target(l).levels
          /\ \E r \in addToQueue(Target(l), pid, l) : NextSlot(r)
    BY <1>5 DEF ChangeQueue, a
  <2>2. m' \in addToQueue(Target(l), pid, l)
    BY <2>1 DEF NextSlot
  <2>3. Demote(pid, l)
    BY <2>1, <2>2 DEF Demote, Target
  <2>4. Relocated(m, m', pid, l)
    BY <1>2, <1>3, <2>3, DemoteStep
  <2>5. LevelOf(a) = l /\ l \in 0..MAX_QUEUE_LEVELS
    BY <2>1, WantedLevels, Thresholds
  <2> QED
    BY <2>4, <2>5 DEF Relocated, a
<1>6. CASE FallToRoundRobin
  <2>1. /\ a = Top + 1
        /\ \E r \in addToQueue(removeFromMLFQ(m, pid), pid, 0) : NextSlot(r)
    BY <1>6 DEF FallToRoundRobin, a
  <2>2. m' \in addToQueue(removeFromMLFQ(m, pid), pid, 0)
    BY <2>1 DEF NextSlot
  <2>3. Relocated(m, m', pid, 0)
    BY <1>2, <1>3, <2>2, RoundRobinStep DEF ToRoundRobin
  <2>4. LevelOf(a) = 0 /\ 0 \in 0..MAX_QUEUE_LEVELS
    BY <2>1, WantedLevels, Thresholds
  <2> QED
    BY <2>3, <2>4 DEF Relocated, a
<1> QED
  BY <1>4, <1>5, <1>6 DEF StepOfAging

LEMMA AgingPlaces ==
  ASSUME CleanHeap, KInv, LevelInv, StepOfAging
  PROVE  LevelInv'
<1> DEFINE m == multiLevelQueue
<1>1. PICK r : NextSlot(r)
  BY AgingSteps
<1>2. /\ OnlyEntry(slot, procTable, procTable', PROCS)
      /\ procTable'[slot].priority = Aged(slot)
      /\ slot \in 0..(PROCS - 1)
      /\ PROCS' = PROCS /\ pc = "age"
      /\ slot' = IF slot + 1 < PROCS THEN slot + 1 ELSE 0
      /\ pc' = IF slot + 1 < PROCS THEN "age" ELSE "pick"
  BY <1>1, AgingSteps, AgingEntries
<1>3. /\ \A k \in 0..MAX_QUEUE_LEVELS : \A x :
           x # procTable[slot].pid => (At(m', k, x) <=> At(m, k, x))
      /\ Aged(slot) >= 1 => At(m', LevelOf(Aged(slot)), procTable[slot].pid)
  BY AgingRelocates
<1>4. PROCS \in Nat
  BY InvFacts
<1>5. \A i \in 0..(PROCS - 1) : procTable'[i].pid = procTable[i].pid
  BY <1>2 DEF OnlyEntry
<1>6. \A i \in 1..(PROCS' - 1) : procTable'[i].pid = i
  <2>1. \A i \in 1..(PROCS - 1) : i \in 0..(PROCS - 1)
    BY <1>4
  <2> QED
    BY <1>2, <1>5, <2>1 DEF LevelInv
<1>7. ASSUME NEW i \in 0..(PROCS - 1), i # slot
      PROVE  Placed(i)'
  <2>1. procTable'[i] = procTable[i] /\ Placed(i)
    BY <1>2, <1>7 DEF OnlyEntry, LevelInv
  <2>2. Passed(i)' => Passed(i)
    <3>1. slot \in Nat /\ i \in Nat /\ slot < PROCS /\ i < PROCS
      BY <1>2, <1>4
    <3> QED
      BY <1>2, <1>4, <1>7, <3>1 DEF Passed
  <2>3. procTable[i].pid # procTable[slot].pid
    BY <1>2, <1>7, PidsDiffer
  <2>4. procTable[i].priority \in Nat
    BY InvFacts DEF PCB
  <2>5. LevelOf(procTable[i].priority) \in 0..MAX_QUEUE_LEVELS
    BY <2>4, WantedLevels
  <2> SUFFICES ASSUME procTable'[i].priority >= 2
                        \/ (Passed(i)' /\ procTable'[i].priority = 1)
               PROVE  At(m', LevelOf(procTable'[i].priority), procTable'[i].pid)
    BY DEF Placed, LevelOf
  <2>6. At(m, LevelOf(procTable[i].priority), procTable[i].pid)
    BY <2>1, <2>2 DEF Placed
  <2> QED
    BY <1>3, <2>1, <2>3, <2>5, <2>6
<1>8. ASSUME NEW i \in 0..(PROCS - 1), i = slot
      PROVE  Placed(i)'
  <2>1. procTable'[i].pid = procTable[slot].pid /\ procTable'[i].priority = Aged(slot)
    BY <1>2, <1>5, <1>8
  <2>2. procTable[slot].priority \in Nat
    BY <1>1, AgingEntries
  <2>3. Aged(slot) \in Nat
    BY <1>1, <2>2, AgingEntries
  <2> SUFFICES ASSUME Aged(slot) >= 2 \/ Aged(slot) = 1
               PROVE  At(m', LevelOf(Aged(slot)), procTable[slot].pid)
    BY <2>1 DEF Placed, LevelOf
  <2>4. Aged(slot) >= 1
    BY <2>3
  <2> QED
    BY <1>3, <2>4
<1>9. \A i \in 0..(PROCS - 1) : Placed(i)'
  BY <1>7, <1>8
<1> QED
  BY <1>2, <1>6, <1>9 DEF LevelInv

LEMMA LevelStep ==
  ASSUME CleanHeap, TypedPidsAreNoJunk, NobodyEnds, KInv, LevelInv, [Next]_vars
  PROVE  LevelInv'
<1>1. /\ PROCS \in Nat /\ PROCS >= 1
      /\ \A i \in 1..(PROCS - 1) : i \in 0..(PROCS - 1)
      /\ \A i \in 0..(PROCS - 1) : Placed(i)
  BY InvFacts DEF LevelInv
<1>2. CASE StepOfRegisters
  <2>1. \A i \in 0..(PROCS - 1) : Placed(i)'
    BY <1>1, <1>2, QuietPlaces
  <2> QED
    BY <1>2, <2>1, QuietSteps DEF LevelInv
<1>3. CASE StepOfFork
  <2>1. PICK c \in Context : (currentProc = 0 => c.pc \notin Program) /\ ForkWith(c)
    BY <1>3 DEF StepOfFork
  <2>2. /\ Dispatched(currentProc, c, currentProc', procTable, procTable', PROCS)
        /\ PROCS' = PROCS + 1 /\ pc = "user" /\ pc' = pc
        /\ procTable'[PROCS].pid = PROCS /\ procTable'[PROCS].priority = 1
        /\ \E x \in Pid : multiLevelQueue' \in addToMLFQ(multiLevelQueue, x, PROCS + 1)
    BY <1>3, <2>1, ForkEntries DEF StepOfFork
  <2>3. \A i \in 0..(PROCS' - 1) : i = PROCS \/ i \in 0..(PROCS - 1)
    BY <1>1, <2>2
  <2>4. ASSUME NEW i \in 0..(PROCS - 1)
        PROVE  Placed(i)'
    <3>1. /\ procTable'[i].pid = procTable[i].pid
          /\ procTable'[i].priority = procTable[i].priority
      BY <2>2 DEF Dispatched
    <3>2. ~ Passed(i)'
      BY <2>2 DEF Passed
    <3> QED
      BY <1>1, <2>2, <3>1, <3>2, EnteringKeeps, PlacedStaysPlaced
  <2>5. ASSUME NEW i, i = PROCS
        PROVE  Placed(i)'
    BY <2>2, <2>5 DEF Placed, Passed
  <2>6. \A i \in 1..(PROCS' - 1) : procTable'[i].pid = i
    <3> TAKE i \in 1..(PROCS' - 1)
    <3>1. i = PROCS \/ i \in 1..(PROCS - 1)
      BY <1>1, <2>2
    <3> QED
      BY <1>1, <2>2, <3>1 DEF LevelInv, Dispatched
  <2> QED
    BY <2>3, <2>4, <2>5, <2>6 DEF LevelInv
<1>4. CASE StepOfEntry
  <2>1. PICK e \in 0..(PROCS - 1) :
          /\ OnlyEntry(e, procTable, procTable', PROCS)
          /\ \/ /\ multiLevelQueue' = multiLevelQueue
                /\ \/ procTable'[e].priority = 1
                   \/ procTable'[e].priority = procTable[e].priority
             \/ /\ multiLevelQueue' = removeFromMLFQ(multiLevelQueue, procTable[e].pid)
                /\ procTable'[e].priority = 0
    BY <1>4, EntrySteps
  <2>2. PROCS' = PROCS /\ (pc' = "user" \/ (pc' = "age" /\ slot' = 0))
    BY <1>4, EntrySteps
  <2>3. \A i \in 0..(PROCS - 1) : procTable'[i].pid = procTable[i].pid
    BY <2>1 DEF OnlyEntry
  <2>4. ASSUME NEW i \in 0..(PROCS - 1)
        PROVE  Placed(i)'
    <3>1. ~ Passed(i)'
      BY <1>1, <2>2 DEF Passed
    <3>2. procTable'[i].priority \in {0, 1, procTable[i].priority}
      BY <2>1 DEF OnlyEntry
    <3>3. ASSUME NEW k \in 0..MAX_QUEUE_LEVELS, procTable'[i].priority # 0,
                 At(multiLevelQueue, k, procTable[i].pid)
          PROVE  At(multiLevelQueue', k, procTable[i].pid)
      <4>1. CASE multiLevelQueue' = multiLevelQueue
        BY <3>3, <4>1
      <4>2. CASE multiLevelQueue' # multiLevelQueue
        <5>1. i # e /\ multiLevelQueue' = removeFromMLFQ(multiLevelQueue, procTable[e].pid)
          BY <2>1, <3>3, <4>2
        <5>2. procTable[i].pid # procTable[e].pid
          BY <5>1, PidsDiffer
        <5>3. procTable[e].pid \in Pid
          <6>1. procTable[e].pid \in Pids(procTable, PROCS)
            BY DEF Pids
          <6> QED
            BY <6>1, FindsLive DEF KInv
        <5>4. \A l, x : At(multiLevelQueue', l, x)
                          <=> At(multiLevelQueue, l, x) /\ x # procTable[e].pid
          BY <5>1, <5>3, RemovedProcess DEF KInv, MlfqInv
        <5> QED
          BY <3>3, <5>2, <5>4
      <4> QED
        BY <4>1, <4>2
    <3> QED
      BY <1>1, <2>3, <3>1, <3>2, <3>3, PlacedStaysPlaced
  <2> QED
    BY <1>1, <2>2, <2>3, <2>4 DEF LevelInv
<1>5. CASE StepOfEnd
  BY <1>5, NobodyEnded
<1>6. CASE StepOfAging
  BY <1>6, AgingPlaces
<1>7. CASE \E a \in Program : Exec(a)
  <2>1. /\ \A i \in 0..(PROCS - 1) :
             /\ procTable'[i].pid = procTable[i].pid
             /\ procTable'[i].priority \in {0, 1, procTable[i].priority}
        /\ PROCS' = PROCS /\ pc' = "user"
        /\ \E x \in Pid : multiLevelQueue' \in addToMLFQ(multiLevelQueue, x, PROCS)
    BY <1>7, ExecEntries
  <2>2. \A i \in 0..(PROCS - 1) : ~ Passed(i)'
    BY <2>1 DEF Passed
  <2>3. \A i \in 0..(PROCS - 1) : Placed(i)'
    BY <1>1, <2>1, <2>2, EnteringKeeps, PlacedStaysPlaced
  <2> QED
    BY <1>1, <2>1, <2>3 DEF LevelInv
<1>8. CASE \E pid \in Pids(procTable, PROCS) : SwitchTo(pid)
  <2>1. /\ Dispatched(currentProc, cpu, currentProc', procTable, procTable', PROCS)
        /\ PROCS' = PROCS /\ pc' = "user"
        /\ \E x \in Pid : multiLevelQueue' \in addToMLFQ(multiLevelQueue, x, PROCS)
    BY <1>8, SwitchEntries
  <2>2. \A i \in 0..(PROCS - 1) : /\ procTable'[i].pid = procTable[i].pid
                                  /\ procTable'[i].priority = procTable[i].priority
                                  /\ ~ Passed(i)'
    BY <2>1 DEF Dispatched, Passed
  <2>3. \A i \in 0..(PROCS - 1) : Placed(i)'
    BY <1>1, <2>1, <2>2, EnteringKeeps, PlacedStaysPlaced
  <2> QED
    BY <1>1, <2>1, <2>2, <2>3 DEF LevelInv
<1> QED
  BY <1>2, <1>3, <1>4, <1>5, <1>6, <1>7, <1>8, Steps

LEMMA PlacedMeansQueued ==
  ASSUME CleanHeap, KInv, LevelInv
  PROVE  QueuedAtItsLevel
<1> SUFFICES ASSUME pc = "pick", NEW i \in Live, procTable[i].priority > 0
             PROVE  inMLFQ(multiLevelQueue, procTable[i].pid).level
                      = LevelOf(procTable[i].priority)
  BY DEF QueuedAtItsLevel
<1> DEFINE m == multiLevelQueue
           pid == procTable[i].pid
           l == LevelOf(procTable[i].priority)
           p == inMLFQ(m, pid)
<1>1. i \in 0..(PROCS - 1) /\ procTable[i].priority \in Nat
  BY InvFacts DEF PCB
<1>2. At(m, l, pid)
  <2>1. Placed(i) /\ Passed(i)
    BY <1>1 DEF LevelInv, Passed
  <2>2. procTable[i].priority >= 2 \/ procTable[i].priority = 1
    BY <1>1
  <2> QED
    BY <2>1, <2>2 DEF Placed
<1>3. pid \in Pid /\ pid \notin Junk
  <2>1. pid \in Pids(procTable, PROCS)
    BY <1>1 DEF Pids
  <2> QED
    BY <2>1, FindsLive DEF KInv, CleanHeap
<1>4. WellFormed(m)
  BY DEF KInv, MlfqInv, MlfqOf
<1> HIDE DEF l, pid, p
<1>5. /\ p.level \in Level(m) /\ p.index \in Prefix(m.queues[p.level])
      /\ m.queues[p.level].processes[p.index] = pid
  <2>1. ~ \A k \in Level(m) : ~ At(m, k, pid)
    BY <1>2 DEF At
  <2> QED
    BY <1>3, <1>4, <2>1, SearchFinds DEF p
<1>6. At(m, p.level, pid)
  BY <1>5 DEF At, Has
<1>7. p.level = l
  BY <1>2, <1>3, <1>4, <1>6 DEF WellFormed, At
<1> QED
  BY <1>7 DEF l, p, pid

(***************************************************************************)
(* The first loop of schedule() leaves every process that is not switched  *)
(* off at the level of its priority: through aging past a level and past   *)
(* the last, through the levels that empty and are deleted meanwhile, and  *)
(* whatever fork, exec, priority, pause and unpause reset.                 *)
(***************************************************************************)
THEOREM AgingQueuesAtLevels ==
  ASSUME CleanHeap, TypedPidsAreNoJunk, NobodyEnds
  PROVE  Spec => []QueuedAtItsLevel
<1>1. Boot => LevelInv
  <2> DEFINE e == [ConsoleEntry EXCEPT !.status = "EXECUTING"]
  <2> SUFFICES ASSUME Boot
               PROVE  LevelInv
    OBVIOUS
  <2>1. procTable = [i \in {0} |-> e] /\ PROCS = 1 /\ pc = "user"
    BY DEF Boot
  <2>2. e.priority = 1
    BY DEF ConsoleEntry
  <2> HIDE DEF e
  <2>3. (\A i \in 0..(1 - 1) : i = 0) /\ 1..(1 - 1) = {}
    OBVIOUS
  <2> QED
    BY <2>1, <2>2, <2>3 DEF LevelInv, Placed, Passed
<1>2. KInv /\ LevelInv /\ [Next]_vars => LevelInv'
  BY LevelStep
<1>3. KInv /\ LevelInv => QueuedAtItsLevel
  BY PlacedMeansQueued
<1> QED
  BY <1>1, <1>2, <1>3, KInvariant, PTL DEF Spec
=============================================================================
