---------------------------- MODULE ProcessTable ----------------------------
(***************************************************************************)
(* The process table of kernel/processTables/processTable.c: a heap array  *)
(* that doubles and halves with the number of processes, the console in    *)
(* slot 0 and the live entries in front.                                   *)
(*                                                                         *)
(* The operators work on the value of an array, so that Kernel.tla can use *)
(* them in the middle of a handler; the actions are the calls that the     *)
(* rest of the kernel makes.  ProcessTableCalls.tla runs them on their own.*)
(***************************************************************************)
EXTENDS KernelConfig, Defrag

VARIABLES
  procTable,    \* the array, indexed from 0
  procTabSize,  \* its number of slots
  PROCS         \* its number of processes

ptVars == <<procTable, procTabSize, PROCS>>

-----------------------------------------------------------------------------
(* Values *)

ConsoleEntry ==
  [pid      |-> CONSOLE_PID,
   status   |-> "READY",
   tos      |-> 0,
   ctx      |-> [ZeroContext EXCEPT !.pc = "prompt"],
   priority |-> 1]

\* The first slot that holds pid, over all slots, dead ones included, or -1.
procTableContains(t, pid) ==
  LET found == {i \in DOMAIN t : t[i].pid = pid}
  IN  IF found = {} THEN -1 ELSE LeastOf(found)

\* Mutant of procDefrag: the hole stays.
procDefragNothing(t) == t

procDefrag(t) == Compact(t, {i \in DOMAIN t : t[i].pid # 0}, ZeroPCB)

\* realloc to twice the size: nobody writes the new slots.
Doubled(t, size, fresh) ==
  [i \in 0..(2 * size - 1) |->
     IF i < size THEN t[i] ELSE [ZeroPCB EXCEPT !.pid = fresh[i]]]

Full(n, size) == n >= size /\ n < MAX_PROCS

\* The memory that realloc may add to a table of n processes.
FreshMemory(n, size) ==
  IF Full(n, size) THEN [size..(2 * size - 1) -> Junk] ELSE {<<>>}

WithRoom(t, size, n, fresh) ==
  IF Full(n, size) THEN Doubled(t, size, fresh) ELSE t

\* Mutant of SizeWithRoom: procTabSize is not doubled with the array.
SizeNotDoubled(size, n) == size

SizeWithRoom(size, n) == IF Full(n, size) THEN 2 * size ELSE size

\* Mutants of Child: the copy keeps its parent's pid, its parent's stack, or
\* gets a status of its own.
ChildWithParentsPid(parent, c, n) ==
  [parent EXCEPT !.tos = n, !.ctx = c, !.priority = 1]

ChildOnParentsStack(parent, c, n) ==
  [parent EXCEPT !.pid = n, !.ctx = c, !.priority = 1]

ChildCreated(parent, c, n) ==
  [parent EXCEPT !.pid = n, !.tos = n, !.ctx = c, !.priority = 1, !.status = "CREATED"]

\* The copy of parent that a fork at c puts in slot n: its pid and its stack
\* are the slot's number, its sp is still the parent's.
Child(parent, c, n) ==
  [parent EXCEPT !.pid = n,
                 !.tos = n,
                 !.ctx = [@ EXCEPT !.pc = c.pc, !.sp = c.sp, !.r0 = 0],
                 !.priority = 1]

\* Program a started afresh in the entry e, on e's own stack.
Restarted(e, a) ==
  [e EXCEPT !.ctx = [pc |-> a, sp |-> e.tos, r0 |-> 0], !.priority = 1]

\* Mutant of SizeAfterDelete: the test is < instead of <=.
SizeAfterDeleteLate(size, n) == IF n - 1 < size \div 2 THEN size \div 2 ELSE size

SizeAfterDelete(size, n) == IF n - 1 <= size \div 2 THEN size \div 2 ELSE size

\* Mutant of Deleted: the last entry moves into the hole.
DeletedBySwap(t, size, n, pos) ==
  LET swapped == [t EXCEPT ![pos] = t[n - 1], ![n - 1] = ZeroPCB]
  IN  [i \in 0..(SizeAfterDelete(size, n) - 1) |-> swapped[i]]

\* The table of n processes and size slots without the entry in slot pos.  Of a
\* dead slot only the pid is ever read: the STATUS_TERMINATED that may remain in
\* one is left out.
Deleted(t, size, n, pos) ==
  LET defragged == procDefrag([t EXCEPT ![pos] = ZeroPCB])
  IN  [i \in 0..(SizeAfterDelete(size, n) - 1) |-> defragged[i]]

-----------------------------------------------------------------------------
(* The calls *)

\* procInit(&main_console), the only procInit the kernel makes.
procInit ==
  /\ procTable = [i \in {0} |-> ConsoleEntry]
  /\ procTabSize = 1
  /\ PROCS = 1

\* fork: the process in slot p, at c.
procCopy(p, c) ==
  /\ PROCS < MAX_PROCS
  /\ \E fresh \in FreshMemory(PROCS, procTabSize) :
       procTable' = [WithRoom(procTable, procTabSize, PROCS, fresh)
                       EXCEPT ![PROCS] = Child(procTable[p], c, PROCS)]
  /\ procTabSize' = SizeWithRoom(procTabSize, PROCS)
  /\ PROCS' = PROCS + 1

\* exec: whoever calls it, the last entry is the one that is started afresh.
procExec(a) ==
  /\ PROCS < MAX_PROCS
  /\ procTable' = [procTable EXCEPT ![PROCS - 1] = Restarted(@, a)]
  /\ UNCHANGED <<procTabSize, PROCS>>

\* exit and kill, which let the console's slot alone.
procDelete(pid) ==
  LET pos == procTableContains(procTable, pid)
  IN  /\ pos > 0
      /\ procTable' = Deleted(procTable, procTabSize, PROCS, pos)
      /\ procTabSize' = SizeAfterDelete(procTabSize, PROCS)
      /\ PROCS' = PROCS - 1

\* What dispatch, schedule and the system calls write into a slot in place.
Write(i, status, priority, c) ==
  /\ procTable' = [procTable EXCEPT ![i].status   = status,
                                    ![i].priority = priority,
                                    ![i].ctx      = c]
  /\ UNCHANGED <<procTabSize, PROCS>>

-----------------------------------------------------------------------------
(* Properties *)

Live == 0..(PROCS - 1)

(***************************************************************************)
(* The array has as many slots as procTabSize says, whatever realloc did.  *)
(***************************************************************************)
PTTypeOK ==
  /\ procTabSize \in Nat \ {0}
  /\ PROCS \in 1..MAX_PROCS
  /\ procTable \in [0..(procTabSize - 1) -> PCB]

(***************************************************************************)
(* There is a slot for every process, and the halving in procDelete keeps  *)
(* up with the doubling in procCopy: less than twice the slots in use.     *)
(***************************************************************************)
Capacity == PROCS <= procTabSize /\ procTabSize < 2 * PROCS

(***************************************************************************)
(* procDelete's defrag leaves no hole and no stranger among the first      *)
(* PROCS slots, and no process behind them: PROCS is what the comment on   *)
(* it says, the number of processes in the table.                          *)
(***************************************************************************)
ProcsCounts == {i \in 0..(procTabSize - 1) : procTable[i].pid \in Pid} = Live

(***************************************************************************)
(* Slot 0 is and stays the console's, which procDefrag's comment calls     *)
(* reserved and which exit and kill rely on when they test for > 0.        *)
(***************************************************************************)
ConsoleFirst ==
  \A i \in Live : procTable[i].pid = CONSOLE_PID <=> i = 0

(***************************************************************************)
(* Processes only ever move towards the front: a slot never holds a pid    *)
(* smaller than its own number.  That is why a pid, the slot when it was   *)
(* forked, is below MAX_PROCS for ever, and the number of its stack is the *)
(* pid.  How many stacks there is memory for is another matter: image.ld   *)
(* reserves 16.                                                            *)
(***************************************************************************)
SlotBelowPid ==
  \A i \in Live : /\ i > 0 => i <= procTable[i].pid /\ procTable[i].pid < MAX_PROCS
                  /\ procTable[i].tos = IF i = 0 THEN 0 ELSE procTable[i].pid

(***************************************************************************)
(* schedule() has a branch that restarts entries in STATUS_INVALID.  No    *)
(* entry in use ever is: nothing but the three live states gets there.     *)
(***************************************************************************)
NoInvalidEntry == \A i \in Live : procTable[i].status \in LiveStatus

\* Slot i of this state holds the same process as slot j of the next one.
SameProcess(i, j) ==
  procTable'[j].pid = procTable[i].pid /\ procTable'[j].tos = procTable[i].tos

(***************************************************************************)
(* A call removes at most one process and keeps all others, in their       *)
(* order: those behind it move up one slot.                                *)
(***************************************************************************)
Survive ==
  \E d \in 0..PROCS :
    /\ d = PROCS \/ PROCS' = PROCS - 1
    /\ \A i \in 0..(d - 1) : SameProcess(i, i)
    /\ \A i \in (d + 1)..(PROCS - 1) : SameProcess(i, i - 1)

EntriesSurvive == [][Survive]_ptVars

(***************************************************************************)
(* What the comment in procInit says of pids (processTable.c:107): 1 for   *)
(* the first process and incremented for every subsequent one, so no two   *)
(* processes in the table have the same.                                   *)
(***************************************************************************)
UniquePids ==
  \A i, j \in Live : procTable[i].pid = procTable[j].pid => i = j
=============================================================================
