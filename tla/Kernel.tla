------------------------------- MODULE Kernel -------------------------------
(***************************************************************************)
(* The kernel with its processes: the system calls of the console and of   *)
(* the user programs (kernel/hilevel/hilevel.c), the timer interrupt, and  *)
(* the scheduler (kernel/scheduling/scheduler.c) over the process table    *)
(* and the queues.                                                         *)
(*                                                                         *)
(* Interrupts are masked in a handler, so nothing interleaves with one.    *)
(* What interleaves is user code and the timer.  schedule() is cut into    *)
(* one step per iteration of its first loop and one for the choice that    *)
(* follows, so that its intermediate states can be spoken of; pc says      *)
(* where it is.                                                            *)
(***************************************************************************)
EXTENDS ProcessTable, MultiLevelQueue, ProcessHistory

CONSTANTS
  Command,   \* what may be typed at the console
  TypedPid   \* the process ids that may be typed with it

Commands == {"execute", "kill", "kill-store", "priority", "pause", "unpause"}

ASSUME CommandAssumption == Command \subseteq Commands /\ TypedPid \subseteq Int

VARIABLES
  PROCS_ACTIVE,
  currentProc,  \* the slot the pointer points to, in the table or behind it
  cpu,          \* the registers of the code that runs, or will after this handler
  pc,           \* "user" code runs; schedule() "age"s or "pick"s; "fault"
  slot,         \* schedule()'s i
  reply         \* kill still has to write its result into gpr[0]

kernelVars == <<PROCS_ACTIVE, currentProc, cpu, pc, slot, reply>>
vars == <<procTable, procTabSize, PROCS, multiLevelQueue, kernelVars, historyVars>>

-----------------------------------------------------------------------------
(* Priorities.  A level's "t" is 2^(level - 1).                            *)

\* pow(2, n): what its repeated squaring comes to.
PowerOfTwo[n \in Nat] == IF n = 0 THEN 1 ELSE 2 * PowerOfTwo[n - 1]

Threshold(l) == PowerOfTwo[l - 1]

Top == Threshold(MAX_QUEUE_LEVELS)

\* Bound: priorities count ticks, and all above Top + 1 act alike.
MaxPriority == Top + 2

\* Mutant of Raised: two at a time.
RaisedTwice(priority) == IF priority < MaxPriority THEN priority + 2 ELSE priority

Raised(priority) == IF priority < MaxPriority THEN priority + 1 ELSE priority

\* Bound: PROCS_ACTIVE, which no decision of the kernel reads, sticks at -1,
\* where it is wrong for good.
Decremented(active) == IF active > -1 THEN active - 1 ELSE active

-----------------------------------------------------------------------------
(* Reads and writes through currentProc.  Behind the table it points into  *)
(* memory given back by realloc, of which nothing is read again.           *)

CurrentPid ==
  IF currentProc \in DOMAIN procTable THEN procTable[currentProc].pid ELSE 0

\* Mutant of Saved: the context is not preserved.
SavedStatusOnly(t, prev, c) ==
  IF prev \in DOMAIN t THEN [t EXCEPT ![prev].status = "READY"] ELSE t

\* dispatch saves c in the slot prev.
Saved(t, prev, c) ==
  IF prev \in DOMAIN t
  THEN [t EXCEPT ![prev].ctx = c, ![prev].status = "READY"]
  ELSE t

\* Mutant of Resume: the status is not set.
ResumeWithoutStatus(t, m, n, next) ==
  /\ procTable' = t
  /\ multiLevelQueue' \in addToMLFQ(m, t[next].pid, n)
  /\ currentProc' = next
  /\ cpu' = IF reply THEN [t[next].ctx EXCEPT !.r0 = 0] ELSE t[next].ctx

\* Mutant of Resume: currentProc is not updated.
ResumeWithoutCurrent(t, m, n, next) ==
  /\ procTable' = [t EXCEPT ![next].status = "EXECUTING"]
  /\ multiLevelQueue' \in addToMLFQ(m, t[next].pid, n)
  /\ cpu' = IF reply THEN [t[next].ctx EXCEPT !.r0 = 0] ELSE t[next].ctx
  /\ UNCHANGED currentProc

\* dispatch: the process in slot next of t is the one that runs from now on,
\* with the queues m as they are before the call and n processes.
Resume(t, m, n, next) ==
  /\ procTable' = [t EXCEPT ![next].status = "EXECUTING"]
  /\ multiLevelQueue' \in addToMLFQ(m, t[next].pid, n)
  /\ currentProc' = next
  /\ cpu' = IF reply THEN [t[next].ctx EXCEPT !.r0 = 0] ELSE t[next].ctx

\* schedule() begins, unless it has nothing to do with n processes.
CallSchedule(n) ==
  /\ pc' = IF n > 1 THEN "age" ELSE "user"
  /\ slot' = 0

-----------------------------------------------------------------------------
(* Reset *)

Boot ==
  \* the console is dispatched as soon as it is in the table
  /\ procTable = [i \in {0} |-> [ConsoleEntry EXCEPT !.status = "EXECUTING"]]
  /\ procTabSize = 1
  /\ PROCS = 1
  /\ multiLevelQueue \in addToMLFQ(invokeQueueMLFQ, CONSOLE_PID, 1)
  /\ PROCS_ACTIVE = 1
  /\ currentProc = 0
  /\ cpu = ConsoleEntry.ctx
  /\ pc = "user"
  /\ slot = 0
  /\ reply = FALSE
  /\ HistoryInit

-----------------------------------------------------------------------------
(* System calls *)

\* A console is running and reads a command: it has not forked, or it is the
\* parent of the fork.
AtPrompt ==
  /\ pc = "user"
  /\ cpu.pc = "prompt" \/ (cpu.pc = "forked" /\ cpu.r0 # 0)

\* The handler of fork for a process with the registers c; they still hold
\* their old gpr[0], because dispatch saves them over the child's pid.
ForkWith(c) ==
  LET parent == Saved(procTable, currentProc, c)
      child  == Child(parent[currentProc], c, PROCS)
  IN  /\ PROCS < MAX_PROCS
      /\ currentProc \in DOMAIN procTable
      /\ \E fresh \in FreshMemory(PROCS, procTabSize) :
           LET copied == [WithRoom(parent, procTabSize, PROCS, fresh)
                            EXCEPT ![PROCS] = child]
           IN  Resume(Saved(copied, currentProc, c), multiLevelQueue, PROCS + 1,
                      procTableContains(copied, child.pid))
      /\ procTabSize' = SizeWithRoom(procTabSize, PROCS)
      /\ PROCS' = PROCS + 1
      /\ PROCS_ACTIVE' = PROCS_ACTIVE + 1
      /\ UNCHANGED <<pc, slot, reply, historyVars>>

\* The console's fork(), in "execute <program>": gpr[0] is the program's address.
Fork ==
  /\ AtPrompt
  /\ "execute" \in Command
  /\ ForkWith([cpu EXCEPT !.pc = "forked", !.r0 = 1])

\* A philosopher's fork(): how far main_diningPhil is in its loop is left open.
ForkPhilosopher ==
  /\ pc = "user"
  /\ cpu.pc = "diningPhil"
  /\ ForkWith(cpu)

\* Its sem_wait(): from then on it spins until a value changes, which none does
\* (see Philosophers).
SemWait ==
  /\ pc = "user"
  /\ cpu.pc = "diningPhil"
  /\ procTable' = [procTable EXCEPT ![procTableContains(procTable, CurrentPid)].status = "WAITING"]
  /\ cpu' = [cpu EXCEPT !.pc = "spinning", !.r0 = 0]
  /\ UNCHANGED <<procTabSize, PROCS, multiLevelQueue,
                 PROCS_ACTIVE, currentProc, pc, slot, reply, historyVars>>

\* The same from a console that killed itself: it goes on when schedule()
\* finds nobody else, and its entry is in memory that procDelete gave back.
ForkOfFreedEntry ==
  /\ AtPrompt
  /\ "execute" \in Command
  /\ PROCS < MAX_PROCS
  /\ currentProc \notin DOMAIN procTable
  /\ pc' = "fault"
  /\ UNCHANGED <<procTable, procTabSize, PROCS, multiLevelQueue,
                 PROCS_ACTIVE, currentProc, cpu, slot, reply, historyVars>>

\* The child of the fork is running.
IsChild ==
  /\ pc = "user"
  /\ cpu.pc = "forked"
  /\ cpu.r0 = 0

\* Its exec(a): the last entry of the table is started afresh and dispatched,
\* or whoever is in front of it with the same pid; the caller is not saved.
Exec(a) ==
  LET restarted == [procTable EXCEPT ![PROCS - 1] = Restarted(@, a)]
      next      == procTableContains(restarted, restarted[PROCS - 1].pid)
  IN  /\ IsChild
      /\ PROCS < MAX_PROCS
      /\ Resume(restarted, multiLevelQueue, PROCS, next)
      /\ UNCHANGED <<procTabSize, PROCS, PROCS_ACTIVE, pc, slot, reply, historyVars>>

\* exec() at MAX_PROCS returns, and the child goes on as a second console.
ExecRefused ==
  /\ IsChild
  /\ PROCS >= MAX_PROCS
  /\ cpu' = [cpu EXCEPT !.pc = "prompt"]
  /\ UNCHANGED <<procTable, procTabSize, PROCS, multiLevelQueue,
                 PROCS_ACTIVE, currentProc, pc, slot, reply, historyVars>>

\* What exit and kill have in common: the process with this pid leaves the
\* queues and the table, then schedule() runs.
Terminate(pid) ==
  LET pos == procTableContains(procTable, pid)
  IN  /\ pos > 0
      /\ multiLevelQueue' = removeFromMLFQ(multiLevelQueue, pid)
      /\ procTable' = Deleted(procTable, procTabSize, PROCS, pos)
      /\ procTabSize' = SizeAfterDelete(procTabSize, PROCS)
      /\ PROCS' = PROCS - 1
      /\ PROCS_ACTIVE' = Decremented(PROCS_ACTIVE)
      /\ CallSchedule(PROCS - 1)
      /\ UNCHANGED currentProc

\* P5 comes to its end; P3 and P4 never do.  exit() finds its entry behind the
\* console's: see ProgramsHaveEntries.
Exit ==
  /\ pc = "user"
  /\ cpu.pc = "P5"
  /\ Terminate(CurrentPid)
  /\ cpu' = [cpu EXCEPT !.pc = "exited"]
  /\ UNCHANGED <<reply, historyVars>>

\* The result of a kill: written when schedule() is done, if it has to run.
Killed(pid) ==
  /\ AtPrompt
  /\ Terminate(pid)
  /\ cpu' = [cpu EXCEPT !.pc = "prompt", !.r0 = 0]
  /\ reply' = (PROCS - 1 > 1)

\* "kill <pid>" of a pid that is in the table behind the console.
Kill(pid) ==
  /\ "kill" \in Command
  /\ Killed(pid)
  /\ UNCHANGED historyVars

\* "kill-store <pid>": the same, and an entry in the history table.
KillStore(pid) ==
  /\ "kill-store" \in Command
  /\ ~HistoryOverflows
  /\ Killed(pid)
  /\ procHistoryInit

\* It writes behind a history table that is full.
KillStoreOverflow(pid) ==
  /\ AtPrompt
  /\ "kill-store" \in Command
  /\ procTableContains(procTable, pid) > 0
  /\ HistoryOverflows
  /\ procHistoryInit
  /\ pc' = "fault"
  /\ UNCHANGED <<procTable, procTabSize, PROCS, multiLevelQueue,
                 PROCS_ACTIVE, currentProc, cpu, slot, reply>>

\* "priority <pid>": the only priority the console asks for is 1.
Nice(pid) ==
  LET pos == procTableContains(procTable, pid)
  IN  /\ AtPrompt
      /\ "priority" \in Command
      /\ pos > -1
      /\ procTable' = [procTable EXCEPT ![pos].priority = 1]
      /\ cpu' = [cpu EXCEPT !.pc = "prompt"]
      /\ CallSchedule(PROCS)
      /\ UNCHANGED <<procTabSize, PROCS, multiLevelQueue, PROCS_ACTIVE, currentProc, reply, historyVars>>

\* "pause <pid>" does not call schedule().
Pause(pid) ==
  LET pos == procTableContains(procTable, pid)
  IN  /\ AtPrompt
      /\ "pause" \in Command
      /\ pos > 0
      /\ procTable[pos].status # "WAITING"
      /\ procTable' = [procTable EXCEPT ![pos].priority = 0, ![pos].status = "WAITING"]
      /\ multiLevelQueue' = removeFromMLFQ(multiLevelQueue, pid)
      /\ PROCS_ACTIVE' = Decremented(PROCS_ACTIVE)
      /\ cpu' = [cpu EXCEPT !.pc = "prompt"]
      /\ UNCHANGED <<procTabSize, PROCS, currentProc, pc, slot, reply, historyVars>>

Unpause(pid) ==
  LET pos == procTableContains(procTable, pid)
  IN  /\ AtPrompt
      /\ "unpause" \in Command
      /\ pos > 0
      /\ procTable[pos].status = "WAITING"
      /\ procTable' = [procTable EXCEPT ![pos].priority = 1, ![pos].status = "READY"]
      /\ PROCS_ACTIVE' = PROCS_ACTIVE + 1
      /\ cpu' = [cpu EXCEPT !.pc = "prompt"]
      /\ CallSchedule(PROCS)
      /\ UNCHANGED <<procTabSize, PROCS, multiLevelQueue, currentProc, reply, historyVars>>

\* The timer interrupts user code.
Tick ==
  /\ pc = "user"
  /\ PROCS > 1
  /\ CallSchedule(PROCS)
  /\ UNCHANGED <<procTable, procTabSize, PROCS, multiLevelQueue,
                 PROCS_ACTIVE, currentProc, cpu, reply, historyVars>>

-----------------------------------------------------------------------------
(* schedule() *)

RoundRobin == multiLevelQueue.queues[0]

\* The priority that slot i gets in this round.
Aged(i) ==
  IF RoundRobin.length # PROCS
  THEN Raised(procTable[i].priority)
  ELSE procTable[i].priority

\* Mutant of NextSlot: the loop runs to i <= PROCS.
NextSlotTooFar(m) ==
  /\ procTable' = [procTable EXCEPT ![slot].priority = Aged(slot)]
  /\ multiLevelQueue' = m
  /\ slot' = IF slot + 1 <= PROCS THEN slot + 1 ELSE 0
  /\ pc' = IF slot + 1 <= PROCS THEN "age" ELSE "pick"
  /\ UNCHANGED <<procTabSize, PROCS, PROCS_ACTIVE, currentProc, cpu, reply, historyVars>>

\* The iteration for slot i leaves the queues as m and goes on.
NextSlot(m) ==
  /\ procTable' = [procTable EXCEPT ![slot].priority = Aged(slot)]
  /\ multiLevelQueue' = m
  /\ slot' = IF slot + 1 < PROCS THEN slot + 1 ELSE 0
  /\ pc' = IF slot + 1 < PROCS THEN "age" ELSE "pick"
  /\ UNCHANGED <<procTabSize, PROCS, PROCS_ACTIVE, currentProc, cpu, reply, historyVars>>

\* The priority is between the thresholds: the process keeps its place.
KeepQueue ==
  /\ pc = "age"
  /\ Aged(slot) # Top + 1
  /\ \A l \in 1..MAX_QUEUE_LEVELS : Aged(slot) # Threshold(l)
  /\ NextSlot(IF Aged(slot) = 0
              THEN removeFromMLFQ(multiLevelQueue, procTable[slot].pid)
              ELSE multiLevelQueue)

\* Mutant of Target: the process stays in its old queue.
TargetStayingBehind(l) ==
  IF l = multiLevelQueue.levels + 1
  THEN invokeQueueFCFS(multiLevelQueue)
  ELSE multiLevelQueue

\* The priority reaches that of level l.  The new level is made before the
\* process is taken from its old one, which may be deleted by that.
Target(l) ==
  removeFromMLFQ(IF l = multiLevelQueue.levels + 1
                 THEN invokeQueueFCFS(multiLevelQueue)
                 ELSE multiLevelQueue,
                 procTable[slot].pid)

ChangeQueue ==
  /\ pc = "age"
  /\ \E l \in 1..MAX_QUEUE_LEVELS :
       /\ Aged(slot) = Threshold(l)
       /\ l <= Target(l).levels
       /\ \E m \in addToQueue(Target(l), procTable[slot].pid, l) : NextSlot(m)

\* addToQueue of a level that is not there: it writes behind the array
\* queuesFCFS, and what happens from then on nobody can say.
MissingLevel ==
  /\ pc = "age"
  /\ \E l \in 1..MAX_QUEUE_LEVELS : Aged(slot) = Threshold(l) /\ l > Target(l).levels
  /\ pc' = "fault"
  /\ UNCHANGED <<procTable, procTabSize, PROCS, multiLevelQueue,
                 PROCS_ACTIVE, currentProc, cpu, slot, reply, historyVars>>

FallToRoundRobin ==
  /\ pc = "age"
  /\ Aged(slot) = Top + 1
  /\ LET pid == procTable[slot].pid
     IN  \E m \in addToQueue(removeFromMLFQ(multiLevelQueue, pid), pid, 0) : NextSlot(m)

\* The table's entry for a queued pid.
EntryOf(pid) == procTable[procTableContains(procTable, pid)]

Runnable(pid) == EntryOf(pid).status # "WAITING" /\ EntryOf(pid).priority # 0

\* The places in FCFS queues that schedule() would choose, if it looks there.
Candidates ==
  {p \in UNION {{[level |-> l, index |-> i] : i \in 0..(multiLevelQueue.queues[l].length - 1)} :
                l \in 1..multiLevelQueue.levels} :
     LET pid == multiLevelQueue.queues[p.level].processes[p.index]
     IN  pid # CurrentPid /\ pid # 0 /\ Runnable(pid)}

LooksAtFCFS == RoundRobin.length < PROCS

\* Mutant of CurrentTurn: the last one's turn never ends.
CurrentTurnButLast ==
  {z \in 0..(RoundRobin.length - 2) :
     /\ RoundRobin.processes[z] = CurrentPid
     /\ CurrentPid # 0
     /\ Runnable(CurrentPid)}

\* The place of the running process in the round robin queue, if it is there
\* and may run.
CurrentTurn ==
  {z \in 0..((IF LooksAtFCFS THEN RoundRobin.length ELSE RoundRobin.size) - 1) :
     /\ RoundRobin.processes[z] = CurrentPid
     /\ CurrentPid # 0
     /\ Runnable(CurrentPid)}

SwitchTo(pid) ==
  /\ Resume(Saved(procTable, currentProc, cpu), multiLevelQueue, PROCS,
            procTableContains(procTable, pid))
  /\ pc' = "user"
  /\ reply' = FALSE
  /\ UNCHANGED <<procTabSize, PROCS, PROCS_ACTIVE, slot, historyVars>>

\* The first candidate of the first level that has one.
PickFCFS ==
  /\ pc = "pick"
  /\ LooksAtFCFS
  /\ Candidates # {}
  /\ LET l == LeastOf({p.level : p \in Candidates})
         i == LeastOf({p.index : p \in {c \in Candidates : c.level = l}})
     IN  SwitchTo(multiLevelQueue.queues[l].processes[i])

\* The one behind the running process in the round robin queue.
PickRoundRobin ==
  /\ pc = "pick"
  /\ LooksAtFCFS => Candidates = {}
  /\ CurrentTurn # {}
  /\ LET z == LeastOf(CurrentTurn)
     IN  SwitchTo(RoundRobin.processes[IF z # RoundRobin.length - 1 THEN z + 1 ELSE 0])

\* Nobody is chosen and the running code goes on.
PickNone ==
  /\ pc = "pick"
  /\ LooksAtFCFS => Candidates = {}
  /\ CurrentTurn = {}
  /\ pc' = "user"
  /\ cpu' = IF reply THEN [cpu EXCEPT !.r0 = 0] ELSE cpu
  /\ reply' = FALSE
  /\ UNCHANGED <<procTable, procTabSize, PROCS, multiLevelQueue,
                 PROCS_ACTIVE, currentProc, slot, historyVars>>

-----------------------------------------------------------------------------

Schedule ==
  \/ KeepQueue
  \/ ChangeQueue
  \/ MissingLevel
  \/ FallToRoundRobin
  \/ PickFCFS
  \/ PickRoundRobin
  \/ PickNone

SystemCall ==
  \/ Fork
  \/ ForkOfFreedEntry
  \/ ForkPhilosopher
  \/ SemWait
  \/ \E a \in Program : Exec(a)
  \/ ExecRefused
  \/ Exit
  \/ \E pid \in TypedPid : Kill(pid) \/ KillStore(pid) \/ KillStoreOverflow(pid)
  \/ \E pid \in TypedPid : Nice(pid) \/ Pause(pid) \/ Unpause(pid)

Next == SystemCall \/ Tick \/ Schedule

Spec == Boot /\ [][Next]_vars

\* The timer keeps interrupting, and a handler runs to its end.
FairSpec == Spec /\ WF_vars(Tick) /\ WF_vars(Schedule)

-----------------------------------------------------------------------------
(* Properties *)

(***************************************************************************)
(* The table, the queues and the scheduler's own variables stay in range,  *)
(* its loop index within the processes there are.                          *)
(***************************************************************************)
KTypeOK ==
  /\ PTTypeOK
  /\ MLFQTypeOK
  /\ PROCS_ACTIVE \in Int /\ PROCS_ACTIVE >= -1
  /\ currentProc \in Stack
  /\ cpu \in Context
  /\ pc \in {"user", "age", "pick", "fault"}
  /\ slot \in Live
  /\ reply \in BOOLEAN

(***************************************************************************)
(* Every pid in a queue is in the table.  schedule() indexes the table     *)
(* with what procTableContains returns for a queued pid and never tests it *)
(* for -1.                                                                 *)
(***************************************************************************)
QueuedAreLive ==
  \A pid \in Pid :
    inMLFQ(multiLevelQueue, pid).level >= 0 => procTableContains(procTable, pid) >= 0

\* The level at which schedule() wants a process of this priority > 0.
LevelOf(priority) ==
  IF priority > Top
  THEN 0
  ELSE LeastOf({l \in 1..MAX_QUEUE_LEVELS : priority < Threshold(l + 1)})

(***************************************************************************)
(* When the first loop of schedule() is done, every process that is not    *)
(* switched off (priority 0) is queued, at the level of its priority: the  *)
(* many resets and increments never strand one.                            *)
(***************************************************************************)
QueuedAtItsLevel ==
  pc = "pick" =>
    \A i \in Live :
      procTable[i].priority > 0
        => inMLFQ(multiLevelQueue, procTable[i].pid).level = LevelOf(procTable[i].priority)

(***************************************************************************)
(* While user code runs, currentProc points to an entry in use, and that   *)
(* entry knows it is being executed.                                       *)
(***************************************************************************)
CurrentExecutes ==
  pc = "user" => currentProc \in Live /\ procTable[currentProc].status = "EXECUTING"

(***************************************************************************)
(* A user program always runs in an entry that is in the table behind the  *)
(* console's, where exit() finds it.  kill and exit may leave currentProc  *)
(* on somebody else's slot or behind the table, but only while the console *)
(* or a process that has exited is running.                                *)
(***************************************************************************)
ProgramsHaveEntries ==
  pc = "user" /\ cpu.pc \in Program => procTableContains(procTable, CurrentPid) > 0

(***************************************************************************)
(* An interrupted program's registers are saved in the entry they were     *)
(* dispatched from: after any exits and kills, which move entries under    *)
(* currentProc, it is still on that entry, told by its stack, when a       *)
(* program runs.  What schedule() does save over a neighbour's registers   *)
(* after a deletion is a console, or a process that has exited.            *)
(***************************************************************************)
SavedInItsOwnEntry ==
  cpu.pc \in Program \cup {"spinning"}
    => currentProc \in Live \ {0} /\ procTable[currentProc].ctx.sp = cpu.sp

(***************************************************************************)
(* dispatch preserves the context of the process it switches from, and     *)
(* nobody else's registers change while it is suspended, unless by an exec *)
(* (as long as no process ends).                                           *)
(***************************************************************************)
PreservesContexts ==
  [][/\ pc = "pick" /\ currentProc' # currentProc => procTable'[currentProc].ctx = cpu
     /\ \A i \in Live \ {currentProc} :
          procTable'[i].ctx # procTable[i].ctx => \E a \in Program : Exec(a)]_vars

(***************************************************************************)
(* Whatever the kernel does, the queues remain FIFO queues: a step moves   *)
(* one process at most, and nobody else changes place.                     *)
(***************************************************************************)
QueuesStayFIFO == [][FQ!Next]_allContents

(***************************************************************************)
(* A step removes one process from the table at most, and keeps the others *)
(* in their order: EntriesSurvive, of the whole kernel.                    *)
(***************************************************************************)
ProcessesSurvive == [][Survive]_vars

\* The process in slot i, when there is one, is running again and again.
Served(i) == []<>(i \in Live => pc = "user" /\ currentProc = i)

(***************************************************************************)
(* Once no process calls exec and nobody types priorities any more, every  *)
(* process is served again and again: it gets to the round robin queue,    *)
(* whatever has raised it before, and that goes around.                    *)
(***************************************************************************)
NoStarvation ==
  /\ [](pc # "fault")
  /\ <>[][~(\E a \in Program : Exec(a)) /\ ~(\E pid \in TypedPid : Nice(pid))]_vars
  => \A i \in Stack : Served(i)

-----------------------------------------------------------------------------
(* What a comment promises and the code does not keep *)

(***************************************************************************)
(* "more are added if needed up to MAX_QUEUE_LEVELS" (scheduler.c:358): a  *)
(* process never moves to a level that is not there.                       *)
(***************************************************************************)
LevelsAreAdded == pc # "fault"
=============================================================================
