# A verification of conccomp-kernel

The program is a small preemptive kernel for an emulated ARM board
(`kernel/`), its console and user programs (`user/`), and the drivers of the
board (`device/`). This directory holds TLA+ modules of its core, the TLC
configurations that check them on small instances, and TLAPS proofs of what they
check for all values of the constants. Each part is modelled by itself; `Kernel`
and `Ipc` put those together that meet.

## 1. The system

| component | code | state | operations |
|---|---|---|---|
| process table | `processTables/processTable.c` | `procTable` (heap array), `procTabSize`, `PROCS`, `PROCS_ACTIVE`, `currentProc` | `procInit`, `procCopy` (fork), `procExec`, `procDelete`, `procDefrag`, `procTableContains` |
| multi level queue | `scheduling/scheduler.c` | `multiLevelQueue`: a round robin queue and FCFS levels, each a heap array with length and size | `invokeQueue*`, `addToQueue`, `addToMLFQ`, `removeFromMLFQ`, `inMLFQ`, `queueDefrag`, `deleteMLFQ` |
| scheduler, dispatcher | `scheduling/scheduler.c` | none of its own | `schedule` (age, move, pick), `dispatch` |
| handlers | `hilevel/hilevel.c` | the interrupted registers `ctx` | reset, timer interrupt, system calls |
| history table | `processTables/processTableHistory.c` | entries of processes killed with a failure status | add, delete |
| semaphore table | `ipc/semTable.c` | (semaphore, waiter, owner) entries, the values in the heap | add, notify, remove, by the calls init, destroy, post, wait |
| shared memory table | `ipc/shmTable.c` | (address, owner, size) entries, heap blocks | init, destroy, write, remove by owner |
| console | `user/console.c` | the command line | execute, kill, pause, continue, priority, ... |
| user programs | `user/P3.c`, `P4.c`, `P5.c`, `diningPhil.c` | | P5 ends, P3 and P4 do not; the philosophers use semaphores |
| library | `user/libc.c` | | one `svc` per call; `sem_wait` also spins |
| low level | `lolevel.s`, `int.s`, `image.ld` | stacks, vectors | save and restore registers, mask interrupts |
| disk | `device/disk.c`, `device/disk.py` | blocks in a file, a serial line, the attempt the driver is at | write, read, number and length of blocks, tried `DISK_RETRY` times |
| other drivers | `device/` | device registers | polling I/O |

**How they interact.** User code enters the kernel by `svc` or by the timer
interrupt. A handler runs to its end with interrupts masked. It changes the
table and the queues, and mostly ends in `schedule()`, which ages every
process, moves those whose priority reached a threshold to another queue,
chooses one and `dispatch`es it: the registers saved on the kernel's stack are
copied to the old entry and replaced by those of the new one. `currentProc` is a
pointer into the table; the queues hold pids, which are looked up in the table.
exit and kill clear a process from the queues, the table, the semaphores and the
segments, in one handler; both tables of inter process communication take their
blocks from one heap. The disk is a server on another machine, which the driver
talks to over a serial line; nothing in the repository calls the driver.

**What is hard.** There is one processor and no nesting, so a handler never
interleaves with another; user code does with the timer, between any two system
calls. The difficulty is in *sequences* of calls: entries move when one is
deleted, while `currentProc` and pids that were handed out do not follow; loops
walk over arrays that their own bodies defragment and halve; arrays
double and halve by rules written out in four places; memory from `realloc` is
searched before it is written; a process changes queue only when its priority is
*equal* to a threshold, so every increment, reset and removal has to line up;
`sem_wait` spins in user code for a change that somebody else has to make. The
disk's driver and server count characters, without looking for the end of an
answer, and a refused request is sent again.
PROJECT.json lists these hazards at their lines, and the property that would catch
each.

**What makes each part correct.**
- Table: live entries in front, in order, console first; array never too small,
  never more than twice too large; pids unique (they are not, see
  `violates_UniquePids`).
- Queues: each a FIFO, a process in one at most, the one its priority asks for.
- Scheduler: switches registers without mixing those of programs, serves everybody.
- Handlers: remove a process from everything or from nothing.
- Shared memory: table and heap agree, only the owner's pid frees, nothing left
  behind.
- Semaphores: a post wakes a waiter; writes stay inside the array; whoever leaves
  is taken out of the table.
- History: stays within its array.
- Disk: a success has stored all of the block, a read returns the block asked
  for, a failure follows `DISK_RETRY` refusals only, and every call returns.

## 2. Modules

| module | models | notes |
|---|---|---|
| `KernelConfig` | `hilevel.h`, shared constants | what can be told apart in registers and entries |
| `Defrag` | the result of the defrag functions | `Compact`; `LeastOf`, the first slot found |
| `DefragLoop` | their two nested loops | checked against `Compact` |
| `ProcessTable` | `processTable.c` | operators on the array's value, and the calls |
| `ProcessTableCalls`, `MCProcessTable` | the calls in any order, alone | |
| `FeedbackQueues` | | abstract specification: FIFO queues by level |
| `MultiLevelQueue` | the queues of `scheduler.c` | implements `FeedbackQueues` |
| `ProcessHistory` | `processTableHistory.c` | size and count |
| `Kernel` | `hilevel.c`, `schedule`, `dispatch`, the console's commands, what P5 and the philosophers call | composes `ProcessTable`, `MultiLevelQueue` and `ProcessHistory` |
| `IpcProcesses` | `procCopy`'s pids | the processes, which may share a pid, and the heap that the next two modules use |
| `SharedMemory`, `MCSharedMemory` | `shmTable.c`, its system calls | |
| `Semaphores` | `semTable.c`, its system calls, libc's `sem_post` and `sem_wait` | |
| `Ipc`, `MCIpc` | exit and kill over both tables | composes `SharedMemory` and `Semaphores` |
| `Philosophers`, `MCPhilosophers` | `diningPhil.c` | on `Semaphores` |
| `BlockDevice` | `disk.h` | abstract specification: a store of blocks, and calls |
| `DiskProtocol`, `MCDiskProtocol` | `disk.c`, `disk.py`, the line | implements `BlockDevice` |

| proofs | about | rest on |
|---|---|---|
| `ArrayLemmas` | arrays that are compacted and walked over, powers | |
| `DefragProofs` | `DefragLoop` | `ArrayLemmas` |
| `ProcessTableLemmas` | the operators of `ProcessTable` | `ArrayLemmas` |
| `ProcessTableProofs` | `ProcessTableCalls` | `ProcessTableLemmas` |
| `MultiLevelQueueProofs` | `MultiLevelQueue` and its abstract specification | `ArrayLemmas` |
| `KernelProofs` | `Kernel`, scheduling and dispatching included | `ProcessTableLemmas`, `MultiLevelQueueProofs` |
| `IpcProofs` | `Ipc`: segments and semaphores; `Philosophers` | `ArrayLemmas` |
| `DiskProofs` | `DiskProtocol` and its abstract specification | `ArrayLemmas` |

**State and code.** `procTable`, `procTabSize`, `PROCS`, `PROCS_ACTIVE`,
`multiLevelQueue`, `shmTable`, `shmTabSize`, `shmTabEntries` are the globals of
the same names; the two queue fields are one function from levels, 0 for the
round robin queue, `l` for `queuesFCFS[l - 1]`. `currentProc` is the index of
the entry pointed to. `cpu` is what will run, or is running: the `ctx` on the
kernel's stack. `reply` is kill's result, which it stores in `ctx` when `schedule()`
has returned. A handler is one action; only `schedule()` is several, one per
turn of its first loop and one for its choice, marked by `pc`, so that the
states between them can be spoken of. Nothing else is enabled while `pc` is not
`"user"`, which is the masking of interrupts.

**Abstractions.**
- A register set is the code the pc is in, the stack the sp is in, and whether
  r0 is zero. Stacks are numbers, 0 for the console's, counted downwards. That
  the numbers stay below `MAX_PROCS` (32) is `SlotBelowPid`; `image.ld` reserves
  memory for 16 stacks only, which is not in the models.
- Memory that `realloc` adds to the process table and the queues holds arbitrary
  words of `Junk`; only the word by which a slot is searched (the pid) matters.
  `CleanHeap` says that junk never reads as a pid. It is an assumption: `realloc`
  promises nothing, and the queues' own arrays are among what it may give back.
  The runs choose `Junk` so. At reset the heap is untouched, that is, zero.
  `malloc` and `calloc` do not fail.
- In the tables of `Ipc`, `Recycled` and `RecycledEntry` are whole entries that new
  slots may read as: old addresses with old sizes, and entries that the table's
  own halving has cut off there.
- A dead slot's other fields are never read and are kept zero.
- A write behind the array `queuesFCFS`, or through `currentProc` behind the
  table in fork, leads to `pc = "fault"`, where the model ends; that is why runs
  of `Kernel` do not check deadlock.
- When `currentProc` points behind the table, reading its pid gives 0 and saving
  to it is lost: `procDelete` has cleared the memory it gave back and nothing is
  read from there again. The same for fork when `realloc` moves the table: the
  entry written through the old pointer was already copied.
- `PROCS_ACTIVE` sticks at -1; priorities stick at `Top + 2`, above which all act
  alike. In exit and kill the count is decremented before `schedule()` runs, in
  the code after it; nothing in between reads it.
- A refused kill, nice, pause or unpause only prints, and fork's refusal changes
  r0 in code that does not read it; they are not actions. exec's refusal is one.
- `diningPhil` in `Kernel` may fork and wait at any time: where it is in its loop
  is left to `Philosophers`. A process that waits spins (`cpu.pc = "spinning"`),
  still in user code and still interrupted by the timer.
- exit and kill also call `semTableRemove` and `shmTabRemove`. What these tables hold
  changes no decision of the scheduler, so they are not in `Kernel`
  but in `Ipc`, whose `Leave` is that part of exit and kill.
- In `Ipc` the processes have identities, and `running` gives each its pid, which
  is the number of processes when it is forked, as in `procCopy`. After a process
  has left, the next may therefore get the pid of one that is alive. The calls
  only know pids: whoever shares one may destroy what the other made, and the end
  of one frees the segments and removes the semaphores and waiters of both.
- `ProcessHistory` has no entries, only their number: what is copied into one is
  the pointer argument and the bytes behind it, not the process.
- A semaphore is its address, and its value `semValue` is never anything but 0,
  because `*sem++` and `*sem--` move the handler's copy of the pointer; the models
  translate this and derive the rest. `semTabDefrag` tests slot `i` where it means
  slot `j` and moves nothing, so it is the identity in the model.
- `semTableRemove` may free a word behind the array it has just halved. When it
  may, `corrupted` may become true, and the model ends there. A read of the slot
  before the array, which `sem_destroy` makes when nobody waits, grants or
  refuses the call.
- The messages of `sem_post`, `sem_wait` and `shm_write` are put together by
  `itoaLocal` through a pointer that is never set. Where the digits go is
  undefined, and they are left out.
- On the disk's line a request is one message, since the server reads whole
  lines; an answer is a sequence of characters, of which the driver takes as many
  as it expects. Bytes have `Radix` squared values and words `WordLength` bytes,
  so that the conversions are those of the code with small numbers. The driver
  has one caller at a time, which reads whole blocks. The server's answer to an
  unknown command is left out, because no driver sends one.

## 3. Runs

All bounds are in the .cfg files. Small tables are enough to double and halve
every array more than once (1, 2, 4 slots), to delete in front, in the middle
and at the end, and to make and drop FCFS levels.

| run | instance | shows |
|---|---|---|
| `defrag_loop` | arrays up to 5 words | the loops compute `Compact`; every slot the loop has passed is final |
| `process_table` | 4 processes, junk 0 and 77 | type, `Capacity`, `ProcsCounts`, `ConsoleFirst`; pids stay below `MAX_PROCS` (`SlotBelowPid`); a call loses or reorders nobody (`EntriesSurvive`) |
| `queues` | 4 pids, 2 levels, junk 0 and 77 | live prefix, counts, sizes; refinement of `FeedbackQueues` |
| `priorities` | 4 processes, 2 levels, P3 and philosophers; execute, priority, pause, continue | at each choice everybody with a priority is queued at its level, whatever has been raised, paused, continued or waits; a switch saves the registers it leaves, and nobody else's change |
| `exit_and_kill` | 4 processes, 2 levels, P5 and philosophers; execute, kill, kill-store, history of 2 | table and queues agree on who lives, and nobody is queued twice; nobody else is lost or overtaken; programs keep an entry and are saved in the one they came from; the history has room |
| `no_starvation` | 4 processes, 2 levels, P3; execute, priority | every process is served again and again; the running one is marked |
| `ipc` | 2 processes, 3 blocks, 2 sizes, counts to 5, old entries in new slots | the segments' table and the heap agree; writes stay inside; a segment goes only with its owner's pid; the semaphores' array has room; whoever leaves is not in the table it leaves |
| `disk` | 2 blocks of 2 bytes, 2 byte words, 3 attempts | refinement of `BlockDevice`; the line is in step; calls return |

Four processes let one move or leave between two others in the table's array and
in a queue, and let both grow and shrink while in use; with two levels a process
goes through every kind of move, into a new level, between levels, out of the
last one (which is deleted), and back up. `MaxEntries` bounds the count of
semaphore entries, which drifts (see below): 5 lets its array of 1, 2, 4 grow to 8. The requests
of `disk` go to both blocks, behind the end, to an address whose two bytes differ
(so that their order matters) and to one that the server takes for negative; data
are a block and less than one. In `ipc`, new slots of the segments' table read as
zero or as an old entry with the address of a block, another size and an owner
(88) that is nobody. New slots of the semaphores' table read as zero, as a
semaphore, or as a waiter, of the pid 1: two processes are enough for two of them
to have one pid (fork, fork, exit, fork), and 1 may be there, have left, or be
given again.

The `violates_*` runs each check one sentence of a comment that the code does
not keep; PROJECT.json "findings" says what happens.

| run | the comment | what TLC finds |
|---|---|---|
| `violates_UniquePids` | pids are incremented for every process | a pid in use is given again after a deletion |
| `violates_LevelsAreAdded` | levels are added if needed | a process is added to a level just deleted |
| `violates_RemovedAtExit` | the owner's segments are deleted | every second adjacent segment stays |
| `violates_WaitEnds` | a post increments the semaphore | values stay 0, and all philosophers spin for ever |

**Where a property is not checked.**
- `CurrentExecutes` without exit, kill, pause and waits, and `PreservesContexts`
  without exit and kill. A process that exits, or a console that kills, leaves
  `currentProc` on its neighbour's slot, or behind the table, and the next switch
  saves its registers there. What remains true is `SavedInItsOwnEntry`, in
  `exit_and_kill`: it never happens to the registers of a program that goes on.
- `NoStarvation` without waits and pauses: a process that waits in the round robin
  queue has no turn to pass on (`CurrentTurn` is empty), and keeps the processor.
- Progress of the philosophers with two of them only: every one of them stops
  there already. `WhoWaitsNeverGoesOn` is about any number.

Other behaviours the modules contain, and no property forbids: an exited
process goes on when `schedule()` finds nobody else (`Exit`); kill stores its
result after `schedule()`, and so into r0 of whoever was chosen (`reply`), which
may be a console behind its fork; `PROCS_ACTIVE` is not what
`processTable.c:16` says: it is decremented twice for a paused process that is
killed, and not incremented when ageing or the round robin queue, which
dispatches the next process paused or not (`PickRoundRobin`), takes one up
again; nothing in the code decides by it; exec restarts the last entry of the table, whoever
calls (`Exec`); a child runs on its parent's stack until exec (`Child`); an
empty level below a used one stays (`WithoutLastLevel`). A pid 0 typed after
kill would match a cleared slot; no run types it.

Three accesses outside the table change nothing the models hold: pause reads the
status in front of the table when nobody has the pid, and then only prints
(`hilevel.c:335`); yield, which is never called, indexes the table with a pid
(`hilevel.c:152`); `dispatch` marks the previous process as READY also when there
is none (`scheduler.c:342`), at reset and in exec.

The count of semaphore entries only says too many: entries are overwritten,
because holes are not closed, and cut off, because the array is halved by the
count (`SemCapacity` says what remains true). What is cut off stays in memory.
With the slots A, A, B, A of processes A and B, A's exit clears two entries,
halves the array and leaves the fourth slot as it is; the next entry doubles the
array in place, and slot 3 is A's again, who has left. So it is not a property
that owners are there, nor that whoever is entered as a waiter spins: the run's
`RecycledEntry` contains such entries. `NothingOfWhoLeaves` speaks of the table
at the moment a process leaves.

**Fairness.**
- `NoStarvation` assumes weak fairness of the timer tick and of `schedule()`'s
  steps. The timer is set up as periodic and never stopped (`hilevel.c:95-100`),
  and an interrupt that is pending while user code runs is taken; a handler has no
  waiting in it. No fairness of user code is assumed. Two hypotheses are stated in
  the property: nothing undefined happened, and execs and typed priorities come to
  an end (each resets a priority to 1, and whoever does so for ever keeps a process
  in the FCFS levels, which are served first; at full table an exec that misses
  its caller repeats for ever).
- `CallsReturn` assumes weak fairness of the driver, which polls the line, and of
  the server, which loops over its input. The hypothesis `[]up` is in the
  property: the server dies of a negative address, and the driver has no timeout.
- `WaitEnds` is violated although each philosopher gets its turns again and again,
  which is more than the scheduler grants.

## 4. Proofs

Every invariant and every action property of the passing runs but
`CurrentExecutes` is also a theorem, and so are both refinements: where a run
shows them on one instance, the theorem shows them for all values of the constants that satisfy the `ASSUME`s of the
modules (which TLC evaluates in the runs) and the hypotheses named below.

| module, specification | theorem | property |
|---|---|---|
| `DefragProofs`, `DefragLoop` | `PrefixIsFinal` | `PrefixFinal` |
| | `LoopIsCompact` | `LoopComputesCompact` |
| `ProcessTableProofs`, `ProcessTableCalls` | `TypeCorrect` | `PTTypeOK` |
| | `CapacityKept` | `Capacity` |
| | `ProcessesInFront` | `ProcsCounts` |
| | `ConsoleStaysFirst` | `ConsoleFirst` |
| | `PidsBounded` | `SlotBelowPid` |
| | `ProcessesSurviveCalls` | `EntriesSurvive` |
| `MultiLevelQueueProofs`, `MultiLevelQueue` | `MLFQTypeCorrect` | `MLFQTypeOK` |
| | `PidsStayInFront` | `LivePrefix` |
| | `NobodyQueuedTwice` | `QueuedOnce` |
| | `CountIsKept` | `CountMatches` |
| | `QueuesStayTight` | `TightQueues` |
| | `ArraysAreFIFOQueues` | `ImplementsFeedbackQueues` |
| `KernelProofs`, `Kernel` | `KernelTypeCorrect` | `KTypeOK` |
| | `TheQueuedAreLive` | `QueuedAreLive` |
| | `KernelQueuesOnce` | `QueuedOnce` |
| | `NoEntryInvalid` | `NoInvalidEntry` |
| | `HistoryHasRoom` | `HistoryFits` |
| | `RunningProgramsHaveEntries` | `ProgramsHaveEntries` |
| | `ProgramsStayInPlace` | `SavedInItsOwnEntry` |
| | `KernelLosesNobody` | `ProcessesSurvive` |
| | `KernelQueuesAreFIFO` | `QueuesStayFIFO` |
| | `KernelKeepsTable` | the table's invariants, in every state of the kernel |
| | `DispatchPreservesContexts` | `PreservesContexts` |
| | `AgingQueuesAtLevels` | `QueuedAtItsLevel` |
| `IpcProofs`, `Ipc` | `SegmentsTypeCorrect` | `ShmTypeOK` |
| | `SegmentsHaveRoom` | `ShmCapacity` |
| | `TableAndHeapAgree` | `TableMatchesHeap` |
| | `WritesStayInside` | `WritesFit` |
| | `OwnersFree` | `OnlyOwnersFree` |
| | `SemaphoresTypeCorrect` | `SemTypeOK` |
| | `SemaphoresHaveRoom` | `SemCapacity` |
| | `LeavesNoneBehind` | `NothingOfWhoLeaves` |
| `IpcProofs`, `Philosophers` | `WhoWaitsNeverGoesOn` | why `WaitEnds` is violated, for every number of philosophers |
| | `AllWaitForEver` | the opposite of `WaitEnds` |
| `DiskProofs`, `DiskProtocol` | `DriverTypeCorrect` | `DiskTypeOK` |
| | `DriverInSync` | `LineInSync` |
| | `DriverIsABlockDevice` | `ImplementsBlockDevice` |

**Inductive invariants.** Few of the properties are inductive alone, and the
strengthening is where the argument is.

- `LoopInv`: no hole among the slots passed has an entry behind it, and compacting the array as
  it is now gives what compacting the input gives. One exchange of the inner loop
  keeps the second, because it moves the first entry behind a hole into the hole
  and so changes nobody's rank.
- `TableInv` (`TableOf` of the array, its size and its count): deletion keeps the
  live entries in front only because there was no hole among them and nothing
  behind them reads as a process, and it keeps its size only because of
  `Capacity`. `RankAroundHole` computes where each entry moves when one slot is
  cleared, `CompactAroundHole` the array, `DeletedEntries` the table.
- `MlfqInv`: every queue's array is well formed (pids in front, length and size
  agree), no pid is in it twice, the queues are disjoint, and the count is the
  number of pids in them. Disjointness is what makes the removal of a pid from one
  queue remove it from all. `Listed`, a queue as a sequence, is the refinement
  mapping; each operation's effect on it is a lemma, and `ArraysAreFIFOQueues`
  says that every call is a step of `FeedbackQueues`.
- `KInv`: `TableInv` and `MlfqInv` together with `QueuesOf` (who is queued is in
  the table), `Running` (where the program that runs has its entry) and
  `HistoryInv` (`HistoryFits`, and an array that has been made is not empty). `schedule()` indexes the table with queued pids without a test, so the
  two halves need each other. It is proved for every step at once with what a step
  may do to the others (`Preserves`), from which the action properties follow.
- `InPlace`, on top of `KInv`, is what `SavedInItsOwnEntry` needs: `currentProc` is
  on the entry of the program that runs, or spins, and the console's entry holds
  neither. Only a dispatch lets a program run, and it sets both; a program that
  ends runs no more. It needs no hypothesis about exit and kill.
- `CurrentLive` is proved on top of `KInv` as long as nobody ends. `LevelInv` says that pids are their
  slots' numbers and of each process where it is queued (`Placed`), also half way
  through `schedule()`'s loop, which has aged and moved the processes in front of
  `slot` and not those behind. A priority of 1 says so only of the former: fork,
  exec, priority, continue set it and leave the queueing to `schedule()`.
- `ShmInv`: the first `shmTabEntries` slots are the segments, each with one entry and
  its block; what is behind them is owned by nobody who could leave, and may
  hold any address and size, because the first slot found is always in front.
  `SemInv` relates the array's size to the count only, and not to what is in the
  array, which may read as anything; that nobody stays behind who leaves is
  proved from `semTableRemove`'s loop alone: after `k` turns no slot below `k`
  that is left has the pid, and halving only takes slots away.
- `DiskInv`: for each point of the driver's attempt, exactly which characters are
  on the line (`LineOK`). That the driver, which only counts, stays in step with a
  server that does not know what it counts is in no smaller statement.

**Loops and recursion.** The loops that walk over an array which their body
changes (`shmTabRemove`, `semTableNotify`, `semTableRemove`) are recursive
functions of the number of turns. `TurnByTurn` in `ArrayLemmas` is induction
over turns, stated about a set of numbers: what holds at first and is kept by each
turn holds at the end. So a loop costs one lemma about one turn. Powers of two (the
levels' thresholds) and of the radix (words on the line) go the same way, through
`Powers`. `DigitsAndBack` and `WordAndBack` prove for every radix and width that
`geth` reads what `puth` wrote and `Word` what `Bytes` wrote; the refinement of
`BlockDevice` rests on them.

**Hypotheses.** They are stated in each theorem.

- `CleanHeap`: what `realloc` leaves in new slots does not read as a pid. The table
  and the queues are searched over them. The C library does not promise it, so
  the theorems speak of heaps where it holds; the runs' `Junk` satisfies it. What
  `PidsStayInFront` adds is about the words the kernel itself leaves there, by
  removing, closing holes and halving.
- `TypedPidsAreNoJunk`: nobody types a pid that a cleared slot reads as; `kill 0`
  finds one. For the same reason `ProcessTableCalls` deletes by pids
  the kernel gives out.
- `NobodyEnds` (`PreservesContexts`, `QueuedAtItsLevel`): when
  an entry is deleted, `currentProc` stays on a slot that is another's or nobody's, and
  `schedule()` saves the registers there; pids are given again.
- `CleanSegments`: no new slot of the segments' table is owned by a pid that is
  given out, because `shmTabRemove` searches all slots by owner. Addresses and sizes
  are free. The theorems about semaphores need no such hypothesis.
- `DiskAssumption`, `RequestAssumption`, which are `ASSUME`s: the number and the
  length of blocks fit half a word, since the server reads words as signed; a write
  has some data, since `disk.py` would find no field in an empty one.

The hypotheses about `Command` and `Program` are what the runs that check the same
properties choose them by; everything else in those runs is a bound, and goes.

What the theorems do not say: a failed `disk_wr` may leave a torn block.
`DriverIsABlockDevice` is about a `BlockDevice` whose failing write changes no other
block, and leaves in its own the first part of the data over the old, because
`disk.py:40-43` may store part and then refuse.

**Only model-checked.** `CurrentExecutes`, in a run without whatever breaks it, and the
liveness properties `NoStarvation` and `CallsReturn`: fairness is about ENABLED,
which the prover does not handle. They hold on the small instances above.

## 5. Not modelled, and why

- What programs compute, texts, parsing of commands, stack contents.
- `close`: its loop never runs, and behind the frees it falls into forkproc, which
  reads what was freed. `deleteMLFQ` and `procHistoryDelete`, which only it calls.
- `forkproc`: the child gets the registers its caller had when it was last
  interrupted, with a new stack, pc and r0. What it does with them depends on
  every register, and no model of them is short.
- `yield`: no program calls it.
- status, history and the reads and writes of the console: they change no state.
- `atoi`, `itoa` and P4's and P5's arithmetic.
- Drivers other than the disk's: register definitions and byte I/O without state
  of their own.
- `disk_rd` of another length than a block: the rest of the answer would be read
  as the next one, or the driver would wait for ever. Calls of the disk by two
  processes at once: there is no caller at all.
- `lolevel.s`, `int.s`: assumed, as masking and saving of registers.
- The bytes of the heap: block addresses only. The moves of `procTable` by
  `realloc` are argued above.
- Overflow of priorities, 2^31 ticks away.
- Reset is modelled from a fresh image only: what a warm restart finds depends on
  the bytes that the loader leaves.

## 6. Plan

The parts that can be modelled are, and what their runs check is proved, but for
liveness and `CurrentExecutes`. What is left:

1. The safety half of the liveness properties: that in `DiskProtocol` and in
   `Kernel` some step is possible in every state that is not final, and that
   attempts and turns are counted down.
2. Weaker hypotheses: `PreservesContexts` with exit and kill, for whoever is not the
   neighbour of a process that ends.
