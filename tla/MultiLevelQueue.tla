-------------------------- MODULE MultiLevelQueue --------------------------
(***************************************************************************)
(* The queues of kernel/scheduling/scheduler.c: a round robin queue, level *)
(* 0, and a growing number of FCFS queues, levels 1 and up, each a heap    *)
(* array that doubles and halves.  schedule() itself is in Kernel.tla.     *)
(*                                                                         *)
(* The operators work on the value of the mlfq_t, so that Kernel.tla can   *)
(* use them in the middle of a handler.  One that may grow an array gives  *)
(* the set of its outcomes, one for every content of the new memory.       *)
(***************************************************************************)
EXTENDS KernelConfig, Defrag

VARIABLE multiLevelQueue

Level(m) == 0..m.levels

\* What the n words that realloc adds behind from others may hold.
Garbage(from, n) == [from..(from + n - 1) -> Junk]

-----------------------------------------------------------------------------
(* Values *)

\* One word, from calloc or, at reset, from the untouched heap.
EmptyQueue == [processes |-> [i \in {0} |-> 0], length |-> 0, size |-> 1]

invokeQueueFCFS(m) ==
  [m EXCEPT !.levels = @ + 1,
            !.queues = [l \in 0..(m.levels + 1) |->
                          IF l \in Level(m) THEN @[l] ELSE EmptyQueue]]

\* The round robin queue and the first level.
invokeQueueMLFQ ==
  [queues |-> [l \in 0..1 |-> EmptyQueue], levels |-> 1, processCount |-> 0]

\* Where m holds pid, over all words of its arrays, those past their length
\* included: level 0 first, then the FCFS levels.
Positions(m, pid) ==
  {p \in UNION {{[level |-> l, index |-> i] : i \in 0..(m.queues[l].size - 1)} : l \in Level(m)} :
     m.queues[p.level].processes[p.index] = pid}

inMLFQ(m, pid) ==
  LET found == Positions(m, pid)
      level == LeastOf({p.level : p \in found})
  IN  IF found = {}
      THEN [level |-> -1, index |-> -1]
      ELSE [level |-> level,
            index |-> LeastOf({p.index : p \in {q \in found : q.level = level}})]

\* Mutant of queueDefrag: the hole stays.
queueDefragNothing(q) == q

queueDefrag(q) ==
  [q EXCEPT !.processes = Compact(@, {i \in DOMAIN @ : @[i] # 0}, 0)]

\* q with twice the words, the new ones as realloc leaves them.
WithMoreWords(q, words) ==
  [q EXCEPT !.size = 2 * @,
            !.processes = [i \in 0..(2 * q.size - 1) |->
                             IF i < q.size THEN @[i] ELSE words[i]]]

\* Mutant of WithSpace: the array grows one process too late.
WithSpaceLate(q) ==
  IF q.length <= q.size THEN {q}
  ELSE {WithMoreWords(q, words) : words \in Garbage(q.size, q.size)}

WithSpace(q) ==
  IF q.length < q.size THEN {q}
  ELSE {WithMoreWords(q, words) : words \in Garbage(q.size, q.size)}

Appended(q, pid) ==
  queueDefrag([q EXCEPT !.processes[q.length] = pid, !.length = @ + 1])

\* Mutant of addToQueue: the process is not counted.
addToQueueUncounted(m, pid, l) ==
  {[m EXCEPT !.queues[l] = Appended(q, pid)] : q \in WithSpace(m.queues[l])}

addToQueue(m, pid, l) ==
  {[m EXCEPT !.queues[l] = Appended(q, pid), !.processCount = @ + 1] :
     q \in WithSpace(m.queues[l])}

\* procs is PROCS: at MAX_PROCS nothing is added (a TODO in the code).
addToMLFQ(m, pid, procs) ==
  IF inMLFQ(m, pid).level < 0 /\ procs < MAX_PROCS
  THEN addToQueue(m, pid, 1)
  ELSE {m}

\* Mutant of Without: the last process moves into the hole.
WithoutBySwap(q, i) ==
  [q EXCEPT !.processes[i] = q.processes[q.length - 1],
            !.processes[q.length - 1] = 0,
            !.length = @ - 1]

\* q without its word i, the hole closed.
Without(q, i) ==
  queueDefrag([q EXCEPT !.processes[i] = 0, !.length = @ - 1])

\* Mutant of Halved: the test is < instead of <=.
HalvedLate(q) ==
  IF q.length < q.size \div 2 /\ q.size > 1
  THEN [q EXCEPT !.size = @ \div 2,
                 !.processes = [i \in 0..(q.size \div 2 - 1) |-> @[i]]]
  ELSE q

Halved(q) ==
  IF q.length <= q.size \div 2 /\ q.size > 1
  THEN [q EXCEPT !.size = @ \div 2,
                 !.processes = [i \in 0..(q.size \div 2 - 1) |-> @[i]]]
  ELSE q

\* The last FCFS level goes when it empties; level 1 stays.
WithoutLastLevel(m) ==
  [m EXCEPT !.levels = @ - 1,
            !.queues = [l \in 0..(m.levels - 1) |-> @[l]]]

\* Mutant of removeFromMLFQ: the round robin queue, level 0, taken for -1.
removeFromFCFSOnly(m, pid) ==
  LET pos == inMLFQ(m, pid)
      q   == Halved(Without(m.queues[pos.level], pos.index))
  IN  IF pos.level <= 0
      THEN m
      ELSE [m EXCEPT !.queues[pos.level] = q, !.processCount = @ - 1]

removeFromMLFQ(m, pid) ==
  LET pos     == inMLFQ(m, pid)
      q       == Halved(Without(m.queues[pos.level], pos.index))
      removed == [m EXCEPT !.queues[pos.level] = q, !.processCount = @ - 1]
  IN  IF pos.level < 0
      THEN m
      ELSE IF pos.level > 0 /\ pos.level >= m.levels /\ q.length <= 0 /\ m.levels > 1
           THEN WithoutLastLevel(removed)
           ELSE removed

-----------------------------------------------------------------------------
(* The calls that dispatch, schedule and the system calls make *)

\* dispatch, of a process that is not queued.
Enter(pid) ==
  /\ inMLFQ(multiLevelQueue, pid).level < 0
  /\ multiLevelQueue' \in addToQueue(multiLevelQueue, pid, 1)

\* exit, kill, pause.
Leave(pid) ==
  /\ inMLFQ(multiLevelQueue, pid).level >= 0
  /\ multiLevelQueue' = removeFromMLFQ(multiLevelQueue, pid)

\* schedule, of a process whose priority is that of the level l > 0.  Adding
\* to a level that is not there is undefined, so the callers must not: see
\* MissingLevel in Kernel.tla.
Demote(pid, l) ==
  LET invoked == IF l = multiLevelQueue.levels + 1
                 THEN invokeQueueFCFS(multiLevelQueue)
                 ELSE multiLevelQueue
      removed == removeFromMLFQ(invoked, pid)
  IN  /\ l <= removed.levels
      /\ multiLevelQueue' \in addToQueue(removed, pid, l)

\* schedule, of a process that has used up the last level.
ToRoundRobin(pid) ==
  multiLevelQueue' \in addToQueue(removeFromMLFQ(multiLevelQueue, pid), pid, 0)

MLFQInit == multiLevelQueue = invokeQueueMLFQ

MLFQNext ==
  \E pid \in Pid :
    \/ Enter(pid)
    \/ Leave(pid)
    \/ \E l \in 1..MAX_QUEUE_LEVELS : Demote(pid, l)
    \/ ToRoundRobin(pid)

MLFQSpec == MLFQInit /\ [][MLFQNext]_multiLevelQueue

-----------------------------------------------------------------------------
(* Properties *)

Queue(l) == multiLevelQueue.queues[l]

\* The pids of level l in their order, as a sequence; none if it is not there.
Contents(l) ==
  IF l \in Level(multiLevelQueue)
  THEN [i \in 1..Queue(l).length |-> Queue(l).processes[i - 1]]
  ELSE <<>>

(***************************************************************************)
(* Every array has exactly the words its size says.                        *)
(***************************************************************************)
MLFQTypeOK ==
  /\ multiLevelQueue.levels \in 1..MAX_QUEUE_LEVELS
  /\ multiLevelQueue.processCount \in 0..Cardinality(Pid)
  /\ DOMAIN multiLevelQueue.queues = Level(multiLevelQueue)
  /\ \A l \in Level(multiLevelQueue) :
       /\ Queue(l).size \in Nat \ {0}
       /\ Queue(l).length \in 0..Queue(l).size
       /\ Queue(l).processes \in [0..(Queue(l).size - 1) -> Pid \cup Junk]

(***************************************************************************)
(* addToQueue writes at index length, and inMLFQ searches all the words.   *)
(* The first length words are pids, and no move, removal or halving leaves *)
(* one behind them: there is only what realloc has left, or 0.  (That the  *)
(* former is no pid either, nobody promises: CleanHeap.)                   *)
(***************************************************************************)
LivePrefix ==
  \A l \in Level(multiLevelQueue) :
    /\ \A i \in 0..(Queue(l).length - 1) : Queue(l).processes[i] \in Pid
    /\ \A i \in Queue(l).length..(Queue(l).size - 1) : Queue(l).processes[i] \in Junk

(***************************************************************************)
(* No process is queued twice, at one level or at two.                     *)
(***************************************************************************)
QueuedOnce == \A pid \in Pid : Cardinality(Positions(multiLevelQueue, pid)) <= 1

(***************************************************************************)
(* processCount counts the queued processes, through every move.           *)
(***************************************************************************)
CountMatches ==
  multiLevelQueue.processCount =
    Cardinality({pid \in Pid : inMLFQ(multiLevelQueue, pid).level >= 0})

(***************************************************************************)
(* The halving in removeFromMLFQ keeps up with the doubling in addToQueue: *)
(* more than half of a queue's words are in use, or it is one word.        *)
(***************************************************************************)
TightQueues ==
  \A l \in Level(multiLevelQueue) :
    Queue(l).size = 1 \/ Queue(l).size < 2 * Queue(l).length

(***************************************************************************)
(* The heap arrays, through doubling, halving, defragmentation and the     *)
(* deletion of levels, are the plain FIFO queues of FeedbackQueues.tla.    *)
(***************************************************************************)
allContents == [l \in 0..MAX_QUEUE_LEVELS |-> Contents(l)]

FQ == INSTANCE FeedbackQueues
        WITH Process <- Pid, Levels <- MAX_QUEUE_LEVELS, queue <- allContents

ImplementsFeedbackQueues == FQ!Spec
=============================================================================
