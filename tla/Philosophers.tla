---------------------------- MODULE Philosophers ----------------------------
(***************************************************************************)
(* The dining philosophers (user/diningPhil.c) on the kernel's semaphores. *)
(* The parent makes the semaphores and forks the philosophers, which post  *)
(* on one side and wait on the other.  Any process may be the next to make *)
(* a call; that each gets its turns is more than the scheduler grants to a *)
(* process that waits (see Kernel), and does not help.                     *)
(***************************************************************************)
EXTENDS Semaphores

CONSTANT philosophers  \* an even number; they and their parent are Process, which
                       \* are numbered in the order they are forked

VARIABLES
  sems,    \* the array of semaphores, 0 where none is yet
  philId,  \* each process's own, as long as it runs in registers of its own
  at       \* where each process is: "out", "allocates", "forks", "first", "second"

philVars == <<running, semVars, sems, philId, at>>

Parent == 1

PhilInit ==
  /\ SemTableInit
  /\ running = [p \in {Parent} |-> 1]
  /\ sems = [i \in 0..(philosophers - 1) |-> 0]
  /\ philId = [p \in Process |-> 0]
  /\ at = [p \in Process |-> IF p = Parent THEN "allocates" ELSE "out"]

\* The i-th of the two in every iteration goes into the i-th half of the array.
NextSem ==
  LET made == Cardinality(DOMAIN semValue)
  IN  made \div 2 + (made % 2) * (philosophers \div 2)

Allocate ==
  /\ at[Parent] = "allocates"
  /\ \E sem \in Address :
       /\ sem_init(Parent, sem)
       /\ sems' = [sems EXCEPT ![NextSem] = sem]
  /\ at' = [at EXCEPT ![Parent] =
              IF NextSem = philosophers - 1 THEN "forks" ELSE "allocates"]
  /\ UNCHANGED philId

\* fork returns 0 to the child.  What it returns to the parent is lost in
\* dispatch and r0 is what it was before, perhaps 0, too.  After the loop the
\* parent plays the last philosopher's part.
ForkPhilosopher ==
  LET j     == philId[Parent] + 1
      child == j + 1
  IN  /\ at[Parent] = "forks"
      /\ Starts(child)
      /\ philId' = [philId EXCEPT ![Parent] = j, ![child] = j]
      /\ \E next \in IF j = philosophers THEN {"first"} ELSE {"forks", "first"} :
           at' = [at EXCEPT ![Parent] = next, ![child] = "first"]
      /\ UNCHANGED <<semVars, sems>>

leftSem(p) == sems[philId[p] - 1]

rightSem(p) == sems[IF philId[p] < philosophers THEN philId[p] ELSE 0]

\* philOp: odd ones post and wait, even ones wait and post.
philOp(p) ==
  /\ at[p] \in {"first", "second"}
  /\ IF (philId[p] % 2 = 1) = (at[p] = "first")
     THEN sem_post(p, rightSem(p))
     ELSE sem_wait(p, leftSem(p))
  /\ at' = [at EXCEPT ![p] = IF at[p] = "first" THEN "second" ELSE "first"]
  /\ UNCHANGED <<sems, philId>>

Setup == Allocate \/ ForkPhilosopher

Runs(p) == philOp(p) \/ (Return(p) /\ UNCHANGED <<sems, philId, at>>)

PhilNext == Setup \/ \E p \in Process : Runs(p)

PhilSpec ==
  /\ PhilInit /\ [][PhilNext]_philVars
  /\ WF_philVars(Setup)
  /\ \A p \in Process : WF_philVars(Runs(p))

-----------------------------------------------------------------------------
(* Properties *)

(***************************************************************************)
(* "post to semaphore (increment by 1)" (libc.c:282): the philosophers     *)
(* with odd numbers post before they wait, so when all of them wait, some  *)
(* post has not been used up and lets one of them go on.                   *)
(***************************************************************************)
WaitEnds ==
  (DOMAIN running = Process /\ \A p \in Process : waitsAt[p] # 0)
    ~> \E p \in Process : waitsAt[p] = 0
=============================================================================
