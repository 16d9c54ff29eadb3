---------------------------- MODULE IpcProcesses ----------------------------
(***************************************************************************)
(* What the modules of inter process communication share: the processes    *)
(* that make the calls, their pids and the addresses of the heap.          *)
(***************************************************************************)
EXTENDS Integers, FiniteSets

CONSTANTS
  Process,   \* the processes behind the console, which never calls
  Address    \* where malloc and calloc may put a block

\* The pids that procCopy can give to so many processes.
Pid == 1..Cardinality(Process)

\* The address of the word behind the one that NULL points to.
PastNull == 4

ASSUME IpcAssumption ==
  /\ IsFiniteSet(Process)
  /\ Address \subseteq Nat \ {0, PastNull}

VARIABLE running  \* the pid of every process there is

\* fork: the pid is the number of processes there are, the console included.
\* It may be the pid of one of them, when another has left.
Starts(p) ==
  /\ p \notin DOMAIN running
  /\ running' = [q \in DOMAIN running \cup {p} |->
                   IF q = p THEN Cardinality(DOMAIN running) + 1 ELSE running[q]]
=============================================================================
