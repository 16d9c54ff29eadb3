---------------------------- MODULE KernelConfig ----------------------------
(***************************************************************************)
(* The parameters, register sets and process control blocks that the       *)
(* kernel's parts share (kernel/hilevel/hilevel.h and the globals of       *)
(* processTable.c and scheduler.c).                                        *)
(***************************************************************************)
EXTENDS Integers

CONSTANTS
  MAX_PROCS,         \* most entries of the process table
  MAX_QUEUE_LEVELS,  \* FCFS levels above the round robin queue
  Program,           \* the entry points console.c's load() knows
  Junk               \* what a pid word of memory that malloc or realloc
                     \* returned may hold before the kernel writes it

ASSUME ConfigAssumption ==
  /\ MAX_PROCS \in Nat \ {0, 1}
  /\ MAX_QUEUE_LEVELS \in Nat \ {0}
  /\ Junk \subseteq Int
  /\ 0 \in Junk

\* A program's code is none of the code that Code gives a name of its own.
ASSUME ProgramAssumption ==
  Program \cap {"none", "prompt", "forked", "exited", "spinning"} = {}

CONSOLE_PID == -1

\* Every pid that procInit and procCopy can give to a process.
Pid == {CONSOLE_PID} \cup 1..(MAX_PROCS - 1)

(***************************************************************************)
(* No word of recycled memory reads like the pid of a process.  malloc and *)
(* realloc do not promise this: where a property needs it, it says so.     *)
(***************************************************************************)
CleanHeap == Junk \cap Pid = {}

(***************************************************************************)
(* What the kernel's decisions can tell apart in a ctx_t: which code the   *)
(* pc is in, which process's stack the sp is in (its number, counted down  *)
(* from the console's, 0), and whether gpr[0] is zero.                     *)
(*   "prompt"  console.c, reading a command                                *)
(*   "forked"  console.c, behind the svc of fork()                         *)
(*   "exited"  behind the svc of exit(), where no program has anything to  *)
(*             do any more                                                 *)
(*   "spinning" libc.c's sem_wait, reading the semaphore again and again   *)
(***************************************************************************)
Code == {"none", "prompt", "forked", "exited", "spinning"} \cup Program

Stack == 0..(MAX_PROCS - 1)

Context == [pc : Code, sp : Stack, r0 : {0, 1}]

ZeroContext == [pc |-> "none", sp |-> 0, r0 |-> 0]

Status == {"INVALID", "CREATED", "TERMINATED", "READY", "EXECUTING", "WAITING"}

\* The states of a process that is in the table.
LiveStatus == {"READY", "EXECUTING", "WAITING"}

PCB == [pid : Int, status : Status, tos : Stack, ctx : Context, priority : Nat]

ZeroPCB ==
  [pid |-> 0, status |-> "INVALID", tos |-> 0, ctx |-> ZeroContext, priority |-> 0]
=============================================================================
