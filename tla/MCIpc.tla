-------------------------------- MODULE MCIpc --------------------------------
(* Values of Ipc's constants for TLC. *)
EXTENDS Ipc

\* Zeroed memory, and an old entry with the address of a block and the pid of
\* nobody.
MCRecycled == {NoSegment, [addr |-> 10, owner |-> 88, size |-> 2]}

\* Zeroed memory, and entries that have been cut off: a process that waits, and
\* a semaphore.
MCRecycledEntry ==
  {NoEntry,
   [sem |-> 10, waitingPid |-> 1, owner |-> 1],
   [sem |-> 10, waitingPid |-> 0, owner |-> 1]}
=============================================================================
