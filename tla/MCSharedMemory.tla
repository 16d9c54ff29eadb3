--------------------------- MODULE MCSharedMemory ---------------------------
(* Values of SharedMemory's constants for TLC. *)
EXTENDS SharedMemory

\* Zeroed memory, and an old entry with the address of a block and the pid of
\* nobody.
MCRecycled == {NoSegment, [addr |-> 10, owner |-> 88, size |-> 2]}
=============================================================================
