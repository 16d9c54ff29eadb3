--------------------------- MODULE MCPhilosophers ---------------------------
(* Values of Philosophers's constants for TLC. *)
EXTENDS Philosophers

\* Zeroed memory, and an entry of a process that waits.
MCRecycledEntry == {NoEntry, [sem |-> 20, waitingPid |-> 1, owner |-> 1]}
=============================================================================
