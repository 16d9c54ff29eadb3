--------------------------- MODULE FeedbackQueues ---------------------------
(***************************************************************************)
(* What the kernel's multi level queue promises: one FIFO queue per level, *)
(* a process in at most one of them.  A process enters at level 1, moves   *)
(* to the back of some other level, or leaves; everybody else keeps their  *)
(* place.  Level 0 is the round robin queue.                               *)
(***************************************************************************)
EXTENDS Naturals, Sequences, SequencesExt

CONSTANTS Process, Levels

VARIABLE queue

Queued == UNION {ToSet(queue[l]) : l \in 0..Levels}

\* The queue s without p, which is in it once at most.
DroppedFrom(s, p) ==
  IF \E i \in DOMAIN s : s[i] = p
  THEN RemoveAt(s, CHOOSE i \in DOMAIN s : s[i] = p)
  ELSE s

\* The queues without p.
Dropped(p) == [l \in 0..Levels |-> DroppedFrom(queue[l], p)]

Init == queue = [l \in 0..Levels |-> <<>>]

Enter(p) ==
  /\ p \notin Queued
  /\ queue' = [queue EXCEPT ![1] = Append(@, p)]

Leave(p) ==
  /\ p \in Queued
  /\ queue' = Dropped(p)

Move(p, l) ==
  queue' = [Dropped(p) EXCEPT ![l] = Append(@, p)]

Next ==
  \E p \in Process : Enter(p) \/ Leave(p) \/ \E l \in 0..Levels : Move(p, l)

Spec == Init /\ [][Next]_queue
=============================================================================
