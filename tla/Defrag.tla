------------------------------- MODULE Defrag -------------------------------
(***************************************************************************)
(* Every table of the kernel is a heap array with holes that a defrag      *)
(* function closes: procDefrag, queueDefrag, procHistoryDefrag and         *)
(* shmTabDefrag are the same two nested loops.  Compact is what those      *)
(* loops compute, without the loops: the used slots move to the front in   *)
(* their order, the rest is cleared (an unused slot that nothing moves     *)
(* into keeps what it had, but of an unused slot only the word that makes  *)
(* it unused is ever read).  DefragLoop.tla runs the loops and compares.   *)
(***************************************************************************)
EXTENDS Naturals, FiniteSets

\* The first of the slots in S, as a search from the front finds it.
LeastOf(S) == CHOOSE i \in S : \A j \in S : i <= j

\* The slot that used slot j moves to.
Rank(used, j) == Cardinality({i \in used : i < j})

\* The used slots of the array t, in order, followed by cleared ones.
Compact(t, used, zero) ==
  [k \in DOMAIN t |->
     IF \E j \in used : Rank(used, j) = k
     THEN t[CHOOSE j \in used : Rank(used, j) = k]
     ELSE zero]
=============================================================================
