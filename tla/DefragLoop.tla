----------------------------- MODULE DefragLoop -----------------------------
(***************************************************************************)
(* The loops of procDefrag and queueDefrag, one iteration of the outer     *)
(* loop per step, over every array of up to MaxSize words, to show that    *)
(* they compute Defrag!Compact.  A word is 0 when its slot is empty.       *)
(***************************************************************************)
EXTENDS Integers, Defrag

CONSTANTS
  MaxSize,  \* bound: longest array
  Word      \* values of a slot, 0 among them

ASSUME LoopAssumption == MaxSize \in Nat /\ 0 \in Word

VARIABLES
  input,  \* the array before the call
  arr,    \* the array
  i       \* the outer loop's index

vars == <<input, arr, i>>

Size == Cardinality(DOMAIN input)

Used(a) == {k \in DOMAIN a : a[k] # 0}

\* The slots the inner loop (j = i + 1 ...) would stop at.
Later == {j \in Used(arr) : j > i}

Init ==
  /\ \E n \in 0..MaxSize : input \in [0..(n - 1) -> Word]
  /\ arr = input
  /\ i = 0

\* Mutant of FillSlot: the slot that moved is not cleared.
FillSlotLeavingCopy ==
  /\ i < Size
  /\ arr[i] = 0
  /\ Later # {}
  /\ arr' = [arr EXCEPT ![i] = arr[CHOOSE k \in Later : \A l \in Later : k <= l]]
  /\ i' = i + 1
  /\ UNCHANGED input

\* Mutant of FillSlot: the last used slot moves in, as in a swap with the end.
FillSlotFromEnd ==
  /\ i < Size
  /\ arr[i] = 0
  /\ Later # {}
  /\ LET j == CHOOSE k \in Later : \A l \in Later : k >= l
     IN  arr' = [arr EXCEPT ![i] = arr[j], ![j] = 0]
  /\ i' = i + 1
  /\ UNCHANGED input

\* Slot i is empty: the first used slot after it moves in.
FillSlot ==
  /\ i < Size
  /\ arr[i] = 0
  /\ Later # {}
  /\ LET j == CHOOSE k \in Later : \A l \in Later : k <= l
     IN  arr' = [arr EXCEPT ![i] = arr[j], ![j] = 0]
  /\ i' = i + 1
  /\ UNCHANGED input

\* Slot i is used, or nothing is left to move into it.
SkipSlot ==
  /\ i < Size
  /\ arr[i] # 0 \/ Later = {}
  /\ i' = i + 1
  /\ UNCHANGED <<input, arr>>

Next == FillSlot \/ SkipSlot

Spec == Init /\ [][Next]_vars

(***************************************************************************)
(* When the loops of procDefrag / queueDefrag end, the array is the        *)
(* compacted input: no used slot lost, duplicated or reordered.            *)
(***************************************************************************)
LoopComputesCompact == i = Size => arr = Compact(input, Used(input), 0)

(***************************************************************************)
(* Meanwhile every slot before the loop index already has its final value, *)
(* which is why the kernel may rely on the prefix alone.                   *)
(***************************************************************************)
PrefixFinal ==
  \A k \in 0..(i - 1) : arr[k] = Compact(input, Used(input), 0)[k]
=============================================================================
