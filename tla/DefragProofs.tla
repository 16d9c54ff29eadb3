---------------------------- MODULE DefragProofs ----------------------------
(***************************************************************************)
(* Proofs that the loops of procDefrag and queueDefrag compute Compact,    *)
(* for arrays of every length: a turn of the outer loop does not change    *)
(* what the array will be compacted to, and leaves one more slot as it     *)
(* will be in the end.                                                     *)
(***************************************************************************)
EXTENDS DefragLoop, ArrayLemmas

-----------------------------------------------------------------------------
(* Ranks *)

\* Two used slots change places with what they hold: j is cleared, p is used.
Moved(used, j, p) == (used \ {j}) \cup {p}

LEMMA RankType ==
  ASSUME NEW n \in Nat, NEW used, used \subseteq 0..(n - 1), NEW x \in 0..n
  PROVE  /\ IsFiniteSet({k \in used : k < x})
         /\ Rank(used, x) \in Nat /\ Rank(used, x) <= x
<1> DEFINE before == {k \in used : k < x}
<1>1. before \subseteq 0..(x - 1)
  <2> SUFFICES ASSUME NEW k \in before
               PROVE  k \in 0..(x - 1)
    OBVIOUS
  <2>1. k \in 0..(n - 1) /\ k < x
    OBVIOUS
  <2> QED
    BY <2>1
<1>2. IsFiniteSet(0..(x - 1)) /\ Cardinality(0..(x - 1)) = x
  <2>1. 0 \in Int /\ x - 1 \in Int
    OBVIOUS
  <2>2. /\ IsFiniteSet(0..(x - 1))
        /\ Cardinality(0..(x - 1)) = IF 0 > x - 1 THEN 0 ELSE (x - 1) - 0 + 1
    BY <2>1, FS_Interval
  <2> QED
    BY <2>2
<1>3. IsFiniteSet(before) /\ Cardinality(before) \in Nat /\ Cardinality(before) <= x
  BY <1>1, <1>2, FS_Subset, FS_CardinalityType
<1> QED
  BY <1>3 DEF Rank

(***************************************************************************)
(* The next used slot has a greater rank.                                  *)
(***************************************************************************)
LEMMA RankGrows ==
  ASSUME NEW n \in Nat, NEW used, used \subseteq 0..(n - 1),
         NEW x \in used, NEW y \in used, x < y
  PROVE  Rank(used, x) < Rank(used, y)
<1> DEFINE below(z) == {k \in used : k < z}
<1>1. x \in 0..n /\ y \in 0..n
  OBVIOUS
<1>2. /\ IsFiniteSet(below(x)) /\ IsFiniteSet(below(y))
      /\ Rank(used, x) \in Nat /\ Rank(used, y) \in Nat
  BY <1>1, RankType
<1>3. x \notin below(x) /\ below(x) \cup {x} \subseteq below(y)
  <2>1. \A k \in used : k \in Int
    OBVIOUS
  <2>2. x \notin below(x)
    BY <2>1
  <2>3. ASSUME NEW k \in below(x) \cup {x}
        PROVE  k \in used /\ k < y
    BY <2>1
  <2> QED
    BY <2>2, <2>3
<1>4. /\ IsFiniteSet(below(x) \cup {x})
      /\ Cardinality(below(x) \cup {x}) = Cardinality(below(x)) + 1
  BY <1>2, <1>3, FS_AddElement
<1>5. Cardinality(below(x) \cup {x}) <= Cardinality(below(y))
  BY <1>2, <1>3, FS_Subset
<1> QED
  BY <1>2, <1>4, <1>5 DEF Rank

\* c is the array whose slots are those of t that are used, in order, and zero
\* behind them.
ByRank(c, t, used, n, zero) ==
  /\ c = [k \in 0..(n - 1) |-> c[k]]
  /\ \A x \in used : Rank(used, x) \in 0..(n - 1) /\ c[Rank(used, x)] = t[x]
  /\ \A k \in 0..(n - 1) : (\A x \in used : Rank(used, x) # k) => c[k] = zero

(***************************************************************************)
(* What Compact puts where.                                                *)
(***************************************************************************)
LEMMA CompactPlaces ==
  ASSUME NEW n \in Nat, NEW t, DOMAIN t = 0..(n - 1),
         NEW used, used \subseteq 0..(n - 1), NEW zero
  PROVE  ByRank(Compact(t, used, zero), t, used, n, zero)
<1> DEFINE c == Compact(t, used, zero)
           Origin(k) == CHOOSE x \in used : Rank(used, x) = k
<1>1. c = [k \in 0..(n - 1) |-> IF \E x \in used : Rank(used, x) = k THEN t[Origin(k)] ELSE zero]
  BY DEF Compact
<1>2. ASSUME NEW x \in used
      PROVE  Rank(used, x) \in 0..(n - 1) /\ c[Rank(used, x)] = t[x]
  <2> DEFINE r == Rank(used, x)
  <2>1. x \in 0..n /\ x \in 0..(n - 1)
    OBVIOUS
  <2>2. r \in 0..(n - 1)
    <3>1. r \in Nat /\ r <= x
      BY <2>1, RankType
    <3> QED
      BY <2>1, <3>1
  <2>3. Origin(r) \in used /\ Rank(used, Origin(r)) = r
    OBVIOUS
  <2> DEFINE y == Origin(r)
  <2>4. y \in used /\ Rank(used, y) = r
    BY <2>3
  <2> HIDE DEF y
  <2>5. ~ x < y /\ ~ y < x
    <3>1. Rank(used, x) \in Nat
      BY <2>1, RankType
    <3>2. x < y => Rank(used, x) < Rank(used, y)
      BY <2>4, RankGrows
    <3>3. y < x => Rank(used, y) < Rank(used, x)
      BY <2>4, RankGrows
    <3> QED
      BY <2>4, <3>1, <3>2, <3>3
  <2>6. y = x
    <3>1. y \in Int /\ x \in Int
      BY <2>1, <2>4
    <3> QED
      BY <2>5, <3>1
  <2>7. c[r] = t[Origin(r)]
    BY <1>1, <2>2
  <2> QED
    BY <2>2, <2>6, <2>7 DEF y
<1>3. ASSUME NEW k \in 0..(n - 1), \A x \in used : Rank(used, x) # k
      PROVE  c[k] = zero
  BY <1>1, <1>3
<1>4. c = [k \in 0..(n - 1) |-> c[k]]
  BY <1>1
<1> HIDE DEF c
<1>5. ByRank(c, t, used, n, zero)
  BY <1>2, <1>3, <1>4 DEF ByRank
<1> QED
  BY <1>5 DEF c

\* new has the ranks of used, with p for j.
SameRanks(new, used, j, p, n) ==
  /\ new \subseteq 0..(n - 1)
  /\ Rank(new, p) = Rank(used, j)
  /\ \A x \in used \ {j} : Rank(new, x) = Rank(used, x)

(***************************************************************************)
(* When the first used slot behind the unused slot p moves to p, all ranks *)
(* stay what they were.                                                    *)
(***************************************************************************)
LEMMA MoveKeepsRanks ==
  ASSUME NEW n \in Nat, NEW used, used \subseteq 0..(n - 1),
         NEW p \in 0..(n - 1), p \notin used,
         NEW j \in used, p < j, \A x \in used : x > p => j <= x
  PROVE  SameRanks(Moved(used, j, p), used, j, p, n)
<1> DEFINE new == Moved(used, j, p)
<1>1. new \subseteq 0..(n - 1)
  BY DEF Moved
<1>2. \A x \in used : x \in Int
  OBVIOUS
<1>3. {k \in new : k < p} = {k \in used : k < j}
  <2>1. ASSUME NEW k \in used, k < j
        PROVE  k \in new /\ k < p
    <3>1. ~ k > p
      BY <1>2, <2>1
    <3> QED
      BY <1>2, <2>1, <3>1 DEF Moved
  <2>2. ASSUME NEW k \in new, k < p
        PROVE  k \in used /\ k < j
    BY <1>2, <2>2 DEF Moved
  <2> QED
    BY <2>1, <2>2
<1>4. ASSUME NEW x \in used \ {j}
      PROVE  Rank(new, x) = Rank(used, x)
  <2>1. CASE x < p
    <3>1. {k \in new : k < x} = {k \in used : k < x}
      BY <1>2, <2>1 DEF Moved
    <3> QED
      BY <3>1 DEF Rank
  <2>2. CASE x > p
    <3> DEFINE rest == {k \in used : k < x} \ {j}
    <3>1. j < x
      BY <1>2, <2>2
    <3>2. {k \in new : k < x} = rest \cup {p}
      BY <1>2, <2>2 DEF Moved
    <3>3. {k \in used : k < x} = rest \cup {j}
      BY <3>1
    <3>4. IsFiniteSet({k \in used : k < x})
      <4>1. x \in 0..n
        OBVIOUS
      <4> QED
        BY <4>1, RankType
    <3>5. IsFiniteSet(rest)
      BY <3>4, FS_RemoveElement
    <3>6. p \notin rest /\ j \notin rest
      OBVIOUS
    <3>7. /\ Cardinality(rest \cup {p}) = Cardinality(rest) + 1
          /\ Cardinality(rest \cup {j}) = Cardinality(rest) + 1
      BY <3>5, <3>6, FS_AddElement
    <3> QED
      BY <3>2, <3>3, <3>7 DEF Rank
  <2> QED
    BY <1>2, <2>1, <2>2
<1>5. Rank(new, p) = Rank(used, j)
  BY <1>3 DEF Rank
<1> QED
  BY <1>1, <1>4, <1>5 DEF SameRanks

-----------------------------------------------------------------------------
(* The loop *)

\* Nothing is used behind an unused slot that the loop has passed, and the
\* array will be compacted to the same as the input.
LoopInv ==
  /\ Size \in Nat
  /\ input \in [0..(Size - 1) -> Word] /\ arr \in [0..(Size - 1) -> Word]
  /\ i \in 0..Size
  /\ \A k \in 0..(i - 1) : arr[k] = 0 => \A l \in Used(arr) : l < k
  /\ Compact(arr, Used(arr), 0) = Compact(input, Used(input), 0)

LEMMA LoopInvInit ==
  ASSUME Init
  PROVE  LoopInv
<1>1. PICK n \in 0..MaxSize : input \in [0..(n - 1) -> Word]
  BY DEF Init
<1>2. n \in Nat
  BY LoopAssumption
<1>3. Cardinality(0..(n - 1)) = n
  <2>1. 0 \in Int /\ n - 1 \in Int
    BY <1>2
  <2>2. Cardinality(0..(n - 1)) = IF 0 > n - 1 THEN 0 ELSE (n - 1) - 0 + 1
    BY <2>1, FS_Interval
  <2> QED
    BY <1>2, <2>2
<1>4. DOMAIN input = 0..(n - 1)
  BY <1>1
<1>5. Size = n
  BY <1>3, <1>4 DEF Size
<1> QED
  BY <1>1, <1>2, <1>5 DEF Init, LoopInv

\* The array when slot j has moved to slot p.
Filled(t, j, p) == [t EXCEPT ![p] = t[j], ![j] = 0]

(***************************************************************************)
(* Filling a slot does not change what the array is compacted to.          *)
(***************************************************************************)
LEMMA MoveKeepsCompact ==
  ASSUME NEW n \in Nat, NEW t \in [0..(n - 1) -> Word],
         NEW p \in 0..(n - 1), t[p] = 0,
         NEW j \in Used(t), p < j, \A x \in Used(t) : x > p => j <= x
  PROVE  /\ Filled(t, j, p) \in [0..(n - 1) -> Word]
         /\ Compact(Filled(t, j, p), Used(Filled(t, j, p)), 0) = Compact(t, Used(t), 0)
<1> DEFINE used == Used(t)
           s == Filled(t, j, p)
           new == Moved(used, j, p)
<1>1. /\ DOMAIN t = 0..(n - 1) /\ used \subseteq 0..(n - 1)
      /\ p \notin used /\ j \in 0..(n - 1) /\ t[j] # 0 /\ p # j
  BY DEF Used
<1>2. /\ s \in [0..(n - 1) -> Word] /\ DOMAIN s = 0..(n - 1)
      /\ \A k \in 0..(n - 1) : s[k] = IF k = j THEN 0 ELSE IF k = p THEN t[j] ELSE t[k]
  BY <1>1, LoopAssumption DEF Filled
<1> HIDE DEF s
<1>3. Used(s) = new
  BY <1>1, <1>2 DEF Used, Moved
<1>4. /\ new \subseteq 0..(n - 1) /\ Rank(new, p) = Rank(used, j)
      /\ \A x \in used \ {j} : Rank(new, x) = Rank(used, x)
  <2> HIDE DEF used
  <2>1. \A x \in used : x > p => j <= x
    BY DEF used
  <2>2. j \in used
    BY DEF used
  <2>3. SameRanks(Moved(used, j, p), used, j, p, n)
    BY <1>1, <2>1, <2>2, MoveKeepsRanks
  <2> QED
    BY <2>3 DEF SameRanks
<1>5. /\ p \in new /\ \A x \in used \ {j} : x \in new
      /\ \A x \in new : x = p \/ x \in used \ {j}
  BY DEF Moved
<1>6. s[p] = t[j] /\ \A x \in used \ {j} : s[x] = t[x]
  BY <1>1, <1>2
<1> HIDE DEF new, used
<1>7. ByRank(Compact(t, used, 0), t, used, n, 0)
  BY <1>1, CompactPlaces
<1>8. ByRank(Compact(s, new, 0), s, new, n, 0)
  BY <1>2, <1>4, CompactPlaces
<1>9. ASSUME NEW k \in 0..(n - 1)
      PROVE  Compact(s, new, 0)[k] = Compact(t, used, 0)[k]
  <2>1. CASE \E x \in used : Rank(used, x) = k
    <3>1. PICK x \in used : Rank(used, x) = k
      BY <2>1
    <3>2. Compact(t, used, 0)[k] = t[x]
      BY <1>7, <3>1 DEF ByRank
    <3>3. CASE x = j
      BY <1>4, <1>5, <1>6, <1>8, <3>1, <3>2, <3>3 DEF ByRank
    <3>4. CASE x # j
      BY <1>4, <1>5, <1>6, <1>8, <3>1, <3>2, <3>4 DEF ByRank
    <3> QED
      BY <3>3, <3>4
  <2>2. CASE \A x \in used : Rank(used, x) # k
    <3>1. j \in used
      BY DEF used
    <3>2. \A x \in new : Rank(new, x) # k
      BY <1>4, <1>5, <2>2, <3>1
    <3> QED
      BY <1>7, <1>8, <2>2, <3>2 DEF ByRank
  <2> QED
    BY <2>1, <2>2
<1>10. Compact(s, new, 0) = Compact(t, used, 0)
  BY <1>7, <1>8, <1>9 DEF ByRank
<1> QED
  BY <1>2, <1>3, <1>10 DEF s, used

LEMMA LoopInvNext ==
  ASSUME LoopInv, [Next]_vars
  PROVE  LoopInv'
<1>1. /\ Size \in Nat
      /\ input \in [0..(Size - 1) -> Word] /\ arr \in [0..(Size - 1) -> Word]
      /\ i \in 0..Size
      /\ \A k \in 0..(i - 1) : arr[k] = 0 => \A l \in Used(arr) : l < k
      /\ Compact(arr, Used(arr), 0) = Compact(input, Used(input), 0)
  BY DEF LoopInv
<1>2. \A l \in Used(arr) : l \in 0..(Size - 1) /\ arr[l] # 0
  BY <1>1 DEF Used
<1>3. CASE FillSlot
  <2> DEFINE j == CHOOSE k \in Later : \A l \in Later : k <= l
  <2>1. /\ i < Size /\ arr[i] = 0 /\ Later # {} /\ i' = i + 1 /\ input' = input
        /\ arr' = Filled(arr, j, i)
    BY <1>3 DEF FillSlot, Filled
  <2>2. j \in Later /\ \A l \in Later : j <= l
    <3>1. Later \subseteq Nat
      BY <1>2 DEF Later
    <3> QED
      BY <2>1, <3>1, LeastOfIsLeast DEF LeastOf
  <2> HIDE DEF j
  <2>3. j \in Used(arr) /\ i < j /\ i \in 0..(Size - 1) /\ \A x \in Used(arr) : x > i => j <= x
    BY <1>1, <2>1, <2>2 DEF Later
  <2>4. /\ arr' \in [0..(Size - 1) -> Word]
        /\ Compact(arr', Used(arr'), 0) = Compact(arr, Used(arr), 0)
    BY <1>1, <2>1, <2>3, MoveKeepsCompact
  <2>5. \A k \in 0..i : arr'[k] # 0
    <3> TAKE k \in 0..i
    <3>1. k \in 0..(Size - 1) /\ k # j /\ arr[j] # 0
      BY <1>1, <1>2, <2>3
    <3>2. CASE k = i
      BY <1>1, <2>1, <3>1, <3>2 DEF Filled
    <3>3. CASE k \in 0..(i - 1)
      <4>1. ~ j < k
        BY <1>2, <2>3, <3>3
      <4>2. arr[k] # 0
        BY <1>1, <2>3, <3>3, <4>1
      <4>3. k # i
        BY <1>1, <3>3
      <4> QED
        BY <1>1, <2>1, <3>1, <4>2, <4>3 DEF Filled
    <3> QED
      BY <1>1, <3>2, <3>3
  <2>6. Size' = Size /\ i' \in 0..Size /\ 0..(i' - 1) = 0..i
    BY <1>1, <2>1 DEF Size
  <2> QED
    BY <1>1, <2>1, <2>4, <2>5, <2>6 DEF LoopInv
<1>4. CASE SkipSlot
  <2>1. /\ i < Size /\ (arr[i] # 0 \/ Later = {})
        /\ i' = i + 1 /\ input' = input /\ arr' = arr
    BY <1>4 DEF SkipSlot
  <2>2. Size' = Size
    BY <2>1 DEF Size
  <2>3. i' \in 0..Size
    BY <1>1, <2>1
  <2>4. ASSUME NEW k \in 0..(i' - 1), arr[k] = 0, NEW l \in Used(arr)
        PROVE  l < k
    <3>1. CASE k \in 0..(i - 1)
      BY <1>1, <2>4, <3>1
    <3>2. CASE k = i
      <4>1. Later = {}
        BY <2>1, <2>4, <3>2
      <4>2. ~ l > i /\ l # i
        BY <1>2, <2>4, <3>2, <4>1 DEF Later
      <4> QED
        BY <1>1, <1>2, <3>2, <4>2
    <3> QED
      BY <1>1, <2>1, <3>1, <3>2
  <2> QED
    BY <1>1, <2>1, <2>2, <2>3, <2>4 DEF LoopInv
<1>5. CASE UNCHANGED vars
  BY <1>1, <1>5 DEF vars, LoopInv, Size
<1> QED
  BY <1>3, <1>4, <1>5 DEF Next

THEOREM LoopKeepsCompact == Spec => []LoopInv
<1>1. Init => LoopInv
  BY LoopInvInit
<1>2. LoopInv /\ [Next]_vars => LoopInv'
  BY LoopInvNext
<1> QED
  BY <1>1, <1>2, PTL DEF Spec

(***************************************************************************)
(* The slots that the loop has passed are as they will be in the end.      *)
(***************************************************************************)
LEMMA PassedAreFinal ==
  ASSUME LoopInv
  PROVE  PrefixFinal
<1>1. /\ Size \in Nat
      /\ arr \in [0..(Size - 1) -> Word] /\ i \in 0..Size
      /\ \A k \in 0..(i - 1) : arr[k] = 0 => \A l \in Used(arr) : l < k
      /\ Compact(arr, Used(arr), 0) = Compact(input, Used(input), 0)
  BY DEF LoopInv
<1> DEFINE n == Size
           used == Used(arr)
<1>2. /\ DOMAIN arr = 0..(n - 1) /\ used \subseteq 0..(n - 1)
      /\ \A k \in 0..(n - 1) : k \in used <=> arr[k] # 0
  BY <1>1 DEF Used
<1>3. n \in Nat
  BY <1>1
<1> HIDE DEF n, used
<1>4. ByRank(Compact(arr, used, 0), arr, used, n, 0)
  BY <1>2, <1>3, CompactPlaces
<1>5. ASSUME NEW k \in 0..(i - 1)
      PROVE  arr[k] = Compact(arr, used, 0)[k]
  <2>1. k \in 0..(n - 1) /\ k \in 0..n
    BY <1>1 DEF n
  <2>2. CASE arr[k] = 0
    <3>1. \A x \in used : Rank(used, x) # k
      <4> TAKE x \in used
      <4>1. x < k /\ x \in 0..n
        BY <1>1, <1>2, <1>3, <2>2 DEF used
      <4>2. Rank(used, x) \in Nat /\ Rank(used, x) <= x
        BY <1>2, <1>3, <4>1, RankType
      <4> QED
        BY <2>1, <4>1, <4>2
    <3> QED
      BY <1>4, <2>1, <2>2, <3>1 DEF ByRank
  <2>3. CASE arr[k] # 0
    <3>1. k \in used
      BY <1>2, <2>1, <2>3
    <3>2. ASSUME NEW l \in 0..(k - 1)
          PROVE  l \in used
      <4>1. l \in 0..(i - 1) /\ l \in 0..(n - 1) /\ ~ k < l
        <5>1. l \in Nat /\ l < k /\ k < i /\ k < n /\ k \in Nat
          BY <1>1, <1>3, <2>1
        <5> QED
          BY <1>1, <1>3, <5>1
      <4>2. arr[l] # 0
        BY <1>1, <3>1, <4>1 DEF used
      <4> QED
        BY <1>2, <4>1, <4>2
    <3>3. {l \in used : l < k} = 0..(k - 1)
      <4>1. \A l \in used : l \in 0..(n - 1)
        BY <1>2
      <4>2. ASSUME NEW l \in used, l < k
            PROVE  l \in 0..(k - 1)
        BY <2>1, <4>1, <4>2
      <4>3. \A l \in 0..(k - 1) : l < k
        OBVIOUS
      <4> QED
        BY <3>2, <4>2, <4>3
    <3>4. Cardinality(0..(k - 1)) = k
      <4>1. 0 \in Int /\ k - 1 \in Int
        BY <2>1
      <4>2. Cardinality(0..(k - 1)) = IF 0 > k - 1 THEN 0 ELSE (k - 1) - 0 + 1
        BY <4>1, FS_Interval
      <4> QED
        BY <2>1, <4>2
    <3>5. Rank(used, k) = k
      BY <3>3, <3>4 DEF Rank
    <3> QED
      BY <1>4, <3>1, <3>5 DEF ByRank
  <2> QED
    BY <2>2, <2>3
<1> QED
  BY <1>1, <1>5 DEF PrefixFinal, used

(***************************************************************************)
(* While procDefrag or queueDefrag runs, every slot before the loop index  *)
(* already has its final value.                                            *)
(***************************************************************************)
THEOREM PrefixIsFinal == Spec => []PrefixFinal
<1>1. LoopInv => PrefixFinal
  BY PassedAreFinal
<1> QED
  BY <1>1, LoopKeepsCompact, PTL

(***************************************************************************)
(* The loops compute Compact: the used slots, all of them, once and in     *)
(* their order, whatever the array.                                        *)
(***************************************************************************)
THEOREM LoopIsCompact == Spec => []LoopComputesCompact
<1>1. ASSUME LoopInv
      PROVE  LoopComputesCompact
  <2> SUFFICES ASSUME i = Size
               PROVE  arr = Compact(input, Used(input), 0)
    BY DEF LoopComputesCompact
  <2> DEFINE c == Compact(input, Used(input), 0)
             n == Size
  <2>1. /\ n \in Nat /\ DOMAIN input = 0..(n - 1) /\ Used(input) \subseteq 0..(n - 1)
        /\ arr \in [0..(n - 1) -> Word]
    BY <1>1 DEF LoopInv, Used
  <2> HIDE DEF n
  <2>2. c = [k \in 0..(n - 1) |-> c[k]]
    <3>1. ByRank(c, input, Used(input), n, 0)
      BY <2>1, CompactPlaces
    <3> QED
      BY <3>1 DEF ByRank
  <2> HIDE DEF c
  <2>3. arr = [k \in 0..(n - 1) |-> arr[k]]
    BY <2>1
  <2>4. \A k \in 0..(n - 1) : arr[k] = c[k]
    BY <1>1, PassedAreFinal DEF PrefixFinal, n, c
  <2> QED
    BY <2>2, <2>3, <2>4 DEF c
<1> QED
  BY <1>1, LoopKeepsCompact, PTL
=============================================================================
