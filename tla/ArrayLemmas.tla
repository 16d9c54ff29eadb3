---------------------------- MODULE ArrayLemmas ----------------------------
(***************************************************************************)
(* Lemmas about what several parts of the system share: closing the hole   *)
(* that a deletion leaves in an array, finding the first slot that holds   *)
(* something, what a loop keeps in each of its turns, and powers.          *)
(***************************************************************************)
EXTENDS Integers, Defrag, FiniteSetTheorems, TLAPS

-----------------------------------------------------------------------------
(* What the defrag loops do to an array whose first n slots are in use but *)
(* for pos, and whose other slots hold anything.                           *)

\* Of 0..(n - 1), all slots but pos are used.
OneHole(used, n, pos, size) ==
  /\ used \subseteq 0..(size - 1)
  /\ used \cap 0..(n - 1) = (0..(n - 1)) \ {pos}

(***************************************************************************)
(* The slots that the used ones move to.                                   *)
(***************************************************************************)
LEMMA RankAroundHole ==
  ASSUME NEW size \in Nat, NEW n \in 1..size, NEW pos \in 0..(n - 1),
         NEW used, OneHole(used, n, pos, size),
         NEW j \in used
  PROVE  /\ Rank(used, j) \in Nat
         /\ j < pos => Rank(used, j) = j
         /\ j > pos /\ j < n => Rank(used, j) = j - 1
         /\ j >= n => Rank(used, j) >= n - 1
<1> DEFINE before == {i \in used : i < j}
<1>1. /\ j \in Nat /\ j < size
      /\ n \in Nat /\ pos \in Nat /\ pos < n /\ n <= size
      /\ \A x \in used : x \in Nat
      /\ \A x \in 0..(n - 1) : x \in used <=> x # pos
  BY DEF OneHole
<1> before \subseteq 0..(j - 1)
  <2> SUFFICES ASSUME NEW x \in before
               PROVE  x \in 0..(j - 1)
    OBVIOUS
  <2>1. x \in Nat /\ x < j
    BY <1>1
  <2> QED
    BY <2>1, <1>1
<1>2. IsFiniteSet(before) /\ Cardinality(before) \in Nat
  <2>1. IsFiniteSet(0..(j - 1))
    BY <1>1, FS_Interval
  <2> QED
    BY <2>1, FS_Subset, FS_CardinalityType
<1>3. \A m \in Nat : IsFiniteSet(0..(m - 1)) /\ Cardinality(0..(m - 1)) = m
  <2> TAKE m \in Nat
  <2>1. 0 \in Int /\ m - 1 \in Int
    OBVIOUS
  <2>2. /\ IsFiniteSet(0..(m - 1))
        /\ Cardinality(0..(m - 1)) = IF 0 > m - 1 THEN 0 ELSE (m - 1) - 0 + 1
    BY <2>1, FS_Interval
  <2> QED
    BY <2>2
<1>4. ASSUME j < pos
      PROVE  Cardinality(before) = j
  <2>1. 0..(j - 1) \subseteq before
    BY <1>1, <1>4
  <2>2. before = 0..(j - 1)
    BY <2>1
  <2> QED
    BY <2>2, <1>1, <1>3
<1>5. \A m \in Nat : pos < m => Cardinality((0..(m - 1)) \ {pos}) = m - 1
  <2> TAKE m \in Nat
  <2> HAVE pos < m
  <2>1. pos \in 0..(m - 1) /\ m \in Nat
    BY <1>1
  <2>2. /\ IsFiniteSet(0..(m - 1))
        /\ Cardinality(0..(m - 1)) = m
    BY <1>3
  <2>3. Cardinality((0..(m - 1)) \ {pos}) = Cardinality(0..(m - 1)) - 1
    BY <2>1, <2>2, FS_RemoveElement
  <2> QED
    BY <2>2, <2>3
<1>6. ASSUME j > pos, j < n
      PROVE  Cardinality(before) = j - 1
  <2>1. (0..(j - 1)) \ {pos} \subseteq before /\ pos \notin before
    BY <1>1, <1>6
  <2>2. before = (0..(j - 1)) \ {pos}
    BY <2>1
  <2> QED
    BY <2>2, <1>1, <1>5, <1>6
<1>7. ASSUME j >= n
      PROVE  Cardinality(before) >= n - 1
  <2>1. (0..(n - 1)) \ {pos} \subseteq before
    BY <1>1, <1>7
  <2>2. Cardinality((0..(n - 1)) \ {pos}) <= Cardinality(before)
    BY <2>1, <1>2, FS_Subset
  <2>3. Cardinality((0..(n - 1)) \ {pos}) = n - 1
    BY <1>5
  <2> QED
    BY <2>2, <2>3, <1>2
<1> QED
  BY <1>2, <1>4, <1>6, <1>7 DEF Rank

\* c is t with the hole at pos closed: the used slots before it stay, those
\* behind it move up by one, and what was behind the first n slots stays
\* behind them.
HoleClosed(c, t, used, n, pos, size, zero) ==
  /\ DOMAIN c = 0..(size - 1)
  /\ \A k \in 0..(n - 2) : c[k] = t[IF k < pos THEN k ELSE k + 1]
  /\ \A k \in (n - 1)..(size - 1) :
       c[k] = zero \/ \E j \in used : j >= n /\ c[k] = t[j]

(***************************************************************************)
(* So Compact closes the hole in the first n slots and mixes nothing from  *)
(* behind them into what is then the first n - 1.                          *)
(***************************************************************************)
LEMMA CompactAroundHole ==
  ASSUME NEW size \in Nat, NEW n \in 1..size, NEW pos \in 0..(n - 1),
         NEW used, OneHole(used, n, pos, size),
         NEW t, DOMAIN t = 0..(size - 1), NEW zero
  PROVE  HoleClosed(Compact(t, used, zero), t, used, n, pos, size, zero)
<1> DEFINE c == Compact(t, used, zero)
           Origin(k) == CHOOSE j \in used : Rank(used, j) = k
<1>1. /\ size \in Nat /\ n \in Nat /\ pos \in Nat /\ pos < n /\ n <= size
      /\ used \subseteq 0..(size - 1)
      /\ \A x \in 0..(n - 1) : x \in used <=> x # pos
  BY DEF OneHole
<1>2. \A j \in used : /\ Rank(used, j) \in Nat
                      /\ j < pos => Rank(used, j) = j
                      /\ j > pos /\ j < n => Rank(used, j) = j - 1
                      /\ j >= n => Rank(used, j) >= n - 1
  BY RankAroundHole
<1>3. \A k : (\E j \in used : Rank(used, j) = k)
               => Origin(k) \in used /\ Rank(used, Origin(k)) = k
  OBVIOUS
<1>4. /\ DOMAIN c = 0..(size - 1)
      /\ \A k \in 0..(size - 1) :
           c[k] = IF \E j \in used : Rank(used, j) = k THEN t[Origin(k)] ELSE zero
  BY DEF Compact
<1> HIDE DEF c, Origin
<1>5. ASSUME NEW k \in 0..(n - 2)
      PROVE  c[k] = t[IF k < pos THEN k ELSE k + 1]
  <2> DEFINE source == IF k < pos THEN k ELSE k + 1
  <2>1. source \in used /\ Rank(used, source) = k
    BY <1>1, <1>2
  <2>2. Origin(k) \in used /\ Rank(used, Origin(k)) = k
    BY <1>3, <2>1
  <2>3. Origin(k) \in 0..(size - 1) /\ Origin(k) # pos
    BY <2>2, <1>1
  <2>4. Origin(k) = source
    <3>1. /\ Origin(k) < pos => k = Origin(k)
          /\ Origin(k) > pos /\ Origin(k) < n => k = Origin(k) - 1
          /\ Origin(k) >= n => k >= n - 1
      BY <2>2, <1>2
    <3> QED
      BY <2>3, <3>1, <1>1
  <2>5. k \in 0..(size - 1)
    BY <1>1
  <2> QED
    BY <2>1, <2>4, <2>5, <1>4
<1>6. ASSUME NEW k \in (n - 1)..(size - 1)
      PROVE  c[k] = zero \/ \E j \in used : j >= n /\ c[k] = t[j]
  <2>1. k \in 0..(size - 1)
    BY <1>1
  <2>2. CASE ~ \E j \in used : Rank(used, j) = k
    BY <2>1, <2>2, <1>4
  <2>3. CASE \E j \in used : Rank(used, j) = k
    <3>1. Origin(k) \in used /\ Rank(used, Origin(k)) = k
      BY <2>3, <1>3
    <3>2. Origin(k) \in 0..(size - 1) /\ Origin(k) # pos
      BY <3>1, <1>1
    <3>3. Origin(k) >= n
      BY <3>1, <3>2, <1>1, <1>2
    <3>4. c[k] = t[Origin(k)]
      BY <2>1, <2>3, <1>4
    <3> QED
      BY <3>1, <3>3, <3>4
  <2> QED
    BY <2>2, <2>3
<1> QED
  BY <1>4, <1>5, <1>6 DEF c, HoleClosed

\* c is t with its first n slots as they were, and nothing mixed into them.
PrefixKept(c, t, used, n, size, zero) ==
  /\ DOMAIN c = 0..(size - 1)
  /\ \A k \in 0..(n - 1) : c[k] = t[k]
  /\ \A k \in n..(size - 1) :
       c[k] = zero \/ \E j \in n..(size - 1) : j \in used /\ c[k] = t[j]

(***************************************************************************)
(* An array without a hole keeps its first n slots, and still nothing from *)
(* behind them gets in.                                                    *)
(***************************************************************************)
LEMMA CompactWithoutHole ==
  ASSUME NEW size \in Nat, NEW n \in 0..size,
         NEW used, used \subseteq 0..(size - 1), 0..(n - 1) \subseteq used,
         NEW t, DOMAIN t = 0..(size - 1), NEW zero
  PROVE  PrefixKept(Compact(t, used, zero), t, used, n, size, zero)
<1> DEFINE c == Compact(t, used, zero)
           Origin(k) == CHOOSE j \in used : Rank(used, j) = k
<1>1. size \in Nat /\ n \in Nat /\ n <= size
  OBVIOUS
<1>2. ASSUME NEW j \in used
      PROVE  /\ Rank(used, j) \in Nat
             /\ j < n => Rank(used, j) = j
             /\ j >= n => Rank(used, j) >= n
  <2> DEFINE before == {i \in used : i < j}
  <2>1. j \in 0..(size - 1) /\ j \in Nat /\ before \subseteq 0..(j - 1)
    <3>1. /\ used \subseteq 0..(size - 1)
          /\ \A x \in used : x \in Nat
      OBVIOUS
    <3>2. ASSUME NEW x \in before
          PROVE  x \in 0..(j - 1)
      <4>1. x \in Nat /\ j \in Nat /\ x < j
        BY <3>1
      <4> QED
        BY <4>1
    <3> QED
      BY <3>1, <3>2
  <2>2. \A m \in Nat : IsFiniteSet(0..(m - 1)) /\ Cardinality(0..(m - 1)) = m
    <3> TAKE m \in Nat
    <3>1. 0 \in Int /\ m - 1 \in Int
      OBVIOUS
    <3>2. /\ IsFiniteSet(0..(m - 1))
          /\ Cardinality(0..(m - 1)) = IF 0 > m - 1 THEN 0 ELSE (m - 1) - 0 + 1
      BY <3>1, FS_Interval
    <3> QED
      BY <3>2
  <2>3. IsFiniteSet(before) /\ Cardinality(before) \in Nat
    <3>1. j \in Nat
      BY <2>1
    <3> QED
      BY <2>1, <2>2, <3>1, FS_Subset, FS_CardinalityType
  <2>4. ASSUME j < n
        PROVE  Cardinality(before) = j
    <3>1. 0..(j - 1) \subseteq before
      <4>1. \A x \in 0..(j - 1) : x \in 0..(n - 1) /\ x < j
        BY <1>1, <2>1, <2>4
      <4>2. 0..(n - 1) \subseteq used
        OBVIOUS
      <4> QED
        BY <4>1, <4>2
    <3>2. before = 0..(j - 1)
      BY <2>1, <3>1
    <3> QED
      BY <2>1, <2>2, <3>2
  <2>5. ASSUME j >= n
        PROVE  Cardinality(before) >= n
    <3>1. 0..(n - 1) \subseteq before
      BY <1>1, <2>1, <2>5
    <3>2. Cardinality(0..(n - 1)) <= Cardinality(before)
      BY <2>3, <3>1, FS_Subset
    <3> QED
      BY <1>1, <2>2, <3>2
  <2> QED
    BY <2>3, <2>4, <2>5 DEF Rank
<1>3. \A k : (\E j \in used : Rank(used, j) = k)
               => Origin(k) \in used /\ Rank(used, Origin(k)) = k
  OBVIOUS
<1>4. /\ DOMAIN c = 0..(size - 1)
      /\ \A k \in 0..(size - 1) :
           c[k] = IF \E j \in used : Rank(used, j) = k THEN t[Origin(k)] ELSE zero
  BY DEF Compact
<1> HIDE DEF c, Origin
<1>5. ASSUME NEW k \in 0..(n - 1)
      PROVE  c[k] = t[k]
  <2>1. k \in used /\ k \in 0..(size - 1) /\ k < n
    BY <1>1
  <2>2. Rank(used, k) = k
    BY <1>2, <2>1
  <2>3. Origin(k) \in used /\ Rank(used, Origin(k)) = k
    BY <1>3, <2>1, <2>2
  <2>4. Origin(k) \in 0..(size - 1)
    BY <2>3
  <2>5. Origin(k) = k
    BY <1>1, <1>2, <2>1, <2>3, <2>4
  <2> QED
    BY <1>4, <2>1, <2>2, <2>5
<1>6. ASSUME NEW k \in n..(size - 1), c[k] # zero
      PROVE  \E j \in n..(size - 1) : j \in used /\ c[k] = t[j]
  <2>1. k \in 0..(size - 1)
    BY <1>1
  <2>2. (\E j \in used : Rank(used, j) = k) /\ c[k] = t[Origin(k)]
    BY <1>4, <1>6, <2>1
  <2>3. Origin(k) \in used /\ Rank(used, Origin(k)) = k
    BY <1>3, <2>2
  <2>4. Origin(k) \in 0..(size - 1)
    BY <2>3
  <2>5. Origin(k) >= n
    BY <1>1, <1>2, <2>3, <2>4
  <2> QED
    BY <1>1, <2>2, <2>3, <2>4, <2>5
<1> QED
  BY <1>4, <1>5, <1>6 DEF c, PrefixKept

-----------------------------------------------------------------------------
(* Searching                                                               *)

LEMMA LeastOfIsLeast ==
  ASSUME NEW S, S \subseteq Nat, S # {}
  PROVE  /\ LeastOf(S) \in S
         /\ \A j \in S : LeastOf(S) <= j
<1> DEFINE below == OpToRel(<, Nat)
<1>1. IsWellFoundedOn(below, Nat)
  BY NatLessThanWellFounded
<1>2. \A x, y \in Nat : <<y, x>> \in below <=> y < x
  BY DEF OpToRel
<1> HIDE DEF below
<1>3. PICK x \in S : \A y \in S : ~ (<<y, x>> \in below)
  BY <1>1, WFMin
<1>4. ASSUME NEW y \in S
      PROVE  x <= y
  <2>1. x \in Nat /\ y \in Nat
    OBVIOUS
  <2>2. ~ (y < x)
    BY <2>1, <1>2, <1>3
  <2> QED
    BY <2>1, <2>2
<1> QED
  BY <1>3, <1>4 DEF LeastOf

(***************************************************************************)
(* Induction over the turns of a loop: what holds before the first and is  *)
(* kept by each holds after all n.                                         *)
(***************************************************************************)
LEMMA TurnByTurn ==
  ASSUME NEW n \in Nat, NEW S,
         0 \in S,
         \A k \in 0..(n - 1) : k \in S => k + 1 \in S
  PROVE  \A k \in 0..n : k \in S
<1> DEFINE missing == {k \in 0..n : k \notin S}
<1> SUFFICES ASSUME missing # {}
             PROVE  FALSE
  OBVIOUS
<1>1. missing \subseteq Nat
  OBVIOUS
<1> DEFINE first == LeastOf(missing)
<1>2. first \in missing /\ \A k \in missing : first <= k
  BY <1>1, LeastOfIsLeast
<1> HIDE DEF first
<1>3. first \in 0..n /\ first \notin S /\ first # 0
  BY <1>2
<1>4. first - 1 \in 0..(n - 1) /\ first - 1 \in 0..n
  BY <1>3
<1>5. first - 1 \in S
  <2>1. first - 1 \notin missing
    BY <1>2, <1>3, <1>4
  <2> QED
    BY <1>4, <2>1
<1>6. (first - 1) + 1 \in S
  BY <1>4, <1>5
<1> QED
  BY <1>3, <1>6

-----------------------------------------------------------------------------
(* Powers                                                                  *)

\* The first n + 1 powers of b.
Powers(b, n) ==
  {g \in [0..n -> Nat] : g[0] = 1 /\ \A i \in 1..n : g[i] = b * g[i - 1]}

LEMMA PowersExist ==
  ASSUME NEW b \in Nat
  PROVE  \A n \in Nat : Powers(b, n) # {}
<1> DEFINE bad == {n \in Nat : Powers(b, n) = {}}
<1>1. SUFFICES ASSUME bad # {}
               PROVE  FALSE
  OBVIOUS
<1>2. LeastOf(bad) \in bad /\ \A j \in bad : LeastOf(bad) <= j
  BY <1>1, LeastOfIsLeast
<1>3. PICK n \in Nat : Powers(b, n) = {} /\ \A j \in bad : n <= j
  BY <1>2
<1>4. n # 0
  <2>1. 0..0 = {0} /\ 1..0 = {}
    OBVIOUS
  <2>2. [i \in 0..0 |-> 1] \in Powers(b, 0)
    BY <2>1 DEF Powers
  <2> QED
    BY <1>3, <2>2
<1>5. n - 1 \in Nat /\ n - 1 \notin bad
  BY <1>3, <1>4
<1>6. PICK g : g \in Powers(b, n - 1)
  BY <1>5
<1>7. /\ g \in [0..(n - 1) -> Nat] /\ g[0] = 1
      /\ \A i \in 1..(n - 1) : g[i] = b * g[i - 1]
  BY <1>6 DEF Powers
<1> DEFINE h == [i \in 0..n |-> IF i = n THEN b * g[n - 1] ELSE g[i]]
<1>8. \A i \in 0..n : i = n \/ i \in 0..(n - 1)
  BY <1>5
<1>9. n - 1 \in 0..(n - 1) /\ g[n - 1] \in Nat
  BY <1>5, <1>7
<1>10. h \in [0..n -> Nat]
  BY <1>7, <1>8, <1>9
<1>11. h[0] = 1
  BY <1>4, <1>7
<1>12. ASSUME NEW i \in 1..n
       PROVE  h[i] = b * h[i - 1]
  <2>1. CASE i = n
    BY <1>4, <1>5, <2>1
  <2>2. CASE i # n
    <3>1. /\ i \in 1..(n - 1) /\ i \in 0..n
          /\ i - 1 \in 0..n /\ i - 1 # n
      BY <2>2
    <3>2. h[i] = g[i] /\ h[i - 1] = g[i - 1]
      BY <2>2, <3>1
    <3> QED
      BY <1>7, <3>1, <3>2
  <2> QED
    BY <2>1, <2>2
<1>13. h \in Powers(b, n)
  BY <1>10, <1>11, <1>12 DEF Powers
<1> QED
  BY <1>3, <1>13

LEMMA PowersAgree ==
  ASSUME NEW b \in Nat, NEW m \in Nat, NEW n \in Nat,
         NEW g \in Powers(b, m), NEW h \in Powers(b, n),
         NEW k \in Nat, k <= m, k <= n
  PROVE  g[k] = h[k]
<1> DEFINE bad == {i \in Nat : i <= m /\ i <= n /\ g[i] # h[i]}
<1>1. SUFFICES ASSUME bad # {}
               PROVE  FALSE
  OBVIOUS
<1>2. LeastOf(bad) \in bad /\ \A j \in bad : LeastOf(bad) <= j
  BY <1>1, LeastOfIsLeast
<1>3. PICK i \in Nat : /\ i <= m /\ i <= n /\ g[i] # h[i]
                       /\ \A j \in bad : i <= j
  BY <1>2
<1>4. /\ g[0] = 1 /\ \A j \in 1..m : g[j] = b * g[j - 1]
      /\ h[0] = 1 /\ \A j \in 1..n : h[j] = b * h[j - 1]
  BY DEF Powers
<1>5. i # 0
  BY <1>3, <1>4
<1>6. i \in 1..m /\ i \in 1..n /\ i - 1 \in Nat /\ i - 1 <= m /\ i - 1 <= n
  BY <1>3, <1>5
<1>7. i - 1 \notin bad
  BY <1>3
<1>8. g[i - 1] = h[i - 1]
  BY <1>6, <1>7
<1> QED
  BY <1>3, <1>4, <1>6, <1>8

\* f is the function that the recursive definition of b's powers speaks of.
ArePowers(f, b) == f = [n \in Nat |-> IF n = 0 THEN 1 ELSE b * f[n - 1]]

LEMMA AllPowersExist ==
  ASSUME NEW b \in Nat
  PROVE  \E f : ArePowers(f, b)
<1> DEFINE G(n) == CHOOSE g : g \in Powers(b, n)
           f == [n \in Nat |-> G(n)[n]]
<1>1. ASSUME NEW n \in Nat
      PROVE  G(n) \in Powers(b, n)
  <2>1. \E g : g \in Powers(b, n)
    BY PowersExist
  <2> QED
    BY <2>1
<1> HIDE DEF G
<1>2. f[0] = 1
  <2>1. G(0) \in Powers(b, 0)
    BY <1>1
  <2>2. G(0)[0] = 1
    BY <2>1 DEF Powers
  <2> QED
    BY <2>2
<1>3. ASSUME NEW n \in Nat, n # 0
      PROVE  f[n] = b * f[n - 1]
  <2>1. n - 1 \in Nat /\ n \in 1..n
    BY <1>3
  <2>2. G(n) \in Powers(b, n) /\ G(n - 1) \in Powers(b, n - 1)
    BY <1>1, <2>1
  <2>3. G(n)[n] = b * G(n)[n - 1]
    BY <2>1, <2>2 DEF Powers
  <2>4. G(n)[n - 1] = G(n - 1)[n - 1]
    BY <2>1, <2>2, PowersAgree
  <2> QED
    BY <2>1, <2>3, <2>4
<1>4. f = [n \in Nat |-> IF n = 0 THEN 1 ELSE b * f[n - 1]]
  BY <1>2, <1>3
<1> QED
  BY <1>4 DEF ArePowers

LEMMA PowersMultiply ==
  ASSUME NEW b \in Nat \ {0}, NEW f, ArePowers(f, b)
  PROVE  /\ f \in [Nat -> Nat \ {0}]
         /\ f[0] = 1
         /\ \A n \in Nat : f[n + 1] = b * f[n]
<1>1. f = [n \in Nat |-> IF n = 0 THEN 1 ELSE b * f[n - 1]]
  BY DEF ArePowers
<1>2. f[0] = 1
  BY <1>1
<1>3. ASSUME NEW n \in Nat
      PROVE  f[n + 1] = b * f[n]
  <2>1. n + 1 \in Nat /\ n + 1 # 0 /\ (n + 1) - 1 = n
    OBVIOUS
  <2> QED
    BY <1>1, <2>1
<1>4. ASSUME NEW n \in Nat
      PROVE  f[n] \in Nat \ {0}
  <2> DEFINE bad == {k \in Nat : f[k] \notin Nat \ {0}}
  <2>1. SUFFICES ASSUME bad # {}
                 PROVE  FALSE
    OBVIOUS
  <2>2. LeastOf(bad) \in bad /\ \A j \in bad : LeastOf(bad) <= j
    BY <2>1, LeastOfIsLeast
  <2>3. PICK k \in Nat : f[k] \notin Nat \ {0} /\ \A j \in bad : k <= j
    BY <2>2
  <2>4. k # 0
    BY <1>2, <2>3
  <2>5. k - 1 \in Nat /\ k - 1 \notin bad /\ (k - 1) + 1 = k
    BY <2>3, <2>4
  <2>6. f[k - 1] \in Nat \ {0} /\ f[k] = b * f[k - 1]
    BY <1>3, <2>5
  <2> QED
    BY <2>3, <2>6
<1> QED
  BY <1>1, <1>2, <1>3, <1>4
=============================================================================
