----------------------------- MODULE DiskProofs -----------------------------
(***************************************************************************)
(* Proofs about the disk's driver and its server: bytes and words survive  *)
(* their digits, the two never disagree about what is on the line, and     *)
(* together they are a block device.                                       *)
(***************************************************************************)
EXTENDS DiskProtocol, ArrayLemmas, SequenceTheorems

-----------------------------------------------------------------------------
(* Numbers *)

LEMMA ProductMonotone ==
  ASSUME NEW a \in Nat, NEW b \in Nat, NEW c \in Nat, a <= b
  PROVE  c * a \in Nat /\ c * b \in Nat /\ c * a <= c * b
<1>1. b - a \in Nat /\ b = a + (b - a)
  OBVIOUS
<1>2. c * (b - a) \in Nat /\ c * a \in Nat /\ c * b \in Nat
  BY <1>1
<1>3. c * b = c * a + c * (b - a)
  BY <1>1
<1> QED
  BY <1>2, <1>3

(***************************************************************************)
(* What quotient and remainder are.                                        *)
(***************************************************************************)
LEMMA Quotient ==
  ASSUME NEW a \in Nat, NEW d \in Nat \ {0}
  PROVE  /\ a \div d \in Nat /\ a % d \in 0..(d - 1)
         /\ a = d * (a \div d) + (a % d)
  OBVIOUS

(***************************************************************************)
(* There is no other.                                                      *)
(***************************************************************************)
LEMMA QuotientUnique ==
  ASSUME NEW a \in Nat, NEW d \in Nat \ {0}, NEW q \in Nat, NEW r \in 0..(d - 1),
         a = d * q + r
  PROVE  a \div d = q /\ a % d = r
<1> DEFINE p == a \div d
           s == a % d
<1>1. p \in Nat /\ s \in 0..(d - 1) /\ a = d * p + s
  BY Quotient
<1> HIDE DEF p, s
<1>2. ~ p < q
  <2> SUFFICES ASSUME p < q PROVE FALSE
    OBVIOUS
  <2>1. p + 1 \in Nat /\ p + 1 <= q
    BY <1>1
  <2>2. d * (p + 1) <= d * q
    BY <2>1, ProductMonotone
  <2>3. d * (p + 1) = d * p + d /\ d * p \in Nat /\ d * q \in Nat
    BY <1>1
  <2> QED
    BY <1>1, <2>2, <2>3
<1>3. ~ q < p
  <2> SUFFICES ASSUME q < p PROVE FALSE
    OBVIOUS
  <2>1. q + 1 \in Nat /\ q + 1 <= p
    BY <1>1
  <2>2. d * (q + 1) <= d * p
    BY <1>1, <2>1, ProductMonotone
  <2>3. d * (q + 1) = d * q + d /\ d * p \in Nat /\ d * q \in Nat
    BY <1>1
  <2> QED
    BY <1>1, <2>2, <2>3
<1>4. p = q
  BY <1>1, <1>2, <1>3
<1>5. s = r
  BY <1>1, <1>4
<1> QED
  BY <1>4, <1>5 DEF p, s

LEMMA QuotientBelow ==
  ASSUME NEW a \in Nat, NEW d \in Nat \ {0}, NEW m \in Nat, a < d * m
  PROVE  a \div d \in Nat /\ a \div d < m
<1> DEFINE q == a \div d
<1>1. q \in Nat /\ a >= d * q /\ d * q \in Nat
  BY Quotient
<1> HIDE DEF q
<1>2. m <= q => d * m <= d * q
  BY <1>1, ProductMonotone
<1>3. d * m \in Nat
  OBVIOUS
<1>4. q < m
  BY <1>1, <1>2, <1>3
<1> QED
  BY <1>1, <1>4 DEF q

(***************************************************************************)
(* Dividing by a product is dividing twice.                                *)
(***************************************************************************)
LEMMA QuotientTwice ==
  ASSUME NEW a \in Nat, NEW d \in Nat \ {0}, NEW e \in Nat \ {0}
  PROVE  a \div (e * d) = (a \div d) \div e
<1> DEFINE q == a \div d
           r == a % d
           t == q \div e
           u == q % e
<1>1. q \in Nat /\ r \in 0..(d - 1) /\ a = d * q + r
  BY Quotient
<1> HIDE DEF q, r
<1>2. t \in Nat /\ u \in 0..(e - 1) /\ q = e * t + u
  BY <1>1, Quotient
<1> HIDE DEF t, u
<1>3. e * d \in Nat \ {0}
  OBVIOUS
<1>4. d * q = d * (e * t) + d * u
  BY <1>2
<1>5. d * (e * t) = (e * d) * t
  BY <1>2
<1>6. d * u + r \in 0..(e * d - 1)
  <2>1. u \in Nat /\ e - 1 \in Nat /\ u <= e - 1
    BY <1>2
  <2>2. d * u \in Nat /\ d * u <= d * (e - 1)
    BY <2>1, ProductMonotone
  <2>3. d * (e - 1) = e * d - d
    OBVIOUS
  <2> QED
    BY <1>1, <1>3, <2>2, <2>3
<1>7. a = (e * d) * t + (d * u + r)
  <2>1. d * (e * t) \in Nat /\ d * u \in Nat /\ d * q \in Nat /\ (e * d) * t \in Nat
    BY <1>1, <1>2
  <2> QED
    BY <1>1, <1>4, <1>5, <2>1
<1>8. a \div (e * d) = t
  BY <1>2, <1>3, <1>6, <1>7, QuotientUnique
<1> QED
  BY <1>8 DEF t, q

-----------------------------------------------------------------------------
(* Sequences *)

LEMMA FunctionIsSequence ==
  ASSUME NEW S, NEW m \in Nat, NEW s \in [1..m -> S]
  PROVE  s \in Seq(S) /\ Len(s) = m
<1>1. s = [i \in 1..m |-> s[i]] /\ \A i \in 1..m : s[i] \in S
  OBVIOUS
<1>2. [i \in 1..m |-> s[i]] \in Seq(S) /\ Len([i \in 1..m |-> s[i]]) = m
  BY <1>1
<1> QED
  BY <1>1, <1>2

-----------------------------------------------------------------------------
(* Digits                                                                  *)

LEMMA BaseFacts ==
  /\ Radix \in Nat /\ Radix >= 2
  /\ Base \in Nat /\ Base = Radix * Radix /\ Base >= 4
  /\ Byte = 0..(Base - 1) /\ {0, 1, 2} \subseteq Byte
<1>1. Radix \in Nat /\ Radix >= 2
  BY DiskAssumption
<1>2. Radix * Radix \in Nat /\ Radix * 2 <= Radix * Radix
  BY <1>1, ProductMonotone
<1>3. Radix * Radix >= 4
  BY <1>1, <1>2
<1> QED
  BY <1>1, <1>2, <1>3 DEF Base, Byte

LEMMA ByteOfDigits ==
  ASSUME NEW b \in Byte
  PROVE  /\ b \div Radix \in 0..(Radix - 1) /\ b % Radix \in 0..(Radix - 1)
         /\ Radix * (b \div Radix) + (b % Radix) = b
<1>1. b \in Nat /\ b < Radix * Radix /\ Radix \in Nat \ {0}
  BY BaseFacts
<1>2. b \div Radix \in Nat /\ b \div Radix < Radix
  BY <1>1, QuotientBelow
<1>3. b % Radix \in 0..(Radix - 1) /\ b = Radix * (b \div Radix) + (b % Radix)
  BY <1>1, Quotient
<1> QED
  BY <1>1, <1>2, <1>3

(***************************************************************************)
(* Bytes become digits, and the same bytes again.                          *)
(***************************************************************************)
LEMMA DigitsAndBack ==
  ASSUME NEW bytes \in Seq(Byte)
  PROVE  /\ puth(bytes) \in Seq(0..(Radix - 1))
         /\ Len(puth(bytes)) = 2 * Len(bytes)
         /\ geth(puth(bytes)) = bytes
<1> DEFINE n == Len(bytes)
           Digit(k) == IF k % 2 = 1 THEN bytes[(k + 1) \div 2] \div Radix ELSE bytes[k \div 2] % Radix
<1>1. n \in Nat /\ \A i \in 1..n : bytes[i] \in Byte
  OBVIOUS
<1>2. puth(bytes) = [k \in 1..(2 * n) |-> Digit(k)]
  BY DEF puth
<1>3. ASSUME NEW i \in 1..n
      PROVE  /\ 2 * i - 1 \in 1..(2 * n) /\ 2 * i \in 1..(2 * n)
             /\ Digit(2 * i - 1) = bytes[i] \div Radix
             /\ Digit(2 * i) = bytes[i] % Radix
  <2>1. /\ 2 * i - 1 \in 1..(2 * n) /\ 2 * i \in 1..(2 * n)
        /\ (2 * i - 1) % 2 = 1 /\ ((2 * i - 1) + 1) \div 2 = i
        /\ (2 * i) % 2 = 0 /\ (2 * i) \div 2 = i
    BY <1>1
  <2> QED
    BY <2>1
<1>4. ASSUME NEW k \in 1..(2 * n)
      PROVE  Digit(k) \in 0..(Radix - 1)
  <2>1. k % 2 = 1 => (k + 1) \div 2 \in 1..n
    BY <1>1
  <2>2. k % 2 # 1 => k \div 2 \in 1..n
    BY <1>1
  <2> QED
    BY <1>1, <2>1, <2>2, ByteOfDigits
<1> HIDE DEF Digit, n
<1>5. 2 * n \in Nat
  BY <1>1
<1>6. puth(bytes) \in [1..(2 * n) -> 0..(Radix - 1)]
  BY <1>2, <1>4
<1>7. puth(bytes) \in Seq(0..(Radix - 1)) /\ Len(puth(bytes)) = 2 * n
  BY <1>5, <1>6, FunctionIsSequence
<1>8. geth(puth(bytes)) = [i \in 1..n |-> bytes[i]]
  <2>1. (2 * n) \div 2 = n
    BY <1>1
  <2>2. \A i \in 1..n : Radix * puth(bytes)[2 * i - 1] + puth(bytes)[2 * i] = bytes[i]
    <3> TAKE i \in 1..n
    <3>1. puth(bytes)[2 * i - 1] = bytes[i] \div Radix /\ puth(bytes)[2 * i] = bytes[i] % Radix
      BY <1>2, <1>3
    <3> QED
      BY <1>1, <3>1, ByteOfDigits
  <2> QED
    BY <1>7, <2>1, <2>2 DEF geth
<1>9. bytes = [i \in 1..n |-> bytes[i]]
  BY DEF n
<1> QED
  BY <1>7, <1>8, <1>9 DEF n

-----------------------------------------------------------------------------
(* Words                                                                   *)

LEMMA PowerMultiplies ==
  /\ Power \in [Nat -> Nat \ {0}]
  /\ Power[0] = 1
  /\ \A n \in Nat : Power[n + 1] = Base * Power[n]
<1>1. ArePowers(Power, Base)
  <2>1. \E f : f = [n \in Nat |-> IF n = 0 THEN 1 ELSE Base * f[n - 1]]
    BY AllPowersExist, BaseFacts DEF ArePowers
  <2> QED
    BY <2>1 DEF Power, ArePowers
<1>2. Base \in Nat \ {0}
  BY BaseFacts
<1> QED
  BY <1>1, <1>2, PowersMultiply

LEMMA BytesOfWord ==
  ASSUME NEW w \in Nat
  PROVE  /\ Bytes(w) \in Seq(Byte) /\ Len(Bytes(w)) = WordLength
         /\ \A i \in 1..WordLength : Bytes(w)[i] = (w \div Power[i - 1]) % Base
<1>1. WordLength \in Nat
  BY DiskAssumption
<1>2. ASSUME NEW i \in 1..WordLength
      PROVE  (w \div Power[i - 1]) % Base \in Byte
  <2>1. i - 1 \in Nat /\ Base \in Nat \ {0}
    BY BaseFacts
  <2>2. Power[i - 1] \in Nat \ {0}
    BY <2>1, PowerMultiplies
  <2>3. w \div Power[i - 1] \in Nat
    BY <2>2, Quotient
  <2>4. (w \div Power[i - 1]) % Base \in 0..(Base - 1)
    BY <2>1, <2>3, Quotient
  <2> QED
    BY <2>4 DEF Byte
<1>3. Bytes(w) \in [1..WordLength -> Byte]
  BY <1>2 DEF Bytes
<1> QED
  BY <1>1, <1>3 DEF Bytes

\* f[k] is the number that the last k of the bytes make.
OfLastBytes(f, bytes, n) ==
  f = [k \in 0..n |-> IF k = 0 THEN 0 ELSE bytes[n - k + 1] + Base * f[k - 1]]

LEMMA OfLastExists ==
  ASSUME NEW bytes, NEW n \in Nat
  PROVE  \E f : OfLastBytes(f, bytes, n)
<1> DEFINE Turn(f, m) ==
             f = [k \in 0..m |-> IF k = 0 THEN 0 ELSE bytes[n - k + 1] + Base * f[k - 1]]
           reached == {m \in Nat : \E f : Turn(f, m)}
<1>1. 0 \in reached
  <2>1. Turn([k \in 0..0 |-> 0], 0)
    OBVIOUS
  <2> QED
    BY <2>1
<1>2. ASSUME NEW m \in 0..(n - 1), m \in reached
      PROVE  m + 1 \in reached
  <2>1. PICK f : Turn(f, m)
    BY <1>2
  <2> DEFINE g == [k \in 0..(m + 1) |->
                     IF k = m + 1 THEN bytes[n - (m + 1) + 1] + Base * f[m] ELSE f[k]]
  <2>2. m \in Nat /\ m + 1 \in Nat /\ (m + 1) - 1 = m
    OBVIOUS
  <2>3. \A k \in 0..(m + 1) :
          g[k] = IF k = 0 THEN 0 ELSE bytes[n - k + 1] + Base * g[k - 1]
    <3> TAKE k \in 0..(m + 1)
    <3>1. CASE k = m + 1
      <4>1. /\ g[k] = bytes[n - (m + 1) + 1] + Base * f[m]
            /\ g[m] = f[m] /\ k # 0 /\ k - 1 = m
        BY <2>2, <3>1
      <4> QED
        BY <3>1, <4>1
    <3>2. CASE k \in 0..m
      <4>1. g[k] = f[k] /\ (k # 0 => k - 1 \in 0..m /\ g[k - 1] = f[k - 1])
        BY <2>2, <3>2
      <4> QED
        BY <2>1, <3>2, <4>1
    <3> QED
      BY <2>2, <3>1, <3>2
  <2>4. Turn(g, m + 1)
    BY <2>3
  <2> QED
    BY <2>2, <2>4
<1> HIDE DEF reached
<1>3. n \in reached
  BY <1>1, <1>2, TurnByTurn
<1> QED
  BY <1>3 DEF reached, OfLastBytes

(***************************************************************************)
(* A word becomes bytes, and the same word again.                          *)
(***************************************************************************)
LEMMA WordAndBack ==
  ASSUME NEW w \in Nat, w < Power[WordLength]
  PROVE  Word(Bytes(w)) = w
<1> DEFINE n == WordLength
           bytes == Bytes(w)
           f == CHOOSE f : OfLastBytes(f, bytes, n)
           right == {k \in 0..n : f[k] = w \div Power[n - k]}
<1>1. n \in Nat /\ Len(bytes) = n /\ Base \in Nat \ {0}
  BY BytesOfWord, BaseFacts, DiskAssumption
<1>2. Word(bytes) = f[n]
  BY <1>1 DEF Word, OfLastBytes
<1>3. OfLastBytes(f, bytes, n)
  BY <1>1, OfLastExists
<1> HIDE DEF f
<1>4. \A k \in 0..n : f[k] = IF k = 0 THEN 0 ELSE bytes[n - k + 1] + Base * f[k - 1]
  BY <1>3 DEF OfLastBytes
<1>5. 0 \in right
  <2> DEFINE d == Power[n]
  <2>0. d \in Nat \ {0} /\ w < d
    BY <1>1, PowerMultiplies
  <2> HIDE DEF d
  <2>1. w = d * 0 + w /\ w \in 0..(d - 1) /\ 0 \in Nat
    BY <2>0
  <2>2. w \div d = 0
    BY <2>0, <2>1, QuotientUnique
  <2>3. f[0] = 0 /\ n - 0 = n
    BY <1>1, <1>4
  <2> QED
    BY <1>1, <2>2, <2>3 DEF d
<1>6. ASSUME NEW k \in 0..(n - 1), k \in right
      PROVE  k + 1 \in right
  <2> DEFINE j == n - k - 1
             p == Power[j]
             q == w \div p
  <2>1. /\ k + 1 \in 0..n /\ k + 1 # 0 /\ (k + 1) - 1 = k
        /\ j \in Nat /\ n - (k + 1) = j /\ n - k = j + 1
        /\ n - (k + 1) + 1 = j + 1 /\ j + 1 \in 1..n /\ (j + 1) - 1 = j
    BY <1>1
  <2>2. p \in Nat \ {0} /\ Power[j + 1] = Base * p
    BY <2>1, PowerMultiplies
  <2>3. bytes[j + 1] = q % Base
    BY <2>1, BytesOfWord
  <2>4. f[k] = w \div (Base * p)
    BY <1>6, <2>1, <2>2
  <2>5. f[k] = q \div Base
    BY <1>1, <2>2, <2>4, QuotientTwice
  <2>6. f[k + 1] = bytes[j + 1] + Base * f[k]
    BY <1>4, <2>1
  <2>7. q \in Nat
    BY <2>2, Quotient
  <2> HIDE DEF q
  <2>8. /\ q \div Base \in Nat /\ q % Base \in 0..(Base - 1)
        /\ q = Base * (q \div Base) + (q % Base)
    BY <1>1, <2>7, Quotient
  <2>9. f[k + 1] = q
    BY <1>1, <2>3, <2>5, <2>6, <2>8
  <2> QED
    BY <2>1, <2>9 DEF q
<1> HIDE DEF right
<1>7. n \in right
  <2>1. n \in Nat
    BY <1>1
  <2> HIDE DEF n
  <2>2. \A k \in 0..n : k \in right
    BY <2>1, <1>5, <1>6, TurnByTurn
  <2> QED
    BY <2>1, <2>2
<1>8. f[n] = w \div Power[0] /\ Power[0] = 1
  <2>1. n - n = 0
    BY <1>1
  <2> QED
    BY <1>7, <2>1, PowerMultiplies DEF right
<1>9. w \div 1 = w
  OBVIOUS
<1> QED
  BY <1>2, <1>8, <1>9

(***************************************************************************)
(* The server takes an address for negative or for what it is.             *)
(***************************************************************************)
LEMMA AddressAndBack ==
  ASSUME NEW w \in 0..(Power[WordLength] - 1)
  PROVE  /\ unpack(geth(addr_puth(w))) \in Int
         /\ unpack(geth(addr_puth(w))) >= 0 => unpack(geth(addr_puth(w))) = w
<1>1. WordLength \in Nat
  BY DiskAssumption
<1>2. Power[WordLength] \in Nat
  BY <1>1, PowerMultiplies
<1>3. w \in Nat /\ w < Power[WordLength]
  BY <1>2
<1>4. geth(addr_puth(w)) = Bytes(w)
  BY <1>3, BytesOfWord, DigitsAndBack DEF addr_puth
<1>5. Word(geth(addr_puth(w))) = w
  BY <1>3, <1>4, WordAndBack
<1> QED
  BY <1>2, <1>3, <1>5 DEF unpack

-----------------------------------------------------------------------------
(* What is on the line                                                     *)

\* What an answer carries.
AnswerData(c) ==
  IF c.op \in {"num", "len"} THEN Bytes(block_num) \o Bytes(block_len) ELSE store[c.addr]

\* The characters behind the command of a successful answer.
Trail(c) ==
  IF c.op = "wr" THEN <<EOL>> ELSE <<Space>> \o puth(AnswerData(c)) \o <<EOL>>

\* The store is as the success of c says.
Done(c) ==
  /\ c.op \in {"wr", "rd"} => c.addr \in DOMAIN store
  /\ c.op = "wr" => store[c.addr] = c.data

Nothing == toServer = <<>> /\ toDriver = <<>>

StoreOK == store \in [0..(block_num - 1) -> [1..block_len -> Byte]]

StateOK ==
  /\ StoreOK
  /\ call \in Request \cup {Device!NoCall}
  /\ attempt \in 1..DISK_RETRY
  /\ at \in {"idle", "send", "command", "answer", "refused"}
  /\ result \in Seq(Int)
  /\ up \in BOOLEAN

\* Where the driver is, and what is on the line then.
LineOK ==
  /\ at = "idle" <=> call = Device!NoCall
  /\ at = "idle" => attempt = 1
  /\ ~up => at = "command"
  /\ at \in {"idle", "send"} => Nothing
  /\ at = "command" =>
       \/ up /\ toServer = <<Line(call)>> /\ toDriver = <<>>
       \/ up /\ toServer = <<>> /\ toDriver = ACK_FAIL \o <<EOL>>
       \/ up /\ toServer = <<>> /\ toDriver = ACK_OKAY \o Trail(call) /\ Done(call)
       \/ ~up /\ Nothing
  /\ at = "answer" => toServer = <<>> /\ toDriver = Trail(call) /\ Done(call)
  /\ at = "refused" => toServer = <<>> /\ toDriver = <<EOL>>

DiskInv == StateOK /\ LineOK

(***************************************************************************)
(* What is between the first and the last character of a sequence.         *)
(***************************************************************************)
LEMMA BetweenEnds ==
  ASSUME NEW S, NEW a \in S, NEW d \in Seq(S), NEW z \in S
  PROVE  /\ <<a>> \o d \o <<z>> \in Seq(S)
         /\ Len(<<a>> \o d \o <<z>>) = Len(d) + 2
         /\ SubSeq(<<a>> \o d \o <<z>>, 2, Len(d) + 1) = d
         /\ (<<a>> \o d \o <<z>>)[Len(d) + 2] = z
<1> DEFINE t == <<a>> \o d \o <<z>>
<1>1. Len(d) \in Nat /\ <<a>> \in Seq(S) /\ <<z>> \in Seq(S) /\ Len(<<a>>) = 1 /\ Len(<<z>>) = 1
  OBVIOUS
<1>2. /\ <<a>> \o d \in Seq(S) /\ Len(<<a>> \o d) = Len(d) + 1
      /\ \A i \in 1..(Len(d) + 1) : (<<a>> \o d)[i] = IF i <= 1 THEN <<a>>[i] ELSE d[i - 1]
  BY <1>1, ConcatProperties
<1>3. /\ t \in Seq(S) /\ Len(t) = Len(d) + 2
      /\ \A i \in 1..(Len(d) + 2) :
           t[i] = IF i <= Len(d) + 1 THEN (<<a>> \o d)[i] ELSE <<z>>[i - (Len(d) + 1)]
  BY <1>1, <1>2, ConcatProperties
<1>4. t[Len(d) + 2] = z
  BY <1>1, <1>3
<1>5. \A i \in 1..Len(d) : t[i + 1] = d[i]
  <2> TAKE i \in 1..Len(d)
  <2>1. i + 1 \in 1..(Len(d) + 1) /\ i + 1 \in 1..(Len(d) + 2) /\ ~ i + 1 <= 1 /\ (i + 1) - 1 = i
    BY <1>1
  <2> QED
    BY <1>2, <1>3, <2>1
<1> HIDE DEF t
<1>6. \A i \in 2..(Len(d) + 1) : t[i] \in S
  BY <1>1, <1>3
<1>7. /\ SubSeq(t, 2, Len(d) + 1) \in Seq(S)
      /\ Len(SubSeq(t, 2, Len(d) + 1)) = Len(d)
      /\ \A i \in 1..Len(d) : SubSeq(t, 2, Len(d) + 1)[i] = t[i + 1]
  <2>1. 2 \in Int /\ Len(d) + 1 \in Int /\ (Len(d) + 1) - 2 + 1 = Len(d)
    BY <1>1
  <2>2. /\ SubSeq(t, 2, Len(d) + 1) \in Seq(S)
        /\ Len(SubSeq(t, 2, Len(d) + 1)) = IF 2 <= Len(d) + 1 THEN (Len(d) + 1) - 2 + 1 ELSE 0
        /\ \A i \in 1..((Len(d) + 1) - 2 + 1) : SubSeq(t, 2, Len(d) + 1)[i] = t[2 + i - 1]
    BY <1>6, <2>1, SubSeqProperties
  <2>3. \A i \in 1..Len(d) : 2 + i - 1 = i + 1
    OBVIOUS
  <2> QED
    BY <1>1, <2>1, <2>2, <2>3
<1>8. SubSeq(t, 2, Len(d) + 1) = d
  BY <1>5, <1>7, SeqEqual
<1> QED
  BY <1>3, <1>4, <1>8 DEF t

\* The first m members of u are a, the other n are t.
ConsistsOf(u, a, t, m, n) ==
  /\ Len(u) = m + n
  /\ SubSeq(u, 1, m) = a
  /\ SubSeq(u, m + 1, m + n) = t

(***************************************************************************)
(* The two parts of a concatenation.                                       *)
(***************************************************************************)
LEMMA PartsOfConcat ==
  ASSUME NEW S, NEW a \in Seq(S), NEW t \in Seq(S)
  PROVE  a \o t \in Seq(S) /\ ConsistsOf(a \o t, a, t, Len(a), Len(t))
<1> DEFINE m == Len(a)
           n == Len(t)
           u == a \o t
<1>1. m \in Nat /\ n \in Nat
  OBVIOUS
<1>2. /\ u \in Seq(S) /\ Len(u) = m + n
      /\ \A i \in 1..(m + n) : u[i] = IF i <= m THEN a[i] ELSE t[i - m]
  <2>1. /\ u \in Seq(S) /\ Len(u) = Len(a) + Len(t)
        /\ \A i \in 1..(Len(a) + Len(t)) : u[i] = IF i <= Len(a) THEN a[i] ELSE t[i - Len(a)]
    BY ConcatProperties
  <2> HIDE DEF u
  <2> QED
    BY <2>1
<1> HIDE DEF m, n
<1>3. \A i \in 1..m : u[i] = a[i]
  BY <1>1, <1>2
<1>4. \A i \in 1..n : u[i + m] = t[i]
  <2> TAKE i \in 1..n
  <2>1. i + m \in 1..(m + n) /\ ~ i + m <= m /\ (i + m) - m = i
    BY <1>1
  <2> QED
    BY <1>1, <1>2, <2>1
<1> HIDE DEF u
<1>5. \A i \in 1..(m + n) : u[i] \in S
  BY <1>2
<1>6. SubSeq(u, 1, m) = a
  <2>1. \A i \in 1..m : u[i] \in S
    BY <1>1, <1>5
  <2>2. /\ SubSeq(u, 1, m) \in Seq(S)
        /\ Len(SubSeq(u, 1, m)) = IF 1 <= m THEN m - 1 + 1 ELSE 0
        /\ \A i \in 1..(m - 1 + 1) : SubSeq(u, 1, m)[i] = u[1 + i - 1]
    BY <1>1, <2>1, SubSeqProperties
  <2>3. /\ Len(SubSeq(u, 1, m)) = m
        /\ \A i \in 1..m : SubSeq(u, 1, m)[i] = a[i]
    BY <1>1, <1>3, <2>2
  <2> QED
    BY <2>2, <2>3, SeqEqual DEF m
<1>7. SubSeq(u, m + 1, m + n) = t
  <2> DEFINE first == m + 1
             last == m + n
  <2>1. first \in Int /\ last \in Int /\ last - first + 1 = n /\ (first <= last <=> n # 0)
    BY <1>1
  <2>2. \A i \in first..last : u[i] \in S
    BY <1>1, <1>5
  <2>3. \A i \in 1..n : first + i - 1 = i + m
    BY <1>1
  <2> HIDE DEF first, last
  <2>4. /\ SubSeq(u, first, last) \in Seq(S)
        /\ Len(SubSeq(u, first, last)) = IF first <= last THEN last - first + 1 ELSE 0
        /\ \A i \in 1..(last - first + 1) : SubSeq(u, first, last)[i] = u[first + i - 1]
    BY <2>1, <2>2, SubSeqProperties
  <2>5. /\ Len(SubSeq(u, first, last)) = n
        /\ \A i \in 1..n : SubSeq(u, first, last)[i] = t[i]
    BY <1>1, <1>4, <2>1, <2>3, <2>4
  <2>6. SubSeq(u, first, last) = t
    BY <2>4, <2>5, SeqEqual DEF n
  <2> QED
    BY <2>6 DEF first, last
<1> QED
  BY <1>2, <1>6, <1>7 DEF u, m, n, ConsistsOf

Signs == 0..EOL

LEMMA SignFacts ==
  /\ Radix - 1 \in Signs /\ Space \in Signs /\ EOL \in Signs
  /\ \A d \in Seq(0..(Radix - 1)) : d \in Seq(Signs)
  /\ ACK_OKAY \in Seq(Signs) /\ Len(ACK_OKAY) = 2 /\ geth(ACK_OKAY) = <<0>>
  /\ ACK_FAIL \in Seq(Signs) /\ Len(ACK_FAIL) = 2 /\ geth(ACK_FAIL) = <<1>>
<1>1. Radix - 1 \in Signs /\ Space \in Signs /\ EOL \in Signs /\ 0..(Radix - 1) \subseteq Signs
  BY BaseFacts DEF Signs, Space, EOL
<1>2. \A d \in Seq(0..(Radix - 1)) : d \in Seq(Signs)
  BY <1>1, SeqMonotonic
<1>3. ASSUME NEW b \in {0, 1}
      PROVE  puth(<<b>>) \in Seq(Signs) /\ Len(puth(<<b>>)) = 2 /\ geth(puth(<<b>>)) = <<b>>
  <2>1. <<b>> \in Seq(Byte) /\ Len(<<b>>) = 1
    BY BaseFacts
  <2>2. /\ puth(<<b>>) \in Seq(0..(Radix - 1)) /\ Len(puth(<<b>>)) = 2 * 1
        /\ geth(puth(<<b>>)) = <<b>>
    BY <2>1, DigitsAndBack
  <2> QED
    BY <1>2, <2>2
<1>4. /\ ACK_OKAY \in Seq(Signs) /\ Len(ACK_OKAY) = 2 /\ geth(ACK_OKAY) = <<0>>
      /\ ACK_FAIL \in Seq(Signs) /\ Len(ACK_FAIL) = 2 /\ geth(ACK_FAIL) = <<1>>
  BY <1>3 DEF ACK_OKAY, ACK_FAIL
<1> QED
  BY <1>1, <1>2, <1>4

LEMMA BlockFacts ==
  ASSUME StoreOK, NEW a \in DOMAIN store
  PROVE  /\ store[a] \in Seq(Byte) /\ Len(store[a]) = block_len
         /\ store[a] \in [1..block_len -> Byte]
<1>1. block_len \in Nat /\ store[a] \in [1..block_len -> Byte]
  BY DiskAssumption DEF StoreOK
<1> QED
  BY <1>1, FunctionIsSequence

LEMMA NoCallIsNone ==
  /\ Device!NoCall.op = "none" /\ Device!NoCall \notin Request
  /\ \A c \in Request : /\ c.op \in {"num", "len", "wr", "rd"} /\ c # Device!NoCall
                        /\ c.addr \in 0..(Power[WordLength] - 1)
                        /\ c.data \in Seq(Byte)
<1>1. \A c \in Request : /\ c.op \in {"num", "len", "wr", "rd"}
                         /\ c.addr \in 0..(Power[WordLength] - 1)
                         /\ c.data \in Seq(Byte)
  BY RequestAssumption
<1>2. Device!NoCall.op = "none"
  BY DEF Device!NoCall
<1> QED
  BY <1>1, <1>2

LEMMA DataFacts ==
  ASSUME StoreOK, NEW c \in Request, Done(c), c.op # "wr"
  PROVE  /\ AnswerData(c) \in Seq(Byte)
         /\ Len(AnswerData(c)) = AnswerLength(c)
<1>1. c.op \in {"num", "len", "rd"}
  BY NoCallIsNone
<1>2. CASE c.op = "rd"
  <2>1. c.addr \in DOMAIN store
    BY <1>2 DEF Done
  <2> QED
    BY <1>2, <2>1, BlockFacts DEF AnswerData, AnswerLength
<1>3. CASE c.op \in {"num", "len"}
  <2>1. block_num \in Nat /\ block_len \in Nat /\ WordLength \in Nat
    BY DiskAssumption
  <2>2. /\ Bytes(block_num) \in Seq(Byte) /\ Len(Bytes(block_num)) = WordLength
        /\ Bytes(block_len) \in Seq(Byte) /\ Len(Bytes(block_len)) = WordLength
    BY <2>1, BytesOfWord
  <2>3. /\ Bytes(block_num) \o Bytes(block_len) \in Seq(Byte)
        /\ Len(Bytes(block_num) \o Bytes(block_len)) = WordLength + WordLength
    <3>1. /\ Bytes(block_num) \o Bytes(block_len) \in Seq(Byte)
          /\ ConsistsOf(Bytes(block_num) \o Bytes(block_len), Bytes(block_num), Bytes(block_len),
                        Len(Bytes(block_num)), Len(Bytes(block_len)))
      BY <2>2, PartsOfConcat
    <3> QED
      BY <2>2, <3>1 DEF ConsistsOf
  <2>4. AnswerLength(c) = WordLength + WordLength
    BY <1>3, <2>1 DEF AnswerLength
  <2> QED
    BY <1>3, <2>3, <2>4 DEF AnswerData
<1> QED
  BY <1>1, <1>2, <1>3

(***************************************************************************)
(* The words that the server sends about itself.                           *)
(***************************************************************************)
LEMMA ConfFacts ==
  LET d == Bytes(block_num) \o Bytes(block_len)
  IN  /\ Word(SubSeq(d, 1, WordLength)) = block_num
      /\ Word(SubSeq(d, WordLength + 1, 2 * WordLength)) = block_len
<1> DEFINE s == Bytes(block_num)
           t == Bytes(block_len)
           n == WordLength
<1>1. /\ block_num \in Nat /\ block_len \in Nat /\ n \in Nat \ {0}
      /\ 2 * block_num < Power[n] /\ 2 * block_len < Power[n]
  BY DiskAssumption
<1>2. Power[n] \in Nat
  BY <1>1, PowerMultiplies
<1>3. Word(s) = block_num /\ Word(t) = block_len
  BY <1>1, <1>2, WordAndBack
<1>4. s \in Seq(Byte) /\ Len(s) = n /\ t \in Seq(Byte) /\ Len(t) = n
  BY <1>1, BytesOfWord
<1> HIDE DEF s, t, n
<1>5. SubSeq(s \o t, 1, n) = s /\ SubSeq(s \o t, n + 1, n + n) = t
  <2>1. ConsistsOf(s \o t, s, t, Len(s), Len(t))
    BY <1>4, PartsOfConcat
  <2> QED
    BY <1>4, <2>1 DEF ConsistsOf
<1>6. n + n = 2 * n
  BY <1>1
<1> QED
  BY <1>3, <1>5, <1>6 DEF s, t, n

\* What the success of c returns.
Success(c) ==
  CASE c.op = "num" -> <<block_num>>
    [] c.op = "len" -> <<block_len>>
    [] c.op = "wr" -> <<>>
    [] c.op = "rd" -> store[c.addr]

(***************************************************************************)
(* The driver expects just the characters that the server sends, and makes *)
(* of them what the server meant.                                          *)
(***************************************************************************)
LEMMA TrailFacts ==
  ASSUME StoreOK, NEW c \in Request, Done(c)
  PROVE  /\ Trail(c) \in Seq(Signs)
         /\ Len(Trail(c)) = Rest(AnswerLength(c))
         /\ AnswerLength(c) \in Nat /\ Rest(AnswerLength(c)) \in Nat \ {0}
         /\ Last(Trail(c)) = EOL
         /\ Returned(c, geth(SubSeq(Trail(c), 2, 2 * AnswerLength(c) + 1))) = Success(c)
<1> DEFINE n == AnswerLength(c)
<1>1. block_len \in Nat \ {0} /\ WordLength \in Nat \ {0}
  BY DiskAssumption
<1>2. CASE c.op = "wr"
  <2>1. n = 0 /\ Trail(c) = <<EOL>>
    BY <1>2 DEF AnswerLength, Trail
  <2>2. Rest(n) = 1
    BY <2>1 DEF Rest
  <2>3. <<EOL>> \in Seq(Signs) /\ Len(<<EOL>>) = 1
    BY SignFacts
  <2>4. Last(<<EOL>>) = EOL
    BY <2>3 DEF Last
  <2>5. 2 * n + 1 = 1
    BY <2>1
  <2>6. SubSeq(Trail(c), 2, 2 * n + 1) = <<>>
    BY <2>5, SubSeqEmpty
  <2>7. geth(<<>>) = <<>>
    BY DEF geth
  <2>8. Returned(c, <<>>) = <<>> /\ Success(c) = <<>>
    BY <1>2 DEF Returned, Success
  <2> HIDE DEF n
  <2>9. Returned(c, geth(SubSeq(Trail(c), 2, 2 * n + 1))) = Success(c)
    BY <2>6, <2>7, <2>8
  <2> QED
    BY <2>1, <2>2, <2>3, <2>4, <2>9 DEF n
<1>3. CASE c.op # "wr"
  <2> DEFINE data == AnswerData(c)
             t == <<Space>> \o puth(data) \o <<EOL>>
  <2>1. data \in Seq(Byte) /\ Len(data) = n
    BY <1>3, DataFacts
  <2>2. n \in Nat \ {0}
    <3>1. c.op \in {"num", "len", "rd"}
      BY <1>3, NoCallIsNone
    <3> QED
      BY <1>1, <3>1 DEF AnswerLength
  <2>3. Trail(c) = t
    BY <1>3 DEF Trail
  <2> HIDE DEF data, n
  <2>4. puth(data) \in Seq(Signs) /\ Len(puth(data)) = 2 * n /\ geth(puth(data)) = data
    BY <2>1, DigitsAndBack, SignFacts
  <2>5. Space \in Signs /\ EOL \in Signs
    BY SignFacts
  <2>6. /\ t \in Seq(Signs) /\ Len(t) = 2 * n + 2 /\ SubSeq(t, 2, 2 * n + 1) = puth(data)
        /\ t[2 * n + 2] = EOL
    BY <2>4, <2>5, BetweenEnds
  <2> HIDE DEF t
  <2>7. Last(t) = EOL
    BY <2>6 DEF Last
  <2>8. Rest(n) = 2 * n + 2
    BY <2>2 DEF Rest
  <2>9. geth(SubSeq(Trail(c), 2, 2 * n + 1)) = data
    BY <2>3, <2>4, <2>6
  <2>10. Returned(c, data) = Success(c)
    <3>1. CASE c.op = "rd"
      BY <3>1 DEF data, Returned, Success, AnswerData
    <3>2. CASE c.op = "num"
      BY <3>2, ConfFacts DEF data, Returned, Success, AnswerData
    <3>3. CASE c.op = "len"
      BY <3>3, ConfFacts DEF data, Returned, Success, AnswerData
    <3> QED
      BY <1>3, <3>1, <3>2, <3>3, NoCallIsNone
  <2>11. Returned(c, geth(SubSeq(Trail(c), 2, 2 * n + 1))) = Success(c)
    BY <2>9, <2>10
  <2>12. Rest(n) \in Nat \ {0}
    BY <2>2, <2>8
  <2> QED
    BY <2>2, <2>3, <2>6, <2>7, <2>8, <2>11, <2>12 DEF n
<1> QED
  BY <1>2, <1>3

(***************************************************************************)
(* A request is digits, and its command says what is asked for.            *)
(***************************************************************************)
LEMMA LineFacts ==
  ASSUME NEW c \in Request
  PROVE  /\ \A field \in DOMAIN Line(c) : Line(c)[field] \in Seq(0..(Radix - 1))
         /\ Line(c)[1] = puth(Conf) => c.op \in {"num", "len"}
         /\ Line(c)[1] = puth(Wr) => c.op = "wr" /\ Line(c)[3] = puth(c.data)
         /\ Line(c)[1] = puth(Rd) => c.op = "rd"
         /\ c.op \in {"wr", "rd"} => Line(c)[2] = addr_puth(c.addr)
<1>1. /\ c.op \in {"num", "len", "wr", "rd"}
      /\ c.data \in Seq(Byte) /\ c.addr \in 0..(Power[WordLength] - 1)
  BY NoCallIsNone
<1>2. c.addr \in Nat
  <2>1. Power[WordLength] \in Nat
    BY PowerMultiplies, DiskAssumption
  <2> QED
    BY <1>1, <2>1
<1>3. Conf \in Seq(Byte) /\ Wr \in Seq(Byte) /\ Rd \in Seq(Byte)
  BY BaseFacts DEF Conf, Wr, Rd
<1>4. /\ puth(Conf) \in Seq(0..(Radix - 1)) /\ puth(Wr) \in Seq(0..(Radix - 1))
      /\ puth(Rd) \in Seq(0..(Radix - 1))
      /\ puth(c.data) \in Seq(0..(Radix - 1))
      /\ addr_puth(c.addr) \in Seq(0..(Radix - 1))
  BY <1>1, <1>2, <1>3, DigitsAndBack, BytesOfWord DEF addr_puth
<1>5. puth(Conf) # puth(Wr) /\ puth(Conf) # puth(Rd) /\ puth(Wr) # puth(Rd)
  <2>1. geth(puth(Conf)) = <<0>> /\ geth(puth(Wr)) = <<1>> /\ geth(puth(Rd)) = <<2>>
    BY <1>3, DigitsAndBack DEF Conf, Wr, Rd
  <2>2. <<0>> # <<1>> /\ <<0>> # <<2>> /\ <<1>> # <<2>>
    OBVIOUS
  <2> QED
    BY <2>1, <2>2
<1>6. CASE c.op \in {"num", "len"}
  <2>1. Line(c) = <<puth(Conf)>>
    BY <1>6 DEF Line
  <2> QED
    BY <1>4, <1>5, <1>6, <2>1
<1>7. CASE c.op = "wr"
  <2>1. Line(c) = <<puth(Wr), addr_puth(c.addr), puth(c.data)>>
    BY <1>7 DEF Line
  <2> QED
    BY <1>4, <1>5, <1>7, <2>1
<1>8. CASE c.op = "rd"
  <2>1. Line(c) = <<puth(Rd), addr_puth(c.addr)>>
    BY <1>8 DEF Line
  <2> QED
    BY <1>4, <1>5, <1>8, <2>1
<1> QED
  BY <1>1, <1>6, <1>7, <1>8

-----------------------------------------------------------------------------
(* The invariant                                                           *)

LEMMA DiskInvInit ==
  ASSUME Init
  PROVE  DiskInv
<1>1. StoreOK
  BY BaseFacts DEF Init, StoreOK
<1>2. 1 \in 1..DISK_RETRY
  BY DiskAssumption
<1> QED
  BY <1>1, <1>2 DEF Init, DiskInv, StateOK, LineOK, Nothing

LEMMA RequestFacts ==
  ASSUME DiskInv, toServer # <<>>
  PROVE  /\ at = "command" /\ up /\ toServer = <<Line(call)>> /\ toDriver = <<>>
         /\ call \in Request
         /\ Requested(Conf) => call.op \in {"num", "len"}
         /\ Requested(Wr) => call.op = "wr" /\ geth(toServer[1][3]) = call.data
         /\ Requested(Rd) => call.op = "rd"
         /\ Requested(Wr) \/ Requested(Rd) =>
              address \in Int /\ (address >= 0 => address = call.addr)
<1>1. at = "command" /\ up /\ toServer = <<Line(call)>> /\ toDriver = <<>>
  BY DEF DiskInv, StateOK, LineOK, Nothing
<1>2. call \in Request
  BY <1>1 DEF DiskInv, StateOK, LineOK
<1>3. toServer[1] = Line(call)
  BY <1>1
<1>4. /\ Requested(Conf) => call.op \in {"num", "len"}
      /\ Requested(Wr) => call.op = "wr" /\ toServer[1][3] = puth(call.data)
      /\ Requested(Rd) => call.op = "rd"
      /\ call.op \in {"wr", "rd"} => toServer[1][2] = addr_puth(call.addr)
  BY <1>2, <1>3, LineFacts DEF Requested
<1>5. geth(puth(call.data)) = call.data
  BY <1>2, NoCallIsNone, DigitsAndBack
<1>6. ASSUME call.op \in {"wr", "rd"}
      PROVE  address \in Int /\ (address >= 0 => address = call.addr)
  <2>1. call.addr \in 0..(Power[WordLength] - 1)
    BY <1>2, NoCallIsNone
  <2>2. address = unpack(geth(addr_puth(call.addr)))
    BY <1>4, <1>6 DEF address
  <2> QED
    BY <2>1, <2>2, AddressAndBack
<1> QED
  BY <1>1, <1>2, <1>4, <1>5, <1>6

LEMMA SentAnswer ==
  ASSUME DiskInv, toServer # <<>>, NEW characters \in Seq(Signs), Answer(characters)
  PROVE  /\ toServer' = <<>> /\ toDriver' = characters \o <<EOL>>
         /\ UNCHANGED <<call, attempt, at, result, up>>
<1>1. toServer = <<Line(call)>> /\ toDriver = <<>>
  BY RequestFacts
<1>2. toServer' = Tail(<<Line(call)>>) /\ toDriver' = <<>> \o characters \o <<EOL>>
  BY <1>1 DEF Answer
<1>3. Tail(<<Line(call)>>) = <<>>
  OBVIOUS
<1>4. <<>> \o characters = characters
  BY ConcatEmptySeq
<1> QED
  BY <1>2, <1>3, <1>4 DEF Answer

LEMMA OkayFacts ==
  ASSUME NEW data \in Seq(Byte)
  PROVE  /\ Okay(data) \in Seq(Signs)
         /\ Okay(data) \o <<EOL>> = ACK_OKAY \o (<<Space>> \o puth(data) \o <<EOL>>)
<1> DEFINE a == ACK_OKAY
           b == <<Space>>
           c == puth(data)
           d == <<EOL>>
<1>1. a \in Seq(Signs) /\ b \in Seq(Signs) /\ c \in Seq(Signs) /\ d \in Seq(Signs)
  BY SignFacts, DigitsAndBack
<1>2. Okay(data) = (a \o b) \o c
  BY DEF Okay
<1> HIDE DEF a, b, c, d
<1>3. a \o b \in Seq(Signs) /\ (a \o b) \o c \in Seq(Signs) /\ b \o c \in Seq(Signs)
  BY <1>1, ConcatProperties
<1>4. ((a \o b) \o c) \o d = (a \o (b \o c)) \o d
  BY <1>1, ConcatAssociative
<1>5. (a \o (b \o c)) \o d = a \o ((b \o c) \o d)
  <2>1. \A e \in Seq(Signs) : (a \o e) \o d = a \o (e \o d)
    BY <1>1, ConcatAssociative
  <2> QED
    BY <1>3, <2>1
<1> QED
  BY <1>2, <1>3, <1>4, <1>5 DEF a, b, c, d

(***************************************************************************)
(* What the server does to the store when it writes, and that a refusal or *)
(* a success is then on the line.                                          *)
(***************************************************************************)
LEMMA WriteFacts ==
  ASSUME DiskInv, wr
  PROVE  /\ call.op = "wr" /\ call.addr \in DOMAIN store /\ Len(call.data) = block_len
         /\ \E n \in 0..block_len :
              /\ store' = [store EXCEPT ![call.addr] = Device!Overwritten(@, call.data, n)]
              /\ toDriver' = (IF n = block_len THEN ACK_OKAY ELSE ACK_FAIL) \o <<EOL>>
              /\ n = block_len => store'[call.addr] = call.data
              /\ n = 0 => store' = store
         /\ StoreOK' /\ toServer' = <<>> /\ UNCHANGED <<call, attempt, at, result, up>>
<1>1. Requested(Wr) /\ toServer # <<>>
  BY DEF wr, Requested
<1>2. call \in Request /\ call.op = "wr" /\ geth(toServer[1][3]) = call.data
  BY <1>1, RequestFacts
<1>3. address \in DOMAIN store /\ Len(call.data) = block_len
  BY <1>2 DEF wr
<1>4. StoreOK /\ DOMAIN store = 0..(block_num - 1) /\ block_num \in Nat /\ block_len \in Nat
  BY DiskAssumption DEF DiskInv, StateOK, StoreOK
<1>5. address = call.addr
  <2>1. address >= 0
    BY <1>3, <1>4
  <2> QED
    BY <1>1, <2>1, RequestFacts
<1>6. PICK n \in 0..block_len :
        /\ store' = [store EXCEPT ![call.addr] = Device!Overwritten(@, call.data, n)]
        /\ Answer(IF n = block_len THEN ACK_OKAY ELSE ACK_FAIL)
  BY <1>2, <1>5 DEF wr
<1>7. /\ toServer' = <<>>
      /\ toDriver' = (IF n = block_len THEN ACK_OKAY ELSE ACK_FAIL) \o <<EOL>>
      /\ UNCHANGED <<call, attempt, at, result, up>>
  <2>1. (IF n = block_len THEN ACK_OKAY ELSE ACK_FAIL) \in Seq(Signs)
    BY SignFacts
  <2> QED
    BY <1>1, <1>6, <2>1, SentAnswer
<1>8. call.data \in Seq(Byte) /\ call.data \in [1..block_len -> Byte]
  <2>1. call.data \in Seq(Byte)
    BY <1>2, NoCallIsNone
  <2>2. call.data \in [1..Len(call.data) -> Byte]
    BY <2>1, LenProperties
  <2> QED
    BY <1>3, <2>1, <2>2
<1>9. store[call.addr] \in [1..block_len -> Byte]
  BY <1>3, <1>4, <1>5, BlockFacts
<1> DEFINE block == Device!Overwritten(store[call.addr], call.data, n)
<1>10. block = [i \in 1..block_len |-> IF i <= n THEN call.data[i] ELSE store[call.addr][i]]
  BY DEF Device!Overwritten
<1>11. block \in [1..block_len -> Byte]
  BY <1>8, <1>9, <1>10
<1>12. n = block_len => block = call.data
  <2> SUFFICES ASSUME n = block_len
               PROVE  block = call.data
    OBVIOUS
  <2>1. \A i \in 1..block_len : i <= n
    BY <1>4
  <2>2. block = [i \in 1..block_len |-> call.data[i]]
    BY <1>10, <2>1
  <2>3. call.data = [i \in 1..block_len |-> call.data[i]]
    BY <1>8
  <2> QED
    BY <2>2, <2>3
<1>13. n = 0 => block = store[call.addr]
  <2> SUFFICES ASSUME n = 0
               PROVE  block = store[call.addr]
    OBVIOUS
  <2>1. \A i \in 1..block_len : ~ i <= n
    BY <1>4
  <2>2. block = [i \in 1..block_len |-> store[call.addr][i]]
    BY <1>10, <2>1
  <2>3. store[call.addr] = [i \in 1..block_len |-> store[call.addr][i]]
    BY <1>9
  <2> QED
    BY <2>2, <2>3
<1>14. store' = [store EXCEPT ![call.addr] = block]
  BY <1>6
<1> HIDE DEF block
<1>15. StoreOK'
  BY <1>4, <1>11, <1>14 DEF StoreOK
<1>16. store'[call.addr] = block
  BY <1>3, <1>5, <1>14
<1>17. n = 0 => store' = store
  BY <1>4, <1>13, <1>14 DEF StoreOK
<1>18. n = block_len => store'[call.addr] = call.data
  BY <1>12, <1>16
<1> QED
  BY <1>2, <1>3, <1>5, <1>6, <1>7, <1>15, <1>17, <1>18

\* The driver's line and the store after a step of the server.
LEMMA DiskInvServer ==
  ASSUME DiskInv, Server
  PROVE  DiskInv'
<1>1. CASE wr
  <2>1. PICK n \in 0..block_len :
          /\ toDriver' = (IF n = block_len THEN ACK_OKAY ELSE ACK_FAIL) \o <<EOL>>
          /\ n = block_len => store'[call.addr] = call.data
    BY <1>1, WriteFacts
  <2>2. /\ call.op = "wr" /\ call.addr \in DOMAIN store
        /\ StoreOK' /\ toServer' = <<>> /\ UNCHANGED <<call, attempt, at, result, up>>
    BY <1>1, WriteFacts
  <2>3. toServer # <<>>
    BY <1>1 DEF wr, Requested
  <2>4. at = "command" /\ up
    BY <2>3, RequestFacts
  <2>5. StateOK'
    BY <2>2 DEF DiskInv, StateOK
  <2>6. (call.addr \in DOMAIN store)'
    BY <2>2 DEF StoreOK, DiskInv, StateOK
  <2>7. CASE n = block_len
    <3>1. Done(call)'
      BY <2>1, <2>2, <2>6, <2>7 DEF Done
    <3>2. (toDriver = ACK_OKAY \o Trail(call))'
      BY <2>1, <2>2, <2>7 DEF Trail
    <3> QED
      BY <2>2, <2>4, <2>5, <3>1, <3>2 DEF DiskInv, LineOK
  <2>8. CASE n # block_len
    <3>1. toDriver' = ACK_FAIL \o <<EOL>>
      BY <2>1, <2>8
    <3> QED
      BY <2>2, <2>4, <2>5, <3>1 DEF DiskInv, LineOK
  <2> QED
    BY <2>7, <2>8
<1>2. ASSUME toServer # <<>>, Answer(ACK_FAIL), UNCHANGED store
      PROVE  DiskInv'
  <2>1. at = "command" /\ up
    BY <1>2, RequestFacts
  <2>2. /\ toServer' = <<>> /\ toDriver' = ACK_FAIL \o <<EOL>>
        /\ UNCHANGED <<call, attempt, at, result, up>>
    BY <1>2, SentAnswer, SignFacts
  <2>3. StateOK'
    BY <1>2, <2>2 DEF DiskInv, StateOK, StoreOK
  <2> QED
    BY <2>1, <2>2, <2>3 DEF DiskInv, LineOK
<1>3. ASSUME toServer # <<>>, Done(call), call.op # "wr", UNCHANGED store,
             Answer(Okay(AnswerData(call)))
      PROVE  DiskInv'
  <2>1. at = "command" /\ up /\ call \in Request
    BY <1>3, RequestFacts
  <2>2. AnswerData(call) \in Seq(Byte)
    BY <1>3, <2>1, DataFacts DEF DiskInv, StateOK
  <2>3. /\ toServer' = <<>> /\ toDriver' = Okay(AnswerData(call)) \o <<EOL>>
        /\ UNCHANGED <<call, attempt, at, result, up>>
    BY <1>3, <2>2, OkayFacts, SentAnswer
  <2>4. toDriver' = ACK_OKAY \o Trail(call)
    BY <1>3, <2>2, <2>3, OkayFacts DEF Trail
  <2>5. Trail(call)' = Trail(call) /\ Done(call)'
    BY <1>3, <2>3 DEF Trail, Done, AnswerData
  <2>6. StateOK'
    BY <1>3, <2>3 DEF DiskInv, StateOK, StoreOK
  <2> QED
    BY <2>1, <2>3, <2>4, <2>5, <2>6 DEF DiskInv, LineOK
<1>4. CASE conf
  <2>1. Requested(Conf) /\ toServer # <<>>
    BY <1>4 DEF conf, Requested
  <2>2. call.op \in {"num", "len"}
    BY <2>1, RequestFacts
  <2>3. Done(call) /\ AnswerData(call) = Bytes(block_num) \o Bytes(block_len)
    BY <2>2 DEF Done, AnswerData
  <2> QED
    BY <1>3, <1>4, <2>1, <2>2, <2>3 DEF conf
<1>5. CASE rd
  <2>1. Requested(Rd) /\ toServer # <<>>
    BY <1>5 DEF rd, Requested
  <2>2. call.op = "rd"
    BY <2>1, RequestFacts
  <2>3. address \in DOMAIN store /\ DOMAIN store = 0..(block_num - 1) /\ block_num \in Nat
    BY <1>5, DiskAssumption DEF rd, DiskInv, StateOK, StoreOK
  <2>4. address >= 0
    BY <2>3
  <2>5. address = call.addr
    BY <2>1, <2>4, RequestFacts
  <2>6. Done(call) /\ AnswerData(call) = store[address]
    BY <2>2, <2>3, <2>5 DEF Done, AnswerData
  <2>7. UNCHANGED store /\ (Answer(Okay(store[address])) \/ Answer(ACK_FAIL))
    BY <1>5 DEF rd
  <2> QED
    BY <1>2, <1>3, <2>1, <2>2, <2>6, <2>7
<1>6. CASE Refusal
  <2>1. toServer # <<>>
    BY <1>6 DEF Refusal, Requested
  <2> QED
    BY <1>2, <1>6, <2>1 DEF Refusal
<1>7. CASE Death
  <2>1. toServer # <<>>
    BY <1>7 DEF Death, Requested
  <2>2. at = "command" /\ toServer = <<Line(call)>> /\ toDriver = <<>>
    BY <2>1, RequestFacts
  <2>3. up' = FALSE /\ UNCHANGED <<store, call, attempt, at, result, toDriver>>
    BY <1>7 DEF Death
  <2>4. toServer' = <<>>
    <3>1. toServer' = Tail(<<Line(call)>>)
      BY <1>7, <2>2 DEF Death
    <3> QED
      BY <3>1
  <2>5. StateOK'
    BY <2>3 DEF DiskInv, StateOK, StoreOK
  <2> QED
    BY <2>2, <2>3, <2>4, <2>5 DEF DiskInv, LineOK, Nothing
<1> QED
  BY <1>1, <1>4, <1>5, <1>6, <1>7 DEF Server

(***************************************************************************)
(* The driver takes as much as is meant for it.                            *)
(***************************************************************************)
LEMMA CommandTaken ==
  ASSUME DiskInv, ReadCommand
  PROVE  /\ at = "command" /\ UNCHANGED <<store, call, attempt, result, toServer, up>>
         /\ up /\ toServer = <<>> /\ call \in Request
         /\ \/ at' = "answer" /\ toDriver' = Trail(call) /\ Done(call)
            \/ at' = "refused" /\ toDriver' = <<EOL>>
<1>1. /\ at = "command" /\ UNCHANGED <<store, call, attempt, result, toServer, up>>
      /\ Len(toDriver) >= 2 /\ toDriver' = SubSeq(toDriver, 2 + 1, Len(toDriver))
      /\ at' = IF geth(SubSeq(toDriver, 1, 2)) = <<0>> THEN "answer" ELSE "refused"
  BY DEF ReadCommand, Take
<1>2. call \in Request
  BY <1>1 DEF DiskInv, StateOK, LineOK
<1>3. toDriver # <<>>
  <2>1. Len(<<>>) = 0
    OBVIOUS
  <2> QED
    BY <1>1, <2>1
<1>4. /\ up /\ toServer = <<>>
      /\ \/ toDriver = ACK_FAIL \o <<EOL>>
         \/ toDriver = ACK_OKAY \o Trail(call) /\ Done(call)
  BY <1>1, <1>3 DEF DiskInv, LineOK, Nothing
<1>5. ASSUME NEW ack \in Seq(Signs), Len(ack) = 2, NEW rest \in Seq(Signs),
             toDriver = ack \o rest
      PROVE  SubSeq(toDriver, 1, 2) = ack /\ toDriver' = rest
  <2>1. ConsistsOf(ack \o rest, ack, rest, Len(ack), Len(rest))
    BY PartsOfConcat
  <2> QED
    BY <1>1, <1>5, <2>1 DEF ConsistsOf
<1>6. CASE toDriver = ACK_FAIL \o <<EOL>>
  <2>1. <<EOL>> \in Seq(Signs)
    BY SignFacts
  <2>2. SubSeq(toDriver, 1, 2) = ACK_FAIL /\ toDriver' = <<EOL>>
    BY <1>5, <1>6, <2>1, SignFacts
  <2>3. geth(ACK_FAIL) # <<0>>
    BY SignFacts
  <2> QED
    BY <1>1, <1>2, <1>4, <2>2, <2>3
<1>7. CASE toDriver = ACK_OKAY \o Trail(call) /\ Done(call)
  <2>1. Trail(call) \in Seq(Signs)
    BY <1>2, <1>7, TrailFacts DEF DiskInv, StateOK
  <2>2. SubSeq(toDriver, 1, 2) = ACK_OKAY /\ toDriver' = Trail(call)
    BY <1>5, <1>7, <2>1, SignFacts
  <2>3. geth(ACK_OKAY) = <<0>>
    BY SignFacts
  <2> QED
    BY <1>1, <1>2, <1>4, <1>7, <2>2, <2>3
<1> QED
  BY <1>4, <1>6, <1>7

LEMMA AnswerTaken ==
  ASSUME DiskInv, ReadAnswer
  PROVE  /\ at = "answer" /\ call \in Request /\ Done(call) /\ up
         /\ toServer = <<>> /\ toDriver' = <<>>
         /\ UNCHANGED <<store, toServer, up>>
         /\ Return(Success(call))
<1> DEFINE n == AnswerLength(call)
<1>1. /\ at = "answer" /\ UNCHANGED <<store, toServer, up>>
      /\ toDriver' = SubSeq(toDriver, Rest(n) + 1, Len(toDriver))
      /\ Return(Returned(call, geth(SubSeq(toDriver, 2, 2 * n + 1))))
  BY DEF ReadAnswer, Take
<1>2. call \in Request /\ Done(call) /\ up /\ toServer = <<>> /\ toDriver = Trail(call) /\ StoreOK
  BY <1>1 DEF DiskInv, StateOK, LineOK
<1>3. /\ Len(toDriver) = Rest(n) /\ Rest(n) \in Nat
      /\ Returned(call, geth(SubSeq(toDriver, 2, 2 * n + 1))) = Success(call)
  BY <1>2, TrailFacts
<1> HIDE DEF n
<1>4. toDriver' = <<>>
  <2>1. Rest(n) + 1 \in Int /\ Rest(n) \in Int /\ Rest(n) < Rest(n) + 1
    BY <1>3
  <2> QED
    BY <1>1, <1>3, <2>1, SubSeqEmpty
<1> QED
  BY <1>1, <1>2, <1>3, <1>4

LEMMA RefusalTaken ==
  ASSUME DiskInv, ReadRefusal
  PROVE  /\ at = "refused" /\ call \in Request /\ up /\ toServer = <<>>
         /\ toDriver' = <<>> /\ UNCHANGED <<store, toServer, up>>
         /\ IF attempt < DISK_RETRY
            THEN at' = "send" /\ attempt' = attempt + 1 /\ UNCHANGED <<call, result>>
            ELSE Return(Device!DISK_FAILURE)
<1>1. /\ at = "refused" /\ UNCHANGED <<store, toServer, up>>
      /\ toDriver' = SubSeq(toDriver, 1 + 1, Len(toDriver))
  BY DEF ReadRefusal, Take
<1>2. call \in Request /\ up /\ toServer = <<>> /\ toDriver = <<EOL>>
  BY <1>1 DEF DiskInv, StateOK, LineOK
<1>3. toDriver' = <<>>
  <2>1. Len(<<EOL>>) = 1 /\ 1 + 1 \in Int /\ 1 \in Int /\ 1 < 1 + 1
    OBVIOUS
  <2> QED
    BY <1>1, <1>2, <2>1, SubSeqEmpty
<1> QED
  BY <1>1, <1>2, <1>3 DEF ReadRefusal

LEMMA SuccessType ==
  ASSUME StoreOK, NEW c \in Request, Done(c)
  PROVE  Success(c) \in Seq(Int)
<1>1. block_num \in Int /\ block_len \in Int
  BY DiskAssumption
<1>2. CASE c.op = "rd"
  <2>1. c.addr \in DOMAIN store
    BY <1>2 DEF Done
  <2>2. store[c.addr] \in Seq(Byte)
    BY <2>1, BlockFacts
  <2>3. \A b \in Byte : b \in Int
    BY BaseFacts
  <2>4. store[c.addr] \in Seq(Int)
    BY <2>2, <2>3, SeqMonotonic
  <2> QED
    BY <1>2, <2>4 DEF Success
<1>3. CASE c.op # "rd"
  <2>1. <<block_num>> \in Seq(Int) /\ <<block_len>> \in Seq(Int) /\ <<>> \in Seq(Int)
    BY <1>1
  <2> QED
    BY <1>3, <2>1, NoCallIsNone DEF Success
<1> QED
  BY <1>2, <1>3

LEMMA DiskInvDriver ==
  ASSUME DiskInv, Driver
  PROVE  DiskInv'
<1>1. CASE Send
  <2>1. /\ at = "send" /\ at' = "command" /\ toServer' = Append(toServer, Line(call))
        /\ UNCHANGED <<store, call, attempt, result, toDriver, up>>
    BY <1>1 DEF Send
  <2>2. toServer = <<>> /\ toDriver = <<>> /\ up /\ call # Device!NoCall
    BY <2>1 DEF DiskInv, StateOK, LineOK, Nothing
  <2>3. toServer' = <<Line(call)>>
    <3>1. Append(<<>>, Line(call)) = <<Line(call)>>
      OBVIOUS
    <3> QED
      BY <2>1, <2>2, <3>1
  <2>4. Line(call)' = Line(call)
    BY <2>1 DEF Line
  <2>5. StateOK'
    BY <2>1 DEF DiskInv, StateOK, StoreOK
  <2> QED
    BY <2>1, <2>2, <2>3, <2>4, <2>5 DEF DiskInv, LineOK
<1>2. CASE ReadCommand
  <2>1. /\ at = "command" /\ UNCHANGED <<store, call, attempt, result, toServer, up>>
        /\ up /\ toServer = <<>> /\ call \in Request
    BY <1>2, CommandTaken
  <2>2. \/ at' = "answer" /\ toDriver' = Trail(call) /\ Done(call)
        \/ at' = "refused" /\ toDriver' = <<EOL>>
    BY <1>2, CommandTaken
  <2>3. Trail(call)' = Trail(call) /\ Done(call)' = Done(call)
    BY <2>1 DEF Trail, Done, AnswerData
  <2>4. StateOK'
    BY <2>1, <2>2 DEF DiskInv, StateOK, StoreOK
  <2>5. call # Device!NoCall
    BY <2>1, NoCallIsNone
  <2> QED
    BY <2>1, <2>2, <2>3, <2>4, <2>5 DEF DiskInv, LineOK
<1>3. ASSUME toServer = <<>>, toDriver' = <<>>, UNCHANGED <<store, toServer, up>>, up,
             NEW r \in Seq(Int), Return(r)
      PROVE  DiskInv'
  <2>1. at' = "idle" /\ call' = Device!NoCall /\ attempt' = 1 /\ result' = r
    BY <1>3 DEF Return
  <2>2. 1 \in 1..DISK_RETRY
    BY DiskAssumption
  <2>3. StateOK'
    BY <1>3, <2>1, <2>2 DEF DiskInv, StateOK, StoreOK
  <2> QED
    BY <1>3, <2>1, <2>3 DEF DiskInv, LineOK, Nothing
<1>4. CASE ReadAnswer
  <2>1. Success(call) \in Seq(Int)
    BY <1>4, AnswerTaken, SuccessType DEF DiskInv, StateOK
  <2> QED
    BY <1>3, <1>4, <2>1, AnswerTaken
<1>5. CASE ReadRefusal
  <2>1. Device!DISK_FAILURE \in Seq(Int)
    BY DEF Device!DISK_FAILURE
  <2>2. CASE attempt < DISK_RETRY
    <3>1. /\ at = "refused" /\ call \in Request /\ up /\ toServer = <<>>
          /\ toDriver' = <<>> /\ UNCHANGED <<store, toServer, up, call, result>>
          /\ at' = "send" /\ attempt' = attempt + 1
      BY <1>5, <2>2, RefusalTaken
    <3>2. attempt + 1 \in 1..DISK_RETRY
      BY <2>2, DiskAssumption DEF DiskInv, StateOK
    <3>3. StateOK'
      BY <3>1, <3>2 DEF DiskInv, StateOK, StoreOK
    <3>4. call # Device!NoCall
      BY <3>1, NoCallIsNone
    <3> QED
      BY <3>1, <3>3, <3>4 DEF DiskInv, LineOK, Nothing
  <2>3. CASE ~ attempt < DISK_RETRY
    <3>1. Return(Device!DISK_FAILURE)
      BY <1>5, <2>3, RefusalTaken
    <3> QED
      BY <1>3, <1>5, <2>1, <3>1, RefusalTaken
  <2> QED
    BY <2>2, <2>3
<1> QED
  BY <1>1, <1>2, <1>4, <1>5 DEF Driver

LEMMA DiskInvNext ==
  ASSUME DiskInv, [Next]_vars
  PROVE  DiskInv'
<1>1. ASSUME NEW c \in Request, Begin(c)
      PROVE  DiskInv'
  <2>1. /\ at = "idle" /\ at' = "send" /\ call' = c
        /\ UNCHANGED <<store, attempt, result, toServer, toDriver, up>>
    BY <1>1 DEF Begin
  <2>2. c # Device!NoCall
    BY NoCallIsNone
  <2>3. StateOK'
    BY <2>1 DEF DiskInv, StateOK, StoreOK
  <2> QED
    BY <2>1, <2>2, <2>3 DEF DiskInv, LineOK, Nothing
<1>2. CASE UNCHANGED vars
  <2>1. /\ UNCHANGED <<store, call, attempt, at>>
        /\ UNCHANGED <<result, toServer, toDriver, up>>
    BY <1>2 DEF vars
  <2>2. StateOK'
    BY <2>1 DEF DiskInv, StateOK, StoreOK
  <2>3. Trail(call)' = Trail(call) /\ Done(call)' = Done(call) /\ Line(call)' = Line(call)
    BY <2>1 DEF Trail, Done, AnswerData, Line
  <2>4. LineOK'
    BY <2>1, <2>3 DEF DiskInv, LineOK, Nothing
  <2> QED
    BY <2>2, <2>4 DEF DiskInv
<1> QED
  BY <1>1, <1>2, DiskInvServer, DiskInvDriver DEF Next

(***************************************************************************)
(* Where the driver is, what is on the line and what is in the store fit   *)
(* together in every reachable state.                                      *)
(***************************************************************************)
THEOREM DriverAndLineFit == Spec => []DiskInv
<1>1. Init => DiskInv
  BY DiskInvInit
<1>2. DiskInv /\ [Next]_vars => DiskInv'
  BY DiskInvNext
<1> QED
  BY <1>1, <1>2, PTL DEF Spec

(***************************************************************************)
(* The two never put anything on the line that the other cannot read, and  *)
(* what the driver returns is numbers.                                     *)
(***************************************************************************)
THEOREM DriverTypeCorrect == Spec => []DiskTypeOK
<1>1. ASSUME DiskInv
      PROVE  DiskTypeOK
  <2>1. StateOK
    BY <1>1 DEF DiskInv
  <2>2. \A i \in DOMAIN toServer : \A field \in DOMAIN toServer[i] :
          toServer[i][field] \in Seq(0..(Radix - 1))
    <3>1. CASE toServer = <<>>
      BY <3>1
    <3>2. CASE toServer # <<>>
      <4>1. toServer = <<Line(call)>> /\ call \in Request
        BY <1>1, <3>2, RequestFacts
      <4>2. \A i \in DOMAIN toServer : toServer[i] = Line(call)
        BY <4>1
      <4> QED
        BY <4>1, <4>2, LineFacts
    <3> QED
      BY <3>1, <3>2
  <2>3. toDriver \in Seq(Signs)
    <3>1. <<>> \in Seq(Signs) /\ <<EOL>> \in Seq(Signs)
      BY SignFacts
    <3>2. ACK_FAIL \o <<EOL>> \in Seq(Signs)
      BY <3>1, SignFacts, ConcatProperties
    <3>3. at \in {"command", "answer"} => call \in Request
      BY <1>1 DEF DiskInv, StateOK, LineOK
    <3>4. call \in Request /\ Done(call) => Trail(call) \in Seq(Signs)
      BY <2>1, TrailFacts DEF StateOK
    <3>5. call \in Request /\ Done(call) => ACK_OKAY \o Trail(call) \in Seq(Signs)
      BY <3>4, SignFacts, ConcatProperties
    <3> QED
      BY <1>1, <3>1, <3>2, <3>3, <3>4, <3>5 DEF DiskInv, StateOK, LineOK, Nothing
  <2> QED
    BY <2>1, <2>2, <2>3 DEF DiskTypeOK, StateOK, StoreOK, Signs
<1> QED
  BY <1>1, DriverAndLineFit, PTL

(***************************************************************************)
(* The driver counts the characters of every answer right: it takes all of *)
(* them and none of the next, however often it has been refused and tried  *)
(* again, and although it never looks for an EOL.                          *)
(***************************************************************************)
THEOREM DriverInSync == Spec => []LineInSync
<1>1. ASSUME DiskInv
      PROVE  LineInSync
  <2>1. at \in {"idle", "send"} => toServer = <<>> /\ toDriver = <<>>
    BY <1>1 DEF DiskInv, LineOK, Nothing
  <2>2. at = "command" =>
          IF up
          THEN Len(toServer) = 1 <=> toDriver = <<>>
          ELSE toServer = <<>> /\ toDriver = <<>>
    <3> SUFFICES ASSUME at = "command"
                 PROVE  IF up
                        THEN Len(toServer) = 1 <=> toDriver = <<>>
                        ELSE toServer = <<>> /\ toDriver = <<>>
      OBVIOUS
    <3>1. Len(<<>>) = 0 /\ Len(<<Line(call)>>) = 1
      OBVIOUS
    <3>2. ACK_FAIL \o <<EOL>> # <<>>
      <4>1. <<EOL>> \in Seq(Signs) /\ <<EOL>> # <<>>
        BY SignFacts
      <4> QED
        BY <4>1, SignFacts, ConcatEqualIffEmpty
    <3>3. Done(call) => ACK_OKAY \o Trail(call) # <<>>
      <4> SUFFICES ASSUME Done(call)
                   PROVE  ACK_OKAY \o Trail(call) # <<>>
        OBVIOUS
      <4>1. call \in Request /\ StoreOK
        BY <1>1 DEF DiskInv, StateOK, LineOK
      <4>2. Trail(call) \in Seq(Signs)
        BY <4>1, TrailFacts
      <4>3. ACK_OKAY # <<>>
        BY <3>1, SignFacts
      <4> QED
        BY <4>2, <4>3, SignFacts, ConcatEqualIffEmpty
    <3>4. \/ up /\ toServer = <<Line(call)>> /\ toDriver = <<>>
          \/ up /\ toServer = <<>> /\ toDriver = ACK_FAIL \o <<EOL>>
          \/ up /\ toServer = <<>> /\ toDriver = ACK_OKAY \o Trail(call) /\ Done(call)
          \/ ~up /\ toServer = <<>> /\ toDriver = <<>>
      BY <1>1 DEF DiskInv, LineOK, Nothing
    <3>5. CASE up /\ toServer = <<Line(call)>> /\ toDriver = <<>>
      BY <3>1, <3>5
    <3>6. CASE up /\ toServer = <<>> /\ toDriver # <<>>
      BY <3>1, <3>6
    <3>7. CASE ~up /\ toServer = <<>> /\ toDriver = <<>>
      BY <3>7
    <3> QED
      BY <3>2, <3>3, <3>4, <3>5, <3>6, <3>7
  <2>3. at = "answer" =>
          /\ toServer = <<>> /\ Last(toDriver) = EOL
          /\ Len(toDriver) = Rest(AnswerLength(call))
    <3> SUFFICES ASSUME at = "answer"
                 PROVE  /\ toServer = <<>> /\ Last(toDriver) = EOL
                        /\ Len(toDriver) = Rest(AnswerLength(call))
      OBVIOUS
    <3>1. call \in Request /\ Done(call) /\ StoreOK /\ toServer = <<>> /\ toDriver = Trail(call)
      BY <1>1 DEF DiskInv, StateOK, LineOK
    <3> QED
      BY <3>1, TrailFacts
  <2>4. at = "refused" => toServer = <<>> /\ Last(toDriver) = EOL /\ Len(toDriver) = 1
    <3>1. at = "refused" => toServer = <<>> /\ toDriver = <<EOL>>
      BY <1>1 DEF DiskInv, LineOK
    <3>2. Len(<<EOL>>) = 1 /\ Last(<<EOL>>) = EOL
      BY DEF Last
    <3> QED
      BY <3>1, <3>2
  <2> QED
    BY <2>1, <2>2, <2>3, <2>4 DEF LineInSync
<1> QED
  BY <1>1, DriverAndLineFit, PTL

-----------------------------------------------------------------------------
(* The block device                                                        *)

LEMMA DeviceInitially ==
  ASSUME Init
  PROVE  Device!DeviceInit
<1>1. attempt - 1 = 0 /\ at # "refused"
  BY DEF Init
<1> QED
  BY <1>1 DEF Init, Device!DeviceInit

(***************************************************************************)
(* A call that ends has returned what a block device may return, and       *)
(* forgets its refusals.                                                   *)
(***************************************************************************)
LEMMA DeviceReturns ==
  ASSUME DiskInv, call \in Request, UNCHANGED store,
         NEW r, Return(r), Device!Answers(r)
  PROVE  Device!DeviceNext
<1>1. at' = "idle" /\ call' = Device!NoCall /\ attempt' = 1 /\ result' = r
  BY DEF Return
<1>2. (IF at' = "refused" THEN attempt' ELSE attempt' - 1) = 0
  BY <1>1
<1>3. Device!Return(result')
  BY <1>1, <1>2 DEF Device!Return
<1> QED
  BY <1>1, <1>3, NoCallIsNone DEF Device!DeviceNext

LEMMA DeviceStep ==
  ASSUME DiskInv, [Next]_vars
  PROVE  [Device!DeviceNext]_(Device!deviceVars)
<1>1. StateOK /\ LineOK
  BY DEF DiskInv
<1>2. ASSUME NEW c \in Request, Begin(c)
      PROVE  Device!DeviceNext
  <2>1. /\ at = "idle" /\ at' = "send" /\ call' = c
        /\ UNCHANGED <<store, attempt, result>>
    BY <1>2 DEF Begin
  <2>2. call = Device!NoCall /\ call' # Device!NoCall
    BY <1>1, <2>1, NoCallIsNone DEF LineOK
  <2>3. Device!Begin(call')
    BY <2>1, <2>2 DEF Device!Begin
  <2> QED
    BY <2>2, <2>3 DEF Device!DeviceNext
<1>3. ASSUME at # "refused", at' # "refused", UNCHANGED <<store, call, attempt, result>>
      PROVE  UNCHANGED Device!deviceVars
  BY <1>3 DEF Device!deviceVars
<1>4. CASE Send
  BY <1>3, <1>4 DEF Send
<1>5. CASE ReadCommand
  <2>1. /\ at = "command" /\ UNCHANGED <<store, call, attempt, result>>
        /\ call \in Request /\ at' \in {"answer", "refused"}
    BY <1>5, CommandTaken
  <2>2. CASE at' = "answer"
    BY <1>3, <2>1, <2>2
  <2>3. CASE at' = "refused"
    <3>1. attempt \in Nat /\ DISK_RETRY \in Nat /\ attempt <= DISK_RETRY
      BY <1>1, DiskAssumption DEF StateOK
    <3>2. attempt - 1 < DISK_RETRY /\ attempt = (attempt - 1) + 1
      BY <3>1
    <3>3. Device!Refuse
      BY <2>1, <2>3, <3>1, <3>2, NoCallIsNone DEF Device!Refuse
    <3> QED
      BY <3>3 DEF Device!DeviceNext
  <2> QED
    BY <2>1, <2>2, <2>3
<1>6. CASE ReadAnswer
  <2>1. call \in Request /\ Done(call) /\ UNCHANGED store /\ Return(Success(call))
    BY <1>6, AnswerTaken
  <2>2. Device!Answers(Success(call))
    BY <2>1, NoCallIsNone DEF Done, Success, Device!Answers
  <2> QED
    BY <2>1, <2>2, DeviceReturns
<1>7. CASE ReadRefusal
  <2>1. /\ at = "refused" /\ call \in Request /\ UNCHANGED store
        /\ attempt \in Nat /\ attempt <= DISK_RETRY /\ DISK_RETRY \in Nat
    BY <1>1, <1>7, RefusalTaken, DiskAssumption DEF StateOK
  <2>2. CASE attempt < DISK_RETRY
    <3>1. at' = "send" /\ attempt' = attempt + 1 /\ UNCHANGED <<call, result>>
      BY <1>7, <2>2, RefusalTaken
    <3>2. attempt' - 1 = attempt
      BY <2>1, <3>1
    <3> QED
      BY <2>1, <3>1, <3>2 DEF Device!deviceVars
  <2>3. CASE ~ attempt < DISK_RETRY
    <3>1. Return(Device!DISK_FAILURE)
      BY <1>7, <2>3, RefusalTaken
    <3>2. attempt = DISK_RETRY
      BY <2>1, <2>3
    <3>3. Device!Answers(Device!DISK_FAILURE)
      BY <2>1, <3>2, NoCallIsNone DEF Device!Answers
    <3> QED
      BY <2>1, <3>1, <3>3, DeviceReturns
  <2> QED
    BY <2>2, <2>3
<1>8. CASE wr
  <2>1. /\ call.op = "wr" /\ call.addr \in DOMAIN store /\ Len(call.data) = block_len
        /\ UNCHANGED <<call, attempt, at, result>>
    BY <1>8, WriteFacts
  <2>2. PICK n \in 0..block_len :
          /\ store' = [store EXCEPT ![call.addr] = Device!Overwritten(@, call.data, n)]
          /\ n = 0 => store' = store
    BY <1>8, WriteFacts
  <2>3. block_len \in Nat
    BY DiskAssumption
  <2>4. CASE n = 0
    BY <2>1, <2>2, <2>4 DEF Device!deviceVars
  <2>5. CASE n # 0
    <3>1. n \in 1..block_len
      BY <2>3, <2>5
    <3>2. Device!Put(n)
      BY <2>1, <2>2 DEF Device!Put
    <3> QED
      BY <3>1, <3>2 DEF Device!DeviceNext
  <2> QED
    BY <2>4, <2>5
<1>9. CASE conf \/ rd \/ Refusal \/ Death
  <2>1. UNCHANGED <<store, call, attempt, at, result>> /\ toServer # <<>>
    BY <1>9 DEF conf, rd, Refusal, Death, Answer, Requested
  <2>2. at = "command"
    BY <2>1, RequestFacts
  <2> QED
    BY <1>3, <2>1, <2>2
<1>10. CASE UNCHANGED vars
  BY <1>10 DEF vars, Device!deviceVars
<1> QED
  BY <1>2, <1>4, <1>5, <1>6, <1>7, <1>8, <1>9, <1>10 DEF Next, Driver, Server

(***************************************************************************)
(* The driver and its server implement a block device: a write that        *)
(* succeeds has stored all of its data, a read returns the block at its    *)
(* very address, and a call fails only after DISK_RETRY refusals.          *)
(***************************************************************************)
THEOREM DriverIsABlockDevice == Spec => ImplementsBlockDevice
<1>1. Init => Device!DeviceInit
  BY DeviceInitially
<1>2. DiskInv /\ [Next]_vars => [Device!DeviceNext]_(Device!deviceVars)
  BY DeviceStep
<1> QED
  BY <1>1, <1>2, DriverAndLineFit, PTL DEF Spec, ImplementsBlockDevice, Device!DeviceSpec
=============================================================================
