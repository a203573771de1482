------------------------ MODULE Combinational_proofs ------------------------
(***************************************************************************)
(* The combinational units, for words of every width and for every operand.*)
(* The ALU computes what the instruction set asks for and decides the      *)
(* branches as it does: both sides are brought to numbers, what a word     *)
(* stands for is built up bit by bit, and the carries and borrows of the   *)
(* ALU are those of the numbers built so far.  The immediate generator is  *)
(* the inverse of the assembler's encoders: both only move bits.           *)
(***************************************************************************)
EXTENDS ALU, RV32I, Immediate, FiniteSetTheorems, FunctionTheorems, WellFoundedInduction, TLAPS

\* A word's bits are numbered from 0.
WordBits == Width \in Nat \ {0} /\ Bits = 0 .. (Width - 1)
-----------------------------------------------------------------------------
(***************************************************************************)
(* What takes the place of induction: a set of numbers has a smallest one. *)
(***************************************************************************)
LEMMA Smallest ==
  ASSUME NEW S \in SUBSET Nat, S # {}
  PROVE  \E x \in S : \A y \in S : x <= y
  <1> DEFINE Less == {p \in Nat \X Nat : p[1] < p[2]}
  <1>1. IsWellFoundedOn(Less, Nat)
    BY NatLessThanWellFounded DEF OpToRel
  <1> HIDE DEF Less
  <1>2. PICK x \in S : \A y \in S : ~(<<y, x>> \in Less)
    BY <1>1, WFMin
  <1>3. \A y \in S : ~(y < x)
    BY <1>2 DEF Less
  <1> QED BY <1>2, <1>3

\* A set of numbers that has 0 and every successor of its members has all.
LEMMA Successors ==
  ASSUME NEW S, 0 \in S, \A n \in Nat : n \in S => n + 1 \in S
  PROVE  Nat \subseteq S
  <1> SUFFICES ASSUME Nat \ S # {} PROVE FALSE
    OBVIOUS
  <1>1. PICK n \in Nat \ S : \A m \in Nat \ S : n <= m
    BY Smallest
  <1>2. n # 0 /\ n - 1 \in Nat /\ (n - 1) + 1 = n
    BY <1>1
  <1>3. n - 1 \in S
    BY <1>1, <1>2
  <1> QED BY <1>1, <1>2, <1>3

\* The same up to a bound.
LEMMA SuccessorsTo ==
  ASSUME NEW S, NEW bound \in Nat, 0 \in S, \A n \in Nat : n \in S /\ n < bound => n + 1 \in S
  PROVE  0 .. bound \subseteq S
  <1> DEFINE T == {n \in Nat : n <= bound => n \in S}
  <1>1. 0 \in T
    OBVIOUS
  <1>2. \A n \in Nat : n \in T => n + 1 \in T
    OBVIOUS
  <1>3. Nat \subseteq T
    <2> HIDE DEF T
    <2> QED BY <1>1, <1>2, Successors
  <1> QED BY <1>3
-----------------------------------------------------------------------------
(***************************************************************************)
(* Powers of two: 2^n counts the subsets of a set of n members.            *)
(***************************************************************************)
LEMMA PowerNat ==
  ASSUME NEW n \in Nat
  PROVE  2 ^ n \in Nat /\ 2 ^ n = Cardinality(SUBSET (1 .. n))
  <1>1. IsFiniteSet(1 .. n) /\ Cardinality(1 .. n) = n
    BY FS_Interval
  <1>2. IsFiniteSet(SUBSET (1 .. n)) /\ Cardinality(SUBSET (1 .. n)) = 2 ^ Cardinality(1 .. n)
    BY <1>1, FS_SUBSET
  <1>3. Cardinality(SUBSET (1 .. n)) \in Nat
    BY <1>2, FS_CardinalityType
  <1> QED BY <1>1, <1>2, <1>3

LEMMA Power ==
  /\ 2 ^ 0 = 1
  /\ \A n \in Nat : 2 ^ n \in Nat \ {0} /\ 2 ^ (n + 1) = 2 * 2 ^ n
  <1>1. 2 ^ 0 = 1
    OBVIOUS
  <1>2. ASSUME NEW n \in Nat
        PROVE  2 ^ (n + 1) = 2 * 2 ^ n
    <2> DEFINE S == SUBSET (1 .. n)
               with(A) == A \cup {n + 1}
               T == {with(A) : A \in S}
    <2>1. IsFiniteSet(S)
      <3>1. IsFiniteSet(1 .. n)
        BY FS_Interval
      <3> QED BY <3>1, FS_SUBSET
    <2>2. SUBSET (1 .. (n + 1)) = S \cup T
      <3>1. ASSUME NEW A \in SUBSET (1 .. (n + 1)) PROVE A \in S \cup T
        <4>1. CASE n + 1 \in A
          <5>1. A \ {n + 1} \in S /\ A = with(A \ {n + 1})
            BY <4>1
          <5> QED BY <5>1
        <4>2. CASE n + 1 \notin A
          BY <4>2
        <4> QED BY <4>1, <4>2
      <3>2. ASSUME NEW A \in S PROVE A \in SUBSET (1 .. (n + 1)) /\ with(A) \in SUBSET (1 .. (n + 1))
        OBVIOUS
      <3>3. \A B \in T : B \in SUBSET (1 .. (n + 1))
        BY <3>2
      <3> HIDE DEF T
      <3> QED BY <3>1, <3>2, <3>3
    <2>3. S \cap T = {}
      <3>1. \A A \in S : n + 1 \notin A
        OBVIOUS
      <3>2. \A A \in T : n + 1 \in A
        OBVIOUS
      <3> QED BY <3>1, <3>2
    <2>4. IsFiniteSet(T) /\ Cardinality(T) = Cardinality(S)
      <3> DEFINE f == [A \in S |-> with(A)]
      <3>1. ASSUME NEW A \in S, NEW B \in S, with(A) = with(B)
            PROVE  A = B
        <4>1. n + 1 \notin A /\ n + 1 \notin B
          OBVIOUS
        <4> QED BY <3>1, <4>1
      <3>2. f \in Bijection(S, T)
        <4>1. f \in [S -> T] /\ \A A \in S : f[A] = with(A)
          OBVIOUS
        <4>2. \A y \in T : \E A \in S : f[A] = y
          OBVIOUS
        <4>3. \A A, B \in S : f[A] = f[B] => A = B
          <5> HIDE DEF S, with, f
          <5> QED BY <3>1, <4>1
        <4> HIDE DEF S, T, f
        <4> QED BY <4>1, <4>2, <4>3, Fun_IsBij
      <3>3. ExistsBijection(S, T)
        BY <3>2, Fun_ExistsBij
      <3> QED BY <2>1, <3>3, FS_Bijection
    <2>5. IsFiniteSet(S \cap T) /\ Cardinality(S \cap T) = 0
      BY <2>3, FS_EmptySet
    <2>6. Cardinality(S \cup T) = Cardinality(S) + Cardinality(S)
      <3> HIDE DEF S, T
      <3>1. Cardinality(S \cup T) = Cardinality(S) + Cardinality(T) - Cardinality(S \cap T)
        BY <2>1, <2>4, FS_Union
      <3>2. Cardinality(S) \in Nat
        BY <2>1, FS_CardinalityType
      <3> QED BY <2>4, <2>5, <3>1, <3>2
    <2>7. 2 ^ n = Cardinality(S) /\ 2 ^ n \in Nat
      BY PowerNat
    <2>8. 2 ^ (n + 1) = Cardinality(S \cup T)
      BY <2>2, PowerNat
    <2> HIDE DEF S, T
    <2>9. \A c \in Nat : c + c = 2 * c
      OBVIOUS
    <2> QED BY <2>6, <2>7, <2>8, <2>9
  <1>3. \A n \in Nat : 2 ^ n # 0
    <2> DEFINE S == {n \in Nat : 2 ^ n # 0}
    <2>1. 0 \in S
      BY <1>1
    <2>2. \A n \in Nat : n \in S => n + 1 \in S
      BY <1>2, PowerNat
    <2>3. Nat \subseteq S
      <3> HIDE DEF S
      <3> QED BY <2>1, <2>2, Successors
    <2> QED BY <2>3
  <1> QED BY <1>1, <1>2, <1>3, PowerNat

LEMMA PowerSum ==
  ASSUME NEW d \in Nat, NEW n \in Nat
  PROVE  2 ^ (d + n) = 2 ^ d * 2 ^ n
  <1> DEFINE S == {k \in Nat : 2 ^ (d + k) = 2 ^ d * 2 ^ k}
  <1>1. 0 \in S
    BY Power
  <1>2. ASSUME NEW k \in Nat, k \in S PROVE k + 1 \in S
    <2>1. 2 ^ (d + (k + 1)) = 2 * 2 ^ (d + k) /\ 2 ^ (k + 1) = 2 * 2 ^ k
      <3>1. d + k \in Nat /\ d + (k + 1) = (d + k) + 1
        OBVIOUS
      <3> QED BY <3>1, Power
    <2>2. 2 ^ d \in Nat /\ 2 ^ k \in Nat
      BY Power
    <2>3. 2 ^ d * (2 * 2 ^ k) = 2 * (2 ^ d * 2 ^ k)
      BY <2>2
    <2> QED BY <1>2, <2>1, <2>3
  <1>3. Nat \subseteq S
    <2> HIDE DEF S
    <2> QED BY <1>1, <1>2, Successors
  <1> QED BY <1>3
-----------------------------------------------------------------------------
(***************************************************************************)
(* What a word stands for, bit by bit.                                     *)
(***************************************************************************)

\* What bit n - 1 adds to the value of a word.
Weight(w, n) == IF n - 1 \in w THEN 2 ^ (n - 1) ELSE 0

\* f has the sum of the lowest bits of w, at all numbers of bits in D.
Sums(w, D, f) == f = [n \in D |-> IF n = 0 THEN 0 ELSE f[n - 1] + Weight(w, n)]

\* The value of the lowest n bits of w.
Low(w, n) == (CHOOSE f : Sums(w, Nat, f))[n]

LEMMA ValueIsLow == ASSUME NEW w PROVE Value(w) = Low(w, Width)
  BY DEF Value, Low, Sums, Weight

LEMMA SumsTo == ASSUME NEW w, NEW n \in Nat PROVE \E f : Sums(w, 0 .. n, f)
  <1> DEFINE S == {k \in Nat : \E f : Sums(w, 0 .. k, f)}
  <1>1. 0 \in S
    <2>1. [k \in 0 .. 0 |-> 0] =
            [k \in 0 .. 0 |-> IF k = 0 THEN 0 ELSE [j \in 0 .. 0 |-> 0][k - 1] + Weight(w, k)]
      OBVIOUS
    <2> QED BY <2>1 DEF Sums
  <1>2. ASSUME NEW k \in Nat, k \in S PROVE k + 1 \in S
    <2>1. PICK f : Sums(w, 0 .. k, f)
      BY <1>2
    <2> DEFINE g == [j \in 0 .. (k + 1) |-> IF j = k + 1 THEN f[k] + Weight(w, k + 1) ELSE f[j]]
    <2>2. ASSUME NEW j \in 0 .. (k + 1)
          PROVE  g[j] = IF j = 0 THEN 0 ELSE g[j - 1] + Weight(w, j)
      <3>1. CASE j = k + 1
        <4>1. g[j] = f[k] + Weight(w, j) /\ j - 1 \in 0 .. (k + 1) /\ j - 1 = k /\ j - 1 # k + 1
          BY <3>1
        <4>2. g[j - 1] = f[k]
          BY <4>1
        <4> QED BY <3>1, <4>1, <4>2
      <3>2. CASE j \in 1 .. k
        <4>1. f[j] = f[j - 1] + Weight(w, j)
          BY <2>1, <3>2 DEF Sums
        <4>2. g[j] = f[j] /\ g[j - 1] = f[j - 1]
          BY <3>2
        <4> QED BY <3>2, <4>1, <4>2
      <3>3. CASE j = 0
        <4>1. f[0] = 0
          BY <2>1 DEF Sums
        <4> QED BY <3>3, <4>1
      <3> QED BY <3>1, <3>2, <3>3
    <2>3. Sums(w, 0 .. (k + 1), g)
      <3>1. g = [j \in 0 .. (k + 1) |-> g[j]]
        OBVIOUS
      <3> HIDE DEF g
      <3> QED BY <2>2, <3>1 DEF Sums
    <2> QED BY <2>3
  <1>3. Nat \subseteq S
    <2> HIDE DEF S
    <2> QED BY <1>1, <1>2, Successors
  <1> QED BY <1>3

LEMMA SumsAgree ==
  ASSUME NEW w, NEW m \in Nat, NEW n \in Nat, NEW f, NEW g, m <= n,
         Sums(w, 0 .. m, f), Sums(w, 0 .. n, g)
  PROVE  f[m] = g[m]
  <1> DEFINE S == {k \in Nat : k <= m => f[k] = g[k]}
  <1>1. 0 \in S
    BY DEF Sums
  <1>2. ASSUME NEW k \in Nat, k \in S PROVE k + 1 \in S
    <2> SUFFICES ASSUME k + 1 <= m PROVE f[k + 1] = g[k + 1]
      OBVIOUS
    <2>1. k + 1 \in 0 .. m /\ k + 1 \in 0 .. n /\ k + 1 # 0 /\ (k + 1) - 1 = k
      OBVIOUS
    <2>2. f[k + 1] = f[k] + Weight(w, k + 1) /\ g[k + 1] = g[k] + Weight(w, k + 1)
      BY <2>1 DEF Sums
    <2>3. f[k] = g[k]
      BY <1>2
    <2> QED BY <2>2, <2>3
  <1>3. Nat \subseteq S
    <2> HIDE DEF S
    <2> QED BY <1>1, <1>2, Successors
  <1> QED BY <1>3

LEMMA LowSums ==
  ASSUME NEW w
  PROVE  /\ Low(w, 0) = 0
         /\ \A n \in Nat : Low(w, n + 1) = Low(w, n) + (IF n \in w THEN 2 ^ n ELSE 0)
  <1> DEFINE part(n) == CHOOSE f : Sums(w, 0 .. n, f)
             f == [n \in Nat |-> part(n)[n]]
  <1>1. \A n \in Nat : Sums(w, 0 .. n, part(n))
    BY SumsTo
  <1>2. ASSUME NEW n \in Nat PROVE f[n] = IF n = 0 THEN 0 ELSE f[n - 1] + Weight(w, n)
    <2>1. f[n] = part(n)[n]
      OBVIOUS
    <2>2. CASE n = 0
      <3>1. part(0)[0] = 0
        <4>1. Sums(w, 0 .. 0, part(0))
          BY <1>1
        <4> HIDE DEF part
        <4> QED BY <4>1 DEF Sums
      <3> QED BY <2>1, <2>2, <3>1
    <2>3. CASE n # 0
      <3>1. n - 1 \in Nat /\ n - 1 <= n /\ n \in 0 .. n /\ f[n - 1] = part(n - 1)[n - 1]
        BY <2>3
      <3>2. part(n)[n] = part(n)[n - 1] + Weight(w, n)
        <4>1. Sums(w, 0 .. n, part(n))
          BY <1>1
        <4> HIDE DEF part
        <4> QED BY <2>3, <3>1, <4>1 DEF Sums
      <3>3. part(n)[n - 1] = part(n - 1)[n - 1]
        <4>1. Sums(w, 0 .. n, part(n)) /\ Sums(w, 0 .. (n - 1), part(n - 1))
          BY <1>1, <3>1
        <4> HIDE DEF part
        <4> QED BY <3>1, <4>1, SumsAgree
      <3> QED BY <2>1, <2>3, <3>1, <3>2, <3>3
    <2> QED BY <2>2, <2>3
  <1>3. \E g : Sums(w, Nat, g)
    <2>1. f = [n \in Nat |-> f[n]]
      OBVIOUS
    <2>2. Sums(w, Nat, f)
      <3> HIDE DEF f
      <3> QED BY <1>2, <2>1 DEF Sums
    <2> QED BY <2>2
  <1> DEFINE low == CHOOSE g : Sums(w, Nat, g)
  <1>4. low = [n \in Nat |-> IF n = 0 THEN 0 ELSE low[n - 1] + Weight(w, n)]
    <2>1. Sums(w, Nat, low)
      BY <1>3
    <2> QED BY <2>1 DEF Sums
  <1>5. \A n : Low(w, n) = low[n]
    BY DEF Low
  <1> HIDE DEF low
  <1>6. \A n \in Nat : low[n + 1] = low[n] + Weight(w, n + 1)
    <2> TAKE n \in Nat
    <2>1. n + 1 \in Nat /\ n + 1 # 0 /\ (n + 1) - 1 = n
      OBVIOUS
    <2> QED BY <1>4, <2>1
  <1>7. \A n \in Nat : Weight(w, n + 1) = IF n \in w THEN 2 ^ n ELSE 0
    <2> TAKE n \in Nat
    <2>1. (n + 1) - 1 = n
      OBVIOUS
    <2> QED BY <2>1 DEF Weight
  <1> QED BY <1>4, <1>5, <1>6, <1>7

LEMMA LowRange == ASSUME NEW w, NEW n \in Nat PROVE Low(w, n) \in Nat /\ Low(w, n) < 2 ^ n
  <1> DEFINE S == {k \in Nat : Low(w, k) \in Nat /\ Low(w, k) < 2 ^ k}
  <1>1. 0 \in S
    BY LowSums, Power
  <1>2. ASSUME NEW k \in Nat, k \in S PROVE k + 1 \in S
    <2>1. 2 ^ k \in Nat /\ 2 ^ (k + 1) = 2 * 2 ^ k
      BY Power
    <2>2. Low(w, k + 1) = Low(w, k) \/ Low(w, k + 1) = Low(w, k) + 2 ^ k
      BY <1>2, LowSums
    <2> QED BY <1>2, <2>1, <2>2
  <1>3. Nat \subseteq S
    <2> HIDE DEF S
    <2> QED BY <1>1, <1>2, Successors
  <1> QED BY <1>3

\* The bits from n up weigh a multiple of 2^n.
LEMMA HighPart ==
  ASSUME NEW w, NEW n \in Nat, NEW m \in Nat
  PROVE  \E high \in Nat : Low(w, n + m) = Low(w, n) + 2 ^ n * high
  <1> DEFINE S == {k \in Nat : \E high \in Nat : Low(w, n + k) = Low(w, n) + 2 ^ n * high}
  <1>1. 0 \in S
    <2>1. Low(w, n + 0) = Low(w, n) + 2 ^ n * 0
      BY LowRange, Power
    <2> QED BY <2>1
  <1>2. ASSUME NEW k \in Nat, k \in S PROVE k + 1 \in S
    <2>1. PICK high \in Nat : Low(w, n + k) = Low(w, n) + 2 ^ n * high
      BY <1>2
    <2>2. /\ 2 ^ (n + k) = 2 ^ n * 2 ^ k /\ 2 ^ k \in Nat /\ 2 ^ n \in Nat /\ Low(w, n) \in Nat
          /\ n + k \in Nat /\ n + (k + 1) = (n + k) + 1
      BY PowerSum, Power, LowRange
    <2>3. CASE n + k \in w
      <3>1. Low(w, n + (k + 1)) = Low(w, n + k) + 2 ^ (n + k)
        BY <2>2, <2>3, LowSums
      <3>2. 2 ^ n * high + 2 ^ n * 2 ^ k = 2 ^ n * (high + 2 ^ k) /\ high + 2 ^ k \in Nat
        BY <2>2
      <3>3. Low(w, n + (k + 1)) = Low(w, n) + 2 ^ n * (high + 2 ^ k)
        BY <2>1, <2>2, <3>1, <3>2
      <3> QED BY <3>2, <3>3
    <2>4. CASE n + k \notin w
      <3>1. Low(w, n + (k + 1)) = Low(w, n + k) + 0 /\ Low(w, n + k) \in Nat
        BY <2>2, <2>4, LowSums, LowRange
      <3>2. Low(w, n + (k + 1)) = Low(w, n + k)
        BY <3>1
      <3>3. Low(w, n + (k + 1)) = Low(w, n) + 2 ^ n * high
        BY <2>1, <3>2
      <3>4. k + 1 \in Nat
        OBVIOUS
      <3> QED BY <2>1, <3>3, <3>4
    <2> QED BY <2>3, <2>4
  <1>3. Nat \subseteq S
    <2> HIDE DEF S
    <2> QED BY <1>1, <1>2, Successors
  <1> QED BY <1>3

\* A division by d, from its quotient and remainder.
LEMMA Division ==
  ASSUME NEW x \in Int, NEW d \in Nat, d # 0, NEW q \in Int, NEW r \in 0 .. (d - 1), x = d * q + r
  PROVE  x \div d = q /\ x % d = r
  <1>1. x = d * (x \div d) + (x % d) /\ x % d \in 0 .. (d - 1) /\ x \div d \in Int
    OBVIOUS
  <1>2. d * q <= x /\ x < d * q + d
    OBVIOUS
  <1>3. x \div d = q
    BY <1>2
  <1> QED BY <1>1, <1>3

\* The bits of a word are the binary digits of its value.
LEMMA Digits ==
  ASSUME NEW w, NEW n \in Nat, NEW i \in Nat, i < n
  PROVE  (Low(w, n) \div (2 ^ i)) % 2 = 1 <=> i \in w
  <1> DEFINE b == IF i \in w THEN 1 ELSE 0
  <1>1. PICK high \in Nat : Low(w, n) = Low(w, i + 1) + 2 ^ (i + 1) * high
    <2>1. i + 1 \in Nat /\ n - (i + 1) \in Nat /\ (i + 1) + (n - (i + 1)) = n
      OBVIOUS
    <2>2. \E high \in Nat : Low(w, (i + 1) + (n - (i + 1))) = Low(w, i + 1) + 2 ^ (i + 1) * high
      BY <2>1, HighPart
    <2> QED BY <2>1, <2>2
  <1>2. /\ Low(w, i + 1) = Low(w, i) + 2 ^ i * b
        /\ 2 ^ (i + 1) = 2 * 2 ^ i /\ 2 ^ i \in Nat \ {0} /\ Low(w, i) \in Nat /\ Low(w, i) < 2 ^ i
        /\ b \in {0, 1}
    BY LowSums, LowRange, Power
  <1>3. Low(w, n) = 2 ^ i * (b + 2 * high) + Low(w, i)
    <2> HIDE DEF b
    <2>1. \A p \in Nat : p * b + (2 * p) * high = p * (b + 2 * high)
      BY <1>2
    <2>2. 2 ^ i * b + (2 * 2 ^ i) * high = 2 ^ i * (b + 2 * high)
      BY <1>2, <2>1
    <2>3. 2 ^ i * b \in Nat /\ (2 * 2 ^ i) * high \in Nat
      BY <1>2
    <2> QED BY <1>1, <1>2, <2>2, <2>3
  <1>4. Low(w, n) \div (2 ^ i) = b + 2 * high
    <2> HIDE DEF b
    <2>1. b + 2 * high \in Int /\ Low(w, n) \in Int /\ Low(w, i) \in 0 .. (2 ^ i - 1)
      BY <1>2, LowRange
    <2>2. 2 ^ i \in Nat /\ 2 ^ i # 0
      BY <1>2
    <2> QED BY <1>3, <2>1, <2>2, Division
  <1>5. (b + 2 * high) % 2 = b
    BY <1>2
  <1> QED BY <1>4, <1>5

LEMMA ValueRange ==
  ASSUME WordBits, NEW w
  PROVE  /\ Value(w) \in Nat /\ Value(w) < 2 ^ Width
         /\ 2 ^ Width \in Nat \ {0}
         /\ Value(w) % (2 ^ Width) = Value(w)
  <1>1. Value(w) \in Nat /\ Value(w) < 2 ^ Width /\ 2 ^ Width \in Nat \ {0}
    BY LowRange, ValueIsLow, Power DEF WordBits
  <1>2. Value(w) % (2 ^ Width) = Value(w)
    BY <1>1, Division
  <1> QED BY <1>1, <1>2

\* A word is told by its value.
LEMMA WordOfValue ==
  ASSUME WordBits, NEW w \in Word
  PROVE  WordOf(Value(w)) = w
  <1>1. \A i \in Bits : (Value(w) \div (2 ^ i)) % 2 = 1 <=> i \in w
    BY Digits, ValueIsLow DEF WordBits
  <1> QED BY <1>1 DEF WordOf, Word
-----------------------------------------------------------------------------
(***************************************************************************)
(* Sums and differences: a carry or borrow is what the numbers below it    *)
(* overflow or fall short by.                                              *)
(***************************************************************************)
LEMMA CarryRipples ==
  ASSUME WordBits, NEW a \in Word, NEW b \in Word, NEW n \in Nat
  PROVE  /\ ~Carry(a, b, 0)
         /\ Carry(a, b, n + 1) <=> \/ n \in a /\ n \in b
                                   \/ (n \in a \/ n \in b) /\ Carry(a, b, n)
  <1> a \subseteq Nat /\ b \subseteq Nat
    BY DEF Word, WordBits
  <1>1. ASSUME n \in a \cap b
        PROVE  Carry(a, b, n + 1)
    BY <1>1 DEF Carry
  <1>2. ASSUME n \in a \cup b, Carry(a, b, n)
        PROVE  Carry(a, b, n + 1)
    <2>1. PICK j \in a \cap b : j < n /\ \A k \in (j + 1) .. (n - 1) : k \in a \cup b
      BY <1>2 DEF Carry
    <2>2. \A k \in (j + 1) .. ((n + 1) - 1) : k = n \/ k \in (j + 1) .. (n - 1)
      OBVIOUS
    <2>3. \A k \in (j + 1) .. ((n + 1) - 1) : k \in a \cup b
      BY <1>2, <2>1, <2>2
    <2> QED BY <2>1, <2>3 DEF Carry
  <1>3. ASSUME Carry(a, b, n + 1), n \notin a \cap b
        PROVE  n \in a \cup b /\ Carry(a, b, n)
    <2>1. PICK j \in a \cap b : j < n + 1 /\ \A k \in (j + 1) .. ((n + 1) - 1) : k \in a \cup b
      BY <1>3 DEF Carry
    <2>2. j # n /\ j < n
      BY <1>3, <2>1
    <2>3. n \in (j + 1) .. ((n + 1) - 1)
          /\ \A k \in (j + 1) .. (n - 1) : k \in (j + 1) .. ((n + 1) - 1)
      BY <2>2
    <2> QED BY <2>1, <2>2, <2>3 DEF Carry
  <1>4. ~Carry(a, b, 0)
    BY DEF Carry
  <1> QED BY <1>1, <1>2, <1>3, <1>4

LEMMA BorrowRipples ==
  ASSUME WordBits, NEW a \in Word, NEW b \in Word, NEW n \in Nat
  PROVE  /\ ~Borrow(a, b, 0)
         /\ Borrow(a, b, n + 1) <=> \/ n \in b \ a
                                    \/ (n \in a => n \in b) /\ Borrow(a, b, n)
  <1> a \subseteq Nat /\ b \subseteq Nat
    BY DEF Word, WordBits
  <1>1. ASSUME n \in b \ a
        PROVE  Borrow(a, b, n + 1)
    BY <1>1 DEF Borrow
  <1>2. ASSUME n \in a => n \in b, Borrow(a, b, n)
        PROVE  Borrow(a, b, n + 1)
    <2>1. PICK j \in b \ a : j < n /\ \A k \in (j + 1) .. (n - 1) : k \in a => k \in b
      BY <1>2 DEF Borrow
    <2>2. \A k \in (j + 1) .. ((n + 1) - 1) : k = n \/ k \in (j + 1) .. (n - 1)
      OBVIOUS
    <2>3. \A k \in (j + 1) .. ((n + 1) - 1) : k \in a => k \in b
      BY <1>2, <2>1, <2>2
    <2> QED BY <2>1, <2>3 DEF Borrow
  <1>3. ASSUME Borrow(a, b, n + 1), n \notin b \ a
        PROVE  (n \in a => n \in b) /\ Borrow(a, b, n)
    <2>1. PICK j \in b \ a : j < n + 1 /\ \A k \in (j + 1) .. ((n + 1) - 1) : k \in a => k \in b
      BY <1>3 DEF Borrow
    <2>2. j # n /\ j < n
      BY <1>3, <2>1
    <2>3. n \in (j + 1) .. ((n + 1) - 1)
          /\ \A k \in (j + 1) .. (n - 1) : k \in (j + 1) .. ((n + 1) - 1)
      BY <2>2
    <2> QED BY <2>1, <2>2, <2>3 DEF Borrow
  <1>4. ~Borrow(a, b, 0)
    BY DEF Borrow
  <1> QED BY <1>1, <1>2, <1>3, <1>4

LEMMA SumLow ==
  ASSUME WordBits, NEW a \in Word, NEW b \in Word, NEW n \in 0 .. Width
  PROVE  Low(a, n) + Low(b, n) = Low(Add(a, b), n) + (IF Carry(a, b, n) THEN 2 ^ n ELSE 0)
  <1> DEFINE S == {k \in Nat : Low(a, k) + Low(b, k)
                                 = Low(Add(a, b), k) + (IF Carry(a, b, k) THEN 2 ^ k ELSE 0)}
  <1>1. 0 \in S
    BY LowSums, CarryRipples
  <1>2. ASSUME NEW k \in Nat, k \in S, k < Width PROVE k + 1 \in S
    <2>1. k \in Add(a, b) <=> ((k \in a <=> k \in b) <=> Carry(a, b, k))
      <3>1. k \in Bits
        BY <1>2 DEF WordBits
      <3> QED BY <3>1 DEF Add, Xor
    <2>2. Carry(a, b, k + 1) <=> \/ k \in a /\ k \in b
                                 \/ (k \in a \/ k \in b) /\ Carry(a, b, k)
      BY CarryRipples
    <2>3. /\ Low(a, k + 1) = Low(a, k) + (IF k \in a THEN 2 ^ k ELSE 0)
          /\ Low(b, k + 1) = Low(b, k) + (IF k \in b THEN 2 ^ k ELSE 0)
          /\ Low(Add(a, b), k + 1) = Low(Add(a, b), k) + (IF k \in Add(a, b) THEN 2 ^ k ELSE 0)
      BY LowSums
    <2>4. /\ 2 ^ k \in Nat /\ 2 ^ (k + 1) = 2 * 2 ^ k
          /\ Low(a, k) \in Nat /\ Low(b, k) \in Nat /\ Low(Add(a, b), k) \in Nat
      BY LowRange, Power
    <2>5. Low(a, k) + Low(b, k) = Low(Add(a, b), k) + (IF Carry(a, b, k) THEN 2 ^ k ELSE 0)
      BY <1>2
    <2>6. Low(a, k + 1) + Low(b, k + 1)
            = Low(Add(a, b), k + 1) + (IF Carry(a, b, k + 1) THEN 2 ^ (k + 1) ELSE 0)
      BY <2>1, <2>2, <2>3, <2>4, <2>5
    <2> QED BY <2>6
  <1>3. 0 .. Width \subseteq S
    <2> HIDE DEF S
    <2> QED BY <1>1, <1>2, SuccessorsTo DEF WordBits
  <1> QED BY <1>3

LEMMA DifferenceLow ==
  ASSUME WordBits, NEW a \in Word, NEW b \in Word, NEW n \in 0 .. Width
  PROVE  Low(a, n) - Low(b, n) = Low(Sub(a, b), n) - (IF Borrow(a, b, n) THEN 2 ^ n ELSE 0)
  <1> DEFINE S == {k \in Nat : Low(a, k) - Low(b, k)
                                 = Low(Sub(a, b), k) - (IF Borrow(a, b, k) THEN 2 ^ k ELSE 0)}
  <1>1. 0 \in S
    BY LowSums, BorrowRipples
  <1>2. ASSUME NEW k \in Nat, k \in S, k < Width PROVE k + 1 \in S
    <2>1. k \in Sub(a, b) <=> ((k \in a <=> k \in b) <=> Borrow(a, b, k))
      <3>1. k \in Bits
        BY <1>2 DEF WordBits
      <3> QED BY <3>1 DEF Sub, Xor
    <2>2. Borrow(a, b, k + 1) <=> \/ k \in b \ a
                                  \/ (k \in a => k \in b) /\ Borrow(a, b, k)
      BY BorrowRipples
    <2>3. /\ Low(a, k + 1) = Low(a, k) + (IF k \in a THEN 2 ^ k ELSE 0)
          /\ Low(b, k + 1) = Low(b, k) + (IF k \in b THEN 2 ^ k ELSE 0)
          /\ Low(Sub(a, b), k + 1) = Low(Sub(a, b), k) + (IF k \in Sub(a, b) THEN 2 ^ k ELSE 0)
      BY LowSums
    <2>4. /\ 2 ^ k \in Nat /\ 2 ^ (k + 1) = 2 * 2 ^ k
          /\ Low(a, k) \in Nat /\ Low(b, k) \in Nat /\ Low(Sub(a, b), k) \in Nat
      BY LowRange, Power
    <2>5. Low(a, k) - Low(b, k) = Low(Sub(a, b), k) - (IF Borrow(a, b, k) THEN 2 ^ k ELSE 0)
      BY <1>2
    <2>6. Low(a, k + 1) - Low(b, k + 1)
            = Low(Sub(a, b), k + 1) - (IF Borrow(a, b, k + 1) THEN 2 ^ (k + 1) ELSE 0)
      BY <2>1, <2>2, <2>3, <2>4, <2>5
    <2> QED BY <2>6
  <1>3. 0 .. Width \subseteq S
    <2> HIDE DEF S
    <2> QED BY <1>1, <1>2, SuccessorsTo DEF WordBits
  <1> QED BY <1>3

LEMMA SumIsSum ==
  ASSUME WordBits, NEW a \in Word, NEW b \in Word
  PROVE  Add(a, b) = WordOf((Value(a) + Value(b)) % (2 ^ Width))
  <1> DEFINE p == 2 ^ Width
             c == IF Carry(a, b, Width) THEN 1 ELSE 0
  <1>1. Value(a) + Value(b) = p * c + Value(Add(a, b))
    <2>1. /\ Low(a, Width) + Low(b, Width)
               = Low(Add(a, b), Width) + (IF Carry(a, b, Width) THEN 2 ^ Width ELSE 0)
          /\ 2 ^ Width \in Nat /\ Low(Add(a, b), Width) \in Nat
      BY SumLow, LowRange, Power DEF WordBits
    <2> QED BY <2>1, ValueIsLow
  <1>2. /\ p \in Nat /\ p # 0 /\ c \in Int /\ Value(Add(a, b)) \in 0 .. (p - 1)
        /\ Value(a) + Value(b) \in Int
    BY ValueRange
  <1>3. (Value(a) + Value(b)) % p = Value(Add(a, b))
    <2> HIDE DEF p, c
    <2> QED BY <1>1, <1>2, Division
  <1>4. Add(a, b) \in Word
    BY DEF Add, Xor, Word
  <1> QED BY <1>3, <1>4, WordOfValue

LEMMA DifferenceIsDifference ==
  ASSUME WordBits, NEW a \in Word, NEW b \in Word
  PROVE  /\ Sub(a, b) = WordOf((Value(a) - Value(b)) % (2 ^ Width))
         /\ Below(a, b) <=> Value(a) < Value(b)
  <1> DEFINE p == 2 ^ Width
             c == IF Below(a, b) THEN -1 ELSE 0
  <1>1. Value(a) - Value(b) = p * c + Value(Sub(a, b))
    <2>1. /\ Low(a, Width) - Low(b, Width)
               = Low(Sub(a, b), Width) - (IF Borrow(a, b, Width) THEN 2 ^ Width ELSE 0)
          /\ 2 ^ Width \in Nat /\ Low(Sub(a, b), Width) \in Nat
      BY DifferenceLow, LowRange, Power DEF WordBits
    <2> QED BY <2>1, ValueIsLow DEF Below
  <1>2. /\ p \in Nat /\ p # 0 /\ c \in Int /\ Value(Sub(a, b)) \in 0 .. (p - 1)
        /\ Value(a) - Value(b) \in Int /\ Value(a) \in Nat /\ Value(b) \in Nat
    BY ValueRange
  <1>3. (Value(a) - Value(b)) % p = Value(Sub(a, b))
    <2> HIDE DEF p, c
    <2> QED BY <1>1, <1>2, Division
  <1>4. Sub(a, b) \in Word
    BY DEF Sub, Xor, Word
  <1>5. Sub(a, b) = WordOf((Value(a) - Value(b)) % (2 ^ Width))
    BY <1>3, <1>4, WordOfValue
  <1>6. CASE Below(a, b)
    <2>1. Value(a) - Value(b) = Value(Sub(a, b)) - p
      BY <1>1, <1>2, <1>6
    <2>2. Value(a) < Value(b)
      <3> HIDE DEF p
      <3> QED BY <1>2, <2>1
    <2> QED BY <1>5, <1>6, <2>2
  <1>7. CASE ~Below(a, b)
    <2>1. Value(a) - Value(b) = Value(Sub(a, b))
      BY <1>1, <1>2, <1>7
    <2>2. ~(Value(a) < Value(b))
      <3> HIDE DEF p
      <3> QED BY <1>2, <2>1
    <2> QED BY <1>5, <1>7, <2>2
  <1> QED BY <1>6, <1>7

\* Signs that differ decide, since a negative number is below its half of the range.
LEMMA SignedIsSigned ==
  ASSUME WordBits, NEW a \in Word, NEW b \in Word
  PROVE  /\ Signed(a) \in Int /\ Signed(b) \in Int
         /\ LessSigned(a, b) <=> Signed(a) < Signed(b)
  <1> DEFINE p == 2 ^ Sign
  <1>1. Sign \in Nat /\ Width = Sign + 1 /\ 2 ^ Width = 2 * p /\ p \in Nat
    BY Power DEF WordBits, Sign
  <1>2. ASSUME NEW w
        PROVE  /\ Signed(w) \in Int
               /\ Sign \in w => Signed(w) < 0 /\ Signed(w) = Value(w) - 2 ^ Width
               /\ Sign \notin w => Signed(w) >= 0 /\ Signed(w) = Value(w)
    <2>1. /\ Value(w) = Low(w, Sign) + (IF Sign \in w THEN p ELSE 0)
          /\ Low(w, Sign) \in Nat /\ Low(w, Sign) < p
      BY <1>1, LowSums, LowRange, ValueIsLow
    <2> HIDE DEF p
    <2> QED BY <1>1, <2>1 DEF Signed
  <1>3. Below(a, b) <=> Value(a) < Value(b)
    BY DifferenceIsDifference
  <1>4. Value(a) \in Nat /\ Value(b) \in Nat /\ 2 ^ Width \in Nat
    BY ValueRange
  <1>5. CASE Sign \in a /\ Sign \in b
    <2>1. LessSigned(a, b) <=> Below(a, b)
      BY <1>5 DEF LessSigned
    <2>2. Signed(a) < Signed(b) <=> Value(a) < Value(b)
      BY <1>2, <1>4, <1>5
    <2> QED BY <1>2, <1>3, <2>1, <2>2
  <1>6. CASE Sign \notin a /\ Sign \notin b
    <2>1. LessSigned(a, b) <=> Below(a, b)
      BY <1>6 DEF LessSigned
    <2>2. Signed(a) < Signed(b) <=> Value(a) < Value(b)
      BY <1>2, <1>6
    <2> QED BY <1>2, <1>3, <2>1, <2>2
  <1>7. CASE ~(Sign \in a <=> Sign \in b)
    <2>1. LessSigned(a, b) <=> Sign \in a
      BY <1>7 DEF LessSigned
    <2>2. Signed(a) < Signed(b) <=> Sign \in a
      BY <1>2, <1>7
    <2> QED BY <1>2, <2>1, <2>2
  <1> QED BY <1>5, <1>6, <1>7
-----------------------------------------------------------------------------
(***************************************************************************)
(* Shifts: the bits from d up, read from 0, are the quotient by 2^d.       *)
(***************************************************************************)
LEMMA ShiftedLow ==
  ASSUME NEW w, NEW s, NEW d \in Nat, NEW m \in Nat,
         \A n \in Nat : n < m => (n \in s <=> d + n \in w)
  PROVE  Low(w, d + m) = Low(w, d) + 2 ^ d * Low(s, m)
  <1> DEFINE S == {n \in Nat : Low(w, d + n) = Low(w, d) + 2 ^ d * Low(s, n)}
  <1>1. 0 \in S
    <2>1. Low(s, 0) = 0 /\ Low(w, d) \in Nat /\ 2 ^ d \in Nat /\ d + 0 = d
      BY LowSums, LowRange, Power
    <2> QED BY <2>1
  <1>2. ASSUME NEW n \in Nat, n \in S, n < m PROVE n + 1 \in S
    <2>1. /\ 2 ^ (d + n) = 2 ^ d * 2 ^ n /\ 2 ^ n \in Nat /\ 2 ^ d \in Nat /\ Low(w, d) \in Nat
          /\ Low(s, n) \in Nat /\ d + n \in Nat /\ d + (n + 1) = (d + n) + 1 /\ Low(w, d + n) \in Nat
      <3>1. d + n \in Nat /\ d + (n + 1) = (d + n) + 1
        OBVIOUS
      <3>2. Low(w, d + n) \in Nat /\ Low(w, d) \in Nat /\ Low(s, n) \in Nat
        BY <3>1, LowRange
      <3> QED BY <3>1, <3>2, PowerSum, Power
    <2>2. CASE n \in s
      <3>1. Low(w, d + (n + 1)) = Low(w, d + n) + 2 ^ (d + n) /\ Low(s, n + 1) = Low(s, n) + 2 ^ n
        BY <1>2, <2>1, <2>2, LowSums
      <3>2. 2 ^ d * (Low(s, n) + 2 ^ n) = 2 ^ d * Low(s, n) + 2 ^ d * 2 ^ n
        BY <2>1
      <3>3. 2 ^ d * Low(s, n) \in Nat /\ 2 ^ d * 2 ^ n \in Nat
        BY <2>1
      <3>4. Low(w, d + (n + 1)) = Low(w, d) + 2 ^ d * Low(s, n + 1)
        BY <1>2, <2>1, <3>1, <3>2, <3>3
      <3> QED BY <3>4
    <2>3. CASE n \notin s
      <3>1. Low(w, d + (n + 1)) = Low(w, d + n) + 0 /\ Low(s, n + 1) = Low(s, n) + 0
        BY <1>2, <2>1, <2>3, LowSums
      <3>2. Low(w, d + (n + 1)) = Low(w, d) + 2 ^ d * Low(s, n + 1)
        BY <1>2, <2>1, <3>1
      <3> QED BY <3>2
    <2> QED BY <2>2, <2>3
  <1>3. m \in S
    <2> HIDE DEF S
    <2>1. 0 .. m \subseteq S
      BY <1>1, <1>2, SuccessorsTo
    <2> QED BY <2>1
  <1> QED BY <1>3

\* A run of zeros adds nothing, a run of ones 2^(n + m) - 2^n.
LEMMA Runs ==
  ASSUME NEW w, NEW n \in Nat, NEW m \in Nat
  PROVE  /\ (\A i \in n .. (n + m - 1) : i \notin w) => Low(w, n + m) = Low(w, n)
         /\ (\A i \in n .. (n + m - 1) : i \in w)
              => Low(w, n + m) = Low(w, n) + 2 ^ (n + m) - 2 ^ n
  <1> DEFINE Zeros == {k \in Nat : Low(w, n + k) = Low(w, n)}
             Ones == {k \in Nat : Low(w, n + k) = Low(w, n) + 2 ^ (n + k) - 2 ^ n}
  <1>1. 0 \in Zeros /\ 0 \in Ones
    <2>1. Low(w, n) \in Nat /\ 2 ^ n \in Nat /\ n + 0 = n
      BY LowRange, Power
    <2> QED BY <2>1
  <1>2. ASSUME NEW k \in Nat
        PROVE  /\ n + k \in Nat /\ n + (k + 1) = (n + k) + 1 /\ Low(w, n + k) \in Nat
               /\ 2 ^ (n + k) \in Nat /\ 2 ^ (n + (k + 1)) = 2 * 2 ^ (n + k)
               /\ 2 ^ n \in Nat /\ Low(w, n) \in Nat
               /\ n + k \in w => Low(w, n + (k + 1)) = Low(w, n + k) + 2 ^ (n + k)
               /\ n + k \notin w => Low(w, n + (k + 1)) = Low(w, n + k)
    <2>1. n + k \in Nat /\ n + (k + 1) = (n + k) + 1
      OBVIOUS
    <2>2. Low(w, n + k) \in Nat /\ Low(w, n) \in Nat
      BY <2>1, LowRange
    <2>3. 2 ^ (n + k) \in Nat /\ 2 ^ ((n + k) + 1) = 2 * 2 ^ (n + k) /\ 2 ^ n \in Nat
      BY <2>1, Power
    <2>4. Low(w, (n + k) + 1) = Low(w, n + k) + (IF n + k \in w THEN 2 ^ (n + k) ELSE 0)
      BY <2>1, LowSums
    <2> QED BY <2>1, <2>2, <2>3, <2>4
  <1>3. ASSUME \A i \in n .. (n + m - 1) : i \notin w
        PROVE  Low(w, n + m) = Low(w, n)
    <2>1. ASSUME NEW k \in Nat, k \in Zeros, k < m PROVE k + 1 \in Zeros
      <3>1. n + k \notin w
        BY <1>3, <2>1
      <3>2. Low(w, n + (k + 1)) = Low(w, n)
        BY <1>2, <2>1, <3>1
      <3> QED BY <3>2
    <2>2. 0 .. m \subseteq Zeros
      <3> HIDE DEF Zeros
      <3> QED BY <1>1, <2>1, SuccessorsTo
    <2> QED BY <2>2
  <1>4. ASSUME \A i \in n .. (n + m - 1) : i \in w
        PROVE  Low(w, n + m) = Low(w, n) + 2 ^ (n + m) - 2 ^ n
    <2>1. ASSUME NEW k \in Nat, k \in Ones, k < m PROVE k + 1 \in Ones
      <3>1. n + k \in w
        BY <1>4, <2>1
      <3>2. Low(w, n + k) = Low(w, n) + 2 ^ (n + k) - 2 ^ n
        BY <2>1
      <3>3. Low(w, n + (k + 1)) = Low(w, n) + 2 ^ (n + (k + 1)) - 2 ^ n
        BY <1>2, <3>1, <3>2
      <3> QED BY <3>3
    <2>2. 0 .. m \subseteq Ones
      <3> HIDE DEF Ones
      <3> QED BY <1>1, <2>1, SuccessorsTo
    <2> QED BY <2>2
  <1> QED BY <1>3, <1>4

LEMMA LeftIsProduct ==
  ASSUME WordBits, NEW a \in Word, NEW d \in 0 .. (Width - 1)
  PROVE  {i \in Bits : i - d \in a} = WordOf((Value(a) * (2 ^ d)) % (2 ^ Width))
  <1> DEFINE s == {i \in Bits : i - d \in a}
             m == Width - d
             p == 2 ^ Width
  <1>1. d \in Nat /\ m \in Nat /\ d + m = Width /\ m + d = Width /\ Width \in Nat
        /\ a \subseteq Nat /\ Bits = 0 .. (Width - 1)
    BY DEF WordBits, Word
  <1>2. \A n \in Nat : n < m => (n \in a <=> d + n \in s)
    <2> TAKE n \in Nat
    <2> HAVE n < m
    <2>1. d + n \in Bits /\ (d + n) - d = n
      BY <1>1
    <2> QED BY <2>1
  <1>3. \A i \in 0 .. (0 + d - 1) : i \notin s
    BY <1>1
  <1>4. Low(s, d) = 0
    <2>1. Low(s, 0 + d) = Low(s, 0)
      <3> HIDE DEF s
      <3> QED BY <1>1, <1>3, Runs
    <2> QED BY <1>1, <2>1, LowSums
  <1>5. Value(s) = 2 ^ d * Low(a, m)
    <2>1. Low(s, d + m) = Low(s, d) + 2 ^ d * Low(a, m)
      <3> HIDE DEF s, m
      <3> QED BY <1>1, <1>2, ShiftedLow
    <2>2. 2 ^ d * Low(a, m) \in Nat
      <3> HIDE DEF m
      <3>1. 2 ^ d \in Nat /\ Low(a, m) \in Nat
        BY <1>1, Power, LowRange
      <3> QED BY <3>1
    <2>3. Value(s) = Low(s, d + m)
      BY <1>1, ValueIsLow
    <2> HIDE DEF s, m
    <2> QED BY <1>4, <2>1, <2>2, <2>3
  <1>6. PICK high \in Nat : Value(a) = Low(a, m) + 2 ^ m * high
    <2>1. \E high \in Nat : Low(a, m + d) = Low(a, m) + 2 ^ m * high
      <3> HIDE DEF m
      <3> QED BY <1>1, HighPart
    <2> QED BY <1>1, <2>1, ValueIsLow
  <1>7. Value(a) * (2 ^ d) = p * high + Value(s)
    <2>1. p = 2 ^ d * 2 ^ m /\ 2 ^ d \in Nat /\ 2 ^ m \in Nat /\ Low(a, m) \in Nat
      <3> HIDE DEF m
      <3>1. 2 ^ (d + m) = 2 ^ d * 2 ^ m
        BY <1>1, PowerSum
      <3> QED BY <1>1, <3>1, Power, LowRange
    <2>2. \A x, y, z, h \in Nat : (x + y * h) * z = (z * y) * h + z * x
      OBVIOUS
    <2>3. (Low(a, m) + 2 ^ m * high) * (2 ^ d) = (2 ^ d * 2 ^ m) * high + 2 ^ d * Low(a, m)
      <3> HIDE DEF m
      <3> QED BY <1>6, <2>1, <2>2
    <2> QED BY <1>5, <1>6, <2>1, <2>3
  <1>8. /\ p \in Nat /\ p # 0 /\ Value(s) \in 0 .. (p - 1) /\ Value(a) * (2 ^ d) \in Int
        /\ high \in Int
    <2>1. Value(a) \in Nat /\ 2 ^ d \in Nat
      BY <1>1, ValueRange, Power
    <2> QED BY <1>6, <2>1, ValueRange
  <1>9. (Value(a) * (2 ^ d)) % p = Value(s)
    <2> HIDE DEF p, s
    <2> QED BY <1>7, <1>8, Division
  <1>10. s \in Word
    BY DEF Word
  <1> QED BY <1>9, <1>10, WordOfValue

LEMMA RightIsQuotient ==
  ASSUME WordBits, NEW a \in Word, NEW d \in 0 .. (Width - 1)
  PROVE  /\ Value(a) \div (2 ^ d) = Value(ShiftRight(a, d))
         /\ ShiftRight(a, d) = WordOf(Value(a) \div (2 ^ d))
  <1> DEFINE s == ShiftRight(a, d)
             m == Width - d
  <1>1. d \in Nat /\ m \in Nat /\ d + m = Width /\ m + d = Width /\ Width \in Nat
        /\ a \subseteq 0 .. (Width - 1) /\ Bits = 0 .. (Width - 1)
    BY DEF WordBits, Word
  <1>2. \A n \in Nat : n < m => (n \in s <=> d + n \in a)
    <2> TAKE n \in Nat
    <2> HAVE n < m
    <2>1. n \in Bits /\ n + d = d + n
      BY <1>1
    <2> QED BY <2>1 DEF ShiftRight
  <1>3. \A i \in m .. (m + d - 1) : i \notin s
    BY <1>1 DEF ShiftRight
  <1> HIDE DEF s, m
  <1>4. Value(s) = Low(s, m)
    <2>1. Low(s, m + d) = Low(s, m)
      BY <1>1, <1>3, Runs
    <2> QED BY <1>1, <2>1, ValueIsLow
  <1>5. Value(a) = 2 ^ d * Value(s) + Low(a, d)
    <2>1. Low(a, d + m) = Low(a, d) + 2 ^ d * Low(s, m)
      BY <1>1, <1>2, ShiftedLow
    <2>2. 2 ^ d \in Nat /\ Low(a, d) \in Nat /\ Low(s, m) \in Nat
      BY <1>1, Power, LowRange
    <2> QED BY <1>1, <1>4, <2>1, <2>2, ValueIsLow
  <1>6. /\ 2 ^ d \in Nat /\ 2 ^ d # 0 /\ Low(a, d) \in 0 .. (2 ^ d - 1)
        /\ Value(a) \in Int /\ Value(s) \in Int
    BY <1>1, Power, LowRange, ValueRange
  <1>7. Value(a) \div (2 ^ d) = Value(s)
    BY <1>5, <1>6, Division
  <1>8. s \in Word
    BY DEF s, ShiftRight, Word
  <1> QED BY <1>7, <1>8, WordOfValue DEF s

LEMMA ArithmeticIsQuotient ==
  ASSUME WordBits, NEW a \in Word, NEW d \in 0 .. (Width - 1)
  PROVE  ShiftRight(sext(a), d) = WordOf((Signed(a) \div (2 ^ d)) % (2 ^ Width))
  <1> DEFINE s == ShiftRight(sext(a), d)
             m == Width - d
             p == 2 ^ Width
  <1>1. d \in Nat /\ m \in Nat /\ d + m = Width /\ m + d = Width /\ Width \in Nat
        /\ a \subseteq 0 .. (Width - 1) /\ Bits = 0 .. (Width - 1)
    BY DEF WordBits, Word
  <1>2. s \in Word
    BY DEF ShiftRight, Word
  <1>3. CASE Sign \notin a
    <2>1. s = ShiftRight(a, d) /\ Signed(a) = Value(a)
      BY <1>3 DEF sext, Signed
    <2>2. Signed(a) \div (2 ^ d) = Value(s)
      BY <2>1, RightIsQuotient
    <2> QED BY <1>2, <2>2, ValueRange, WordOfValue
  <1>4. CASE Sign \in a
    <2>1. \A n \in Nat : n < m => (n \in s <=> d + n \in a)
      <3> TAKE n \in Nat
      <3> HAVE n < m
      <3>1. n \in Bits /\ n + d = d + n /\ n + d \notin Width .. (2 * Width - 1)
        BY <1>1
      <3> QED BY <1>4, <3>1 DEF ShiftRight, sext
    <2>2. \A i \in m .. (m + d - 1) : i \in s
      <3> TAKE i \in m .. (m + d - 1)
      <3>1. i \in Bits /\ i + d \in Width .. (2 * Width - 1)
        BY <1>1
      <3> QED BY <1>4, <3>1 DEF ShiftRight, sext
    <2> HIDE DEF s, m
    <2>3. Value(s) = Low(s, m) + p - 2 ^ m
      <3>1. Low(s, m + d) = Low(s, m) + 2 ^ (m + d) - 2 ^ m
        BY <1>1, <2>2, Runs
      <3> QED BY <1>1, <3>1, ValueIsLow
    <2>4. Value(a) = 2 ^ d * Low(s, m) + Low(a, d)
      <3>1. Low(a, d + m) = Low(a, d) + 2 ^ d * Low(s, m)
        BY <1>1, <2>1, ShiftedLow
      <3>2. 2 ^ d \in Nat /\ Low(a, d) \in Nat /\ Low(s, m) \in Nat
        BY <1>1, Power, LowRange
      <3> QED BY <1>1, <3>1, <3>2, ValueIsLow
    <2>5. /\ p = 2 ^ d * 2 ^ m /\ p \in Nat /\ p # 0 /\ 2 ^ d \in Nat /\ 2 ^ d # 0 /\ 2 ^ m \in Nat
          /\ Low(s, m) \in Nat /\ Low(a, d) \in Nat /\ Low(a, d) < 2 ^ d
          /\ Value(a) \in Nat /\ Value(s) \in Nat /\ Value(s) < p
      BY <1>1, PowerSum, Power, LowRange, ValueRange
    <2> DEFINE q == Low(s, m) - 2 ^ m
    <2>6. Signed(a) = 2 ^ d * q + Low(a, d) /\ Signed(a) \in Int
      <3>1. Signed(a) = Value(a) - p
        BY <1>4 DEF Signed
      <3>2. 2 ^ d * (Low(s, m) - 2 ^ m) = 2 ^ d * Low(s, m) - 2 ^ d * 2 ^ m
        BY <2>5
      <3>3. 2 ^ d * Low(s, m) \in Nat
        BY <2>5
      <3> HIDE DEF p
      <3> QED BY <2>4, <2>5, <3>1, <3>2, <3>3
    <2>7. q \in Int /\ Low(a, d) \in 0 .. (2 ^ d - 1) /\ Value(s) \in 0 .. (p - 1)
      <3> HIDE DEF p
      <3> QED BY <2>5
    <2>8. Signed(a) \div (2 ^ d) = q
      <3> HIDE DEF q
      <3> QED BY <2>5, <2>6, <2>7, Division
    <2>9. q = p * (-1) + Value(s)
      <3> HIDE DEF p
      <3> QED BY <2>3, <2>5
    <2>10. q % p = Value(s)
      <3> HIDE DEF p, q
      <3> QED BY <2>5, <2>7, <2>9, Division
    <2>11. s = WordOf((Signed(a) \div (2 ^ d)) % p)
      BY <1>2, <2>8, <2>10, WordOfValue
    <2> QED BY <2>11 DEF s
  <1> QED BY <1>3, <1>4
-----------------------------------------------------------------------------
(***************************************************************************)
(* The operations and the branches.                                        *)
(***************************************************************************)
\* The ALU yields the word that the instruction set asks for, for every
\* operation and every pair of operands, at every width.
THEOREM Operations ==
  ASSUME WordBits, NEW op \in ALU_Ops, NEW a \in Word, NEW b \in Word,
         op \in {SllOp, SrlOp, SraOp} => Value(b) < Width
  PROVE  y_o(op, a, b) = Arithmetic(op, a, b)
  <1> USE DEF AddOp, SubOp, SllOp, SltOp, SltuOp, XorOp, SrlOp, SraOp, OrOp, AndOp
  <1>1. CASE op = AddOp
    <2>1. y_o(AddOp, a, b) = Add(a, b)
          /\ Arithmetic(AddOp, a, b) = WordOf((Value(a) + Value(b)) % (2 ^ Width))
      BY DEF y_o, Arithmetic
    <2> QED BY <1>1, <2>1, SumIsSum
  <1>2. CASE op = SubOp
    <2>1. y_o(SubOp, a, b) = Sub(a, b)
          /\ Arithmetic(SubOp, a, b) = WordOf((Value(a) - Value(b)) % (2 ^ Width))
      BY DEF y_o, Arithmetic
    <2> QED BY <1>2, <2>1, DifferenceIsDifference
  <1>3. CASE op \in {SllOp, SrlOp, SraOp}
    <2> DEFINE d == Value(b)
    <2>1. d \in 0 .. (Width - 1) /\ Distance(b) = d
      <3>1. d \in Nat /\ Width \in Nat /\ d < Width
        BY <1>3, ValueRange DEF WordBits
      <3>2. d % Width = d
        BY <3>1
      <3> QED BY <3>1, <3>2 DEF Distance
    <2>2. /\ y_o(SllOp, a, b) = {i \in Bits : i - d \in a}
          /\ y_o(SrlOp, a, b) = ShiftRight(a, d)
          /\ y_o(SraOp, a, b) = ShiftRight(sext(a), d)
      BY DEF y_o
    <2>3. /\ Arithmetic(SllOp, a, b) = WordOf((Value(a) * (2 ^ Distance(b))) % (2 ^ Width))
          /\ Arithmetic(SrlOp, a, b) = WordOf(Value(a) \div (2 ^ Distance(b)))
          /\ Arithmetic(SraOp, a, b) = WordOf((Signed(a) \div (2 ^ Distance(b))) % (2 ^ Width))
      BY DEF Arithmetic
    <2> HIDE DEF d
    <2>4. {i \in Bits : i - d \in a} = WordOf((Value(a) * (2 ^ d)) % (2 ^ Width))
      BY <2>1, LeftIsProduct
    <2>5. ShiftRight(a, d) = WordOf(Value(a) \div (2 ^ d))
      BY <2>1, RightIsQuotient
    <2>6. ShiftRight(sext(a), d) = WordOf((Signed(a) \div (2 ^ d)) % (2 ^ Width))
      BY <2>1, ArithmeticIsQuotient
    <2>7. CASE op = SllOp
      BY <2>1, <2>2, <2>3, <2>4, <2>7
    <2>8. CASE op = SrlOp
      BY <2>1, <2>2, <2>3, <2>5, <2>8
    <2>9. CASE op = SraOp
      BY <2>1, <2>2, <2>3, <2>6, <2>9
    <2> QED BY <1>3, <2>7, <2>8, <2>9
  <1>4. CASE op \in {SltOp, SltuOp}
    <2>1. /\ y_o(SltOp, a, b) = Truth(LessSigned(a, b))
          /\ y_o(SltuOp, a, b) = Truth(Below(a, b))
      BY DEF y_o
    <2>2. /\ Arithmetic(SltOp, a, b) = Truth(Signed(a) < Signed(b))
          /\ Arithmetic(SltuOp, a, b) = Truth(Value(a) < Value(b))
      BY DEF Arithmetic
    <2>3. /\ LessSigned(a, b) <=> Signed(a) < Signed(b)
          /\ Below(a, b) <=> Value(a) < Value(b)
      BY SignedIsSigned, DifferenceIsDifference
    <2> QED BY <1>4, <2>1, <2>2, <2>3 DEF Truth
  <1>5. CASE op \in {AndOp, OrOp, XorOp}
    <2>1. /\ y_o(AndOp, a, b) = a \cap b /\ Arithmetic(AndOp, a, b) = a \cap b
          /\ y_o(OrOp, a, b) = a \cup b /\ Arithmetic(OrOp, a, b) = a \cup b
      BY DEF y_o, Arithmetic
    <2>2. /\ y_o(XorOp, a, b) = Xor(a, b)
          /\ Arithmetic(XorOp, a, b) = {i \in Bits : (i \in a) # (i \in b)}
      BY DEF y_o, Arithmetic
    <2>3. Xor(a, b) = {i \in Bits : (i \in a) # (i \in b)}
      <3>1. ASSUME NEW i PROVE (i \in a) # (i \in b) <=> ~(i \in a <=> i \in b)
        OBVIOUS
      <3> QED BY <3>1 DEF Xor, Word
    <2> QED BY <1>5, <2>1, <2>2, <2>3
  <1> QED BY <1>1, <1>2, <1>3, <1>4, <1>5 DEF ALU_Ops

\* A difference is zero between equal words only: the lowest bit in which two
\* words differ is left standing.
LEMMA ZeroDifference ==
  ASSUME WordBits, NEW a \in Word, NEW b \in Word
  PROVE  Sub(a, b) = {} <=> a = b
  <1>1. ASSUME a = b
        PROVE  Sub(a, b) = {}
    BY <1>1 DEF Sub, Xor, Borrow
  <1>2. ASSUME a # b
        PROVE  Sub(a, b) # {}
    <2>1. Xor(a, b) # {} /\ Xor(a, b) \in SUBSET Nat
      BY <1>2 DEF Xor, Word, WordBits
    <2>2. PICK n \in Xor(a, b) : \A m \in Xor(a, b) : n <= m
      BY <2>1, Smallest
    <2>3. ~Borrow(a, b, n)
      <3>1. \A j \in b \ a : n <= j /\ j \in Nat /\ n \in Nat
        BY <2>1, <2>2 DEF Xor
      <3> QED BY <3>1 DEF Borrow
    <2>4. n \in Sub(a, b)
      BY <2>2, <2>3 DEF Sub, Xor
    <2> QED BY <2>4
  <1> QED BY <1>1, <1>2

\* None of the six branches sees the flag of another, nor an overflow.
LEMMA FlagsDecide ==
  ASSUME WordBits, NEW a \in Word, NEW b \in Word
  PROVE  LET flags == flags_o(SubOp, a, b)
         IN /\ take_branch(0, flags) <=> a = b
            /\ take_branch(1, flags) <=> a # b
            /\ take_branch(4, flags) <=> LessSigned(a, b)
            /\ take_branch(5, flags) <=> ~LessSigned(a, b)
            /\ take_branch(6, flags) <=> Below(a, b)
            /\ take_branch(7, flags) <=> ~Below(a, b)
  <1> DEFINE flags == flags_o(SubOp, a, b)
  <1>0. Sign \in Nat /\ Sign \in Bits /\ Width = Sign + 1
    BY DEF WordBits, Sign
  <1>1. y_o(SubOp, a, b) = Sub(a, b)
    BY DEF y_o, AddOp, SubOp, SllOp, SltOp, SltuOp, XorOp, SrlOp, SraOp, OrOp, AndOp
  <1>2. /\ carry_borrow_l(SubOp, a, b) <=> Borrow(a, b, Sign)
        /\ carry_borrow_h(SubOp, a, b) <=> Below(a, b)
    BY DEF carry_borrow_l, carry_borrow_h, SubOp, SllOp, SrlOp
  <1>3. /\ "Z" \in flags <=> a = b
        /\ "C" \in flags <=> Below(a, b)
        /\ "N" \in flags <=> Sign \in Sub(a, b)
        /\ "V" \in flags <=> ~(Borrow(a, b, Sign) <=> Below(a, b))
    <2>1. "Z" \in flags <=> y_o(SubOp, a, b) = {}
      BY DEF flags_o
    <2>2. "C" \in flags <=> carry_borrow_h(SubOp, a, b)
      BY DEF flags_o
    <2>3. "N" \in flags <=> Sign \in y_o(SubOp, a, b)
      BY DEF flags_o
    <2>4. "V" \in flags <=> carry_borrow_l(SubOp, a, b) # carry_borrow_h(SubOp, a, b)
      BY DEF flags_o
    <2>5. carry_borrow_l(SubOp, a, b) # carry_borrow_h(SubOp, a, b)
            <=> ~(carry_borrow_l(SubOp, a, b) <=> carry_borrow_h(SubOp, a, b))
      BY Zenon DEF carry_borrow_l, carry_borrow_h
    <2> QED BY <1>1, <1>2, <2>1, <2>2, <2>3, <2>4, <2>5, ZeroDifference
  <1>4. Sign \in Sub(a, b) <=> ((Sign \in a <=> Sign \in b) <=> Borrow(a, b, Sign))
    BY <1>0 DEF Sub, Xor
  <1>5. Below(a, b) <=> \/ Sign \in b \ a
                        \/ (Sign \in a => Sign \in b) /\ Borrow(a, b, Sign)
    BY <1>0, BorrowRipples DEF Below
  <1>6. ~("N" \in flags <=> "V" \in flags) <=> LessSigned(a, b)
    BY <1>3, <1>4, <1>5 DEF LessSigned
  <1> HIDE DEF flags
  <1>7. /\ take_branch(0, flags) <=> "Z" \in flags
        /\ take_branch(1, flags) <=> "Z" \notin flags
        /\ take_branch(4, flags) <=> ~("N" \in flags <=> "V" \in flags)
        /\ take_branch(5, flags) <=> ("N" \in flags <=> "V" \in flags)
        /\ take_branch(6, flags) <=> "C" \in flags
        /\ take_branch(7, flags) <=> "C" \notin flags
    BY DEF take_branch
  <1> QED BY <1>3, <1>6, <1>7 DEF flags

\* The flags of a subtraction decide all six branches as the comparisons of the
\* instruction set do, overflow or not, at every width.
THEOREM Branches ==
  ASSUME WordBits, NEW funct3 \in {0, 1, 4, 5, 6, 7}, NEW a \in Word, NEW b \in Word
  PROVE  take_branch(funct3, flags_o(SubOp, a, b)) <=> Comparison(funct3, a, b)
  <1>1. /\ Value(a) >= Value(b) <=> ~(Value(a) < Value(b))
        /\ Signed(a) >= Signed(b) <=> ~(Signed(a) < Signed(b))
    <2>1. Value(a) \in Int /\ Value(b) \in Int /\ Signed(a) \in Int /\ Signed(b) \in Int
      BY ValueRange, SignedIsSigned
    <2> QED BY <2>1
  <1>2. /\ Comparison(0, a, b) <=> a = b
        /\ Comparison(1, a, b) <=> a # b
        /\ Comparison(4, a, b) <=> Signed(a) < Signed(b)
        /\ Comparison(5, a, b) <=> Signed(a) >= Signed(b)
        /\ Comparison(6, a, b) <=> Value(a) < Value(b)
        /\ Comparison(7, a, b) <=> Value(a) >= Value(b)
    BY DEF Comparison
  <1>3. /\ LessSigned(a, b) <=> Signed(a) < Signed(b)
        /\ Below(a, b) <=> Value(a) < Value(b)
    BY SignedIsSigned, DifferenceIsDifference
  <1> QED BY <1>1, <1>2, <1>3, FlagsDecide
-----------------------------------------------------------------------------
(***************************************************************************)
(* The immediates.                                                         *)
(***************************************************************************)
\* A 32 bit operand that its format can hold: no bit below the lowest, and all
\* bits from the sign up alike.
InRange(format, imm) ==
  /\ imm \subseteq 0 .. 31
  /\ \A b \in imm : b >= Lowest(format)
  /\ format # "upper" => \A b \in SignBit(format) .. 31 : b \in imm <=> SignBit(format) \in imm
-----------------------------------------------------------------------------
LEMMA FieldMember ==
  ASSUME NEW w \in SUBSET Int, NEW hi \in Int, NEW lo \in Int, NEW to \in Int, NEW b \in Int
  PROVE  b \in Field(w, hi, lo, to) <=> b - to + lo \in w /\ lo <= b - to + lo /\ b - to + lo <= hi
  <1>1. ASSUME b - to + lo \in w, lo <= b - to + lo, b - to + lo <= hi
        PROVE  b \in Field(w, hi, lo, to)
    <2>1. b - to + lo \in w \cap (lo .. hi) /\ b = (b - to + lo) - lo + to
      BY <1>1
    <2> QED
      BY <2>1 DEF Field
  <1>2. ASSUME b \in Field(w, hi, lo, to)
        PROVE  b - to + lo \in w /\ lo <= b - to + lo /\ b - to + lo <= hi
    BY <1>2 DEF Field
  <1> QED
    BY <1>1, <1>2

LEMMA FieldInt ==
  ASSUME NEW w \in SUBSET Int, NEW hi \in Int, NEW lo \in Int, NEW to \in Int
  PROVE  Field(w, hi, lo, to) \in SUBSET Int
  BY DEF Field

LEMMA SignMember ==
  ASSUME NEW ir, NEW n \in Int, NEW b \in Int
  PROVE  b \in Sign_ext(ir, n) <=> 31 \in ir /\ n <= b /\ b <= 31
  BY DEF Sign_ext

\* The format follows from the seven bits of the opcode.
LEMMA FormatOf ==
  ASSUME NEW ir
  PROVE  /\ ir \cap (0 .. 6) = ITYPE_L => imm_src(ir) = "I"
         /\ ir \cap (0 .. 6) = ITYPE_J => imm_src(ir) = "I"
         /\ ir \cap (0 .. 6) = STYPE => imm_src(ir) = "S"
         /\ ir \cap (0 .. 6) = BTYPE => imm_src(ir) = "B"
         /\ ir \cap (0 .. 6) = UTYPE_L => imm_src(ir) = "U"
         /\ ir \cap (0 .. 6) = JTYPE => imm_src(ir) = "J"
  <1>1. /\ 5 \notin ITYPE /\ 4 \in ITYPE /\ 2 \notin ITYPE
        /\ 5 \notin ITYPE_L /\ 4 \notin ITYPE_L /\ 2 \notin ITYPE_L
        /\ 5 \in ITYPE_J /\ 4 \notin ITYPE_J /\ 2 \in ITYPE_J /\ 3 \notin ITYPE_J
        /\ 5 \in ITYPE_E /\ 4 \in ITYPE_E /\ 2 \notin ITYPE_E /\ 6 \in ITYPE_E
        /\ 5 \in STYPE /\ 4 \notin STYPE /\ 2 \notin STYPE /\ 6 \notin STYPE
        /\ 5 \in BTYPE /\ 4 \notin BTYPE /\ 2 \notin BTYPE /\ 6 \in BTYPE
        /\ 5 \in UTYPE_L /\ 4 \in UTYPE_L /\ 2 \in UTYPE_L /\ 3 \notin UTYPE_L
        /\ 5 \notin UTYPE_A /\ 4 \in UTYPE_A /\ 2 \in UTYPE_A
        /\ 5 \in JTYPE /\ 4 \notin JTYPE /\ 2 \in JTYPE /\ 3 \in JTYPE
    BY DEF ITYPE, ITYPE_L, ITYPE_J, ITYPE_E, STYPE, BTYPE, UTYPE_L, UTYPE_A, JTYPE
  <1> DEFINE opcode == ir \cap (0 .. 6)
  <1>2. CASE opcode = ITYPE_L
    BY <1>1, <1>2, Zenon DEF imm_src
  <1>3. CASE opcode = ITYPE_J
    BY <1>1, <1>3, Zenon DEF imm_src
  <1>4. CASE opcode = STYPE
    BY <1>1, <1>4, Zenon DEF imm_src
  <1>5. CASE opcode = BTYPE
    BY <1>1, <1>5, Zenon DEF imm_src
  <1>6. CASE opcode = UTYPE_L
    BY <1>1, <1>6, Zenon DEF imm_src
  <1>7. CASE opcode = JTYPE
    BY <1>1, <1>7, Zenon DEF imm_src
  <1> QED
    BY <1>2, <1>3, <1>4, <1>5, <1>6, <1>7

LEMMA ValueOf ==
  ASSUME NEW ir
  PROVE  /\ imm_src(ir) = "I" => imm_o(ir) = Sign_ext(ir, 11) \cup Field(ir, 30, 20, 0)
         /\ imm_src(ir) = "S" => imm_o(ir) = Sign_ext(ir, 11) \cup Field(ir, 30, 25, 5)
                                               \cup Field(ir, 11, 7, 0)
         /\ imm_src(ir) = "B" => imm_o(ir) = B_imm(ir)
         /\ imm_src(ir) = "U" => imm_o(ir) = Field(ir, 31, 12, 12)
         /\ imm_src(ir) = "J" => imm_o(ir) = Sign_ext(ir, 20) \cup Field(ir, 19, 12, 12)
                                   \cup Field(ir, 20, 20, 11) \cup Field(ir, 30, 21, 1)
  <1>1. "I" # "S" /\ "I" # "B" /\ "I" # "U" /\ "I" # "J" /\ "S" # "B" /\ "S" # "U" /\ "S" # "J"
        /\ "B" # "U" /\ "B" # "J" /\ "U" # "J" /\ "shamt" # "I" /\ "shamt" # "S" /\ "shamt" # "B"
        /\ "shamt" # "U" /\ "shamt" # "J" /\ "zero" # "I" /\ "zero" # "S" /\ "zero" # "B"
        /\ "zero" # "U" /\ "zero" # "J"
    OBVIOUS
  <1>2. CASE imm_src(ir) = "I"
    BY <1>1, <1>2, Zenon DEF imm_o
  <1>3. CASE imm_src(ir) = "S"
    BY <1>1, <1>3, Zenon DEF imm_o
  <1>4. CASE imm_src(ir) = "B"
    BY <1>1, <1>4, Zenon DEF imm_o
  <1>5. CASE imm_src(ir) = "U"
    BY <1>1, <1>5, Zenon DEF imm_o
  <1>6. CASE imm_src(ir) = "J"
    BY <1>1, <1>6, Zenon DEF imm_o
  <1> QED
    BY <1>2, <1>3, <1>4, <1>5, <1>6
-----------------------------------------------------------------------------
(***************************************************************************)
(* Format by format: the bits of the instruction, those of its immediate.  *)
(***************************************************************************)

LEMMA LoadRoundTrip ==
  ASSUME NEW imm, InRange("load", imm)
  PROVE  imm_o(Assembled("load", imm)) = Meant("load", imm)
  <1> DEFINE ir == Assembled("load", imm)
  <1>t. imm \in SUBSET Int
    BY DEF InRange
  <1>1. ir = ITYPE_L \cup Loads_imm(imm)
    BY Zenon DEF Assembled
  <1>2. \A b \in Int : b \in ir <=> b \in ITYPE_L
          \/ (b - 20 \in imm /\ 20 <= b /\ b <= 31)
    BY <1>t, <1>1, FieldMember DEF Loads_imm
  <1>3. ir \in SUBSET Int
    BY <1>t, <1>1, FieldInt DEF Loads_imm, ITYPE_L
  <1>4. ir \cap (0 .. 6) = ITYPE_L
    BY <1>2, <1>3 DEF ITYPE_L
  <1>5. imm_o(ir) = Sign_ext(ir, 11) \cup Field(ir, 30, 20, 0)
    BY <1>4, FormatOf, ValueOf
  <1> HIDE DEF ir
  <1>6. imm_o(ir) \in SUBSET Int
    BY <1>3, <1>5, FieldInt DEF Sign_ext
  <1>7. \A b \in Int : b \in imm_o(ir) <=>
          \/ 31 \in ir /\ 11 <= b /\ b <= 31
          \/ (b + 20 \in ir /\ 0 <= b /\ b <= 10)
    BY <1>3, <1>5, FieldMember, SignMember
  <1>8. \A b \in Int : b \in imm <=>
          \/ 11 \in imm /\ 11 <= b /\ b <= 31
          \/ b \in imm /\ 0 <= b /\ b <= 10
    BY DEF InRange, SignBit, Lowest
  <1>9. \A b \in Int : b \in imm_o(ir) <=> b \in imm
    BY <1>2, <1>7, <1>8 DEF ITYPE_L
  <1>10. imm_o(ir) = imm
    BY <1>t, <1>6, <1>9
  <1> QED
    BY <1>10 DEF Meant, ir

LEMMA JalrRoundTrip ==
  ASSUME NEW imm, InRange("jalr", imm)
  PROVE  imm_o(Assembled("jalr", imm)) = Meant("jalr", imm)
  <1> DEFINE ir == Assembled("jalr", imm)
  <1>t. imm \in SUBSET Int
    BY DEF InRange
  <1>1. ir = ITYPE_J \cup Jalr_imm(imm)
    BY Zenon DEF Assembled
  <1>2. \A b \in Int : b \in ir <=> b \in ITYPE_J
          \/ (b - 20 \in imm /\ 21 <= b /\ b <= 31)
    BY <1>t, <1>1, FieldMember DEF Jalr_imm
  <1>3. ir \in SUBSET Int
    BY <1>t, <1>1, FieldInt DEF Jalr_imm, ITYPE_J
  <1>4. ir \cap (0 .. 6) = ITYPE_J
    BY <1>2, <1>3 DEF ITYPE_J
  <1>5. imm_o(ir) = Sign_ext(ir, 11) \cup Field(ir, 30, 20, 0)
    BY <1>4, FormatOf, ValueOf
  <1> HIDE DEF ir
  <1>6. imm_o(ir) \in SUBSET Int
    BY <1>3, <1>5, FieldInt DEF Sign_ext
  <1>7. \A b \in Int : b \in imm_o(ir) <=>
          \/ 31 \in ir /\ 11 <= b /\ b <= 31
          \/ (b + 20 \in ir /\ 0 <= b /\ b <= 10)
    BY <1>3, <1>5, FieldMember, SignMember
  <1>8. \A b \in Int : b \in imm <=>
          \/ 11 \in imm /\ 11 <= b /\ b <= 31
          \/ b \in imm /\ 1 <= b /\ b <= 10
    BY DEF InRange, SignBit, Lowest
  <1>9. \A b \in Int : b \in imm_o(ir) <=> b \in imm
    BY <1>2, <1>7, <1>8 DEF ITYPE_J
  <1>10. imm_o(ir) = imm
    BY <1>t, <1>6, <1>9
  <1> QED
    BY <1>10 DEF Meant, ir

LEMMA StoreRoundTrip ==
  ASSUME NEW imm, InRange("store", imm)
  PROVE  imm_o(Assembled("store", imm)) = Meant("store", imm)
  <1> DEFINE ir == Assembled("store", imm)
  <1>t. imm \in SUBSET Int
    BY DEF InRange
  <1>1. ir = STYPE \cup Stores_imm(imm)
    BY Zenon DEF Assembled
  <1>2. \A b \in Int : b \in ir <=> b \in STYPE
          \/ (b - 20 \in imm /\ 25 <= b /\ b <= 31)
          \/ (b - 7 \in imm /\ 7 <= b /\ b <= 11)
    BY <1>t, <1>1, FieldMember DEF Stores_imm
  <1>3. ir \in SUBSET Int
    BY <1>t, <1>1, FieldInt DEF Stores_imm, STYPE
  <1>4. ir \cap (0 .. 6) = STYPE
    BY <1>2, <1>3 DEF STYPE
  <1>5. imm_o(ir) = Sign_ext(ir, 11) \cup Field(ir, 30, 25, 5) \cup Field(ir, 11, 7, 0)
    BY <1>4, FormatOf, ValueOf
  <1> HIDE DEF ir
  <1>6. imm_o(ir) \in SUBSET Int
    BY <1>3, <1>5, FieldInt DEF Sign_ext
  <1>7. \A b \in Int : b \in imm_o(ir) <=>
          \/ 31 \in ir /\ 11 <= b /\ b <= 31
          \/ (b + 20 \in ir /\ 5 <= b /\ b <= 10)
          \/ (b + 7 \in ir /\ 0 <= b /\ b <= 4)
    BY <1>3, <1>5, FieldMember, SignMember
  <1>8. \A b \in Int : b \in imm <=>
          \/ 11 \in imm /\ 11 <= b /\ b <= 31
          \/ b \in imm /\ 0 <= b /\ b <= 10
    BY DEF InRange, SignBit, Lowest
  <1>9. \A b \in Int : b \in imm_o(ir) <=> b \in imm
    BY <1>2, <1>7, <1>8 DEF STYPE
  <1>10. imm_o(ir) = imm
    BY <1>t, <1>6, <1>9
  <1> QED
    BY <1>10 DEF Meant, ir

LEMMA BranchRoundTrip ==
  ASSUME NEW imm, InRange("branch", imm)
  PROVE  imm_o(Assembled("branch", imm)) = Meant("branch", imm)
  <1> DEFINE ir == Assembled("branch", imm)
  <1>t. imm \in SUBSET Int
    BY DEF InRange
  <1>1. ir = BTYPE \cup BtypeBranch_imm(imm)
    BY Zenon DEF Assembled
  <1>2. \A b \in Int : b \in ir <=> b \in BTYPE
          \/ (b - 12 \in imm /\ b = 31)
          \/ (b - 20 \in imm /\ 25 <= b /\ b <= 30)
          \/ (b - 7 \in imm /\ 8 <= b /\ b <= 11)
          \/ (b + 4 \in imm /\ b = 7)
    BY <1>t, <1>1, FieldMember DEF BtypeBranch_imm
  <1>3. ir \in SUBSET Int
    BY <1>t, <1>1, FieldInt DEF BtypeBranch_imm, BTYPE
  <1>4. ir \cap (0 .. 6) = BTYPE
    BY <1>2, <1>3 DEF BTYPE
  <1>5. imm_o(ir) = Sign_ext(ir, 12) \cup Field(ir, 7, 7, 11) \cup Field(ir, 30, 25, 5) \cup Field(ir, 11, 8, 1)
    BY <1>4, FormatOf, ValueOf DEF B_imm
  <1> HIDE DEF ir
  <1>6. imm_o(ir) \in SUBSET Int
    BY <1>3, <1>5, FieldInt DEF Sign_ext
  <1>7. \A b \in Int : b \in imm_o(ir) <=>
          \/ 31 \in ir /\ 12 <= b /\ b <= 31
          \/ (b - 4 \in ir /\ b = 11)
          \/ (b + 20 \in ir /\ 5 <= b /\ b <= 10)
          \/ (b + 7 \in ir /\ 1 <= b /\ b <= 4)
    BY <1>3, <1>5, FieldMember, SignMember
  <1>8. \A b \in Int : b \in imm <=>
          \/ 12 \in imm /\ 12 <= b /\ b <= 31
          \/ b \in imm /\ 1 <= b /\ b <= 11
    BY DEF InRange, SignBit, Lowest
  <1>9. \A b \in Int : b \in imm_o(ir) <=> b \in imm
    BY <1>2, <1>7, <1>8 DEF BTYPE
  <1>10. imm_o(ir) = imm
    BY <1>t, <1>6, <1>9
  <1> QED
    BY <1>10 DEF Meant, ir

LEMMA JalRoundTrip ==
  ASSUME NEW imm, InRange("jal", imm)
  PROVE  imm_o(Assembled("jal", imm)) = Meant("jal", imm)
  <1> DEFINE ir == Assembled("jal", imm)
  <1>t. imm \in SUBSET Int
    BY DEF InRange
  <1>1. ir = JTYPE \cup Jal_imm(imm)
    BY Zenon DEF Assembled
  <1>2. \A b \in Int : b \in ir <=> b \in JTYPE
          \/ (b - 11 \in imm /\ b = 31)
          \/ (b - 20 \in imm /\ 21 <= b /\ b <= 30)
          \/ (b - 9 \in imm /\ b = 20)
          \/ (b \in imm /\ 12 <= b /\ b <= 19)
    BY <1>t, <1>1, FieldMember DEF Jal_imm
  <1>3. ir \in SUBSET Int
    BY <1>t, <1>1, FieldInt DEF Jal_imm, JTYPE
  <1>4. ir \cap (0 .. 6) = JTYPE
    BY <1>2, <1>3 DEF JTYPE
  <1>5. imm_o(ir) = Sign_ext(ir, 20) \cup Field(ir, 19, 12, 12) \cup Field(ir, 20, 20, 11) \cup Field(ir, 30, 21, 1)
    BY <1>4, FormatOf, ValueOf
  <1> HIDE DEF ir
  <1>6. imm_o(ir) \in SUBSET Int
    BY <1>3, <1>5, FieldInt DEF Sign_ext
  <1>7. \A b \in Int : b \in imm_o(ir) <=>
          \/ 31 \in ir /\ 20 <= b /\ b <= 31
          \/ (b \in ir /\ 12 <= b /\ b <= 19)
          \/ (b + 9 \in ir /\ b = 11)
          \/ (b + 20 \in ir /\ 1 <= b /\ b <= 10)
    BY <1>3, <1>5, FieldMember, SignMember
  <1>8. \A b \in Int : b \in imm <=>
          \/ 20 \in imm /\ 20 <= b /\ b <= 31
          \/ b \in imm /\ 1 <= b /\ b <= 19
    BY DEF InRange, SignBit, Lowest
  <1>9. \A b \in Int : b \in imm_o(ir) <=> b \in imm
    BY <1>2, <1>7, <1>8 DEF JTYPE
  <1>10. imm_o(ir) = imm
    BY <1>t, <1>6, <1>9
  <1> QED
    BY <1>10 DEF Meant, ir

LEMMA UpperRoundTrip ==
  ASSUME NEW imm, InRange("upper", imm)
  PROVE  imm_o(Assembled("upper", imm)) = Meant("upper", imm)
  <1> DEFINE ir == Assembled("upper", imm)
  <1>t. imm \in SUBSET Int
    BY DEF InRange
  <1>1. ir = UTYPE_L \cup U_imm(imm)
    BY Zenon DEF Assembled
  <1>2. \A b \in Int : b \in ir <=> b \in UTYPE_L
          \/ (b - 12 \in imm /\ 12 <= b /\ b <= 31)
    BY <1>t, <1>1, FieldMember DEF U_imm
  <1>3. ir \in SUBSET Int
    BY <1>t, <1>1, FieldInt DEF U_imm, UTYPE_L
  <1>4. ir \cap (0 .. 6) = UTYPE_L
    BY <1>2, <1>3 DEF UTYPE_L
  <1>5. imm_o(ir) = Field(ir, 31, 12, 12)
    BY <1>4, FormatOf, ValueOf
  <1> HIDE DEF ir
  <1>6. imm_o(ir) \in SUBSET Int
    BY <1>3, <1>5, FieldInt
  <1>7. \A b \in Int : b \in imm_o(ir) <=>
          \/ (b \in ir /\ 12 <= b /\ b <= 31)
    BY <1>3, <1>5, FieldMember
  <1>8. \A b \in Int : b \in Field(imm, 19, 0, 12) <=> b - 12 \in imm /\ 12 <= b /\ b <= 31
    BY <1>t, FieldMember
  <1>9. \A b \in Int : b \in imm_o(ir) <=> b \in Field(imm, 19, 0, 12)
    BY <1>2, <1>7, <1>8 DEF UTYPE_L
  <1>10. imm_o(ir) = Field(imm, 19, 0, 12)
    BY <1>t, <1>6, <1>9, FieldInt
  <1> QED
    BY <1>10 DEF Meant, ir
-----------------------------------------------------------------------------
\* What the assembler puts into an instruction, the processor's generator takes
\* out again: every operand in the range of its format.
THEOREM OperandsRoundTrip ==
  ASSUME NEW format \in Formats, NEW imm, InRange(format, imm)
  PROVE  imm_o(Assembled(format, imm)) = Meant(format, imm)
  BY LoadRoundTrip, JalrRoundTrip, StoreRoundTrip, BranchRoundTrip, JalRoundTrip,
     UpperRoundTrip DEF Formats

\* The operands of the run, small in magnitude and of either sign, are in range.
THEOREM OperandsInRange ==
  ASSUME NEW format \in Formats, NEW bits \in SUBSET Int, NEW negative \in BOOLEAN
  PROVE  InRange(format, Operand(format, bits, negative))
  <1>1. /\ Lowest(format) \in {0, 1} /\ SignBit(format) \in {11, 12, 20}
        /\ format # "upper" => Lowest(format) < SignBit(format)
    BY DEF Formats, Lowest, SignBit
  <1>2. CASE negative /\ format # "upper"
    <2>1. Operand(format, bits, negative) =
            (Lowest(format) .. 31) \ (bits \cap (Lowest(format) .. SignBit(format) - 1))
      BY <1>2 DEF Operand
    <2> QED
      BY <1>1, <2>1 DEF InRange
  <1>3. CASE ~(negative /\ format # "upper")
    <2>1. Operand(format, bits, negative) = bits \cap (Lowest(format) .. SignBit(format) - 1)
      BY <1>3 DEF Operand
    <2> QED
      BY <1>1, <2>1 DEF InRange
  <1> QED
    BY <1>2, <1>3
=============================================================================
