------------------------------- MODULE Words -------------------------------
(***************************************************************************)
(* The words of the core.  A word is the set of its bits that are 1, so    *)
(* that masks and merges are set operations, and a sum is what a carry     *)
(* makes of the bits.  The number a word stands for is needed by the       *)
(* shifters, and by RV32I, which says what all of it should amount to.     *)
(***************************************************************************)
EXTENDS Integers, FiniteSets

CONSTANT Bits           \* bit positions of a word (31..0)

Word == SUBSET Bits

Width == Cardinality(Bits)
Sign  == Width - 1

\* The number a word encodes, unsigned and in two's complement.
Value(w) ==
  LET upTo[n \in Nat] == IF n = 0 THEN 0 ELSE upTo[n - 1] + (IF n - 1 \in w THEN 2 ^ (n - 1) ELSE 0)
  IN  upTo[Width]
Signed(w) == IF Sign \in w THEN Value(w) - 2 ^ Width ELSE Value(w)

\* The word that encodes a number, its carry out dropped.
WordOf(n) == {b \in Bits : (n \div (2 ^ b)) % 2 = 1}

\* A carry into bit i: one is made below it and handed on by every bit between.
Carry(a, b, i) ==
  \E j \in a \cap b : j < i /\ \A k \in (j + 1) .. (i - 1) : k \in a \cup b

\* A borrow from bit i, in a - b.
Borrow(a, b, i) ==
  \E j \in b \ a : j < i /\ \A k \in (j + 1) .. (i - 1) : k \in a => k \in b

Xor(a, b) == (a \ b) \cup (b \ a)

Add(a, b) == Xor(Xor(a, b), {i \in Bits : Carry(a, b, i)})
Sub(a, b) == Xor(Xor(a, b), {i \in Bits : Borrow(a, b, i)})

\* a is the smaller of two unsigned numbers.
Below(a, b) == Borrow(a, b, Width)

\* The word whose lowest bit is the truth of a comparison.
Truth(holds) == IF holds THEN {0} ELSE {}
=============================================================================
