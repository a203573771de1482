---------------------------- MODULE UARTLink_proofs ----------------------------
(* The serial line, for every payload, every pair of steps that BaudAssumption
   allows and every length of the resets and pauses. A clock of a byte on the line
   is numbered from the one that latched it: the transmitter, the line and the
   receiver are each a function of that number, and the numbers at which the
   receiver looks at the line lie inside the bits it is to read. From the same
   numbers follows the timing that the command machine counts on. *)
EXTENDS UARTLink, SequenceTheorems, TLAPS
--------------------------------------------------------------------------------
(* A counter that gains inc a clock from 0 on has reached an amount after Clocks
   of them, not before; and it does not wrap before it is set back. *)
LEMMA Counting ==
  ASSUME NEW inc \in 1..2^16, NEW amount \in Nat, NEW c \in Nat
  PROVE  /\ Clocks(amount, inc) \in Nat
         /\ c * inc \in Nat
         /\ c < Clocks(amount, inc) => c * inc < amount
         /\ c >= Clocks(amount, inc) => c * inc >= amount
  <1> DEFINE K == Clocks(amount, inc)
  <1>1. /\ K \in Int
        /\ K * inc <= amount + inc - 1
        /\ amount + inc - 1 < K * inc + inc
    BY DEF Clocks
  <1> HIDE DEF K
  <1>2. K \in Nat
    <2> SUFFICES ASSUME K < 0 PROVE FALSE
      BY <1>1
    <2>1. K + 1 <= 0 /\ K * inc + inc = (K + 1) * inc
      BY <1>1
    <2>2. (K + 1) * inc <= 0
      BY <1>1, <2>1
    <2> QED BY <1>1, <2>1, <2>2
  <1>3. c * inc \in Nat
    OBVIOUS
  <1>4. ASSUME c < K PROVE c * inc < amount
    <2>1. c + 1 <= K /\ (c + 1) * inc = c * inc + inc
      BY <1>2, <1>4
    <2>2. (c + 1) * inc <= K * inc
      BY <1>2, <2>1
    <2> QED BY <1>1, <1>3, <2>1, <2>2
  <1>5. ASSUME c >= K PROVE c * inc >= amount
    <2>1. c * inc >= K * inc
      BY <1>2, <1>5
    <2> QED BY <1>1, <1>2, <1>3, <2>1
  <1> QED BY <1>2, <1>3, <1>4, <1>5 DEF K

LEMMA Powers ==
  /\ 2^14 \in Nat /\ 2^15 \in Nat /\ 2^16 \in Nat /\ 2^17 \in Nat
  /\ 2^15 = 2 * 2^14 /\ 2^16 = 2 * 2^15 /\ 2^17 = 2 * 2^16 /\ 2^14 >= 1
  BY SMT

LEMMA Wrapping ==
  ASSUME NEW x \in Nat
  PROVE  /\ x % 2^17 \in 0..2^17 - 1
         /\ x < 2^17 => x % 2^17 = x
  BY SMT

LEMMA Counted ==
  ASSUME NEW inc \in 1..2^16, NEW c \in Nat, c * inc < 2^16
  PROVE  (c * inc + inc) % 2^17 = (c + 1) * inc
  <1>1. c * inc \in Nat /\ c * inc + inc = (c + 1) * inc
    OBVIOUS
  <1>2. c * inc + inc \in Nat /\ c * inc + inc < 2^17
    BY <1>1, SMT
  <1> QED BY <1>1, <1>2, Wrapping

\* The lengths of the receiver's waits.
LEMMA Lengths ==
  /\ RX_INC \in 1..2^14
  /\ RxBit \in Nat /\ RxHalf \in Nat /\ RxQuarter \in Nat
  /\ 2 <= RxHalf /\ RxHalf <= RxBit /\ RxHalf <= 2 * RxQuarter + 1 /\ RxQuarter >= 1
  <1>1. RX_INC \in 1..2^14
    BY BaudAssumption
  <1>a. RX_INC \in 1..2^16 /\ RX_INC \in Nat
    BY <1>1, SMT
  <1> DEFINE K(amount) == Clocks(amount, RX_INC)
             Reached(amount) == /\ K(amount) \in Nat
                                /\ \A c \in Nat : /\ c * RX_INC \in Nat
                                                  /\ c < K(amount) => c * RX_INC < amount
                                                  /\ c >= K(amount) => c * RX_INC >= amount
  <1>2. \A amount \in Nat : Reached(amount)
    BY <1>a, Counting
  <1>3. RxBit = K(2^16) + 1 /\ RxHalf = K(2^15) + 1 /\ RxQuarter = K(2^14)
    BY DEF RxBit, RxHalf, RxQuarter
  <1> HIDE DEF K
  <1>4. Reached(2^14) /\ Reached(2^15) /\ Reached(2^16)
    BY <1>2, Powers
  <1>5. K(2^14) >= 1 /\ K(2^15) >= 1
    <2>1. 0 * RX_INC = 0
      BY <1>a
    <2> QED BY <1>4, <2>1, Powers
  <1>6. K(2^15) <= K(2^16)
    <2>1. K(2^16) \in Nat /\ K(2^16) * RX_INC \in Nat /\ K(2^16) * RX_INC >= 2^16
      BY <1>4
    <2> QED BY <1>4, <2>1, Powers
  <1>7. K(2^15) <= 2 * K(2^14)
    <2>1. K(2^14) \in Nat /\ K(2^14) * RX_INC \in Nat /\ K(2^14) * RX_INC >= 2^14
      BY <1>4
    <2>2. 2 * K(2^14) \in Nat /\ (2 * K(2^14)) * RX_INC = 2 * (K(2^14) * RX_INC)
      BY <1>a, <2>1
    <2> QED BY <1>4, <2>1, <2>2, Powers
  <1> QED BY <1>1, <1>3, <1>4, <1>5, <1>6, <1>7

\* A bit on the line against those waits.
LEMMA Rates ==
  ASSUME NEW inc \in TxRates
  PROVE  /\ inc \in 1..2^16
         /\ TxBit(inc) \in Nat /\ TxBit(inc) >= 2
         /\ TxBit(inc) = Clocks(2^16, inc) + 1
         /\ 8 * TxBit(inc) < RxHalf + 8 * RxBit
         /\ RxHalf + 9 * RxBit + RxQuarter + 4 <= 10 * TxBit(inc)
  <1>1. inc \in 1..2^16
    BY BaudAssumption
  <1>2. TxBit(inc) = Clocks(2^16, inc) + 1 /\ Clocks(2^16, inc) \in Nat
    BY <1>1, Powers, Counting DEF TxBit
  <1>3. Clocks(2^16, inc) >= 1
    <2>1. \A c \in Nat : c >= Clocks(2^16, inc) => c * inc >= 2^16
      BY <1>1, Powers, Counting
    <2>2. 0 * inc = 0
      BY <1>1
    <2> QED BY <1>2, <2>1, <2>2, Powers
  <1>4. /\ 8 * TxBit(inc) < RxHalf + 8 * RxBit
        /\ RxHalf + 9 * RxBit + RxQuarter + 4 <= 10 * TxBit(inc)
    BY BaudAssumption
  <1> QED BY <1>1, <1>2, <1>3, <1>4
--------------------------------------------------------------------------------
LEMMA Appended ==
  ASSUME NEW S, NEW t \in Seq(S), NEW x \in S
  PROVE  /\ Append(t, x) \in Seq(S) /\ Len(Append(t, x)) = Len(t) + 1
         /\ \A i \in 1..Len(t) : Append(t, x)[i] = t[i]
         /\ Append(t, x)[Len(t) + 1] = x
  <1>1. Append(t, x) \in Seq(S) /\ Len(Append(t, x)) = Len(t) + 1
    BY AppendProperties
  <1>2. \A i \in 1..Len(t) : Append(t, x)[i] = t[i]
    OBVIOUS
  <1>3. Append(t, x)[Len(t) + 1] = x
    OBVIOUS
  <1> QED BY <1>1, <1>2, <1>3

\* A shift by one bit.
LEMMA Shifted ==
  ASSUME NEW w \in Byte, NEW x \in Bit
  PROVE  /\ Append(Tail(w), x) \in Byte
         /\ \A j \in 1..7 : Append(Tail(w), x)[j] = w[j + 1]
         /\ Append(Tail(w), x)[8] = x
  <1>1. w \in Seq(Bit) /\ Len(w) = 8 /\ w # <<>>
    <2>1. w \in Seq(Bit)
      BY SeqDef DEF Byte
    <2>2. DOMAIN w = 1..8 /\ DOMAIN w = 1..Len(w) /\ Len(w) \in Nat
      BY <2>1, LenProperties DEF Byte
    <2>3. Len(w) = 8
      BY <2>2
    <2> QED BY <2>1, <2>3, EmptySeq
  <1>2. PICK t : t = Tail(w)
    OBVIOUS
  <1>3. t \in Seq(Bit) /\ Len(t) = 7 /\ \A i \in 1..7 : t[i] = w[i + 1]
    <2>1. t \in Seq(Bit) /\ Len(t) = Len(w) - 1 /\ \A i \in 1..Len(t) : t[i] = w[i + 1]
      BY <1>1, <1>2, HeadTailProperties
    <2> QED BY <1>1, <2>1
  <1>4. PICK a : a = Append(t, x)
    OBVIOUS
  <1>5. a \in Seq(Bit) /\ Len(a) = 8 /\ (\A i \in 1..7 : a[i] = t[i]) /\ a[8] = x
    <2>1. t \in Seq(Bit)
      BY <1>3
    <2>2. a \in Seq(Bit) /\ Len(a) = Len(t) + 1
      BY <1>4, <2>1, Appended
    <2>3. \A i \in 1..Len(t) : a[i] = t[i]
      BY <1>4, <2>1, Appended
    <2>4. a[Len(t) + 1] = x
      BY <1>4, <2>1, Appended
    <2> QED BY <1>3, <2>2, <2>3, <2>4
  <1>6. a \in [1..8 -> Bit]
    BY <1>5, LenProperties
  <1> QED BY <1>2, <1>3, <1>4, <1>5, <1>6 DEF Byte
--------------------------------------------------------------------------------
(* The line. With bits of P clocks, bit i of the byte stands on the line in the
   clocks m for which Shows(P, i, m): the first begins with the tick that ends the
   start bit, the others a clock after theirs, and the last ends early. *)
Shows(P, i, m) ==
  /\ IF i = 1 THEN i * P <= m ELSE i * P < m
  /\ m <= (i + 1) * P
  /\ m < 9 * P

\* The level in clock m of a byte: idle, start bit, its bits, stop bit.
LevelIs(P, byte, m, level) ==
  /\ m < 0 => level = 1
  /\ 0 <= m /\ m < P => level = 0
  /\ \A i \in 1..8 : Shows(P, i, m) => level = byte[i]
  /\ m >= 9 * P => level = 1

LEMMA Places ==
  ASSUME NEW P \in Nat, P >= 2, NEW i \in 1..8
  PROVE  /\ i * P \in Nat /\ (i + 1) * P \in Nat /\ (i + 1) * P = i * P + P
         /\ P <= i * P /\ i * P <= 8 * P
         /\ \A j \in 1..8 : i < j => (i + 1) * P <= j * P
  <1>1. i * P \in Nat /\ (i + 1) * P \in Nat /\ (i + 1) * P = i * P + P
    OBVIOUS
  <1>2. P <= i * P /\ i * P <= 8 * P
    OBVIOUS
  <1>3. ASSUME NEW j \in 1..8, i < j PROVE (i + 1) * P <= j * P
    BY <1>3
  <1> QED BY <1>1, <1>2, <1>3

\* The bits do not overlap.
LEMMA ShowsOne ==
  ASSUME NEW P \in Nat, P >= 2, NEW m \in Int, NEW i \in 1..8, NEW j \in 1..8,
         Shows(P, i, m), Shows(P, j, m)
  PROVE  i = j
  <1>1. ASSUME NEW k \in 1..8, NEW l \in 1..8, Shows(P, k, m), Shows(P, l, m), k < l
        PROVE  FALSE
    <2>1. m <= (k + 1) * P /\ (k + 1) * P <= l * P /\ l * P \in Nat /\ (k + 1) * P \in Nat
      BY <1>1, Places DEF Shows
    <2>2. l * P < m
      BY <1>1 DEF Shows
    <2> QED BY <2>1, <2>2
  <1> QED BY <1>1

LEMMA LevelOfBit ==
  ASSUME NEW P \in Nat, P >= 2, NEW byte, NEW m \in Int, NEW i \in 1..8, Shows(P, i, m)
  PROVE  LevelIs(P, byte, m, byte[i])
  <1>1. P <= i * P /\ i * P \in Nat
    BY Places
  <1>2. P <= m /\ m < 9 * P
    BY <1>1 DEF Shows
  <1>3. \A j \in 1..8 : Shows(P, j, m) => byte[i] = byte[j]
    BY ShowsOne
  <1> QED BY <1>2, <1>3 DEF LevelIs

LEMMA LevelAtEnds ==
  ASSUME NEW P \in Nat, P >= 2, NEW byte, NEW m \in Int
  PROVE  /\ m < 0 => LevelIs(P, byte, m, 1)
         /\ 0 <= m /\ m < P => LevelIs(P, byte, m, 0)
         /\ m >= 9 * P => LevelIs(P, byte, m, 1)
  <1>1. \A j \in 1..8 : Shows(P, j, m) => P <= m /\ m < 9 * P
    <2>1. \A j \in 1..8 : P <= j * P /\ j * P \in Nat
      BY Places
    <2> QED BY <2>1 DEF Shows
  <1>2. P < 9 * P
    OBVIOUS
  <1> QED BY <1>1, <1>2 DEF LevelIs

(* Where the receiver looks. The sum is the clock in which the bit it samples was on
   the line: the synchroniser is two clocks behind it, as its start was. *)
LEMMA Samples ==
  ASSUME NEW P \in Nat, P >= 2,
         8 * P < RxHalf + 8 * RxBit, RxHalf + 9 * RxBit + RxQuarter + 4 <= 10 * P,
         NEW i \in 1..8
  PROVE  Shows(P, i, RxHalf + i * RxBit)
  <1> DEFINE H == RxHalf
             R == RxBit
             Q == RxQuarter
  <1>1. H \in Nat /\ R \in Nat /\ Q \in Nat /\ 2 <= H /\ H <= R /\ Q >= 1
    BY Lengths
  <1>2. 8 * P < H + 8 * R /\ H + 9 * R + Q + 4 <= 10 * P
    OBVIOUS
  <1> HIDE DEF H, R, Q
  <1>3. i * P < H + i * R /\ H + i * R <= (i + 1) * P /\ H + i * R < 9 * P
    <2>1. CASE i = 1
      BY <1>1, <1>2, <2>1
    <2>2. CASE i = 2
      BY <1>1, <1>2, <2>2
    <2>3. CASE i = 3
      BY <1>1, <1>2, <2>3
    <2>4. CASE i = 4
      BY <1>1, <1>2, <2>4
    <2>5. CASE i = 5
      BY <1>1, <1>2, <2>5
    <2>6. CASE i = 6
      BY <1>1, <1>2, <2>6
    <2>7. CASE i = 7
      BY <1>1, <1>2, <2>7
    <2>8. CASE i = 8
      BY <1>1, <1>2, <2>8
    <2> QED BY <2>1, <2>2, <2>3, <2>4, <2>5, <2>6, <2>7, <2>8
  <1>4. i * P \in Nat /\ H + i * R \in Nat
    BY <1>1
  <1> QED BY <1>3, <1>4 DEF Shows, H, R

\* The stop bit has begun when the receiver asks for it.
LEMMA StopShows ==
  ASSUME NEW P \in Nat, P >= 2, 8 * P < RxHalf + 8 * RxBit
  PROVE  RxHalf + 9 * RxBit + RxQuarter + 1 >= 9 * P
  BY Lengths
-----------------------------------------------------------------------------
(* The transmitter n clocks after it latched the byte. *)
BitTime == TxBit(tx_inc)

TxAt(n) ==
  \/ tx_state = "TxStartBit" /\ n < BitTime /\ tx_counter = n * tx_inc /\ tx_bits = line
  \/ /\ tx_state = "TxSending"
     /\ \E c \in 0..BitTime - 1 : n = (8 - tx_bitCnt) * BitTime + c /\ tx_counter = c * tx_inc
     /\ \A j \in 1..tx_bitCnt + 1 : tx_bits[j] = line[j + 7 - tx_bitCnt]
  \/ /\ tx_state = "TxStopBit" /\ stop_bits = 1
     /\ \E c \in 0..BitTime - 1 : n = 9 * BitTime + c /\ tx_counter = c * tx_inc
  \/ tx_state = "TxStopBit" /\ stop_bits = 0 /\ n = 10 * BitTime
  \/ tx_state = "TxComplete" /\ n = 10 * BitTime + 1

LEMMA TxCounts ==
  ASSUME tx_inc \in TxRates, NEW c \in 0..BitTime - 1, tx_counter = c * tx_inc
  PROVE  /\ TxTick <=> c = BitTime - 1
         /\ ~TxTick /\ TxFree => tx_counter' = (c + 1) * tx_inc
  <1>1. tx_inc \in 1..2^16 /\ BitTime = Clocks(2^16, tx_inc) + 1 /\ BitTime \in Nat
    BY Rates DEF BitTime
  <1>2. /\ Clocks(2^16, tx_inc) \in Nat /\ c * tx_inc \in Nat
        /\ c < Clocks(2^16, tx_inc) => c * tx_inc < 2^16
        /\ c >= Clocks(2^16, tx_inc) => c * tx_inc >= 2^16
    <2>1. c \in Nat
      BY <1>1
    <2> QED BY <1>1, <2>1, Counting, Powers
  <1>3. TxTick <=> c = BitTime - 1
    BY <1>1, <1>2, Powers DEF TxTick
  <1>4. ASSUME ~TxTick, TxFree PROVE tx_counter' = (c + 1) * tx_inc
    <2>1. c * tx_inc < 2^16 /\ c \in Nat
      BY <1>1, <1>2, <1>4, Powers DEF TxTick
    <2>2. (c * tx_inc + tx_inc) % 2^17 = (c + 1) * tx_inc
      BY <1>1, <2>1, Counted
    <2> QED BY <1>4, <2>2 DEF TxFree
  <1> QED BY <1>3, <1>4

\* What the steps of the transmitter have in common.
TxRuns(n) ==
  /\ n \in Nat /\ tx_inc \in TxRates /\ TxTypeOK /\ line \in Byte
  /\ TxAt(n) /\ LevelIs(BitTime, line, n, tx_out)
  /\ tx_inc' = tx_inc /\ line' = line

TxAtNext(n) == (TxAt(n + 1))' /\ LevelIs(BitTime, line, n + 1, tx_out')

LEMMA StartBitStep ==
  ASSUME NEW n, TxRuns(n), TxStartBit
  PROVE  TxAtNext(n)
  <1> DEFINE P == BitTime
  <1>1. n \in Nat /\ tx_inc \in TxRates /\ line \in Byte /\ P \in Nat /\ P >= 2 /\ P' = P
        /\ tx_inc' = tx_inc /\ line' = line
    BY Rates DEF TxRuns, BitTime
  <1>2. /\ tx_state = "TxStartBit" /\ n < P /\ tx_counter = n * tx_inc /\ tx_bits = line
        /\ LevelIs(P, line, n, tx_out)
    BY DEF TxRuns, TxAt, TxStartBit
  <1>3. n \in 0..P - 1
    BY <1>1, <1>2
  <1>4. /\ TxTick <=> n = P - 1
        /\ ~TxTick /\ TxFree => tx_counter' = (n + 1) * tx_inc
    BY <1>1, <1>2, <1>3, TxCounts
  <1>5. tx_bits' = line
    BY <1>2 DEF TxStartBit
  <1>6. CASE TxTick
    <2>1. tx_state' = "TxSending" /\ tx_out' = line[1] /\ tx_counter' = 0 /\ tx_bitCnt' = 7
      BY <1>2, <1>6 DEF TxStartBit
    <2>2. n + 1 = P
      BY <1>1, <1>4, <1>6
    <2>3. 0 \in 0..P' - 1 /\ n + 1 = (8 - tx_bitCnt') * P' + 0 /\ tx_counter' = 0 * tx_inc'
      <3>1. (8 - 7) * P + 0 = P /\ 0 * tx_inc = 0 /\ 0 \in 0..P - 1
        BY <1>1, Rates
      <3> QED BY <1>1, <2>1, <2>2, <3>1
    <2>4. \A j \in 1..tx_bitCnt' + 1 : tx_bits'[j] = line'[j + 7 - tx_bitCnt']
      <3>1. \A j \in 1..8 : j + 7 - 7 = j
        OBVIOUS
      <3> QED BY <1>1, <1>5, <2>1, <3>1
    <2>5. (TxAt(n + 1))'
      BY <2>1, <2>3, <2>4 DEF TxAt
    <2>6. Shows(P, 1, n + 1)
      BY <1>1, <2>2 DEF Shows
    <2> HIDE DEF P
    <2> QED BY <1>1, <2>1, <2>5, <2>6, LevelOfBit DEF TxAtNext, P
  <1>7. CASE ~TxTick
    <2>1. tx_state' = "TxStartBit" /\ tx_out' = tx_out /\ tx_counter' = (n + 1) * tx_inc
      BY <1>2, <1>4, <1>7 DEF TxStartBit
    <2>2. n + 1 < P /\ n < P /\ 0 <= n
      BY <1>1, <1>3, <1>4, <1>7
    <2>3. (TxAt(n + 1))'
      BY <1>1, <1>5, <2>1, <2>2 DEF TxAt
    <2>4. tx_out = 0
      BY <1>2, <2>2 DEF LevelIs
    <2> HIDE DEF P
    <2>5. LevelIs(P, line, n + 1, 0)
      BY <1>1, <2>2, LevelAtEnds
    <2> QED BY <2>1, <2>3, <2>4, <2>5 DEF TxAtNext, P
  <1> QED BY <1>6, <1>7

LEMMA SendingStep ==
  ASSUME NEW n, TxRuns(n), TxSending
  PROVE  TxAtNext(n)
  <1> DEFINE P == BitTime
  <1>1. n \in Nat /\ tx_inc \in TxRates /\ line \in Byte /\ P \in Nat /\ P >= 2 /\ P' = P
        /\ tx_inc' = tx_inc /\ line' = line /\ tx_inc \in Nat
    BY Rates DEF TxRuns, BitTime
  <1>2. tx_bitCnt \in 0..7 /\ tx_bits \in Byte
    BY DEF TxRuns, TxTypeOK
  <1>3. PICK c \in 0..P - 1 : n = (8 - tx_bitCnt) * P + c /\ tx_counter = c * tx_inc
    BY DEF TxRuns, TxAt, TxSending
  <1>4. \A j \in 1..tx_bitCnt + 1 : tx_bits[j] = line[j + 7 - tx_bitCnt]
    BY DEF TxRuns, TxAt, TxSending
  <1>5. /\ TxTick <=> c = P - 1
        /\ ~TxTick /\ TxFree => tx_counter' = (c + 1) * tx_inc
    BY <1>1, <1>3, TxCounts
  <1>6. PICK i \in 1..8 : i = 8 - tx_bitCnt
    BY <1>2
  <1>7. /\ i * P \in Nat /\ (i + 1) * P \in Nat /\ (i + 1) * P = i * P + P
        /\ P <= i * P /\ i * P <= 8 * P
    BY <1>1, Places
  <1>8. tx_bits[1] = line[i]
    <2>1. 1 \in 1..tx_bitCnt + 1 /\ 1 + 7 - tx_bitCnt = i
      BY <1>2, <1>6
    <2> QED BY <1>4, <2>1
  <1>9. n = i * P + c
    BY <1>3, <1>6
  <1>10. CASE TxTick /\ tx_bitCnt = 0
    <2>1. tx_state' = "TxStopBit" /\ stop_bits' = 1 /\ tx_out' = 1 /\ tx_counter' = 0
      BY <1>10 DEF TxSending, STOP_BITS
    <2>2. n + 1 = 9 * P
      BY <1>1, <1>5, <1>6, <1>7, <1>9, <1>10
    <2>3. 0 \in 0..P' - 1 /\ n + 1 = 9 * P' + 0 /\ tx_counter' = 0 * tx_inc'
      BY <1>1, <2>1, <2>2
    <2>4. (TxAt(n + 1))'
      BY <2>1, <2>3 DEF TxAt
    <2> HIDE DEF P
    <2>5. LevelIs(P, line, n + 1, 1)
      BY <1>1, <2>2, LevelAtEnds
    <2> QED BY <2>1, <2>4, <2>5 DEF TxAtNext, P
  <1>11. CASE TxTick /\ tx_bitCnt > 0
    <2>1. /\ tx_state' = "TxSending" /\ tx_out' = line[i] /\ tx_counter' = 0
          /\ tx_bitCnt' = tx_bitCnt - 1 /\ tx_bits' = Append(Tail(tx_bits), 0)
      BY <1>2, <1>8, <1>11 DEF TxSending
    <2>2. n + 1 = (i + 1) * P /\ i <= 7
      BY <1>1, <1>2, <1>5, <1>6, <1>7, <1>9, <1>11
    <2>3. 0 \in 0..P' - 1 /\ n + 1 = (8 - tx_bitCnt') * P' + 0 /\ tx_counter' = 0 * tx_inc'
      <3>1. 8 - (tx_bitCnt - 1) = i + 1
        BY <1>2, <1>6
      <3>2. 0 * tx_inc = 0 /\ 0 \in 0..P - 1 /\ (i + 1) * P + 0 = (i + 1) * P
        BY <1>1, <1>7
      <3> QED BY <1>1, <2>1, <2>2, <3>1, <3>2
    <2>4. \A j \in 1..tx_bitCnt' + 1 : tx_bits'[j] = line'[j + 7 - tx_bitCnt']
      <3> TAKE j \in 1..tx_bitCnt' + 1
      <3>1. j \in 1..7 /\ j + 1 \in 1..tx_bitCnt + 1
        BY <1>2, <1>11, <2>1
      <3>2. 0 \in Bit
        BY DEF Bit
      <3>3. tx_bits'[j] = tx_bits[j + 1]
        BY <1>2, <2>1, <3>1, <3>2, Shifted
      <3>4. tx_bits[j + 1] = line[(j + 1) + 7 - tx_bitCnt]
        BY <1>4, <3>1
      <3>5. (j + 1) + 7 - tx_bitCnt = j + 7 - tx_bitCnt'
        BY <1>2, <2>1, <3>1
      <3> QED BY <1>1, <3>3, <3>4, <3>5
    <2>5. (TxAt(n + 1))'
      BY <2>1, <2>3, <2>4 DEF TxAt
    <2>6. Shows(P, i, n + 1)
      <3>1. (i + 1) * P <= 8 * P
        BY <1>1, <2>2
      <3> QED BY <1>1, <1>7, <2>2, <3>1 DEF Shows
    <2> HIDE DEF P
    <2> QED BY <1>1, <2>1, <2>5, <2>6, LevelOfBit DEF TxAtNext, P
  <1>12. CASE ~TxTick
    <2>1. /\ tx_state' = "TxSending" /\ tx_out' = line[i] /\ tx_counter' = (c + 1) * tx_inc
          /\ tx_bitCnt' = tx_bitCnt /\ tx_bits' = tx_bits
      BY <1>5, <1>8, <1>12 DEF TxSending
    <2>2. c + 1 \in 0..P - 1 /\ n + 1 = i * P + (c + 1)
      BY <1>1, <1>5, <1>7, <1>9, <1>12
    <2>3. c + 1 \in 0..P' - 1 /\ n + 1 = (8 - tx_bitCnt') * P' + (c + 1)
          /\ tx_counter' = (c + 1) * tx_inc'
      BY <1>1, <1>6, <2>1, <2>2
    <2>4. \A j \in 1..tx_bitCnt' + 1 : tx_bits'[j] = line'[j + 7 - tx_bitCnt']
      BY <1>1, <1>4, <2>1
    <2>5. (TxAt(n + 1))'
      BY <2>1, <2>3, <2>4 DEF TxAt
    <2>6. Shows(P, i, n + 1)
      BY <1>1, <1>7, <2>2 DEF Shows
    <2> HIDE DEF P
    <2> QED BY <1>1, <2>1, <2>5, <2>6, LevelOfBit DEF TxAtNext, P
  <1> QED BY <1>2, <1>10, <1>11, <1>12

LEMMA StopBitStep ==
  ASSUME NEW n, TxRuns(n), TxStopBit
  PROVE  TxAtNext(n)
  <1> DEFINE P == BitTime
  <1>1. n \in Nat /\ tx_inc \in TxRates /\ line \in Byte /\ P \in Nat /\ P >= 2 /\ P' = P
        /\ tx_inc' = tx_inc /\ line' = line /\ tx_inc \in Nat
    BY Rates DEF TxRuns, BitTime
  <1>2. tx_out' = tx_out /\ LevelIs(P, line, n, tx_out)
    BY DEF TxStopBit, TxRuns
  <1>3. n >= 9 * P /\ tx_out = 1
    <2>1. n >= 9 * P
      BY <1>1 DEF TxRuns, TxAt, TxStopBit
    <2> QED BY <1>2, <2>1 DEF LevelIs
  <1>4. LevelIs(P, line, n + 1, tx_out')
    <2>1. n + 1 >= 9 * P
      BY <1>1, <1>3
    <2> HIDE DEF P
    <2> QED BY <1>1, <1>2, <1>3, <2>1, LevelAtEnds
  <1>5. CASE stop_bits = 1
    <2>1. PICK c \in 0..P - 1 : n = 9 * P + c /\ tx_counter = c * tx_inc
      BY <1>5 DEF TxRuns, TxAt, TxStopBit
    <2>2. /\ TxTick <=> c = P - 1
          /\ ~TxTick /\ TxFree => tx_counter' = (c + 1) * tx_inc
      BY <1>1, <2>1, TxCounts
    <2>3. CASE TxTick
      <3>1. tx_state' = "TxStopBit" /\ stop_bits' = 0
        BY <1>5, <2>3 DEF TxStopBit
      <3>2. n + 1 = 10 * P'
        BY <1>1, <2>1, <2>2, <2>3
      <3> QED BY <1>4, <3>1, <3>2 DEF TxAtNext, TxAt
    <2>4. CASE ~TxTick
      <3>1. tx_state' = "TxStopBit" /\ stop_bits' = 1 /\ tx_counter' = (c + 1) * tx_inc'
        BY <1>1, <1>5, <2>2, <2>4 DEF TxStopBit
      <3>2. c + 1 \in 0..P' - 1 /\ n + 1 = 9 * P' + (c + 1)
        BY <1>1, <2>1, <2>2, <2>4
      <3> QED BY <1>4, <3>1, <3>2 DEF TxAtNext, TxAt
    <2> QED BY <2>3, <2>4
  <1>6. CASE stop_bits = 0
    <2>1. tx_state' = "TxComplete" /\ n = 10 * P
      BY <1>6 DEF TxRuns, TxAt, TxStopBit
    <2> QED BY <1>1, <1>4, <2>1 DEF TxAtNext, TxAt
  <1>7. stop_bits \in {0, 1}
    BY DEF TxRuns, TxAt, TxStopBit
  <1> QED BY <1>5, <1>6, <1>7
-----------------------------------------------------------------------------
(* The receiver n clocks after the transmitter latched the byte. It sees the start
   bit three clocks late, samples bit i at the end of its wait number i, and is
   done a quarter of a bit into the stop bit. *)
RxDone == 4 + RxHalf + 9 * RxBit + RxQuarter

RxAt(n) ==
  \/ rx_state = "RxIdle" /\ n <= 2 /\ ~taken
  \/ /\ rx_state = "RxStartBit" /\ ~taken
     /\ \E d \in 0..RxHalf - 1 : n = 3 + d /\ rx_counter = d * RX_INC
  \/ /\ rx_state = "RxHalfBit" /\ ~taken
     /\ \E d \in 0..RxBit - 1 : n = 3 + RxHalf + d /\ rx_counter = d * RX_INC
  \/ /\ rx_state = "RxReceiving" /\ ~taken
     /\ \E d \in 0..RxBit - 1 :
          n = 3 + RxHalf + (8 - rx_bitCnt) * RxBit + d /\ rx_counter = d * RX_INC
     /\ \A j \in 1..8 - rx_bitCnt : rx_bits[rx_bitCnt + j] = line[j]
  \/ /\ rx_state = "RxStopBit" /\ ~taken /\ rx_bits = line
     /\ \E d \in 0..RxQuarter : n = 3 + RxHalf + 9 * RxBit + d /\ rx_counter = d * RX_INC
  \/ rx_state = "RxComplete" /\ ~taken /\ n = RxDone /\ rx_byte = line
  \/ rx_state = "RxIdle" /\ taken /\ n > RxDone

LEMMA RxTicks ==
  ASSUME NEW amount \in Nat, 2^14 <= amount, amount <= 2^16,
         NEW d \in Nat, d <= Clocks(amount, RX_INC)
  PROVE  /\ ((d * RX_INC) \div amount) % 2 = 1 <=> d = Clocks(amount, RX_INC)
         /\ d < Clocks(amount, RX_INC) => (d * RX_INC + RX_INC) % 2^17 = (d + 1) * RX_INC
  <1> DEFINE K == Clocks(amount, RX_INC)
             x == d * RX_INC
  <1>1. RX_INC \in 1..2^14 /\ RX_INC \in 1..2^16
    <2>1. RX_INC \in 1..2^14
      BY Lengths
    <2> QED BY <2>1, SMT
  <1>2. /\ K \in Nat
        /\ \A c \in Nat : /\ c * RX_INC \in Nat
                          /\ c < K => c * RX_INC < amount
                          /\ c >= K => c * RX_INC >= amount
    BY <1>1, Counting
  <1>3. amount >= 1
    BY Powers
  <1> HIDE DEF K
  <1>4. ASSUME d < K
        PROVE  (x \div amount) % 2 # 1 /\ (x + RX_INC) % 2^17 = (d + 1) * RX_INC
    <2>1. x \in Nat /\ x < amount /\ x < 2^16
      BY <1>2, <1>4, Powers
    <2>2. (x + RX_INC) % 2^17 = (d + 1) * RX_INC
      BY <1>1, <2>1, Counted
    <2> HIDE DEF x
    <2>3. x \div amount = 0
      BY <1>3, <2>1
    <2> QED BY <2>2, <2>3
  <1>5. ASSUME d = K
        PROVE  (x \div amount) % 2 = 1
    <2>1. K >= 1
      <3>1. 0 * RX_INC = 0
        BY <1>1
      <3> QED BY <1>2, <1>3, <3>1
    <2>2. (d - 1) * RX_INC < amount /\ (d - 1) * RX_INC = x - RX_INC
      <3>1. d - 1 \in Nat /\ d - 1 < K
        BY <1>2, <1>5, <2>1
      <3> QED BY <1>1, <1>2, <3>1
    <2>3. x \in Nat /\ amount <= x /\ x < amount + RX_INC
      BY <1>1, <1>2, <1>5, <2>2
    <2> HIDE DEF x
    <2>4. x \in Nat /\ amount <= x /\ x < 2 * amount
      BY <1>1, <2>3, Powers
    <2>5. x \div amount = 1
      BY <1>3, <2>4
    <2> QED BY <2>5
  <1> QED BY <1>2, <1>4, <1>5 DEF K

\* The receiver's three waits.
LEMMA RxCounts ==
  ASSUME NEW d \in Nat, rx_counter = d * RX_INC
  PROVE  /\ d < RxHalf => /\ RxTick(2) <=> d = RxHalf - 1
                          /\ ~RxTick(2) /\ RxFree => rx_counter' = (d + 1) * RX_INC
         /\ d < RxBit => /\ RxTick(1) <=> d = RxBit - 1
                         /\ ~RxTick(1) /\ RxFree => rx_counter' = (d + 1) * RX_INC
         /\ d <= RxQuarter => /\ RxTick(4) <=> d = RxQuarter
                              /\ ~RxTick(4) /\ RxFree => rx_counter' = (d + 1) * RX_INC
  <1>1. 2^16 \div 1 = 2^16 /\ 2^16 \div 2 = 2^15 /\ 2^16 \div 4 = 2^14
    BY SMT
  <1>2. /\ RxHalf = Clocks(2^15, RX_INC) + 1 /\ RxBit = Clocks(2^16, RX_INC) + 1
        /\ RxQuarter = Clocks(2^14, RX_INC)
        /\ RxHalf \in Nat /\ RxBit \in Nat /\ RxQuarter \in Nat
    BY Lengths DEF RxHalf, RxBit, RxQuarter
  <1>3. Clocks(2^15, RX_INC) \in Int /\ Clocks(2^16, RX_INC) \in Int /\ Clocks(2^14, RX_INC) \in Int
    <2>1. RX_INC \in 1..2^14
      BY Lengths
    <2>2. RX_INC \in 1..2^16
      BY <2>1, SMT
    <2>3. \A amount \in Nat : Clocks(amount, RX_INC) \in Nat
      <3>1. 0 \in Nat
        OBVIOUS
      <3> QED BY <2>2, <3>1, Counting
    <2>4. 2^14 \in Nat /\ 2^15 \in Nat /\ 2^16 \in Nat
      BY Powers
    <2> QED BY <2>3, <2>4
  <1>4. ASSUME NEW amount \in {2^14, 2^15, 2^16}, d <= Clocks(amount, RX_INC)
        PROVE  /\ (rx_counter \div amount) % 2 = 1 <=> d = Clocks(amount, RX_INC)
               /\ (rx_counter \div amount) % 2 # 1 /\ RxFree => rx_counter' = (d + 1) * RX_INC
    <2>1. amount \in Nat /\ 2^14 <= amount /\ amount <= 2^16
      BY Powers
    <2>2. /\ (rx_counter \div amount) % 2 = 1 <=> d = Clocks(amount, RX_INC)
          /\ d < Clocks(amount, RX_INC) => (rx_counter + RX_INC) % 2^17 = (d + 1) * RX_INC
      BY <1>4, <2>1, RxTicks
    <2>3. d # Clocks(amount, RX_INC) => d < Clocks(amount, RX_INC)
      BY <1>3, <1>4
    <2> QED BY <2>2, <2>3 DEF RxFree
  <1>5. ASSUME d < RxHalf
        PROVE  /\ RxTick(2) <=> d = RxHalf - 1
               /\ ~RxTick(2) /\ RxFree => rx_counter' = (d + 1) * RX_INC
    <2>1. d <= Clocks(2^15, RX_INC) /\ (d = Clocks(2^15, RX_INC) <=> d = RxHalf - 1)
      BY <1>2, <1>3, <1>5
    <2> QED BY <1>1, <1>4, <2>1 DEF RxTick
  <1>6. ASSUME d < RxBit
        PROVE  /\ RxTick(1) <=> d = RxBit - 1
               /\ ~RxTick(1) /\ RxFree => rx_counter' = (d + 1) * RX_INC
    <2>1. d <= Clocks(2^16, RX_INC) /\ (d = Clocks(2^16, RX_INC) <=> d = RxBit - 1)
      BY <1>2, <1>3, <1>6
    <2> QED BY <1>1, <1>4, <2>1 DEF RxTick
  <1>7. ASSUME d <= RxQuarter
        PROVE  /\ RxTick(4) <=> d = RxQuarter
               /\ ~RxTick(4) /\ RxFree => rx_counter' = (d + 1) * RX_INC
    BY <1>1, <1>2, <1>4, <1>7 DEF RxTick
  <1> QED BY <1>5, <1>6, <1>7

\* What the steps of the receiver have in common.
RxRuns(n) ==
  /\ n \in Nat /\ tx_inc \in TxRates /\ RxTypeOK /\ line \in Byte
  /\ RxAt(n) /\ LevelIs(BitTime, line, n - 2, bit[2])
  /\ n >= 1 => LevelIs(BitTime, line, n - 3, bit[3])
  /\ reset = 1 /\ Receive /\ line' = line

\* How a step of the receiver leaves what it does not speak of.
LEMMA RxKeeps ==
  ASSUME NEW n, RxRuns(n)
  PROVE  /\ n \in Nat /\ line \in Byte /\ line' = line
         /\ BitTime \in Nat /\ BitTime >= 2 /\ 8 * BitTime < RxHalf + 8 * RxBit
         /\ RxHalf + 9 * RxBit + RxQuarter + 4 <= 10 * BitTime
         /\ \A next : Goto(next) <=> rx_state' = next
         /\ rx_state # "RxComplete" => taken' = taken
         /\ rx_state = "RxComplete" => taken' = TRUE
  BY Rates DEF RxRuns, BitTime, Goto, Receive

LEMMA RxIdleStep ==
  ASSUME NEW n, RxRuns(n), RxIdle
  PROVE  (RxAt(n + 1))'
  <1> DEFINE P == BitTime
  <1>1. /\ n \in Nat /\ P \in Nat /\ P >= 2 /\ taken' = taken
        /\ \A next : Goto(next) <=> rx_state' = next
        /\ 8 * P < RxHalf + 8 * RxBit
    BY RxKeeps DEF RxIdle
  <1>2. /\ LevelIs(P, line, n - 2, bit[2])
        /\ n >= 1 => LevelIs(P, line, n - 3, bit[3])
    BY DEF RxRuns
  <1>3. (n <= 2 /\ ~taken) \/ (taken /\ n > RxDone)
    <2>1. rx_state = "RxIdle" /\ RxAt(n)
      BY DEF RxRuns, RxIdle
    <2> QED BY <2>1 DEF RxAt
  <1> HIDE DEF P
  <1>4. CASE n < 2 /\ ~taken
    <2>1. bit[2] = 1
      BY <1>1, <1>2, <1>4 DEF LevelIs
    <2>2. rx_state' = "RxIdle"
      BY <1>1, <2>1 DEF RxIdle, Stay, Rx_fallingedge
    <2>3. n + 1 <= 2
      BY <1>1, <1>4
    <2> QED BY <1>1, <1>4, <2>2, <2>3 DEF RxAt
  <1>5. CASE n = 2 /\ ~taken
    <2>1. bit[2] = 0 /\ bit[3] = 1
      BY <1>1, <1>2, <1>5 DEF LevelIs
    <2>2. rx_state' = "RxStartBit" /\ rx_counter' = 0
      BY <1>1, <2>1 DEF RxIdle, Rx_fallingedge
    <2>3. 0 \in 0..RxHalf - 1 /\ n + 1 = 3 + 0 /\ rx_counter' = 0 * RX_INC
      BY <1>5, <2>2, Lengths
    <2> QED BY <1>1, <1>5, <2>2, <2>3 DEF RxAt
  <1>6. CASE taken /\ n > RxDone
    <2>1. RxHalf + 9 * RxBit + RxQuarter + 1 >= 9 * P
      BY <1>1, StopShows
    <2>2. RxHalf \in Nat /\ RxBit \in Nat /\ RxQuarter \in Nat
      BY Lengths
    <2>3. n - 2 >= 9 * P /\ n + 1 > RxDone
      BY <1>1, <1>6, <2>1, <2>2 DEF RxDone
    <2>4. bit[2] = 1
      BY <1>2, <2>3 DEF LevelIs
    <2>5. rx_state' = "RxIdle"
      BY <1>1, <2>4 DEF RxIdle, Stay, Rx_fallingedge
    <2> QED BY <1>1, <1>6, <2>3, <2>5 DEF RxAt
  <1> QED BY <1>1, <1>3, <1>4, <1>5, <1>6

LEMMA RxStartBitStep ==
  ASSUME NEW n, RxRuns(n), RxStartBit
  PROVE  (RxAt(n + 1))'
  <1>1. n \in Nat /\ taken' = taken /\ \A next : Goto(next) <=> rx_state' = next
    BY RxKeeps DEF RxStartBit
  <1>2. ~taken
    BY DEF RxRuns, RxAt, RxStartBit
  <1>3. PICK d \in 0..RxHalf - 1 : n = 3 + d /\ rx_counter = d * RX_INC
    BY DEF RxRuns, RxAt, RxStartBit
  <1>4. d \in Nat /\ d < RxHalf /\ RxHalf \in Nat /\ RxBit \in Nat /\ RxBit >= 1
    BY <1>3, Lengths
  <1>5. /\ RxTick(2) <=> d = RxHalf - 1
        /\ ~RxTick(2) /\ RxFree => rx_counter' = (d + 1) * RX_INC
    BY <1>3, <1>4, RxCounts
  <1>6. CASE RxTick(2)
    <2>1. rx_state' = "RxHalfBit" /\ rx_counter' = 0
      BY <1>1, <1>6 DEF RxStartBit
    <2>2. 0 \in 0..RxBit - 1 /\ n + 1 = 3 + RxHalf + 0 /\ rx_counter' = 0 * RX_INC
      BY <1>3, <1>4, <1>5, <1>6, <2>1, Lengths
    <2> QED BY <1>1, <1>2, <2>1, <2>2 DEF RxAt
  <1>7. CASE ~RxTick(2)
    <2>1. rx_state' = "RxStartBit" /\ rx_counter' = (d + 1) * RX_INC
      BY <1>1, <1>5, <1>7 DEF RxStartBit, Stay
    <2>2. d + 1 \in 0..RxHalf - 1 /\ n + 1 = 3 + (d + 1)
      BY <1>3, <1>4, <1>5, <1>7
    <2> QED BY <1>1, <1>2, <2>1, <2>2 DEF RxAt
  <1> QED BY <1>6, <1>7

\* The level behind the synchroniser when the receiver samples bit i.
LEMMA SampledBit ==
  ASSUME NEW n, RxRuns(n), NEW i \in 1..8, n - 2 = RxHalf + i * RxBit
  PROVE  Rx_sync = line[i]
  <1>1. Shows(BitTime, i, n - 2)
    BY RxKeeps, Samples
  <1>2. LevelIs(BitTime, line, n - 2, bit[2])
    BY DEF RxRuns
  <1> QED BY <1>1, <1>2 DEF LevelIs, Rx_sync

LEMMA SampledWord ==
  ASSUME RxTypeOK
  PROVE  /\ Sampled \in Byte
         /\ \A j \in 1..7 : Sampled[j] = rx_bits[j + 1]
         /\ Sampled[8] = Rx_sync
  <1>1. rx_bits \in Byte /\ Rx_sync \in Bit
    BY DEF RxTypeOK, RxWord, Byte, Bit, Rx_sync
  <1> QED BY <1>1, Shifted DEF Sampled

LEMMA RxHalfBitStep ==
  ASSUME NEW n, RxRuns(n), RxHalfBit
  PROVE  (RxAt(n + 1))'
  <1>1. /\ n \in Nat /\ taken' = taken /\ line' = line
        /\ \A next : Goto(next) <=> rx_state' = next
    BY RxKeeps DEF RxHalfBit
  <1>2. ~taken /\ RxTypeOK
    BY DEF RxRuns, RxAt, RxHalfBit
  <1>3. PICK d \in 0..RxBit - 1 : n = 3 + RxHalf + d /\ rx_counter = d * RX_INC
    BY DEF RxRuns, RxAt, RxHalfBit
  <1>4. d \in Nat /\ d < RxBit /\ RxHalf \in Nat /\ RxBit \in Nat /\ RxBit >= 1
    BY <1>3, Lengths
  <1>5. /\ RxTick(1) <=> d = RxBit - 1
        /\ ~RxTick(1) /\ RxFree => rx_counter' = (d + 1) * RX_INC
    BY <1>3, <1>4, RxCounts
  <1>6. CASE RxTick(1)
    <2>1. rx_state' = "RxReceiving" /\ rx_counter' = 0 /\ rx_bits' = Sampled /\ rx_bitCnt' = 7
      BY <1>1, <1>6 DEF RxHalfBit
    <2>2. 0 \in 0..RxBit - 1 /\ n + 1 = 3 + RxHalf + (8 - rx_bitCnt') * RxBit + 0
          /\ rx_counter' = 0 * RX_INC
      BY <1>3, <1>4, <1>5, <1>6, <2>1, Lengths
    <2>3. n - 2 = RxHalf + 1 * RxBit /\ 1 \in 1..8
      BY <1>3, <1>4, <1>5, <1>6
    <2>4. Sampled[8] = line[1]
      BY <1>2, <2>3, SampledBit, SampledWord
    <2>5. \A j \in 1..8 - rx_bitCnt' : rx_bits'[rx_bitCnt' + j] = line'[j]
      BY <1>1, <2>1, <2>4
    <2> QED BY <1>1, <1>2, <2>1, <2>2, <2>5 DEF RxAt
  <1>7. CASE ~RxTick(1)
    <2>1. rx_state' = "RxHalfBit" /\ rx_counter' = (d + 1) * RX_INC
      BY <1>1, <1>5, <1>7 DEF RxHalfBit, Stay
    <2>2. d + 1 \in 0..RxBit - 1 /\ n + 1 = 3 + RxHalf + (d + 1)
      BY <1>3, <1>4, <1>5, <1>7
    <2> QED BY <1>1, <1>2, <2>1, <2>2 DEF RxAt
  <1> QED BY <1>6, <1>7

LEMMA RxReceivingStep ==
  ASSUME NEW n, RxRuns(n), RxReceiving
  PROVE  (RxAt(n + 1))'
  <1>1. /\ n \in Nat /\ taken' = taken /\ line' = line /\ line \in Byte
        /\ \A next : Goto(next) <=> rx_state' = next
    BY RxKeeps DEF RxReceiving
  <1>2. ~taken /\ RxTypeOK /\ rx_bitCnt \in 0..7 /\ rx_bits \in Byte
    BY DEF RxRuns, RxAt, RxReceiving, RxTypeOK, RxWord, Byte, Bit
  <1>3. PICK d \in 0..RxBit - 1 :
          n = 3 + RxHalf + (8 - rx_bitCnt) * RxBit + d /\ rx_counter = d * RX_INC
    BY DEF RxRuns, RxAt, RxReceiving
  <1>4. \A j \in 1..8 - rx_bitCnt : rx_bits[rx_bitCnt + j] = line[j]
    BY DEF RxRuns, RxAt, RxReceiving
  <1>5. d \in Nat /\ d < RxBit /\ RxHalf \in Nat /\ RxBit \in Nat /\ RxBit >= 1
    BY <1>3, Lengths
  <1>6. /\ RxTick(1) <=> d = RxBit - 1
        /\ ~RxTick(1) /\ RxFree => rx_counter' = (d + 1) * RX_INC
    BY <1>3, <1>5, RxCounts
  <1>7. PICK i \in 1..8 : i = 8 - rx_bitCnt
    BY <1>2
  <1>8. i * RxBit \in Nat /\ (i + 1) * RxBit = i * RxBit + RxBit /\ n = 3 + RxHalf + i * RxBit + d
    BY <1>3, <1>5, <1>7
  <1>9. CASE RxTick(1) /\ rx_bitCnt = 0
    <2>1. rx_state' = "RxStopBit" /\ rx_counter' = 0 /\ rx_bits' = rx_bits
      BY <1>1, <1>9 DEF RxReceiving
    <2>2. 0 \in 0..RxQuarter /\ n + 1 = 3 + RxHalf + 9 * RxBit + 0 /\ rx_counter' = 0 * RX_INC
      BY <1>5, <1>6, <1>7, <1>8, <1>9, <2>1, Lengths
    <2>3. rx_bits = line
      <3>1. \A j \in 1..8 : rx_bits[j] = line[j]
        BY <1>4, <1>9
      <3> QED BY <1>1, <1>2, <3>1 DEF Byte
    <2> QED BY <1>1, <1>2, <2>1, <2>2, <2>3 DEF RxAt
  <1>10. CASE RxTick(1) /\ rx_bitCnt > 0
    <2>1. /\ rx_state' = "RxReceiving" /\ rx_counter' = 0 /\ rx_bits' = Sampled
          /\ rx_bitCnt' = rx_bitCnt - 1
      BY <1>1, <1>2, <1>10 DEF RxReceiving, Stay
    <2>2. i <= 7 /\ 8 - rx_bitCnt' = i + 1
      BY <1>2, <1>7, <1>10, <2>1
    <2>3. 0 \in 0..RxBit - 1 /\ n + 1 = 3 + RxHalf + (8 - rx_bitCnt') * RxBit + 0
          /\ rx_counter' = 0 * RX_INC
      <3>1. n + 1 = 3 + RxHalf + (i + 1) * RxBit
        BY <1>1, <1>5, <1>6, <1>8, <1>10
      <3> QED BY <1>5, <2>1, <2>2, <3>1, Lengths
    <2>4. n - 2 = RxHalf + (i + 1) * RxBit /\ i + 1 \in 1..8
      BY <1>1, <1>5, <1>6, <1>8, <1>10, <2>2
    <2>5. Sampled[8] = line[i + 1] /\ \A j \in 1..7 : Sampled[j] = rx_bits[j + 1]
      BY <1>2, <2>4, SampledBit, SampledWord
    <2>6. ASSUME NEW j \in 1..8 - rx_bitCnt'
          PROVE  rx_bits'[rx_bitCnt' + j] = line'[j]
      <3>1. CASE j = i + 1
        <4>1. rx_bitCnt' + j = 8
          BY <1>2, <2>1, <2>2, <3>1
        <4> QED BY <1>1, <2>1, <2>5, <3>1, <4>1
      <3>2. CASE j # i + 1
        <4>1. j \in 1..8 - rx_bitCnt /\ rx_bitCnt' + j \in 1..7
              /\ (rx_bitCnt' + j) + 1 = rx_bitCnt + j
          BY <1>2, <1>7, <2>1, <2>2, <2>6, <3>2
        <4>2. Sampled[rx_bitCnt' + j] = rx_bits[rx_bitCnt + j]
          BY <2>5, <4>1
        <4> QED BY <1>1, <1>4, <2>1, <4>1, <4>2
      <3> QED BY <3>1, <3>2
    <2> QED BY <1>1, <1>2, <2>1, <2>3, <2>6 DEF RxAt
  <1>11. CASE ~RxTick(1)
    <2>1. /\ rx_state' = "RxReceiving" /\ rx_counter' = (d + 1) * RX_INC
          /\ rx_bits' = rx_bits /\ rx_bitCnt' = rx_bitCnt
      BY <1>1, <1>6, <1>11 DEF RxReceiving, Stay
    <2>2. d + 1 \in 0..RxBit - 1 /\ n + 1 = 3 + RxHalf + i * RxBit + (d + 1)
      BY <1>1, <1>5, <1>6, <1>8, <1>11
    <2>3. n + 1 = 3 + RxHalf + (8 - rx_bitCnt') * RxBit + (d + 1)
      BY <1>7, <2>1, <2>2
    <2>4. \A j \in 1..8 - rx_bitCnt' : rx_bits'[rx_bitCnt' + j] = line'[j]
      BY <1>1, <1>4, <2>1
    <2> QED BY <1>1, <1>2, <2>1, <2>2, <2>3, <2>4 DEF RxAt
  <1> QED BY <1>2, <1>9, <1>10, <1>11

LEMMA RxStopBitStep ==
  ASSUME NEW n, RxRuns(n), RxStopBit
  PROVE  (RxAt(n + 1))'
  <1>1. /\ n \in Nat /\ taken' = taken /\ line' = line
        /\ \A next : Goto(next) <=> rx_state' = next
        /\ BitTime \in Nat /\ BitTime >= 2 /\ 8 * BitTime < RxHalf + 8 * RxBit
    BY RxKeeps DEF RxStopBit
  <1>2. ~taken /\ rx_bits = line /\ rx_bits' = rx_bits /\ rx_byte' = rx_bits
    BY DEF RxRuns, RxAt, RxStopBit
  <1>3. PICK d \in 0..RxQuarter : n = 3 + RxHalf + 9 * RxBit + d /\ rx_counter = d * RX_INC
    BY DEF RxRuns, RxAt, RxStopBit
  <1>4. d \in Nat /\ d <= RxQuarter /\ RxHalf \in Nat /\ RxBit \in Nat /\ RxQuarter \in Nat
    BY <1>3, Lengths
  <1>5. /\ RxTick(4) <=> d = RxQuarter
        /\ ~RxTick(4) /\ RxFree => rx_counter' = (d + 1) * RX_INC
    BY <1>3, <1>4, RxCounts
  <1>6. CASE RxTick(4)
    <2>1. n + 1 = RxDone /\ n - 2 = RxHalf + 9 * RxBit + RxQuarter + 1
      BY <1>3, <1>4, <1>5, <1>6 DEF RxDone
    <2>2. n - 2 >= 9 * BitTime
      BY <1>1, <2>1, StopShows
    <2>3. Rx_sync = 1
      BY <2>2 DEF RxRuns, LevelIs, Rx_sync
    <2>4. rx_state' = "RxComplete"
      BY <1>1, <1>6, <2>3 DEF RxStopBit
    <2> QED BY <1>1, <1>2, <2>1, <2>4 DEF RxAt
  <1>7. CASE ~RxTick(4)
    <2>1. rx_state' = "RxStopBit" /\ rx_counter' = (d + 1) * RX_INC
      BY <1>1, <1>5, <1>7 DEF RxStopBit, Stay
    <2>2. d + 1 \in 0..RxQuarter /\ n + 1 = 3 + RxHalf + 9 * RxBit + (d + 1)
      BY <1>3, <1>4, <1>5, <1>7
    <2> QED BY <1>1, <1>2, <2>1, <2>2 DEF RxAt
  <1> QED BY <1>6, <1>7

LEMMA RxCompleteStep ==
  ASSUME NEW n, RxRuns(n), RxComplete
  PROVE  (RxAt(n + 1))'
  <1>1. n \in Nat /\ taken' = TRUE /\ \A next : Goto(next) <=> rx_state' = next
    BY RxKeeps DEF RxComplete
  <1>2. n = RxDone /\ rx_state' = "RxIdle"
    BY <1>1 DEF RxRuns, RxAt, RxComplete
  <1>3. n + 1 > RxDone
    BY <1>1, <1>2
  <1> QED BY <1>1, <1>2, <1>3 DEF RxAt

LEMMA RxAtNext ==
  ASSUME NEW n, RxRuns(n), RxStep
  PROVE  (RxAt(n + 1))'
  <1>1. ~RxReset
    BY DEF RxRuns, RxAt, RxReset
  <1> QED BY <1>1, RxIdleStep, RxStartBitStep, RxHalfBitStep, RxReceivingStep,
             RxStopBitStep, RxCompleteStep DEF RxStep
-----------------------------------------------------------------------------
(* Types. *)
LEMMA TxTypes ==
  ASSUME TxTypeOK, tx_inc \in TxRates,
         TxBusy \/ TxIdle \/ \E b \in Payload : TxLatch(b)
  PROVE  TxTypeOK'
  <1>1. tx_inc \in Nat
    BY Rates
  <1>2. TxFree => tx_counter' \in 0..2^17 - 1
    <2>1. tx_counter \in Nat
      BY DEF TxTypeOK
    <2>2. tx_counter + tx_inc \in Nat
      BY <1>1, <2>1
    <2> QED BY <2>2, Wrapping DEF TxFree
  <1>3. 0 \in 0..2^17 - 1
    BY SMT
  <1>4. [i \in 1..8 |-> 0] \in Byte /\ 0 \in Bit /\ 1 \in Bit /\ 0 \in 0..STOP_BITS /\ 1 \in 0..STOP_BITS
    BY DEF Byte, Bit, STOP_BITS
  <1>5. tx_bits \in Byte /\ tx_bits[1] \in Bit /\ Append(Tail(tx_bits), 0) \in Byte
    <2>1. tx_bits \in Byte
      BY DEF TxTypeOK
    <2>2. tx_bits[1] \in Bit
      BY <2>1 DEF Byte
    <2>3. Append(Tail(tx_bits), 0) \in Byte
      BY <1>4, <2>1, Shifted
    <2> QED BY <2>1, <2>2, <2>3
  <1>6. CASE TxReset
    BY <1>2, <1>4, <1>6 DEF TxReset, TxTypeOK
  <1>7. CASE TxIdle
    BY <1>2, <1>4, <1>7 DEF TxIdle, TxTypeOK
  <1>8. ASSUME NEW b \in Payload, TxLatch(b)
        PROVE  TxTypeOK'
    <2>1. b \in Byte
      BY LinkAssumption
    <2> QED BY <1>3, <1>4, <1>8, <2>1 DEF TxLatch, TxTypeOK
  <1>9. CASE TxStartBit
    BY <1>2, <1>3, <1>5, <1>9 DEF TxStartBit, TxTypeOK
  <1>10. CASE TxSending
    <2>1. tx_bitCnt \in 0..7 /\ (tx_bitCnt > 0 => tx_bitCnt - 1 \in 0..7)
      BY DEF TxTypeOK
    <2>2. tx_state' \in {"TxSending", "TxStopBit"} /\ tx_bits' \in Byte /\ tx_out' \in Bit
      BY <1>4, <1>5, <1>10 DEF TxSending
    <2>3. tx_counter' \in 0..2^17 - 1 /\ tx_complete' \in BOOLEAN /\ stop_bits' \in 0..STOP_BITS
      BY <1>2, <1>3, <1>4, <1>10 DEF TxSending, TxTypeOK, STOP_BITS
    <2>4. tx_bitCnt' \in 0..7
      BY <1>10, <2>1 DEF TxSending
    <2> QED BY <2>2, <2>3, <2>4 DEF TxTypeOK
  <1>11. CASE TxStopBit
    <2>1. stop_bits \in 0..STOP_BITS /\ (stop_bits > 0 => stop_bits - 1 \in 0..STOP_BITS)
      BY DEF TxTypeOK, STOP_BITS
    <2>2. tx_state' \in {"TxStopBit", "TxComplete"} /\ tx_bits' \in Byte /\ tx_out' \in Bit
      BY <1>5, <1>11 DEF TxStopBit, TxTypeOK
    <2>3. tx_complete' \in BOOLEAN
      BY <1>11 DEF TxStopBit, TxTypeOK
    <2>4. tx_counter' \in 0..2^17 - 1 /\ stop_bits' \in 0..STOP_BITS
      BY <1>2, <1>3, <1>11, <2>1 DEF TxStopBit
    <2>5. tx_bitCnt' \in 0..7
      BY <1>11 DEF TxStopBit, TxTypeOK
    <2> QED BY <2>2, <2>3, <2>4, <2>5 DEF TxTypeOK
  <1>12. CASE TxComplete
    BY <1>2, <1>12 DEF TxComplete, TxTypeOK
  <1> QED BY <1>6, <1>7, <1>8, <1>9, <1>10, <1>11, <1>12 DEF TxBusy

LEMMA RxTypes ==
  ASSUME RxTypeOK, tx_out \in Bit, Receiver
  PROVE  RxTypeOK'
  <1> DEFINE States == {"RxReset", "RxIdle", "RxStartBit", "RxHalfBit", "RxReceiving",
                        "RxStopBit", "RxComplete"}
  <1>1. \A next \in States : Goto(next) => rx_state' \in States
    BY DEF Goto
  <1>2. Stay => rx_state' \in States
    BY <1>1 DEF Stay, RxTypeOK
  <1>3. RxFree => rx_counter' \in 0..2^17 - 1
    <2>1. rx_counter \in Nat /\ RX_INC \in Nat
      BY Lengths DEF RxTypeOK
    <2>2. rx_counter + RX_INC \in Nat
      BY <2>1
    <2> QED BY <2>2, Wrapping DEF RxFree
  <1>4. 0 \in 0..2^17 - 1
    BY SMT
  <1>5. Sampled \in RxWord /\ NoBits \in RxWord
    BY SampledWord DEF RxWord, Byte, Bit, NoBits
  <1>6. bit' \in [1..3 -> 0..1]
    <2>1. bit' = <<tx_out, bit[1], bit[2]>>
      BY DEF Receiver, CDCSynchron
    <2>2. tx_out \in 0..1 /\ bit[1] \in 0..1 /\ bit[2] \in 0..1
      BY DEF RxTypeOK, Bit
    <2> QED BY <2>1, <2>2
  <1>7. rx_bitCnt \in 0..7 /\ (rx_bitCnt > 0 => rx_bitCnt - 1 \in 0..7)
    BY DEF RxTypeOK
  <1>8. rx_bits \in RxWord /\ rx_byte \in RxWord /\ rx_complete \in BOOLEAN
    BY DEF RxTypeOK
  <1> DEFINE Types == /\ rx_state' \in States /\ rx_counter' \in 0..2^17 - 1
                      /\ rx_bitCnt' \in 0..7 /\ rx_bits' \in RxWord /\ rx_byte' \in RxWord
                      /\ rx_complete' \in BOOLEAN
  <1>9. ASSUME RxReset PROVE Types
    BY <1>1, <1>4, <1>5, <1>7, <1>9 DEF RxReset
  <1>10. ASSUME RxIdle PROVE Types
    BY <1>1, <1>2, <1>3, <1>4, <1>5, <1>7, <1>8, <1>10 DEF RxIdle
  <1>11. ASSUME RxStartBit PROVE Types
    BY <1>1, <1>2, <1>3, <1>4, <1>7, <1>8, <1>11 DEF RxStartBit
  <1>12. ASSUME RxHalfBit PROVE Types
    BY <1>1, <1>2, <1>3, <1>4, <1>5, <1>7, <1>8, <1>12 DEF RxHalfBit
  <1>13. ASSUME RxReceiving PROVE Types
    BY <1>1, <1>2, <1>3, <1>4, <1>5, <1>7, <1>8, <1>13 DEF RxReceiving
  <1>14. ASSUME RxStopBit PROVE Types
    <2>1. rx_byte' \in RxWord /\ rx_bits' \in RxWord
      BY <1>8, <1>14 DEF RxStopBit
    <2>2. rx_complete' \in BOOLEAN
      BY <1>8, <1>14 DEF RxStopBit
    <2>3. rx_state' \in States
      BY <1>1, <1>2, <1>14 DEF RxStopBit
    <2>4. rx_counter' \in 0..2^17 - 1 /\ rx_bitCnt' \in 0..7
      BY <1>3, <1>4, <1>7, <1>14 DEF RxStopBit
    <2> QED BY <2>1, <2>2, <2>3, <2>4
  <1>15. ASSUME RxComplete PROVE Types
    BY <1>1, <1>3, <1>7, <1>8, <1>15 DEF RxComplete
  <1>16. Types
    BY <1>9, <1>10, <1>11, <1>12, <1>13, <1>14, <1>15 DEF Receiver, RxStep
  <1> QED BY <1>6, <1>16 DEF RxTypeOK
-----------------------------------------------------------------------------
(* The invariant. While a byte is on the line the three parts agree on how long it
   has been; otherwise the receiver waits, and the synchroniser holds as much of
   the idle line as the clocks since power-up have let through. *)
Together(n) ==
  /\ TxAt(n) /\ RxAt(n)
  /\ LevelIs(BitTime, line, n, tx_out)
  /\ LevelIs(BitTime, line, n - 1, bit[1])
  /\ LevelIs(BitTime, line, n - 2, bit[2])
  /\ n >= 1 => LevelIs(BitTime, line, n - 3, bit[3])

Busy ==
  /\ line \in Byte /\ quiet = Settle /\ reset = 1
  /\ \E n \in Nat : Together(n)

Quiet ==
  /\ line = NoByte
  /\ tx_state = "TxReset" <=> quiet = -PowerUp
  /\ quiet < 0 => reset = 0
  /\ rx_state = "RxReset" \/ (rx_state = "RxIdle" /\ (quiet < 0 => tx_state = "TxReset"))
  /\ quiet + PowerUp >= 2 => tx_out = 1
  /\ quiet + PowerUp >= 3 => bit[1] = 1
  /\ quiet + PowerUp >= 4 => bit[2] = 1

LinkInv ==
  /\ LinkTypeOK
  /\ tx_state \in {"TxReset", "TxIdle"} => Quiet
  /\ tx_state \notin {"TxReset", "TxIdle"} => Busy

LEMMA LinkStarts ==
  ASSUME LinkInit
  PROVE  LinkInv
  <1>1. PowerUp \in Nat /\ PowerUp >= 4 /\ Settle \in Nat /\ MaxIdle \in Nat
    BY LinkAssumption, BaudAssumption
  <1>2. 0 \in 0..2^17 - 1
    BY SMT
  <1>3. TxTypeOK
    BY <1>2 DEF LinkInit, TxInit, TxTypeOK, Byte, Bit, STOP_BITS
  <1>4. RxTypeOK
    BY <1>2 DEF LinkInit, RxInit, RxTypeOK, RxWord, NoBits
  <1>5. LinkTypeOK
    <2>1. tx_inc \in TxRates /\ line = NoByte /\ got = NoByte /\ taken = FALSE
      BY DEF LinkInit
    <2>2. reset \in Bit /\ quiet \in (-PowerUp)..Settle /\ idle \in 0..MaxIdle
      BY <1>1 DEF LinkInit, Bit
    <2> QED BY <1>3, <1>4, <2>1, <2>2 DEF LinkTypeOK
  <1>6. Quiet
    BY <1>1 DEF LinkInit, TxInit, RxInit, Quiet
  <1>7. tx_state = "TxReset"
    BY DEF LinkInit, TxInit
  <1> QED BY <1>5, <1>6, <1>7 DEF LinkInv

LEMMA ResetPinMoves ==
  ASSUME LinkTypeOK, ResetPin
  PROVE  /\ reset' \in Bit /\ quiet' \in (-PowerUp)..Settle /\ quiet' # -PowerUp
         /\ quiet' < 0 => reset' = 0 /\ quiet < 0
         /\ quiet' <= quiet + 1 \/ quiet = Settle
         /\ quiet = Settle /\ tx_state # "TxIdle" => quiet' = Settle /\ reset' = 1
         /\ quiet < -1 => reset' = 0 /\ quiet' = quiet + 1
  <1>1. PowerUp \in Nat /\ PowerUp >= 4 /\ Settle \in Nat /\ quiet \in (-PowerUp)..Settle
    BY LinkAssumption, BaudAssumption DEF LinkTypeOK
  <1>2. CASE quiet < -1 /\ reset' = 0 /\ quiet' = quiet + 1
    BY <1>1, <1>2 DEF Bit
  <1>3. CASE quiet >= -1 /\ reset' = 1 /\ quiet' = IF quiet < Settle THEN quiet + 1 ELSE Settle
    BY <1>1, <1>3 DEF Bit
  <1>4. CASE quiet = Settle /\ tx_state = "TxIdle" /\ reset' = 0 /\ quiet' = 0
    BY <1>1, <1>4 DEF Bit
  <1> QED BY <1>2, <1>3, <1>4 DEF ResetPin

LEMMA LinkTypesKept ==
  ASSUME LinkTypeOK, LinkNext
  PROVE  LinkTypeOK'
  <1>1. /\ TxTypeOK /\ RxTypeOK /\ tx_inc \in TxRates /\ tx_inc' = tx_inc /\ tx_out \in Bit
        /\ idle \in 0..MaxIdle /\ MaxIdle \in Nat /\ Payload \subseteq Byte
        /\ got \in Byte \cup {NoByte} /\ taken \in BOOLEAN /\ line \in Byte \cup {NoByte}
    BY LinkAssumption DEF LinkTypeOK, LinkNext, TxTypeOK
  <1>2. TxTypeOK'
    <2>1. TxBusy \/ TxIdle \/ \E b \in Payload : TxLatch(b)
      BY DEF LinkNext, LinkSend, LinkIdle, LinkBusy
    <2> QED BY <1>1, <2>1, TxTypes
  <1>3. RxTypeOK'
    <2>1. Receiver
      BY DEF LinkNext, LinkSend, LinkIdle, LinkBusy
    <2> QED BY <1>1, <2>1, RxTypes
  <1>4. Receive => taken' \in BOOLEAN /\ got' \in Byte \cup {NoByte}
    BY <1>1 DEF Receive, RxTypeOK, RxWord, Byte, Bit
  <1>5. CASE LinkSend
    <2>1. /\ reset' \in Bit /\ quiet' = quiet /\ idle' \in 0..MaxIdle /\ line' \in Byte
          /\ got' = got /\ taken' = FALSE
      BY <1>1, <1>5 DEF LinkSend, Bit
    <2> QED BY <1>1, <1>2, <1>3, <2>1 DEF LinkTypeOK
  <1>6. CASE LinkIdle
    <2>1. reset' \in Bit /\ quiet' \in (-PowerUp)..Settle
      BY <1>6, ResetPinMoves DEF LinkIdle
    <2>2. idle' \in 0..MaxIdle /\ line' = line
      BY <1>1, <1>6 DEF LinkIdle
    <2>3. taken' \in BOOLEAN /\ got' \in Byte \cup {NoByte}
      BY <1>4, <1>6 DEF LinkIdle
    <2> QED BY <1>1, <1>2, <1>3, <2>1, <2>2, <2>3 DEF LinkTypeOK
  <1>7. CASE LinkBusy
    <2>1. reset' \in Bit /\ quiet' \in (-PowerUp)..Settle
      BY <1>7, ResetPinMoves DEF LinkBusy
    <2>2. idle' = idle /\ line' \in Byte \cup {NoByte}
      BY <1>1, <1>7 DEF LinkBusy
    <2>3. taken' \in BOOLEAN /\ got' \in Byte \cup {NoByte}
      BY <1>4, <1>7 DEF LinkBusy
    <2> QED BY <1>1, <1>2, <1>3, <2>1, <2>2, <2>3 DEF LinkTypeOK
  <1> QED BY <1>5, <1>6, <1>7 DEF LinkNext

\* What the receiver does with a quiet line.
LEMMA RxWaits ==
  ASSUME LinkTypeOK, Quiet, Receiver
  PROVE  /\ rx_state # "RxComplete"
         /\ reset = 0 => rx_state' = "RxReset"
         /\ reset = 1 /\ quiet >= 0 => rx_state' = "RxIdle"
         /\ quiet >= 0 => rx_state' \in {"RxReset", "RxIdle"}
         /\ bit'[1] = tx_out /\ bit'[2] = bit[1]
  <1>1. rx_state \in {"RxReset", "RxIdle"} /\ (RxReset \/ RxIdle)
    <2>1. rx_state \in {"RxReset", "RxIdle"}
      BY DEF Quiet
    <2> QED BY <2>1 DEF Receiver, RxStep, RxStartBit, RxHalfBit, RxReceiving, RxStopBit, RxComplete
  <1>2. bit'[1] = tx_out /\ bit'[2] = bit[1]
    <2>1. bit' = <<tx_out, bit[1], bit[2]>>
      BY DEF Receiver, CDCSynchron
    <2> QED BY <2>1
  <1>3. ASSUME reset = 0 PROVE rx_state' = "RxReset"
    BY <1>1, <1>3 DEF RxReset, RxIdle, Goto, Stay
  <1>4. ASSUME quiet >= 0, reset = 1 PROVE rx_state' = "RxIdle"
    <2>1. bit[2] = 1
      <3>1. quiet + PowerUp >= 4
        <4>1. PowerUp \in Nat /\ PowerUp >= 4 /\ Settle \in Nat
          BY LinkAssumption, BaudAssumption
        <4>2. quiet \in (-PowerUp)..Settle
          BY DEF LinkTypeOK
        <4> QED BY <1>4, <4>1, <4>2
      <3> QED BY <3>1 DEF Quiet
    <2> QED BY <1>1, <1>4, <2>1 DEF RxReset, RxIdle, Goto, Stay, Rx_fallingedge
  <1>5. reset = 0 \/ reset = 1
    BY DEF LinkTypeOK, Bit
  <1> QED BY <1>1, <1>2, <1>3, <1>4, <1>5

\* The bytes on the line, as the channel sees them.
chanVars == Channel!vars

LEMMA LinkSends ==
  ASSUME LinkInv, LinkSend, tx_inc' = tx_inc
  PROVE  tx_state' \notin {"TxReset", "TxIdle"} /\ Busy' /\ Channel!Send
  <1> DEFINE P == BitTime
  <1>1. LinkTypeOK /\ tx_state = "TxIdle" /\ Quiet /\ Receiver
    BY DEF LinkInv, LinkSend, TxLatch
  <1>2. PICK b \in Payload : TxLatch(b) /\ line' = b
    BY DEF LinkSend
  <1>3. /\ quiet = Settle /\ reset = 1 /\ quiet' = quiet /\ reset' = 1
        /\ taken' = FALSE /\ got' = got
    BY DEF LinkSend
  <1>4. b \in Byte /\ Settle \in Nat /\ PowerUp \in Nat /\ PowerUp >= 4
    BY LinkAssumption, BaudAssumption
  <1>5. P \in Nat /\ P >= 2 /\ P' = P /\ tx_inc \in Nat
    BY <1>1, Rates DEF BitTime, LinkTypeOK
  <1>6. tx_out = 1 /\ bit[1] = 1
    <2>1. quiet + PowerUp >= 2 /\ quiet + PowerUp >= 3
      BY <1>3, <1>4
    <2> QED BY <1>1, <2>1 DEF Quiet
  <1>7. rx_state' = "RxIdle" /\ bit'[1] = 1 /\ bit'[2] = 1
    BY <1>1, <1>3, <1>4, <1>6, RxWaits
  <1>8. tx_state' = "TxStartBit" /\ tx_counter' = 0 /\ tx_bits' = b /\ tx_out' = 0
    BY <1>2 DEF TxLatch
  <1>9. TxAt(0)'
    <2>1. 0 < P' /\ tx_counter' = 0 * tx_inc'
      BY <1>5, <1>8
    <2> QED BY <1>2, <1>8, <2>1 DEF TxAt
  <1>10. RxAt(0)'
    BY <1>3, <1>7 DEF RxAt
  <1>11. /\ LevelIs(P, line', 0, tx_out') /\ LevelIs(P, line', 0 - 1, bit'[1])
         /\ LevelIs(P, line', 0 - 2, bit'[2])
    <2> HIDE DEF P
    <2> QED BY <1>5, <1>7, <1>8, LevelAtEnds
  <1>12. Together(0)'
    BY <1>5, <1>9, <1>10, <1>11 DEF Together
  <1>13. Busy'
    BY <1>2, <1>3, <1>4, <1>12 DEF Busy
  <1>14. Channel!Send
    BY <1>1, <1>2, <1>3 DEF Channel!Send, Quiet
  <1> QED BY <1>8, <1>13, <1>14

\* A clock in which the line stays quiet.
LEMMA LinkWaits ==
  ASSUME LinkInv, LinkIdle \/ (LinkBusy /\ TxReset)
  PROVE  tx_state' = "TxIdle" /\ Quiet' /\ UNCHANGED chanVars
  <1>1. /\ LinkTypeOK /\ Quiet /\ Receiver /\ ResetPin /\ Receive /\ line' = line
        /\ tx_state \in {"TxReset", "TxIdle"} /\ tx_state' = "TxIdle"
    BY DEF LinkInv, LinkIdle, LinkBusy, TxIdle, TxReset
  <1>2. /\ PowerUp \in Nat /\ PowerUp >= 4 /\ Settle \in Nat /\ quiet \in (-PowerUp)..Settle
        /\ reset \in 0..1
    BY <1>1, LinkAssumption, BaudAssumption DEF LinkTypeOK, Bit
  <1>3. /\ quiet' \in (-PowerUp)..Settle /\ quiet' # -PowerUp
        /\ quiet' < 0 => reset' = 0 /\ quiet < 0
        /\ quiet' <= quiet + 1 \/ quiet = Settle
        /\ quiet \in Int /\ quiet' \in Int
    BY <1>1, <1>2, ResetPinMoves
  <1>a. PICK q \in Int, r \in Int : q = quiet /\ r = quiet'
    BY <1>3
  <1>b. PICK m \in Int, k \in Int :
          m = quiet + PowerUp /\ k = quiet' + PowerUp /\ (k <= m + 1 \/ m >= 4)
    <2>1. (r <= q + 1 \/ q = Settle) /\ PowerUp \in Nat /\ PowerUp >= 4 /\ Settle \in Nat
      BY <1>2, <1>3, <1>a
    <2>2. r + PowerUp <= q + PowerUp + 1 \/ q + PowerUp >= 4
      <3>1. q \in Int /\ r \in Int
        BY <1>a
      <3> QED BY <2>1, <3>1
    <2>3. q + PowerUp \in Int /\ r + PowerUp \in Int
      BY <2>1
    <2> QED BY <1>a, <2>2, <2>3
  <1>4. /\ rx_state # "RxComplete"
        /\ reset = 0 => rx_state' = "RxReset"
        /\ quiet >= 0 => rx_state' \in {"RxReset", "RxIdle"}
        /\ bit'[1] = tx_out /\ bit'[2] = bit[1]
    BY <1>1, RxWaits
  <1>5. line' = NoByte /\ taken' = taken /\ got' = got
    BY <1>1, <1>4 DEF Quiet, Receive
  <1>6. rx_state' = "RxReset" \/ (rx_state' = "RxIdle" /\ ~(quiet' < 0))
    <2>1. CASE quiet < 0
      BY <1>1, <1>4, <2>1 DEF Quiet
    <2>2. CASE quiet >= 0
      BY <1>2, <1>3, <1>4, <2>2
    <2> QED BY <1>2, <2>1, <2>2
  <1>7. quiet' + PowerUp >= 2 => tx_out' = 1
    <2>1. CASE tx_state = "TxIdle"
      BY <2>1 DEF LinkIdle, LinkBusy, TxIdle, TxReset
    <2>2. CASE tx_state = "TxReset"
      <3>1. quiet = -PowerUp
        BY <1>1, <2>2 DEF Quiet
      <3>2. quiet + PowerUp = 0
        BY <1>2, <3>1
      <3> QED BY <1>b, <3>2
    <2> QED BY <1>1, <2>1, <2>2
  <1>8. quiet' + PowerUp >= 3 => bit'[1] = 1
    <2>1. quiet' + PowerUp >= 3 => quiet + PowerUp >= 2
      BY <1>b
    <2> QED BY <1>1, <1>4, <2>1 DEF Quiet
  <1>9. quiet' + PowerUp >= 4 => bit'[2] = 1
    <2>1. quiet' + PowerUp >= 4 => quiet + PowerUp >= 3
      BY <1>b
    <2> QED BY <1>1, <1>4, <2>1 DEF Quiet
  <1>10. Quiet'
    BY <1>1, <1>3, <1>5, <1>6, <1>7, <1>8, <1>9 DEF Quiet
  <1> QED BY <1>1, <1>5, <1>10 DEF chanVars, Channel!vars

\* The state of a byte that is being carried, and what the channel's words are for it.
LEMMA LinkCarries ==
  ASSUME LinkInv, LinkBusy, tx_inc' = tx_inc, TxStartBit \/ TxSending \/ TxStopBit
  PROVE  /\ tx_state' \notin {"TxReset", "TxIdle"} /\ Busy'
         /\ Channel!Take \/ UNCHANGED chanVars
  <1> DEFINE P == BitTime
  <1>1. /\ LinkTypeOK /\ Busy /\ Receiver /\ ResetPin /\ Receive /\ line' = line
        /\ tx_state \in {"TxStartBit", "TxSending", "TxStopBit"}
    BY DEF LinkInv, LinkBusy, TxStartBit, TxSending, TxStopBit
  <1>2. /\ line \in Byte /\ quiet = Settle /\ reset = 1 /\ TxTypeOK /\ RxTypeOK
        /\ tx_inc \in TxRates
    BY <1>1 DEF Busy, LinkTypeOK
  <1>3. PICK n \in Nat : Together(n)
    BY <1>1 DEF Busy
  <1>4. quiet' = Settle /\ reset' = 1
    BY <1>1, <1>2, ResetPinMoves
  <1>5. TxRuns(n)
    BY <1>1, <1>2, <1>3 DEF TxRuns, Together
  <1>6. (TxAt(n + 1))' /\ LevelIs(P, line, n + 1, tx_out')
    BY <1>5, StartBitStep, SendingStep, StopBitStep DEF TxAtNext
  <1>7. RxRuns(n)
    BY <1>1, <1>2, <1>3 DEF RxRuns, Together
  <1>8. (RxAt(n + 1))'
    BY <1>1, <1>7, RxAtNext DEF Receiver
  <1>9. bit'[1] = tx_out /\ bit'[2] = bit[1] /\ bit'[3] = bit[2]
    <2>1. bit' = <<tx_out, bit[1], bit[2]>>
      BY <1>1 DEF Receiver, CDCSynchron
    <2> QED BY <2>1
  <1>10. /\ LevelIs(P, line, n, tx_out) /\ LevelIs(P, line, n - 1, bit[1])
         /\ LevelIs(P, line, n - 2, bit[2])
    BY <1>3 DEF Together
  <1>11. P' = P
    BY DEF BitTime
  <1>12. (n + 1) - 1 = n /\ (n + 1) - 2 = n - 1 /\ (n + 1) - 3 = n - 2 /\ n + 1 \in Nat
    BY <1>3
  <1>13. PICK k \in Nat : k = n + 1
    BY <1>12
  <1>14. Together(k)'
    <2> HIDE DEF P
    <2>1. LevelIs(P, line, k - 1, bit'[1]) /\ LevelIs(P, line, k - 2, bit'[2])
          /\ LevelIs(P, line, k - 3, bit'[3])
      BY <1>9, <1>10, <1>12, <1>13
    <2>2. TxAt(k)' /\ RxAt(k)' /\ LevelIs(P, line, k, tx_out')
      BY <1>6, <1>8, <1>13
    <2> QED BY <1>1, <1>11, <2>1, <2>2 DEF Together, P
  <1>15. Busy'
    BY <1>1, <1>2, <1>4, <1>14 DEF Busy
  <1>16. tx_state' \notin {"TxReset", "TxIdle"}
    BY <1>6 DEF TxAt
  <1>17. Channel!Take \/ UNCHANGED chanVars
    <2>1. CASE rx_state = "RxComplete"
      <3>1. ~taken /\ rx_byte = line
        BY <1>3, <2>1 DEF Together, RxAt
      <3>2. line # NoByte
        BY <1>2, LinkAssumption
      <3> QED BY <1>1, <2>1, <3>1, <3>2 DEF Receive, Channel!Take
    <2>2. CASE rx_state # "RxComplete"
      BY <1>1, <2>2 DEF Receive, chanVars, Channel!vars
    <2> QED BY <2>1, <2>2
  <1> QED BY <1>15, <1>16, <1>17

\* The end of a byte: the receiver has had it, and has come back to wait.
LEMMA LinkFinishes ==
  ASSUME LinkInv, LinkBusy, tx_inc' = tx_inc, TxComplete
  PROVE  tx_state' = "TxIdle" /\ Quiet' /\ Channel!Finish
  <1> DEFINE P == BitTime
  <1>1. /\ LinkTypeOK /\ Busy /\ Receiver /\ ResetPin /\ Receive /\ line' = NoByte
        /\ tx_state = "TxComplete" /\ tx_state' = "TxIdle" /\ tx_out' = tx_out
    BY DEF LinkInv, LinkBusy, TxComplete
  <1>2. /\ line \in Byte /\ quiet = Settle /\ reset = 1 /\ RxTypeOK /\ tx_inc \in TxRates
        /\ taken \in BOOLEAN
    BY <1>1 DEF Busy, LinkTypeOK
  <1>3. PICK n \in Nat : Together(n)
    BY <1>1 DEF Busy
  <1>4. quiet' = Settle /\ reset' = 1
    BY <1>1, <1>2, ResetPinMoves
  <1>5. /\ P \in Nat /\ P >= 2 /\ RxHalf + 9 * RxBit + RxQuarter + 4 <= 10 * P
        /\ RxHalf \in Nat /\ RxBit \in Nat /\ RxQuarter \in Nat /\ RxHalf <= RxBit
    BY <1>2, Rates, Lengths DEF BitTime
  <1>6. n = 10 * P + 1
    BY <1>1, <1>3 DEF Together, TxAt
  <1>7. n > RxDone
    BY <1>5, <1>6 DEF RxDone
  <1>8. rx_state = "RxIdle" /\ taken
    <2>1. RxAt(n)
      BY <1>3 DEF Together
    <2>2. ~(n <= 2) /\ n # RxDone
      BY <1>5, <1>6, <1>7
    <2>3. \A d \in 0..RxHalf - 1 : n # 3 + d
      BY <1>5, <1>7 DEF RxDone
    <2>4. \A d \in 0..RxBit - 1 : n # 3 + RxHalf + d
      BY <1>5, <1>7 DEF RxDone
    <2>5. \A d \in 0..RxBit - 1 : n # 3 + RxHalf + (8 - rx_bitCnt) * RxBit + d
      <3> TAKE d \in 0..RxBit - 1
      <3>1. PICK i \in 0..8 : i = 8 - rx_bitCnt
        BY <1>2 DEF RxTypeOK
      <3>2. i * RxBit \in Nat /\ i * RxBit <= 8 * RxBit
        BY <1>5
      <3>3. n # 3 + RxHalf + i * RxBit + d
        BY <1>5, <1>7, <3>2 DEF RxDone
      <3> QED BY <3>1, <3>3
    <2>6. \A d \in 0..RxQuarter : n # 3 + RxHalf + 9 * RxBit + d
      BY <1>5, <1>7 DEF RxDone
    <2> QED BY <2>1, <2>2, <2>3, <2>4, <2>5, <2>6 DEF RxAt
  <1>9. rx_state' = "RxIdle"
    <2>1. bit[2] = 1
      <3>1. n - 2 >= 9 * P
        BY <1>5, <1>7, <1>2, Rates, StopShows DEF RxDone, BitTime
      <3> QED BY <1>3, <3>1 DEF Together, LevelIs
    <2>2. RxIdle
      BY <1>1, <1>8 DEF Receiver, RxStep, RxReset, RxIdle, RxStartBit, RxHalfBit, RxReceiving,
                        RxStopBit, RxComplete
    <2> QED BY <1>2, <2>1, <2>2 DEF RxIdle, Rx_fallingedge, Stay, Goto
  <1>10. tx_out' = 1 /\ bit'[1] = 1 /\ bit'[2] = 1
    <2>1. bit' = <<tx_out, bit[1], bit[2]>>
      BY <1>1 DEF Receiver, CDCSynchron
    <2>2. n >= 9 * P /\ n - 1 >= 9 * P
      BY <1>5, <1>6
    <2>3. tx_out = 1 /\ bit[1] = 1
      BY <1>3, <2>2 DEF Together, LevelIs
    <2> QED BY <1>1, <2>1, <2>3
  <1>11. Quiet'
    <2>1. PowerUp \in Nat /\ PowerUp >= 4 /\ Settle \in Nat
      BY LinkAssumption, BaudAssumption
    <2>2. quiet' # -PowerUp /\ ~(quiet' < 0)
      BY <1>4, <2>1
    <2> QED BY <1>1, <1>9, <1>10, <2>2 DEF Quiet
  <1>12. Channel!Finish
    <2>1. line # NoByte
      BY <1>2, LinkAssumption
    <2> QED BY <1>1, <1>8, <2>1 DEF Receive, Channel!Finish
  <1> QED BY <1>1, <1>11, <1>12

LEMMA LinkStep ==
  ASSUME LinkInv, [LinkNext]_linkVars
  PROVE  LinkInv' /\ [Channel!Next]_chanVars
  <1>1. CASE LinkNext
    <2>1. LinkTypeOK' /\ tx_inc' = tx_inc
      BY <1>1, LinkTypesKept DEF LinkInv, LinkNext
    <2>2. CASE LinkSend
      BY <2>1, <2>2, LinkSends DEF LinkInv, Channel!Next
    <2>3. CASE LinkIdle \/ (LinkBusy /\ TxReset)
      BY <2>1, <2>3, LinkWaits DEF LinkInv
    <2>4. CASE LinkBusy /\ (TxStartBit \/ TxSending \/ TxStopBit)
      BY <2>1, <2>4, LinkCarries DEF LinkInv, Channel!Next
    <2>5. CASE LinkBusy /\ TxComplete
      BY <2>1, <2>5, LinkFinishes DEF LinkInv, Channel!Next
    <2> QED BY <1>1, <2>2, <2>3, <2>4, <2>5 DEF LinkNext, LinkBusy, TxBusy
  <1>2. CASE UNCHANGED linkVars
    <2>1. /\ UNCHANGED <<tx_inc, tx_state, tx_counter, tx_bitCnt, tx_bits, stop_bits, tx_out, tx_complete>>
          /\ UNCHANGED <<rx_state, rx_counter, rx_bitCnt, rx_bits, rx_byte, rx_complete, bit>>
          /\ UNCHANGED <<reset, quiet, idle, line, taken, got>>
      BY <1>2 DEF linkVars, txVars, rxVars, envVars, history
    <2>2. UNCHANGED chanVars
      BY <2>1 DEF chanVars, Channel!vars
    <2>3. LinkTypeOK'
      BY <2>1 DEF LinkInv, LinkTypeOK, TxTypeOK, RxTypeOK
    <2>4. Quiet' <=> Quiet
      BY <2>1 DEF Quiet
    <2>5. ASSUME Busy PROVE Busy'
      <3>1. PICK n \in Nat : Together(n)
        BY <2>5 DEF Busy
      <3>2. Together(n)'
        BY <2>1, <3>1 DEF Together, TxAt, RxAt, BitTime
      <3> QED BY <2>1, <2>5, <3>2 DEF Busy
    <2> QED BY <2>1, <2>2, <2>3, <2>4, <2>5 DEF LinkInv
  <1> QED BY <1>1, <1>2

LEMMA LinkInvariant == LinkSpec => []LinkInv
  BY LinkStarts, LinkStep, PTL DEF LinkSpec

(* Whatever is sent, whenever and at whatever rate of the two BaudAssumption allows,
   the counters, shift registers and states of the two sides keep to their widths
   (UARTTx.sv, UARTRx.sv). *)
THEOREM LinkTypes == LinkSpec => []LinkTypeOK
  <1>1. LinkInv => LinkTypeOK
    BY DEF LinkInv
  <1> QED BY <1>1, LinkInvariant, PTL

(* Every byte latched by UARTTx is handed over by UARTRx once, as it was sent, and
   before the transmitter reports it complete: the link's steps are the channel's,
   for every payload, for any two clocks that drift apart by less than
   BaudAssumption says, and however soon the next start bit follows. *)
THEOREM BytesAreCarried == LinkSpec => Channel!Init /\ [][Channel!Next]_(Channel!vars)
  <1>1. LinkInit => Channel!Init
    BY DEF LinkInit, Channel!Init
  <1>2. LinkInv /\ [LinkNext]_linkVars => [Channel!Next]_(Channel!vars)
    BY LinkStep DEF chanVars
  <1> QED BY <1>1, <1>2, LinkInvariant, PTL DEF LinkSpec
-----------------------------------------------------------------------------
(* The timing. What the users of the two ends are told of a byte (UARTTiming) is a
   function of its number of clocks; of two rates, one is the sender's. *)
CONSTANT Rate

OnLine == tx_state \in {"TxStartBit", "TxSending", "TxStopBit"}
Age    == CHOOSE n \in Nat : TxAt(n)

Timing == INSTANCE UARTTiming WITH
  TxClocks    <- 10 * TxBit(Rate),
  TailClocks  <- 10 * TxBit(Rate) - RxDone,
  RxClocks    <- RxDone,
  tx_state    <- IF OnLine THEN "Sending" ELSE tx_state,
  tx_left     <- IF OnLine THEN 10 * TxBit(Rate) - Age ELSE 0,
  tx_taken    <- taken,
  sending     <- IF line = NoByte THEN got ELSE line,
  rx_left     <- IF OnLine /\ Age < RxDone THEN RxDone - Age ELSE 0,
  rx_complete <- rx_state = "RxComplete"

LEMMA SameCount ==
  ASSUME NEW i \in Nat, i >= 1, NEW c \in Nat, NEW d \in Nat, c * i = d * i
  PROVE  c = d
  <1>1. ASSUME NEW a \in Nat, NEW b \in Nat, a < b PROVE a * i < b * i
    <2>1. a + 1 <= b /\ (a + 1) * i = a * i + i /\ a * i \in Nat /\ b * i \in Nat
      BY <1>1
    <2>2. (a + 1) * i <= b * i
      BY <2>1
    <2> QED BY <2>1, <2>2
  <1>2. c * i \in Nat /\ d * i \in Nat
    OBVIOUS
  <1> QED BY <1>1, <1>2

\* The number of the clock is a function of the transmitter's state.
LEMMA AgeOfByte ==
  ASSUME LinkTypeOK, NEW n \in Nat, TxAt(n)
  PROVE  /\ Age = n
         /\ OnLine => n <= 10 * BitTime
         /\ ~OnLine => tx_state = "TxComplete" /\ n = 10 * BitTime + 1
  <1> DEFINE P == BitTime
  <1>1. P \in Nat /\ P >= 2 /\ tx_inc \in Nat /\ tx_inc >= 1
    <2>1. tx_inc \in 1..2^16 /\ P \in Nat /\ P >= 2
      BY Rates DEF LinkTypeOK, BitTime
    <2> HIDE DEF P
    <2> QED BY <2>1, SMT
  <1>2. tx_bitCnt \in 0..7
    BY DEF LinkTypeOK, TxTypeOK
  <1>3. ASSUME NEW m \in Nat, TxAt(m) PROVE m = n
    <2>1. CASE tx_state = "TxStartBit"
      <3>1. n * tx_inc = m * tx_inc
        BY <1>3, <2>1 DEF TxAt
      <3> QED BY <1>1, <3>1, SameCount
    <2>2. CASE tx_state = "TxSending"
      <3>1. PICK c \in 0..P - 1 : n = (8 - tx_bitCnt) * P + c /\ tx_counter = c * tx_inc
        BY <2>2 DEF TxAt
      <3>2. PICK d \in 0..P - 1 : m = (8 - tx_bitCnt) * P + d /\ tx_counter = d * tx_inc
        BY <1>3, <2>2 DEF TxAt
      <3>3. c \in Nat /\ d \in Nat
        BY <1>1
      <3>4. c = d
        BY <1>1, <3>1, <3>2, <3>3, SameCount
      <3> QED BY <3>1, <3>2, <3>4
    <2>3. CASE tx_state = "TxStopBit" /\ stop_bits = 1
      <3>1. PICK c \in 0..P - 1 : n = 9 * P + c /\ tx_counter = c * tx_inc
        BY <2>3 DEF TxAt
      <3>2. PICK d \in 0..P - 1 : m = 9 * P + d /\ tx_counter = d * tx_inc
        BY <1>3, <2>3 DEF TxAt
      <3>3. c \in Nat /\ d \in Nat
        BY <1>1
      <3>4. c = d
        BY <1>1, <3>1, <3>2, <3>3, SameCount
      <3> QED BY <3>1, <3>2, <3>4
    <2>4. CASE tx_state = "TxStopBit" /\ stop_bits # 1
      BY <1>3, <2>4 DEF TxAt
    <2>5. CASE tx_state = "TxComplete"
      BY <1>3, <2>5 DEF TxAt
    <2> QED BY <2>1, <2>2, <2>3, <2>4, <2>5 DEF TxAt
  <1>4. Age = n
    <2>1. \A m \in Nat : TxAt(m) <=> m = n
      BY <1>3
    <2> QED BY <2>1 DEF Age
  <1>5. OnLine => n <= 10 * P
    <2> HIDE DEF P
    <2>1. CASE tx_state = "TxStartBit"
      <3>1. n < P
        BY <2>1 DEF TxAt, P
      <3> QED BY <1>1, <3>1
    <2>2. CASE tx_state = "TxSending"
      <3>1. PICK i \in 1..8 : i = 8 - tx_bitCnt
        BY <1>2
      <3>2. PICK c \in 0..P - 1 : n = i * P + c
        BY <2>2, <3>1 DEF TxAt, P
      <3>3. i * P <= 8 * P /\ i * P \in Nat
        BY <1>1
      <3> QED BY <1>1, <3>2, <3>3
    <2>3. CASE tx_state = "TxStopBit"
      <3>1. n = 10 * P \/ \E c \in 0..P - 1 : n = 9 * P + c
        BY <2>3 DEF TxAt, P
      <3> QED BY <1>1, <3>1
    <2> QED BY <2>1, <2>2, <2>3 DEF OnLine
  <1>6. ~OnLine => tx_state = "TxComplete" /\ n = 10 * P + 1
    BY DEF OnLine, TxAt
  <1> QED BY <1>4, <1>5, <1>6

\* The receiver's state says whether it is done.
LEMMA DoneAt ==
  ASSUME LinkTypeOK, NEW n \in Nat, RxAt(n)
  PROVE  /\ taken <=> n > RxDone
         /\ rx_state = "RxComplete" <=> n = RxDone
  <1>1. /\ RxHalf \in Nat /\ RxBit \in Nat /\ RxQuarter \in Nat /\ 2 <= RxHalf
        /\ RxHalf <= RxBit /\ rx_bitCnt \in 0..7 /\ taken \in BOOLEAN
    BY Lengths DEF LinkTypeOK, RxTypeOK
  <1>2. CASE rx_state = "RxIdle"
    BY <1>1, <1>2 DEF RxAt, RxDone
  <1>3. CASE rx_state = "RxStartBit"
    <2>1. n < RxDone
      BY <1>1, <1>3 DEF RxAt, RxDone
    <2> QED BY <1>1, <1>3, <2>1 DEF RxAt, RxDone
  <1>4. CASE rx_state = "RxHalfBit"
    <2>1. n < RxDone
      BY <1>1, <1>4 DEF RxAt, RxDone
    <2> QED BY <1>1, <1>4, <2>1 DEF RxAt, RxDone
  <1>5. CASE rx_state = "RxReceiving"
    <2>1. PICK i \in 1..8 : i = 8 - rx_bitCnt
      BY <1>1
    <2>2. PICK d \in 0..RxBit - 1 : n = 3 + RxHalf + i * RxBit + d
      BY <1>5, <2>1 DEF RxAt
    <2>3. i * RxBit <= 8 * RxBit /\ i * RxBit \in Nat
      BY <1>1
    <2>4. n < RxDone
      BY <1>1, <2>2, <2>3 DEF RxDone
    <2>5. ~taken
      BY <1>5 DEF RxAt
    <2> QED BY <1>1, <1>5, <2>4, <2>5 DEF RxDone
  <1>6. CASE rx_state = "RxStopBit"
    <2>1. n < RxDone
      BY <1>1, <1>6 DEF RxAt, RxDone
    <2> QED BY <1>1, <1>6, <2>1 DEF RxAt, RxDone
  <1>7. CASE rx_state = "RxComplete"
    BY <1>1, <1>7 DEF RxAt, RxDone
  <1> QED BY <1>2, <1>3, <1>4, <1>5, <1>6, <1>7 DEF RxAt

TxKnown == \A n \in Nat : TxAt(n) =>
  /\ Age = n
  /\ OnLine => n <= 10 * BitTime
  /\ ~OnLine => tx_state = "TxComplete" /\ n = 10 * BitTime + 1

RxKnown == \A n \in Nat : RxAt(n) =>
  /\ taken <=> n > RxDone
  /\ rx_state = "RxComplete" <=> n = RxDone

LEMMA Known == LinkTypeOK => TxKnown /\ RxKnown
  BY AgeOfByte, DoneAt DEF TxKnown, RxKnown

\* A clock of a byte, seen from both ends.
LEMMA LinkAges ==
  ASSUME LinkInv, LinkBusy, tx_inc' = tx_inc, TxStartBit \/ TxSending \/ TxStopBit
  PROVE  \E n \in Nat : TxAt(n) /\ RxAt(n) /\ (TxAt(n + 1))' /\ (RxAt(n + 1))'
  <1>1. /\ LinkTypeOK /\ Busy /\ Receiver /\ ResetPin /\ Receive /\ line' = line
        /\ tx_state \in {"TxStartBit", "TxSending", "TxStopBit"}
    BY DEF LinkInv, LinkBusy, TxStartBit, TxSending, TxStopBit
  <1>2. /\ line \in Byte /\ quiet = Settle /\ reset = 1 /\ TxTypeOK /\ RxTypeOK
        /\ tx_inc \in TxRates
    BY <1>1 DEF Busy, LinkTypeOK
  <1>3. PICK n \in Nat : Together(n)
    BY <1>1 DEF Busy
  <1>4. TxRuns(n)
    BY <1>1, <1>2, <1>3 DEF TxRuns, Together
  <1>5. (TxAt(n + 1))'
    BY <1>4, StartBitStep, SendingStep, StopBitStep DEF TxAtNext
  <1>6. RxRuns(n)
    BY <1>1, <1>2, <1>3 DEF RxRuns, Together
  <1>7. (RxAt(n + 1))'
    BY <1>1, <1>6, RxAtNext DEF Receiver
  <1> QED BY <1>3, <1>5, <1>7 DEF Together

\* What was handed over last stays what it was.
Handed == taken /\ line # NoByte => got = line

LEMMA HandedStep ==
  ASSUME Handed, LinkInv, [Channel!Next]_chanVars
  PROVE  Handed'
  <1>1. CASE Channel!Send \/ Channel!Take \/ Channel!Finish
    BY <1>1 DEF Handed, Channel!Send, Channel!Take, Channel!Finish
  <1>2. CASE UNCHANGED chanVars
    BY <1>2 DEF Handed, chanVars, Channel!vars
  <1> QED BY <1>1, <1>2 DEF Channel!Next

TimingInv == LinkInv /\ Handed /\ tx_inc = Rate

\* One clock, as the users of the two ends are told of it.
TimingNext ==
  \/ \E b \in Payload : Timing!Transmission(TRUE, b) /\ Timing!Arrival /\ rx_state' # "RxComplete"
  \/ Timing!Transmission(FALSE, NoByte) /\ Timing!Reception

LEMMA TimingSends ==
  ASSUME TimingInv, LinkSend, tx_inc' = tx_inc, LinkTypeOK'
  PROVE  TimingNext
  <1>1. PICK b \in Payload : TxLatch(b) /\ line' = b
    BY DEF LinkSend
  <1>2. /\ tx_state = "TxIdle" /\ tx_state' = "TxStartBit" /\ tx_complete' = tx_complete
        /\ tx_counter' = 0 /\ tx_bits' = line' /\ taken' = FALSE /\ line' \in Byte
        /\ line' # NoByte
    BY <1>1, LinkAssumption DEF LinkSend, TxLatch
  <1>3. BitTime' = TxBit(Rate) /\ TxBit(Rate) \in Nat /\ TxBit(Rate) >= 2 /\ tx_inc \in Nat
        /\ RxDone \in Nat /\ RxDone >= 4
    <2>1. Rate \in TxRates /\ tx_inc \in 1..2^16
      BY Rates DEF TimingInv, LinkInv, LinkTypeOK
    <2> QED BY <2>1, Rates, Lengths DEF TimingInv, BitTime, RxDone
  <1>4. TxAt(0)'
    <2>1. 0 < BitTime' /\ tx_counter' = 0 * tx_inc'
      BY <1>2, <1>3
    <2> QED BY <1>2, <2>1 DEF TxAt
  <1>5. Age' = 0
    <2>1. TxKnown'
      BY Known, PTL
    <2>2. 0 \in Nat
      OBVIOUS
    <2> QED BY <1>4, <2>1, <2>2 DEF TxKnown
  <1>6. rx_state' = "RxIdle"
    <2>1. LinkTypeOK /\ Quiet /\ Receiver /\ reset = 1 /\ quiet >= 0
      BY <1>2, LinkAssumption DEF TimingInv, LinkInv, LinkSend
    <2> QED BY <2>1, RxWaits
  <1>7. ~OnLine /\ OnLine'
    BY <1>2 DEF OnLine
  <1>8. Timing!Transmission(TRUE, b)
    BY <1>1, <1>2, <1>3, <1>5, <1>7 DEF Timing!Transmission
  <1>9. Timing!Arrival
    BY <1>3, <1>5, <1>7 DEF Timing!Arrival
  <1>10. b \in Payload
    OBVIOUS
  <1> QED BY <1>6, <1>8, <1>9, <1>10 DEF TimingNext

LEMMA TimingWaits ==
  ASSUME TimingInv, LinkIdle \/ (LinkBusy /\ TxReset)
  PROVE  TimingNext
  <1>1. /\ Quiet /\ Quiet' /\ line = NoByte /\ line' = NoByte /\ taken' = taken /\ got' = got
        /\ tx_state \in {"TxReset", "TxIdle"} /\ tx_state' = "TxIdle"
        /\ IF tx_state = "TxReset" THEN tx_complete' = FALSE ELSE tx_complete' = tx_complete
    <2>1. tx_state' = "TxIdle" /\ Quiet' /\ UNCHANGED chanVars
      BY LinkWaits DEF TimingInv
    <2>2. Quiet
      BY DEF TimingInv, LinkInv, LinkIdle, TxIdle, TxReset
    <2> QED
      BY <2>1, <2>2 DEF Quiet, chanVars, Channel!vars, LinkIdle, LinkBusy, TxIdle, TxReset
  <1>2. ~OnLine /\ ~OnLine'
    BY <1>1 DEF OnLine
  <1>3. rx_state' # "RxComplete"
    BY <1>1 DEF Quiet
  <1>4. Timing!Transmission(FALSE, NoByte)
    BY <1>1, <1>2 DEF Timing!Transmission
  <1>5. Timing!Reception
    BY <1>2, <1>3 DEF Timing!Reception
  <1> QED BY <1>4, <1>5 DEF TimingNext

LEMMA TimingCarries ==
  ASSUME TimingInv, LinkBusy, tx_inc' = tx_inc, LinkTypeOK',
         TxStartBit \/ TxSending \/ TxStopBit
  PROVE  TimingNext
  <1>1. PICK n \in Nat : TxAt(n) /\ RxAt(n) /\ (TxAt(n + 1))' /\ (RxAt(n + 1))'
    BY LinkAges DEF TimingInv
  <1>2. PICK k \in Nat : k = n + 1
    BY <1>1
  <1>3. PICK M \in Nat : M = 10 * TxBit(Rate) /\ M = 10 * BitTime /\ M = 10 * BitTime'
    <2>1. Rate \in TxRates
      BY DEF TimingInv, LinkInv, LinkTypeOK
    <2>2. TxBit(Rate) \in Nat /\ TxBit(Rate) = BitTime /\ TxBit(Rate) = BitTime'
      BY <2>1, Rates DEF TimingInv, BitTime
    <2>3. 10 * TxBit(Rate) \in Nat
      BY <2>2
    <2> QED BY <2>2, <2>3
  <1>4. RxDone \in Nat /\ RxDone >= 4 /\ RxDone <= M
    <2>1. Rate \in TxRates
      BY DEF TimingInv, LinkInv, LinkTypeOK
    <2>2. RxHalf + 9 * RxBit + RxQuarter + 4 <= M
      BY <1>3, <2>1, Rates
    <2>3. RxHalf \in Nat /\ RxBit \in Nat /\ RxQuarter \in Nat
      BY Lengths
    <2> QED BY <2>2, <2>3 DEF RxDone
  <1>5. TxKnown /\ RxKnown /\ TxKnown' /\ RxKnown'
    BY Known, PTL DEF TimingInv, LinkInv
  <1>6. OnLine /\ Age = n /\ n <= M
    <2>1. OnLine
      BY DEF OnLine, TxStartBit, TxSending, TxStopBit
    <2> QED BY <1>1, <1>3, <1>5, <2>1 DEF TxKnown
  <1>7. /\ Age' = k
        /\ OnLine' => k <= M
        /\ ~OnLine' => tx_state' = "TxComplete" /\ k = M + 1
    BY <1>1, <1>2, <1>3, <1>5 DEF TxKnown
  <1>8. (taken <=> n > RxDone) /\ (rx_state = "RxComplete" <=> n = RxDone)
    BY <1>1, <1>5 DEF RxKnown
  <1>9. (taken' <=> k > RxDone) /\ (rx_state' = "RxComplete" <=> k = RxDone)
    BY <1>1, <1>2, <1>5 DEF RxKnown
  <1>10. /\ reset = 1 /\ line' = line /\ line # NoByte
         /\ OnLine' => tx_complete' = tx_complete
         /\ ~OnLine' => tx_complete' = TRUE
    <2>1. Busy /\ line' = line
      BY DEF TimingInv, LinkInv, LinkBusy, TxStartBit, TxSending, TxStopBit
    <2> QED
      BY <2>1, LinkAssumption DEF Busy, OnLine, TxStartBit, TxSending, TxStopBit
  <1>11. OnLine' <=> n < M
    BY <1>2, <1>3, <1>6, <1>7
  <1>12. Timing!Transmission(FALSE, NoByte)
    <2>1. taken \in BOOLEAN /\ taken' \in BOOLEAN
      BY DEF TimingInv, LinkInv, LinkTypeOK
    <2>2. CASE n < M
      <3>1. M - n > 0 /\ M - k = M - n - 1
            /\ (M - n <= M - RxDone <=> n >= RxDone)
        BY <1>2, <1>4, <2>2
      <3>2. taken' = (taken \/ n >= RxDone) \/ taken' = taken
        BY <1>2, <1>4, <1>8, <1>9, <2>1
      <3> QED
        BY <1>3, <1>6, <1>7, <1>10, <1>11, <2>2, <3>1, <3>2 DEF Timing!Transmission
    <2>3. CASE n = M
      <3>1. ~OnLine' /\ tx_state' = "TxComplete" /\ tx_complete' = TRUE
        BY <1>7, <1>10, <1>11, <2>3
      <3>2. taken' = TRUE
        BY <1>2, <1>4, <1>9, <2>1, <2>3
      <3>3. (IF OnLine THEN 10 * TxBit(Rate) - Age ELSE 0) = 0
        BY <1>3, <1>6, <2>3
      <3>4. (IF OnLine' THEN 10 * TxBit(Rate) - Age' ELSE 0) = 0
        BY <3>1
      <3>5. (IF line' = NoByte THEN got' ELSE line') = (IF line = NoByte THEN got ELSE line)
        BY <1>10
      <3>6. /\ (IF OnLine THEN "Sending" ELSE tx_state) = "Sending"
            /\ (IF OnLine' THEN "Sending" ELSE tx_state') = "TxComplete"
        BY <1>6, <3>1
      <3> QED
        BY <3>1, <3>2, <3>3, <3>4, <3>5, <3>6, Zenon DEF Timing!Transmission
    <2>4. n < M \/ n = M
      <3>1. n <= M
        BY <1>6
      <3> QED BY <3>1
    <2> QED BY <2>2, <2>3, <2>4
  <1>13. Timing!Reception
    <2>1. k < RxDone => OnLine'
      BY <1>2, <1>3, <1>4, <1>11
    <2> QED
      BY <1>2, <1>3, <1>4, <1>6, <1>7, <1>9, <1>10, <2>1 DEF Timing!Reception
  <1> QED BY <1>12, <1>13 DEF TimingNext

LEMMA TimingFinishes ==
  ASSUME TimingInv, LinkBusy, tx_inc' = tx_inc, TxComplete
  PROVE  TimingNext
  <1>1. /\ Quiet' /\ line # NoByte /\ line' = NoByte /\ taken /\ taken' = taken /\ got' = got
        /\ tx_state = "TxComplete" /\ tx_state' = "TxIdle" /\ tx_complete' = FALSE
    <2>1. Quiet' /\ Channel!Finish
      BY LinkFinishes DEF TimingInv
    <2> QED BY <2>1 DEF TxComplete, Channel!Finish
  <1>2. ~OnLine /\ ~OnLine' /\ got = line
    BY <1>1 DEF OnLine, TimingInv, Handed
  <1>3. rx_state' # "RxComplete"
    BY <1>1 DEF Quiet
  <1>4. Timing!Transmission(FALSE, NoByte)
    BY <1>1, <1>2 DEF Timing!Transmission
  <1>5. Timing!Reception
    BY <1>2, <1>3 DEF Timing!Reception
  <1> QED BY <1>4, <1>5 DEF TimingNext

LEMMA TimingStep ==
  ASSUME TimingInv, [LinkNext]_linkVars
  PROVE  TimingInv' /\ [TimingNext]_(Timing!timing)
  <1>1. LinkInv' /\ [Channel!Next]_chanVars
    BY LinkStep DEF TimingInv
  <1>2. Handed'
    BY <1>1, HandedStep DEF TimingInv
  <1>3. tx_inc' = tx_inc
    BY DEF LinkNext, linkVars, txVars
  <1>4. TimingInv'
    BY <1>1, <1>2, <1>3 DEF TimingInv
  <1>5. LinkTypeOK'
    BY <1>1 DEF LinkInv
  <1>6. ASSUME LinkSend PROVE TimingNext
    BY <1>3, <1>5, <1>6, TimingSends
  <1>7. ASSUME LinkIdle \/ (LinkBusy /\ TxReset) PROVE TimingNext
    BY <1>7, TimingWaits
  <1>8. ASSUME LinkBusy /\ (TxStartBit \/ TxSending \/ TxStopBit) PROVE TimingNext
    BY <1>3, <1>5, <1>8, TimingCarries
  <1>9. ASSUME LinkBusy /\ TxComplete PROVE TimingNext
    BY <1>3, <1>9, TimingFinishes
  <1>10. ASSUME UNCHANGED linkVars PROVE UNCHANGED Timing!timing
    <2>1. /\ UNCHANGED <<tx_inc, tx_state, tx_counter, tx_bitCnt, tx_bits, stop_bits, tx_complete>>
          /\ UNCHANGED <<rx_state, line, taken, got>>
      BY <1>10 DEF linkVars, txVars, rxVars, history
    <2>2. OnLine => Age' = Age
      <3>1. SUFFICES ASSUME OnLine PROVE Age' = Age
        OBVIOUS
      <3>2. PICK n \in Nat : TxAt(n)
        BY <3>1 DEF OnLine, TimingInv, LinkInv, Busy, Together
      <3>3. TxAt(n)'
        BY <2>1, <3>2 DEF TxAt, BitTime
      <3>4. TxKnown /\ TxKnown'
        BY <1>5, Known, PTL DEF TimingInv, LinkInv
      <3> QED BY <3>2, <3>3, <3>4 DEF TxKnown
    <2>3. OnLine' = OnLine
      BY <2>1 DEF OnLine
    <2>4. /\ (IF OnLine THEN "Sending" ELSE tx_state)' = IF OnLine THEN "Sending" ELSE tx_state
          /\ (IF line = NoByte THEN got ELSE line)' = IF line = NoByte THEN got ELSE line
          /\ (rx_state = "RxComplete")' = (rx_state = "RxComplete")
      BY <2>1, <2>3
    <2>5. /\ (IF OnLine THEN 10 * TxBit(Rate) - Age ELSE 0)'
             = IF OnLine THEN 10 * TxBit(Rate) - Age ELSE 0
          /\ (IF OnLine /\ Age < RxDone THEN RxDone - Age ELSE 0)'
             = IF OnLine /\ Age < RxDone THEN RxDone - Age ELSE 0
      BY <2>2, <2>3
    <2> QED BY <2>1, <2>4, <2>5 DEF Timing!timing
  <1> QED
    BY <1>4, <1>6, <1>7, <1>8, <1>9, <1>10 DEF LinkNext, LinkBusy, TxBusy

(* What the command machine assumes of the UART's timing is so on the line, whatever
   rate of those BaudAssumption allows the sender has, at both ends receivers of the
   same step: the transmitter is free again after ten bits and a clock, the other end
   takes the byte between the quarter of its stop bit and that clock, and not before,
   and a receiver says that a byte is complete a fixed time after its start
   (UARTTx.sv, UARTRx.sv, as the states of Top.sv wait for them). *)
THEOREM TimingIsKept ==
  LinkSpec /\ tx_inc = Rate => Timing!AtPowerUp /\ [][TimingNext]_(Timing!timing)
  <1>1. LinkInit /\ tx_inc = Rate => TimingInv
    BY LinkStarts DEF LinkInit, TimingInv, Handed
  <1>2. LinkInit => Timing!AtPowerUp
    BY DEF LinkInit, TxInit, RxInit, Timing!AtPowerUp, OnLine
  <1>3. TimingInv /\ [LinkNext]_linkVars => TimingInv' /\ [TimingNext]_(Timing!timing)
    BY TimingStep
  <1> QED BY <1>1, <1>2, <1>3, PTL DEF LinkSpec

(* So timed, a byte of the client cannot be complete before the machine has heard of
   the end of its own last byte and listens again: the assumption under which no
   command is lost follows from the lengths of the bits. *)
THEOREM BytesAreTimely ==
  ASSUME Rate \in TxRates
  PROVE  Timing!Timely
  <1>1. PICK M \in Nat : M = 10 * TxBit(Rate)
    <2>1. TxBit(Rate) \in Nat
      BY Rates
    <2> QED BY <2>1
  <1>2. /\ RxHalf + 9 * RxBit + RxQuarter + 4 <= M
        /\ 8 * TxBit(Rate) < RxHalf + 8 * RxBit /\ TxBit(Rate) \in Nat
    BY <1>1, Rates
  <1>3. /\ RxHalf \in Nat /\ RxBit \in Nat /\ RxQuarter \in Nat
        /\ 2 <= RxHalf /\ RxHalf <= RxBit
    BY Lengths
  <1>4. RxDone \in Nat /\ RxDone <= M /\ RxDone >= M - RxDone + 2
    BY <1>1, <1>2, <1>3 DEF RxDone
  <1>5. M - RxDone \in 0..M
    BY <1>4
  <1> QED BY <1>1, <1>4, <1>5 DEF Timing!Timely
=============================================================================
