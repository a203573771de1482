-------------------------------- MODULE UARTLink --------------------------------
(* A transmitter wired to a receiver, both stepped by one clock; a sender whose
   own clock is fast or slow counts in another step. The sender (outside) starts a
   byte whenever the transmitter is idle; the receiver is reset at power-up, and
   now and then while the line is quiet, as the command machine does. *)
EXTENDS UARTTx, UARTRx

CONSTANTS
  TxRates,    \* the steps the sender may count in
  Payload,    \* the bytes that are sent
  NoByte,
  PowerUp,    \* clocks the reset is low at power-up
  Settle,     \* clocks between a reset and the next byte
  MaxIdle     \* clocks the transmitter stays idle at most: bounds the free counters

ASSUME LinkAssumption ==
  /\ Payload \subseteq Byte /\ NoByte \notin Byte
  /\ PowerUp \in Nat /\ Settle \in Nat /\ MaxIdle \in Nat

\* The clocks in which a counter of a step reaches an amount; the length of a bit
\* and, in the receiver, of its half and its quarter: a tick has its own clock.
Clocks(amount, inc) == (amount + inc - 1) \div inc
TxBit(inc) == Clocks(2^16, inc) + 1
RxBit      == Clocks(2^16, RX_INC) + 1
RxHalf     == Clocks(2^15, RX_INC) + 1
RxQuarter  == Clocks(2^14, RX_INC)

\* The sender is not so slow that the receiver samples its last bit before it has
\* begun, nor so fast that it ends its byte before the receiver; and the reset at
\* power-up is as long as the line needs to pass the synchroniser.
ASSUME BaudAssumption ==
  /\ RX_INC \in 1..2^14 /\ TxRates \subseteq 1..2^16
  /\ \A inc \in TxRates :
       /\ 8 * TxBit(inc) < RxHalf + 8 * RxBit
       /\ RxHalf + 9 * RxBit + RxQuarter + 4 <= 10 * TxBit(inc)
  /\ PowerUp >= 4

VARIABLES
  quiet,              \* clocks since the reset was low, negative during power-up
  idle,               \* clocks the transmitter has been idle
  line, taken, got    \* history: the byte on the line, taken by the receiver, last taken

envVars == <<quiet, idle>>
history == <<line, taken, got>>
linkVars == <<txVars, rxVars, reset, envVars, history>>

LinkTypeOK ==
  /\ TxTypeOK /\ RxTypeOK /\ tx_inc \in TxRates
  /\ reset \in Bit
  /\ quiet \in (-PowerUp)..Settle
  /\ idle \in 0..MaxIdle
  /\ line \in Byte \cup {NoByte} /\ got \in Byte \cup {NoByte}
  /\ taken \in BOOLEAN

LinkInit ==
  /\ TxInit /\ RxInit /\ tx_inc \in TxRates
  /\ reset = 0 /\ quiet = -PowerUp /\ idle = 0
  /\ line = NoByte /\ taken = FALSE /\ got = NoByte

\* What the reset does from this clock to the next.
ResetPin ==
  \/ quiet < -1 /\ reset' = 0 /\ quiet' = quiet + 1
  \/ quiet >= -1 /\ reset' = 1 /\ quiet' = IF quiet < Settle THEN quiet + 1 ELSE Settle
  \/ /\ quiet = Settle /\ tx_state = "TxIdle" /\ idle + Settle + 1 < MaxIdle
     /\ reset' = 0 /\ quiet' = 0

\* The receiver's user sees rx_complete.
Receive ==
  IF rx_state = "RxComplete" THEN taken' = TRUE /\ got' = rx_byte
  ELSE UNCHANGED <<taken, got>>

Receiver == RxStep /\ CDCSynchron(tx_out)

LinkSend ==
  /\ quiet = Settle /\ reset = 1
  /\ \E b \in Payload : TxLatch(b) /\ line' = b
  /\ taken' = FALSE /\ UNCHANGED got
  /\ idle' = 0 /\ reset' = 1 /\ UNCHANGED quiet
  /\ Receiver

LinkIdle ==
  /\ TxIdle
  /\ idle < MaxIdle /\ idle' = idle + 1
  /\ ResetPin /\ Receive /\ UNCHANGED line
  /\ Receiver

LinkBusy ==
  /\ TxBusy
  /\ line' = IF tx_state = "TxComplete" THEN NoByte ELSE line
  /\ ResetPin /\ Receive /\ UNCHANGED idle
  /\ Receiver

LinkNext == (LinkSend \/ LinkIdle \/ LinkBusy) /\ UNCHANGED tx_inc
LinkSpec == LinkInit /\ [][LinkNext]_linkVars /\ WF_linkVars(LinkNext)
-----------------------------------------------------------------------------------
Channel == INSTANCE ByteChannel WITH Byte <- Payload

(* Every byte the transmitter latches is handed over by the receiver once, as it
   was sent, before the transmitter reports it complete, however soon the next
   start bit follows and although nothing but the start bit's edge aligns the
   two (UARTTx.sv TxIdle to TxComplete, UARTRx.sv RxIdle to RxComplete). *)
CarriesBytes == Channel!Spec
===================================================================================
