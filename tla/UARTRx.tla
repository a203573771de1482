--------------------------------- MODULE UARTRx ---------------------------------
(* The receiver and the synchroniser in front of it. The line is looked at in
   the middle of every bit, counted from the falling edge of the start bit. *)
EXTENDS Integers, Sequences

CONSTANT RX_INC          \* what baud_counter gains per clock; it ticks at 2^16

VARIABLES
  rx_state, rx_counter, rx_bitCnt, rx_bits, rx_byte, rx_complete,
  bit,                   \* CDCSynchron's bit0, bit1 and bit2
  reset                  \* input, active low
rxVars == <<rx_state, rx_counter, rx_bitCnt, rx_bits, rx_byte, rx_complete, bit>>

RxWord == [1..8 -> 0..1]
NoBits == [i \in 1..8 |-> 0]
Rx_sync == bit[2]
Rx_fallingedge == bit[3] = 1 /\ bit[2] = 0
RxTick(fraction) == rx_counter \div (2^16 \div fraction) % 2 = 1
RxFree == rx_counter' = (rx_counter + RX_INC) % 2^17
Goto(next) == rx_state' = IF reset = 0 THEN "RxReset" ELSE next
Stay == Goto(rx_state)
Sampled == Append(Tail(rx_bits), Rx_sync)

RxTypeOK ==
  /\ rx_state \in {"RxReset", "RxIdle", "RxStartBit", "RxHalfBit", "RxReceiving",
                   "RxStopBit", "RxComplete"}
  /\ rx_counter \in 0..2^17 - 1
  /\ rx_bitCnt \in 0..7
  /\ rx_bits \in RxWord /\ rx_byte \in RxWord
  /\ rx_complete \in BOOLEAN
  /\ bit \in [1..3 -> 0..1]

RxInit ==
  /\ rx_state = "RxIdle"
  /\ rx_counter = 0 /\ rx_bitCnt = 0
  /\ rx_bits = NoBits /\ rx_byte = NoBits
  /\ rx_complete \in BOOLEAN
  /\ bit \in [1..3 -> 0..1]

RxReset ==
  /\ rx_state = "RxReset"
  /\ Goto("RxIdle") /\ rx_counter' = 0
  /\ rx_bits' = NoBits /\ rx_byte' = NoBits /\ rx_complete' = FALSE
  /\ UNCHANGED rx_bitCnt

RxIdle ==
  /\ rx_state = "RxIdle"
  /\ \/ /\ Rx_fallingedge
        /\ Goto("RxStartBit") /\ rx_counter' = 0
        /\ rx_bits' = NoBits /\ rx_byte' = NoBits
     \/ ~Rx_fallingedge /\ RxFree /\ Stay /\ UNCHANGED <<rx_bits, rx_byte>>
  /\ UNCHANGED <<rx_bitCnt, rx_complete>>

\* Half a bit period, to the middle of the start bit.
RxStartBit ==
  /\ rx_state = "RxStartBit"
  /\ \/ RxTick(2) /\ Goto("RxHalfBit") /\ rx_counter' = 0
     \/ ~RxTick(2) /\ RxFree /\ Stay
  /\ UNCHANGED <<rx_bitCnt, rx_bits, rx_byte, rx_complete>>

RxHalfBit ==
  /\ rx_state = "RxHalfBit"
  /\ \/ /\ RxTick(1)
        /\ Goto("RxReceiving") /\ rx_counter' = 0
        /\ rx_bits' = Sampled /\ rx_bitCnt' = 7
     \/ ~RxTick(1) /\ RxFree /\ Stay /\ UNCHANGED <<rx_bits, rx_bitCnt>>
  /\ UNCHANGED <<rx_byte, rx_complete>>

\* Mutant: the last bit is not noticed.
RxReceiving_NoStop ==
  /\ rx_state = "RxReceiving"
  /\ \/ /\ RxTick(1) /\ rx_counter' = 0
        /\ rx_bits' = Sampled /\ rx_bitCnt' = rx_bitCnt - 1 /\ Stay
     \/ ~RxTick(1) /\ RxFree /\ Stay /\ UNCHANGED <<rx_bits, rx_bitCnt>>
  /\ UNCHANGED <<rx_byte, rx_complete>>

RxReceiving ==
  /\ rx_state = "RxReceiving"
  /\ \/ /\ RxTick(1) /\ rx_counter' = 0
        /\ \/ rx_bitCnt = 0 /\ Goto("RxStopBit") /\ UNCHANGED <<rx_bits, rx_bitCnt>>
           \/ /\ rx_bitCnt > 0
              /\ rx_bits' = Sampled /\ rx_bitCnt' = rx_bitCnt - 1 /\ Stay
     \/ ~RxTick(1) /\ RxFree /\ Stay /\ UNCHANGED <<rx_bits, rx_bitCnt>>
  /\ UNCHANGED <<rx_byte, rx_complete>>

\* Mutant: the wait for two stop bits, with a sender of one.
RxStopBit_Full ==
  /\ rx_state = "RxStopBit"
  /\ rx_byte' = rx_bits
  /\ \/ /\ RxTick(1) /\ Rx_sync = 1
        /\ Goto("RxComplete") /\ rx_counter' = 0 /\ rx_bitCnt' = 0 /\ rx_complete' = TRUE
     \/ /\ ~(RxTick(1) /\ Rx_sync = 1)
        /\ RxFree /\ Stay /\ UNCHANGED <<rx_bitCnt, rx_complete>>
  /\ UNCHANGED rx_bits

RxStopBit ==
  /\ rx_state = "RxStopBit"
  /\ rx_byte' = rx_bits
  /\ \/ /\ RxTick(4) /\ Rx_sync = 1
        /\ Goto("RxComplete") /\ rx_counter' = 0 /\ rx_bitCnt' = 0 /\ rx_complete' = TRUE
     \/ /\ ~(RxTick(4) /\ Rx_sync = 1)
        /\ RxFree /\ Stay /\ UNCHANGED <<rx_bitCnt, rx_complete>>
  /\ UNCHANGED rx_bits

RxComplete ==
  /\ rx_state = "RxComplete"
  /\ Goto("RxIdle") /\ rx_complete' = FALSE
  /\ RxFree /\ UNCHANGED <<rx_bitCnt, rx_bits, rx_byte>>

RxStep == RxReset \/ RxIdle \/ RxStartBit \/ RxHalfBit \/ RxReceiving \/ RxStopBit \/ RxComplete

CDCSynchron(rx_in) == bit' = <<rx_in, bit[1], bit[2]>>
===================================================================================
