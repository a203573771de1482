--------------------------------- MODULE UARTTx ---------------------------------
(* The transmitter: one start bit, eight data bits, least significant first, one
   stop bit. A byte is the sequence of its bits, least significant first. *)
EXTENDS Integers, Sequences

VARIABLES
  tx_inc,         \* COUNT_INC: what baud_counter gains per clock; never changes
  tx_state, tx_counter, tx_bitCnt, tx_bits, stop_bits, tx_out, tx_complete
txVars == <<tx_inc, tx_state, tx_counter, tx_bitCnt, tx_bits, stop_bits, tx_out, tx_complete>>

Bit == 0..1
Byte == [1..8 -> Bit]
STOP_BITS == 1
TxTick == tx_counter >= 2^16
TxFree == tx_counter' = (tx_counter + tx_inc) % 2^17

TxTypeOK ==
  /\ tx_state \in {"TxReset", "TxIdle", "TxStartBit", "TxSending", "TxStopBit", "TxComplete"}
  /\ tx_counter \in 0..2^17 - 1
  /\ tx_bitCnt \in 0..7
  /\ tx_bits \in Byte
  /\ stop_bits \in 0..STOP_BITS
  /\ tx_out \in Bit
  /\ tx_complete \in BOOLEAN

TxInit ==
  /\ tx_state = "TxReset"
  /\ tx_counter = 0 /\ tx_bitCnt = 0 /\ stop_bits = 0
  /\ tx_bits = [i \in 1..8 |-> 0]
  /\ tx_out \in Bit
  /\ tx_complete \in BOOLEAN

TxReset ==
  /\ tx_state = "TxReset"
  /\ tx_state' = "TxIdle"
  /\ tx_bits' = [i \in 1..8 |-> 0] /\ tx_complete' = FALSE
  /\ TxFree /\ UNCHANGED <<tx_bitCnt, stop_bits, tx_out>>

TxIdle ==
  /\ tx_state = "TxIdle"
  /\ tx_out' = 1
  /\ TxFree /\ UNCHANGED <<tx_state, tx_bitCnt, tx_bits, stop_bits, tx_complete>>

TxLatch(tx_byte) ==
  /\ tx_state = "TxIdle"
  /\ tx_state' = "TxStartBit"
  /\ tx_out' = 0 /\ tx_bits' = tx_byte /\ tx_counter' = 0
  /\ UNCHANGED <<tx_bitCnt, stop_bits, tx_complete>>

TxStartBit ==
  /\ tx_state = "TxStartBit"
  /\ \/ /\ TxTick
        /\ tx_state' = "TxSending" /\ tx_out' = tx_bits[1]
        /\ tx_counter' = 0 /\ tx_bitCnt' = 7
     \/ ~TxTick /\ TxFree /\ UNCHANGED <<tx_state, tx_out, tx_bitCnt>>
  /\ UNCHANGED <<tx_bits, stop_bits, tx_complete>>

\* The bit that is shifted in first is put on the line a clock after the tick.
TxSending ==
  /\ tx_state = "TxSending"
  /\ \/ /\ TxTick
        /\ tx_counter' = 0
        /\ tx_bits' = Append(Tail(tx_bits), 0)
        /\ \/ /\ tx_bitCnt = 0
              /\ tx_state' = "TxStopBit" /\ tx_bitCnt' = 7
              /\ tx_out' = 1 /\ stop_bits' = STOP_BITS
           \/ /\ tx_bitCnt > 0
              /\ tx_bitCnt' = tx_bitCnt - 1 /\ tx_out' = tx_bits[1]
              /\ UNCHANGED <<tx_state, stop_bits>>
     \/ ~TxTick /\ TxFree /\ tx_out' = tx_bits[1]
        /\ UNCHANGED <<tx_state, tx_bits, tx_bitCnt, stop_bits>>
  /\ UNCHANGED tx_complete

TxStopBit ==
  /\ tx_state = "TxStopBit"
  /\ \/ /\ stop_bits > 0 /\ TxTick
        /\ tx_counter' = 0 /\ tx_bitCnt' = 0 /\ stop_bits' = stop_bits - 1
        /\ UNCHANGED <<tx_state, tx_complete>>
     \/ /\ stop_bits > 0 /\ ~TxTick
        /\ TxFree /\ UNCHANGED <<tx_state, tx_bitCnt, stop_bits, tx_complete>>
     \/ /\ stop_bits = 0
        /\ tx_state' = "TxComplete" /\ tx_complete' = TRUE
        /\ TxFree /\ UNCHANGED <<tx_bitCnt, stop_bits>>
  /\ UNCHANGED <<tx_bits, tx_out>>

TxComplete ==
  /\ tx_state = "TxComplete"
  /\ tx_state' = "TxIdle" /\ tx_complete' = FALSE
  /\ TxFree /\ UNCHANGED <<tx_bitCnt, tx_bits, stop_bits, tx_out>>

\* A clock edge on which the transmitter does not take a byte.
TxBusy == TxReset \/ TxStartBit \/ TxSending \/ TxStopBit \/ TxComplete
===================================================================================
