------------------------------- MODULE UARTTiming -------------------------------
(* What the users of the two ends of the UART see of a byte: when the transmitter
   is busy with it, in which clocks the other end takes it, and how long after its
   start the receiver says that it is complete. *)
EXTENDS Integers

CONSTANTS
  TxClocks,       \* clocks of a byte at the transmitter
  TailClocks,     \* the last of them, in one of which the other end takes the byte
  RxClocks        \* clocks from a byte's start to rx_complete

Timely ==
  /\ TxClocks \in Nat /\ TailClocks \in 0..TxClocks /\ RxClocks \in Nat
  /\ RxClocks >= TailClocks + 2
ASSUME TimingAssumption == Timely

VARIABLES
  tx_state, tx_left, tx_taken, tx_complete,     \* UARTTx and the byte it sends
  sending,
  reset, rx_left, rx_complete                   \* UARTRx, its reset, and the byte it gets

timing == <<tx_state, tx_left, tx_taken, tx_complete, sending, rx_left, rx_complete>>

AtPowerUp ==
  /\ tx_state = "TxReset" /\ tx_left = 0 /\ tx_taken = FALSE /\ rx_left = 0
  /\ tx_complete \in BOOLEAN /\ rx_complete \in BOOLEAN

\* The transmitter in a clock in which it is given a byte or not. It has no reset.
Transmission(given, byte) ==
  \/ /\ tx_state = "TxReset" /\ tx_state' = "TxIdle" /\ tx_complete' = FALSE
     /\ UNCHANGED <<tx_left, tx_taken, sending>>
  \/ /\ tx_state = "TxIdle" /\ ~given
     /\ UNCHANGED <<tx_state, tx_left, tx_taken, sending, tx_complete>>
  \/ /\ tx_state = "TxIdle" /\ given
     /\ tx_state' = "Sending" /\ tx_left' = TxClocks /\ tx_taken' = FALSE /\ sending' = byte
     /\ UNCHANGED tx_complete
  \/ /\ tx_state = "Sending" /\ tx_left > 0
     /\ tx_left' = tx_left - 1
     /\ tx_taken' \in {tx_taken, tx_taken \/ tx_left <= TailClocks}
     /\ UNCHANGED <<tx_state, sending, tx_complete>>
  \/ /\ tx_state = "Sending" /\ tx_left = 0
     /\ tx_state' = "TxComplete" /\ tx_complete' = TRUE /\ tx_taken' = TRUE
     /\ UNCHANGED <<tx_left, sending>>
  \/ /\ tx_state = "TxComplete"
     /\ tx_state' = "TxIdle" /\ tx_complete' = FALSE
     /\ UNCHANGED <<tx_left, tx_taken, sending>>

\* The receiver counts a byte out; its reset drops the byte it is receiving.
Reception ==
  /\ rx_left' = IF reset = 0 \/ rx_left = 0 THEN 0 ELSE rx_left - 1
  /\ rx_complete' = (reset = 1 /\ rx_left = 1)

\* A byte's start reaches a receiver that waits.
Arrival == rx_left' = RxClocks
===================================================================================
