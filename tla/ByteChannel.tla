------------------------------- MODULE ByteChannel -------------------------------
(* What a serial line promises: one byte at a time is on the line, it is taken
   once and as it was sent, and only then does the sender hear that it may send
   the next. *)
CONSTANTS Byte, NoByte      \* NoByte is not a Byte

VARIABLES line, taken, got
vars == <<line, taken, got>>

Init == line = NoByte /\ taken = FALSE /\ got = NoByte

Send == line = NoByte /\ line' \in Byte /\ taken' = FALSE /\ UNCHANGED got
Take == line # NoByte /\ ~taken /\ taken' = TRUE /\ got' = line /\ UNCHANGED line
Finish == line # NoByte /\ taken /\ line' = NoByte /\ UNCHANGED <<taken, got>>

Next == Send \/ Take \/ Finish
Spec == Init /\ [][Next]_vars /\ WF_vars(Take) /\ WF_vars(Finish)
===================================================================================
