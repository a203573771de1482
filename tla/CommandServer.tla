------------------------------ MODULE CommandServer ------------------------------
(* What the command machine promises to the client: a request is answered by its
   bytes, all of them, in order and with nothing in between. *)
EXTENDS Naturals, Sequences

CONSTANTS NoCommand, Answer      \* Answer[c]: the bytes that answer command c

VARIABLES asked, read, last
vars == <<asked, read, last>>

Init == asked = NoCommand /\ read = 0 /\ last = <<>>

Ask == asked = NoCommand /\ asked' \in DOMAIN Answer /\ read' = 0 /\ UNCHANGED last

Reply ==
  /\ asked # NoCommand
  /\ last' = Answer[asked][read + 1] /\ read' = read + 1
  /\ asked' = IF read' = Len(Answer[asked]) THEN NoCommand ELSE asked

Next == Ask \/ Reply
Spec == Init /\ [][Next]_vars /\ WF_vars(Reply)
===================================================================================
