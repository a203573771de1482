----------------------------- MODULE CoreCycle -----------------------------
(***************************************************************************)
(* What the core promises to those who watch its MatrixState from outside, *)
(* as the console does: an instruction is fetched, decoded and executed in *)
(* that order, and a held reset leads back to Reset at the next edge.      *)
(***************************************************************************)
MatrixStates == {"Reset", "Fetch", "Decode", "Execute"}

Successors == {
  <<"Reset", "Reset">>, <<"Reset", "Fetch">>, <<"Fetch", "Decode">>, <<"Decode", "Execute">>,
  <<"Execute", "Execute">>, <<"Execute", "Fetch">>}

\* Where an edge of the clock may lead.
Edge(state, released) ==
  {next \in MatrixStates :
     IF released THEN <<state, next>> \in Successors ELSE next = "Reset"}
=============================================================================
