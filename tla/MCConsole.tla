----------------------------- MODULE MCConsole -----------------------------
(***************************************************************************)
(* Sessions for the console: what a user types, kept short so that every   *)
(* order of a few lines is tried against every moment of a run.            *)
(***************************************************************************)
EXTENDS ConsoleTestbench

Typed(lines, keys, visits) == [lines |-> lines, keys |-> keys, visits |-> visits]

MCNumber == [f \in {"-1", "0x0", "0x1", "0x2", "1", "2", "3", "5", "6"} |->
  CASE f = "-1" -> -1 [] f = "0x0" -> 0 [] f \in {"0x1", "1"} -> 1 [] f \in {"0x2", "2"} -> 2
    [] f = "3" -> 3 [] f = "5" -> 5 [] f = "6" -> 6]

\* An address the programs come to, and one they do not.
MCGarbage == {1, 9}

MCRams == [ebreak |-> [a \in {0} |-> 7]]

\* steps against modes, resets and runs; breakpoints; pulses; loops; the window
MCSessions == [
  steps     |-> Typed({<<"stp", "on">>, <<"stp">>, <<"ss", "3">>, <<"ss", "-1">>, <<"halt">>}, {}, {0}),
  modes     |-> Typed({<<"stp", "on">>, <<"ns">>, <<"hc">>, <<"fr">>, <<"fr", "off">>}, {}, {0}),
  resets    |-> Typed({<<"stp", "on">>, <<"fl">>, <<"sg", "reset">>, <<"rn", "de">>, <<>>}, {}, {0}),
  breaks    |-> Typed({<<"fr">>, <<"br", "on">>, <<"bra", "0x1">>, <<"stp", "on">>, <<"ns">>}, {}, {4}),
  breakRuns |-> Typed({<<"fr">>, <<"br", "on">>, <<"bra">>, <<"rn", "fe">>}, {}, {0, 4}),
  pulses    |-> Typed({<<"fr", "on">>, <<"fr", "off">>, <<"irqd", "1">>}, {"home"}, {0}),
  masked    |-> Typed({<<"fr", "on">>, <<"irqd", "1">>, <<"irq">>, <<"irq", "on">>}, {"home"}, {0}),
  pulseRuns |-> Typed({<<"fr", "on">>, <<"irqd", "2">>, <<"sg", "reset", "h">>, <<"rn", "ex">>}, {"home"}, {0}),
  runs      |-> Typed({<<"rn", "fetch">>, <<"rn", "decode">>, <<"rn", "execute">>, <<"rn", "xx">>,
                       <<"sg", "irq">>}, {"tick"}, {0}),
  targets   |-> Typed({<<"rn", "eb">>, <<"rn", "pc", "0x1">>, <<"rn", "pc">>, <<"crg", "3", "2">>}, {}, {0, 4}),
  scroll    |-> Typed({<<"rn", "de">>, <<"mr", "6">>, <<"mr", "-1">>}, {"up", "down"}, {8}),
  places    |-> Typed({<<"rn", "pc", "2">>, <<"pc", "0x2">>}, {"down"}, {4, 8}),
  stores    |-> Typed({<<"mm", "1", "3">>, <<"ld">>, <<"ld", "none">>, <<"crg", "3", "5">>, <<"crg", "3">>,
                       <<"crg">>, <<"srg", "3">>, <<"srg">>}, {}, {0}),
  settings  |-> Typed({<<"delay">>, <<"delay", "on">>, <<"dt">>, <<"dt", "1", "2">>, <<"irqt", "2">>, <<"br">>,
                       <<"mr">>, <<"brake", "0x1">>, <<"irqs", "on">>, <<"halts">>, <<"reset">>, <<>>}, {}, {0})]

\* The session of the README's promise about h.
HaltSession == [halt |-> Typed({<<"fr", "on">>, <<"h">>}, {}, {0})]
=============================================================================
