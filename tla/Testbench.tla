----------------------------- MODULE Testbench -----------------------------
(***************************************************************************)
(* What the benches under simulation/ have in common: a program that sets  *)
(* the pins of one unit, has the unit evaluated, and counts time.          *)
(***************************************************************************)
EXTENDS Integers

VARIABLES
  timeStep,    \* the evaluations made so far
  clk_i,       \* the clock pin
  clk_seen     \* the clock at the last evaluation

clock == <<timeStep, clk_i, clk_seen>>

BenchInit == timeStep = 0 /\ clk_i = 0 /\ clk_seen = 0

\* The evaluation about to be made sees the falling edge of the clock.
Falls == clk_seen = 1 /\ clk_i = 0

\* One evaluation; the clock pin moves every ten of them.
step ==
  /\ clk_seen' = clk_i
  /\ timeStep' = timeStep + 1
  /\ clk_i' = IF (timeStep + 1) % 10 = 0 THEN 1 - clk_i ELSE clk_i

\* The literals of the benches: the bits of a number below 2^16, and those of a
\* 32 bit number given as its halves.
Half(n) == {b \in 0 .. 15 : (n \div (2 ^ b)) % 2 = 1}
Literal(high, low) == Half(low) \cup {b + 16 : b \in Half(high)}
=============================================================================
