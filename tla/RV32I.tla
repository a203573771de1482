------------------------------- MODULE RV32I -------------------------------
(***************************************************************************)
(* The arithmetic of the instruction set, stated on numbers: what the ALU  *)
(* and the branch decision are checked against, and what RiscvISA's        *)
(* instructions compute.                                                   *)
(***************************************************************************)
EXTENDS Words

\* Shifts take their distance from the low bits of the second operand.
Distance(b) == Value(b) % Width

\* The result of an operation, which is named by funct3 and the bit of funct7.
Arithmetic(op, a, b) ==
  CASE op = <<0, FALSE>> -> WordOf((Value(a) + Value(b)) % (2 ^ Width))
    [] op = <<0, TRUE>>  -> WordOf((Value(a) - Value(b)) % (2 ^ Width))
    [] op = <<1, FALSE>> -> WordOf((Value(a) * (2 ^ Distance(b))) % (2 ^ Width))
    [] op = <<2, FALSE>> -> Truth(Signed(a) < Signed(b))
    [] op = <<3, FALSE>> -> Truth(Value(a) < Value(b))
    [] op = <<4, FALSE>> -> {i \in Bits : (i \in a) # (i \in b)}
    [] op = <<5, FALSE>> -> WordOf(Value(a) \div (2 ^ Distance(b)))
    [] op = <<5, TRUE>>  -> WordOf((Signed(a) \div (2 ^ Distance(b))) % (2 ^ Width))
    [] op = <<6, FALSE>> -> a \cup b
    [] op = <<7, FALSE>> -> a \cap b

\* Whether a branch is taken, by funct3.
Comparison(funct3, a, b) ==
  CASE funct3 = 0 -> a = b
    [] funct3 = 1 -> a # b
    [] funct3 = 4 -> Signed(a) < Signed(b)
    [] funct3 = 5 -> Signed(a) >= Signed(b)
    [] funct3 = 6 -> Value(a) < Value(b)
    [] funct3 = 7 -> Value(a) >= Value(b)
=============================================================================
