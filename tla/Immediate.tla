----------------------------- MODULE Immediate -----------------------------
(***************************************************************************)
(* Where the bits of an immediate lie in an instruction: the generator of  *)
(* the processor that takes them out (modules/Immediate.sv), and the       *)
(* assembler that puts them in (tools/gen-instr/assemblers).  A word is    *)
(* the set of its bits that are 1, as in Words.                            *)
(***************************************************************************)
EXTENDS Integers

ITYPE   == {0, 1, 4}
ITYPE_L == {0, 1}
ITYPE_J == {0, 1, 2, 5, 6}
ITYPE_E == {0, 1, 4, 5, 6}
STYPE   == {0, 1, 5}
BTYPE   == {0, 1, 5, 6}
UTYPE_L == {0, 1, 2, 4, 5}
UTYPE_A == {0, 1, 2, 4}
JTYPE   == {0, 1, 2, 3, 5, 6}

\* The bits lo..hi of a word, moved so that lo becomes bit "to".
Field(w, hi, lo, to) == {b - lo + to : b \in w \cap (lo .. hi)}

\* Copies of the instruction's top bit, from bit n up.
Sign_ext(ir, n) == IF 31 \in ir THEN n .. 31 ELSE {}

imm_src(ir) ==
  LET opcode == ir \cap (0 .. 6)
      funct3 == Field(ir, 14, 12, 0)
  IN CASE opcode = ITYPE                        -> IF funct3 \in {{0}, {0, 2}} THEN "shamt" ELSE "I"
       [] opcode \in {ITYPE_L, ITYPE_J, ITYPE_E} -> "I"
       [] opcode = STYPE                        -> "S"
       [] opcode = BTYPE                        -> "B"
       [] opcode \in {UTYPE_L, UTYPE_A}          -> "U"
       [] opcode = JTYPE                        -> "J"
       [] OTHER                                 -> "zero"

\* Broken variant: bit 11 of a branch is taken for its sign, as a store's is.
B_imm_AsStore(ir) ==
  Sign_ext(ir, 11) \cup Field(ir, 30, 25, 5) \cup Field(ir, 11, 8, 1)

B_imm(ir) ==
  Sign_ext(ir, 12) \cup Field(ir, 7, 7, 11) \cup Field(ir, 30, 25, 5) \cup Field(ir, 11, 8, 1)

imm_o(ir) ==
  CASE imm_src(ir) = "I"     -> Sign_ext(ir, 11) \cup Field(ir, 30, 20, 0)
    [] imm_src(ir) = "S"     -> Sign_ext(ir, 11) \cup Field(ir, 30, 25, 5) \cup Field(ir, 11, 7, 0)
    [] imm_src(ir) = "B"     -> B_imm(ir)
    [] imm_src(ir) = "U"     -> Field(ir, 31, 12, 12)
    [] imm_src(ir) = "J"     -> Sign_ext(ir, 20) \cup Field(ir, 19, 12, 12) \cup Field(ir, 20, 20, 11)
                                \cup Field(ir, 30, 21, 1)
    [] imm_src(ir) = "shamt" -> Field(ir, 24, 20, 0)
    [] imm_src(ir) = "zero"  -> {}
-----------------------------------------------------------------------------
(* The assembler.  The operand is a 32 bit number; bits that have no place  *)
(* in the instruction are dropped without a word.                           *)

Loads_imm(imm)  == Field(imm, 11, 0, 20)
Jalr_imm(imm)   == Field(imm, 11, 1, 21)
Stores_imm(imm) == Field(imm, 11, 5, 25) \cup Field(imm, 4, 0, 7)
U_imm(imm)      == Field(imm, 19, 0, 12)

\* The sign of a branch is taken from bit 19 of the distance.
BtypeBranch_imm(delta) ==
  Field(delta, 19, 19, 31) \cup Field(delta, 10, 5, 25)
    \cup Field(delta, 4, 1, 8) \cup Field(delta, 11, 11, 7)

Jal_imm(delta) ==
  Field(delta, 20, 20, 31) \cup Field(delta, 10, 1, 21)
    \cup Field(delta, 11, 11, 20) \cup Field(delta, 19, 12, 12)

Formats == {"load", "jalr", "store", "branch", "upper", "jal"}

\* The instruction of a format, its registers and funct3 left zero.
Assembled(format, imm) ==
  CASE format = "load"   -> ITYPE_L \cup Loads_imm(imm)
    [] format = "jalr"   -> ITYPE_J \cup Jalr_imm(imm)
    [] format = "store"  -> STYPE \cup Stores_imm(imm)
    [] format = "branch" -> BTYPE \cup BtypeBranch_imm(imm)
    [] format = "upper"  -> UTYPE_L \cup U_imm(imm)
    [] format = "jal"    -> JTYPE \cup Jal_imm(imm)
-----------------------------------------------------------------------------
\* The bits a format's operand has between its lowest and its sign, and what the
\* processor should make of the operand.
Lowest(format) == IF format \in {"jalr", "branch", "jal"} THEN 1 ELSE 0
SignBit(format) ==
  CASE format = "branch" -> 12
    [] format = "jal"    -> 20
    [] format = "upper"  -> 20
    [] OTHER             -> 11
Meant(format, imm) == IF format = "upper" THEN Field(imm, 19, 0, 12) ELSE imm

\* An operand in the format's range, small in magnitude and of either sign: its
\* bits, or all but its bits.
Operand(format, bits, negative) ==
  LET low == bits \cap (Lowest(format) .. SignBit(format) - 1)
  IN IF negative /\ format # "upper"
     THEN (Lowest(format) .. 31) \ low
     ELSE low
=============================================================================
