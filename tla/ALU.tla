-------------------------------- MODULE ALU --------------------------------
(***************************************************************************)
(* The arithmetic unit (modules/ALU.sv), which is combinational, and the   *)
(* branch decision that ControlMatrix takes from its flags.  An operation  *)
(* is funct3 with the bit of funct7 that tells sub from add.               *)
(***************************************************************************)
EXTENDS Words

AddOp  == <<0, FALSE>>
SubOp  == <<0, TRUE>>
SllOp  == <<1, FALSE>>
SltOp  == <<2, FALSE>>
SltuOp == <<3, FALSE>>
XorOp  == <<4, FALSE>>
SrlOp  == <<5, FALSE>>
SraOp  == <<5, TRUE>>
OrOp   == <<6, FALSE>>
AndOp  == <<7, FALSE>>
ALU_Ops == {AddOp, SubOp, SllOp, SltOp, SltuOp, XorOp, SrlOp, SraOp, OrOp, AndOp}

ShiftRight(a, n) == {b \in Bits : b + n \in a}

\* A word and its sign, as wide as two words.
sext(a) == a \cup (IF Sign \in a THEN Width .. (2 * Width - 1) ELSE {})

\* Broken variant: the operands' signs are ignored.
LessSigned_Unsigned(a, b) == Below(a, b)

\* Signs that differ decide; signs that agree leave it to the magnitudes.
LessSigned(a, b) ==
  IF Sign \in a <=> Sign \in b THEN Below(a, b) ELSE Sign \in a

\* The shifters use the whole of b as the distance.
y_o(op, a, b) ==
  CASE op = AddOp  -> Add(a, b)
    [] op = SubOp  -> Sub(a, b)
    [] op = AndOp  -> a \cap b
    [] op = OrOp   -> a \cup b
    [] op = XorOp  -> Xor(a, b)
    [] op = SllOp  -> {i \in Bits : i - Value(b) \in a}
    [] op = SrlOp  -> ShiftRight(a, Value(b))
    [] op = SraOp  -> ShiftRight(sext(a), Value(b))
    [] op = SltOp  -> Truth(LessSigned(a, b))
    [] op = SltuOp -> Truth(Below(a, b))

\* Broken variant: no borrow reaches the sign bit.
carry_borrow_l_None(op, a, b) == FALSE

\* The borrow of a subtraction into the sign bit.
carry_borrow_l(op, a, b) == op = SubOp /\ Borrow(a, b, Sign)

\* The borrow of a subtraction out of the word, and the bit the logical shifts
\* leave in its place.
carry_borrow_h(op, a, b) ==
  \/ op = SubOp /\ Below(a, b)
  \/ op = SllOp /\ Sign \in a
  \/ op = SrlOp /\ 0 \in a

\* Overflow, negative, carry and zero.
flags_o(op, a, b) ==
  {f \in {"V", "N", "C", "Z"} :
     \/ f = "V" /\ carry_borrow_l(op, a, b) # carry_borrow_h(op, a, b)
     \/ f = "N" /\ Sign \in y_o(op, a, b)
     \/ f = "C" /\ carry_borrow_h(op, a, b)
     \/ f = "Z" /\ y_o(op, a, b) = {}}

\* beq, bne, blt, bge, bltu and bgeu, decided from the flags of rs1 - rs2.
take_branch(funct3, flags) ==
  CASE funct3 = 0 -> "Z" \in flags
    [] funct3 = 1 -> "Z" \notin flags
    [] funct3 = 4 -> ("N" \in flags) # ("V" \in flags)
    [] funct3 = 5 -> ("N" \in flags) = ("V" \in flags)
    [] funct3 = 6 -> "C" \in flags
    [] funct3 = 7 -> "C" \notin flags
    [] OTHER      -> FALSE
=============================================================================
