-------------------------- MODULE ALUConformance --------------------------
(***************************************************************************)
(* The ALU against the arithmetic of the instruction set.  The ALU keeps   *)
(* no state; the variables are its inputs, and a step applies another      *)
(* operation to the same operands, as the cycles of an instruction do.     *)
(***************************************************************************)
EXTENDS ALU, RV32I

VARIABLES func_op_i, a_i, b_i

inputs == <<func_op_i, a_i, b_i>>

Init == func_op_i \in ALU_Ops /\ a_i \in Word /\ b_i \in Word

Next == func_op_i' \in ALU_Ops /\ UNCHANGED <<a_i, b_i>>

Spec == Init /\ [][Next]_inputs
-----------------------------------------------------------------------------
IsShift == func_op_i \in {SllOp, SrlOp, SraOp}

\* For every operation and operands the ALU yields the word the instruction
\* set asks for; a shift by the width of a word or more is left out.
ResultCorrect ==
  ~IsShift \/ Value(b_i) < Width => y_o(func_op_i, a_i, b_i) = Arithmetic(func_op_i, a_i, b_i)

\* The flags of a subtraction decide all six branches as a comparison of the
\* operands would, at the extremes of the signed range too.
BranchCorrect ==
  \A funct3 \in {0, 1, 4, 5, 6, 7} :
    take_branch(funct3, flags_o(SubOp, a_i, b_i)) <=> Comparison(funct3, a_i, b_i)

\* README.md calls the core "RV32I", whose register shifts use the low bits of
\* rs2 only.
ShiftUsesLowBits ==
  IsShift => y_o(func_op_i, a_i, b_i) = Arithmetic(func_op_i, a_i, b_i)
=============================================================================
