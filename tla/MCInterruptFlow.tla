-------------------------- MODULE MCInterruptFlow --------------------------
EXTENDS InterruptFlow

MCBits      == {1, 3, 11}
MCImmBits   == {3}
MCAlignBits == {1}
MCAddr      == {{}, {1}}
MCData      == {{}, {3, 11}}
MCReset     == {}
\* For liveness: all words are alike, and only the two enable bits vary.
OneWord     == {{3, 11}}
OneReset    == {3, 11}

x1 == {3}
I(opcode, funct3, funct12, rd, rs1) ==
  [opcode |-> opcode, funct3 |-> funct3, funct12 |-> funct12, rd |-> rd, rs1 |-> rs1]

\* One instruction of every class the decoder tells apart; FENCE it does not
\* know, and runs as a load.
PlainProgram ==
  {I(op, 2, "", X0, x1) : op \in {"RTYPE", "JTYPE", "STYPE", "BTYPE"}}
    \cup {I(op, 0, "", x1, x1) :
            op \in {"RTYPE", "ITYPE", "ITYPE_J", "JTYPE", "STYPE", "UTYPE_L", "UTYPE_A", "FENCE"}}

SystemProgram == {I("ITYPE_E", 0, f, X0, X0) : f \in {"ebreak", "ecall", "mret"}}

\* Writes of every CSR, and each way of forming the value on the two that matter.
CsrProgram ==
  {I("ITYPE_E", CSRRW, c, X0, x1) : c \in {"Mstatus", "Mie", "Mip", "Mepc", "Mtvec"}}
    \cup {I("ITYPE_E", op, "Mip", x1, x1) : op \in {CSRRW, CSRRS, CSRRC}}
    \cup {I("ITYPE_E", op, "Mstatus", X0, x1) : op \in {CSRRWI, CSRRSI, CSRRCI}}

\* csrrs x1, mip, x0, which has no effect, and funct3 = 100, which is illegal.
OddProgram == {I("ITYPE_E", op, "Mip", x1, X0) : op \in {CSRRS, 4}}

\* For safety: to the interrupt all plain instructions are alike but for the
\* cycles they take and whether they move the PC.
FlowProgram ==
  {I("RTYPE", 0, "", x1, x1), I("BTYPE", 0, "", x1, x1), I("FENCE", 0, "", x1, x1)}
    \cup SystemProgram \cup CsrProgram \cup OddProgram

\* For liveness: every plain instruction, every way to write the interrupt's own
\* bits, no illegal CSR form.
LiveProgram ==
  PlainProgram \cup SystemProgram
    \cup {I("ITYPE_E", op, "Mstatus", X0, x1) : op \in {CSRRSI, CSRRCI}}
    \cup {I("ITYPE_E", op, c, X0, x1) : op \in {CSRRW, CSRRC}, c \in {"Mie", "Mip"}}
    \cup {I("ITYPE_E", op, "Mip", X0, X0) : op \in {CSRRWI, CSRRS}}
=============================================================================
