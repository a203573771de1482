---------------------------- MODULE MCRetirement ----------------------------
(***************************************************************************)
(* Words of eight bits in bytes of two, 32 words of memory of which the    *)
(* upper half is where the ports are, three registers besides x0.  The     *)
(* programs have an instruction word each for every instruction they use.  *)
(***************************************************************************)
EXTENDS Retirement, SequencesExt

x1 == {2}
x2 == {3}
x3 == {2, 3}

None == [opcode |-> "FENCE", funct3 |-> 0, funct7 |-> FALSE, funct12 |-> "",
         rd |-> X0, rs1 |-> X0, rs2 |-> X0, imm |-> {}]

R(f3, f7, rd, rs1, rs2) ==
  [None EXCEPT !.opcode = "RTYPE", !.funct3 = f3, !.funct7 = f7, !.rd = rd,
               !.rs1 = rs1, !.rs2 = rs2]
I(op, f3, rd, rs1, imm) ==
  [None EXCEPT !.opcode = op, !.funct3 = f3, !.rd = rd, !.rs1 = rs1, !.imm = imm]
S(f3, rs2, rs1, imm) ==
  [None EXCEPT !.opcode = "STYPE", !.funct3 = f3, !.rs1 = rs1, !.rs2 = rs2, !.imm = imm]
B(f3, rs1, rs2, imm) ==
  [None EXCEPT !.opcode = "BTYPE", !.funct3 = f3, !.rs1 = rs1, !.rs2 = rs2, !.imm = imm]
C(f3, csr, rd, rs1) ==
  [None EXCEPT !.opcode = "ITYPE_E", !.funct3 = f3, !.funct12 = csr, !.rd = rd, !.rs1 = rs1]
Srai(rd, rs1, imm) == [I("ITYPE", 5, rd, rs1, imm) EXCEPT !.funct7 = TRUE]
Jal(rd, imm) == I("JTYPE", 0, rd, X0, imm)
Ebreak == C(0, "ebreak", X0, X0)
Mret   == C(0, "mret", X0, X0)

\* The immediate of a byte distance or address.
At(n) == WordOf(n % (2 ^ Width))

\* Arithmetic between two words that lw fetches from the program itself.
ArithProgram(first, second) ==
  << I("ITYPE_L", 2, x1, X0, At(first)), I("ITYPE_L", 2, x2, X0, At(second)),
     R(0, FALSE, x3, x1, x2), R(0, TRUE, x1, x3, x2), R(2, FALSE, x3, x1, x2),
     R(4, FALSE, x3, x3, x1), I("ITYPE", 0, x2, x3, At(-3)), I("ITYPE", 3, X0, x2, At(5)),
     Srai(x2, x2, {1}), I("ITYPE", 7, x3, x2, At(3)), R(1, FALSE, x1, x1, x3),
     I("UTYPE_A", 0, x3, X0, At(-8)), I("UTYPE_L", 0, x2, X0, At(96)), Ebreak >>

\* Every access size, signed and unsigned, over the bytes of one word.
MemoryProgram(base) ==
  << I("ITYPE", 0, x1, X0, At(base)), I("ITYPE_L", 2, x2, X0, At(4)),
     S(0, x2, x1, At(1)), S(1, x2, x1, At(2)), I("ITYPE_L", 0, x3, x1, At(1)),
     I("ITYPE_L", 1, x3, x1, At(2)), I("ITYPE_L", 4, x2, x1, At(3)),
     I("ITYPE_L", 5, x3, x1, {}), S(2, x3, x1, At(-4)), S(0, x2, x1, {}),
     I("ITYPE_L", 2, x1, x1, {}), I("ITYPE_L", 0, X0, X0, At(8)), Ebreak >>

\* The next instruction is overwritten by one from the end of the program.
SelfModifyingProgram ==
  << I("ITYPE_L", 2, x1, X0, At(16)), S(2, x1, X0, At(8)), I("ITYPE", 0, x3, X0, At(1)),
     Ebreak, I("ITYPE", 0, x3, X0, At(2)) >>

\* Both ways of each branch, and calls with and without a return address.
JumpProgram(f3, first, second) ==
  << I("ITYPE", 0, x1, X0, At(first)), I("ITYPE", 0, x2, X0, At(second)),
     B(f3, x1, x2, At(8)), I("ITYPE", 0, x3, X0, At(1)), B(f3, x2, x1, At(12)),
     Jal(x3, At(8)), I("ITYPE_J", 0, X0, x3, {}), I("ITYPE_J", 0, x2, x3, At(12)), Ebreak >>

\* A loop that reads and writes mip while its handler, at 40, may interrupt it.
InterruptProgram(f3) ==
  << I("ITYPE", 0, x1, X0, At(40)), C(1, "Mtvec", X0, x1), C(5, "Mie", X0, {MEI}),
     C(5, "Mstatus", x2, {MIE}), I("ITYPE", 0, x2, X0, {MEI}),
     C(f3, "Mip", x3, x2), B(0, X0, x3, At(-8)), Jal(X0, At(-8)), None, None,
     C(2, "Mepc", x1, x2), C(3, "Mip", x1, X0), Mret >>

\* csrrw with rd = rs1; writes to both ports.
PortProgram ==
  << I("ITYPE", 0, x1, X0, At(64)), S(0, x1, x1, {}), S(1, x1, x1, At(1)),
     C(1, "Mepc", x1, x1), C(2, "Mepc", x2, X0), C(7, "Mepc", x2, {3}), Ebreak >>

Programs ==
  << ArithProgram(8, 40), ArithProgram(36, 12), MemoryProgram(56), SelfModifyingProgram,
     JumpProgram(4, -3, 2), JumpProgram(7, 1, 1), InterruptProgram(3),
     InterruptProgram(2), InterruptProgram(7), PortProgram >>

Listing == FlattenSeq(Programs)
Offset(p) == Len(FlattenSeq(SubSeq(Programs, 1, p - 1)))

MCInstruction(w) == IF Value(w) < Len(Listing) THEN Listing[Value(w) + 1] ELSE None

Image(program, offset) ==
  [cell \in SUBSET {2, 3, 4, 5, 6} |->
     LET n == Value(cell) \div 4
     IN IF n < Len(program) THEN WordOf(offset + n) ELSE {}]

MCBits      == 0 .. 7
MCWords     == SUBSET MCBits
MCMemBits   == 2 .. 6
MCImmBits   == {2, 3}
MCAlignBits == {0, 1}
MCIOBits    == 0 .. 5
MCProgram   == ToSet(Listing) \cup {None}
MCPowerUp   == {MCBits \ {5}}
MCFlags     == {{"V", "N", "C", "Z"}}
MCReset     == {2, 3, 4, 5}
MCImages    == {Image(Programs[p], Offset(p)) : p \in 1 .. Len(Programs)}
=============================================================================
