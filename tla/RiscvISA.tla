------------------------------ MODULE RiscvISA ------------------------------
(***************************************************************************)
(* What the core promises to a program: one step per instruction, taken    *)
(* from byte addressed memory, and an interrupt between two instructions   *)
(* and nowhere else.  No cycles, no buses, no RAM port.                    *)
(*                                                                         *)
(* The device may raise mip.MEI at any moment.  An instruction that reads  *)
(* and writes mip is still one indivisible step: the bit is raised before  *)
(* it or after it.                                                         *)
(***************************************************************************)
EXTENDS RV32I

CONSTANTS
  ByteWidth, MemBits, IO_BIT, IOBits, Ports,
  MIE, MEI, RegId, X0, AlignBits, ResetVector,
  Instruction(_)

VARIABLES
  running,       \* the reset is over
  pc, bank,
  bytes,         \* memory, by byte address
  io,
  mstatus, mie, mip, mepc, mtvec,
  in_handler     \* an interrupt was taken and mret has not ended it

isaVars == <<running, pc, bank, bytes, io, mstatus, mie, mip, mepc, mtvec, in_handler>>

-----------------------------------------------------------------------------
\* Memory.  An access of 2^size bytes is aligned by dropping low address bits.
AddressBits == MemBits \cup {0, 1}
Low(size)   == {b \in {0, 1} : b < size}
Base(addr, size) == (addr \cap AddressBits) \ Low(size)

\* The first bit in its word of the byte with these low address bits, and the
\* number of bits of an access.
Offset(low)  == ByteWidth * ((IF 0 \in low THEN 1 ELSE 0) + (IF 1 \in low THEN 2 ELSE 0))
Length(size) == Offset(Low(size)) + ByteWidth

ReadBytes(addr, size) ==
  UNION {{b + Offset(k) : b \in bytes[Base(addr, size) \cup k]} : k \in SUBSET Low(size)}

WriteBytes(addr, size, w) ==
  [a \in SUBSET AddressBits |->
     IF a \ Low(size) = Base(addr, size)
     THEN {b \in 0 .. (ByteWidth - 1) : b + Offset(a \cap Low(size)) \in w}
     ELSE bytes[a]]

\* The word of the same two's complement number as a shorter one: the copies of
\* its sign go to the top.
Extended(w, length) ==
  IF length - 1 \in w THEN w \cup {b \in Bits : b >= length} ELSE w

Read(r)     == IF r = X0 THEN {} ELSE bank[r]
Write(r, w) == bank' = IF r = X0 THEN bank ELSE [bank EXCEPT ![r] = w]

Current == Instruction(ReadBytes(pc, 2))
NextPC  == Add(pc, {2})

\* The pending bit may have been raised meanwhile.
Pend(value) == {value, value \cup {MEI}}

\* Interrupts are looked at when an instruction has retired, and come first.
InterruptDue ==
  MIE \in mstatus /\ MEI \in mie /\ MEI \in mip /\ ~in_handler

Executes(opcodes) == running /\ ~InterruptDue /\ Current.opcode \in opcodes

NoCSR     == mip' \in Pend(mip) /\ UNCHANGED <<mstatus, mie, mepc, mtvec, in_handler>>
NoStore   == UNCHANGED <<bytes, io>>
Plain     == NoCSR /\ NoStore /\ UNCHANGED running
-----------------------------------------------------------------------------
Arith ==
  /\ Executes({"RTYPE", "ITYPE"})
  /\ LET i  == Current
         op == <<i.funct3, i.funct7 /\ (i.opcode = "RTYPE" \/ i.funct3 \in {1, 5})>>
     IN Write(i.rd, Arithmetic(op, Read(i.rs1),
                               IF i.opcode = "RTYPE" THEN Read(i.rs2) ELSE i.imm))
  /\ pc' = NextPC
  /\ Plain

Upper ==
  /\ Executes({"UTYPE_L", "UTYPE_A"})
  /\ LET i == Current
     IN Write(i.rd, IF i.opcode = "UTYPE_L" THEN i.imm ELSE Add(pc, i.imm))
  /\ pc' = NextPC
  /\ Plain

Jump ==
  /\ Executes({"JTYPE", "ITYPE_J"})
  /\ LET i == Current
     IN /\ pc' = Add(IF i.opcode = "JTYPE" THEN pc ELSE Read(i.rs1), i.imm)
        /\ Write(i.rd, NextPC)
  /\ Plain

Branch ==
  /\ Executes({"BTYPE"})
  /\ LET i == Current
     IN pc' = IF Comparison(i.funct3, Read(i.rs1), Read(i.rs2)) THEN Add(pc, i.imm) ELSE NextPC
  /\ Plain /\ UNCHANGED bank

\* lb, lh, lw, lbu and lhu.
LoadMemory ==
  /\ Executes({"ITYPE_L"})
  /\ LET i    == Current
         size == i.funct3 % 4
         data == ReadBytes(Add(Read(i.rs1), i.imm), size)
     IN Write(i.rd, IF i.funct3 < 4 THEN Extended(data, Length(size)) ELSE data)
  /\ pc' = NextPC
  /\ Plain

\* sb, sh and sw; above IO_BIT they write a port.
Store ==
  /\ Executes({"STYPE"})
  /\ LET i    == Current
         addr == Add(Read(i.rs1), i.imm)
         data == Read(i.rs2)
     IN IF IO_BIT \in addr
        THEN /\ io' = [p \in Ports |->
                         IF addr \cap IOBits = p THEN data \cap (0 .. (ByteWidth - 1)) ELSE io[p]]
             /\ UNCHANGED bytes
        ELSE bytes' = WriteBytes(addr, i.funct3, data) /\ UNCHANGED io
  /\ pc' = NextPC
  /\ NoCSR /\ UNCHANGED <<running, bank>>

\* What a CSR instruction writes to a CSR that holds old.
CSRValue(i, old) ==
  CASE i.funct3 = 1 -> Read(i.rs1)
    [] i.funct3 = 2 -> old \cup Read(i.rs1)
    [] i.funct3 = 3 -> old \ Read(i.rs1)
    [] i.funct3 = 5 -> i.rs1
    [] i.funct3 = 6 -> old \cup i.rs1
    [] i.funct3 = 7 -> old \ i.rs1

\* csrrs and csrrc with rs1 = x0 do nothing at all (rams/machine_code/iType_CSRs.md).
CSRVoid ==
  /\ Executes({"ITYPE_E"})
  /\ Current.funct3 \in {2, 3} /\ Current.rs1 = X0
  /\ pc' = NextPC
  /\ Plain /\ UNCHANGED bank

\* The pending bit an instruction sees is the one it modifies.
CSR ==
  /\ Executes({"ITYPE_E"})
  /\ Current.funct3 \in {1, 2, 3, 5, 6, 7}
  /\ ~(Current.funct3 \in {2, 3} /\ Current.rs1 = X0)
  /\ \E seen \in Pend(mip) :
       LET i   == Current
           csr == i.funct12
           old == CASE csr = "Mstatus" -> mstatus
                    [] csr = "Mie"     -> mie
                    [] csr = "Mtvec"   -> mtvec
                    [] csr = "Mepc"    -> mepc
                    [] csr = "Mip"     -> seen
                    [] OTHER           -> {}
           new == CSRValue(i, old)
       IN /\ Write(i.rd, old)
          /\ mstatus' = IF csr = "Mstatus" THEN new ELSE mstatus
          /\ mie'     = IF csr = "Mie"     THEN new ELSE mie
          /\ mtvec'   = IF csr = "Mtvec"   THEN new ELSE mtvec
          /\ mepc'    = IF csr = "Mepc"    THEN new ELSE mepc
          /\ mip'  \in Pend(IF csr = "Mip" THEN new ELSE seen)
  /\ pc' = NextPC
  /\ NoStore /\ UNCHANGED <<running, in_handler>>

Mret ==
  /\ Executes({"ITYPE_E"})
  /\ Current.funct3 = 0 /\ Current.funct12 = "mret"
  /\ pc' = mepc \ AlignBits
  /\ in_handler' = FALSE
  /\ mip' \in Pend(mip)
  /\ NoStore /\ UNCHANGED <<running, bank, mstatus, mie, mepc, mtvec>>

\* The handler is entered; a further edge may pend at once, but has to wait.
Interrupt ==
  /\ running /\ InterruptDue
  /\ mepc' = pc
  /\ pc' = mtvec
  /\ in_handler' = TRUE
  /\ mip' \in Pend(mip \ {MEI})
  /\ NoStore /\ UNCHANGED <<running, bank, mstatus, mie, mtvec>>

\* The reset is over: interrupts are off, the program begins where the word at
\* the reset vector says.
Start ==
  /\ ~running /\ running' = TRUE
  /\ pc' = ReadBytes(ResetVector, 2)
  /\ mie' = {}
  /\ in_handler' = FALSE
  /\ mip' \in Pend(mip \ {MEI})
  /\ NoStore /\ UNCHANGED <<bank, mstatus, mepc, mtvec>>

Init == ~running /\ ~in_handler

Next ==
  \/ Start \/ Interrupt
  \/ Arith \/ Upper \/ Jump \/ Branch \/ LoadMemory \/ Store
  \/ CSRVoid \/ CSR \/ Mret

Spec == Init /\ [][Next]_isaVars
=============================================================================
