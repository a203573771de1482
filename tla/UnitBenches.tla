---------------------------- MODULE UnitBenches ----------------------------
(***************************************************************************)
(* The benches of the ALU at 32 and at 8 bits, of the immediate generator, *)
(* the register file and the memory (simulation/alu, immediate,            *)
(* register_file, memory).  Each is a program that sets some pins before   *)
(* the evaluation of a given time; the register file and the memory act on *)
(* the falling edge, the others are combinational.                         *)
(***************************************************************************)
EXTENDS Immediate, Testbench, Sequences, TLC

VARIABLES
  bench,    \* which program runs
  pins,     \* the unit's input pins
  cells,    \* the register bank, or the memory
  port      \* the output register of the memory

vars == <<clock, bench, pins, cells, port>>

ALU32 == INSTANCE ALU WITH Bits <- 0 .. 31
ALU8  == INSTANCE ALU WITH Bits <- 0 .. 7

Byte(n) == Literal(0, n)

\* The stimuli of a bench, as <<time, the pins it sets>>; for the ALUs and the
\* immediate generator, by time, with the output the bench's comment gives.

ALU_tb == <<
  <<ALU32!AddOp,  Byte(5), Byte(5), Byte(10)>>,
  <<ALU32!SubOp,  Byte(5), Byte(2), Byte(3)>>,
  <<ALU32!AndOp,  Byte(5), Byte(2), {}>>,
  <<ALU32!AndOp,  Byte(7), Byte(2), Byte(2)>>,
  <<ALU32!OrOp,   Byte(5), Byte(2), Byte(7)>>,
  <<ALU32!XorOp,  Byte(5), Byte(2), Byte(7)>>,
  <<ALU32!XorOp,  Byte(5), Byte(3), Byte(6)>>,
  <<ALU32!SltuOp, Byte(3), Byte(5), Byte(1)>>,
  <<ALU32!SltuOp, Byte(5), Byte(3), {}>>,
  <<ALU32!SltOp,  Literal(\hFFFF, \hFFFD), Byte(5), Byte(1)>>,
  <<ALU32!SltOp,  Byte(5), Literal(\hFFFF, \hFFFD), {}>>,
  <<ALU32!SllOp,  Byte(\h90), Byte(2), Byte(\h240)>>,
  <<ALU32!SrlOp,  Byte(\h90), Byte(2), Byte(\h24)>>,
  <<ALU32!SraOp,  Byte(\h90), Byte(2), Byte(\h24)>>,
  <<ALU32!SraOp,  Literal(\h8000, \h90), Byte(2), Literal(\hE000, \h24)>> >>

\* The comments give flags.
ALU_8bit_tb == <<
  <<ALU8!AddOp, Byte(5),   Byte(5),   {}>>,
  <<ALU8!SubOp, Byte(100), Byte(80),  {}>>,
  <<ALU8!SubOp, Byte(80),  Byte(100), {"N", "C"}>>,
  <<ALU8!SubOp, Byte(80),  Byte(176), {"V", "N", "C"}>>,
  <<ALU8!SubOp, Byte(208), Byte(112), {"V"}>>,
  <<ALU8!SubOp, Byte(208), Byte(208), {"Z"}>>,
  <<ALU8!AddOp, Byte(127), Byte(127), {"V", "N"}>>,
  <<ALU8!AddOp, Byte(127), Byte(1),   {"V", "N"}>>,
  <<ALU8!AddOp, Byte(128), Byte(255), {"V", "C"}>> >>

Immediate_tb == <<
  <<Literal(0, \h0013), {}>>,
  <<Literal(\h0030, \h1013), Byte(3)>>,
  <<Literal(\h0051, \h2423), Byte(8)>>,
  <<Literal(\h00A9, \h8863), Byte(16)>>,
  <<Literal(\h8765, \h4537), Literal(\h8765, \h4000)>>,
  <<Literal(\h0200, \h00EF), Byte(32)>> >>

RegisterFile_tb ==
  { <<10, [data |-> Byte(\hA0), we |-> 0]>>,
    <<25, [we |-> 1]>>,
    <<30, [dst |-> 2, srcA |-> 2, we |-> 0, data |-> Byte(\hB0)]>>,
    <<45, [we |-> 1]>>,
    <<50, [dst |-> 0, srcA |-> 0, we |-> 0, data |-> Byte(\hC0)]>>,
    <<65, [we |-> 1]>> }

\* Time 30 is tested for twice, and the second sets the pins anew: the read the
\* first asks for is never made.
Memory_tb ==
  { <<10, [rd |-> 0, wr |-> 1]>>,
    <<20, [addr |-> 0]>>,
    <<30, [rd |-> 1, wr |-> 0, data |-> Byte(\hA0A0), addr |-> 5]>>,
    <<50, [rd |-> 0, wr |-> 1]>> }

Table(b) == CASE b = "ALU"       -> ALU_tb
              [] b = "ALU_8bit"  -> ALU_8bit_tb
              [] b = "Immediate" -> Immediate_tb
Events(b) == IF b = "RegisterFile" THEN RegisterFile_tb ELSE Memory_tb

Combinational == {"ALU", "ALU_8bit", "Immediate"}
Clocked       == {"RegisterFile", "Memory"}

iterations(b) == IF b \in {"ALU", "ALU_8bit"} THEN 200 ELSE 100

clearMem == [r \in 0 .. 31 |-> {}]

\* A bench starts with its pins low, the register file's as its program sets
\* them; the memory holds whatever image the build loads.
UnitInit(word) ==
  /\ pins = CASE bench = "RegisterFile" ->
                   [we |-> 1, data |-> Byte(\hA0), dst |-> 1, srcA |-> 0, srcB |-> 1]
              [] bench = "Memory"       -> [rd |-> 0, wr |-> 0, addr |-> 0, data |-> {}]
              [] OTHER                  -> <<>>
  /\ cells = CASE bench = "RegisterFile" -> clearMem
               [] bench = "Memory"       -> [a \in 0 .. 5 |-> word]
               [] OTHER                  -> <<>>
  /\ port = word

\* A combinational unit: the next line of the table every ten evaluations.
Tabled ==
  /\ bench \in Combinational /\ timeStep < iterations(bench)
  /\ pins' = IF timeStep % 10 = 0 /\ timeStep \div 10 \in 1 .. Len(Table(bench))
             THEN Table(bench)[timeStep \div 10]
             ELSE pins
  /\ timeStep' = timeStep + 1
  /\ UNCHANGED <<clk_i, clk_seen, bench, cells, port>>

\* Broken variant: register 0 is a register like the others.
bank_Zero(p) == IF Falls /\ p.we = 0 THEN [cells EXCEPT ![p.dst] = p.data] ELSE cells

\* The register bank after an evaluation with the pins p.
bank(p) ==
  IF Falls /\ p.we = 0 /\ p.dst # 0 THEN [cells EXCEPT ![p.dst] = p.data] ELSE cells

srcA_o == IF pins.srcA = 0 THEN {} ELSE cells[pins.srcA]
srcB_o == IF pins.srcB = 0 THEN {} ELSE cells[pins.srcB]

\* The memory: a read and a write on the same edge, the read of the old word.
MemoryWord(p) == IF Falls /\ p.wr = 0 THEN [cells EXCEPT ![p.addr] = p.data] ELSE cells
data_o(p)     == IF Falls /\ p.rd = 0 THEN cells[p.addr] ELSE port

ClockedStep ==
  /\ bench \in Clocked /\ timeStep < iterations(bench)
  /\ \/ \E e \in Events(bench) : e[1] = timeStep /\ pins' = e[2] @@ pins
     \/ (\A e \in Events(bench) : e[1] # timeStep) /\ pins' = pins
  /\ IF bench = "RegisterFile"
     THEN cells' = bank(pins') /\ UNCHANGED port
     ELSE cells' = MemoryWord(pins') /\ port' = data_o(pins')
  /\ step
  /\ UNCHANGED bench

UnitNext == Tabled \/ ClockedStep
-----------------------------------------------------------------------------
\* Every result the ALU benches and the immediate bench note for a stimulus is
\* what the unit gives; the flags are those of a subtraction.
NotedResults ==
  pins # <<>> =>
    CASE bench = "ALU" -> ALU32!y_o(pins[1], pins[2], pins[3]) = pins[4]
      [] bench = "ALU_8bit" ->
           pins[1] = ALU8!SubOp => ALU8!flags_o(pins[1], pins[2], pins[3]) = pins[4]
      [] bench = "Immediate" -> imm_o(pins[1]) = pins[2]
      [] OTHER -> TRUE

\* The register file's three assertions at the end of its bench, and its source
\* ports all along.
RegistersKept ==
  bench = "RegisterFile" =>
    /\ timeStep = iterations(bench) =>
         cells[0] = {} /\ cells[1] = Byte(\hA0) /\ cells[2] = Byte(\hB0)
    /\ pins.dst = 0 /\ timeStep > 50 => srcA_o = {} /\ srcB_o = Byte(\hA0)

\* What the memory bench writes it reads back, from the one word it wrote.
ReadBack ==
  bench = "Memory" /\ timeStep > 61 =>
    port = Byte(\hA0A0) /\ \A a \in 0 .. 4 : cells[a] = cells[0]
=============================================================================
