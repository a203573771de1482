------------------------------- MODULE Units -------------------------------
(***************************************************************************)
(* The combinational units and their benches, in one run.  The variable    *)
(* bench says what is being run: one of the benches, all inputs of a small *)
(* ALU, or the assembler against the immediate generator.                  *)
(***************************************************************************)
EXTENDS Integers, FiniteSets

CONSTANTS
  SmallBits,    \* the width at which the ALU is given all its inputs
  Words32       \* the words left in a RAM's port or image at power up

\* A word has bits, numbered from 0.
ASSUME SmallBitsAssumption ==
  /\ Cardinality(SmallBits) \in Nat \ {0}
  /\ SmallBits = 0 .. (Cardinality(SmallBits) - 1)

VARIABLES func_op_i, a_i, b_i
VARIABLES timeStep, clk_i, clk_seen, bench, pins, cells, port
VARIABLES test, funct3, byte_addr_i, wd_i, mwr_i, mrd_i, mem, storage_data_out,
          port_from, outcome

A == INSTANCE ALUConformance WITH Bits <- SmallBits
U == INSTANCE UnitBenches
P == INSTANCE PmmuBench WITH Bits <- 0 .. 31, ByteWidth <- 8, MemBits <- 2 .. 11

Benches == U!Combinational \cup U!Clocked \cup {"Pmmu", "conformance", "assembler"}

alu_vars == <<func_op_i, a_i, b_i>>
unit_vars == <<timeStep, clk_i, clk_seen, bench, pins, cells, port>>
pmmu_vars == <<test, funct3, byte_addr_i, wd_i, mwr_i, mrd_i, mem, storage_data_out,
               port_from, outcome>>

\* The operands of the assembler: few bits, or all but few.
Operands == U!Formats \X ({{}} \cup {{i, j} : i, j \in 0 .. 20}) \X BOOLEAN

UnitsInit ==
  /\ bench \in Benches
  /\ IF bench = "conformance" THEN A!Init ELSE func_op_i = A!AddOp /\ a_i = {} /\ b_i = {}
  /\ U!BenchInit
  /\ \E w \in Words32 :
       /\ bench \in {"Memory", "Pmmu"} \/ w = {}
       /\ IF bench = "assembler"
          THEN pins \in Operands /\ cells = <<>> /\ port = w
          ELSE U!UnitInit(w)
       /\ P!PmmuInit(w)

UnitsNext ==
  \/ bench = "conformance" /\ A!Next /\ UNCHANGED <<unit_vars, pmmu_vars>>
  \/ U!UnitNext /\ UNCHANGED <<alu_vars, pmmu_vars>>
  \/ bench = "Pmmu" /\ P!PmmuNext /\ UNCHANGED <<alu_vars, bench, pins, cells, port>>

UnitsSpec == UnitsInit /\ [][UnitsNext]_<<alu_vars, unit_vars, pmmu_vars>>
-----------------------------------------------------------------------------
\* The ALU yields what the instruction set asks for.
ResultCorrect == bench = "conformance" => A!ResultCorrect

\* All six branches are decided as a comparison of the operands would be.
BranchCorrect == bench = "conformance" => A!BranchCorrect

\* No bench ends in abort(), the outputs are those the benches note, and a test
\* of the memory unit never looks at a word read for another.
BenchesPass ==
  /\ outcome # "failed"
  /\ U!NotedResults
  /\ U!RegistersKept
  /\ U!ReadBack
  /\ bench = "Pmmu" => P!ReadsAreFresh

\* A store of the memory unit touches its own word, and merges into what it
\* read itself.
StoresMergeFresh == P!StoresMergeFresh

\* The immediate generator gives back every operand in range that the assembler
\* puts into an instruction of each format.
ImmediateRoundTrip ==
  bench = "assembler" =>
    LET imm == U!Operand(pins[1], pins[2], pins[3])
    IN U!imm_o(U!Assembled(pins[1], imm)) = U!Meant(pins[1], imm)
=============================================================================
