---------------------------- MODULE Units_proofs ----------------------------
(***************************************************************************)
(* The properties of the units' run that are about data, for an ALU of     *)
(* every width: what Combinational_proofs shows of the operators, carried  *)
(* over to the ALU and the immediate generator the run instantiates. Then, *)
(* of the bench of the memory unit, that its eighteen tests, which share   *)
(* one RAM and one set of pins, each look at a word they read themselves.  *)
(***************************************************************************)
EXTENDS Units, Sequences, TLAPS

N == INSTANCE Combinational_proofs WITH Bits <- SmallBits

unit_run == <<alu_vars, unit_vars, pmmu_vars>>

\* The ALU's definitions are the same in both instances.
LEMMA SameALU ==
  /\ N!WordBits
  /\ A!Width = N!Width /\ A!Word = N!Word /\ A!ALU_Ops = N!ALU_Ops /\ A!SubOp = N!SubOp
  /\ {A!SllOp, A!SrlOp, A!SraOp} = {N!SllOp, N!SrlOp, N!SraOp}
  /\ \A b : A!Value(b) = N!Value(b)
  /\ \A op, a, b : A!y_o(op, a, b) = N!y_o(op, a, b)
  /\ \A op, a, b : A!flags_o(op, a, b) = N!flags_o(op, a, b)
  /\ \A f, flags : A!take_branch(f, flags) = N!take_branch(f, flags)
  /\ \A op, a, b : A!Arithmetic(op, a, b) = N!Arithmetic(op, a, b)
  /\ \A f, a, b : A!Comparison(f, a, b) = N!Comparison(f, a, b)
  <1> USE DEF A!Cardinality, N!Cardinality, Cardinality, A!Width, N!Width, A!Sign, N!Sign,
      A!Word, N!Word, A!Value, N!Value, A!Truth, N!Truth
  <1> USE DEF A!AddOp, N!AddOp, A!SubOp, N!SubOp, A!SllOp, N!SllOp, A!SltOp, N!SltOp,
      A!SltuOp, N!SltuOp, A!XorOp, N!XorOp, A!SrlOp, N!SrlOp, A!SraOp, N!SraOp,
      A!OrOp, N!OrOp, A!AndOp, N!AndOp
  <1>1. N!WordBits
    BY SmallBitsAssumption DEF N!WordBits
  <1>2. /\ A!Width = N!Width /\ A!Word = N!Word /\ A!ALU_Ops = N!ALU_Ops /\ A!SubOp = N!SubOp
        /\ {A!SllOp, A!SrlOp, A!SraOp} = {N!SllOp, N!SrlOp, N!SraOp}
        /\ \A b : A!Value(b) = N!Value(b)
    BY DEF A!ALU_Ops, N!ALU_Ops
  <1> USE DEF A!Xor, N!Xor, A!Carry, N!Carry, A!Borrow, N!Borrow, A!Add, N!Add, A!Sub, N!Sub,
      A!Below, N!Below, A!LessSigned, N!LessSigned, A!ShiftRight, N!ShiftRight, A!sext, N!sext,
      A!y_o, N!y_o
  <1>3. \A op, a, b : A!y_o(op, a, b) = N!y_o(op, a, b)
    OBVIOUS
  <1>4. \A op, a, b : A!flags_o(op, a, b) = N!flags_o(op, a, b)
    BY DEF A!flags_o, N!flags_o, A!carry_borrow_l, N!carry_borrow_l, A!carry_borrow_h,
       N!carry_borrow_h
  <1>5. \A f, flags : A!take_branch(f, flags) = N!take_branch(f, flags)
    BY DEF A!take_branch, N!take_branch
  <1>6. \A op, a, b : A!Arithmetic(op, a, b) = N!Arithmetic(op, a, b)
    BY DEF A!Arithmetic, N!Arithmetic, A!WordOf, N!WordOf, A!Signed, N!Signed,
       A!Distance, N!Distance
  <1>7. \A f, a, b : A!Comparison(f, a, b) = N!Comparison(f, a, b)
    BY DEF A!Comparison, N!Comparison, A!Signed, N!Signed
  <1> QED
    BY <1>1, <1>2, <1>3, <1>4, <1>5, <1>6, <1>7

\* So are those of the immediate generator and of the assembler.
LEMMA SameImmediate ==
  /\ U!Formats = N!Formats
  /\ \A ir : U!imm_o(ir) = N!imm_o(ir)
  /\ \A format, imm : U!Assembled(format, imm) = N!Assembled(format, imm)
  /\ \A format, imm : U!Meant(format, imm) = N!Meant(format, imm)
  /\ \A format, bits, negative : U!Operand(format, bits, negative) = N!Operand(format, bits, negative)
  <1> USE DEF U!Field, N!Field, U!Sign_ext, N!Sign_ext, U!ITYPE, N!ITYPE, U!ITYPE_L, N!ITYPE_L,
      U!ITYPE_J, N!ITYPE_J, U!ITYPE_E, N!ITYPE_E, U!STYPE, N!STYPE, U!BTYPE, N!BTYPE,
      U!UTYPE_L, N!UTYPE_L, U!UTYPE_A, N!UTYPE_A, U!JTYPE, N!JTYPE
  <1>1. U!Formats = N!Formats
    BY DEF U!Formats, N!Formats
  <1>2. \A ir : U!imm_o(ir) = N!imm_o(ir)
    BY DEF U!imm_o, N!imm_o, U!imm_src, N!imm_src, U!B_imm, N!B_imm
  <1>3. \A format, imm : U!Assembled(format, imm) = N!Assembled(format, imm)
    BY DEF U!Assembled, N!Assembled, U!Loads_imm, N!Loads_imm, U!Jalr_imm, N!Jalr_imm,
       U!Stores_imm, N!Stores_imm, U!U_imm, N!U_imm, U!BtypeBranch_imm, N!BtypeBranch_imm,
       U!Jal_imm, N!Jal_imm
  <1>4. /\ \A format, imm : U!Meant(format, imm) = N!Meant(format, imm)
        /\ \A format, bits, negative :
             U!Operand(format, bits, negative) = N!Operand(format, bits, negative)
    BY DEF U!Meant, N!Meant, U!Operand, N!Operand, U!Lowest, N!Lowest, U!SignBit, N!SignBit
  <1> QED
    BY <1>1, <1>2, <1>3, <1>4
-----------------------------------------------------------------------------
\* The ALU's inputs are an operation and two words in every bench, and while the
\* assembler runs its operand stays the one it was given.
InputsInv ==
  /\ func_op_i \in A!ALU_Ops /\ a_i \in A!Word /\ b_i \in A!Word
  /\ bench = "assembler" => pins \in Operands

LEMMA InputsKept == UnitsSpec => []InputsInv
  <1>1. UnitsInit => InputsInv
    <2>1. A!AddOp \in A!ALU_Ops /\ {} \in A!Word
      BY DEF A!ALU_Ops, A!Word
    <2> QED
      BY <2>1 DEF UnitsInit, InputsInv, A!Init
  <1>2. InputsInv /\ [UnitsNext]_unit_run => InputsInv'
    <2> SUFFICES ASSUME InputsInv, [UnitsNext]_unit_run
                 PROVE  InputsInv'
      OBVIOUS
    <2>1. CASE bench = "conformance" /\ A!Next /\ UNCHANGED <<unit_vars, pmmu_vars>>
      BY <2>1 DEF InputsInv, A!Next, unit_vars
    <2>2. CASE U!UnitNext /\ UNCHANGED <<alu_vars, pmmu_vars>>
      <3>1. bench' = bench /\ bench # "assembler"
        BY <2>2 DEF U!UnitNext, U!Tabled, U!ClockedStep, U!Combinational, U!Clocked
      <3> QED
        BY <2>2, <3>1 DEF InputsInv, alu_vars
    <2>3. CASE P!PmmuNext /\ UNCHANGED <<alu_vars, bench, pins, cells, port>>
      BY <2>3 DEF InputsInv, alu_vars
    <2>4. CASE UNCHANGED unit_run
      BY <2>4 DEF InputsInv, unit_run, alu_vars, unit_vars
    <2> QED
      BY <2>1, <2>2, <2>3, <2>4 DEF UnitsNext
  <1> QED
    BY <1>1, <1>2, PTL DEF UnitsSpec, unit_run

\* For words of every width the ALU yields, for every operation and operands, the
\* word the instruction set asks for (a shift by the width or more left out).
THEOREM ALUComputes == UnitsSpec => []ResultCorrect
  <1>1. InputsInv => ResultCorrect
    BY SameALU, N!Operations DEF InputsInv, ResultCorrect, A!ResultCorrect, A!IsShift
  <1> QED
    BY <1>1, InputsKept, PTL

\* The flags of a subtraction decide all six branches as the comparison of the
\* operands does, whatever the width.
THEOREM BranchesDecide == UnitsSpec => []BranchCorrect
  <1>1. InputsInv => BranchCorrect
    BY SameALU, N!Branches DEF InputsInv, BranchCorrect, A!BranchCorrect
  <1> QED
    BY <1>1, InputsKept, PTL

\* The immediate generator gives back what the assembler's encoders placed, for
\* every operand of the run.
THEOREM OperandsComeBack == UnitsSpec => []ImmediateRoundTrip
  <1>1. InputsInv => ImmediateRoundTrip
    <2> SUFFICES ASSUME InputsInv, bench = "assembler"
                 PROVE  LET imm == U!Operand(pins[1], pins[2], pins[3])
                        IN U!imm_o(U!Assembled(pins[1], imm)) = U!Meant(pins[1], imm)
      BY DEF ImmediateRoundTrip
    <2>1. /\ pins[1] \in N!Formats /\ pins[2] \in SUBSET Int /\ pins[3] \in BOOLEAN
      <3>1. {{}} \cup {{i, j} : i, j \in 0 .. 20} \subseteq SUBSET Int
        OBVIOUS
      <3> QED
        BY <3>1, SameImmediate DEF InputsInv, Operands
    <2>2. N!InRange(pins[1], N!Operand(pins[1], pins[2], pins[3]))
      BY <2>1, N!OperandsInRange
    <2>3. N!imm_o(N!Assembled(pins[1], N!Operand(pins[1], pins[2], pins[3])))
            = N!Meant(pins[1], N!Operand(pins[1], pins[2], pins[3]))
      BY <2>1, <2>2, N!OperandsRoundTrip
    <2> QED
      BY <2>3, SameImmediate
  <1> QED
    BY <1>1, InputsKept, PTL
-----------------------------------------------------------------------------
(* The memory unit's bench, for every word left in the RAM's port. The clock   *)
(* falls ten evaluations after the base time of a test, and for a merge once   *)
(* more twenty later.                                                          *)
LEMMA TestKinds ==
  /\ Len(P!Tests) = 18
  /\ \A n \in 1 .. 11 : P!Tests[n].kind = "load"
  /\ P!Tests[12].kind = "word" /\ P!Tests[12].funct3 = 2
  /\ \A n \in 13 .. 18 : P!Tests[n].kind = "part"
  <1> USE DEF P!A_Load, P!A_Store, P!iType_lbu_byte4, P!iType_lbu_byte3, P!iType_lbu_byte2,
      P!iType_lbu_byte1, P!iType_lhu_word2, P!iType_lhu_word1, P!iType_lw_addr0x0A,
      P!iType_lb_byte1, P!iType_lb_byte2, P!iType_lh_word2_addr_d18,
      P!iType_lh_word2_addr_d19, P!sType_sw, P!sType_sh_word1, P!sType_sh_word2,
      P!sType_sb_byte1, P!sType_sb_byte2, P!sType_sb_byte3, P!sType_sb_byte4
  <1>1. Len(P!Tests) = 18
    BY DEF P!Tests
  <1>2. /\ P!Tests[1].kind = "load" /\ P!Tests[2].kind = "load" /\ P!Tests[3].kind = "load"
        /\ P!Tests[4].kind = "load" /\ P!Tests[5].kind = "load" /\ P!Tests[6].kind = "load"
        /\ P!Tests[7].kind = "load" /\ P!Tests[8].kind = "load" /\ P!Tests[9].kind = "load"
        /\ P!Tests[10].kind = "load" /\ P!Tests[11].kind = "load"
    BY DEF P!Tests
  <1>3. P!Tests[12].kind = "word" /\ P!Tests[12].funct3 = 2
    BY DEF P!Tests
  <1>4. /\ P!Tests[13].kind = "part" /\ P!Tests[14].kind = "part" /\ P!Tests[15].kind = "part"
        /\ P!Tests[16].kind = "part" /\ P!Tests[17].kind = "part" /\ P!Tests[18].kind = "part"
    BY DEF P!Tests
  <1> QED
    BY <1>1, <1>2, <1>3, <1>4

\* The clock's pin and what the last evaluation saw of it.
ClockRuns ==
  /\ timeStep \in Nat
  /\ clk_i = (timeStep \div 10) % 2
  /\ clk_seen = IF timeStep = 0 THEN 0 ELSE ((timeStep - 1) \div 10) % 2

LEMMA ClockFalls ==
  ASSUME ClockRuns
  PROVE  /\ P!Falls <=> timeStep > 0 /\ timeStep % 20 = 0
         /\ P!step => ClockRuns'
  <1>1. timeStep \in Nat
    BY DEF ClockRuns
  <1>2. PICK h \in Nat, r \in 0 .. 19 : timeStep = 20 * h + r
    <2> DEFINE K == timeStep \div 20
    <2>1. K \in Int /\ 20 * K <= timeStep /\ timeStep < 20 * K + 20
      BY <1>1
    <2> HIDE DEF K
    <2>2. K \in Nat /\ timeStep - 20 * K \in 0 .. 19
      BY <1>1, <2>1
    <2> QED
      BY <1>1, <2>1, <2>2
  <1>3. /\ timeStep % 20 = r
        /\ (timeStep + 1) % 10 = 0 <=> r \in {9, 19}
        /\ timeStep \div 10 = IF r < 10 THEN 2 * h ELSE 2 * h + 1
        /\ timeStep > 0 => (timeStep - 1) \div 10 = IF r = 0 THEN 2 * h - 1
                                                    ELSE IF r < 11 THEN 2 * h ELSE 2 * h + 1
        /\ (timeStep + 1) \div 10 = IF r < 9 THEN 2 * h ELSE IF r < 19 THEN 2 * h + 1 ELSE 2 * h + 2
    BY <1>2
  <1>4. /\ (2 * h) % 2 = 0 /\ (2 * h + 1) % 2 = 1 /\ (2 * h + 2) % 2 = 0
        /\ h > 0 => (2 * h - 1) % 2 = 1
    BY <1>2
  <1>5. P!Falls <=> timeStep > 0 /\ timeStep % 20 = 0
    BY <1>1, <1>2, <1>3, <1>4 DEF ClockRuns, P!Falls
  <1>6. ASSUME P!step PROVE ClockRuns'
    <2>1. timeStep' = timeStep + 1 /\ clk_seen' = clk_i
      BY <1>6 DEF P!step
    <2>2. clk_i' = (timeStep' \div 10) % 2
      BY <1>1, <1>2, <1>3, <1>4, <1>6 DEF ClockRuns, P!step
    <2> QED
      BY <1>1, <2>1, <2>2 DEF ClockRuns
  <1> QED
    BY <1>5, <1>6

At        == timeStep - P!baseTime(test)
Kind      == P!Tests[test].kind
Addressed == P!word_addr(P!Tests[test].addr)

\* The running test at some time before its end. The tests of a kind leave the
\* enables as the next ones need them, but the one store of a word leaves the
\* write on: the edge in the pause after it stores the same word once more.
TestRuns ==
  /\ At <= P!duration(test)
  /\ At >= (IF test = 1 THEN -10 ELSE IF test = 13 THEN -20 ELSE 0)
  /\ At > 5 => byte_addr_i = P!Tests[test].addr
  /\ test <= 11 => mwr_i = 1
  /\ test = 12 => (mwr_i = 0 <=> At > 5)
  /\ test = 12 /\ At > 0 => funct3 = 2
  /\ test = 13 /\ mwr_i = 0 /\ At <= 0 => funct3 = 2
  /\ (test = 12 /\ At > 10) \/ (test = 13 /\ At <= 0 /\ mwr_i = 0) =>
       (P!word_addr(byte_addr_i) \in DOMAIN mem => mem[P!word_addr(byte_addr_i)] = wd_i)
  /\ test >= 13 /\ At > 0 /\ mwr_i = 0 => At > 25
  /\ test > 13 /\ At <= 0 => mwr_i = 1
  /\ test >= 13 /\ At > 35 => mwr_i = 1
  /\ test # 12 /\ 5 < At /\ At <= 20 => mrd_i = 0
  /\ test >= 13 /\ At > 20 => mrd_i = 1
  /\ test # 12 /\ At > 10 => port_from = <<test, Addressed>>

MergeInv ==
  bench = "Pmmu" =>
    /\ ClockRuns
    /\ test \in 1 .. 19
    /\ test <= 18 => TestRuns
    /\ test = 19 => mwr_i = 1

LEMMA MergeStarts == UnitsInit => MergeInv
  <1> SUFFICES ASSUME UnitsInit, bench = "Pmmu" PROVE MergeInv
    BY DEF MergeInv
  <1>1. timeStep = 0 /\ clk_i = 0 /\ clk_seen = 0
    BY DEF UnitsInit, U!BenchInit
  <1>2. test = 1 /\ mwr_i = 1
    BY DEF UnitsInit, P!PmmuInit
  <1>3. ClockRuns
    BY <1>1 DEF ClockRuns
  <1>4. At = -10
    BY <1>1, <1>2 DEF At, P!baseTime
  <1> QED
    BY <1>2, <1>3, <1>4, TestKinds DEF MergeInv, TestRuns, P!duration

LEMMA FallTimes ==
  ASSUME ClockRuns, test \in 1 .. 18, At >= -20, At < 40
  PROVE  /\ timeStep \in Nat /\ At \in Int
         /\ P!Falls => At \in {-10, 10, 30}
         /\ At \in {10, 30} => P!Falls
  <1>1. timeStep \in Nat /\ P!baseTime(test) \in Int
    BY DEF ClockRuns, P!baseTime
  <1>2. PICK m \in Int : P!baseTime(test) = 20 * m + 10 /\ P!baseTime(test) >= 10
    <2>1. CASE test <= 12
      <3>1. P!baseTime(test) = 20 * (test - 1) + 10
        BY <2>1 DEF P!baseTime
      <3> QED
        BY <3>1
    <2>2. CASE test > 12
      <3>1. P!baseTime(test) = 20 * (2 * test - 13) + 10
        BY <2>2 DEF P!baseTime
      <3> QED
        BY <2>2, <3>1
    <2> QED
      BY <2>1, <2>2
  <1>3. At = timeStep - 20 * m - 10
    BY <1>1, <1>2 DEF At
  <1>4. P!Falls <=> timeStep > 0 /\ timeStep % 20 = 0
    BY ClockFalls
  <1>5. ASSUME P!Falls PROVE At \in {-10, 10, 30}
    <2>1. PICK h \in Int : timeStep = 20 * h
      <3> DEFINE K == timeStep \div 20
      <3>1. K \in Int /\ timeStep = 20 * K
        BY <1>1, <1>4, <1>5
      <3> QED
        BY <3>1
    <2> QED
      BY <1>3, <2>1
  <1>6. ASSUME At \in {10, 30} PROVE P!Falls
    <2>1. timeStep = 20 * (m + 1) \/ timeStep = 20 * (m + 2)
      BY <1>1, <1>3, <1>6
    <2>2. timeStep > 0
      BY <1>1, <1>2, <1>6 DEF At
    <2> QED
      BY <1>4, <2>1, <2>2
  <1> QED
    BY <1>1, <1>3, <1>5, <1>6

\* What one evaluation of a running test does.
LEMMA TestStepDoes ==
  ASSUME ClockRuns, test \in 1 .. 19, test <= 18 => TestRuns, P!TestStep
  PROVE  /\ test \in 1 .. 18 /\ test' = test /\ ClockRuns'
         /\ At \in Int /\ At' = At + 1 /\ At < P!duration(test) /\ -20 <= At
         /\ P!duration(test) = IF test < 13 THEN 20 ELSE 40
         /\ Kind = IF test < 12 THEN "load" ELSE IF test = 12 THEN "word" ELSE "part"
         /\ P!Stimuli(At, P!Tests[test]) /\ P!Memory
         /\ P!Falls => At \in {-10, 10, 30}
         /\ At \in {10, 30} => P!Falls
  <1>1. test \in 1 .. 18 /\ test' = test
    BY TestKinds DEF P!TestStep, P!Running
  <1>2. ClockRuns' /\ timeStep' = timeStep + 1
    BY ClockFalls DEF P!TestStep, P!step
  <1>3. Kind = IF test < 12 THEN "load" ELSE IF test = 12 THEN "word" ELSE "part"
    BY <1>1, TestKinds DEF Kind
  <1>4. P!duration(test) = IF test < 13 THEN 20 ELSE 40
    BY <1>1, <1>3, TestKinds DEF Kind, P!duration
  <1>5. timeStep \in Nat /\ P!baseTime(test) \in Int /\ At \in Int
    BY <1>1 DEF ClockRuns, P!baseTime, At
  <1>6. At' = At + 1
    BY <1>1, <1>2, <1>5 DEF At, P!baseTime
  <1>7. At < P!duration(test) /\ -20 <= At
    BY <1>1, <1>4, <1>5 DEF P!TestStep, P!Due, At, TestRuns
  <1>8. P!Stimuli(At, P!Tests[test]) /\ P!Memory
    BY DEF P!TestStep, At
  <1>9. (P!Falls => At \in {-10, 10, 30}) /\ (At \in {10, 30} => P!Falls)
    <2>1. At >= -20 /\ At < 40
      BY <1>1, <1>4, <1>5, <1>7
    <2> QED
      BY <1>1, <2>1, FallTimes
  <1> QED
    BY <1>1, <1>2, <1>3, <1>4, <1>5, <1>6, <1>7, <1>8, <1>9

\* What a change of the RAM must be, as the run's property says it.
FreshWrite ==
  \A a \in DOMAIN mem : mem'[a] # mem[a] =>
    /\ a = P!word_addr(P!Tests[test].addr)
    /\ P!Tests[test].kind = "part" => port_from = <<test, a>>

LEMMA LoadStep ==
  ASSUME ClockRuns, test \in 1 .. 11, TestRuns, P!TestStep
  PROVE  TestRuns' /\ FreshWrite
  <1>1. /\ test' = test /\ At \in Int /\ At' = At + 1 /\ At < 20 /\ Kind = "load"
        /\ P!Stimuli(At, P!Tests[test]) /\ P!Memory
        /\ P!Falls => At \in {-10, 10, 30}
        /\ At = 10 => P!Falls
        /\ P!duration(test) = 20 /\ Addressed' = Addressed
    BY TestStepDoes DEF Addressed
  <1>2. mwr_i = 1 /\ mwr_i' = 1
    BY <1>1 DEF TestRuns, P!Stimuli, P!mwr_at, Kind
  <1>3. mem' = mem
    BY <1>1, <1>2 DEF P!Memory
  <1>4. At' > 5 => byte_addr_i' = P!Tests[test].addr
    BY <1>1 DEF TestRuns, P!Stimuli, P!byte_addr_at
  <1>5. 5 < At' /\ At' <= 20 => mrd_i' = 0
    BY <1>1 DEF TestRuns, P!Stimuli, P!mrd_at, Kind
  <1>6. At' > 10 => port_from' = <<test, Addressed>>
    <2>1. CASE At = 10
      BY <1>1, <1>4, <1>5, <2>1 DEF P!Memory, Addressed
    <2>2. CASE At # 10
      <3>1. At' > 10 => ~P!Falls
        BY <1>1, <2>2
      <3> QED
        BY <1>1, <2>2, <3>1 DEF P!Memory, TestRuns
    <2> QED
      BY <2>1, <2>2
  <1>7. At' <= P!duration(test)' /\ At' >= (IF test = 1 THEN -10 ELSE 0)
    BY <1>1 DEF TestRuns, P!duration
  <1> QED
    BY <1>1, <1>2, <1>3, <1>4, <1>5, <1>6, <1>7 DEF TestRuns, FreshWrite

LEMMA WordStep ==
  ASSUME ClockRuns, test = 12, TestRuns, P!TestStep
  PROVE  TestRuns' /\ FreshWrite
  <1>1. /\ test' = test /\ At \in Int /\ At' = At + 1 /\ At < 20 /\ Kind = "word"
        /\ P!Stimuli(At, P!Tests[test]) /\ P!Memory
        /\ P!Falls => At = 10
        /\ P!duration(test) = 20 /\ P!Tests[test].funct3 = 2 /\ At >= 0
    BY TestStepDoes, TestKinds DEF TestRuns
  <1>2. mwr_i' = 0 <=> At' > 5
    BY <1>1 DEF TestRuns, P!Stimuli, P!mwr_at, Kind
  <1>3. At' > 0 => funct3' = 2
    BY <1>1 DEF TestRuns, P!Stimuli
  <1>4. At' > 5 => byte_addr_i' = P!Tests[test].addr
    BY <1>1 DEF TestRuns, P!Stimuli, P!byte_addr_at
  <1>5. At # 5 => wd_i' = wd_i /\ (At > 5 => byte_addr_i' = byte_addr_i)
    BY <1>1 DEF P!Stimuli, P!byte_addr_at
  <1>6. ASSUME At = 10, P!word_addr(byte_addr_i') \in DOMAIN mem'
        PROVE  mem'[P!word_addr(byte_addr_i')] = wd_i'
    <2>1. P!Falls /\ mwr_i' = 0 /\ funct3' = 2
      <3>1. P!Falls
        BY <1>1, <1>6, TestStepDoes
      <3> QED
        BY <3>1, <1>1, <1>3, <1>6 DEF TestRuns, P!Stimuli, P!mwr_at, Kind
    <2>2. P!storage_data_in(2, byte_addr_i', wd_i', storage_data_out) = wd_i'
      BY DEF P!storage_data_in, P!is_byte_size, P!is_halfword_size
    <2> QED
      BY <1>1, <1>6, <2>1, <2>2 DEF P!Memory
  <1>7. At' > 10 /\ P!word_addr(byte_addr_i') \in DOMAIN mem' =>
          mem'[P!word_addr(byte_addr_i')] = wd_i'
    <2>1. CASE At = 10
      BY <1>6, <2>1
    <2>2. CASE At > 10
      <3>1. mem' = mem
        BY <1>1, <2>2 DEF P!Memory
      <3> QED
        BY <1>1, <1>5, <2>2, <3>1 DEF TestRuns
    <2> QED
      BY <1>1, <2>1, <2>2
  <1>8. FreshWrite
    <2>1. CASE At = 10
      <3>1. byte_addr_i' = P!Tests[test].addr /\ P!Tests[test].kind # "part"
        BY <1>1, <1>4, <2>1 DEF Kind
      <3> QED
        BY <1>1, <3>1 DEF P!Memory, FreshWrite
    <2>2. CASE At # 10
      BY <1>1, <2>2 DEF P!Memory, FreshWrite
    <2> QED
      BY <2>1, <2>2
  <1>9. At' <= P!duration(test)' /\ At' >= 0
    BY <1>1 DEF P!duration
  <1> QED
    BY <1>1, <1>2, <1>3, <1>4, <1>7, <1>8, <1>9 DEF TestRuns

LEMMA PartStep ==
  ASSUME ClockRuns, test \in 13 .. 18, TestRuns, P!TestStep
  PROVE  /\ TestRuns' /\ FreshWrite
         /\ At' > 35 => mwr_i' = 1
  <1>1. /\ test' = test /\ At \in Int /\ At' = At + 1 /\ At < 40 /\ Kind = "part"
        /\ P!Stimuli(At, P!Tests[test]) /\ P!Memory
        /\ P!Falls => At \in {-10, 10, 30}
        /\ At = 10 => P!Falls
        /\ P!duration(test) = 40 /\ Addressed' = Addressed
    BY TestStepDoes DEF Addressed
  <1>2. At' > 5 => byte_addr_i' = P!Tests[test].addr
    BY <1>1 DEF TestRuns, P!Stimuli, P!byte_addr_at
  <1>3. /\ At' <= 0 => mwr_i' = mwr_i /\ funct3' = funct3 /\ wd_i' = wd_i
                        /\ byte_addr_i' = byte_addr_i
        /\ At' > 0 /\ mwr_i' = 0 => At' > 25
        /\ At' > 35 => mwr_i' = 1
    BY <1>1 DEF TestRuns, P!Stimuli, P!mwr_at, P!byte_addr_at, Kind
  <1>4. /\ 5 < At' /\ At' <= 20 => mrd_i' = 0
        /\ At' > 20 => mrd_i' = 1
    BY <1>1 DEF TestRuns, P!Stimuli, P!mrd_at, Kind
  <1>5. At' > 10 => port_from' = <<test, Addressed>>
    <2>1. CASE At = 10
      BY <1>1, <1>2, <1>4, <2>1 DEF P!Memory, Addressed
    <2>2. CASE At # 10
      <3>1. At' > 10 => ~(P!Falls /\ mrd_i' = 0)
        BY <1>1, <1>4, <2>2
      <3> QED
        BY <1>1, <2>2, <3>1 DEF P!Memory, TestRuns
    <2> QED
      BY <2>1, <2>2
  <1>6. ASSUME At' <= 0, mwr_i' = 0
        PROVE  /\ \A a \in DOMAIN mem : mem'[a] = mem[a]
               /\ funct3' = 2
               /\ P!word_addr(byte_addr_i') \in DOMAIN mem' =>
                    mem'[P!word_addr(byte_addr_i')] = wd_i'
    <2>1. /\ test = 13 /\ mwr_i = 0 /\ funct3 = 2 /\ funct3' = 2 /\ wd_i' = wd_i
          /\ byte_addr_i' = byte_addr_i /\ At <= 0
      BY <1>1, <1>3, <1>6 DEF TestRuns
    <2>2. P!word_addr(byte_addr_i) \in DOMAIN mem => mem[P!word_addr(byte_addr_i)] = wd_i
      BY <1>1, <1>6, <2>1 DEF TestRuns
    <2>3. P!storage_data_in(funct3', byte_addr_i', wd_i', storage_data_out) = wd_i
      BY <2>1 DEF P!storage_data_in, P!is_byte_size, P!is_halfword_size
    <2>4. DOMAIN mem' = DOMAIN mem /\ \A a \in DOMAIN mem : mem'[a] = mem[a]
      BY <1>1, <2>1, <2>2, <2>3 DEF P!Memory
    <2> QED
      BY <2>1, <2>2, <2>4
  <1>7. FreshWrite
    <2>1. CASE At' <= 0 /\ mwr_i' = 0
      BY <1>6, <2>1 DEF FreshWrite
    <2>2. CASE At = 30
      <3>1. byte_addr_i' = P!Tests[test].addr /\ port_from = <<test, Addressed>>
        BY <1>1, <1>2, <2>2 DEF TestRuns
      <3> QED
        BY <1>1, <3>1 DEF P!Memory, FreshWrite, Addressed
    <2>3. CASE ~(At' <= 0 /\ mwr_i' = 0) /\ At # 30
      <3>1. ~(P!Falls /\ mwr_i' = 0)
        BY <1>1, <1>3, <2>3
      <3> QED
        BY <1>1, <3>1 DEF P!Memory, FreshWrite
    <2> QED
      BY <2>1, <2>2, <2>3
  <1>8. At' <= P!duration(test)' /\ At' >= (IF test = 13 THEN -20 ELSE 0)
    BY <1>1 DEF TestRuns, P!duration
  <1>9. test > 13 /\ At' <= 0 => mwr_i' = 1
    BY <1>1 DEF TestRuns
  <1> QED
    BY <1>1, <1>2, <1>3, <1>4, <1>5, <1>6, <1>7, <1>8, <1>9 DEF TestRuns

LEMMA MergeStep ==
  ASSUME MergeInv, [UnitsNext]_unit_run
  PROVE  MergeInv' /\ (mem' = mem \/ FreshWrite)
  <1>1. CASE bench # "Pmmu" \/ UNCHANGED <<unit_vars, pmmu_vars>>
    <2>1. mem' = mem /\ (bench' = bench \/ UNCHANGED unit_vars)
      BY <1>1 DEF UnitsNext, unit_run, U!UnitNext, U!Tabled, U!ClockedStep, pmmu_vars, unit_vars
    <2>2. CASE UNCHANGED <<unit_vars, pmmu_vars>>
      BY <2>1, <2>2 DEF MergeInv, TestRuns, ClockRuns, At, Addressed, unit_vars, pmmu_vars
    <2>3. CASE bench # "Pmmu"
      BY <2>1, <2>3 DEF MergeInv, unit_vars
    <2> QED
      BY <1>1, <2>1, <2>2, <2>3
  <1>2. CASE bench = "Pmmu" /\ ~UNCHANGED <<unit_vars, pmmu_vars>>
    <2>1. P!PmmuNext /\ bench' = bench
      <3>1. "Pmmu" \notin U!Combinational /\ "Pmmu" \notin U!Clocked
        BY DEF U!Combinational, U!Clocked
      <3> QED
        BY <1>2, <3>1 DEF UnitsNext, unit_run, U!UnitNext, U!Tabled, U!ClockedStep
    <2>2. ClockRuns /\ test \in 1 .. 19 /\ (test <= 18 => TestRuns) /\ (test = 19 => mwr_i = 1)
      BY <1>2 DEF MergeInv
    <2>3. CASE P!TestStep
      <3>1. test \in 1 .. 18 /\ test' = test /\ ClockRuns'
        BY <2>2, <2>3, TestStepDoes
      <3>2. TestRuns' /\ FreshWrite
        BY <2>2, <2>3, <3>1, LoadStep, WordStep, PartStep
      <3> QED
        BY <2>1, <3>1, <3>2 DEF MergeInv
    <2>4. CASE P!Assertion
      <3>1. /\ test \in 1 .. 18 /\ mem' = mem /\ ClockRuns'
            /\ timeStep' = timeStep /\ mwr_i' = mwr_i /\ mrd_i' = mrd_i /\ wd_i' = wd_i
            /\ byte_addr_i' = byte_addr_i /\ funct3' = funct3 /\ port_from' = port_from
            /\ test' = test \/ test' = test + 1
            /\ timeStep = P!baseTime(test) + P!duration(test)
        BY <2>2, <2>4, TestKinds
           DEF P!Assertion, P!Due, P!Running, P!clock, P!pins, P!ram, ClockRuns
      <3>2. timeStep \in Nat /\ P!baseTime(test) \in Int
        BY <2>2, <3>1 DEF ClockRuns, P!baseTime
      <3>3. P!duration(test) = (IF test < 13 THEN 20 ELSE 40) /\ At = P!duration(test)
        BY <3>1, <3>2, TestKinds DEF P!duration, At
      <3>4. CASE test' = test
        BY <2>1, <2>2, <3>1, <3>4 DEF MergeInv, TestRuns, At, Addressed, P!duration, P!baseTime
      <3>5. CASE test' = test + 1 /\ test = 18
        <4>1. mwr_i = 1
          BY <2>2, <3>3, <3>5 DEF TestRuns
        <4> QED
          BY <2>1, <3>1, <3>5, <4>1 DEF MergeInv
      <3>6. CASE test' = test + 1 /\ test # 18
        <4>1. At' = IF test = 12 THEN -20 ELSE 0
          BY <3>1, <3>2, <3>3, <3>6 DEF At, P!baseTime
        <4>2. P!duration(test)' \in {20, 40}
          BY DEF P!duration
        <4>3. test # 12 => mwr_i = 1
          BY <2>2, <3>1, <3>3 DEF TestRuns
        <4>4. test = 12 => /\ funct3 = 2
                           /\ P!word_addr(byte_addr_i) \in DOMAIN mem =>
                                mem[P!word_addr(byte_addr_i)] = wd_i
          BY <2>2, <3>1, <3>3 DEF TestRuns
        <4>5. TestRuns'
          BY <3>1, <3>6, <4>1, <4>2, <4>3, <4>4 DEF TestRuns
        <4> QED
          BY <2>1, <3>1, <3>6, <4>5 DEF MergeInv
      <3> QED
        BY <3>1, <3>4, <3>5, <3>6
    <2>5. CASE P!RunningToDuration
      <3>1. test = 19 /\ test' = test /\ mwr_i' = mwr_i /\ mwr_i = 1 /\ ClockRuns'
        BY <2>2, <2>5, TestKinds, ClockFalls DEF P!RunningToDuration, P!pins
      <3>2. mem' = mem
        BY <2>5, <3>1 DEF P!RunningToDuration, P!Memory
      <3> QED
        BY <2>1, <3>1, <3>2 DEF MergeInv
    <2>6. CASE P!PmmuFinish
      BY <2>1, <2>2, <2>6, TestKinds
         DEF P!PmmuFinish, P!clock, P!pins, P!ram, MergeInv, ClockRuns
    <2> QED
      BY <2>1, <2>3, <2>4, <2>5, <2>6 DEF P!PmmuNext
  <1> QED
    BY <1>1, <1>2

LEMMA MergeInvariant == UnitsSpec => []MergeInv
  BY MergeStarts, MergeStep, PTL DEF UnitsSpec, unit_run

\* Whatever word the RAM's port holds at power-up, every write of the bench that
\* changes the RAM is to the word the running test names, and a merge keeps the
\* rest of a word that the same test read from the same place; the one store that
\* leaves its write on through the pause after it stores the same word again.
THEOREM MergesAreFresh == UnitsSpec => StoresMergeFresh
  <1>1. MergeInv /\ [UnitsNext]_unit_run =>
          [ \A a \in DOMAIN mem : mem'[a] # mem[a] =>
              /\ a = P!word_addr(P!Tests[test].addr)
              /\ P!Tests[test].kind = "part" => port_from = <<test, a>> ]_(P!vars)
    BY MergeStep DEF FreshWrite
  <1> QED
    BY <1>1, MergeInvariant, PTL DEF UnitsSpec, unit_run, StoresMergeFresh, P!StoresMergeFresh

\* A load's test looks at the output only when the port has read, for that test,
\* the word it addresses.
THEOREM LoadsAreFresh == UnitsSpec => [](bench = "Pmmu" => P!ReadsAreFresh)
  <1>1. MergeInv => (bench = "Pmmu" => P!ReadsAreFresh)
    <2> SUFFICES ASSUME MergeInv, bench = "Pmmu", P!Due, P!Tests[test].kind = "load"
                 PROVE  port_from = <<test, P!word_addr(P!Tests[test].addr)>>
      BY DEF P!ReadsAreFresh
    <2>1. test \in 1 .. 18 /\ TestRuns /\ timeStep \in Nat
      BY TestKinds DEF MergeInv, ClockRuns, P!Due, P!Running
    <2>2. test <= 11 /\ P!duration(test) = 20
      BY <2>1, TestKinds DEF P!duration
    <2>3. At = 20
      <3>1. P!baseTime(test) \in Int
        BY <2>1 DEF P!baseTime
      <3> QED
        BY <2>1, <2>2, <3>1 DEF P!Due, At
    <2> QED
      BY <2>1, <2>2, <2>3 DEF TestRuns, Addressed
  <1> QED
    BY <1>1, MergeInvariant, PTL
=============================================================================
