----------------------------- MODULE PmmuBench -----------------------------
(***************************************************************************)
(* The bench of the memory unit (simulation/pmmu): eighteen tests, run one *)
(* after another on the same unit and the same RAM.  A test is a function  *)
(* that moves the pins at fixed times after its base time, and then looks  *)
(* at the output, or into the RAM.  The RAM acts on the falling edge, its  *)
(* write and its read port both, so a store of less than a word is a read  *)
(* on one edge and a write on the next.                                    *)
(***************************************************************************)
EXTENDS Pmmu, Testbench, Sequences

VARIABLES
  test,               \* the test that runs, an index of Tests
  funct3, byte_addr_i, wd_i, mwr_i, mrd_i,   \* pins; the enables are active low
  mem,                \* the RAM
  storage_data_out,   \* the word of the RAM's port
  port_from,          \* history: the test in which the port read, and which word
  outcome

pins == <<funct3, byte_addr_i, wd_i, mwr_i, mrd_i>>
ram  == <<mem, storage_data_out, port_from>>
vars == <<clock, test, pins, ram, outcome>>

\* A word's address in the RAM, as the byte address of its first byte.
wordToByteAddr(wordaddr) == {b + 2 : b \in Half(wordaddr)}

\* The contents under USE_STATIC that a test reads or stores to.
Contents ==
  { <<4, Literal(0, \h000A)>>, <<5, Literal(\h1111, \h000B)>>,
    <<8, Literal(\h1111, \h110E)>>, <<10, Literal(\h55AA, \h3312)>>,
    <<13, Literal(0, \h6626)>>, <<14, Literal(\hBBAA, \h1136)>>,
    <<16, Literal(\h2111, \h3456)>>, <<17, Literal(0, \h0090)>>,
    <<18, Literal(\hD0B0, \hA090)>>, <<19, Literal(\h1AB0, \hA090)>> }

StaticContents ==
  [a \in {wordToByteAddr(c[1]) : c \in Contents} |->
     (CHOOSE c \in Contents : wordToByteAddr(c[1]) = a)[2]]

A_Load(f, cell, selector, expected) ==
  [kind |-> "load", funct3 |-> f, addr |-> wordToByteAddr(cell) \cup Half(selector),
   data |-> {}, expected |-> expected]
A_Store(f, cell, selector, data, expected) ==
  [kind |-> IF f = 2 THEN "word" ELSE "part", funct3 |-> f,
   addr |-> wordToByteAddr(cell) \cup Half(selector), data |-> data, expected |-> expected]

iType_lbu_byte4 == A_Load(4, 10, 3, Literal(0, \h55))
iType_lbu_byte3 == A_Load(4, 10, 2, Literal(0, \hAA))
iType_lbu_byte2 == A_Load(4, 10, 1, Literal(0, \h33))
iType_lbu_byte1 == A_Load(4, 10, 0, Literal(0, \h12))
iType_lhu_word2 == A_Load(5, 13, 0, Literal(0, \h6626))
iType_lhu_word1 == A_Load(5, 4 + 10, 2, Literal(0, \hBBAA))
iType_lw_addr0x0A == A_Load(2, 16, 0, Literal(\h2111, \h3456))
iType_lb_byte1 == A_Load(0, 17, 0, Literal(\hFFFF, \hFF90))
iType_lb_byte2 == A_Load(0, 18, 1, Literal(\hFFFF, \hFFA0))
iType_lh_word2_addr_d18 == A_Load(1, 18, 2, Literal(\hFFFF, \hD0B0))
iType_lh_word2_addr_d19 == A_Load(1, 19, 2, Literal(0, \h1AB0))
sType_sw == A_Store(2, 4, 0, Literal(\h0B0A, \h0908), Literal(\h0B0A, \h0908))
sType_sh_word1 == A_Store(1, 5, 0, Literal(\hAABB, \hCCDD), Literal(\h1111, \hCCDD))
sType_sh_word2 == A_Store(1, 5, 2, Literal(\hAABB, \h7788), Literal(\h7788, \hCCDD))
sType_sb_byte1 == A_Store(0, 8, 0, Literal(\hAABB, \hCCDD), Literal(\h1111, \h11DD))
sType_sb_byte2 == A_Store(0, 8, 1, Literal(\h1111, \h11CC), Literal(\h1111, \hCCDD))
sType_sb_byte3 == A_Store(0, 8, 2, Literal(\h1111, \h1133), Literal(\h1133, \hCCDD))
sType_sb_byte4 == A_Store(0, 8, 3, Literal(\h1111, \h1144), Literal(\h4433, \hCCDD))

Tests == <<
  iType_lbu_byte4, iType_lbu_byte3, iType_lbu_byte2, iType_lbu_byte1, iType_lhu_word2,
  iType_lhu_word1, iType_lw_addr0x0A, iType_lb_byte1, iType_lb_byte2,
  iType_lh_word2_addr_d18, iType_lh_word2_addr_d19, sType_sw, sType_sh_word1,
  sType_sh_word2, sType_sb_byte1, sType_sb_byte2, sType_sb_byte3, sType_sb_byte4 >>

\* A merge takes two edges and has twice the time of the rest.
duration(n) == IF n <= Len(Tests) /\ Tests[n].kind = "part" THEN 40 ELSE 20
baseTime(n) == IF n <= 12 THEN 20 * n - 10 ELSE 40 * n - 250
LastStep    == baseTime(Len(Tests)) + 40 + 25

Running == outcome = "running" /\ test <= Len(Tests)
Due     == Running /\ timeStep = baseTime(test) + duration(test)

PmmuInit(port) ==
  /\ test = 1
  /\ funct3 = 0 /\ byte_addr_i = {} /\ wd_i = {} /\ mwr_i = 1 /\ mrd_i = 1
  /\ mem = StaticContents /\ storage_data_out = port /\ port_from = <<0, {}>>
  /\ outcome = "running"

\* The pins at some time after the base time of the running test.
byte_addr_at(at, t) == IF at = 5 THEN t.addr ELSE byte_addr_i

\* Broken variant: a merge leaves the write enable as the last test left it.
mwr_at_Left(at, kind) ==
  CASE at = 0  /\ kind = "word" -> 1
    [] at = 5  /\ kind = "word" -> 0
    [] at = 20 /\ kind = "word" -> 1
    [] at = 25 /\ kind = "part" -> 0
    [] at = 35 /\ kind = "part" -> 1
    [] OTHER                    -> mwr_i

mwr_at(at, kind) ==
  CASE at = 0  /\ kind \in {"word", "part"} -> 1
    [] at = 5  /\ kind = "word"             -> 0
    [] at = 20 /\ kind = "word"             -> 1
    [] at = 25 /\ kind = "part"             -> 0
    [] at = 35 /\ kind = "part"             -> 1
    [] OTHER                                -> mwr_i

\* Broken variant: the read is asked for after the edge.
mrd_at_Late(at, kind) ==
  CASE at = 0  /\ kind = "load"             -> 1
    [] at = 15 /\ kind \in {"load", "part"} -> 0
    [] at = 20 /\ kind \in {"load", "part"} -> 1
    [] OTHER                                -> mrd_i

mrd_at(at, kind) ==
  CASE at = 0  /\ kind = "load"             -> 1
    [] at = 5  /\ kind \in {"load", "part"} -> 0
    [] at = 20 /\ kind \in {"load", "part"} -> 1
    [] OTHER                                -> mrd_i

Stimuli(at, t) ==
  /\ funct3' = IF at = 0 THEN t.funct3 ELSE funct3
  /\ byte_addr_i' = byte_addr_at(at, t)
  /\ wd_i' = IF at = 5 /\ t.kind # "load" THEN t.data ELSE wd_i
  /\ mwr_i' = mwr_at(at, t.kind)
  /\ mrd_i' = mrd_at(at, t.kind)

\* The RAM in the evaluation that is made: it sees the pins as just set, and its
\* read port the word as it was before the write.
Memory ==
  LET cell == word_addr(byte_addr_i')
  IN /\ mem' = IF Falls /\ mwr_i' = 0
               THEN [mem EXCEPT ![cell] =
                       storage_data_in(funct3', byte_addr_i', wd_i', storage_data_out)]
               ELSE mem
     /\ storage_data_out' = IF Falls /\ mrd_i' = 0 THEN mem[cell] ELSE storage_data_out
     /\ port_from' = IF Falls /\ mrd_i' = 0 THEN <<test, cell>> ELSE port_from

TestStep ==
  /\ Running /\ ~Due
  /\ Stimuli(timeStep - baseTime(test), Tests[test])
  /\ Memory /\ step
  /\ UNCHANGED <<test, outcome>>

\* What a load's test looks at, and a store's.
Observed(t) ==
  IF t.kind = "load"
  THEN rd_o(funct3, byte_addr_i, storage_data_out, mrd_i = 0)
  ELSE mem[word_addr(t.addr)]

Assertion ==
  /\ Due
  /\ IF Observed(Tests[test]) = Tests[test].expected
     THEN test' = test + 1 /\ UNCHANGED outcome
     ELSE outcome' = "failed" /\ UNCHANGED test
  /\ UNCHANGED <<clock, pins, ram>>

RunningToDuration ==
  /\ outcome = "running" /\ test > Len(Tests) /\ timeStep < LastStep
  /\ UNCHANGED <<test, pins, outcome>>
  /\ step /\ Memory

PmmuFinish ==
  /\ outcome = "running" /\ test > Len(Tests) /\ timeStep = LastStep
  /\ outcome' = "passed"
  /\ UNCHANGED <<clock, test, pins, ram>>

PmmuNext == TestStep \/ Assertion \/ RunningToDuration \/ PmmuFinish
-----------------------------------------------------------------------------
\* A load's test never looks at the output before the RAM's port has read the
\* addressed word for that test; the word left from the test before would do
\* for four of them.
ReadsAreFresh ==
  Due /\ Tests[test].kind = "load" => port_from = <<test, word_addr(Tests[test].addr)>>

\* A write that changes the RAM is to the word the running test names, and what
\* a merge keeps of that word was read by the same test from the same place: a
\* word left on the port by an earlier test is never merged.  The test's own
\* assertion would not tell: a second write, in time, repairs the word.
StoresMergeFresh ==
  [][ \A a \in DOMAIN mem : mem'[a] # mem[a] =>
        /\ a = word_addr(Tests[test].addr)
        /\ Tests[test].kind = "part" => port_from = <<test, a>> ]_vars
=============================================================================
