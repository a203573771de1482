# Verification of the Ranger Risc

The repository holds a multi-cycle RV32I soft-core in SystemVerilog: a core that is synthesised for an FPGA
and driven over a serial line, a second core that runs in a console simulator, and the tools around them.
This directory models the parts that carry its logic in TLA+, checks them with TLC on small instances, and
proves the most important results with TLAPS for every value of the constants.

Paths below are relative to the repository's root `src/`; HW is `Synthesis/ranger_risc/csrs/ControlMatrix.sv`,
SIM is `modules/ControlMatrixCSRs.sv`, TOP is `Synthesis/ranger_risc/csrs/Top.sv`, CON is
`simulation/ranger_console` with its programs `console_tb.cpp` (the loop), `simulation.cpp`, `model.h` and `console.cpp`.

## 1. Inventory

### The system's parts

| Part | State it keeps | Operations | Correct when |
|---|---|---|---|
| Control unit, synthesised core (HW) | `state`, `vector_state`, `ir_state`, five CSRs, `interrupt_in_progress`, the latch `irq_triggered` and its clear line | one step per clock: reset sequence, fetch, decode, 25 execute states, three interrupt states, halt; the falling edge of the interrupt pin | no edge lost, no handler without a cause, the return address survives, reset leaves a core that can be interrupted again and is masked until software says otherwise, every instruction ends |
| Control unit, simulated core (SIM) | the same, with `mstatus.MPIE` | the same, with different guards on the pending bit | edges kept, no interrupt serviced twice, `mret` restores the enable |
| Processor and datapath (`RangerRiscProcessor.sv`, `modules/*.sv`) | PC, PC_prior, IR, RsA, RsB, ALU_Out, flags, MDR, the register file | on the falling edge each register loads what its bus holds | a program sees the instruction set |
| ALU (`modules/ALU.sv`) | none | ten operations, four flags | results and branch decisions are those of arithmetic |
| Pmmu and Memory (`modules/Pmmu.sv`, `Memory.sv`) | the RAM and the word at its registered port | word read, word write; byte and half-word slices, extension, merging | the memory is one of bytes |
| Immediate (`modules/Immediate.sv`) | none | cuts and extends the five immediate forms | the inverse of the assembler's encoders |
| UART (`UARTTx.sv`, `UARTRx.sv`, `CDCSynchron.sv`) | two bit machines, two baud counters, three synchroniser bits | send a byte, receive a byte | every byte arrives once, whole, in order |
| Command machine (TOP) | `state`/`next_state`, the processor's reset and manual clock, the clock selection, counters | ten commands (`r z x c e s j k l`, anything else), the power-up sequence, answers | every command answered completely; the commands do to the processor what they say |
| Client (`tools/go-uart/main.go`) | the last command | write one byte, block until 4 or 69 bytes came | never starved |
| Console, the loop (`console_tb.cpp`, `simulation.cpp`, `model.h`) | the core's pins and time, a step allowance, a breakpoint, an interrupt pulse, where a run loop is | one pass: a command, then at most one evaluation of the core; `sg reset` and `rn` evaluate many times inside the command | steps are exact, a breakpoint holds, Home is one pulse, every loop returns to the keyboard |
| Console, the command line (`console.cpp`, `utils.cpp`) | the last command and the last arguments | 22 command words, six keys | each word asks for its own command with its own arguments |
| Console, the screen (`console.cpp`) | what each row shows, two marker rows, the clock's last edge | written by commands and at the end of a pass | shows what is |
| Unit benches (`simulation/alu`, `immediate`, `register_file`, `memory`, `pmmu`) | time, the pins of one unit | set pins at fixed times, look at the outputs | the units pass, and a test looks at its own word |
| Assembler (`tools/gen-instr`) | label table | two passes over a text; encoders place the bits of an operand | the word encodes the line |
| SPI (`simulation/spi_sync8`) | master, MCP23S17 slave and IO state machines | byte-wise full duplex transfer | a transfer writes the register it addresses |
| Earlier cores, modules no core instantiates, board experiments | | | |

### How they interact

The client writes one byte and blocks. `UARTRx` raises `rx_complete` for one clock, and only `CSIdle` of the
command machine looks at it. The command moves `man_clock`, `clock_select` or `reset`, from which TOP
derives the processor's clock, then the machine pushes the answer through `UARTTx`, one `tx_complete` at a
time. Inside the processor the control unit's outputs select what the datapath loads on the falling edge; the
rising edge that follows moves the control unit on IR and the flags. The interrupt pin is asynchronous to
all of it: its falling edge sets a latch in a clock domain of its own; the latch sets `mip.MEIP` at the next
clock; `PreFetch` looks at it; `IRQ0` raises the line that clears the latch.

The console is one thread. A pass of its loop reads at most one key, carries out its command, and evaluates the core
once if the mode allows; an evaluation is a unit of time, ten of which are half a clock. The commands write the
model's fields, the core's pins and, for `pc`, `crg` and `mm`, its registers and memory; the core's state is read back
by the run loops and by the screen. The screen is written in two ways, row by row in the commands and as a whole by `show`.

### What is hard here

* An interrupt edge may fall between any two clock edges: in the entry itself, while software reads and writes
  `mip`, while `mret` clears it, during a reset. The last non-blocking assignment of an edge wins.
* The reset pin may fall anywhere, in the reset sequence and the interrupt entry too. The CSRs have no value at
  power-up.
* The RAM is read a cycle before the IR loads, so that a store, a jump or an interrupt could execute a stale word.
* Operands, flags and CSR values are registered one or two cycles before they are used.
* Transmitter and receiver have clocks of their own, and realign once in ten bits.
* In TOP `state` follows `next_state` one clock late: each state of the command machine runs twice.
* The processor's reset is synchronous to a clock that the command machine itself makes, or that comes from
  another domain.
* Nothing on the serial line has a timeout: one byte lost stops the client for good.
* In the console, stepping, free running, the breakpoint, the pulse, resets and runs use the same counters, pins and
  flags, and may be mixed at any pass; the pin is raised and lowered within a pass, and the core sees what it was last evaluated with.
* The benches of the memory unit run eighteen tests on one RAM and one set of pins, where one test may do another's work.

The list with lines is `hazards` in `PROJECT.json`.

## 2. Modules

    Words ── ControlMatrix ── InterruptFlow ── MCInterruptFlow          RV32I ── RiscvISA
      │           │                │                                      │         │ (INSTANCE)
      │           │                └── ControlMatrix_proofs    ALU ───────┴─ ALUConformance
      │           └── RangerRisc (with ALU, Pmmu) ── Retirement ── MCRetirement      │
      │                                                    │                         │ (INSTANCE)
      │                                           Retirement_proofs                  │
      └── ALU, Pmmu, RV32I                                                           │
    Immediate, Testbench, ALU ── UnitBenches ────────────────────────────────────── Units
                                   Pmmu, Testbench ── PmmuBench ─────────────────────┘
    ALU, RV32I, Immediate ── Combinational_proofs ── (INSTANCE) Retirement_proofs, Units_proofs
    CoreCycle ── (INSTANCE) ControlMatrixCSRs ── MCControlMatrixCSRs, ControlMatrixCSRs_proofs
        └── Simulation ── ConsoleScreen ┬ ConsoleTestbench ── MCConsole
                           ConsoleInput ┘        └── ConsoleTestbench_proofs
    UARTTx, UARTRx ── UARTLink ── MCUARTLink, UARTLink_proofs     (implements ByteChannel and UARTTiming)
    UARTTiming ── CommandMachine ── CommandMachine_proofs       (implements CommandServer)

**Words.** A word is the set of its bits that are 1, of any width: and, or and and-not are the set operators, and
what is said of the interrupt bits does not depend on the rest of the word. `Value` and `WordOf` convert between words and numbers;
`Value` is the sum of the weights from the lowest bit up, a recursive function, so that it can be reasoned about bit by bit.

**ControlMatrix** is the control unit of the synthesised core, one action for each case branch of HW: `Sync0` to
`Vector3`, `Fetch`, `Decode`, the 25 instruction states, `PreFetchRead`, `PreFetchInterrupt`, `IRQ0` to `IRQ2`,
`Halt`. A `Clock` step is one period of `clk_i`. `Sequence` is the clocked block with its override by the reset pin,
`LatchMip` its last assignment (a latched edge beats any other write of `mip.MEIP`), `ResetTrigger` the block
sensitive to `irq_reset_trigger`. `IrqFalls` is the block sensitive to the pin and `ResetPin` moves the
reset. The datapath is open: a PC load takes any of `Addr`, RsA any of `Data`, IR any of `Program`. So whatever
holds here holds for every program. `fresh` says that the memory port was read at the PC after the last fetch: a Fetch that no
read precedes (after an illegal CSR form) loads the same instruction again. An instruction is a record of the
fields that the control unit looks at.

**InterruptFlow** adds four history variables (`owed`, `heard`, `armed`, `resume`) and states what the
interrupt logic promises. `Watched` is what they record of a clock; they only watch, which `FlowRefinesControl` proves.

**ControlMatrixCSRs** is the interrupt logic of the simulated core, in which the cycles of instructions that touch
neither a CSR nor an interrupt are one action. Its history is `owed`, `tapped`, `wrote` and `causes`. **CoreCycle** is what it
promises to those who watch `state` from outside: Fetch, Decode, Execute in that order, Reset at an edge with the pin held.
`CycleKept` is that promise, and Simulation is built on it in place of the core.

**ALU**, **Pmmu** are the combinational modules, as operators. **RV32I** states the same arithmetic on numbers,
and **ALUConformance** compares the two. **RangerRisc** wires them and the registers to ControlMatrix: the control
lines (`pc_ld`, `rsa_ld`, `mem_rd`, ...), the buses (`a_mux_out`, `pmmu_out`, ...) and the loads of the
falling edge. `CoreClock` is the falling edge's `Datapath` together with a `ClockOn` step of the control unit, whose
choices the datapath makes: the falling edge comes in the middle of the period, its inputs depend on the state
that the rising edges bound, so the two are one step. The ports are the two that a program reaches in TOP.

**RiscvISA** is the programmer's view: byte memory, one step for an instruction, interrupts only between instructions.
**Retirement** keeps in `arch` the programmer's view as of the last retirement and shows each clock to be an ISA
step or a stutter.

**Immediate** has the generator of `modules/Immediate.sv` (the choice of the format by opcode, the concatenations) and the
assembler's encoders, which place an operand's bits. An instruction is the set of its bits.

**Testbench** is the frame of the benches: time, the clock pin that moves every ten evaluations, and the falling edge the
units act on. **UnitBenches** runs the benches of the ALU at 32 and 8 bits, the immediate generator, the register file and the
memory: a program is a table of the pins it sets and when, with the result its comments or assertions note.
**PmmuBench** runs the eighteen tests of the memory unit one after another on one Pmmu and one RAM: each of the 18 functions
is a record of what it loads or stores, `Stimuli` moves the pins at its fixed times, `Assertion` looks at the output or
into the RAM. `port_from` records which test read the port last, and which word. **Units** puts the small ALU of ALUConformance, the benches
and the assembler's operands into one run.

**Simulation** is the console's loop: `model.h`'s fields, the pins, and the core as CoreCycle and a PC that goes to any address of
its program. `at` says where the program is: reading a key, in a reset, in the first or second loop of a run, or at the update that
ends a pass. `Tick` is `begin`, `eval` and `update`; `canStep`, `Break` and `Pulse` are the parts of the update. A reset and a run are loops
of steps during which no key is read. `stepped`, `whole`, `hit`, `edges`, `low` and `disturbed` are histories.

**ConsoleInput** is `handleInput`: `Dispatch` lists the words in the order in which they are tested, with what stands for an
argument that is not given. A line is the sequence of its fields. **ConsoleScreen** holds what the rows, the memory window, the
markers and the clock's row show, and the lists of labels. **ConsoleTestbench** joins the three: each action is a case of the
loop's switch, with all it changes and shows, or a step of what follows. **MCConsole** gives it sessions: what a user may type, in any
order, at any pass, and the addresses the loaded program runs at.

**UARTTx** and **UARTRx** are the two state machines with their 17-bit counters, **UARTLink** wires them as
`simulation/uart_tx_rx_multibyte/Top.sv` does, through the three bits of `CDCSynchron`. **ByteChannel** is
what the line promises: one byte at a time, handed over once, and reported complete after that.

**UARTTiming** is what the users of the two ends see of a byte instead of its bits: the transmitter is `Sending` for `TxClocks`, the other end
takes the byte in one of the last `TailClocks` of them or when the transmitter says that it is complete, and a receiver says so `RxClocks` after the start.
`Timely`, the one assumption, is that a byte takes the receiver two clocks longer than the tail.

**CommandMachine** is the machine of TOP with the processor's clock and the client. The UART appears by what
ByteChannel promises and by UARTTiming, both of which UARTLink is proved to keep. **CommandServer** is the promise to the client: an answer is all its bytes, in
order, with nothing in between. `cpu_edges`, `cpu_resets`, `was_clock` and `was_reset` record what the processor got.

Definitions marked "Broken variant" or "Mutant" are one plausible mistake each; nothing uses them but the
sensitivity check of the property they break (`mutants` in `PROJECT.json`): each property has a mistake
in the code that it catches.

## 3. Runs

Run any of them with `tlc -config <run>.cfg <module>`. State counts are distinct states.

| Run | Module | Expected | Properties | States |
|---|---|---|---|---|
| `irq_flow` | MCInterruptFlow | holds | FlowTypeOK, EdgeKept, NoSpuriousInterrupt, ReturnAddressHeld, MaskedAfterReset, ResetReleasesInterrupts | 2 405 584 |
| `irq_live` | MCInterruptFlow | holds | InterruptServed, InstructionRetires, ResetCompletes | 71 638 |
| `console_irq` | MCControlMatrixCSRs | holds | TypeOK, EdgeKept, EntryHasCause, EnableRestored, CycleKept | 276 416 |
| `core_isa` | MCRetirement | holds | CoreTypeOK, DatapathFollows, ExecutesAtPC, ImplementsISA, FlightKnown | 29 609 |
| `units` | Units | holds | ResultCorrect, BranchCorrect, BenchesPass, ImmediateRoundTrip, StoresMergeFresh | 7 260 |
| `uart_link` | MCUARTLink | holds | LinkTypeOK, CarriesBytes | 131 975 |
| `command` | CommandMachine | holds | TypeOK, NoCommandLost, ResetReachesCPU, StepsOnce, AnswersCommands | 47 728 |
| `console` | MCConsole | holds | SimTypeOK, StepsExact, BreakHolds, PulseWhole, RunReturns, ScreenCurrent, MarkersPoint, CommandsOwn, LabelsMatch | 270 986 |
| `console_tap` | MCControlMatrixCSRs | violated | NoEdgeDuringService | |
| `alu_shift` | ALUConformance | violated | ShiftUsesLowBits | |
| `command_toggle` | CommandMachine | violated | ToggleHolds | |
| `console_halt` | MCConsole | violated | HaltHalts | |

### What they show, and why the bounds are enough

**irq_flow.** Bits {1, 3, 11}: an alignment bit, MIE, MEIE/MEIP. Two addresses (`mret` aligns one into the
other), two data words (both interrupt bits on, both off), and one instruction of each kind the interrupt
logic tells apart: two cycles, a branch, an unknown opcode, ebreak, ecall, mret, writes of every CSR, each
way to form the value for `mip`, immediate forms, the form without effect, the illegal form. The PC, RsA and the
memory are free, so every sequence of these is a program. Both pins may move between any two clocks. All
CSRs start with any of the words. Wider words add bits no guard looks at, and the theorems below cover them.

**irq_live.** One word, every plain instruction and each way of touching the interrupt's own bits. Illegal
CSR forms are left out, because they do hang the core until a reset: Fetch without PreFetch loads the same word again
(HW:982; no property would catch it, and it is listed among the hazards as one that none covers). That is why `InstructionRetires` is about legal programs, and it excepts ebreak and
ecall, which stop by design.

**console_irq.** Bits {3, 7, 11}, software writing any of the eight values to any CSR at any time. `EdgeKept` has one
exception, which the code has: the reset does not release `irq_reset_trigger`, so that edges after a reset in
IRQ1 may fall on a latch that is held. `EntryHasCause` is that an interrupt is serviced once: `mip.MEIP` stays set through the
handler, `mret` must clear it, and a later mstatus write that enables interrupts again must not find it. `causes` holds what can have set the bit since the last
entry: an edge, a write of software that set it and did not take it back, or a reset, which leaves `mip` and the latch as they are.

**core_isa.** Words of 8 bits in bytes of 2, so that a word is still four bytes; 32 words of memory, of which the
upper half is the ports' (`IO_BIT` 6). Three registers and x0. Ten programs: arithmetic on two pairs of words
(with a negative one), every size and sign of load and store over one word, a program that overwrites its next
instruction, both outcomes of a signed and an unsigned branch with calls and returns, three loops that read and
write `mip` under interrupts, and the ports. The interrupt pin falls at any cycle. Every register powers up with one word, all ones but bit 5.
The reset is released once; resets in mid-run are the subject of InterruptFlow, and of `CoreKeepsInterrupts` and `ResetStartsProgram` below. `DatapathFollows` guards the composition: were the datapath and the
control unit to ask for different PCs or IRs, the model would have no step and the other properties would hold for no reason.

**units.** The ALU: all pairs of 4-bit words, all operations, all branches: sign, carry and overflow extremes occur at every width.
The benches run whole, at their own widths and times, from two power-up words of the RAM's port. `BenchesPass` says that no bench aborts and
that each noted result is what the unit gives, and, which the assertions cannot say, that a load's test looks at a word read for it. `StoresMergeFresh`
says as much of the stores: a partial store merges into a word it read itself from the place it writes (a write enable left on by the test
before writes the wrong word first and repairs it in time). The assembler's operands have at most two bits from 0 to 20 set, or
all but those: every position alone and beside every other, of either sign; the theorem below covers all operands. The run ends when the
benches end, so deadlock is off.

**console.** Half a clock is 2 evaluations instead of 10, a run gives up after 6 instead of 100000, counting stops at `StepCap` 12, three full clocks, the
length of a reset. The memory has 5 words and the window 3 rows, so that a window can end at, before and past the end. A session is up to twelve
lines and keys, any of which may come at any pass; the fourteen sessions put together what shares state: step sizes, modes, resets and a repeated run
with stepping; arming, moving and meeting the breakpoint in a free run and with runs; Home twice, paused, masked, with a changed duration, with resets and runs;
every run; scrolling, `mr` beyond both ends and `pc`; `mm`, `ld`, `crg`, `srg`; the settings, with words longer than the documented ones (`brake`, `irqs`, `halts`). Programs run at one or two
addresses, on the break address and off it. `Garbage` is what an uninitialised number can be: a target the program comes to, or one it does not.
Deadlock is off because Exit ends the program. The session of `console_halt` is `fr on` and `h`.

`StepsExact` allows for what uses the allowance up: a run, a reset, a change of the mode (`whole`). `PulseWhole` excepts the pulses that a reset, a run loop,
a change of the interrupt's settings or a press before the first evaluation meets (`disturbed`); in all these the code does give another pulse, see
below. `ScreenCurrent` names the rows that are always right and leaves out the following, which are not: the break address after `bra` and the PC
after `pc` (written in bytes until the next `show` writes words), the trigger's row after Home while nothing steps, the registers' row after `crg`, the memory window after the core itself
stores, and the clock's row after a loop that drove the clock (`looped`).

`PulseWhole` says one edge and at least the duration, which is what `model.h:68-69` and `README.md:180` promise a reader at the least; the code
lowers the pin for one evaluation more (see below), so the property does not say how long the pulse is. `CommandsOwn` reads `Meaning`, the list of words in `README.md`, against the code's
tests, which look for a word at the beginning of the line only: `brake` is a `br`, `irqs` an `irq`. A line must give the command of the longest documented word that begins it, the arguments it has
must be the command's arguments, what README.md says is meant without them must be (`mr`, `br off or br`, `stp`, `irq`, `crg 3`), and a line given again must keep its arguments. README.md's `reset` is not
among the words, because the code has no such command. Lines of `rn`, `sg` and `ss` without an argument, for which the code reads past the fields, are not typed; `SessionAssumption` excludes them (`Complete`).

**uart_link.** The real counters: 17 bits, a bit at 2^16, the receiver's step 302 as in the source, which makes a bit
219 clocks (the ideal is 217). The transmitter counts in steps of 284, 302 or 308, about 6% slow to 2% fast, the ends of what
`BaudAssumption` admits; 283 fails, 309 still works and 310 fails. Payload 0x00, 0xFF, 0x55 and 0xF2: no edge, one edge, every edge,
an uneven pattern. `PowerUp` 5 is the number of clocks TOP keeps the receiver in reset; `Settle` 3 the synchroniser's
length; `MaxIdle` 8 bounds how long the free-running counters run between bytes, both of which are cleared by the next byte.
The receiver is reset between bytes at any time, as the command machine does.

**command.** A status answer has its real 69 bytes. A bit is scaled to one clock: `TxClocks` and `RxClocks` 10, `TailClocks`
1. What matters is `RxClocks >= TailClocks + 2`: the client's next command, which it can only send when it has taken
the last byte, must not be complete before the machine is back in CSIdle. Equality works and one less does not; on the
board it is 2140 clocks against 52, and 182 with the slowest sender. The manual clock, the run clock and the PLL's clock are edges that come or
do not come in each clock of `clk`; the PLL, which is faster, does not miss two in a row; an edge that coincides with a change of the
reset may see either value.

### Fairness

Every fairness condition is that of an oscillator: `FairFlowSpec` has WF of the core's clock, `LinkSpec` WF of the
UART's, `Spec` of CommandMachine WF of the clock while the PLL has locked (the lock itself is assumed to come).
Nothing is assumed of the interrupt pin, the reset pin, software or the client's will to send.
`ConsoleSpec` has WF of what follows a command: the program's loop never waits for a key (`handleInput` returns at once when there is none), and keys need not come.
Where a property needs software's cooperation it says so: `InterruptServed` assumes that the interrupt stays
enabled and that PreFetch is reached outside a handler again and again.

### Disagreements found

* `console_tap`: `README.md:101` and SIM:1146 say that an edge in the service routine does nothing; it is latched and
  starts the routine again after `mret`.
* `alu_shift`: `sll`, `srl` and `sra` shift by all of rs2, RV32I by its low five bits.
* `command_toggle`: "e" toggles the reset twice, because its state runs twice; what remains is a pulse of one clock,
  which the next clock command does not see.
* `console_halt`: `README.md:133` says that `h` halts the simulation if running; it sets the step allowance to nothing, which a free run does not ask for.

Observed and not asserted, in the console: `mm` multiplies its word address (`README.md:153`) by four and then indexes words, beyond the array from 256 on
(`console_tb.cpp:176`); `fr` alone switches on where `README.md:169` has it off; `reset` (`README.md:127`) is not a command; `model.h:68` has
"we lower irq for the current duration value" and `README.md:180` calls `irqd` the duration, but the pulse is `irqDuration` + 1 evaluations long, because the code ends it when `irqCnt > irqDuration`; `irqd` alone sets 0, not the default 3 of `README.md:180`; Home gives two edges when a run, a reset or `irq off` comes between its evaluations, because the loops evaluate with the pin as the last pass left it;
`irqt` sets a point that nothing reads; the first loop of `run_to_decode` has no bound, unlike those beside it; and the message at `console_tb.cpp:367` adds the count to a pointer, which leaves the string from 12 on.
In the benches: `ALU_8bit_tb.cpp:99`, 108 and 120 note flags for additions, for which the ALU has none. In the assembler: an operand out of range
loses its upper bits without a word.

Observed and not asserted, in the cores: `README.md:270` calls `mip.MEIP` read-only, every CSR instruction can write it; the comment at
`RangerRiscProcessor.sv:216` says that stores write the ports, the write line depends on the address alone, so a load from a port writes it; `README.md:292` has `mepc` loaded with PC or PC_prior, the code always stores the
PC (which is the next instruction's address in either case); `jalr` does not clear bit 0 of its target; `csrrs`/`csrrc` with rs1 = x0 do not read (documented in
`iType_CSRs.md`, and modelled so in RiscvISA); FENCE runs as a load; "r" inverts `man_clock` 19 times, so a manual
clock that was low ends high, and the next "z" or "c" gives the processor no edge; with the slow run clock the 17
clocks of a reset may pass unseen, which `ResetReachesCPU` excepts.

## 4. Proofs

There are theorems about ControlMatrix, InterruptFlow, RangerRisc with ALU, Pmmu and Words, Retirement, Units with ALUConformance and Immediate, ControlMatrixCSRs, Simulation,
ConsoleInput, ConsoleScreen, ConsoleTestbench, PmmuBench, UARTLink with UARTTx, UARTRx and UARTTiming, and CommandMachine. The assumptions are those the modules name, each evaluated by TLC in the runs: `WordAssumption` (the special bits are bits of a word),
`ProgramAssumption` and `InstructionAssumption` (instruction fields have their widths, and the bit of funct7 is set only
where an operation exists for it), `ImageAssumption`, `PowerUpAssumption`, `PmmuAssumption` (a word is four bytes),
`DatapathAssumption` (with the datapath wired, any word may reach the PC), `SmallBitsAssumption` (the bits of the small ALU are numbered from 0), `BitsAssumption` (the special bits of the simulated core are bits, MIE and MPIE
two of them), `SimulationAssumption` (a clock has a length, a reset fits below `StepCap`), `ScreenAssumption`, `InputAssumption`, `TableAssumption` (which words of the command table begin which: the provers do not look into strings, TLC evaluates it) and
`SessionAssumption` (a line is a sequence of fields with the arguments its command reads without looking, a key one of the four, numbers and addresses are integers), `StatusAssumption` (a status answer has 1 to 128 bytes), `TimingAssumption` (a byte of the client takes
two clocks longer than the tail of one of the machine's; `BytesAreTimely` derives it from `BaudAssumption`), `CommandAssumption` (no request is not a request), `LinkAssumption`
(the bytes sent are bytes) and `BaudAssumption` (the sender is so little slower than the receiver that its last data bit has begun when it is sampled, and so little faster that its
stop bit is still on the line when the receiver is back in RxIdle; the reset at power-up lasts the four clocks that the idle line takes through the synchroniser).

| Theorem | States |
|---|---|
| `ControlMatrixTypes` | `Spec => []TypeOK` |
| `FlowRefinesControl` | the history variables constrain nothing |
| `FlowTypes`, `EdgesAreKept`, `EntriesAreHeard`, `ReturnAddressSurvives`, `ResetMasks`, `ResetReleases` | the safety properties of `irq_flow`, for every width, program and pin behaviour |
| `CoreTypes` | `CoreSpec => []CoreTypeOK`: no sum, merge or extension leaves the word |
| `CoreImplementsControl` | `CoreSpec => Spec`, a simulation: what is shown of ControlMatrix holds in the processor |
| `ExecutesMemory` | `CoreSpec => ExecutesAtPC` |
| `CoreKeepsInterrupts` | the five guarantees of InterruptFlow, of the processor with its datapath: `WatchedSpec => [](EdgeKept /\ ...)` |
| `ResetStartsProgram` | `CoreSpec => [](Resetting("Vector3") => pc = mem[word_addr(ResetVector)])`, resets at any clock |
| `Refinement` | `RetireSpec /\ []Conforming => ImplementsISA`: every clock of the core is a step of RiscvISA or a stutter |
| `Flight` | `RetireSpec /\ []Conforming => []FlightKnown`: what every register holds in each cycle of an instruction |
| `ALUComputes`, `BranchesDecide`, `OperandsComeBack` | `ResultCorrect` and `BranchCorrect` of `units`, for words of every width, and `ImmediateRoundTrip` |
| `Operations`, `Branches` | the same of the operators of ALU and RV32I, for every unit that uses them |
| `MergesAreFresh`, `LoadsAreFresh` | `StoresMergeFresh` of `units`, and the part of `BenchesPass` that says the same of loads |
| `CSRTypes`, `ConsoleEdgesKept`, `MretRestores`, `EntriesAreCaused`, `CycleIsKept` | the five properties of `console_irq`, for every set of bits |
| `OperandsRoundTrip`, `OperandsInRange` | the generator gives back every operand in the range of its format; those of the run are in range |
| `SimTypes`, `StepsAreExact`, `BreakStops`, `PulseIsWhole` | the safety properties of the console's loop, for every clock period, bound and program |
| `LinkTypes` | `LinkSpec => []LinkTypeOK` |
| `BytesAreCarried` | the safety half of `CarriesBytes`: `LinkSpec => Channel!Init /\ [][Channel!Next]_(Channel!vars)`, for every payload and every two rates within `BaudAssumption` |
| `TimingIsKept` | `LinkSpec /\ tx_inc = Rate => Timing!AtPowerUp /\ [][TimingNext]_(Timing!timing)`: the line keeps the timing of UARTTiming |
| `BytesAreTimely` | `Rate \in TxRates => Timing!Timely` |
| `CommandTypes`, `CommandsHeard`, `ResetIsSeen`, `StepsAreSingle` | the safety properties of `command`, for every timing |
| `AnswersAreExact` | the safety half of `AnswersCommands`: `Spec => Server!Init /\ [][Server!Next]_(Server!vars)` |
| `ConsoleImplementsSimulation`, `ConsoleHolds` | `ConsoleSpec => SimSpec`, and so the same of the console whatever is typed |
| `CommandsKeepTheirOwn`, `ScreenFollows`, `MarkersStand`, `LabelsNameStates` | the command line's and the screen's properties of `console`, for every session, program and size of the window |

*The control unit.* `TypeOK` is not inductive: in `ITCSRLd` an instruction with funct3 0 or 4 would have no value to
write. `TypeInv` adds `CsrReadLegal`, that `ITCSRLd` is reached by legal forms only. Each group of actions has a
lemma (reset, plain, system, prefetch, fetch), on top of lemmas for the helpers `Sequence`, `LatchMip`, `WriteCSR`.

*The interrupt flow.* `FlowInv` joins the types with six parts. `TriggerInv`: the latch is held clear only in IRQ1
and the reset, and is then empty; this is what makes a later edge visible. `HeardInv`: each place that can make an
interrupt pending (latch, `mip`) has been heard of, except in the first two reset states, where `mip` may still hold
anything. `ArmedInv`: MEIE comes from software alone. `ReleasedInv`: what Vector0 put right stays so to the end of the
reset. `ResumeInv`: in IRQ0, where `mepc` is loaded, the PC is the address to resume at. And `EdgeKept` itself. The lemma `Kinds` sorts
the 40 actions into resets, quiet cycles, CSR writes and entry states, so that each part is proved for five cases and not
for forty.

*The processor.* `CoreInv` adds that IR holds an encodable instruction, from which `OperationType` follows: the ALU is
never asked for an operation it lacks. `CoreClockIsClock` then shows a clock of the processor to be a clock of ControlMatrix.
With the histories beside it (`WatchedSpec`) the processor is so a behaviour of `FlowSpec` (`WatchedFlows`), and what was shown of the interrupt logic with every program holds
of the core with the one in its RAM. `ResetStarts` follows the start address from the vector to the port and into PC; a reset that falls again leads back to Sync0 and starts over.
`PortInv` says that the port holds the word at PC wherever `fresh` says so, and that `fresh` is off in Decode and Execute, so that no store
can come between a read and its fetch.

*The instruction set.* `Refinement` is the result the others of the processor lead to. Its invariant is `RetireInv`: `CoreInv`, `PortInv` and `InFlight` (in
Retirement, where TLC checks it as `FlightKnown`), which says what the hidden registers hold of the instruction being executed, as functions of the programmer's
view `arch`: `ArchHeld` (what `arch` owns is unchanged until the instruction retires), `ResetHeld`, `BetweenHeld` (PreFetch, the interrupt's cycles), `InstructionHeld` (IR is the
word at `arch`'s PC, and where PC itself stands), `OperandsHeld` (RsA, RsB), `ResultsHeld` (ALU_Out, the flags, MDR), `CSRHeld`. For each kind of instruction there is a lemma that its
cycles hand these on and one that its last cycle is the step of RiscvISA; loads and stores meet on bytes (`Slice`, `Merge` against `ReadBytes`, `WriteBytes`, for every `ByteWidth`). The one hypothesis
is about programs and is stated on what they do: legal instructions (the core runs any other as some load, store or loop), no address but a store's selects and changes
a port (the write line depends on the address alone), no shift by the width of a word or more (the ALU uses all of rs2). The ten programs of `core_isa` conform, which `FlightKnown` checks.

*The ALU.* Both sides are brought to numbers. `Low(w, n)` is the value of the lowest n bits; that the recursive function exists is proved by hand (`SumsTo`, `SumsAgree`, `LowSums`), and so are the
laws of powers of two, by counting subsets (`PowerNat`, `Power`, `PowerSum`). Instead of induction each argument takes the smallest number that is no member of a set (`Smallest`, `Successors`, by
well-foundedness). `SumLow` and `DifferenceLow`: a carry (borrow) into bit n is what the numbers below it overflow (fall short) by. `Digits` makes a word the digits of its value. `ShiftedLow` and `Runs` give the
shifts as quotient and product, the arithmetic one rounding down. `FlagsDecide` reads N, V, C and Z off the difference. Units_proofs and Retirement_proofs
instantiate these results for the run's small ALU and for the core; `SameALU` says in each that the definitions are the same. The shifts by `Width` and more are excepted, as in the run; they differ (`alu_shift`).

*The simulated core.* `EdgeKept` is inductive with the types, because the reset answers every edge. `EnableRestored` needs `EnableSaved`:
while a handler runs that has not written mstatus, the enable is in MPIE. `EntryHasCause` needs `CauseInv`: an edge in the latch, or `mip.MEIP` outside a
handler, has a cause that came after the last entry, and in IRQ1, where the causes are forgotten, the latch is held clear. `CycleKept` follows from the types alone; `HeldReset` says that the closing
edge with the pin low leads every state to Sync0.

*The immediates.* For each format one lemma: membership of a bit in the assembled word, then in the generator's value, each by `FieldMember`, which turns a field
into arithmetic on bit numbers; then the range of the operand identifies the copies of the sign with its upper bits.

*The console's loop.* `SimInv` joins the types with four parts. `LoopInv`: which run a loop belongs to, that a counted loop is short of its bound, and that no loop runs
while the allowance is whole. `StepInv`: the allowance has counted at least the steps, and exactly the steps while it is whole; this is what makes an end of stepping
mean that every step was made. `BreakInv`: after the break address was met neither mode is on. `PulseInv`: an undisturbed pulse is either unseen, with the pin high for all
loops, or was seen as one edge and the pin has been low since, with as many evaluations as the code has counted. The console's commands are then shown to be the loop's, argument by argument.

*The command line.* The command is that of the least test that the line passes (`Least`, by well-foundedness). `OwnWord` shows that its word is the longest that begins the line: a longer one of the table would be one of
`TableAssumption`'s five, and `bra`, `irqt` and `irqd` are tested before `br` and `irq`, while `h` has to be the whole line. `Table` and its companions evaluate `Dispatch` for every word, `TableUnderstood` what stands for a missing argument.
`InputInv` adds to `OwnCommand` that the arguments are those of the last line (`Given`), without which nothing could be said of a line given again, and that this is a line.

*The screen.* `ScreenCurrent` speaks of the end of a pass, and the rows are written one by one, in commands or loops, so `ScreenInv` says how each is kept: `RowsCurrent` (a row a command changes it also writes, and `show` writes all),
`RunCurrent` and `ClockCurrent` (behind while a loop runs, drawn before it ends), `WindowCurrent` and `MarkersCurrent` (the window shows words from `fromAddr` on, the markers are those of the last drawing). `Erasable`, that a marker on the screen stands
in one of the two rows the console remembers, is what makes the next drawing erase it; without it a marker could stay behind. One lemma for each command.

*The serial line.* A byte on the line has an age, the clocks since it was latched, and `Together(n)` says that all parts agree on it: `TxAt(n)` is the transmitter's state at that age,
`RxAt(n)` the receiver's, and the line and the three bits of the synchroniser show what `LevelIs` gives for n, n - 1, n - 2 and n - 3. `Counting` turns a counter's ticks into clocks
(the ceiling of 2^16 over the step), so that no counter is followed through its values. The receiver's samples then lie at fixed ages and the bits at fixed intervals (`Shows`), and
`Samples` is the inequality that puts each of the eight samples inside its bit, from the two bounds of `BaudAssumption`. Between bytes `Quiet` says how far the idle line has come through the synchroniser since
power-up; without it a bit that powered up low could pass for a start bit. Nothing is assumed of when the next byte follows, nor of the resets between bytes.

*The timing of the line.* The model of the command machine once assumed its UART's timing; it is now a module of its own that the line is shown to implement. The mapped variables are functions of
the age: `AgeOfByte` recovers it from the transmitter's state alone (its counter and bit number admit one age, by `SameCount`), `DoneAt` reads off the receiver's state whether it is done, and one lemma for each kind of clock
(`TimingSends`, `TimingWaits`, `TimingCarries`, `TimingFinishes`) gives the step. The constants become lengths in bits: `TxClocks` is ten bits of the sender, `RxClocks` is `RxDone`, the age at which the
receiver is done, `TailClocks` what is left of the ten bits then. The attempt corrected the model: it had the byte taken at the latest one clock before the transmitter is complete, but at the fastest rate that
`BaudAssumption` admits (308) the tail is empty and both happen in the same clock. `Timely` now admits `TailClocks` 0, and the run's sharpness is the same: `RxClocks` one less is refuted.
The theorem is about two ends with the receiver's step equal at both, and rates of the sender from slow to fast; the client's adapter is so taken to be as good a receiver as `UARTRx`.

*The memory bench.* Its tests set pins at fixed times and leave them set, so `MergeInv` says for the part of a test before its stimuli, between them and after them what the pins, the port and `port_from` hold (`TestRuns`, `ClockRuns`).
The one case that is not a fresh read is the word store: its write enable stays on for the pause before the next test, and the edge in it stores the same word again; the invariant must say that the cell holds what the pins do.

*The command machine.* Each state runs twice, so `CommandInv` speaks of the pair of `state` and `next_state` (`At`). `RouteOK`: where each state leads and whose
commands pass it. `CountsOK` and `TransmitOK`: the counters are clear between answers, and UARTTx has a byte exactly while the machine waits for it. `LinkOK` is
the heart: while the machine is `Busy` the client waits and has read as many bytes as were sent; from the moment the last byte is taken (`Answered`) a byte
of the client has more clocks to go than the machine needs to be back (`Remaining`), which is where `RxClocks >= TailClocks + 2` is used. `DataOK`: the
byte on the line is the one the client reads next. `ResetOK` and `EdgesOK`: the reset sequence has had its edge by the second clock of the hold, and
a clock command has its edge behind it once its first state has run, and no second one because the clock is then high.

Only model-checked: liveness and `DatapathFollows` (both are about ENABLED, which the prover does not take), and of `BenchesPass` the results the tests note (finite programs on literal words,
which TLC runs whole and a proof would only recompute). Of `CarriesBytes` and `AnswersCommands` the safety half is proved and the liveness left to TLC.

## 5. What the models leave out

* Glitches of the multiplexers when the clock selection changes, and metastability: an asynchronous input is seen
  in one clock or the next.
* `logic x = expr` in a declaration is read as a continuous assignment, as the repository's tools read it.
* The values of the status bytes, the display and the LEDs' wiring.
* The client's display, and the empty command it sends when return is the first key.
* Instruction records stand for encoded words. What the fields of an instruction do not name is fixed: rs2 of a load,
  for instance, is part of its immediate.
* The console's core is CoreCycle with a free PC, and its instruction register anything when a run to ebreak looks at it; the registers and the memory
  are the console's view of them. Rows of the screen that only print a wire of the core are left out. Delays are, too.
* The benches that assert nothing (cores, multiplexers, UART, SPI) are not run: they write waveforms for the eye.
* The assembler's text, labels and passes, and its encoders' parsing of numbers; what an encoder is given here is the number.

Not modelled at all, and why: SPI, the earlier cores, the modules no core instantiates and the board experiments are variants or try-outs beside the
two cores, none of which another part depends on; the PLL is a vendor's primitive and the seven segment display wiring.

## 6. Plan

Done, in this order: (1) ControlMatrix and InterruptFlow with their proofs; (2) the simulated core's interrupt logic; (3) ALU, Pmmu,
RangerRisc, and the refinement of RiscvISA with its proof; (4) the UART and its channel; (5) the command machine and its server; (6) the immediate generator
against the assembler, and the unit benches; (7) the console: loop, command line, screen; (8) proofs about the simulated core, the immediates, the console and the command machine; (9) proofs that the core implements the instruction set, that the ALU computes and decides,
and about the command line and the screen; (10) proofs about the serial line; (11) proofs that the line keeps the timing the command machine counts on,
that the processor keeps the interrupt logic's guarantees and starts its program under any resets, and that the memory bench's tests stand by themselves.

What would come next:

1. The SPI experiment (`simulation/spi_sync8`): master, slave and IO module as one model, against a register write.
2. The assembler's two passes, against the addresses its listing prints.
