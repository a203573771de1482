-------------------------- MODULE ConsoleTestbench --------------------------
(***************************************************************************)
(* The console simulator: console_tb.cpp's loop over the command line, the *)
(* simulation and the screen.  Each action is one command, or one step of  *)
(* what follows it, with all that it changes and shows.                    *)
(*                                                                         *)
(* The registers and the memory are the console's copies of those of the   *)
(* core: only what its commands write to them is kept.                     *)
(***************************************************************************)
EXTENDS ConsoleInput, ConsoleScreen, FiniteSetsExt

CONSTANTS
  Sessions,   \* bound of the model: for each name [lines, keys, visits], what a
              \* user types and the addresses the program loaded runs at
  Rams        \* the .ram files: for each the words it sets, as a function

\* A line is a sequence of fields, complete where the code reads past them, and a
\* key one that handleInput knows.
ASSUME SessionAssumption ==
  \A name \in DOMAIN Sessions :
    /\ Sessions[name].lines \subseteq Seq(STRING)
    /\ \A line \in Sessions[name].lines : Complete(line)
    /\ Sessions[name].keys \subseteq {"tick", "up", "down", "home"}
    /\ Sessions[name].visits \subseteq Int

VARIABLES session, mem, delayEnabled

stores == <<mem, delayEnabled>>
consoleVars == <<vars, input, screen, viewed, session, stores>>

ConsoleInit ==
  /\ session \in DOMAIN Sessions
  /\ SimInit(Sessions[session].visits) /\ InputInit /\ ScreenInit
  /\ mem = [a \in 0 .. MemLen - 1 |-> 0] /\ delayEnabled = TRUE

\* handleInput, as the session has it.
handleInput ==
  \/ \E line \in Sessions[session].lines : Return(line)
  \/ \E key \in Sessions[session].keys \cup {"none"} : Pressed(key)

Quiet == UNCHANGED <<viewed, stores>>
Unshown == UNCHANGED screen
-----------------------------------------------------------------------------
\* The switch over the command.

Steps ==
  /\ \/ cmd' = "NStep"       /\ NStep
     \/ cmd' = "HCStep"      /\ HCStep
     \/ cmd' = "FLStep"      /\ FLStep
     \/ cmd' = "SetStepSize" /\ SetStepSize(getArg1Int')
     \/ cmd' = "Halt"        /\ Halt
  /\ showRow("stepSize", stepSize')
  /\ Quiet

Modes ==
  /\ \/ cmd' = "EnableFree"     /\ EnableFree(getArg1Bool')
     \/ cmd' = "EnableBreak"    /\ EnableBreak(getArg1Bool')
     \/ cmd' = "EnableStepping" /\ EnableStepping(getArg1Bool')
     \/ cmd' = "EnableIRQ"      /\ EnableIRQ(getArg1Bool')
     \/ cmd' = "SetIRQDur"      /\ SetIRQDur(getArg1Int')
  /\ Quiet /\ showStill

\* The break address, shown in bytes and beside its row.
Breakpoint ==
  /\ cmd' = "SetBreak" /\ SetBreak(word_to_byte_addr(getArg1Int'))
  /\ Quiet /\ showRow("breakAt", breakAddr')

Settings ==
  /\ Other
  /\ \/ cmd' = "DelayTime" /\ timeStepDelayms' = getArg1Int' /\ UNCHANGED irqTriggerPoint
     \/ cmd' = "SetIRQ" /\ irqTriggerPoint' = getArg1Int' /\ UNCHANGED timeStepDelayms
  /\ UNCHANGED <<fromAddr, selectedReg, bank, stores>>
  /\ showStill

Delay ==
  /\ cmd' = "EnableDelay" /\ Other
  /\ delayEnabled' = getArg1Bool' /\ UNCHANGED <<mem, viewed>> /\ Unshown

Home == cmd' = "TriggerIRQ" /\ TriggerIRQ /\ Quiet /\ Unshown

\* pc: the old marker of the PC becomes the one to erase for PC_prior, and the
\* row gets the address in bytes.
SetProgramCounter ==
  /\ cmd' = "SetPC" /\ SetPC(word_to_byte_addr(getArg1Int'))
  /\ Quiet
  /\ shown' = [shown EXCEPT !.pc = pc'] /\ UNCHANGED <<clockShown, window>>
  /\ MarkersOver(clearPCMarkerCol, p_pcMarker)

Window ==
  /\ Other
  /\ \/ cmd' = "MemRange"     /\ fromAddr' = getArg1Int'
     \/ cmd' = "MemScrollUp"  /\ fromAddr' = Max({fromAddr - 1, 0})
     \/ cmd' = "MemScrollDwn" /\ fromAddr' = Min({fromAddr + 1, MemLen - 1})
  /\ UNCHANGED <<timeStepDelayms, irqTriggerPoint, selectedReg, bank, stores>>
  /\ showWindow /\ UNCHANGED <<shown, clockShown>>

\* mm writes the word numbered by the byte address; ld the words of its file.
Memory ==
  /\ Other
  /\ \/ cmd' = "MemModify" /\ mem' = [mem EXCEPT ![word_to_byte_addr(getArg1Int')] = getArg2Int']
     \/ cmd' = "LoadProg" /\ mem' = IF arg1' \in DOMAIN Rams THEN Rams[arg1'] @@ mem ELSE mem
  /\ window' = Shown(fromAddr, window)
  /\ UNCHANGED <<delayEnabled, viewed, shown, clockShown, markers>>

Registers ==
  /\ Other
  /\ \/ /\ cmd' = "SetReg" /\ selectedReg' = getArg1Int' /\ UNCHANGED bank
        /\ showRow("reg", bank[selectedReg'])
     \/ /\ cmd' = "ChangeReg" /\ bank' = [bank EXCEPT ![getArg1Int'] = getArg2Int']
        /\ UNCHANGED selectedReg /\ Unshown
  /\ UNCHANGED <<fromAddr, timeStepDelayms, irqTriggerPoint, stores>>

Loop == looped' = TRUE /\ Quiet /\ UNCHANGED <<shown, clockRow, p_clkState, window, markers>>

\* sg reset, and the signals it does not know.
Signal ==
  /\ cmd' = "Signal"
  /\ \/ arg1' = "reset" /\ BeginReset /\ Loop
     \/ arg1' # "reset" /\ Other /\ Quiet /\ Unshown

Names == [fetch |-> {"fetch", "fe"}, decode |-> {"decode", "de"}, execute |-> {"execute", "ex"},
          ebreak |-> {"ebreak", "eb"}, pc |-> {"pc"}]

Run ==
  /\ cmd' = "RunTo"
  /\ \/ \E g \in DOMAIN Names, n \in getArg2Ints' :
          arg1' \in Names[g] /\ RunTo(g, word_to_byte_addr(n)) /\ Loop
     \/ /\ \A g \in DOMAIN Names : arg1' \notin Names[g]
        /\ Other /\ Quiet /\ showStill

Nothing == cmd' = "None" /\ NoCommand /\ Quiet /\ Unshown
Quit == cmd' = "Exit" /\ Exit /\ Quiet /\ Unshown

Key ==
  /\ at = "input" /\ handleInput /\ UNCHANGED session
  /\ \/ Steps \/ Modes \/ Breakpoint \/ Settings \/ Delay \/ Home \/ SetProgramCounter
     \/ Window \/ Memory \/ Registers \/ Signal \/ Run \/ Nothing \/ Quit
-----------------------------------------------------------------------------
\* What follows a command.

\* The loops show nothing until they end.
Looping ==
  /\ UpdateReset \/ EndReset \/ Leave \/ SearchState \/ SearchValue
  /\ Quiet
  /\ IF at' = "update" THEN showStill ELSE Unshown

\* Broken variant: the screen is drawn after the clock was noted.
Stepping_ShownLate == UpdateStep /\ Quiet /\ showStill

\* A step is shown before update() notes the clock, and once more if the pass has
\* marked the screen.
Stepping == UpdateStep /\ Quiet /\ show(clk_seen, clk_i', dirty \/ BreakMet)

Resting ==
  /\ UpdateIdle /\ Quiet
  /\ IF dirty \/ BreakMet THEN showStill ELSE showRow("simRunning", FALSE)

Pass == UNCHANGED <<input, session>> /\ (Looping \/ Stepping \/ Resting)

ConsoleNext == Key \/ Pass

\* The program runs whenever it need not wait for a key, and it never waits.
ConsoleSpec == ConsoleInit /\ [][ConsoleNext]_consoleVars /\ WF_consoleVars(Pass)
-----------------------------------------------------------------------------
\* README.md: "h Halts simulation if running".
HaltHalts == at = "input" /\ cmd = "Halt" => ~simRunning
=============================================================================
