---------------------------- MODULE ConsoleInput ----------------------------
(***************************************************************************)
(* The console's command line: what handleInput of console.cpp makes of a  *)
(* key.  A line is the sequence of its fields.  The passes that type or    *)
(* erase its characters carry out no command and are not kept: Return      *)
(* brings the whole line, the empty one to repeat the last.                *)
(***************************************************************************)
EXTENDS Integers, Sequences

CONSTANTS
  Number,     \* what stringstreams read in a field that is a number
  Garbage     \* what they may leave when there is nothing to read

ASSUME InputAssumption == Garbage \subseteq Int /\ \A f \in DOMAIN Number : Number[f] \in Int

VARIABLES cmd, lastCmd, arg1, arg2
input == <<cmd, lastCmd, arg1, arg2>>

Commands == {"None", "Exit", "NStep", "HCStep", "FLStep", "Signal", "SetReg", "ChangeReg",
  "EnableDelay", "DelayTime", "MemRange", "MemModify", "LoadProg", "SetPC", "SetBreak",
  "MemScrollUp", "MemScrollDwn", "RunTo", "SetStepSize", "Halt", "EnableFree", "EnableBreak",
  "EnableStepping", "EnableIRQ", "SetIRQ", "SetIRQDur", "TriggerIRQ"}

InputInit == cmd = "None" /\ lastCmd = <<>> /\ arg1 = "" /\ arg2 = ""

\* The tests in their order: the word, its command, and for each argument what
\* stands for it when it is missing; "keep" is what a former line left there, and
\* "past" what lies behind the fields, so these lines are not typed without it.
Dispatch == <<
  <<"rn",    "RunTo",          <<"past", "keep">>>>,
  <<"sg",    "Signal",         <<"past", "keep">>>>,
  <<"ss",    "SetStepSize",    <<"past">>>>,
  <<"halt",  "Halt",           <<>>>>,
  <<"h",     "Halt",           <<>>>>,
  <<"ns",    "NStep",          <<>>>>,
  <<"hc",    "HCStep",         <<>>>>,
  <<"fl",    "FLStep",         <<>>>>,
  <<"delay", "EnableDelay",    <<"off">>>>,
  <<"dt",    "DelayTime",      <<"10">>>>,
  <<"srg",   "SetReg",         <<"0">>>>,
  <<"crg",   "ChangeReg",      <<"0", "0">>>>,
  <<"mr",    "MemRange",       <<"0">>>>,
  <<"mm",    "MemModify",      <<"0", "0">>>>,
  <<"ld",    "LoadProg",       <<"ebreak">>>>,
  <<"pc",    "SetPC",          <<"0x0">>>>,
  <<"bra",   "SetBreak",       <<"0x0">>>>,
  <<"br",    "EnableBreak",    <<"off">>>>,
  <<"fr",    "EnableFree",     <<"on">>>>,
  <<"stp",   "EnableStepping", <<"off">>>>,
  <<"irqt",  "SetIRQ",         <<"0">>>>,
  <<"irqd",  "SetIRQDur",      <<"0">>>>,
  <<"irq",   "EnableIRQ",      <<"off">>>> >>

\* Whether a word begins with another, and which words of the table do.
Begins(part, word) == Len(part) <= Len(word) /\ SubSeq(word, 1, Len(part)) = part

Words == {Dispatch[i][1] : i \in DOMAIN Dispatch}
Extended == {<<"br", "bra">>, <<"irq", "irqt">>, <<"irq", "irqd">>, <<"h", "halt">>, <<"h", "hc">>}

ASSUME TableAssumption ==
  \A part, word \in Words : Begins(part, word) <=> part = word \/ <<part, word>> \in Extended

\* A word without arguments is the whole line; the others are looked for at its
\* start only, so a longer word of the user's takes the command of what it begins with.
Matching(line) ==
  {i \in DOMAIN Dispatch : IF Dispatch[i][3] = <<>> THEN line = <<Dispatch[i][1]>>
                                                   ELSE Begins(Dispatch[i][1], line[1])}

\* The line has the argument that its command reads without looking for it.
Complete(line) ==
  line # <<>> =>
    \A i \in Matching(line) :
      Dispatch[i][3] # <<>> /\ Dispatch[i][3][1] = "past" => Len(line) >= 2

\* Broken variant: the last test that succeeds decides.
Tested_Last(line) == CHOOSE i \in Matching(line) : \A j \in Matching(line) : j <= i

Tested(line) == CHOOSE i \in Matching(line) : \A j \in Matching(line) : i <= j

Argument(line, i, absent, old) ==
  IF Len(line) > i THEN line[i + 1] ELSE IF absent = "keep" THEN old ELSE absent

\* Return: the line, or the last one if it is blank.  A word that is not known
\* gives no command and is remembered all the same.
Return(typed) ==
  LET line == IF typed = <<>> THEN lastCmd ELSE typed
      test == Dispatch[Tested(line)]
  IN IF line = <<>> \/ Matching(line) = {}
     THEN cmd' = "None" /\ lastCmd' = line /\ UNCHANGED <<arg1, arg2>>
     ELSE /\ cmd' = test[2] /\ lastCmd' = line
          /\ arg1' = IF Len(test[3]) >= 1 THEN Argument(line, 1, test[3][1], arg1) ELSE arg1
          /\ arg2' = IF Len(test[3]) >= 2 THEN Argument(line, 2, test[3][2], arg2) ELSE arg2

\* The other keys, and none.
Pressed(key) ==
  /\ cmd' = CASE key = "tick" -> "Exit"
              [] key = "up"   -> "MemScrollUp"
              [] key = "down" -> "MemScrollDwn"
              [] key = "home" -> "TriggerIRQ"
              [] key = "none" -> "None"
  /\ UNCHANGED <<lastCmd, arg1, arg2>>

\* A field that is no number reads as 0; of an argument that was never given
\* nothing is read, and the result is uninitialised.
IntOf(field) == IF field \in DOMAIN Number THEN Number[field] ELSE 0
getArg1Int == IntOf(arg1)
getArg2Int == IntOf(arg2)
getArg2Ints == IF arg2 = "" THEN Garbage ELSE {getArg2Int}
getArg1Bool == arg1 \in {"on", "set", "active"}
-----------------------------------------------------------------------------
\* README.md, "Commands the console recognizes": what each word asks for, and halt,
\* which is h in full.  (Its reset is missing: the code has no such command.)
Meaning == [
  rn |-> "RunTo", sg |-> "Signal", ss |-> "SetStepSize", h |-> "Halt", halt |-> "Halt",
  ns |-> "NStep", hc |-> "HCStep", fl |-> "FLStep", delay |-> "EnableDelay", dt |-> "DelayTime",
  srg |-> "SetReg", crg |-> "ChangeReg", mr |-> "MemRange", mm |-> "MemModify",
  ld |-> "LoadProg", pc |-> "SetPC", bra |-> "SetBreak", br |-> "EnableBreak",
  fr |-> "EnableFree", stp |-> "EnableStepping", irq |-> "EnableIRQ", irqt |-> "SetIRQ",
  irqd |-> "SetIRQDur"]

Alone == {"h", "halt", "ns", "hc", "fl"}
TwoArguments == {"RunTo", "Signal", "ChangeReg", "MemModify"}

\* What it says an argument is that is left out: the first of these words ("br off or
\* br"), and the value of crg ("change x3 to 0: crg 3").  (fr alone is not among
\* them: the code takes it for on, README.md for off.)
Understood == [mr |-> "0", br |-> "off", stp |-> "off", irq |-> "off"]

\* The words that a line may be meant to give.
Asked(line) ==
  {word \in DOMAIN Meaning : IF word \in Alone THEN line = <<word>> ELSE Begins(word, line[1])}

LineCommands == Commands \ {"None", "Exit", "MemScrollUp", "MemScrollDwn", "TriggerIRQ"}

\* The command and its arguments are those of the last line: of the longest word
\* that begins it, and no argument given or understood is one of another line's.
OwnCommand ==
  cmd \in LineCommands =>
    /\ lastCmd # <<>>
    /\ \E word \in Asked(lastCmd) :
         /\ \A longer \in Asked(lastCmd) : Begins(word, longer) => longer = word
         /\ cmd = Meaning[word]
         /\ Len(lastCmd) = 1 /\ word \in DOMAIN Understood => arg1 = Understood[word]
         /\ Len(lastCmd) = 2 /\ word = "crg" => arg2 = "0"
    /\ Len(lastCmd) >= 2 => arg1 = lastCmd[2]
    /\ Len(lastCmd) >= 3 /\ cmd \in TwoArguments => arg2 = lastCmd[3]

\* Each key gives the command of its line with the arguments of its line, and a line
\* that is given again, by return alone or word for word, has the arguments it had.
CommandsOwn ==
  [][OwnCommand' /\ (cmd' \in LineCommands /\ lastCmd' = lastCmd => UNCHANGED <<arg1, arg2>>)]_input
=============================================================================
