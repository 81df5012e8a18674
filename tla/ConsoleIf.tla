----------------------------- MODULE ConsoleIf -----------------------------
(***************************************************************************)
(* The console: the firmware of the microcontroller (ks10.cpp,             *)
(* commands.cpp, console.cpp), its two interrupt handlers, the RUN, CONT,  *)
(* EXEC and HALT flags (intf.v) and the halt loop of the microcode.        *)
(*                                                                         *)
(* The firmware is a set of threads over the console registers of the      *)
(* FPGA: the command task, the console task that starts it and obeys ^C,   *)
(* ^S and ^Q, and the handlers of the console and the halt interrupt, which*)
(* run to completion.  A thread is the sequence of register accesses that  *)
(* it still has to make.  One step is one access, one microcode routine,   *)
(* or one instruction of the KS10.                                         *)
(*                                                                         *)
(* Timing that the model takes from the hardware: the KS10 leaves its halt *)
(* loop three clocks after CONT, while the firmware is still writing the   *)
(* other half-words of the status register; a memory cycle is over before  *)
(* the first poll of GO; an interrupt is taken before the next access of   *)
(* the task that it interrupts; a write of the status register lasts       *)
(* longer than a wait state of the CPU, in which intf.v does not take it.  *)
(*                                                                         *)
(* An assumption about the program of the KS10: it stores a communication  *)
(* word and interrupts the console, or takes its own interrupt and clears  *)
(* the word, in one step.  It has two instructions for each, and no access *)
(* of the console and no halt falls between them in the model.             *)
(***************************************************************************)
EXTENDS Integers, Sequences

CONSTANTS
    Commands,   \* the commands the operator types
    Keys,       \* the control characters the operator types
    Typed,      \* does the operator type to the program of the KS10?
    Program     \* what that program does: "HALT", "SEND", "TAKE"

ASSUME ConsoleAssumption ==
    /\ Commands \subseteq {"HA", "SI", "CO", "ST", "EX", "EM", "RD"}
    /\ Keys \subseteq {"^C", "^S"} /\ Program \subseteq {"HALT", "SEND", "TAKE"}
    /\ Typed \in BOOLEAN

Threads == {"cmd", "cons", "halt"}
Flags   == {"RUN", "CONT", "EXEC"}

\* Memory words: the halt status word, the halt status block, the temporary
\* word of RDHSB, the two console words, a word under examination.  Words that
\* are read in a row for one purpose are one word.
Words  == {"HSW", "HSB", "TMP", "CTYIN", "CTYOUT", "X"}
Values == {"POWER", "HALTED", "CSL", "tmp", "hsb", "none", "char", "x"}

VARIABLES
    prog,                   \* per thread: the accesses it has to make
    stat, val, saved,       \* per thread: status read, data read, data kept
    cmd, running, con, susp,    \* command, its output loop; console task
    dispatch,               \* dispatchHaltInterrupt
    consPend, haltPend,     \* latched edges of the two interrupt lines
    regADDR, regDATA, regCIR,   \* csl.v
    flags, halt, intr,      \* intf.v, apr.v
    cpu, t1,                \* microcode
    mem

firmVars == <<prog, stat, val, saved, cmd, running, con, susp, dispatch>>
pendVars == <<consPend, haltPend>>
regVars  == <<regADDR, regDATA, regCIR>>
cpuVars  == <<flags, halt, intr, cpu, t1>>
vars     == <<firmVars, pendVars, regVars, cpuVars, mem>>

-----------------------------------------------------------------------------
(* The functions of ks10.cpp as sequences of accesses.                     *)

Modify(set, clr) == <<<<"rdstat">>, <<"wrstat", set, clr>>>>
GoBit      == Modify({"GO"}, {})
ReadMem(w) == <<<<"addr", w, "rd">>>> \o GoBit \o <<<<"rddata">>>>
WriteMem(w, v) == <<<<"addr", w, "wr">>, <<"data", v>>>> \o GoBit

\* Status is read once and written back twice, with and without INTR.
CpuIntr == <<<<"rdstat">>, <<"wrstat", {"INTR"}, {}>>, <<"wrstat", {}, {}>>>>

\* putchar drops the character when the last one was not taken.
PutCharSilent == ReadMem("CTYIN") \o <<<<"ifnone">>>> \o WriteMem("CTYIN", "char")
PutChar == ReadMem("CTYIN") \o <<<<"ifnone">>>> \o WriteMem("CTYIN", "char") \o CpuIntr
GetCharLate == WriteMem("CTYOUT", "none") \o ReadMem("CTYOUT") \o <<<<"return">>>>
GetChar == ReadMem("CTYOUT") \o <<<<"ifchar">>>> \o WriteMem("CTYOUT", "none")
           \o <<<<"return">>>>

UntilHaltNot == <<>>
UntilHalt == <<<<"poll">>>>
Execute(insn, set) == <<<<"cir", insn>>>> \o Modify(set, {})
ExecuteInstruction(insn) ==
    <<<<"dispatch", FALSE>>>> \o Execute(insn, {"CONT", "EXEC"}) \o UntilHalt
    \o <<<<"dispatch", TRUE>>>>

\* executeInstructionAndGetData: the word that the instruction uses is saved
\* and restored.
ExecuteAndGetData(insn) ==
    ReadMem("TMP") \o <<<<"save">>>> \o ExecuteInstruction(insn) \o ReadMem("TMP")
    \o WriteMem("TMP", "saved")

\* haltInterrupt, and printHaltStatus that it calls when the KS10 halted.
HaltReport == <<<<"report">>, <<"return">>>>
HaltStatus == ReadMem("HSW") \o <<<<"ifhalt">>>> \o ExecuteAndGetData("RDHSB")
              \o ReadMem("HSB") \o <<<<"return">>>>

\* nxmnxd writes the status back without the NXM/NXD bit.
NxmNxd == Modify({}, {})

ConsoleOutput == <<<<"running", TRUE>>, <<"output">>, <<"running", FALSE>>>>
CommandProgram(c) ==
    CASE c = "HA" -> Modify({}, {"RUN"}) \o UntilHalt
      [] c = "SI" -> Modify({"CONT"}, {})
      [] c = "CO" -> Modify({"RUN", "CONT"}, {}) \o ConsoleOutput
      [] c = "ST" -> Execute("JRST", {"RUN", "CONT", "EXEC"}) \o ConsoleOutput
      [] c = "EX" -> Execute("ANY", {"CONT", "EXEC"})
      [] c = "EM" -> ReadMem("X") \o NxmNxd
      [] OTHER    -> <<<<"ifhalt">>>> \o ExecuteAndGetData("RDHSB")

-----------------------------------------------------------------------------
(* Threads.                                                                *)

\* The halt loop answers CONT before the firmware's next access.
Urgent == cpu = "HALTLP" /\ "CONT" \in flags

InHandler == prog["cons"] # <<>> \/ prog["halt"] # <<>>
CanRun(t) == /\ ~Urgent
             /\ t = "cmd" => ~InHandler /\ ~consPend /\ ~haltPend /\ ~susp

Doing(t, name) == prog[t] # <<>> /\ Head(prog[t])[1] = name /\ CanRun(t)
Arg(t, i) == Head(prog[t])[i + 1]

\* A halt interrupt is cleared when its handler returns: an edge that comes
\* while it runs is cleared with it.  A console interrupt was cleared before.
consClearLate(t, p) == IF t = "cons" /\ p = <<>> THEN FALSE ELSE consPend
consClear(t, p) == consPend
haltClear(t, p) == IF t = "halt" /\ p = <<>> THEN FALSE ELSE haltPend

\* Thread t has the accesses p left.
Goes(t, p) == /\ prog' = [prog EXCEPT ![t] = p]
              /\ cmd' = IF t = "cmd" /\ p = <<>> THEN "none" ELSE cmd
              /\ haltPend' = haltClear(t, p) /\ consPend' = consClear(t, p)
              /\ UNCHANGED <<con, susp>>
Advance(t) == Goes(t, Tail(prog[t]))

\* The firmware's own variables, and the FPGA's, that an access leaves alone.
SameLocals == UNCHANGED <<stat, val, saved, running, dispatch>>
SameFpga   == UNCHANGED <<regVars, cpuVars, mem>>

accAddr(t) == /\ Doing(t, "addr") /\ regADDR' = <<Arg(t, 1), Arg(t, 2)>> /\ Advance(t)
              /\ SameLocals /\ UNCHANGED <<regDATA, regCIR, cpuVars, mem>>
accData(t) == /\ Doing(t, "data") /\ Advance(t)
              /\ regDATA' = IF Arg(t, 1) = "saved" THEN saved[t] ELSE Arg(t, 1)
              /\ SameLocals /\ UNCHANGED <<regADDR, regCIR, cpuVars, mem>>
accCir(t)  == /\ Doing(t, "cir") /\ regCIR' = Arg(t, 1) /\ Advance(t)
              /\ SameLocals /\ UNCHANGED <<regADDR, regDATA, cpuVars, mem>>

accRdStat(t) == /\ Doing(t, "rdstat") /\ stat' = [stat EXCEPT ![t] = flags] /\ Advance(t)
                /\ SameFpga /\ UNCHANGED <<val, saved, running, dispatch>>
accRdData(t) == /\ Doing(t, "rddata") /\ val' = [val EXCEPT ![t] = regDATA] /\ Advance(t)
                /\ SameFpga /\ UNCHANGED <<stat, saved, running, dispatch>>

\* A bus cycle of csl.v.
BusCycle(go) ==
    IF ~go THEN UNCHANGED <<regDATA, mem>>
    ELSE IF regADDR[2] = "rd" THEN regDATA' = mem[regADDR[1]] /\ UNCHANGED mem
    ELSE mem' = [mem EXCEPT ![regADDR[1]] = regDATA] /\ UNCHANGED regDATA

\* A write of the status register sets RUN, CONT and EXEC to what is written;
\* GO starts a bus cycle.
accWrStatWide(t) ==
    /\ Doing(t, "wrstat") /\ Advance(t) /\ SameLocals
    /\ flags' = (stat[t] \cup Arg(t, 1)) \ Arg(t, 2)
    /\ intr' = (intr \/ "INTR" \in Arg(t, 1)) /\ BusCycle("GO" \in Arg(t, 1))
    /\ UNCHANGED <<regADDR, regCIR, halt, cpu, t1>>
accWrStat(t) ==
    /\ Doing(t, "wrstat") /\ Advance(t) /\ SameLocals
    /\ flags' = ((stat[t] \cup Arg(t, 1)) \ Arg(t, 2)) \cap Flags
    /\ intr' = (intr \/ "INTR" \in Arg(t, 1))
    /\ BusCycle("GO" \in Arg(t, 1))
    /\ UNCHANGED <<regADDR, regCIR, halt, cpu, t1>>

\* Tests: halt() reads the HALT line; the rest looks at what was read.
accPollRunning(t) == Doing(t, "poll") /\ ~halt /\ Advance(t) /\ SameLocals /\ SameFpga
accPoll(t) == /\ Doing(t, "poll") /\ halt /\ Advance(t) /\ SameLocals /\ SameFpga
Test(t, name, b) == /\ Doing(t, name) /\ Goes(t, IF b THEN Tail(prog[t]) ELSE <<>>)
                    /\ SameLocals /\ SameFpga
accIfHalt(t) == Test(t, "ifhalt", halt)
accIfChar(t) == Test(t, "ifchar", val[t] = "char")

\* putchar returns to the output loop, whether it wrote the character or not.
accIfNone(t) ==
    /\ Doing(t, "ifnone") /\ SameLocals /\ SameFpga
    /\ Goes(t, IF val[t] = "none" THEN Tail(prog[t]) ELSE ConsoleOutput)

accSave(t) == /\ Doing(t, "save") /\ saved' = [saved EXCEPT ![t] = val[t]] /\ Advance(t)
              /\ SameFpga /\ UNCHANGED <<stat, val, running, dispatch>>
accDispatch(t) == /\ Doing(t, "dispatch") /\ dispatch' = Arg(t, 1) /\ Advance(t)
                  /\ SameFpga /\ UNCHANGED <<stat, val, saved, running>>
accRunning(t)  == /\ Doing(t, "running") /\ running' = Arg(t, 1) /\ Advance(t)
                  /\ SameFpga /\ UNCHANGED <<stat, val, saved, dispatch>>

\* haltInterrupt reads the HALT line and prints "Halted" or "Running".
accReport(t) == /\ Doing(t, "report")
                /\ Goes(t, IF halt THEN HaltStatus ELSE Tail(prog[t]))
                /\ SameFpga /\ UNCHANGED <<stat, val, saved, running, dispatch>>
accReturn(t) == Doing(t, "return") /\ Advance(t) /\ SameLocals /\ SameFpga

\* consoleOutput: until the KS10 halts or the operator types ^E, pass on what
\* is typed.
accOutput(t) ==
    /\ Doing(t, "output") /\ SameLocals /\ SameFpga
    /\ \/ Advance(t)
       \/ ~halt /\ Typed /\ Goes(t, PutChar \o prog[t])

Access(t) ==
    \/ accAddr(t) \/ accData(t) \/ accCir(t) \/ accRdStat(t) \/ accRdData(t)
    \/ accWrStat(t) \/ accPoll(t) \/ accIfHalt(t) \/ accIfChar(t) \/ accIfNone(t)
    \/ accReport(t) \/ accReturn(t) \/ accSave(t) \/ accDispatch(t) \/ accRunning(t) \/ accOutput(t)

-----------------------------------------------------------------------------
(* Interrupts of the microcontroller.                                      *)

\* gpiobIntHandler clears the interrupt before it handles it;
\* gpiodIntHandler does so after it, and may have nothing to handle.
consIntr ==
    /\ consPend /\ ~InHandler /\ ~Urgent
    /\ consPend' = FALSE /\ prog' = [prog EXCEPT !["cons"] = GetChar]
    /\ UNCHANGED <<stat, val, saved, cmd, running, con, susp, dispatch, haltPend,
                   regVars, cpuVars, mem>>
haltIntr ==
    /\ haltPend /\ ~InHandler /\ ~Urgent
    /\ prog' = [prog EXCEPT !["halt"] = IF dispatch THEN HaltReport ELSE <<>>]
    /\ haltPend' = dispatch
    /\ UNCHANGED <<stat, val, saved, cmd, running, con, susp, dispatch, consPend,
                   regVars, cpuVars, mem>>

-----------------------------------------------------------------------------
(* The console task.                                                       *)

ConsoleRuns == ~running /\ ~InHandler /\ ~consPend /\ ~haltPend /\ ~Urgent

\* The console task replaces the program of the command task.
Begin(c) == cmd' = c /\ prog' = [prog EXCEPT !["cmd"] = CommandProgram(c)]
SameForCon == UNCHANGED <<stat, val, saved, running, dispatch, pendVars, regVars, cpuVars, mem>>

\* startCommandTask waits in the console task until the last command is done.
typeLine(c) ==
    /\ ConsoleRuns /\ con = "READS"
    /\ \/ cmd = "none" /\ Begin(c) /\ UNCHANGED con
       \/ cmd # "none" /\ con' = c /\ UNCHANGED <<cmd, prog>>
    /\ UNCHANGED susp /\ SameForCon
startNext == /\ ConsoleRuns /\ con # "READS" /\ cmd = "none" /\ Begin(con) /\ con' = "READS"
             /\ UNCHANGED susp /\ SameForCon

typeCtrlC == /\ ConsoleRuns /\ con = "READS" /\ "^C" \in Keys /\ cmd # "none"
             /\ cmd' = "none" /\ prog' = [prog EXCEPT !["cmd"] = <<>>] /\ susp' = FALSE
             /\ UNCHANGED con /\ SameForCon
typeCtrlS == /\ ConsoleRuns /\ con = "READS" /\ "^S" \in Keys /\ cmd # "none" /\ susp' = TRUE
             /\ UNCHANGED <<cmd, prog, con>> /\ SameForCon
typeCtrlQ == /\ ConsoleRuns /\ con = "READS" /\ "^S" \in Keys /\ susp' = FALSE
             /\ UNCHANGED <<cmd, prog, con>> /\ SameForCon

-----------------------------------------------------------------------------
(* The KS10.                                                               *)

\* NICOND, the dispatch at the end of every instruction.
NicondRuns == cpu' = "INSTR" /\ UNCHANGED t1
Nicond == IF "RUN" \in flags THEN cpu' = "INSTR" /\ UNCHANGED t1
          ELSE cpu' = "HALTING" /\ t1' = "CSL"

cpuInstr ==
    /\ cpu = "INSTR" /\ UNCHANGED <<firmVars, haltPend, regVars, flags, halt>>
    /\ \/ Nicond /\ UNCHANGED <<consPend, intr, mem>>
       \/ /\ "HALT" \in Program /\ cpu' = "HALTING" /\ t1' = "HALTED"
          /\ UNCHANGED <<consPend, intr, mem>>
       \/ /\ "SEND" \in Program /\ mem["CTYOUT"] = "none"
          /\ mem' = [mem EXCEPT !["CTYOUT"] = "char"] /\ consPend' = TRUE
          /\ Nicond /\ UNCHANGED intr
       \/ /\ "TAKE" \in Program /\ intr
          /\ mem' = [mem EXCEPT !["CTYIN"] = "none"] /\ intr' = FALSE
          /\ Nicond /\ UNCHANGED consPend

\* The instruction in the console instruction register.
cpuXct == /\ cpu = "XCT" /\ Nicond
          /\ mem' = IF regCIR = "RDHSB" THEN [mem EXCEPT !["TMP"] = "hsb"] ELSE mem
          /\ UNCHANGED <<firmVars, pendVars, regVars, flags, halt, intr>>

\* HALTED writes the halt status and then tells the console; SET HALT clears
\* RUN, EXEC and CONT, UNHALT clears EXEC and CONT.
cpuHaltedNoStore == /\ cpu = "HALTING" /\ cpu' = "H1" /\ UNCHANGED mem
                    /\ UNCHANGED <<firmVars, pendVars, regVars, flags, halt, intr, t1>>
cpuHalted == /\ cpu = "HALTING" /\ cpu' = "H1" /\ mem' = [mem EXCEPT !["HSW"] = t1]
             /\ UNCHANGED <<firmVars, pendVars, regVars, flags, halt, intr, t1>>
SetHalt(cleared, next) ==
    /\ flags' = flags \ cleared /\ halt' = TRUE /\ haltPend' = TRUE /\ cpu' = next
    /\ UNCHANGED <<firmVars, consPend, regVars, intr, t1>>
cpuSetHalt == cpu = "H1" /\ SetHalt({"RUN", "EXEC", "CONT"}, "HALTLP") /\ UNCHANGED mem
cpuUnhalt == /\ Urgent /\ halt' = FALSE /\ haltPend' = TRUE
             /\ cpu' = IF "EXEC" \in flags THEN "XCT" ELSE "INSTR"
             /\ flags' = flags \ {"CONT", "EXEC"}
             /\ UNCHANGED <<firmVars, consPend, regVars, intr, t1, mem>>

-----------------------------------------------------------------------------
Init ==
    /\ prog = [t \in Threads |-> <<>>] /\ stat = [t \in Threads |-> {}]
    /\ val = [t \in Threads |-> "none"] /\ saved = [t \in Threads |-> "none"]
    /\ cmd = "none" /\ running = FALSE /\ con = "READS" /\ susp = FALSE /\ dispatch = TRUE
    /\ consPend = FALSE /\ haltPend = FALSE
    /\ regADDR = <<"X", "rd">> /\ regDATA = "x" /\ regCIR = "ANY"
    /\ flags = {} /\ halt = TRUE /\ intr = FALSE /\ cpu = "HALTLP" /\ t1 = "POWER"
    /\ mem = [HSW |-> "POWER", HSB |-> "hsb", TMP |-> "tmp", CTYIN |-> "none", CTYOUT |-> "none", X |-> "x"]

Firmware == (\E t \in Threads : Access(t)) \/ consIntr \/ haltIntr
Cpu      == cpuInstr \/ cpuXct \/ cpuHalted \/ cpuSetHalt \/ cpuUnhalt
Operator == (\E c \in Commands : typeLine(c)) \/ typeCtrlC \/ typeCtrlS \/ typeCtrlQ

Next == Firmware \/ startNext \/ Cpu \/ Operator
Spec == Init /\ [][Next]_vars

\* The clock of the KS10 and that of the microcontroller do not stop.  The
\* operator owes nothing, and the program does not have to halt.
Clock == Cpu /\ (cpu = "INSTR" => cpu' = "INSTR" \/ t1' = "CSL")
FairSpec == Spec /\ WF_vars(Clock) /\ WF_vars(Firmware) /\ WF_vars(startNext)

-----------------------------------------------------------------------------
(* Properties.                                                             *)

At(t, name) == prog[t] # <<>> /\ Head(prog[t])[1] = name
Steps(t)    == prog'[t] # prog[t]

TypeOK ==
    /\ stat \in [Threads -> SUBSET Flags] /\ val \in [Threads -> Values]
    /\ saved \in [Threads -> Values]
    /\ cmd \in Commands \cup {"none"} /\ con \in Commands \cup {"READS"}
    /\ running \in BOOLEAN /\ susp \in BOOLEAN /\ dispatch \in BOOLEAN
    /\ consPend \in BOOLEAN /\ haltPend \in BOOLEAN
    /\ regADDR \in Words \X {"rd", "wr"} /\ regDATA \in Values
    /\ regCIR \in {"RDHSB", "JRST", "ANY"}
    /\ flags \subseteq Flags /\ halt \in BOOLEAN /\ intr \in BOOLEAN
    /\ cpu \in {"INSTR", "XCT", "HALTING", "H1", "HALTLP"}
    /\ t1 \in {"POWER", "HALTED", "CSL"}
    /\ mem \in [Words -> Values]

\* The cause of the halt that the halt interrupt prints is the cause of this
\* halt: the microcode writes it before it tells the console.
HaltCause == [][At("halt", "ifhalt") /\ Steps("halt") => (val["halt"] = t1)]_vars

\* The word that the handler lets RDHSB overwrite is restored when nobody is
\* using it, whatever halted the KS10 meanwhile.
TmpRestored == ~InHandler /\ cmd # "RD" => mem["TMP"] = "tmp"

\* The KS10 remains in the halt state until it is single-stepped or it is
\* commanded to continue: it leaves the halt loop with RUN set only for CO
\* and ST.
HaltHolds == [][(cpu = "HALTLP" /\ cpu' # "HALTLP")
                  => ("RUN" \in flags => cmd \in {"CO", "ST"})]_vars

\* A character that the KS10 wants to send has an interrupt that will fetch it.
OutNotified == mem["CTYOUT"] = "char" => consPend \/ prog["cons"] # <<>>

\* A character leaves the output word only when the handler has it.
OutFetched == [][(mem["CTYOUT"] = "char" /\ mem'["CTYOUT"] = "none")
                   => (prog["cons"] # <<>> /\ val["cons"] = "char")]_vars

\* A character in the input word has an interrupt of the KS10 that will take
\* it, pending or about to be made.
InNotified == mem["CTYIN"] = "char"
                 => \/ intr
                    \/ \E i \in DOMAIN prog["cmd"] : prog["cmd"][i] = <<"wrstat", {"INTR"}, {}>>

\* HA ends: the KS10 halts because RUN is clear, and the command sees it.
HaEnds == (cmd = "HA" ~> cmd = "none")

\* Every handler returns.
HandlersEnd == (InHandler ~> ~InHandler)
=============================================================================
