------------------------------- MODULE Debug -------------------------------
(***************************************************************************)
(* The instruction trace and breakpoint unit (debug.v) with its trace      *)
(* buffer (fifo.v), the registers through which the firmware commands and  *)
(* reads it (csl.v), the commands TR, BR and CO of the firmware, and the   *)
(* CPU as far as it is traced: it fetches an instruction, with wait states *)
(* or without, executes it, and halts when RUN is clear.                   *)
(*                                                                         *)
(* One step is one clock of the CPU.  The firmware makes one access after  *)
(* the other; a strobe lasts StrobeTicks clocks and one clock passes before*)
(* the next.                                                               *)
(***************************************************************************)
EXTENDS Fifo, Sequences

CONSTANTS
    Marked,         \* the instructions whose address matches the breakpoint
    Commands,       \* the commands the operator types
    Waits,          \* may a clock of the CPU be a wait state: BOOLEAN or {FALSE}
    StrobeTicks     \* clocks that a strobe of the console lasts

ASSUME DebugAssumption ==
    /\ Marked \subseteq Data /\ "data" \notin Data
    /\ Waits \subseteq BOOLEAN /\ StrobeTicks \in Nat /\ StrobeTicks >= 3
    /\ Commands \subseteq {"RESET", "TRIG", "MATCH", "STOP", "DUMP", "PEEK",
                           "BR OFF", "BR MATCH", "BR FULL", "BR BOTH", "CO"}

VARIABLES
    trstate, brstate,       \* debug.v
    regTRCMD, regBRCMD,     \* csl.v
    rdLast, wrLast,         \* the two edge detectors
    regsLOAD, hr,           \* regir.v: trace strobe, instruction register
    at, u, cpuRUN,          \* address on the bus; microcode; RUN
    todo, ticks,            \* the accesses that the firmware has to make
    recorded, traced        \* the instruction in HR: is it in the trace, and was its
                            \* fetch without a wait state and the trace on since

debugVars == <<trstate, brstate, regTRCMD, regBRCMD, rdLast, wrLast>>
cpuVars   == <<regsLOAD, hr, at, u, cpuRUN>>
firmVars  == <<todo, ticks>>
auxVars   == <<recorded, traced>>
vars      == <<fifoVars, debugVars, cpuVars, firmVars, auxVars>>

-----------------------------------------------------------------------------
(* The firmware.                                                           *)

\* A write of DCSR writes both command fields.
WriteDCSR(tr, br) == <<<<"tr", tr>>, <<"br", br>>>>
TR(c) == WriteDCSR(c, regBRCMD)
BR(c) == WriteDCSR(regTRCMD, c)

\* TR DUMP stops the trace and reads until TREMPTY.
DumpNoStop == <<<<"empty", "">>>>
Dump == TR("STOP") \o <<<<"empty", "">>>>

\* CO arms a breakpoint on a match again if it is not armed.
Rearm == IF regBRCMD = "MATCH" /\ brstate = "IDLE" THEN BR("MATCH") ELSE <<>>

CommandAccesses(c) ==
    CASE c \in {"RESET", "TRIG", "MATCH", "STOP"} -> TR(c)
      [] c = "DUMP"     -> Dump
      [] c = "PEEK"     -> <<<<"ditr", "">>>>
      [] c = "BR OFF"   -> BR("OFF")
      [] c = "BR MATCH" -> BR("MATCH")
      [] c = "BR FULL"  -> BR("FULL")
      [] c = "BR BOTH"  -> BR("BOTH")
      [] OTHER          -> Rearm \o <<<<"run", "">>>>

\* The loop of TR DUMP.
AfterAccess == IF Head(todo)[1] = "empty" /\ ~empty
               THEN <<<<"ditr", "">>, <<"empty", "">>>> ELSE Tail(todo)

Idle == ticks = 0 /\ UNCHANGED firmVars
Type == ticks = 0 /\ todo = <<>> /\ UNCHANGED ticks
        /\ \E c \in Commands : todo' = CommandAccesses(c)
StartAccess == ticks = 0 /\ todo # <<>> /\ ticks' = StrobeTicks + 1 /\ UNCHANGED todo
Strobe      == ticks > 1 /\ ticks' = ticks - 1 /\ UNCHANGED todo
EndAccess   == ticks = 1 /\ ticks' = 0 /\ todo' = AfterAccess
FirmNext == (todo = <<>> /\ Idle) \/ Type \/ StartAccess \/ Strobe \/ EndAccess

\* The strobes that csl.v makes of an access.
Access(name) == ticks > 1 /\ Head(todo)[1] = name
regTRCMD_WR == Access("tr")
regBRCMD_WR == Access("br")
regDITR_RD  == Access("ditr")
cslSET      == Access("run")

CslNext == /\ regTRCMD' = IF regTRCMD_WR THEN Head(todo)[2] ELSE regTRCMD
           /\ regBRCMD' = IF regBRCMD_WR THEN Head(todo)[2] ELSE regBRCMD

-----------------------------------------------------------------------------
(* debug.v.                                                                *)

match == at \in Marked

trStop == regTRCMD = "STOP" /\ regTRCMD_WR
trFullOnly == full
trDone == full \/ trStop
TrNext ==
    trstate' =
      IF regTRCMD = "RESET" /\ regTRCMD_WR THEN "IDLE"
      ELSE CASE trstate = "IDLE" /\ regTRCMD_WR /\ regTRCMD = "TRIG"  -> "ACTIVE"
             [] trstate = "IDLE" /\ regTRCMD_WR /\ regTRCMD = "MATCH" -> "ARMED"
             [] trstate = "ARMED" /\ match -> "ACTIVE"
             [] trstate = "ARMED" /\ ~match /\ trStop -> "DONE"
             [] trstate = "ACTIVE" /\ trDone -> "DONE"
             [] OTHER -> trstate

brHit == \/ regBRCMD \in {"MATCH", "BOTH"} /\ match
         \/ regBRCMD \in {"FULL", "BOTH"} /\ full
brOffAnd == regBRCMD = "OFF" /\ regBRCMD_WR /\ brstate = "BREAK"
brOff == regBRCMD = "OFF" /\ regBRCMD_WR
BrNext ==
    brstate' =
      IF brOff THEN "IDLE"
      ELSE CASE brstate = "IDLE" /\ regBRCMD_WR -> "ARMED"
             [] brstate = "ARMED" /\ brHit -> "BREAK"
             [] brstate = "BREAK" -> "IDLE"
             [] OTHER -> brstate

debugHALT == brstate = "BREAK"

\* The trace buffer is popped when the read strobe ends and written when the
\* load strobe begins.
fetchWRIn == u = "FETCH" /\ trstate = "ACTIVE"
traceWRIn == regsLOAD /\ trstate = "ACTIVE"
rdLeading == regDITR_RD /\ ~rdLast
fifo_rd == ~regDITR_RD /\ rdLast
fifo_wr == traceWRIn /\ ~wrLast

FifoNext == /\ FifoStep(trstate = "IDLE", fifo_rd, fifo_wr, hr)
            /\ rdLast' = regDITR_RD /\ wrLast' = traceWRIn

-----------------------------------------------------------------------------
(* The CPU.                                                                *)

\* The microinstruction at XCTGO waits for the instruction and loads it; the
\* trace strobe follows the microinstruction, also while it waits.
CpuLoad(clken) == /\ regsLOAD' = (u = "FETCH")
                  /\ hr' = IF u = "FETCH" /\ clken THEN at ELSE hr

\* NICOND starts the fetch of an instruction, or halts.
Fetch  == u' = "FETCH" /\ at' \in Data
Halt   == u' = "HALT" /\ at' = "data"
Nicond == IF cpuRUN THEN Fetch ELSE Halt

CpuMicro(clken) ==
    \/ ~clken /\ UNCHANGED <<u, at>>
    \/ clken /\ u = "FETCH" /\ u' = "EXEC" /\ UNCHANGED at
    \/ clken /\ u = "EXEC" /\ (UNCHANGED <<u, at>> \/ (UNCHANGED u /\ at' = "data") \/ Nicond)
    \/ clken /\ u = "HALT" /\ (IF cpuRUN THEN Fetch ELSE UNCHANGED <<u, at>>)

CpuRun(clken) ==
    cpuRUN' = IF ~clken THEN cpuRUN ELSE IF debugHALT THEN FALSE ELSE cslSET \/ cpuRUN

CpuNext == \E w \in Waits : CpuLoad(~w) /\ CpuMicro(~w) /\ CpuRun(~w)

\* The auxiliary variables.  regsLOAD is not up in the first clock of a fetch.
loads == u = "FETCH" /\ u' # "FETCH"
Count == /\ recorded' = (~loads /\ (recorded \/ (fifo_wr /\ ~full)))
         /\ traced' = IF loads THEN ~regsLOAD ELSE traced /\ trstate = "ACTIVE"

-----------------------------------------------------------------------------
Init == /\ FifoInit
        /\ trstate = "IDLE" /\ brstate = "IDLE" /\ regTRCMD = "RESET" /\ regBRCMD = "OFF"
        /\ rdLast = FALSE /\ wrLast = FALSE /\ regsLOAD = FALSE /\ hr \in Data
        /\ at = "data" /\ u = "HALT" /\ cpuRUN = FALSE
        /\ todo = <<>> /\ ticks = 0
        /\ recorded = FALSE /\ traced = FALSE

Next == FirmNext /\ CslNext /\ TrNext /\ BrNext /\ FifoNext /\ CpuNext /\ Count
Spec == Init /\ [][Next]_vars

\* The clock does not stop.
FairSpec == Spec /\ WF_vars(Next)

-----------------------------------------------------------------------------
(* Properties.                                                             *)

TypeOK ==
    /\ FifoTypeOK
    /\ trstate \in {"IDLE", "ARMED", "ACTIVE", "DONE"} /\ brstate \in {"IDLE", "ARMED", "BREAK"}
    /\ regTRCMD \in {"RESET", "TRIG", "MATCH", "STOP"}
    /\ regBRCMD \in {"OFF", "MATCH", "FULL", "BOTH"}
    /\ rdLast \in BOOLEAN /\ wrLast \in BOOLEAN /\ regsLOAD \in BOOLEAN /\ hr \in Data
    /\ at \in Data \cup {"data"} /\ u \in {"FETCH", "EXEC", "HALT"} /\ cpuRUN \in BOOLEAN
    /\ ticks \in 0 .. StrobeTicks + 1
    /\ recorded \in BOOLEAN /\ traced \in BOOLEAN

\* The depth counter and the pointers agree whatever the operator does to the
\* trace, so that TREMPTY and TRFULL are right.
DepthOK == DepthRight

\* The trace buffer is the log of the abstract recorder.
Log == INSTANCE Recorder WITH Capacity <- SIZE - 1, Insns <- Data, phase <- trstate,
                              log <- Words
Records == Log!Spec

\* The entry that the console reads is the oldest one that it has not read.
ReadsOldest == regDITR_RD /\ ~empty => out = Words[1]

\* An instruction that is fetched without a wait state while the trace is on is in
\* the trace when its second clock begins, and is recorded again only if the fetch of
\* the next one has a wait state.  (Then the trace has this one twice, and may not
\* have the next one at all.)
OneRecord == /\ traced /\ ~regsLOAD => recorded
             /\ fifo_wr /\ recorded => u = "FETCH" /\ regsLOAD

\* When the firmware's command is done, RESET has reset the trace and OFF has
\* disarmed the breakpoint, also when the register still held another command
\* in the first clock of the strobe.
CommandsTake == todo = <<>> => /\ regTRCMD = "RESET" => trstate = "IDLE"
                               /\ regBRCMD = "OFF" => brstate # "ARMED"

\* Every command ends; TR DUMP empties the buffer.
CommandsEnd == (todo # <<>> ~> todo = <<>>)
=============================================================================
