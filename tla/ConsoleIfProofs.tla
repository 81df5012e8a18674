-------------------------- MODULE ConsoleIfProofs --------------------------
(***************************************************************************)
(* The console's threads over the shared console registers, for every set  *)
(* of commands, keys and programs that the theorems name.                  *)
(***************************************************************************)
EXTENDS ConsoleIf, SequenceTheorems, TLAPS

-----------------------------------------------------------------------------
(* What the accesses are.                                                  *)

Tests == {"rdstat", "rddata", "poll", "ifhalt", "ifchar", "ifnone", "save", "report",
          "return", "output"}
StatusBits == Flags \cup {"GO", "INTR"}

\* The console reads every word and writes three of them.
Written == {"TMP", "CTYIN", "CTYOUT"}
Accs == {<<n>> : n \in Tests}
        \cup {<<"addr", w, "rd">> : w \in Words} \cup {<<"addr", w, "wr">> : w \in Written}
        \cup {<<"data", v>> : v \in Values \cup {"saved"}}
        \cup {<<"cir", i>> : i \in {"RDHSB", "JRST", "ANY"}}
        \cup {<<"wrstat", s, c>> : s \in SUBSET StatusBits, c \in SUBSET StatusBits}
        \cup {<<n, b>> : n \in {"dispatch", "running"}, b \in BOOLEAN}

\* The arguments of an access are those that its name calls for.
LEMMA AccParts ==
    ASSUME NEW a \in Accs
    PROVE  /\ a[1] = "addr" => a[2] \in Words /\ (a[3] = "rd" \/ (a[3] = "wr" /\ a[2] \in Written))
           /\ a[1] = "data" => a[2] \in Values \cup {"saved"}
           /\ a[1] = "cir" => a[2] \in {"RDHSB", "JRST", "ANY"}
           /\ a[1] \in {"dispatch", "running"} => a[2] \in BOOLEAN
<1>1. CASE a \in {<<n>> : n \in Tests}
  BY <1>1 DEF Tests
<1>2. CASE a \in {<<"addr", w, "rd">> : w \in Words}
  BY <1>2
<1>7. CASE a \in {<<"addr", w, "wr">> : w \in Written}
  BY <1>7 DEF Words, Written
<1>3. CASE a \in {<<"data", v>> : v \in Values \cup {"saved"}}
  BY <1>3
<1>4. CASE a \in {<<"cir", i>> : i \in {"RDHSB", "JRST", "ANY"}}
  BY <1>4
<1>5. CASE a \in {<<"wrstat", s, c>> : s \in SUBSET StatusBits, c \in SUBSET StatusBits}
  BY <1>5
<1>6. CASE a \in {<<n, b>> : n \in {"dispatch", "running"}, b \in BOOLEAN}
  BY <1>6
<1>8. QED
  BY <1>1, <1>2, <1>3, <1>4, <1>5, <1>6, <1>7 DEF Accs

\* Switches of the firmware's own flags, and writes of the status register.
LEMMA SwitchTypes ==
    ASSUME NEW n \in {"dispatch", "running"}, NEW b \in BOOLEAN
    PROVE  <<n, b>> \in Accs
BY DEF Accs

LEMMA StatusTypes ==
    ASSUME NEW s \in SUBSET StatusBits, NEW c \in SUBSET StatusBits
    PROVE  <<"wrstat", s, c>> \in Accs
BY DEF Accs

\* Every program of the firmware is a sequence of accesses.
LEMMA ModifyType ==
    ASSUME NEW s \in SUBSET StatusBits, NEW c \in SUBSET StatusBits
    PROVE  Modify(s, c) \in Seq(Accs)
<1>1. <<"rdstat">> \in Accs
  BY DEF Accs, Tests
<1>2. <<"wrstat", s, c>> \in Accs
  BY StatusTypes
<1>3. QED
  BY <1>1, <1>2 DEF Modify

LEMMA MemTypes ==
    ASSUME NEW w \in Words, NEW v \in Values \cup {"saved"}
    PROVE  /\ ReadMem(w) \in Seq(Accs) /\ (w \in Written => WriteMem(w, v) \in Seq(Accs))
           /\ CpuIntr \in Seq(Accs)
<1>1. <<"addr", w, "rd">> \in Accs /\ (w \in Written => <<"addr", w, "wr">> \in Accs)
  BY DEF Accs
<1>2. <<"data", v>> \in Accs
  BY DEF Accs
<1>3. <<"rdstat">> \in Accs /\ <<"rddata">> \in Accs
  BY DEF Accs, Tests
<1>4. GoBit \in Seq(Accs)
  BY ModifyType DEF GoBit, StatusBits
<1>5. <<"wrstat", {"INTR"}, {}>> \in Accs /\ <<"wrstat", {}, {}>> \in Accs
  <2>1. {"INTR"} \in SUBSET StatusBits /\ {} \in SUBSET StatusBits
    BY DEF StatusBits
  <2>2. QED
    BY <2>1, StatusTypes
<1>6. QED
  BY <1>1, <1>2, <1>3, <1>4, <1>5 DEF ReadMem, WriteMem, CpuIntr

LEMMA HandlerTypes ==
    /\ GetChar \in Seq(Accs) /\ PutChar \in Seq(Accs)
    /\ ConsoleOutput \in Seq(Accs) /\ HaltReport \in Seq(Accs)
<1>1. /\ <<"return">> \in Accs /\ <<"ifchar">> \in Accs /\ <<"ifnone">> \in Accs
      /\ <<"output">> \in Accs /\ <<"report">> \in Accs
  BY DEF Accs, Tests
<1>2. <<"running", TRUE>> \in Accs /\ <<"running", FALSE>> \in Accs
  BY SwitchTypes
<1>3. ReadMem("CTYOUT") \in Seq(Accs) /\ WriteMem("CTYOUT", "none") \in Seq(Accs)
  BY MemTypes DEF Words, Written, Values
<1>4. /\ ReadMem("CTYIN") \in Seq(Accs) /\ WriteMem("CTYIN", "char") \in Seq(Accs)
      /\ CpuIntr \in Seq(Accs)
  BY MemTypes DEF Words, Written, Values
<1>5. GetChar \in Seq(Accs)
  BY <1>1, <1>3 DEF GetChar
<1>6. PutChar \in Seq(Accs)
  BY <1>1, <1>4 DEF PutChar
<1>7. QED
  BY <1>1, <1>2, <1>5, <1>6 DEF ConsoleOutput, HaltReport

LEMMA ExecuteTypes ==
    /\ ExecuteAndGetData("RDHSB") \in Seq(Accs)
    /\ HaltStatus \in Seq(Accs)
<1>1. <<"save">> \in Accs /\ <<"ifhalt">> \in Accs /\ <<"return">> \in Accs /\ <<"poll">> \in Accs
  BY DEF Accs, Tests
<1>2. /\ <<"dispatch", TRUE>> \in Accs /\ <<"dispatch", FALSE>> \in Accs
      /\ <<"cir", "RDHSB">> \in Accs
  <2>1. <<"cir", "RDHSB">> \in Accs
    BY DEF Accs
  <2>2. QED
    BY <2>1, SwitchTypes
<1>3. Modify({"CONT", "EXEC"}, {}) \in Seq(Accs)
  BY ModifyType DEF StatusBits, Flags
<1>4. ExecuteInstruction("RDHSB") \in Seq(Accs)
  BY <1>1, <1>2, <1>3 DEF ExecuteInstruction, Execute, UntilHalt
<1>5. /\ ReadMem("TMP") \in Seq(Accs) /\ WriteMem("TMP", "saved") \in Seq(Accs)
      /\ ReadMem("HSW") \in Seq(Accs) /\ ReadMem("HSB") \in Seq(Accs)
  BY MemTypes DEF Words, Written
<1>6. ExecuteAndGetData("RDHSB") \in Seq(Accs)
  BY <1>1, <1>4, <1>5 DEF ExecuteAndGetData
<1>7. QED
  BY <1>1, <1>5, <1>6 DEF HaltStatus

LEMMA CommandTypes ==
    ASSUME NEW c
    PROVE  CommandProgram(c) \in Seq(Accs)
<1>1. <<"ifhalt">> \in Accs /\ <<"poll">> \in Accs
  BY DEF Accs, Tests
<1>2. <<"cir", "JRST">> \in Accs /\ <<"cir", "ANY">> \in Accs
  BY DEF Accs
<1>3. /\ Modify({}, {"RUN"}) \in Seq(Accs) /\ Modify({"CONT"}, {}) \in Seq(Accs)
      /\ Modify({"RUN", "CONT"}, {}) \in Seq(Accs) /\ Modify({"CONT", "EXEC"}, {}) \in Seq(Accs)
      /\ Modify({"RUN", "CONT", "EXEC"}, {}) \in Seq(Accs) /\ Modify({}, {}) \in Seq(Accs)
  BY ModifyType DEF StatusBits, Flags
<1>4. ReadMem("X") \in Seq(Accs)
  BY MemTypes DEF Words, Written
<1>5. CASE c = "HA"
  BY <1>1, <1>3, <1>5 DEF CommandProgram, UntilHalt
<1>6. CASE c = "SI"
  BY <1>3, <1>6 DEF CommandProgram
<1>7. CASE c = "CO"
  BY <1>3, <1>7, HandlerTypes DEF CommandProgram
<1>8. CASE c = "ST"
  BY <1>2, <1>3, <1>8, HandlerTypes DEF CommandProgram, Execute
<1>9. CASE c = "EX"
  BY <1>2, <1>3, <1>9 DEF CommandProgram, Execute
<1>10. CASE c = "EM"
  BY <1>3, <1>4, <1>10 DEF CommandProgram, NxmNxd
<1>11. CASE c \notin {"HA", "SI", "CO", "ST", "EX", "EM"}
  BY <1>1, <1>11, ExecuteTypes DEF CommandProgram
<1>12. QED
  BY <1>5, <1>6, <1>7, <1>8, <1>9, <1>10, <1>11

-----------------------------------------------------------------------------
(* The types.                                                              *)

Addrs == (Words \X {"rd"}) \cup (Written \X {"wr"})
Progs == [Threads -> Seq(Accs)]

\* What the threads have, and what the FPGA and the KS10 have.
FirmTypes ==
    /\ prog \in Progs
    /\ stat \in [Threads -> SUBSET Flags] /\ val \in [Threads -> Values]
    /\ saved \in [Threads -> Values]
    /\ cmd \in Commands \cup {"none"} /\ con \in Commands \cup {"READS"}
    /\ running \in BOOLEAN /\ susp \in BOOLEAN /\ dispatch \in BOOLEAN
    /\ consPend \in BOOLEAN /\ haltPend \in BOOLEAN
FpgaTypes ==
    /\ regADDR \in Addrs /\ regDATA \in Values
    /\ regCIR \in {"RDHSB", "JRST", "ANY"}
    /\ flags \subseteq Flags /\ halt \in BOOLEAN /\ intr \in BOOLEAN
    /\ cpu \in {"INSTR", "XCT", "HALTING", "H1", "HALTLP"}
    /\ t1 \in {"POWER", "HALTED", "CSL"}
    /\ mem \in [Words -> Values]

TypeInv == FirmTypes /\ FpgaTypes

\* The access that a thread makes, and what is left of its program.
LEMMA DoingParts ==
    ASSUME prog \in Progs, NEW t \in Threads, NEW name, Doing(t, name)
    PROVE  /\ Head(prog[t]) \in Accs /\ Tail(prog[t]) \in Seq(Accs) /\ prog[t] # <<>>
           /\ name = "addr" => <<Arg(t, 1), Arg(t, 2)>> \in Addrs
           /\ name = "data" => Arg(t, 1) \in Values \cup {"saved"}
           /\ name = "cir" => Arg(t, 1) \in {"RDHSB", "JRST", "ANY"}
           /\ name \in {"dispatch", "running"} => Arg(t, 1) \in BOOLEAN
<1>1. prog[t] \in Seq(Accs) /\ prog[t] # <<>> /\ Head(prog[t])[1] = name
  BY DEF Doing, Progs
<1>2. Head(prog[t]) \in Accs /\ Tail(prog[t]) \in Seq(Accs)
  BY <1>1
<1>3. Arg(t, 1) = Head(prog[t])[2] /\ Arg(t, 2) = Head(prog[t])[3]
  BY DEF Arg
<1>4. QED
  BY <1>1, <1>2, <1>3, AccParts DEF Addrs

LEMMA GoesTypes ==
    ASSUME FirmTypes, NEW t \in Threads, NEW p \in Seq(Accs), Goes(t, p)
    PROVE  /\ prog' \in Progs
           /\ cmd' \in Commands \cup {"none"} /\ con' \in Commands \cup {"READS"}
           /\ susp' \in BOOLEAN /\ consPend' \in BOOLEAN /\ haltPend' \in BOOLEAN
<1> USE DEF FirmTypes, Goes
<1>1. prog' \in Progs
  BY DEF Progs
<1>2. cmd' \in Commands \cup {"none"} /\ con' \in Commands \cup {"READS"}
  OBVIOUS
<1>3. susp' \in BOOLEAN
  BY Zenon
<1>4. consPend' \in BOOLEAN
  BY Zenon DEF consClear
<1>5. haltPend' \in BOOLEAN
  BY DEF haltClear
<1>6. QED
  BY <1>1, <1>2, <1>3, <1>4, <1>5

\* The firmware's own variables that an access leaves alone,
LEMMA SameLocalsTypes ==
    ASSUME FirmTypes, SameLocals
    PROVE  /\ stat' \in [Threads -> SUBSET Flags] /\ val' \in [Threads -> Values]
           /\ saved' \in [Threads -> Values] /\ running' \in BOOLEAN /\ dispatch' \in BOOLEAN
BY Zenon DEF FirmTypes, SameLocals

\* and the FPGA's.
LEMMA SameFpgaTypes ==
    ASSUME FpgaTypes, SameFpga
    PROVE  FpgaTypes'
BY Zenon DEF FpgaTypes, SameFpga, regVars, cpuVars

LEMMA BusTypes ==
    ASSUME FpgaTypes, NEW go \in BOOLEAN, BusCycle(go)
    PROVE  regDATA' \in Values /\ mem' \in [Words -> Values]
<1>1. regADDR[1] \in Words /\ regDATA \in Values /\ mem \in [Words -> Values]
  BY DEF FpgaTypes, Addrs, Written, Words
<1>2. QED
  BY <1>1 DEF BusCycle

\* An access of a thread keeps the types.
LEMMA AccessTypes ==
    ASSUME FirmTypes, FpgaTypes, NEW t \in Threads, Access(t)
    PROVE  FirmTypes' /\ FpgaTypes'
<1>1. prog \in Progs
  BY DEF FirmTypes
<1>2. ASSUME NEW name, Doing(t, name), Advance(t), SameLocals
      PROVE  FirmTypes'
  <2>1. Tail(prog[t]) \in Seq(Accs)
    BY <1>1, <1>2, DoingParts
  <2>2. Goes(t, Tail(prog[t]))
    BY <1>2 DEF Advance
  <2>3. QED
    BY <1>2, <2>1, <2>2, GoesTypes, SameLocalsTypes DEF FirmTypes
<1>3. ASSUME NEW name, Doing(t, name), Advance(t)
      PROVE  /\ prog' \in Progs
             /\ cmd' \in Commands \cup {"none"} /\ con' \in Commands \cup {"READS"}
             /\ susp' \in BOOLEAN /\ consPend' \in BOOLEAN /\ haltPend' \in BOOLEAN
  <2>1. Tail(prog[t]) \in Seq(Accs)
    BY <1>1, <1>3, DoingParts
  <2>2. QED
    BY <1>3, <2>1, GoesTypes DEF Advance
<1>4. CASE accAddr(t)
  <2>1. FirmTypes'
    BY <1>2, <1>4 DEF accAddr
  <2>2. regADDR' \in Addrs
    BY <1>1, <1>4, DoingParts DEF accAddr
  <2>3. QED
    BY <1>4, <2>1, <2>2 DEF accAddr, FpgaTypes, cpuVars
<1>5. CASE accData(t)
  <2>1. FirmTypes'
    BY <1>2, <1>5 DEF accData
  <2>2. regDATA' \in Values
    BY <1>1, <1>5, DoingParts DEF accData, FirmTypes
  <2>3. QED
    BY <1>5, <2>1, <2>2 DEF accData, FpgaTypes, cpuVars
<1>6. CASE accCir(t)
  <2>1. FirmTypes'
    BY <1>2, <1>6 DEF accCir
  <2>2. regCIR' \in {"RDHSB", "JRST", "ANY"}
    BY <1>1, <1>6, DoingParts DEF accCir
  <2>3. QED
    BY <1>6, <2>1, <2>2 DEF accCir, FpgaTypes, cpuVars
<1>7. CASE accRdStat(t)
  <2>1. FpgaTypes'
    BY <1>7, SameFpgaTypes DEF accRdStat
  <2>2. stat' \in [Threads -> SUBSET Flags]
    BY <1>7 DEF accRdStat, FirmTypes, FpgaTypes
  <2>3. val' \in [Threads -> Values] /\ saved' \in [Threads -> Values]
    BY <1>7, Zenon DEF accRdStat, FirmTypes
  <2>4. running' \in BOOLEAN /\ dispatch' \in BOOLEAN
    BY <1>7, Zenon DEF accRdStat, FirmTypes
  <2>5. QED
    BY <1>3, <1>7, <2>1, <2>2, <2>3, <2>4 DEF accRdStat, FirmTypes
<1>8. CASE accRdData(t)
  <2>1. FpgaTypes'
    BY <1>8, SameFpgaTypes DEF accRdData
  <2>2. val' \in [Threads -> Values]
    BY <1>8 DEF accRdData, FirmTypes, FpgaTypes
  <2>3. stat' \in [Threads -> SUBSET Flags] /\ saved' \in [Threads -> Values]
    BY <1>8, Zenon DEF accRdData, FirmTypes
  <2>4. running' \in BOOLEAN /\ dispatch' \in BOOLEAN
    BY <1>8, Zenon DEF accRdData, FirmTypes
  <2>5. QED
    BY <1>3, <1>8, <2>1, <2>2, <2>3, <2>4 DEF accRdData, FirmTypes
<1>9. CASE accWrStat(t)
  <2>1. FirmTypes'
    BY <1>2, <1>9 DEF accWrStat
  <2>2. regDATA' \in Values /\ mem' \in [Words -> Values]
    <3>1. ("GO" \in Arg(t, 1)) \in BOOLEAN
      OBVIOUS
    <3>2. QED
      BY <1>9, <3>1, BusTypes DEF accWrStat
  <2>3. flags' \subseteq Flags
    BY <1>9 DEF accWrStat
  <2>4. intr' \in BOOLEAN
    BY <1>9 DEF accWrStat
  <2>5. QED
    BY <1>9, <2>1, <2>2, <2>3, <2>4 DEF accWrStat, FpgaTypes
<1>10. CASE accPoll(t)
  BY <1>2, <1>10, SameFpgaTypes DEF accPoll
<1>11. ASSUME NEW name, NEW b \in BOOLEAN, Test(t, name, b)
       PROVE  FirmTypes' /\ FpgaTypes'
  <2>1. (IF b THEN Tail(prog[t]) ELSE <<>>) \in Seq(Accs)
    <3>1. Doing(t, name)
      BY <1>11 DEF Test
    <3>2. Tail(prog[t]) \in Seq(Accs)
      BY <1>1, <3>1, DoingParts
    <3>3. QED
      BY <3>2
  <2>2. QED
    BY <1>11, <2>1, GoesTypes, SameLocalsTypes, SameFpgaTypes DEF Test, FirmTypes
<1>12. CASE accIfHalt(t)
  BY <1>11, <1>12 DEF accIfHalt, FpgaTypes
<1>13. CASE accIfChar(t)
  BY <1>11, <1>13 DEF accIfChar
<1>14. CASE accIfNone(t)
  <2>1. (IF val[t] = "none" THEN Tail(prog[t]) ELSE ConsoleOutput) \in Seq(Accs)
    BY <1>1, <1>14, DoingParts, HandlerTypes DEF accIfNone
  <2>2. QED
    BY <1>14, <2>1, GoesTypes, SameLocalsTypes, SameFpgaTypes DEF accIfNone, FirmTypes
<1>15. CASE accReport(t)
  <2>1. (IF halt THEN HaltStatus ELSE Tail(prog[t])) \in Seq(Accs)
    BY <1>1, <1>15, DoingParts, ExecuteTypes DEF accReport
  <2>2. SameLocals
    BY <1>15 DEF accReport, SameLocals
  <2>3. QED
    BY <1>15, <2>1, <2>2, GoesTypes, SameLocalsTypes, SameFpgaTypes DEF accReport, FirmTypes
<1>16. CASE accReturn(t)
  BY <1>2, <1>16, SameFpgaTypes DEF accReturn
<1>17. CASE accSave(t)
  <2>1. FpgaTypes'
    BY <1>17, SameFpgaTypes DEF accSave
  <2>2. saved' \in [Threads -> Values]
    BY <1>17 DEF accSave, FirmTypes
  <2>3. stat' \in [Threads -> SUBSET Flags] /\ val' \in [Threads -> Values]
    BY <1>17, Zenon DEF accSave, FirmTypes
  <2>4. running' \in BOOLEAN /\ dispatch' \in BOOLEAN
    BY <1>17, Zenon DEF accSave, FirmTypes
  <2>5. QED
    BY <1>3, <1>17, <2>1, <2>2, <2>3, <2>4 DEF accSave, FirmTypes
<1>18. CASE accDispatch(t)
  <2>1. FpgaTypes'
    BY <1>18, SameFpgaTypes DEF accDispatch
  <2>2. dispatch' \in BOOLEAN
    BY <1>1, <1>18, DoingParts DEF accDispatch
  <2>3. /\ stat' \in [Threads -> SUBSET Flags] /\ val' \in [Threads -> Values]
        /\ saved' \in [Threads -> Values]
    BY <1>18, Zenon DEF accDispatch, FirmTypes
  <2>4. running' \in BOOLEAN
    BY <1>18, Zenon DEF accDispatch, FirmTypes
  <2>5. QED
    BY <1>3, <1>18, <2>1, <2>2, <2>3, <2>4 DEF accDispatch, FirmTypes
<1>19. CASE accRunning(t)
  <2>1. FpgaTypes'
    BY <1>19, SameFpgaTypes DEF accRunning
  <2>2. running' \in BOOLEAN
    BY <1>1, <1>19, DoingParts DEF accRunning
  <2>3. /\ stat' \in [Threads -> SUBSET Flags] /\ val' \in [Threads -> Values]
        /\ saved' \in [Threads -> Values]
    BY <1>19, Zenon DEF accRunning, FirmTypes
  <2>4. dispatch' \in BOOLEAN
    BY <1>19, Zenon DEF accRunning, FirmTypes
  <2>5. QED
    BY <1>3, <1>19, <2>1, <2>2, <2>3, <2>4 DEF accRunning, FirmTypes
<1>20. CASE accOutput(t)
  <2>1. prog[t] \in Seq(Accs)
    BY <1>1 DEF Progs
  <2>2. PutChar \o prog[t] \in Seq(Accs)
    BY <2>1, HandlerTypes
  <2>3. FirmTypes'
    <3>1. CASE Advance(t)
      BY <1>2, <1>20, <3>1 DEF accOutput
    <3>2. CASE Goes(t, PutChar \o prog[t])
      BY <1>20, <2>2, <3>2, GoesTypes, SameLocalsTypes DEF accOutput, FirmTypes
    <3>3. QED
      BY <1>20, <3>1, <3>2 DEF accOutput
  <2>4. QED
    BY <1>20, <2>3, SameFpgaTypes DEF accOutput
<1>21. QED
  BY <1>4, <1>5, <1>6, <1>7, <1>8, <1>9, <1>10, <1>12, <1>13, <1>14, <1>15, <1>16,
     <1>17, <1>18, <1>19, <1>20 DEF Access

\* A handler that starts,
LEMMA HandlerStartTypes ==
    ASSUME FirmTypes, FpgaTypes, consIntr \/ haltIntr
    PROVE  FirmTypes' /\ FpgaTypes'
<1>1. CASE consIntr
  <2>1. prog' \in Progs
    BY <1>1, HandlerTypes DEF consIntr, FirmTypes, Progs, Threads
  <2>2. FpgaTypes'
    BY <1>1, SameFpgaTypes DEF consIntr, SameFpga
  <2>3. UNCHANGED <<stat, val, saved, cmd, running, con, susp, dispatch, haltPend>>
        /\ consPend' \in BOOLEAN
    BY <1>1 DEF consIntr
  <2>4. QED
    BY <2>1, <2>2, <2>3, Zenon DEF FirmTypes
<1>2. CASE haltIntr
  <2>1. prog' \in Progs
    BY <1>2, HandlerTypes DEF haltIntr, FirmTypes, Progs, Threads
  <2>2. FpgaTypes'
    BY <1>2, SameFpgaTypes DEF haltIntr, SameFpga
  <2>3. UNCHANGED <<stat, val, saved, cmd, running, con, susp, dispatch, consPend>>
    BY <1>2 DEF haltIntr
  <2>4. haltPend' \in BOOLEAN
    BY <1>2, Zenon DEF haltIntr, FirmTypes
  <2>5. QED
    BY <2>1, <2>2, <2>3, <2>4, Zenon DEF FirmTypes
<1>3. QED
  BY <1>1, <1>2

\* a line or a key that the operator types,
LEMMA OperatorTypes ==
    ASSUME FirmTypes, FpgaTypes, startNext \/ Operator
    PROVE  FirmTypes' /\ FpgaTypes'
<1>1. SameForCon
  BY DEF startNext, Operator, typeLine, typeCtrlC, typeCtrlS, typeCtrlQ
<1>2. FpgaTypes'
  BY <1>1, SameFpgaTypes DEF SameForCon, SameFpga
<1>3. ASSUME NEW c \in Commands, Begin(c)
      PROVE  prog' \in Progs /\ cmd' \in Commands \cup {"none"}
  BY <1>3, CommandTypes DEF Begin, FirmTypes, Progs, Threads
<1>4. prog' \in Progs /\ cmd' \in Commands \cup {"none"} /\ con' \in Commands \cup {"READS"}
  <2>1. CASE \E c \in Commands : typeLine(c)
    BY <1>3, <2>1 DEF typeLine, FirmTypes
  <2>2. CASE startNext
    BY <1>3, <2>2 DEF startNext, FirmTypes
  <2>3. CASE typeCtrlC
    BY <2>3 DEF typeCtrlC, FirmTypes, Progs, Threads
  <2>4. CASE typeCtrlS \/ typeCtrlQ
    BY <2>4 DEF typeCtrlS, typeCtrlQ, FirmTypes
  <2>5. QED
    BY <2>1, <2>2, <2>3, <2>4 DEF Operator
<1>5. susp' \in BOOLEAN
  <2>1. susp' = susp \/ susp' = FALSE \/ susp' = TRUE
    BY DEF startNext, Operator, typeLine, typeCtrlC, typeCtrlS, typeCtrlQ
  <2>2. QED
    BY <2>1 DEF FirmTypes
<1>6. UNCHANGED <<stat, val, saved, running, dispatch, consPend, haltPend>>
  BY <1>1 DEF SameForCon, pendVars
<1>7. QED
  BY <1>2, <1>4, <1>5, <1>6, Zenon DEF FirmTypes

\* and the KS10 keep them.
LEMMA CpuTypes ==
    ASSUME FirmTypes, FpgaTypes, Cpu
    PROVE  FirmTypes' /\ FpgaTypes'
<1>1. UNCHANGED <<firmVars, regVars>>
  BY DEF Cpu, cpuInstr, cpuXct, cpuHalted, cpuSetHalt, cpuUnhalt, SetHalt
<1>2. consPend' \in BOOLEAN /\ haltPend' \in BOOLEAN
  <2>1. consPend' = consPend \/ consPend' = TRUE
    BY DEF Cpu, cpuInstr, cpuXct, cpuHalted, cpuSetHalt, cpuUnhalt, SetHalt, pendVars
  <2>2. haltPend' = haltPend \/ haltPend' = TRUE
    BY DEF Cpu, cpuInstr, cpuXct, cpuHalted, cpuSetHalt, cpuUnhalt, SetHalt, pendVars
  <2>3. QED
    BY <2>1, <2>2 DEF FirmTypes
<1>3. FirmTypes'
  BY <1>1, <1>2, Zenon DEF FirmTypes, firmVars
<1>4. flags' \subseteq Flags
  BY DEF FpgaTypes, Cpu, cpuInstr, cpuXct, cpuHalted, cpuSetHalt, cpuUnhalt, SetHalt
<1>5. halt' \in BOOLEAN /\ intr' \in BOOLEAN
  <2>1. halt' = halt \/ halt' = TRUE \/ halt' = FALSE
    BY DEF Cpu, cpuInstr, cpuXct, cpuHalted, cpuSetHalt, cpuUnhalt, SetHalt
  <2>2. intr' = intr \/ intr' = FALSE
    BY DEF Cpu, cpuInstr, cpuXct, cpuHalted, cpuSetHalt, cpuUnhalt, SetHalt
  <2>3. QED
    BY <2>1, <2>2 DEF FpgaTypes
<1>6. /\ cpu' \in {"INSTR", "XCT", "HALTING", "H1", "HALTLP"}
      /\ t1' \in {"POWER", "HALTED", "CSL"}
  BY DEF FpgaTypes, Cpu, cpuInstr, cpuXct, cpuHalted, cpuSetHalt, cpuUnhalt, SetHalt, Nicond
<1>7. mem' \in [Words -> Values]
  BY DEF FpgaTypes, Cpu, cpuInstr, cpuXct, cpuHalted, cpuSetHalt, cpuUnhalt, SetHalt, Words, Values
<1>8. QED
  BY <1>1, <1>3, <1>4, <1>5, <1>6, <1>7 DEF FpgaTypes, regVars

\* The types hold in every state.
LEMMA TypeInvariant == Spec => []TypeInv
<1>1. Init => TypeInv
  <2>1. SUFFICES ASSUME Init PROVE TypeInv
    OBVIOUS
  <2>2. FirmTypes
    <3>1. prog \in Progs
      BY <2>1 DEF Init, Progs
    <3>2. QED
      BY <2>1, <3>1 DEF Init, FirmTypes, Values
  <2>3. mem \in [Words -> Values]
    BY <2>1 DEF Init, Words, Values
  <2>4. FpgaTypes
    BY <2>1, <2>3 DEF Init, FpgaTypes, Addrs, Words, Values
  <2>5. QED
    BY <2>2, <2>4 DEF TypeInv
<1>2. TypeInv /\ [Next]_vars => TypeInv'
  <2>1. SUFFICES ASSUME FirmTypes, FpgaTypes, [Next]_vars PROVE FirmTypes' /\ FpgaTypes'
    BY DEF TypeInv
  <2>2. CASE Firmware
    BY <2>1, <2>2, AccessTypes, HandlerStartTypes DEF Firmware
  <2>3. CASE startNext \/ Operator
    BY <2>1, <2>3, OperatorTypes
  <2>4. CASE Cpu
    BY <2>1, <2>4, CpuTypes
  <2>5. CASE UNCHANGED vars
    <3>1. FirmTypes'
      BY <2>1, <2>5, Zenon DEF FirmTypes, vars, firmVars, pendVars
    <3>2. FpgaTypes'
      BY <2>1, <2>5, Zenon DEF FpgaTypes, vars, regVars, cpuVars
    <3>3. QED
      BY <3>1, <3>2
  <2>6. QED
    BY <2>1, <2>2, <2>3, <2>4, <2>5 DEF Next
<1>3. QED
  BY <1>1, <1>2, PTL DEF Spec

-----------------------------------------------------------------------------
(* Where the handlers are.                                                 *)

\* What is left of the program p at its n-th access.
From(p, n) == SubSeq(p, n, Len(p))

LEMMA FromParts ==
    ASSUME NEW S, NEW p \in Seq(S)
    PROVE  /\ From(p, 1) = p /\ From(p, Len(p) + 1) = <<>>
           /\ \A n \in 1 .. Len(p) : /\ From(p, n) # <<>> /\ Head(From(p, n)) = p[n]
                                     /\ Tail(From(p, n)) = From(p, n + 1)
           /\ \A n \in 1 .. Len(p) + 1 : Len(From(p, n)) = Len(p) - n + 1
<1>1. From(p, 1) = p /\ From(p, Len(p) + 1) = <<>>
  BY SubSeqProperties, SeqEqual DEF From
<1>2. ASSUME NEW n \in 1 .. Len(p)
      PROVE  /\ From(p, n) # <<>> /\ Head(From(p, n)) = p[n]
             /\ Tail(From(p, n)) = From(p, n + 1)
  <2>1. /\ From(p, n) \in Seq(S) /\ Len(From(p, n)) = Len(p) - n + 1
        /\ \A i \in 1 .. Len(p) - n + 1 : From(p, n)[i] = p[n + i - 1]
    BY SubSeqProperties DEF From
  <2>2. /\ From(p, n + 1) \in Seq(S) /\ Len(From(p, n + 1)) = Len(p) - n
        /\ \A i \in 1 .. Len(p) - n : From(p, n + 1)[i] = p[n + i]
    BY SubSeqProperties DEF From
  <2>3. From(p, n) # <<>> /\ Head(From(p, n)) = p[n]
    BY <2>1
  <2>4. Tail(From(p, n)) = From(p, n + 1)
    <3>1. /\ Tail(From(p, n)) \in Seq(S) /\ Len(Tail(From(p, n))) = Len(p) - n
          /\ \A i \in 1 .. Len(p) - n : Tail(From(p, n))[i] = p[n + i]
      BY <2>1, <2>3, HeadTailProperties
    <3>2. \A i \in 1 .. Len(Tail(From(p, n))) : Tail(From(p, n))[i] = From(p, n + 1)[i]
      BY <2>2, <3>1
    <3>3. Len(Tail(From(p, n))) = Len(From(p, n + 1))
      BY <2>2, <3>1
    <3>4. QED
      BY <2>2, <3>1, <3>2, <3>3, SeqEqual
  <2>5. QED
    BY <2>3, <2>4
<1>3. ASSUME NEW n \in 1 .. Len(p) + 1
      PROVE  Len(From(p, n)) = Len(p) - n + 1
  BY SubSeqProperties DEF From
<1>4. QED
  BY <1>1, <1>2, <1>3

\* The accesses of the two handlers.
LEMMA GetCharAccesses ==
    /\ Len(GetChar) = 10
    /\ GetChar[1] = <<"addr", "CTYOUT", "rd">> /\ GetChar[6] = <<"addr", "CTYOUT", "wr">>
    /\ GetChar[2] = <<"rdstat">> /\ GetChar[8] = <<"rdstat">>
    /\ GetChar[3] = <<"wrstat", {"GO"}, {}>> /\ GetChar[9] = <<"wrstat", {"GO"}, {}>>
    /\ GetChar[4] = <<"rddata">> /\ GetChar[5] = <<"ifchar">>
    /\ GetChar[7] = <<"data", "none">> /\ GetChar[10] = <<"return">>
BY DEF GetChar, ReadMem, WriteMem, GoBit, Modify

LEMMA MemAccesses ==
    ASSUME NEW w, NEW v
    PROVE  /\ Len(ReadMem(w)) = 4 /\ ReadMem(w)[1] = <<"addr", w, "rd">>
           /\ ReadMem(w)[2] = <<"rdstat">> /\ ReadMem(w)[3] = <<"wrstat", {"GO"}, {}>>
           /\ ReadMem(w)[4] = <<"rddata">>
           /\ Len(WriteMem(w, v)) = 4 /\ WriteMem(w, v)[1] = <<"addr", w, "wr">>
           /\ WriteMem(w, v)[2] = <<"data", v>>
           /\ WriteMem(w, v)[3] = <<"rdstat">> /\ WriteMem(w, v)[4] = <<"wrstat", {"GO"}, {}>>
BY DEF ReadMem, WriteMem, GoBit, Modify

\* What stands where in a program that is joined from parts.
LEMMA Joined ==
    ASSUME NEW S, NEW a \in Seq(S), NEW b \in Seq(S), NEW p, p = a \o b
    PROVE  /\ p \in Seq(S) /\ Len(p) = Len(a) + Len(b)
           /\ \A i \in 1 .. Len(a) : p[i] = a[i]
           /\ \A i \in 1 .. Len(b) : p[Len(a) + i] = b[i]
<1>1. Len(a) \in Nat /\ Len(b) \in Nat
  BY LenProperties
<1>2. ASSUME NEW i \in 1 .. Len(a)
      PROVE  p[i] = a[i]
  BY <1>1, ConcatProperties
<1>3. ASSUME NEW i \in 1 .. Len(b)
      PROVE  p[Len(a) + i] = b[i]
  BY <1>1, ConcatProperties
<1>4. QED
  BY <1>2, <1>3, ConcatProperties

LEMMA Joined3 ==
    ASSUME NEW S, NEW a \in Seq(S), NEW b \in Seq(S), NEW c \in Seq(S),
           NEW p, p = a \o b \o c
    PROVE  /\ p \in Seq(S) /\ Len(p) = Len(a) + Len(b) + Len(c)
           /\ \A i \in 1 .. Len(a) : p[i] = a[i]
           /\ \A i \in 1 .. Len(b) : p[Len(a) + i] = b[i]
           /\ \A i \in 1 .. Len(c) : p[Len(a) + Len(b) + i] = c[i]
<1>1. Len(a) \in Nat /\ Len(b) \in Nat /\ Len(c) \in Nat
  BY LenProperties
<1>2. PICK q : q = a \o b
  OBVIOUS
<1>3. /\ q \in Seq(S) /\ Len(q) = Len(a) + Len(b)
      /\ \A i \in 1 .. Len(a) : q[i] = a[i]
      /\ \A i \in 1 .. Len(b) : q[Len(a) + i] = b[i]
  BY <1>2, Joined
<1>4. p = q \o c
  BY <1>2
<1>5. /\ p \in Seq(S) /\ Len(p) = Len(q) + Len(c)
      /\ \A i \in 1 .. Len(q) : p[i] = q[i]
      /\ \A i \in 1 .. Len(c) : p[Len(q) + i] = c[i]
  <2>1. q \in Seq(S)
    BY <1>3
  <2>2. QED
    BY <1>4, <2>1, Joined
<1>6. ASSUME NEW i \in 1 .. Len(a)
      PROVE  p[i] = a[i]
  BY <1>1, <1>3, <1>5
<1>7. ASSUME NEW i \in 1 .. Len(b)
      PROVE  p[Len(a) + i] = b[i]
  <2>1. Len(a) + i \in 1 .. Len(q)
    BY <1>1, <1>3
  <2>2. QED
    BY <1>3, <1>5, <2>1
<1>8. QED
  BY <1>1, <1>3, <1>5, <1>6, <1>7

LEMMA Joined5 ==
    ASSUME NEW S, NEW a \in Seq(S), NEW b \in Seq(S), NEW c \in Seq(S), NEW d \in Seq(S),
           NEW e \in Seq(S), NEW p, p = a \o b \o c \o d \o e
    PROVE  /\ p \in Seq(S) /\ Len(p) = Len(a) + Len(b) + Len(c) + Len(d) + Len(e)
           /\ \A i \in 1 .. Len(a) : p[i] = a[i]
           /\ \A i \in 1 .. Len(b) : p[Len(a) + i] = b[i]
           /\ \A i \in 1 .. Len(c) : p[Len(a) + Len(b) + i] = c[i]
           /\ \A i \in 1 .. Len(d) : p[Len(a) + Len(b) + Len(c) + i] = d[i]
           /\ \A i \in 1 .. Len(e) : p[Len(a) + Len(b) + Len(c) + Len(d) + i] = e[i]
<1>1. /\ Len(a) \in Nat /\ Len(b) \in Nat /\ Len(c) \in Nat /\ Len(d) \in Nat
      /\ Len(e) \in Nat
  BY LenProperties
<1>2. PICK q : q = a \o b \o c
  OBVIOUS
<1>3. /\ q \in Seq(S) /\ Len(q) = Len(a) + Len(b) + Len(c)
      /\ \A i \in 1 .. Len(a) : q[i] = a[i]
      /\ \A i \in 1 .. Len(b) : q[Len(a) + i] = b[i]
      /\ \A i \in 1 .. Len(c) : q[Len(a) + Len(b) + i] = c[i]
  BY <1>2, Joined3
<1>4. p = q \o d \o e
  BY <1>2
<1>5. /\ p \in Seq(S) /\ Len(p) = Len(q) + Len(d) + Len(e)
      /\ \A i \in 1 .. Len(q) : p[i] = q[i]
      /\ \A i \in 1 .. Len(d) : p[Len(q) + i] = d[i]
      /\ \A i \in 1 .. Len(e) : p[Len(q) + Len(d) + i] = e[i]
  <2>1. q \in Seq(S)
    BY <1>3
  <2>2. QED
    BY <1>4, <2>1, Joined3
<1>6. ASSUME NEW i \in 1 .. Len(a)
      PROVE  p[i] = a[i]
  BY <1>1, <1>3, <1>5
<1>7. ASSUME NEW i \in 1 .. Len(b)
      PROVE  p[Len(a) + i] = b[i]
  <2>1. Len(a) + i \in 1 .. Len(q)
    BY <1>1, <1>3
  <2>2. QED
    BY <1>3, <1>5, <2>1
<1>8. ASSUME NEW i \in 1 .. Len(c)
      PROVE  p[Len(a) + Len(b) + i] = c[i]
  <2>1. Len(a) + Len(b) + i \in 1 .. Len(q)
    BY <1>1, <1>3
  <2>2. QED
    BY <1>3, <1>5, <2>1
<1>9. QED
  BY <1>1, <1>3, <1>5, <1>6, <1>7, <1>8

DispatchOff == <<"dispatch", FALSE>>
DispatchOn  == <<"dispatch", TRUE>>

LEMMA InstructionAccesses ==
    ASSUME NEW e
    PROVE  e = ExecuteInstruction("RDHSB") =>
           /\ e \in Seq(Accs) /\ Len(e) = 6 /\ e[1] = DispatchOff /\ e[2] = <<"cir", "RDHSB">>
           /\ e[3] = <<"rdstat">> /\ e[4] = <<"wrstat", {"CONT", "EXEC"}, {}>>
           /\ e[5] = <<"poll">> /\ e[6] = DispatchOn
<1>0. SUFFICES ASSUME e = ExecuteInstruction("RDHSB")
      PROVE  /\ e \in Seq(Accs) /\ Len(e) = 6 /\ e[1] = DispatchOff /\ e[2] = <<"cir", "RDHSB">>
             /\ e[3] = <<"rdstat">> /\ e[4] = <<"wrstat", {"CONT", "EXEC"}, {}>>
             /\ e[5] = <<"poll">> /\ e[6] = DispatchOn
  BY Zenon
<1> DEFINE m == Execute("RDHSB", {"CONT", "EXEC"})
<1>1. e = <<DispatchOff>> \o m \o <<<<"poll">>>> \o <<DispatchOn>>
  BY <1>0, Zenon DEF ExecuteInstruction, UntilHalt, DispatchOff, DispatchOn
<1>2. <<"poll">> \in Accs /\ DispatchOff \in Accs /\ DispatchOn \in Accs
  <2>1. DispatchOff \in Accs /\ DispatchOn \in Accs
    BY SwitchTypes DEF DispatchOff, DispatchOn
  <2>2. QED
    BY <2>1 DEF Accs, Tests
<1>3. /\ Len(m) = 3 /\ m[1] = <<"cir", "RDHSB">> /\ m[2] = <<"rdstat">>
      /\ m[3] = <<"wrstat", {"CONT", "EXEC"}, {}>>
  BY DEF Execute, Modify
<1>4. m \in Seq(Accs)
  <2>1. Modify({"CONT", "EXEC"}, {}) \in Seq(Accs)
    BY ModifyType DEF StatusBits, Flags
  <2>2. <<"cir", "RDHSB">> \in Accs
    BY DEF Accs
  <2>3. QED
    BY <2>1, <2>2 DEF Execute
<1> HIDE DEF m
<1> DEFINE s1 == <<DispatchOff>>
           s2 == <<<<"poll">>>> \o <<DispatchOn>>
<1>5. /\ s1 \in Seq(Accs) /\ s2 \in Seq(Accs) /\ Len(s1) = 1 /\ Len(s2) = 2
      /\ s1[1] = DispatchOff /\ s2[1] = <<"poll">> /\ s2[2] = DispatchOn
  BY <1>2
<1>6. e = s1 \o m \o s2
  BY <1>1
<1> HIDE DEF s1, s2
<1>7. /\ e \in Seq(Accs) /\ Len(e) = 6
      /\ \A i \in 1 .. 1 : e[i] = s1[i]
      /\ \A i \in 1 .. 3 : e[1 + i] = m[i]
      /\ \A i \in 1 .. 2 : e[4 + i] = s2[i]
  <2>1. s1 \in Seq(Accs) /\ s2 \in Seq(Accs)
    BY <1>5
  <2>2. /\ e \in Seq(Accs) /\ Len(e) = Len(s1) + Len(m) + Len(s2)
        /\ \A i \in 1 .. Len(s1) : e[i] = s1[i]
        /\ \A i \in 1 .. Len(m) : e[Len(s1) + i] = m[i]
        /\ \A i \in 1 .. Len(s2) : e[Len(s1) + Len(m) + i] = s2[i]
    BY <1>4, <1>6, <2>1, Joined3
  <2>3. Len(s1) = 1 /\ Len(m) = 3 /\ Len(s2) = 2
    BY <1>3, <1>5
  <2>4. QED
    BY <2>2, <2>3
<1>8. QED
  BY <1>3, <1>5, <1>7

LEMMA ExecuteAccesses ==
    ASSUME NEW p
    PROVE  p = ExecuteAndGetData("RDHSB") =>
           /\ p \in Seq(Accs) /\ Len(p) = 19
           /\ p[1] = <<"addr", "TMP", "rd">> /\ p[2] = <<"rdstat">>
           /\ p[3] = <<"wrstat", {"GO"}, {}>> /\ p[4] = <<"rddata">> /\ p[5] = <<"save">>
           /\ p[6] = DispatchOff /\ p[7] = <<"cir", "RDHSB">> /\ p[8] = <<"rdstat">>
           /\ p[9] = <<"wrstat", {"CONT", "EXEC"}, {}>> /\ p[10] = <<"poll">>
           /\ p[11] = DispatchOn
           /\ p[12] = <<"addr", "TMP", "rd">> /\ p[13] = <<"rdstat">>
           /\ p[14] = <<"wrstat", {"GO"}, {}>> /\ p[15] = <<"rddata">>
           /\ p[16] = <<"addr", "TMP", "wr">> /\ p[17] = <<"data", "saved">>
           /\ p[18] = <<"rdstat">> /\ p[19] = <<"wrstat", {"GO"}, {}>>
<1>0. SUFFICES ASSUME p = ExecuteAndGetData("RDHSB")
      PROVE  /\ p \in Seq(Accs) /\ Len(p) = 19
             /\ p[1] = <<"addr", "TMP", "rd">> /\ p[2] = <<"rdstat">>
             /\ p[3] = <<"wrstat", {"GO"}, {}>> /\ p[4] = <<"rddata">> /\ p[5] = <<"save">>
             /\ p[6] = DispatchOff /\ p[7] = <<"cir", "RDHSB">> /\ p[8] = <<"rdstat">>
             /\ p[9] = <<"wrstat", {"CONT", "EXEC"}, {}>> /\ p[10] = <<"poll">>
             /\ p[11] = DispatchOn
             /\ p[12] = <<"addr", "TMP", "rd">> /\ p[13] = <<"rdstat">>
             /\ p[14] = <<"wrstat", {"GO"}, {}>> /\ p[15] = <<"rddata">>
             /\ p[16] = <<"addr", "TMP", "wr">> /\ p[17] = <<"data", "saved">>
             /\ p[18] = <<"rdstat">> /\ p[19] = <<"wrstat", {"GO"}, {}>>
  BY Zenon
<1> DEFINE r == ReadMem("TMP")
           x == <<<<"save">>>>
           e == ExecuteInstruction("RDHSB")
           w == WriteMem("TMP", "saved")
<1>1. "TMP" \in Words
  BY DEF Words
<1>2. r \in Seq(Accs) /\ w \in Seq(Accs) /\ e \in Seq(Accs)
  BY <1>1, MemTypes, InstructionAccesses DEF Written
<1>3. Len(r) = 4 /\ Len(w) = 4 /\ Len(e) = 6
  BY MemAccesses, InstructionAccesses
<1>4. x \in Seq(Accs) /\ Len(x) = 1 /\ x[1] = <<"save">>
  BY DEF Accs, Tests
<1>5. p = r \o x \o e \o r \o w
  BY <1>0 DEF ExecuteAndGetData
<1>6. /\ r[1] = <<"addr", "TMP", "rd">> /\ r[2] = <<"rdstat">>
      /\ r[3] = <<"wrstat", {"GO"}, {}>> /\ r[4] = <<"rddata">>
  BY MemAccesses
<1>7. /\ w[1] = <<"addr", "TMP", "wr">> /\ w[2] = <<"data", "saved">>
      /\ w[3] = <<"rdstat">> /\ w[4] = <<"wrstat", {"GO"}, {}>>
  BY MemAccesses
<1>8. /\ e[1] = DispatchOff /\ e[2] = <<"cir", "RDHSB">> /\ e[3] = <<"rdstat">>
      /\ e[4] = <<"wrstat", {"CONT", "EXEC"}, {}>> /\ e[5] = <<"poll">> /\ e[6] = DispatchOn
  BY InstructionAccesses
<1> HIDE DEF r, x, e, w
<1>9. /\ p \in Seq(Accs) /\ Len(p) = 19
      /\ \A i \in 1 .. 4 : p[i] = r[i]
      /\ \A i \in 1 .. 1 : p[4 + i] = x[i]
      /\ \A i \in 1 .. 6 : p[5 + i] = e[i]
      /\ \A i \in 1 .. 4 : p[11 + i] = r[i]
      /\ \A i \in 1 .. 4 : p[15 + i] = w[i]
  <2>1. x \in Seq(Accs) /\ r \in Seq(Accs) /\ w \in Seq(Accs) /\ e \in Seq(Accs)
    BY <1>2, <1>4
  <2>2. /\ p \in Seq(Accs) /\ Len(p) = Len(r) + Len(x) + Len(e) + Len(r) + Len(w)
        /\ \A i \in 1 .. Len(r) : p[i] = r[i]
        /\ \A i \in 1 .. Len(x) : p[Len(r) + i] = x[i]
        /\ \A i \in 1 .. Len(e) : p[Len(r) + Len(x) + i] = e[i]
        /\ \A i \in 1 .. Len(r) : p[Len(r) + Len(x) + Len(e) + i] = r[i]
        /\ \A i \in 1 .. Len(w) : p[Len(r) + Len(x) + Len(e) + Len(r) + i] = w[i]
    BY SMTT(30), <1>5, <2>1, Joined5
  <2>3. Len(r) = 4 /\ Len(x) = 1 /\ Len(e) = 6 /\ Len(w) = 4
    BY <1>3, <1>4
  <2>4. QED
    BY <2>2, <2>3
<1>10. /\ p[1] = r[1] /\ p[2] = r[2] /\ p[3] = r[3] /\ p[4] = r[4] /\ p[5] = x[1]
       /\ p[6] = e[1] /\ p[7] = e[2] /\ p[8] = e[3] /\ p[9] = e[4] /\ p[10] = e[5]
       /\ p[11] = e[6] /\ p[12] = r[1] /\ p[13] = r[2] /\ p[14] = r[3] /\ p[15] = r[4]
       /\ p[16] = w[1] /\ p[17] = w[2] /\ p[18] = w[3] /\ p[19] = w[4]
  BY <1>9
<1>11. QED
  BY <1>4, <1>6, <1>7, <1>8, <1>9, <1>10, Zenon

LEMMA HaltAccesses ==
    /\ HaltStatus \in Seq(Accs) /\ Len(HaltStatus) = 29
    /\ HaltStatus[1] = <<"addr", "HSW", "rd">> /\ HaltStatus[2] = <<"rdstat">>
    /\ HaltStatus[3] = <<"wrstat", {"GO"}, {}>> /\ HaltStatus[4] = <<"rddata">>
    /\ HaltStatus[5] = <<"ifhalt">>
    /\ \A i \in 1 .. 19 : HaltStatus[5 + i] = ExecuteAndGetData("RDHSB")[i]
    /\ HaltStatus[25] = <<"addr", "HSB", "rd">> /\ HaltStatus[26] = <<"rdstat">>
    /\ HaltStatus[27] = <<"wrstat", {"GO"}, {}>> /\ HaltStatus[28] = <<"rddata">>
    /\ HaltStatus[29] = <<"return">>
<1> DEFINE a == ReadMem("HSW")
           x == <<<<"ifhalt">>>>
           p == ExecuteAndGetData("RDHSB")
           b == ReadMem("HSB")
           y == <<<<"return">>>>
<1>1. "HSW" \in Words /\ "HSB" \in Words
  BY DEF Words
<1>2. a \in Seq(Accs) /\ b \in Seq(Accs) /\ p \in Seq(Accs)
  BY <1>1, MemTypes, ExecuteTypes
<1>3. Len(a) = 4 /\ Len(b) = 4 /\ Len(p) = 19
  BY MemAccesses, ExecuteAccesses
<1>4. /\ x \in Seq(Accs) /\ Len(x) = 1 /\ x[1] = <<"ifhalt">>
      /\ y \in Seq(Accs) /\ Len(y) = 1 /\ y[1] = <<"return">>
  BY DEF Accs, Tests
<1>5. HaltStatus = a \o x \o p \o b \o y
  BY DEF HaltStatus
<1>10. PICK h : h = HaltStatus
  OBVIOUS
<1>6. /\ a[1] = <<"addr", "HSW", "rd">> /\ a[2] = <<"rdstat">>
      /\ a[3] = <<"wrstat", {"GO"}, {}>> /\ a[4] = <<"rddata">>
      /\ b[1] = <<"addr", "HSB", "rd">> /\ b[2] = <<"rdstat">>
      /\ b[3] = <<"wrstat", {"GO"}, {}>> /\ b[4] = <<"rddata">>
  BY MemAccesses
<1> HIDE DEF a, x, p, b, y
<1>7. /\ h \in Seq(Accs) /\ Len(h) = 29
      /\ \A i \in 1 .. 4 : h[i] = a[i]
      /\ \A i \in 1 .. 1 : h[4 + i] = x[i]
      /\ \A i \in 1 .. 19 : h[5 + i] = p[i]
      /\ \A i \in 1 .. 4 : h[24 + i] = b[i]
      /\ \A i \in 1 .. 1 : h[28 + i] = y[i]
  <2>1. /\ a \in Seq(Accs) /\ x \in Seq(Accs) /\ p \in Seq(Accs) /\ b \in Seq(Accs)
        /\ y \in Seq(Accs)
    BY <1>2, <1>4
  <2>2. /\ h \in Seq(Accs) /\ Len(h) = Len(a) + Len(x) + Len(p) + Len(b) + Len(y)
        /\ \A i \in 1 .. Len(a) : h[i] = a[i]
        /\ \A i \in 1 .. Len(x) : h[Len(a) + i] = x[i]
        /\ \A i \in 1 .. Len(p) : h[Len(a) + Len(x) + i] = p[i]
        /\ \A i \in 1 .. Len(b) : h[Len(a) + Len(x) + Len(p) + i] = b[i]
        /\ \A i \in 1 .. Len(y) : h[Len(a) + Len(x) + Len(p) + Len(b) + i] = y[i]
    <3>1. PICK q : q = a \o x \o p
      OBVIOUS
    <3>2. /\ q \in Seq(Accs) /\ Len(q) = Len(a) + Len(x) + Len(p)
          /\ \A i \in 1 .. Len(a) : q[i] = a[i]
          /\ \A i \in 1 .. Len(x) : q[Len(a) + i] = x[i]
          /\ \A i \in 1 .. Len(p) : q[Len(a) + Len(x) + i] = p[i]
      BY <2>1, <3>1, Joined3
    <3>3. q \in Seq(Accs) /\ b \in Seq(Accs) /\ y \in Seq(Accs) /\ h = q \o b \o y
      BY <1>5, <1>10, <2>1, <3>1, <3>2
    <3>4. /\ h \in Seq(Accs) /\ Len(h) = Len(q) + Len(b) + Len(y)
          /\ \A i \in 1 .. Len(q) : h[i] = q[i]
          /\ \A i \in 1 .. Len(b) : h[Len(q) + i] = b[i]
          /\ \A i \in 1 .. Len(y) : h[Len(q) + Len(b) + i] = y[i]
      BY <3>3, Joined3
    <3>5. Len(a) = 4 /\ Len(x) = 1 /\ Len(p) = 19
      BY <1>3, <1>4
    <3>6. QED
      BY SMTT(30), <3>2, <3>4, <3>5
  <2>3. Len(a) = 4 /\ Len(x) = 1 /\ Len(p) = 19 /\ Len(b) = 4 /\ Len(y) = 1
    BY <1>3, <1>4
  <2>4. QED
    BY <2>2, <2>3
<1>8. /\ h[1] = a[1] /\ h[2] = a[2] /\ h[3] = a[3] /\ h[4] = a[4] /\ h[5] = x[1]
      /\ h[25] = b[1] /\ h[26] = b[2] /\ h[27] = b[3] /\ h[28] = b[4] /\ h[29] = y[1]
  BY <1>7
<1>9. QED
  BY <1>4, <1>6, <1>7, <1>8, <1>10, Zenon DEF p

\* The access that a thread makes is the one at the head of its program.
LEMMA ByName ==
    ASSUME NEW t, Access(t)
    PROVE  LET name == Head(prog[t])[1]
           IN  /\ prog[t] # <<>> /\ CanRun(t)
               /\ name = "addr" => accAddr(t)
               /\ name = "data" => accData(t)
               /\ name = "cir" => accCir(t)
               /\ name = "rdstat" => accRdStat(t)
               /\ name = "rddata" => accRdData(t)
               /\ name = "wrstat" => accWrStat(t)
               /\ name = "poll" => accPoll(t)
               /\ name = "ifhalt" => accIfHalt(t)
               /\ name = "ifchar" => accIfChar(t)
               /\ name = "ifnone" => accIfNone(t)
               /\ name = "report" => accReport(t)
               /\ name = "return" => accReturn(t)
               /\ name = "save" => accSave(t)
               /\ name = "dispatch" => accDispatch(t)
               /\ name = "running" => accRunning(t)
               /\ name = "output" => accOutput(t)
<1> DEFINE On(name) == prog[t] # <<>> /\ CanRun(t) /\ Head(prog[t])[1] = name
<1>1. /\ accAddr(t) => On("addr") 
      /\ accData(t) => On("data")
      /\ accCir(t) => On("cir")
      /\ accRdStat(t) => On("rdstat")
  BY DEF accAddr, accData, accCir, accRdStat, Doing
<1>2. /\ accRdData(t) => On("rddata")
      /\ accWrStat(t) => On("wrstat")
      /\ accPoll(t) => On("poll")
      /\ accIfHalt(t) => On("ifhalt")
  BY DEF accRdData, accWrStat, accPoll, accIfHalt, Test, Doing
<1>3. /\ accIfChar(t) => On("ifchar")
      /\ accIfNone(t) => On("ifnone")
      /\ accReport(t) => On("report")
      /\ accReturn(t) => On("return")
  BY DEF accIfChar, accIfNone, accReport, accReturn, Test, Doing
<1>4. /\ accSave(t) => On("save")
      /\ accDispatch(t) => On("dispatch")
      /\ accRunning(t) => On("running")
      /\ accOutput(t) => On("output")
  BY DEF accSave, accDispatch, accRunning, accOutput, Doing
<1> HIDE DEF On
<1>5. \E name : On(name)
  BY <1>1, <1>2, <1>3, <1>4 DEF Access
<1>6. QED
  BY <1>1, <1>2, <1>3, <1>4, <1>5 DEF Access, On

\* A thread changes what is its own.
LEMMA GoesFrame ==
    ASSUME FirmTypes, NEW t \in Threads, NEW p, Goes(t, p)
    PROVE  /\ prog'[t] = p /\ \A u \in Threads \ {t} : prog'[u] = prog[u]
           /\ UNCHANGED <<con, susp, consPend>>
           /\ t # "cmd" => cmd' = cmd
           /\ t # "halt" \/ p # <<>> => haltPend' = haltPend
<1>1. prog \in [Threads -> Seq(Accs)]
  BY DEF FirmTypes, Progs
<1>2. prog'[t] = p /\ \A u \in Threads \ {t} : prog'[u] = prog[u]
  BY <1>1 DEF Goes
<1>3. UNCHANGED <<con, susp, consPend>> /\ (t # "cmd" => cmd' = cmd)
  BY DEF Goes, consClear
<1>4. t # "halt" \/ p # <<>> => haltPend' = haltPend
  BY DEF Goes, haltClear
<1>5. QED
  BY <1>2, <1>3, <1>4

LEMMA AccessFrame ==
    ASSUME FirmTypes, NEW t \in Threads, Access(t)
    PROVE  /\ UNCHANGED <<con, susp, consPend, halt, cpu, t1>>
           /\ t # "cmd" => cmd' = cmd
           /\ t # "halt" \/ prog'[t] # <<>> => haltPend' = haltPend
           /\ \A u \in Threads \ {t} : /\ prog'[u] = prog[u] /\ stat'[u] = stat[u]
                                       /\ val'[u] = val[u] /\ saved'[u] = saved[u]
<1>1. PICK p : Goes(t, p)
  BY DEF Access, Advance, accAddr, accData, accCir, accRdStat, accRdData, accWrStat, accPoll,
         accIfHalt, accIfChar, Test, accIfNone, accReport, accReturn, accSave, accDispatch,
         accRunning, accOutput
<1>2. /\ UNCHANGED <<con, susp, consPend>> /\ (t # "cmd" => cmd' = cmd)
      /\ t # "halt" \/ prog'[t] # <<>> => haltPend' = haltPend
      /\ \A u \in Threads \ {t} : prog'[u] = prog[u]
  BY <1>1, GoesFrame
<1>3. UNCHANGED <<halt, cpu, t1>>
  BY DEF Access, accAddr, accData, accCir, accRdStat, accRdData, accWrStat, accPoll,
         accIfHalt, accIfChar, Test, accIfNone, accReport, accReturn, accSave, accDispatch,
         accRunning, accOutput, SameFpga, cpuVars
<1>4. ASSUME NEW u \in Threads \ {t}
      PROVE  stat'[u] = stat[u] /\ val'[u] = val[u] /\ saved'[u] = saved[u]
  <2>1. \/ UNCHANGED <<stat, val, saved>>
        \/ UNCHANGED <<val, saved>> /\ stat' = [stat EXCEPT ![t] = flags]
        \/ UNCHANGED <<stat, saved>> /\ val' = [val EXCEPT ![t] = regDATA]
        \/ UNCHANGED <<stat, val>> /\ saved' = [saved EXCEPT ![t] = val[t]]
    BY DEF Access, accAddr, accData, accCir, accRdStat, accRdData, accWrStat, accPoll,
           accIfHalt, accIfChar, Test, accIfNone, accReport, accReturn, accSave, accDispatch,
           accRunning, accOutput, SameLocals
  <2>2. QED
    BY <2>1 DEF FirmTypes
<1>5. QED
  BY <1>2, <1>3, <1>4

\* A bus cycle, started with GO.
BusGo == BusCycle(TRUE)

\* What the handler of the console interrupt does at its n-th access.
CharDoes(n) ==
    \/ /\ n = 1 /\ prog'["cons"] = From(GetChar, n + 1) /\ regADDR' = <<"CTYOUT", "rd">>
       /\ UNCHANGED <<regDATA, mem, val, flags>>
    \/ /\ n \in {2, 8} /\ prog'["cons"] = From(GetChar, n + 1)
       /\ UNCHANGED <<regADDR, regDATA, mem, val, flags>>
    \/ /\ n \in {3, 9} /\ prog'["cons"] = From(GetChar, n + 1) /\ BusGo
       /\ UNCHANGED <<regADDR, val>>
    \/ /\ n = 4 /\ prog'["cons"] = From(GetChar, n + 1) /\ val'["cons"] = regDATA
       /\ UNCHANGED <<regADDR, regDATA, mem, flags>>
    \/ /\ n = 5 /\ prog'["cons"] = IF val["cons"] = "char" THEN From(GetChar, n + 1) ELSE <<>>
       /\ UNCHANGED <<regADDR, regDATA, mem, val, flags>>
    \/ /\ n = 6 /\ prog'["cons"] = From(GetChar, n + 1) /\ regADDR' = <<"CTYOUT", "wr">>
       /\ UNCHANGED <<regDATA, mem, val, flags>>
    \/ /\ n = 7 /\ prog'["cons"] = From(GetChar, n + 1) /\ regDATA' = "none"
       /\ UNCHANGED <<regADDR, mem, val, flags>>
    \/ /\ n = 10 /\ prog'["cons"] = From(GetChar, n + 1)
       /\ UNCHANGED <<regADDR, regDATA, mem, val, flags>>

LEMMA CharStep ==
    ASSUME FirmTypes, FpgaTypes, NEW n \in 1 .. 10, prog["cons"] = From(GetChar, n),
           Access("cons")
    PROVE  CharDoes(n) /\ UNCHANGED <<regCIR, dispatch, intr>>
<1>1. GetChar \in Seq(Accs) /\ Len(GetChar) = 10
  BY HandlerTypes, GetCharAccesses
<1>2. Head(prog["cons"]) = GetChar[n] /\ Tail(prog["cons"]) = From(GetChar, n + 1)
  <2>1. GetChar \in Seq(Accs)
    BY <1>1
  <2>2. \A m \in 1 .. Len(GetChar) : /\ Head(From(GetChar, m)) = GetChar[m]
                                     /\ Tail(From(GetChar, m)) = From(GetChar, m + 1)
    BY <2>1, FromParts
  <2>3. QED
    BY <1>1, <2>2
<1>3. Advance("cons") => prog'["cons"] = From(GetChar, n + 1)
  BY <1>2, GoesFrame DEF Advance, Threads
<1>4. CASE n = 1
  <2>1. Head(prog["cons"]) = <<"addr", "CTYOUT", "rd">>
    BY <1>2, <1>4, GetCharAccesses
  <2>2. accAddr("cons")
    BY <2>1, ByName
  <2>3. /\ regADDR' = <<"CTYOUT", "rd">> /\ Advance("cons")
        /\ UNCHANGED <<regDATA, mem, val, flags, regCIR, dispatch, intr>>
    BY <2>1, <2>2 DEF accAddr, SameLocals, cpuVars, Arg
  <2>4. QED
    BY <1>3, <1>4, <2>3 DEF CharDoes
<1>5. CASE n \in {2, 8}
  <2>1. Head(prog["cons"]) = <<"rdstat">>
    BY <1>2, <1>5, GetCharAccesses
  <2>2. accRdStat("cons")
    BY <2>1, ByName
  <2>3. Advance("cons") /\ UNCHANGED <<regADDR, regDATA, mem, val, flags, regCIR, dispatch, intr>>
    BY <2>2 DEF accRdStat, SameFpga, cpuVars, regVars
  <2>4. QED
    BY <1>3, <1>5, <2>3 DEF CharDoes
<1>6. CASE n \in {3, 9}
  <2>1. Head(prog["cons"]) = <<"wrstat", {"GO"}, {}>>
    BY <1>2, <1>6, GetCharAccesses
  <2>2. accWrStat("cons")
    BY <2>1, ByName
  <2>3. Arg("cons", 1) = {"GO"}
    BY <2>1 DEF Arg
  <2>4. BusCycle("GO" \in Arg("cons", 1)) /\ intr' = (intr \/ "INTR" \in Arg("cons", 1))
    BY <2>2 DEF accWrStat
  <2>5. BusGo
    BY <2>3, <2>4 DEF BusCycle, BusGo
  <2>6. intr' = intr
    BY <2>3, <2>4 DEF FpgaTypes
  <2>7. Advance("cons") /\ UNCHANGED <<regADDR, val, regCIR, dispatch>>
    BY <2>2 DEF accWrStat, SameLocals
  <2>8. QED
    BY <1>3, <1>6, <2>5, <2>6, <2>7 DEF CharDoes
<1>7. CASE n = 4
  <2>1. Head(prog["cons"]) = <<"rddata">>
    BY <1>2, <1>7, GetCharAccesses
  <2>2. accRdData("cons")
    BY <2>1, ByName
  <2>3. Advance("cons") /\ UNCHANGED <<regADDR, regDATA, mem, flags, regCIR, dispatch, intr>>
    BY <2>2 DEF accRdData, SameFpga, cpuVars, regVars
  <2>4. val'["cons"] = regDATA
    BY <2>2 DEF accRdData, FirmTypes, Threads
  <2>5. QED
    BY <1>3, <1>7, <2>3, <2>4 DEF CharDoes
<1>8. CASE n = 5
  <2>1. Head(prog["cons"]) = <<"ifchar">>
    BY <1>2, <1>8, GetCharAccesses
  <2>2. accIfChar("cons")
    BY <2>1, ByName
  <2>3. prog'["cons"] = IF val["cons"] = "char" THEN From(GetChar, n + 1) ELSE <<>>
    BY <1>2, <2>2, GoesFrame DEF accIfChar, Test, Threads
  <2>4. UNCHANGED <<regADDR, regDATA, mem, val, flags, regCIR, dispatch, intr>>
    BY <2>2 DEF accIfChar, Test, SameLocals, SameFpga, cpuVars, regVars
  <2>5. QED
    BY <1>8, <2>3, <2>4 DEF CharDoes
<1>9. CASE n = 6
  <2>1. Head(prog["cons"]) = <<"addr", "CTYOUT", "wr">>
    BY <1>2, <1>9, GetCharAccesses
  <2>2. accAddr("cons")
    BY <2>1, ByName
  <2>3. /\ regADDR' = <<"CTYOUT", "wr">> /\ Advance("cons")
        /\ UNCHANGED <<regDATA, mem, val, flags, regCIR, dispatch, intr>>
    BY <2>1, <2>2 DEF accAddr, SameLocals, cpuVars, Arg
  <2>4. QED
    BY <1>3, <1>9, <2>3 DEF CharDoes
<1>10. CASE n = 7
  <2>1. Head(prog["cons"]) = <<"data", "none">>
    BY <1>2, <1>10, GetCharAccesses
  <2>2. accData("cons")
    BY <2>1, ByName
  <2>3. /\ regDATA' = "none" /\ Advance("cons")
        /\ UNCHANGED <<regADDR, mem, val, flags, regCIR, dispatch, intr>>
    BY <2>1, <2>2 DEF accData, SameLocals, cpuVars, Arg
  <2>4. QED
    BY <1>3, <1>10, <2>3 DEF CharDoes
<1>11. CASE n = 10
  <2>1. Head(prog["cons"]) = <<"return">>
    BY <1>2, <1>11, GetCharAccesses
  <2>2. accReturn("cons")
    BY <2>1, ByName
  <2>3. Advance("cons") /\ UNCHANGED <<regADDR, regDATA, mem, val, flags, regCIR, dispatch, intr>>
    BY <2>2 DEF accReturn, SameLocals, SameFpga, cpuVars, regVars
  <2>4. QED
    BY <1>3, <1>11, <2>3 DEF CharDoes
<1>12. n \in {1, 2, 3, 4, 5, 6, 7, 8, 9, 10}
  OBVIOUS
<1>13. QED
  BY <1>4, <1>5, <1>6, <1>7, <1>8, <1>9, <1>10, <1>11, <1>12

\* The register cycles of the handler of the halt interrupt, by their place in
\* HaltStatus, and the address that each of its places has.
AddrAt == {1, 6, 17, 21, 25}
StatAt == {2, 7, 13, 18, 23, 26}
GoAt   == {3, 8, 19, 24, 27}
DataAt == {4, 9, 20, 28}
HaltAddr(n) == IF n <= 6 THEN <<"HSW", "rd">>
               ELSE IF n <= 21 THEN <<"TMP", "rd">>
               ELSE IF n <= 25 THEN <<"TMP", "wr">>
               ELSE <<"HSB", "rd">>

LEMMA HaltProgram ==
    /\ HaltStatus[1] = <<"addr", "HSW", "rd">> /\ HaltStatus[6] = <<"addr", "TMP", "rd">>
    /\ HaltStatus[17] = <<"addr", "TMP", "rd">> /\ HaltStatus[21] = <<"addr", "TMP", "wr">>
    /\ HaltStatus[25] = <<"addr", "HSB", "rd">>
    /\ \A n \in StatAt : HaltStatus[n] = <<"rdstat">>
    /\ \A n \in GoAt : HaltStatus[n] = <<"wrstat", {"GO"}, {}>>
    /\ \A n \in DataAt : HaltStatus[n] = <<"rddata">>
    /\ HaltStatus[5] = <<"ifhalt">> /\ HaltStatus[10] = <<"save">>
    /\ HaltStatus[11] = DispatchOff /\ HaltStatus[12] = <<"cir", "RDHSB">>
    /\ HaltStatus[14] = <<"wrstat", {"CONT", "EXEC"}, {}>> /\ HaltStatus[15] = <<"poll">>
    /\ HaltStatus[16] = DispatchOn /\ HaltStatus[22] = <<"data", "saved">>
    /\ HaltStatus[29] = <<"return">>
<1>1. PICK p : p = ExecuteAndGetData("RDHSB")
  OBVIOUS
<1>2. \A i \in 1 .. 19 : HaltStatus[5 + i] = p[i]
  BY <1>1, HaltAccesses
<1>3. /\ HaltStatus[6] = p[1] /\ HaltStatus[7] = p[2] /\ HaltStatus[8] = p[3]
      /\ HaltStatus[9] = p[4] /\ HaltStatus[10] = p[5] /\ HaltStatus[11] = p[6]
      /\ HaltStatus[12] = p[7] /\ HaltStatus[13] = p[8] /\ HaltStatus[14] = p[9]
      /\ HaltStatus[15] = p[10] /\ HaltStatus[16] = p[11] /\ HaltStatus[17] = p[12]
      /\ HaltStatus[18] = p[13] /\ HaltStatus[19] = p[14] /\ HaltStatus[20] = p[15]
      /\ HaltStatus[21] = p[16] /\ HaltStatus[22] = p[17] /\ HaltStatus[23] = p[18]
      /\ HaltStatus[24] = p[19]
  BY <1>2
<1>4. /\ p[1] = <<"addr", "TMP", "rd">> /\ p[2] = <<"rdstat">>
      /\ p[3] = <<"wrstat", {"GO"}, {}>> /\ p[4] = <<"rddata">> /\ p[5] = <<"save">>
      /\ p[6] = DispatchOff /\ p[7] = <<"cir", "RDHSB">> /\ p[8] = <<"rdstat">>
      /\ p[9] = <<"wrstat", {"CONT", "EXEC"}, {}>> /\ p[10] = <<"poll">>
      /\ p[11] = DispatchOn
      /\ p[12] = <<"addr", "TMP", "rd">> /\ p[13] = <<"rdstat">>
      /\ p[14] = <<"wrstat", {"GO"}, {}>> /\ p[15] = <<"rddata">>
      /\ p[16] = <<"addr", "TMP", "wr">> /\ p[17] = <<"data", "saved">>
      /\ p[18] = <<"rdstat">> /\ p[19] = <<"wrstat", {"GO"}, {}>>
  BY <1>1, ExecuteAccesses
<1>5. /\ HaltStatus[1] = <<"addr", "HSW", "rd">> /\ HaltStatus[2] = <<"rdstat">>
      /\ HaltStatus[3] = <<"wrstat", {"GO"}, {}>> /\ HaltStatus[4] = <<"rddata">>
      /\ HaltStatus[5] = <<"ifhalt">>
      /\ HaltStatus[25] = <<"addr", "HSB", "rd">> /\ HaltStatus[26] = <<"rdstat">>
      /\ HaltStatus[27] = <<"wrstat", {"GO"}, {}>> /\ HaltStatus[28] = <<"rddata">>
      /\ HaltStatus[29] = <<"return">>
  BY HaltAccesses
<1>6. \A n \in StatAt : HaltStatus[n] = <<"rdstat">>
  BY <1>3, <1>4, <1>5, Zenon DEF StatAt
<1>7. \A n \in GoAt : HaltStatus[n] = <<"wrstat", {"GO"}, {}>>
  BY <1>3, <1>4, <1>5, Zenon DEF GoAt
<1>8. \A n \in DataAt : HaltStatus[n] = <<"rddata">>
  BY <1>3, <1>4, <1>5, Zenon DEF DataAt
<1>9. QED
  BY <1>3, <1>4, <1>5, <1>6, <1>7, <1>8, Zenon

LEMMA DispatchParts ==
    /\ DispatchOff[1] = "dispatch" /\ DispatchOff[2] = FALSE
    /\ DispatchOn[1] = "dispatch" /\ DispatchOn[2] = TRUE
BY DEF DispatchOff, DispatchOn

\* What a thread does at the n-th access of HaltStatus, and what it has left
\* when it goes on.
StatusDoes(t, n, next) ==
    \/ /\ n \in AddrAt /\ prog'[t] = next /\ regADDR' = HaltAddr(n + 1)
       /\ UNCHANGED <<regDATA, mem, stat, val, saved, flags, dispatch, regCIR>>
    \/ /\ n \in StatAt /\ prog'[t] = next /\ stat'[t] = flags
       /\ UNCHANGED <<regADDR, regDATA, mem, val, saved, flags, dispatch, regCIR>>
    \/ /\ n \in GoAt /\ prog'[t] = next /\ BusGo
       /\ flags' = stat[t]
       /\ UNCHANGED <<regADDR, stat, val, saved, dispatch, regCIR>>
    \/ /\ n \in DataAt /\ prog'[t] = next /\ val'[t] = regDATA
       /\ UNCHANGED <<regADDR, regDATA, mem, stat, saved, flags, dispatch, regCIR>>
    \/ /\ n = 5 /\ prog'[t] = IF halt THEN next ELSE <<>>
       /\ UNCHANGED <<regADDR, regDATA, mem, stat, val, saved, flags, dispatch, regCIR>>
    \/ /\ n = 10 /\ prog'[t] = next /\ saved'[t] = val[t]
       /\ UNCHANGED <<regADDR, regDATA, mem, stat, val, flags, dispatch, regCIR>>
    \/ /\ n \in {11, 16} /\ prog'[t] = next /\ (n = 11 => dispatch' = FALSE)
       /\ UNCHANGED <<regADDR, regDATA, mem, stat, val, saved, flags, regCIR>>
    \/ /\ n = 12 /\ prog'[t] = next /\ regCIR' = "RDHSB"
       /\ UNCHANGED <<regADDR, regDATA, mem, stat, val, saved, flags, dispatch>>
    \/ /\ n = 14 /\ prog'[t] = next
       /\ flags' = stat[t] \cup {"CONT", "EXEC"}
       /\ UNCHANGED <<regADDR, regDATA, mem, stat, val, saved, dispatch, regCIR>>
    \/ /\ n = 15 /\ prog'[t] = next /\ halt
       /\ UNCHANGED <<regADDR, regDATA, mem, stat, val, saved, flags, dispatch, regCIR>>
    \/ /\ n = 22 /\ prog'[t] = next /\ regDATA' = saved[t]
       /\ UNCHANGED <<regADDR, mem, stat, val, saved, flags, dispatch, regCIR>>
    \/ /\ n = 29 /\ prog'[t] = next
       /\ UNCHANGED <<regADDR, regDATA, mem, stat, val, saved, flags, dispatch, regCIR>>

\* The handler of the halt interrupt at its n-th access.
HaltDoes(n) == StatusDoes("halt", n, From(HaltStatus, n + 1))

LEMMA StatusStep ==
    ASSUME FirmTypes, FpgaTypes, NEW t \in Threads, NEW n \in 1 .. 29, NEW next,
           prog[t] # <<>>, Head(prog[t]) = HaltStatus[n], Tail(prog[t]) = next, Access(t)
    PROVE  StatusDoes(t, n, next) /\ intr' = intr
<1>2. Head(prog[t]) = HaltStatus[n] /\ Tail(prog[t]) = next
  OBVIOUS
<1>3. Advance(t) => prog'[t] = next
  BY <1>2, GoesFrame DEF Advance
<1>4. CASE n \in AddrAt
  <2>1. Head(prog[t]) = <<"addr", HaltAddr(n + 1)[1], HaltAddr(n + 1)[2]>>
    <3>1. HaltStatus[n] = <<"addr", HaltAddr(n + 1)[1], HaltAddr(n + 1)[2]>>
      <4>1. CASE n \in {1, 6}
        BY <4>1, HaltProgram DEF HaltAddr
      <4>2. CASE n \in {17, 21, 25}
        BY <4>2, HaltProgram DEF HaltAddr
      <4>3. QED
        BY <1>4, <4>1, <4>2 DEF AddrAt
    <3>2. QED
      BY <1>2, <3>1
  <2>2. accAddr(t)
    BY <2>1, ByName
  <2>3. regADDR' = <<HaltAddr(n + 1)[1], HaltAddr(n + 1)[2]>>
    BY <2>1, <2>2 DEF accAddr, Arg
  <2>4. regADDR' = HaltAddr(n + 1)
    BY <2>3 DEF HaltAddr
  <2>5. /\ Advance(t)
        /\ UNCHANGED <<regDATA, mem, stat, val, saved, flags, dispatch, regCIR, intr>>
    BY <2>2 DEF accAddr, SameLocals, cpuVars
  <2>6. QED
    BY <1>3, <1>4, <2>4, <2>5 DEF StatusDoes
<1>5. CASE n \in StatAt
  <2>1. Head(prog[t]) = <<"rdstat">>
    BY <1>2, <1>5, HaltProgram
  <2>2. accRdStat(t)
    BY <2>1, ByName
  <2>3. /\ Advance(t)
        /\ UNCHANGED <<regADDR, regDATA, mem, val, saved, flags, dispatch, regCIR, intr>>
    BY <2>2 DEF accRdStat, SameFpga, cpuVars, regVars
  <2>4. stat'[t] = flags
    BY <2>2 DEF accRdStat, FirmTypes
  <2>5. QED
    BY <1>3, <1>5, <2>3, <2>4 DEF StatusDoes
<1>6. CASE n \in GoAt
  <2>1. Head(prog[t]) = <<"wrstat", {"GO"}, {}>>
    BY <1>2, <1>6, HaltProgram
  <2>2. accWrStat(t)
    BY <2>1, ByName
  <2>3. Arg(t, 1) = {"GO"} /\ Arg(t, 2) = {}
    BY <2>1 DEF Arg
  <2>4. BusCycle("GO" \in Arg(t, 1)) /\ intr' = (intr \/ "INTR" \in Arg(t, 1))
    BY <2>2 DEF accWrStat
  <2>5. BusGo
    BY <2>3, <2>4 DEF BusCycle, BusGo
  <2>6. intr' = intr
    BY <2>3, <2>4 DEF FpgaTypes
  <2>7. flags' = stat[t]
    <3>1. flags' = ((stat[t] \cup {"GO"}) \ {}) \cap Flags
      BY <2>2, <2>3 DEF accWrStat
    <3>2. stat[t] \subseteq Flags
      BY DEF FirmTypes
    <3>3. QED
      BY <3>1, <3>2 DEF Flags
  <2>8. Advance(t) /\ UNCHANGED <<regADDR, stat, val, saved, dispatch, regCIR>>
    BY <2>2 DEF accWrStat, SameLocals
  <2>9. QED
    BY <1>3, <1>6, <2>5, <2>6, <2>7, <2>8 DEF StatusDoes
<1>7. CASE n \in DataAt
  <2>1. Head(prog[t]) = <<"rddata">>
    BY <1>2, <1>7, HaltProgram
  <2>2. accRdData(t)
    BY <2>1, ByName
  <2>3. /\ Advance(t)
        /\ UNCHANGED <<regADDR, regDATA, mem, stat, saved, flags, dispatch, regCIR, intr>>
    BY <2>2 DEF accRdData, SameFpga, cpuVars, regVars
  <2>4. val'[t] = regDATA
    BY <2>2 DEF accRdData, FirmTypes
  <2>5. QED
    BY <1>3, <1>7, <2>3, <2>4 DEF StatusDoes
<1>8. CASE n = 5
  <2>1. Head(prog[t]) = <<"ifhalt">>
    BY <1>2, <1>8, HaltProgram
  <2>2. accIfHalt(t)
    BY <2>1, ByName
  <2>3. prog'[t] = IF halt THEN next ELSE <<>>
    BY <1>2, <2>2, GoesFrame DEF accIfHalt, Test
  <2>4. UNCHANGED <<regADDR, regDATA, mem, stat, val, saved, flags, dispatch, regCIR, intr>>
    BY <2>2 DEF accIfHalt, Test, SameLocals, SameFpga, cpuVars, regVars
  <2>5. QED
    BY <1>8, <2>3, <2>4 DEF StatusDoes
<1>9. CASE n = 10
  <2>1. Head(prog[t]) = <<"save">>
    BY <1>2, <1>9, HaltProgram
  <2>2. accSave(t)
    BY <2>1, ByName
  <2>3. /\ Advance(t)
        /\ UNCHANGED <<regADDR, regDATA, mem, stat, val, flags, dispatch, regCIR, intr>>
    BY <2>2 DEF accSave, SameFpga, cpuVars, regVars
  <2>4. saved'[t] = val[t]
    BY <2>2 DEF accSave, FirmTypes
  <2>5. QED
    BY <1>3, <1>9, <2>3, <2>4 DEF StatusDoes
<1>10. CASE n \in {11, 16}
  <2>1. Head(prog[t])[1] = "dispatch"
    <3>1. CASE n = 11
      BY <1>2, <3>1, HaltProgram, DispatchParts
    <3>2. CASE n = 16
      BY <1>2, <3>2, HaltProgram, DispatchParts
    <3>3. QED
      BY <1>10, <3>1, <3>2
  <2>2. accDispatch(t)
    BY <2>1, ByName
  <2>3. /\ Advance(t)
        /\ UNCHANGED <<regADDR, regDATA, mem, stat, val, saved, flags, regCIR, intr>>
    BY <2>2 DEF accDispatch, SameFpga, cpuVars, regVars
  <2>4. n = 11 => dispatch' = FALSE
    <3>1. n = 11 => Head(prog[t]) = DispatchOff
      BY <1>2, HaltProgram
    <3>2. QED
      BY <2>2, <3>1, DispatchParts DEF accDispatch, Arg
  <2>5. QED
    BY <1>3, <1>10, <2>3, <2>4 DEF StatusDoes
<1>11. CASE n = 12
  <2>1. Head(prog[t]) = <<"cir", "RDHSB">>
    BY <1>2, <1>11, HaltProgram
  <2>2. accCir(t)
    BY <2>1, ByName
  <2>3. /\ Advance(t) /\ regCIR' = "RDHSB"
        /\ UNCHANGED <<regADDR, regDATA, mem, stat, val, saved, flags, dispatch, intr>>
    BY <2>1, <2>2 DEF accCir, SameLocals, cpuVars, Arg
  <2>4. QED
    BY <1>3, <1>11, <2>3 DEF StatusDoes
<1>12. CASE n = 14
  <2>1. Head(prog[t]) = <<"wrstat", {"CONT", "EXEC"}, {}>>
    BY <1>2, <1>12, HaltProgram
  <2>2. accWrStat(t)
    BY <2>1, ByName
  <2>3. Arg(t, 1) = {"CONT", "EXEC"} /\ Arg(t, 2) = {}
    BY <2>1 DEF Arg
  <2>4. BusCycle("GO" \in Arg(t, 1)) /\ intr' = (intr \/ "INTR" \in Arg(t, 1))
    BY <2>2 DEF accWrStat
  <2>5. UNCHANGED <<regDATA, mem>>
    BY <2>3, <2>4 DEF BusCycle, BusGo
  <2>6. intr' = intr
    BY <2>3, <2>4 DEF FpgaTypes
  <2>7. flags' = stat[t] \cup {"CONT", "EXEC"}
    <3>1. flags' = ((stat[t] \cup {"CONT", "EXEC"}) \ {}) \cap Flags
      BY <2>2, <2>3 DEF accWrStat
    <3>2. stat[t] \subseteq Flags
      BY DEF FirmTypes
    <3>3. QED
      BY <3>1, <3>2 DEF Flags
  <2>8. Advance(t) /\ UNCHANGED <<regADDR, stat, val, saved, dispatch, regCIR>>
    BY <2>2 DEF accWrStat, SameLocals
  <2>9. QED
    BY <1>3, <1>12, <2>5, <2>6, <2>7, <2>8 DEF StatusDoes
<1>13. CASE n = 15
  <2>1. Head(prog[t]) = <<"poll">>
    BY <1>2, <1>13, HaltProgram
  <2>2. accPoll(t)
    BY <2>1, ByName
  <2>3. /\ Advance(t) /\ halt
        /\ UNCHANGED <<regADDR, regDATA, mem, stat, val, saved, flags, dispatch, regCIR, intr>>
    BY <2>2 DEF accPoll, SameLocals, SameFpga, cpuVars, regVars
  <2>4. QED
    BY <1>3, <1>13, <2>3 DEF StatusDoes
<1>14. CASE n = 22
  <2>1. Head(prog[t]) = <<"data", "saved">>
    BY <1>2, <1>14, HaltProgram
  <2>2. accData(t)
    BY <2>1, ByName
  <2>3. /\ Advance(t) /\ regDATA' = saved[t]
        /\ UNCHANGED <<regADDR, mem, stat, val, saved, flags, dispatch, regCIR, intr>>
    BY <2>1, <2>2 DEF accData, SameLocals, cpuVars, Arg
  <2>4. QED
    BY <1>3, <1>14, <2>3 DEF StatusDoes
<1>15. CASE n = 29
  <2>1. Head(prog[t]) = <<"return">>
    BY <1>2, <1>15, HaltProgram
  <2>2. accReturn(t)
    BY <2>1, ByName
  <2>3. /\ Advance(t)
        /\ UNCHANGED <<regADDR, regDATA, mem, stat, val, saved, flags, dispatch, regCIR, intr>>
    BY <2>2 DEF accReturn, SameLocals, SameFpga, cpuVars, regVars
  <2>4. QED
    BY <1>3, <1>15, <2>3 DEF StatusDoes
<1>16. n \in AddrAt \cup StatAt \cup GoAt \cup DataAt \cup {5, 10, 11, 12, 14, 15, 16, 22, 29}
  BY DEF AddrAt, StatAt, GoAt, DataAt
<1>17. QED
  BY <1>4, <1>5, <1>6, <1>7, <1>8, <1>9, <1>10, <1>11, <1>12, <1>13, <1>14, <1>15, <1>16

LEMMA HaltStep ==
    ASSUME FirmTypes, FpgaTypes, NEW n \in 1 .. 29, prog["halt"] = From(HaltStatus, n),
           Access("halt")
    PROVE  HaltDoes(n) /\ intr' = intr
<1>1. HaltStatus \in Seq(Accs) /\ Len(HaltStatus) = 29
  BY HaltAccesses
<1>2. /\ prog["halt"] # <<>> /\ Head(prog["halt"]) = HaltStatus[n]
      /\ Tail(prog["halt"]) = From(HaltStatus, n + 1)
  <2>1. HaltStatus \in Seq(Accs)
    BY <1>1
  <2>2. \A m \in 1 .. Len(HaltStatus) : /\ From(HaltStatus, m) # <<>>
                                        /\ Head(From(HaltStatus, m)) = HaltStatus[m]
                                        /\ Tail(From(HaltStatus, m)) = From(HaltStatus, m + 1)
    BY <2>1, FromParts
  <2>3. QED
    BY <1>1, <2>2
<1>3. QED
  BY <1>2, StatusStep DEF HaltDoes, Threads

\* The same, by what is written.
LEMMA StatusEffects ==
    ASSUME NEW t, NEW n \in 1 .. 29, NEW next, StatusDoes(t, n, next)
    PROVE  /\ n \in AddrAt => regADDR' = HaltAddr(n + 1)
           /\ n \notin AddrAt => regADDR' = regADDR
           /\ n \in StatAt => stat'[t] = flags
           /\ n \notin StatAt => stat' = stat
           /\ n \in GoAt => BusGo /\ flags' = stat[t]
           /\ n \notin GoAt => mem' = mem
           /\ n = 14 => flags' = stat[t] \cup {"CONT", "EXEC"}
           /\ n \notin GoAt \cup {14} => flags' = flags
           /\ n = 22 => regDATA' = saved[t]
           /\ n \notin GoAt \cup {22} => regDATA' = regDATA
           /\ n \in DataAt => val'[t] = regDATA
           /\ n \notin DataAt => val' = val
           /\ n = 10 => saved'[t] = val[t]
           /\ n # 10 => saved' = saved
           /\ n = 15 => halt
           /\ n # 5 => prog'[t] = next
           /\ n = 5 => prog'[t] = IF halt THEN next ELSE <<>>
           /\ n = 11 => dispatch' = FALSE
           /\ n \notin {11, 16} => dispatch' = dispatch
<1> DEFINE Else == {5, 10, 11, 12, 14, 15, 16, 22, 29}
<1>1. CASE n \in AddrAt
  <2>1. n \notin StatAt \cup GoAt \cup DataAt \cup Else
    BY <1>1 DEF AddrAt, StatAt, GoAt, DataAt
  <2>2. QED
    BY <1>1, <2>1 DEF StatusDoes
<1>2. CASE n \in StatAt
  <2>1. n \notin AddrAt \cup GoAt \cup DataAt \cup Else
    BY <1>2 DEF AddrAt, StatAt, GoAt, DataAt
  <2>2. QED
    BY <1>2, <2>1 DEF StatusDoes
<1>3. CASE n \in GoAt
  <2>1. n \notin AddrAt \cup StatAt \cup DataAt \cup Else
    BY <1>3 DEF AddrAt, StatAt, GoAt, DataAt
  <2>2. QED
    BY <1>3, <2>1 DEF StatusDoes
<1>4. CASE n \in DataAt
  <2>1. n \notin AddrAt \cup StatAt \cup GoAt \cup Else
    BY <1>4 DEF AddrAt, StatAt, GoAt, DataAt
  <2>2. QED
    BY <1>4, <2>1 DEF StatusDoes
<1>5. CASE n \notin AddrAt /\ n \notin StatAt /\ n \notin GoAt /\ n \notin DataAt
  <2>1. CASE n \in {5, 12, 15, 29}
    BY <1>5, <2>1 DEF StatusDoes
  <2>2. CASE n = 10
    BY <1>5, <2>2 DEF StatusDoes
  <2>3. CASE n = 14
    BY <1>5, <2>3 DEF StatusDoes
  <2>4. CASE n = 22
    BY <1>5, <2>4 DEF StatusDoes
  <2>5. CASE n \in {11, 16}
    BY <1>5, <2>5 DEF StatusDoes
  <2>6. QED
    BY <1>5, <2>1, <2>2, <2>3, <2>4, <2>5 DEF StatusDoes
<1>6. QED
  BY <1>1, <1>2, <1>3, <1>4, <1>5

-----------------------------------------------------------------------------
(* The handlers and the console registers.  Only one handler runs, nothing *)
(* else runs meanwhile, and so the registers hold what it wrote last.      *)

GetPc  == 11 - Len(prog["cons"])
HaltPc == 30 - Len(prog["halt"])
InStatus == prog["halt"] # HaltReport

OneHandler == prog["cons"] = <<>> \/ prog["halt"] = <<>>
InChar == GetPc \in 1 .. 11 /\ prog["cons"] = From(GetChar, GetPc)
InHalt == InStatus => HaltPc \in 1 .. 30 /\ prog["halt"] = From(HaltStatus, HaltPc)
CharRegs == /\ GetPc \in 2 .. 6 => regADDR = <<"CTYOUT", "rd">>
            /\ GetPc \in 7 .. 10 => regADDR = <<"CTYOUT", "wr">>
            /\ GetPc \in 8 .. 10 => regDATA = "none"
HaltRegs == InStatus /\ HaltPc \in 2 .. 28 => regADDR = HaltAddr(HaltPc)

HandlerInv == OneHandler /\ InChar /\ InHalt /\ CharRegs /\ HaltRegs

LEMMA FromPlaces ==
    ASSUME NEW S, NEW p \in Seq(S), NEW k \in Nat, Len(p) = k
    PROVE  /\ \A n \in 1 .. k + 1 : Len(From(p, n)) = k + 1 - n
           /\ \A n \in 1 .. k : Head(From(p, n)) = p[n]
           /\ From(p, 1) = p /\ From(p, k + 1) = <<>>
           /\ k > 0 => From(p, k) = <<p[k]>>
<1>1. \A n \in 1 .. k + 1 : Len(From(p, n)) = k + 1 - n
  BY FromParts
<1>2. \A n \in 1 .. k : Head(From(p, n)) = p[n]
  BY FromParts
<1>3. From(p, 1) = p /\ From(p, k + 1) = <<>>
  BY FromParts
<1>4. ASSUME k > 0
      PROVE  From(p, k) = <<p[k]>>
  <2>1. k \in 1 .. Len(p) /\ p[k] \in S
    BY <1>4
  <2>2. From(p, k) = SubSeq(p, k, k)
    BY DEF From
  <2>3. SubSeq(p, k, k) = <<p[k]>>
    <3>1. SubSeq(p, k, k) \in Seq(S) /\ Len(SubSeq(p, k, k)) = 1
      BY <2>1, SubSeqProperties
    <3>2. SubSeq(p, k, k)[1] = p[k + 1 - 1]
      BY <2>1, SubSeqProperties
    <3>3. SubSeq(p, k, k)[1] = p[k]
      BY <3>2
    <3>4. <<p[k]>> \in Seq(S) /\ Len(<<p[k]>>) = 1 /\ <<p[k]>>[1] = p[k]
      BY <2>1
    <3>5. \A i \in 1 .. Len(SubSeq(p, k, k)) : SubSeq(p, k, k)[i] = <<p[k]>>[i]
      BY <3>1, <3>3, <3>4
    <3>6. Len(SubSeq(p, k, k)) = Len(<<p[k]>>)
      BY <3>1, <3>4
    <3>7. SubSeq(p, k, k) \in Seq(S) /\ <<p[k]>> \in Seq(S)
      BY <3>1, <3>4
    <3>8. QED
      BY <3>5, <3>6, <3>7, SeqEqual, Zenon
  <2>4. QED
    BY <2>2, <2>3
<1>5. QED
  BY <1>1, <1>2, <1>3, <1>4

\* The places of the two programs.
LEMMA Places ==
    /\ \A n \in 1 .. 11 : Len(From(GetChar, n)) = 11 - n
    /\ \A n \in 1 .. 30 : Len(From(HaltStatus, n)) = 30 - n /\ From(HaltStatus, n) # HaltReport
    /\ \A n \in 1 .. 29 : Head(From(HaltStatus, n)) = HaltStatus[n]
    /\ From(GetChar, 1) = GetChar /\ From(GetChar, 11) = <<>>
    /\ From(HaltStatus, 1) = HaltStatus /\ From(HaltStatus, 30) = <<>>
    /\ From(HaltStatus, 29) = Tail(HaltReport)
<1>1. GetChar \in Seq(Accs) /\ HaltStatus \in Seq(Accs)
  BY HandlerTypes, HaltAccesses
<1>2. Len(GetChar) = 10 /\ Len(HaltStatus) = 29
  BY GetCharAccesses, HaltAccesses
<1>3. /\ \A n \in 1 .. 10 + 1 : Len(From(GetChar, n)) = 10 + 1 - n
      /\ From(GetChar, 1) = GetChar /\ From(GetChar, 10 + 1) = <<>>
  <2>1. GetChar \in Seq(Accs) /\ Len(GetChar) = 10 /\ 10 \in Nat
    BY <1>1, <1>2
  <2>2. QED
    BY <2>1, FromPlaces
<1>4. /\ \A n \in 1 .. 29 + 1 : Len(From(HaltStatus, n)) = 29 + 1 - n
      /\ \A n \in 1 .. 29 : Head(From(HaltStatus, n)) = HaltStatus[n]
      /\ From(HaltStatus, 1) = HaltStatus /\ From(HaltStatus, 29 + 1) = <<>>
      /\ From(HaltStatus, 29) = <<HaltStatus[29]>>
  <2>1. PICK k : k = 29
    OBVIOUS
  <2>2. HaltStatus \in Seq(Accs) /\ Len(HaltStatus) = k /\ k \in Nat /\ k > 0
    BY <1>1, <1>2, <2>1
  <2>3. /\ \A n \in 1 .. k + 1 : Len(From(HaltStatus, n)) = k + 1 - n
        /\ \A n \in 1 .. k : Head(From(HaltStatus, n)) = HaltStatus[n]
        /\ From(HaltStatus, 1) = HaltStatus /\ From(HaltStatus, k + 1) = <<>>
        /\ From(HaltStatus, k) = <<HaltStatus[k]>>
    BY <2>2, FromPlaces, Zenon
  <2>4. QED
    BY <2>1, <2>3
<1>5. ASSUME NEW n \in 1 .. 11
      PROVE  Len(From(GetChar, n)) = 11 - n
  <2>1. n \in 1 .. 10 + 1
    OBVIOUS
  <2>2. \A m \in 1 .. 10 + 1 : Len(From(GetChar, m)) = 10 + 1 - m
    BY <1>3
  <2>3. Len(From(GetChar, n)) = 10 + 1 - n
    BY <2>1, <2>2, Zenon
  <2>4. QED
    BY <2>3
<1>6. ASSUME NEW n \in 1 .. 30
      PROVE  Len(From(HaltStatus, n)) = 30 - n
  <2>1. n \in 1 .. 29 + 1
    OBVIOUS
  <2>2. \A m \in 1 .. 29 + 1 : Len(From(HaltStatus, m)) = 29 + 1 - m
    BY <1>4
  <2>3. Len(From(HaltStatus, n)) = 29 + 1 - n
    BY <2>1, <2>2, Zenon
  <2>4. QED
    BY <2>3
<1>7. From(GetChar, 11) = <<>> /\ From(HaltStatus, 30) = <<>>
  BY <1>3, <1>4
<1>8. Len(HaltReport) = 2 /\ HaltReport[1] = <<"report">> /\ HaltReport[2] = <<"return">>
  BY DEF HaltReport
<1>9. ASSUME NEW n \in 1 .. 30
      PROVE  From(HaltStatus, n) # HaltReport
  <2>1. CASE n = 28
    <3>1. Head(From(HaltStatus, 28)) = HaltStatus[28]
      BY <1>4
    <3>2. HaltStatus[28] = <<"rddata">>
      BY HaltProgram DEF DataAt
    <3>3. Head(HaltReport) = <<"report">>
      BY DEF HaltReport
    <3>4. <<"rddata">>[1] # <<"report">>[1]
      OBVIOUS
    <3>5. QED
      BY <2>1, <3>1, <3>2, <3>3, <3>4
  <2>2. CASE n # 28
    <3>1. Len(From(HaltStatus, n)) # 2
      <4>1. Len(From(HaltStatus, n)) = 30 - n
        BY <1>6
      <4>2. QED
        BY <2>2, <4>1
    <3>2. Len(HaltReport) = 2
      BY <1>8
    <3>3. QED
      BY <3>1, <3>2, Zenon
  <2>3. QED
    BY <2>1, <2>2
<1>10. From(HaltStatus, 29) = Tail(HaltReport)
  <2>1. Tail(HaltReport) = <<<<"return">>>>
    BY DEF HaltReport
  <2>2. HaltStatus[29] = <<"return">>
    BY HaltProgram
  <2>3. QED
    BY <1>4, <2>1, <2>2, Zenon
<1>11. QED
  BY <1>3, <1>4, <1>5, <1>6, <1>7, <1>9, <1>10, Zenon

\* The programs of the two handlers after a step.
LEMMA CharPlace ==
    ASSUME NEW n \in 1 .. 11, prog'["cons"] = From(GetChar, n)
    PROVE  GetPc' = n /\ InChar'
<1>1. GetPc' = n
  <2>1. Len(prog'["cons"]) = 11 - n
    BY Places, Zenon
  <2>2. QED
    BY <2>1 DEF GetPc
<1>2. QED
  BY <1>1 DEF InChar

LEMMA HaltPlace ==
    ASSUME NEW n \in 1 .. 30, prog'["halt"] = From(HaltStatus, n)
    PROVE  HaltPc' = n /\ InStatus' /\ InHalt'
<1>1. HaltPc' = n
  <2>1. Len(prog'["halt"]) = 30 - n
    BY Places, Zenon
  <2>2. QED
    BY <2>1 DEF HaltPc
<1>2. InStatus'
  BY Places, Zenon DEF InStatus
<1>3. QED
  BY <1>1, <1>2 DEF InHalt

\* No handler runs while another thread makes an access.
LEMMA Alone ==
    ASSUME FirmTypes, HandlerInv, NEW t \in Threads, Access(t)
    PROVE  /\ prog[t] # <<>> /\ ~Urgent
           /\ t # "cons" => prog["cons"] = <<>> /\ prog'["cons"] = <<>>
           /\ t # "halt" => prog["halt"] = <<>> /\ prog'["halt"] = <<>>
           /\ t = "cmd" => ~consPend /\ ~haltPend
<1>1. prog[t] # <<>> /\ CanRun(t)
  BY ByName
<1>2. ~Urgent /\ (t = "cmd" => ~InHandler /\ ~consPend /\ ~haltPend)
  BY <1>1 DEF CanRun
<1>3. /\ t # "cons" => prog["cons"] = <<>>
      /\ t # "halt" => prog["halt"] = <<>>
  BY <1>1, <1>2 DEF HandlerInv, OneHandler, InHandler, Threads
<1>4. \A u \in Threads \ {t} : prog'[u] = prog[u]
  BY AccessFrame
<1>5. QED
  BY <1>1, <1>2, <1>3, <1>4 DEF Threads

\* A handler that is not there.
LEMMA NoHandler ==
    /\ prog["cons"] = <<>> => GetPc = 11 /\ prog["cons"] = From(GetChar, 11)
    /\ prog["halt"] = <<>> => /\ HaltPc = 30 /\ InStatus
                              /\ prog["halt"] = From(HaltStatus, 30)
    /\ prog'["cons"] = <<>> => GetPc' = 11 /\ InChar'
    /\ prog'["halt"] = <<>> => HaltPc' = 30 /\ InStatus' /\ InHalt'
<1>1. Len(<<>>) = 0 /\ HaltReport # <<>>
  BY DEF HaltReport
<1>2. prog["cons"] = <<>> => GetPc = 11 /\ prog["cons"] = From(GetChar, 11)
  BY <1>1, Places DEF GetPc
<1>3. /\ prog["halt"] = <<>> => /\ HaltPc = 30 /\ InStatus
                                /\ prog["halt"] = From(HaltStatus, 30)
  <2>1. SUFFICES ASSUME prog["halt"] = <<>>
                 PROVE  HaltPc = 30 /\ InStatus /\ prog["halt"] = From(HaltStatus, 30)
    OBVIOUS
  <2>2. HaltPc = 30
    BY <1>1, <2>1 DEF HaltPc
  <2>3. InStatus
    BY <1>1, <2>1, Zenon DEF InStatus
  <2>4. prog["halt"] = From(HaltStatus, 30)
    BY <2>1, Places, Zenon
  <2>5. QED
    BY <2>2, <2>3, <2>4
<1>4. prog'["cons"] = <<>> => GetPc' = 11 /\ InChar'
  BY CharPlace, Places
<1>5. prog'["halt"] = <<>> => HaltPc' = 30 /\ InStatus' /\ InHalt'
  BY HaltPlace, Places
<1>6. QED
  BY <1>2, <1>3, <1>4, <1>5

LEMMA CharKeeps ==
    ASSUME FirmTypes, FpgaTypes, HandlerInv, Access("cons")
    PROVE  HandlerInv'
<1>1. /\ prog["cons"] # <<>> /\ prog["halt"] = <<>> /\ prog'["halt"] = <<>>
  BY Alone DEF Threads
<1>2. HaltPc' = 30 /\ InStatus' /\ InHalt'
  BY <1>1, NoHandler
<1>3. OneHandler' /\ HaltRegs'
  BY <1>1, <1>2 DEF OneHandler, HaltRegs
<1>4. PICK n \in 1 .. 10 : n = GetPc /\ prog["cons"] = From(GetChar, n)
  BY <1>1, Places DEF HandlerInv, InChar
<1>5. CharDoes(n)
  BY <1>4, CharStep
<1>6. CASE prog'["cons"] = <<>>
  <2>1. GetPc' = 11 /\ InChar'
    BY <1>6, NoHandler
  <2>2. CharRegs'
    BY <2>1 DEF CharRegs
  <2>3. QED
    BY <1>2, <1>3, <2>1, <2>2 DEF HandlerInv
<1>7. CASE prog'["cons"] = From(GetChar, n + 1)
  <2>1. GetPc' = n + 1 /\ InChar'
    <3>1. n + 1 \in 1 .. 11
      OBVIOUS
    <3>2. QED
      BY <1>7, <3>1, CharPlace
  <2>2. CharRegs
    BY DEF HandlerInv
  <2>3. /\ n \in 2 .. 6 => regADDR = <<"CTYOUT", "rd">>
        /\ n \in 7 .. 10 => regADDR = <<"CTYOUT", "wr">>
        /\ n \in 8 .. 10 => regDATA = "none"
    BY <1>4, <2>2 DEF CharRegs
  <2>4. /\ n + 1 \in 2 .. 6 => regADDR' = <<"CTYOUT", "rd">>
        /\ n + 1 \in 7 .. 10 => regADDR' = <<"CTYOUT", "wr">>
        /\ n + 1 \in 8 .. 10 => regDATA' = "none"
    BY <1>5, <2>3 DEF CharDoes, BusCycle, BusGo
  <2>5. CharRegs'
    BY <2>1, <2>4 DEF CharRegs
  <2>6. QED
    BY <1>2, <1>3, <2>1, <2>5 DEF HandlerInv
<1>8. QED
  BY <1>5, <1>6, <1>7 DEF CharDoes

LEMMA HaltKeeps ==
    ASSUME FirmTypes, FpgaTypes, HandlerInv, Access("halt")
    PROVE  HandlerInv'
<1>1. /\ prog["halt"] # <<>> /\ prog["cons"] = <<>> /\ prog'["cons"] = <<>>
  BY Alone DEF Threads
<1>2. GetPc' = 11 /\ InChar'
  BY <1>1, NoHandler
<1>3. OneHandler' /\ CharRegs'
  BY <1>1, <1>2 DEF OneHandler, CharRegs
<1>4. CASE InStatus
  <2>1. PICK n \in 1 .. 29 : n = HaltPc /\ prog["halt"] = From(HaltStatus, n)
    <3>1. HaltPc \in 1 .. 30 /\ prog["halt"] = From(HaltStatus, HaltPc)
      BY <1>4 DEF HandlerInv, InHalt
    <3>2. From(HaltStatus, 30) = <<>>
      BY Places
    <3>3. HaltPc # 30
      BY <1>1, <3>1, <3>2, Zenon
    <3>4. HaltPc \in 1 .. 29
      BY <3>1, <3>3
    <3>5. QED
      BY <3>1, <3>4
  <2>2. HaltDoes(n)
    BY <2>1, HaltStep
  <2>3. CASE prog'["halt"] = <<>>
    <3>1. HaltPc' = 30 /\ InStatus' /\ InHalt'
      BY <2>3, NoHandler
    <3>2. HaltRegs'
      BY <3>1 DEF HaltRegs
    <3>3. QED
      BY <1>2, <1>3, <3>1, <3>2 DEF HandlerInv
  <2>4. CASE prog'["halt"] = From(HaltStatus, n + 1)
    <3>1. HaltPc' = n + 1 /\ InStatus' /\ InHalt'
      <4>1. n + 1 \in 1 .. 30
        OBVIOUS
      <4>2. QED
        BY <2>4, <4>1, HaltPlace
    <3>2. n \in 2 .. 28 => regADDR = HaltAddr(n)
      BY <1>4, <2>1 DEF HandlerInv, HaltRegs
    <3>3. n \notin AddrAt => regADDR' = regADDR
      BY <2>2 DEF HaltDoes, StatusDoes, AddrAt
    <3>4. ASSUME n \in AddrAt
          PROVE  regADDR' = HaltAddr(n + 1)
      <4>1. n \notin StatAt \cup GoAt \cup DataAt \cup {5, 10, 11, 12, 14, 15, 16, 22, 29}
        BY <3>4 DEF AddrAt, StatAt, GoAt, DataAt
      <4>2. QED
        BY <2>2, <4>1 DEF HaltDoes, StatusDoes
    <3>5. n \notin AddrAt /\ n \in 2 .. 28 => HaltAddr(n) = HaltAddr(n + 1)
      BY DEF HaltAddr, AddrAt
    <3>6. 1 \in AddrAt
      BY DEF AddrAt
    <3>7. n + 1 \in 2 .. 28 => regADDR' = HaltAddr(n + 1)
      BY <3>2, <3>3, <3>4, <3>5, <3>6
    <3>8. HaltRegs'
      BY <3>1, <3>7 DEF HaltRegs
    <3>9. QED
      BY <1>2, <1>3, <3>1, <3>8 DEF HandlerInv
  <2>5. QED
    BY <2>2, <2>3, <2>4 DEF HaltDoes, StatusDoes
<1>5. CASE prog["halt"] = HaltReport
  <2>1. Head(prog["halt"])[1] = "report"
    BY <1>5 DEF HaltReport
  <2>2. accReport("halt")
    BY <2>1, ByName
  <2>3. prog'["halt"] = IF halt THEN HaltStatus ELSE Tail(HaltReport)
    BY <1>5, <2>2, GoesFrame DEF accReport, Threads
  <2>4. CASE halt
    <3>1. prog'["halt"] = From(HaltStatus, 1)
      BY <2>3, <2>4, Places
    <3>2. HaltPc' = 1 /\ InStatus' /\ InHalt'
      BY <3>1, HaltPlace
    <3>3. HaltRegs'
      BY <3>2 DEF HaltRegs
    <3>4. QED
      BY <1>2, <1>3, <3>2, <3>3 DEF HandlerInv
  <2>5. CASE ~halt
    <3>1. prog'["halt"] = From(HaltStatus, 29)
      BY <2>3, <2>5, Places
    <3>2. HaltPc' = 29 /\ InStatus' /\ InHalt'
      BY <3>1, HaltPlace
    <3>3. HaltRegs'
      BY <3>2 DEF HaltRegs
    <3>4. QED
      BY <1>2, <1>3, <3>2, <3>3 DEF HandlerInv
  <2>6. QED
    BY <2>4, <2>5
<1>6. QED
  BY <1>4, <1>5 DEF InStatus

\* The other steps: the command task and the operator while no handler runs,
\* the beginning of a handler, the KS10.
LEMMA OthersKeep ==
    ASSUME FirmTypes, FpgaTypes, HandlerInv,
           \/ Access("cmd") \/ consIntr \/ haltIntr \/ startNext \/ Operator \/ Cpu
           \/ UNCHANGED vars
    PROVE  HandlerInv'
<1>1. ASSUME prog'["cons"] = <<>>, prog'["halt"] = <<>>
      PROVE  HandlerInv'
  BY <1>1, NoHandler DEF HandlerInv, OneHandler, CharRegs, HaltRegs
<1>2. CASE Access("cmd")
  BY <1>1, <1>2, Alone DEF Threads
<1>3. CASE consIntr
  <2>1. prog'["cons"] = GetChar /\ prog'["halt"] = <<>>
    BY <1>3 DEF consIntr, InHandler, FirmTypes, Progs, Threads
  <2>2. GetPc' = 1 /\ InChar'
    BY <2>1, CharPlace, Places
  <2>3. HaltPc' = 30 /\ InStatus' /\ InHalt'
    BY <2>1, NoHandler
  <2>4. QED
    BY <2>1, <2>2, <2>3 DEF HandlerInv, OneHandler, CharRegs, HaltRegs
<1>4. CASE haltIntr
  <2>1. prog'["cons"] = <<>> /\ (prog'["halt"] = HaltReport \/ prog'["halt"] = <<>>)
    BY <1>4 DEF haltIntr, InHandler, FirmTypes, Progs, Threads
  <2>2. CASE prog'["halt"] = <<>>
    BY <1>1, <2>1, <2>2
  <2>3. CASE prog'["halt"] = HaltReport
    <3>1. ~InStatus'
      BY <2>3 DEF InStatus
    <3>2. GetPc' = 11 /\ InChar'
      BY <2>1, NoHandler
    <3>3. QED
      BY <2>1, <3>1, <3>2 DEF HandlerInv, OneHandler, CharRegs, HaltRegs, InHalt
  <2>4. QED
    BY <2>1, <2>2, <2>3
<1>5. CASE startNext \/ Operator
  <2>1. ~InHandler
    BY <1>5 DEF startNext, Operator, typeLine, typeCtrlC, typeCtrlS, typeCtrlQ, ConsoleRuns
  <2>2. prog'["cons"] = prog["cons"] /\ prog'["halt"] = prog["halt"]
    BY <1>5 DEF startNext, Operator, typeLine, typeCtrlC, typeCtrlS, typeCtrlQ, Begin,
                FirmTypes, Progs, Threads
  <2>3. QED
    BY <1>1, <2>1, <2>2 DEF InHandler
<1>6. CASE Cpu \/ UNCHANGED vars
  <2>1. prog' = prog /\ regADDR' = regADDR /\ regDATA' = regDATA
    BY <1>6 DEF Cpu, cpuInstr, cpuXct, cpuHalted, cpuSetHalt, cpuUnhalt, SetHalt, vars,
                firmVars, regVars
  <2>2. GetPc' = GetPc /\ HaltPc' = HaltPc /\ (InStatus' <=> InStatus)
    BY <2>1 DEF GetPc, HaltPc, InStatus
  <2>3. QED
    BY <2>1, <2>2 DEF HandlerInv, OneHandler, InChar, InHalt, CharRegs, HaltRegs
<1>7. QED
  BY <1>2, <1>3, <1>4, <1>5, <1>6

LEMMA HandlerInvariant == Spec => [](TypeInv /\ HandlerInv)
<1>1. Init => HandlerInv
  <2>1. SUFFICES ASSUME Init PROVE HandlerInv
    OBVIOUS
  <2>2. prog["cons"] = <<>> /\ prog["halt"] = <<>>
    BY <2>1 DEF Init, Threads
  <2>3. QED
    BY <2>2, NoHandler DEF HandlerInv, OneHandler, InChar, InHalt, CharRegs, HaltRegs
<1>2. TypeInv /\ HandlerInv /\ [Next]_vars => HandlerInv'
  <2>1. SUFFICES ASSUME FirmTypes, FpgaTypes, HandlerInv, [Next]_vars PROVE HandlerInv'
    BY DEF TypeInv
  <2>2. CASE \E t \in Threads : Access(t)
    BY <2>1, <2>2, CharKeeps, HaltKeeps, OthersKeep DEF Threads
  <2>3. QED
    BY <2>1, <2>2, OthersKeep DEF Next, Firmware
<1>3. QED
  BY <1>1, <1>2, TypeInvariant, PTL DEF Spec

-----------------------------------------------------------------------------
(* The cause of a halt.  The microcode alone writes the halt status word,  *)
(* before it tells the console, and does not leave the halt loop while the *)
(* handler reads the word: nothing sets CONT meanwhile.                    *)

HaltLoop    == (halt => cpu = "HALTLP") /\ (cpu = "HALTLP" => halt)
WordWritten == cpu \in {"H1", "HALTLP"} => mem["HSW"] = t1
Reading     == InStatus /\ HaltPc \in 1 .. 5 => cpu = "HALTLP" /\ "CONT" \notin flags
StatRead    == InStatus /\ HaltPc = 3 => "CONT" \notin stat["halt"]
WordRead    == /\ InStatus /\ HaltPc = 4 => regDATA = t1
               /\ InStatus /\ HaltPc = 5 => val["halt"] = t1

CauseInv == HaltLoop /\ WordWritten /\ Reading /\ StatRead /\ WordRead

\* No thread writes the halt status word.
LEMMA WordKept ==
    ASSUME FpgaTypes, NEW t, Access(t)
    PROVE  mem'["HSW"] = mem["HSW"]
<1>1. regADDR[2] # "rd" => regADDR[1] # "HSW"
  BY DEF FpgaTypes, Addrs, Written
<1>2. mem \in [Words -> Values]
  BY DEF FpgaTypes
<1>3. ASSUME NEW go \in BOOLEAN, BusCycle(go)
      PROVE  mem'["HSW"] = mem["HSW"]
  <2>1. CASE mem' = mem
    BY <2>1
  <2>2. CASE regADDR[2] # "rd" /\ mem' = [mem EXCEPT ![regADDR[1]] = regDATA]
    BY <1>1, <1>2, <2>2 DEF Words
  <2>3. QED
    BY <1>3, <2>1, <2>2, Zenon DEF BusCycle
<1>4. CASE accWrStat(t)
  <2>1. ("GO" \in Arg(t, 1)) \in BOOLEAN
    OBVIOUS
  <2>2. QED
    BY <1>3, <1>4, <2>1 DEF accWrStat
<1>5. CASE ~accWrStat(t)
  BY <1>5 DEF Access, accAddr, accData, accCir, accRdStat, accRdData, accPoll,
         accIfHalt, accIfChar, Test, accIfNone, accReport, accReturn, accSave, accDispatch,
         accRunning, accOutput, SameFpga
<1>6. QED
  BY <1>4, <1>5

\* A step of a thread that leaves the handler of the halt interrupt alone, or
\* ends it.
LEMMA CauseOutside ==
    ASSUME FirmTypes, FpgaTypes, CauseInv, NEW t \in Threads, Access(t),
           prog'["halt"] = <<>> \/ (InStatus' /\ HaltPc' \in 6 .. 30)
    PROVE  CauseInv'
<1>1. InStatus' /\ HaltPc' \in 6 .. 30
  BY NoHandler
<1>2. UNCHANGED <<halt, cpu, t1>> /\ mem'["HSW"] = mem["HSW"]
  BY AccessFrame, WordKept
<1>3. HaltLoop' /\ WordWritten'
  BY <1>2 DEF CauseInv, HaltLoop, WordWritten
<1>4. Reading' /\ StatRead' /\ WordRead'
  BY <1>1 DEF Reading, StatRead, WordRead
<1>5. QED
  BY <1>3, <1>4 DEF CauseInv

LEMMA CauseHalt ==
    ASSUME FirmTypes, FpgaTypes, HandlerInv, CauseInv, Access("halt")
    PROVE  CauseInv'
<1>1. prog["halt"] # <<>> /\ ~Urgent
  BY Alone DEF Threads
<1>2. UNCHANGED <<halt, cpu, t1>> /\ mem'["HSW"] = mem["HSW"]
  BY AccessFrame, WordKept DEF Threads
<1>3. HaltLoop' /\ WordWritten'
  BY <1>2 DEF CauseInv, HaltLoop, WordWritten
<1>4. CASE InStatus
  <2>1. PICK n \in 1 .. 29 : n = HaltPc /\ prog["halt"] = From(HaltStatus, n)
    <3>1. HaltPc \in 1 .. 30 /\ prog["halt"] = From(HaltStatus, HaltPc)
      BY <1>4 DEF HandlerInv, InHalt
    <3>2. From(HaltStatus, 30) = <<>>
      BY Places
    <3>3. HaltPc # 30
      BY <1>1, <3>1, <3>2, Zenon
    <3>4. HaltPc \in 1 .. 29
      BY <3>1, <3>3
    <3>5. QED
      BY <3>1, <3>4
  <2>2. HaltDoes(n)
    BY <2>1, HaltStep
  <2>3. CASE prog'["halt"] = <<>>
    BY <2>3, CauseOutside DEF Threads
  <2>4. CASE prog'["halt"] = From(HaltStatus, n + 1)
    <3>1. HaltPc' = n + 1 /\ InStatus'
      <4>1. n + 1 \in 1 .. 30
        OBVIOUS
      <4>2. QED
        BY <2>4, <4>1, HaltPlace
    <3>2. CASE n >= 5
      BY <3>1, <3>2, CauseOutside DEF Threads
    <3>3. CASE n \in 1 .. 4
      <4>1. cpu = "HALTLP" /\ "CONT" \notin flags /\ mem["HSW"] = t1
        BY <1>4, <2>1, <3>3 DEF CauseInv, Reading, WordWritten
      <4>0. /\ n \notin GoAt \cup {14} => flags' = flags
            /\ n \in StatAt => stat'["halt"] = flags
            /\ n \in GoAt => BusGo /\ flags' = stat["halt"]
            /\ n \in DataAt => val'["halt"] = regDATA
        BY <2>2, StatusEffects DEF HaltDoes
      <4>2. CASE n = 1
        <5>1. flags' = flags
          BY <4>0, <4>2 DEF GoAt
        <5>2. QED
          BY <1>2, <1>3, <3>1, <4>1, <4>2, <5>1 DEF CauseInv, Reading, StatRead, WordRead
      <4>3. CASE n = 2
        <5>1. flags' = flags /\ stat'["halt"] = flags
          BY <4>0, <4>3 DEF StatAt, GoAt
        <5>2. QED
          BY <1>2, <1>3, <3>1, <4>1, <4>3, <5>1 DEF CauseInv, Reading, StatRead, WordRead
      <4>4. CASE n = 3
        <5>1. flags' = stat["halt"] /\ BusGo
          BY <4>0, <4>4 DEF GoAt
        <5>2. regADDR = <<"HSW", "rd">>
          BY <1>4, <2>1, <4>4 DEF HandlerInv, HaltRegs, HaltAddr
        <5>3. regDATA' = t1
          BY <4>1, <5>1, <5>2 DEF BusCycle, BusGo
        <5>4. "CONT" \notin flags'
          BY <1>4, <2>1, <4>4, <5>1 DEF CauseInv, StatRead
        <5>5. QED
          BY <1>2, <1>3, <3>1, <4>1, <4>4, <5>3, <5>4 DEF CauseInv, Reading, StatRead, WordRead
      <4>5. CASE n = 4
        <5>1. flags' = flags /\ val'["halt"] = regDATA
          BY <4>0, <4>5 DEF GoAt, DataAt
        <5>2. regDATA = t1
          BY <1>4, <2>1, <4>5 DEF CauseInv, WordRead
        <5>3. QED
          BY <1>2, <1>3, <3>1, <4>1, <4>5, <5>1, <5>2 DEF CauseInv, Reading, StatRead, WordRead
      <4>6. QED
        BY <3>3, <4>2, <4>3, <4>4, <4>5
    <3>4. QED
      BY <3>2, <3>3
  <2>5. QED
    BY <2>2, <2>3, <2>4 DEF HaltDoes, StatusDoes
<1>5. CASE prog["halt"] = HaltReport
  <2>1. Head(prog["halt"])[1] = "report"
    BY <1>5 DEF HaltReport
  <2>2. accReport("halt")
    BY <2>1, ByName
  <2>3. prog'["halt"] = IF halt THEN HaltStatus ELSE Tail(HaltReport)
    BY <1>5, <2>2, GoesFrame DEF accReport, Threads
  <2>4. CASE halt
    <3>1. HaltPc' = 1 /\ InStatus'
      BY <2>3, <2>4, HaltPlace, Places
    <3>2. cpu = "HALTLP" /\ "CONT" \notin flags
      BY <1>1, <2>4 DEF CauseInv, HaltLoop, Urgent
    <3>3. flags' = flags
      BY <2>2 DEF accReport, SameFpga, cpuVars
    <3>4. QED
      BY <1>2, <1>3, <3>1, <3>2, <3>3 DEF CauseInv, Reading, StatRead, WordRead
  <2>5. CASE ~halt
    <3>1. prog'["halt"] = From(HaltStatus, 29)
      BY <2>3, <2>5, Places, Zenon
    <3>2. HaltPc' = 29 /\ InStatus'
      BY <3>1, HaltPlace
    <3>3. QED
      BY <3>2, CauseOutside DEF Threads
  <2>6. QED
    BY <2>4, <2>5
<1>6. QED
  BY <1>4, <1>5 DEF InStatus

LEMMA CauseOthers ==
    ASSUME FirmTypes, FpgaTypes, HandlerInv, CauseInv,
           consIntr \/ haltIntr \/ startNext \/ Operator \/ Cpu \/ UNCHANGED vars
    PROVE  CauseInv'
<1>1. CASE consIntr \/ haltIntr \/ startNext \/ Operator
  <2>1. prog'["halt"] = <<>> \/ ~InStatus'
    <3>1. CASE consIntr
      BY <3>1 DEF consIntr, InHandler, FirmTypes, Progs, Threads
    <3>2. CASE haltIntr
      BY <3>2 DEF haltIntr, InStatus, FirmTypes, Progs, Threads
    <3>3. CASE startNext \/ Operator
      <4>1. ~InHandler
        BY <3>3 DEF startNext, Operator, typeLine, typeCtrlC, typeCtrlS, typeCtrlQ, ConsoleRuns
      <4>2. prog'["halt"] = prog["halt"]
        BY <3>3 DEF startNext, Operator, typeLine, typeCtrlC, typeCtrlS, typeCtrlQ, Begin,
                    FirmTypes, Progs, Threads
      <4>3. QED
        BY <4>1, <4>2 DEF InHandler
    <3>4. QED
      BY <1>1, <3>1, <3>2, <3>3
  <2>2. UNCHANGED <<cpuVars, mem>>
    BY <1>1 DEF consIntr, haltIntr, startNext, Operator, typeLine, typeCtrlC, typeCtrlS,
                typeCtrlQ, SameForCon
  <2>3. HaltLoop' /\ WordWritten'
    BY <2>2 DEF CauseInv, HaltLoop, WordWritten, cpuVars
  <2>4. InStatus' => HaltPc' = 30
    BY <2>1, NoHandler
  <2>5. Reading' /\ StatRead' /\ WordRead'
    BY <2>4 DEF Reading, StatRead, WordRead
  <2>6. QED
    BY <2>3, <2>5 DEF CauseInv
<1>2. CASE Cpu
  <2>1. HaltLoop'
    BY <1>2 DEF CauseInv, HaltLoop, Cpu, cpuInstr, Nicond, cpuXct, cpuHalted, cpuSetHalt,
                cpuUnhalt, SetHalt, Urgent
  <2>2. WordWritten'
    BY <1>2 DEF CauseInv, WordWritten, Cpu, cpuInstr, Nicond, cpuXct, cpuHalted, cpuSetHalt,
                cpuUnhalt, SetHalt, Urgent, FpgaTypes, Words
  <2>3. ~(InStatus /\ HaltPc \in 1 .. 5)
    BY <1>2 DEF CauseInv, Reading, Cpu, cpuInstr, cpuXct, cpuHalted, cpuSetHalt, cpuUnhalt,
                SetHalt, Urgent
  <2>4. prog' = prog
    BY <1>2 DEF Cpu, cpuInstr, cpuXct, cpuHalted, cpuSetHalt, cpuUnhalt, SetHalt, firmVars
  <2>5. ~(InStatus' /\ HaltPc' \in 1 .. 5)
    BY <2>3, <2>4 DEF InStatus, HaltPc
  <2>6. Reading' /\ StatRead' /\ WordRead'
    BY <2>5 DEF Reading, StatRead, WordRead
  <2>7. QED
    BY <2>1, <2>2, <2>6 DEF CauseInv
<1>3. CASE UNCHANGED vars
  <2>1. UNCHANGED <<prog, stat, val, regDATA, flags, halt, cpu, t1, mem>>
    BY <1>3 DEF vars, firmVars, regVars, cpuVars
  <2>2. (InStatus' <=> InStatus) /\ HaltPc' = HaltPc
    BY <2>1 DEF InStatus, HaltPc
  <2>3. QED
    BY <2>1, <2>2 DEF CauseInv, HaltLoop, WordWritten, Reading, StatRead, WordRead
<1>4. QED
  BY <1>1, <1>2, <1>3

\* The one test of the handler.
LEMMA OnlyIfHalt ==
    ASSUME NEW n \in 1 .. 29, HaltStatus[n][1] = "ifhalt"
    PROVE  n = 5
<1>1. n \notin AddrAt
  BY HaltProgram DEF AddrAt
<1>2. n \notin StatAt \cup GoAt \cup DataAt
  BY HaltProgram
<1>3. n \notin {10, 12, 14, 15, 22, 29}
  BY HaltProgram
<1>4. n \notin {11, 16}
  BY HaltProgram, DispatchParts
<1>5. QED
  BY <1>1, <1>2, <1>3, <1>4 DEF AddrAt, StatAt, GoAt, DataAt

LEMMA CauseInvariant == Spec => [](TypeInv /\ HandlerInv /\ CauseInv)
<1>1. Init => CauseInv
  <2>1. SUFFICES ASSUME Init PROVE CauseInv
    OBVIOUS
  <2>2. prog["halt"] = <<>>
    BY <2>1 DEF Init, Threads
  <2>3. HaltPc = 30
    BY <2>2, NoHandler
  <2>4. HaltLoop /\ WordWritten
    BY <2>1 DEF Init, HaltLoop, WordWritten
  <2>5. QED
    BY <2>3, <2>4 DEF CauseInv, Reading, StatRead, WordRead
<1>2. TypeInv /\ HandlerInv /\ CauseInv /\ [Next]_vars => CauseInv'
  <2>1. SUFFICES ASSUME FirmTypes, FpgaTypes, HandlerInv, CauseInv, [Next]_vars
                 PROVE  CauseInv'
    BY DEF TypeInv
  <2>2. CASE \E t \in Threads : Access(t)
    <3>1. PICK t \in Threads : Access(t)
      BY <2>2
    <3>2. CASE t = "halt"
      BY <2>1, <3>1, <3>2, CauseHalt
    <3>3. CASE t # "halt"
      <4>1. prog'["halt"] = <<>>
        BY <2>1, <3>1, <3>3, Alone
      <4>2. QED
        BY <2>1, <3>1, <4>1, CauseOutside
    <3>4. QED
      BY <3>2, <3>3
  <2>3. QED
    BY <2>1, <2>2, CauseOthers DEF Next, Firmware
<1>3. QED
  BY <1>1, <1>2, HandlerInvariant, PTL DEF Spec

\* The cause that the halt interrupt prints is the cause of this halt, for all
\* commands, keys and programs: the word that the handler read is the one that
\* the microcode wrote, and the KS10 is still in the halt loop.
THEOREM CauseCorrect == Spec => HaltCause
<1>1. ASSUME TypeInv, HandlerInv, CauseInv, At("halt", "ifhalt")
      PROVE  val["halt"] = t1
  <2>1. prog["halt"] # <<>> /\ Head(prog["halt"])[1] = "ifhalt"
    BY <1>1 DEF At
  <2>2. InStatus
    <3>1. Head(HaltReport)[1] = "report"
      BY DEF HaltReport
    <3>2. QED
      BY <2>1, <3>1 DEF InStatus
  <2>3. PICK n \in 1 .. 29 : n = HaltPc /\ prog["halt"] = From(HaltStatus, n)
    <3>1. HaltPc \in 1 .. 30 /\ prog["halt"] = From(HaltStatus, HaltPc)
      BY <1>1, <2>2 DEF HandlerInv, InHalt
    <3>2. From(HaltStatus, 30) = <<>>
      BY Places
    <3>3. HaltPc # 30
      BY <2>1, <3>1, <3>2, Zenon
    <3>4. HaltPc \in 1 .. 29
      BY <3>1, <3>3
    <3>5. QED
      BY <3>1, <3>4
  <2>4. n = 5
    <3>1. HaltStatus[n][1] = "ifhalt"
      BY <2>1, <2>3, Places
    <3>2. QED
      BY <3>1, OnlyIfHalt
  <2>5. QED
    BY <1>1, <2>2, <2>3, <2>4 DEF CauseInv, WordRead
<1>2. TypeInv /\ HandlerInv /\ CauseInv /\ [Next]_vars
        => (At("halt", "ifhalt") /\ Steps("halt") => val["halt"] = t1)
  BY <1>1
<1>3. QED
  BY <1>2, CauseInvariant, PTL DEF Spec, HaltCause

-----------------------------------------------------------------------------
(* A halt that holds.  Every write of the status register follows the read *)
(* of it that it modifies; one that sets RUN sets CONT too; and one that   *)
(* clears RUN, or sets CONT alone, is followed by the wait for the halt.   *)

Starts(a) == a[1] = "wrstat" /\ "RUN" \in a[2]
Awaits(a) == a[1] = "wrstat" /\ "RUN" \notin a[2] /\ ("RUN" \in a[3] \/ "CONT" \in a[2])

\* The access b comes right after the access a.
Precedes(a, b) ==
    /\ b[1] = "wrstat" => a[1] \in {"rdstat", "wrstat"}
    /\ Starts(a) => /\ "CONT" \in a[2] /\ "CONT" \notin a[3] /\ "RUN" \notin a[3]
                    /\ b[1] # "wrstat"
    /\ Awaits(a) => b[1] = "poll"
Ordered(p) ==
    /\ \A i \in 1 .. Len(p) - 1 : Precedes(p[i], p[i + 1])
    /\ p # <<>> => ~Starts(p[Len(p)]) /\ ~Awaits(p[Len(p)])

\* A part of a program that can stand after any other.
Part(p, S) == p \in Seq(S) /\ p # <<>> /\ p[1][1] # "wrstat" /\ Ordered(p)

\* Which accesses the programs of a command consist of: CO and ST set RUN, HA
\* clears it, and all others write it back.
Neutral == {a \in Accs : a[1] = "wrstat" => "RUN" \notin a[2] /\ "RUN" \notin a[3]}
Of(c)   == {a \in Accs : /\ Starts(a) => c \in {"CO", "ST"}
                         /\ c \notin {"HA", "CO", "ST"} => a \in Neutral}

LEMMA PartsJoin ==
    ASSUME NEW S, NEW a, NEW b, Part(a, S), Part(b, S)
    PROVE  Part(a \o b, S)
<1>1. /\ a \in Seq(S) /\ b \in Seq(S) /\ Len(a) \in Nat /\ Len(b) \in Nat
      /\ Len(a) >= 1 /\ Len(b) >= 1
  BY DEF Part
<1>2. PICK p : p = a \o b
  OBVIOUS
<1>3. /\ p \in Seq(S) /\ Len(p) = Len(a) + Len(b)
      /\ \A i \in 1 .. Len(a) : p[i] = a[i]
      /\ \A i \in 1 .. Len(b) : p[Len(a) + i] = b[i]
  BY <1>1, <1>2, Joined
<1>4. p # <<>> /\ p[1] = a[1] /\ p[Len(p)] = b[Len(b)]
  BY <1>1, <1>3
<1>5. ASSUME NEW i \in 1 .. Len(p) - 1
      PROVE  Precedes(p[i], p[i + 1])
  <2>1. CASE i < Len(a)
    <3>1. p[i] = a[i] /\ p[i + 1] = a[i + 1] /\ i \in 1 .. Len(a) - 1
      BY <1>1, <1>3, <2>1
    <3>2. Precedes(a[i], a[i + 1])
      BY <3>1 DEF Part, Ordered
    <3>3. QED
      BY <3>1, <3>2
  <2>2. CASE i = Len(a)
    <3>1. p[i] = a[Len(a)] /\ p[i + 1] = b[1]
      BY <1>1, <1>3, <2>2
    <3>2. ~Starts(a[Len(a)]) /\ ~Awaits(a[Len(a)]) /\ b[1][1] # "wrstat"
      BY DEF Part, Ordered
    <3>3. QED
      BY <3>1, <3>2 DEF Precedes
  <2>3. CASE i > Len(a)
    <3>1. PICK j \in 1 .. Len(b) - 1 : i = Len(a) + j
      <4>1. i - Len(a) \in 1 .. Len(b) - 1 /\ i = Len(a) + (i - Len(a))
        BY <1>1, <1>3, <2>3
      <4>2. QED
        BY <4>1
    <3>2. p[i] = b[j] /\ p[i + 1] = b[j + 1]
      <4>1. j + 1 \in 1 .. Len(b) /\ i + 1 = Len(a) + (j + 1)
        BY <1>1, <3>1
      <4>2. QED
        BY <1>1, <1>3, <3>1, <4>1
    <3>3. Precedes(b[j], b[j + 1])
      BY DEF Part, Ordered
    <3>4. QED
      BY <3>2, <3>3
  <2>4. QED
    BY <1>1, <1>3, <2>1, <2>2, <2>3
<1>6. p[1][1] # "wrstat"
  BY <1>4 DEF Part
<1>7. ~Starts(p[Len(p)]) /\ ~Awaits(p[Len(p)])
  BY <1>1, <1>4 DEF Part, Ordered
<1>8. QED
  BY <1>2, <1>3, <1>4, <1>5, <1>6, <1>7 DEF Part, Ordered

\* An access that is no write stands alone; a read goes with its writes.
LEMMA OnePart ==
    ASSUME NEW S, NEW a \in S, a[1] # "wrstat"
    PROVE  Part(<<a>>, S)
BY DEF Part, Ordered, Starts, Awaits

LEMMA TailOrdered ==
    ASSUME NEW S, NEW p \in Seq(S), p # <<>>, Ordered(p)
    PROVE  /\ Tail(p) \in Seq(S) /\ Ordered(Tail(p))
           /\ Tail(p) # <<>> => Precedes(Head(p), Head(Tail(p)))
           /\ Tail(p) = <<>> => ~Starts(Head(p)) /\ ~Awaits(Head(p))
<1>1. PICK q : q = Tail(p)
  OBVIOUS
<1>2. /\ q \in Seq(S) /\ Len(p) \in Nat /\ Len(q) = Len(p) - 1 /\ Len(p) >= 1
      /\ \A i \in 1 .. Len(q) : q[i] = p[i + 1]
  BY <1>1, HeadTailProperties
<1>3. ASSUME NEW i \in 1 .. Len(q) - 1
      PROVE  Precedes(q[i], q[i + 1])
  <2>1. q[i] = p[i + 1] /\ q[i + 1] = p[i + 2] /\ i + 1 \in 1 .. Len(p) - 1
    BY <1>2
  <2>2. Precedes(p[i + 1], p[i + 1 + 1])
    BY <2>1 DEF Ordered
  <2>3. QED
    BY <2>1, <2>2
<1>4. q # <<>> => Len(q) >= 1 /\ q[Len(q)] = p[Len(p)]
  BY <1>2
<1>5. ~Starts(p[Len(p)]) /\ ~Awaits(p[Len(p)])
  BY DEF Ordered
<1>6. q # <<>> => Precedes(Head(p), Head(q))
  <2>1. SUFFICES ASSUME q # <<>> PROVE Precedes(Head(p), Head(q))
    OBVIOUS
  <2>2. 1 \in 1 .. Len(p) - 1 /\ Head(p) = p[1] /\ Head(q) = p[1 + 1]
    BY <1>2, <1>4, <2>1
  <2>3. QED
    BY <2>2 DEF Ordered
<1>7. q = <<>> => Head(p) = p[Len(p)]
  <2>1. q = <<>> => Len(p) = 1
    BY <1>2
  <2>2. QED
    BY <2>1
<1>8. QED
  BY <1>1, <1>2, <1>3, <1>4, <1>5, <1>6, <1>7 DEF Ordered

LEMMA NeutralTypes ==
    /\ \A a \in Accs : a[1] # "wrstat" => a \in Neutral
    /\ Neutral \subseteq Accs
    /\ \A c : Neutral \subseteq Of(c) /\ Of(c) \subseteq Accs
BY DEF Neutral, Of, Starts

\* Lists that are written one after the other.
LEMMA Listed ==
    ASSUME NEW S, NEW a \in S, NEW b \in S, NEW x \in S
    PROVE  <<a, b>> \o <<x>> = <<a, b, x>>
<1>1. ASSUME NEW p \in Seq(S), NEW q \in Seq(S), Len(p) = Len(q),
             \A i \in 1 .. Len(q) : p[i] = q[i]
      PROVE  p = q
  BY <1>1, SeqEqual
<1>2. PICK h : h = <<a, b>>
  OBVIOUS
<1>3. h \in Seq(S) /\ Len(h) = 2 /\ h[1] = a /\ h[2] = b
  BY <1>2
<1>4. <<a, b>> \o <<x>> = <<a, b, x>>
  <2>1. PICK p, q, t : p = h \o t /\ t = <<x>> /\ q = <<a, b, x>>
    OBVIOUS
  <2>2. t \in Seq(S) /\ Len(t) = 1 /\ t[1] = x /\ q \in Seq(S) /\ Len(q) = 3
        /\ q[1] = a /\ q[2] = b /\ q[3] = x
    BY <2>1
  <2>3. p \in Seq(S) /\ Len(p) = 3 /\ p[1] = h[1] /\ p[2] = h[2] /\ p[2 + 1] = t[1]
    <3>1. /\ p \in Seq(S) /\ Len(p) = Len(h) + Len(t)
          /\ \A i \in 1 .. Len(h) : p[i] = h[i]
          /\ \A i \in 1 .. Len(t) : p[Len(h) + i] = t[i]
      <4>1. p = h \o t
        BY <2>1
      <4>2. h \in Seq(S) /\ t \in Seq(S)
        BY <1>3, <2>2
      <4>3. QED
        BY <4>1, <4>2, Joined
    <3>2. QED
      BY <1>3, <2>2, <3>1
  <2>4. \A i \in 1 .. Len(q) : p[i] = q[i]
    BY <1>3, <2>2, <2>3
  <2>5. QED
    BY <1>1, <1>2, <2>1, <2>2, <2>3, <2>4
<1>5. QED
  BY <1>4

\* The accesses that are no writes of the status register,
LEMMA OnePlain ==
    /\ \A n \in Tests : Part(<<<<n>>>>, Neutral)
    /\ \A i \in {"RDHSB", "JRST", "ANY"} : Part(<<<<"cir", i>>>>, Neutral)
    /\ Part(<<DispatchOff>>, Neutral) /\ Part(<<DispatchOn>>, Neutral)
    /\ Part(<<<<"running", TRUE>>>>, Neutral) /\ Part(<<<<"running", FALSE>>>>, Neutral)
<1>1. ASSUME NEW n \in Tests
      PROVE  Part(<<<<n>>>>, Neutral)
  <2>1. <<n>> \in Accs /\ <<n>>[1] # "wrstat"
    BY DEF Accs, Tests
  <2>2. QED
    BY <2>1, NeutralTypes, OnePart
<1>2. ASSUME NEW i \in {"RDHSB", "JRST", "ANY"}
      PROVE  Part(<<<<"cir", i>>>>, Neutral)
  <2>1. <<"cir", i>> \in Accs /\ <<"cir", i>>[1] # "wrstat"
    BY DEF Accs
  <2>2. QED
    BY <2>1, NeutralTypes, OnePart
<1>3. ASSUME NEW n \in {"dispatch", "running"}, NEW b \in BOOLEAN
      PROVE  Part(<<<<n, b>>>>, Neutral)
  <2>1. <<n, b>> \in Accs
    BY SwitchTypes
  <2>2. <<n, b>>[1] # "wrstat"
    OBVIOUS
  <2>3. QED
    BY <2>1, <2>2, NeutralTypes, OnePart
<1>4. QED
  BY <1>1, <1>2, <1>3 DEF DispatchOff, DispatchOn

\* the writes after their reads,
LEMMA StatusParts ==
    /\ Part(GoBit, Neutral) /\ Part(CpuIntr, Neutral) /\ Part(NxmNxd, Neutral)
    /\ Part(Modify({}, {"RUN"}) \o UntilHalt, Of("HA"))
    /\ Part(Modify({"CONT", "EXEC"}, {}) \o UntilHalt, Neutral)
<1>1. <<"rdstat">> \in Neutral /\ <<"poll">> \in Neutral
  BY NeutralTypes DEF Accs, Tests
<1>2. ASSUME NEW s \in SUBSET StatusBits, NEW k \in SUBSET StatusBits
      PROVE  /\ <<"wrstat", s, k>> \in Accs
             /\ "RUN" \notin s /\ "RUN" \notin k => <<"wrstat", s, k>> \in Neutral
  BY StatusTypes DEF Neutral
<1>3. /\ <<"wrstat", {"GO"}, {}>> \in Neutral /\ <<"wrstat", {"INTR"}, {}>> \in Neutral
      /\ <<"wrstat", {}, {}>> \in Neutral /\ <<"wrstat", {"CONT", "EXEC"}, {}>> \in Neutral
      /\ <<"wrstat", {}, {"RUN"}>> \in Accs
  BY <1>2 DEF StatusBits, Flags
<1>4. ASSUME NEW w \in Neutral, w = <<"wrstat", {"GO"}, {}>> \/ w = <<"wrstat", {}, {}>>
      PROVE  Part(<<<<"rdstat">>, w>>, Neutral)
  BY <1>1, <1>4 DEF Part, Ordered, Precedes, Starts, Awaits
<1>5. Part(CpuIntr, Neutral)
  BY <1>1, <1>3 DEF CpuIntr, Part, Ordered, Precedes, Starts, Awaits
<1>6. ASSUME NEW S, <<"rdstat">> \in S, <<"poll">> \in S, NEW w \in S,
             w = <<"wrstat", {}, {"RUN"}>> \/ w = <<"wrstat", {"CONT", "EXEC"}, {}>>
      PROVE  Part(<<<<"rdstat">>, w, <<"poll">>>>, S)
  BY <1>6 DEF Part, Ordered, Precedes, Starts, Awaits
<1>7. <<"wrstat", {}, {"RUN"}>> \in Of("HA") /\ <<"rdstat">> \in Of("HA") /\ <<"poll">> \in Of("HA")
  BY <1>1, <1>3, NeutralTypes DEF Of, Starts
<1>8. \A w \in Accs : <<<<"rdstat">>, w>> \o <<<<"poll">>>> = <<<<"rdstat">>, w, <<"poll">>>>
  BY <1>1, NeutralTypes, Listed
<1>9. Part(GoBit, Neutral) /\ Part(NxmNxd, Neutral)
  BY <1>3, <1>4 DEF GoBit, NxmNxd, Modify
<1>10. Part(Modify({}, {"RUN"}) \o UntilHalt, Of("HA"))
  BY <1>3, <1>6, <1>7, <1>8, Zenon DEF Modify, UntilHalt
<1>11. Part(Modify({"CONT", "EXEC"}, {}) \o UntilHalt, Neutral)
  BY <1>1, <1>3, <1>6, <1>8, NeutralTypes, Zenon DEF Modify, UntilHalt
<1>12. QED
  BY <1>5, <1>9, <1>10, <1>11

\* and what the firmware does with them.
LEMMA MemParts ==
    ASSUME NEW w \in Words, NEW v \in Values \cup {"saved"}
    PROVE  /\ Part(ReadMem(w), Neutral)
           /\ w \in Written => Part(WriteMem(w, v), Neutral)
<1>1. /\ Part(<<<<"addr", w, "rd">>>>, Neutral)
      /\ w \in Written => Part(<<<<"addr", w, "wr">>, <<"data", v>>>>, Neutral)
  <2>1. <<"addr", w, "rd">> \in Neutral /\ (w \in Written => <<"addr", w, "wr">> \in Neutral)
    BY NeutralTypes DEF Accs
  <2>2. <<"data", v>> \in Neutral
    BY NeutralTypes DEF Accs
  <2>3. QED
    BY <2>1, <2>2 DEF Part, Ordered, Precedes, Starts, Awaits
<1>2. Part(<<<<"rddata">>>>, Neutral)
  BY OnePlain DEF Tests
<1>3. QED
  BY <1>1, <1>2, StatusParts, PartsJoin DEF ReadMem, WriteMem

LEMMA ProgramParts ==
    /\ Part(GetChar, Neutral) /\ Part(PutChar, Neutral) /\ Part(ConsoleOutput, Neutral)
    /\ Part(HaltReport, Neutral) /\ Part(HaltStatus, Neutral)
    /\ Part(ExecuteAndGetData("RDHSB"), Neutral)
<1>1. /\ Part(<<<<"ifchar">>>>, Neutral) /\ Part(<<<<"ifnone">>>>, Neutral)
      /\ Part(<<<<"return">>>>, Neutral) /\ Part(<<<<"report">>>>, Neutral)
      /\ Part(<<<<"ifhalt">>>>, Neutral) /\ Part(<<<<"save">>>>, Neutral)
      /\ Part(<<<<"output">>>>, Neutral)
  BY OnePlain DEF Tests
<1>2. /\ Part(ReadMem("CTYIN"), Neutral) /\ Part(ReadMem("CTYOUT"), Neutral)
      /\ Part(ReadMem("TMP"), Neutral) /\ Part(ReadMem("HSW"), Neutral)
      /\ Part(ReadMem("HSB"), Neutral)
  BY MemParts DEF Words
<1>3. /\ Part(WriteMem("CTYIN", "char"), Neutral) /\ Part(WriteMem("CTYOUT", "none"), Neutral)
      /\ Part(WriteMem("TMP", "saved"), Neutral)
  BY MemParts DEF Words, Written, Values
<1>4. Part(GetChar, Neutral)
  <2>1. Part(ReadMem("CTYOUT") \o <<<<"ifchar">>>>, Neutral)
    BY <1>1, <1>2, PartsJoin
  <2>2. Part((ReadMem("CTYOUT") \o <<<<"ifchar">>>>) \o WriteMem("CTYOUT", "none"), Neutral)
    BY <1>3, <2>1, PartsJoin
  <2>3. QED
    BY <1>1, <2>2, PartsJoin DEF GetChar
<1>5. Part(PutChar, Neutral)
  <2>1. Part(ReadMem("CTYIN") \o <<<<"ifnone">>>>, Neutral)
    BY <1>1, <1>2, PartsJoin
  <2>2. Part((ReadMem("CTYIN") \o <<<<"ifnone">>>>) \o WriteMem("CTYIN", "char"), Neutral)
    BY <1>3, <2>1, PartsJoin
  <2>3. QED
    BY <2>2, StatusParts, PartsJoin DEF PutChar
<1>6. /\ Part(ConsoleOutput, Neutral) /\ Part(HaltReport, Neutral)
  <2>1. ASSUME NEW a \in Neutral, NEW b \in Neutral, NEW c \in Neutral,
               a[1] # "wrstat", b[1] # "wrstat", c[1] # "wrstat"
        PROVE  Part(<<a, b>>, Neutral) /\ Part(<<a, b, c>>, Neutral)
    BY <2>1 DEF Part, Ordered, Precedes, Starts, Awaits
  <2>2. \A a : Part(<<a>>, Neutral) => a \in Neutral /\ a[1] # "wrstat"
    BY DEF Part
  <2>3. Part(HaltReport, Neutral)
    BY <1>1, <2>1, <2>2, Zenon DEF HaltReport
  <2>4. Part(ConsoleOutput, Neutral)
    BY <1>1, <2>1, <2>2, OnePlain, Zenon DEF ConsoleOutput
  <2>5. QED
    BY <2>3, <2>4
<1>7. Part(ExecuteInstruction("RDHSB"), Neutral)
  <2>1. PICK d, c, m, u, e : /\ d = <<DispatchOff>> /\ c = <<<<"cir", "RDHSB">>>>
                             /\ m = Modify({"CONT", "EXEC"}, {}) /\ u = UntilHalt
                             /\ e = <<DispatchOn>>
    OBVIOUS
  <2>2. ExecuteInstruction("RDHSB") = ((d \o (c \o m)) \o u) \o e
    BY <2>1, Zenon DEF ExecuteInstruction, Execute, DispatchOff, DispatchOn
  <2>3. /\ Part(d, Neutral) /\ Part(c, Neutral) /\ Part(m \o u, Neutral) /\ Part(e, Neutral)
    BY <2>1, OnePlain, StatusParts, Zenon
  <2>4. m \in Seq(Accs) /\ u \in Seq(Accs)
    <3>1. m \in Seq(Accs)
      BY <2>1, ModifyType DEF StatusBits, Flags
    <3>2. u \in Seq(Accs)
      BY <2>1 DEF UntilHalt, Accs, Tests
    <3>3. QED
      BY <3>1, <3>2
  <2>5. d \in Seq(Accs) /\ c \in Seq(Accs)
    BY <2>3, NeutralTypes DEF Part
  <2>6. (d \o (c \o m)) \o u = (d \o c) \o (m \o u)
    <3>1. d \o (c \o m) = (d \o c) \o m
      BY <2>4, <2>5, ConcatAssociative
    <3>2. PICK f : f = d \o c
      OBVIOUS
    <3>3. f \in Seq(Accs)
      BY <2>5, <3>2
    <3>4. (f \o m) \o u = f \o (m \o u)
      BY <2>4, <3>3, ConcatAssociative
    <3>5. QED
      BY <3>1, <3>2, <3>4
  <2>7. Part((d \o c) \o (m \o u), Neutral)
    BY <2>3, PartsJoin
  <2>8. Part(((d \o (c \o m)) \o u) \o e, Neutral)
    BY <2>3, <2>6, <2>7, PartsJoin
  <2>9. QED
    BY <2>2, <2>8
<1>8. Part(ExecuteAndGetData("RDHSB"), Neutral)
  <2>1. Part(ReadMem("TMP") \o <<<<"save">>>>, Neutral)
    BY <1>1, <1>2, PartsJoin
  <2>2. Part((ReadMem("TMP") \o <<<<"save">>>>) \o ExecuteInstruction("RDHSB"), Neutral)
    BY <1>7, <2>1, PartsJoin
  <2>3. Part(((ReadMem("TMP") \o <<<<"save">>>>) \o ExecuteInstruction("RDHSB"))
               \o ReadMem("TMP"), Neutral)
    BY <1>2, <2>2, PartsJoin
  <2>4. QED
    BY <1>3, <2>3, PartsJoin DEF ExecuteAndGetData
<1>9. Part(HaltStatus, Neutral)
  <2>1. Part(ReadMem("HSW") \o <<<<"ifhalt">>>>, Neutral)
    BY <1>1, <1>2, PartsJoin
  <2>2. Part((ReadMem("HSW") \o <<<<"ifhalt">>>>) \o ExecuteAndGetData("RDHSB"), Neutral)
    BY <1>8, <2>1, PartsJoin
  <2>3. Part(((ReadMem("HSW") \o <<<<"ifhalt">>>>) \o ExecuteAndGetData("RDHSB"))
               \o ReadMem("HSB"), Neutral)
    BY <1>2, <2>2, PartsJoin
  <2>4. QED
    BY <1>1, <2>3, PartsJoin DEF HaltStatus
<1>10. QED
  BY <1>4, <1>5, <1>6, <1>8, <1>9

\* The programs of the commands that do not step the KS10.
LEMMA CommandParts ==
    ASSUME NEW c \in {"HA", "CO", "ST", "EM", "RD"}
    PROVE  CommandProgram(c) \in Seq(Of(c)) /\ Part(CommandProgram(c), Of(c))
<1>1. \A p : Part(p, Neutral) => Part(p, Of(c))
  <2>1. Neutral \subseteq Of(c)
    BY NeutralTypes
  <2>2. Seq(Neutral) \subseteq Seq(Of(c))
    BY <2>1
  <2>3. QED
    BY <2>2 DEF Part
<1>2. CASE c = "HA"
  BY <1>2, StatusParts, Zenon DEF CommandProgram, Part
<1>3. CASE c = "EM"
  <2>1. Part(ReadMem("X"), Neutral)
    BY MemParts DEF Words, Values
  <2>2. Part(ReadMem("X") \o NxmNxd, Neutral)
    BY <2>1, StatusParts, PartsJoin
  <2>3. CommandProgram(c) = ReadMem("X") \o NxmNxd
    BY <1>3 DEF CommandProgram
  <2>4. QED
    BY <1>1, <2>2, <2>3 DEF Part
<1>4. CASE c = "RD"
  <2>1. Part(<<<<"ifhalt">>>>, Neutral)
    BY OnePlain DEF Tests
  <2>2. Part(<<<<"ifhalt">>>> \o ExecuteAndGetData("RDHSB"), Neutral)
    BY <2>1, ProgramParts, PartsJoin
  <2>3. CommandProgram(c) = <<<<"ifhalt">>>> \o ExecuteAndGetData("RDHSB")
    BY <1>4 DEF CommandProgram
  <2>4. QED
    BY <1>1, <2>2, <2>3 DEF Part
<1>5. CASE c \in {"CO", "ST"}
  <2>8. PICK S : S = Of(c)
    OBVIOUS
  <2>1. PICK r, x, y, z : /\ r = <<"rdstat">> /\ x = <<"running", TRUE>>
                          /\ y = <<"output">> /\ z = <<"running", FALSE>>
    OBVIOUS
  <2>2. /\ r \in S /\ x \in S /\ y \in S /\ z \in S
        /\ x[1] = "running" /\ y[1] = "output" /\ z[1] = "running" /\ r[1] = "rdstat"
    <3>1. r \in Accs /\ y \in Accs /\ r[1] = "rdstat" /\ y[1] = "output"
      BY <2>1 DEF Accs, Tests
    <3>2. ASSUME NEW b \in BOOLEAN
          PROVE  <<"running", b>> \in Accs /\ <<"running", b>>[1] = "running"
      BY SwitchTypes
    <3>3. x \in Accs /\ z \in Accs /\ x[1] = "running" /\ z[1] = "running"
      BY <2>1, <3>2
    <3>4. QED
      BY <2>8, <3>1, <3>3, NeutralTypes
  <2>3. ASSUME NEW w \in S, w[1] = "wrstat", "CONT" \in w[2], "RUN" \in w[2], w[3] = {},
               NEW p \in Seq(S), Len(p) = 5,
               p[1] = r, p[2] = w, p[3] = x, p[4] = y, p[5] = z
        PROVE  Part(p, S)
    <3>1. p # <<>> /\ p[1][1] # "wrstat"
      <4>1. r[1] # "wrstat"
        BY <2>2
      <4>2. p # <<>>
        <5>1. p \in Seq(S) /\ Len(p) = 5
          BY <2>3
        <5>2. QED
          BY <5>1
      <4>3. p[1] = r
        BY <2>3
      <4>4. QED
        BY <4>1, <4>2, <4>3, Zenon
    <3>2. Precedes(r, w) /\ Precedes(w, x) /\ Precedes(x, y) /\ Precedes(y, z)
      BY <2>2, <2>3 DEF Precedes, Starts, Awaits
    <3>3. \A i \in 1 .. Len(p) - 1 : Precedes(p[i], p[i + 1])
      BY <2>3, <3>2
    <3>4. ~Starts(p[Len(p)]) /\ ~Awaits(p[Len(p)])
      BY <2>2, <2>3 DEF Starts, Awaits
    <3>5. QED
      BY <2>3, <3>1, <3>3, <3>4 DEF Part, Ordered
  <2>4. ASSUME NEW s \in SUBSET StatusBits, "CONT" \in s, "RUN" \in s
        PROVE  Part(Modify(s, {}) \o ConsoleOutput, S)
    <3>1. PICK w, m, o, p : /\ w = <<"wrstat", s, {}>> /\ m = <<r, w>> /\ o = <<x, y, z>>
                            /\ p = m \o o
      OBVIOUS
    <3>2. w \in S /\ w[1] = "wrstat" /\ "CONT" \in w[2] /\ "RUN" \in w[2] /\ w[3] = {}
      BY <1>5, <2>4, <2>8, <3>1, StatusTypes DEF Of, Starts
    <3>3. /\ m \in Seq(S) /\ Len(m) = 2 /\ m[1] = r /\ m[2] = w
          /\ o \in Seq(S) /\ Len(o) = 3 /\ o[1] = x /\ o[2] = y /\ o[3] = z
      BY <2>2, <3>1, <3>2
    <3>4. p = m \o o
      BY <3>1
    <3>5. /\ p \in Seq(S) /\ Len(p) = Len(m) + Len(o)
          /\ \A i \in 1 .. Len(m) : p[i] = m[i]
          /\ \A i \in 1 .. Len(o) : p[Len(m) + i] = o[i]
      <4>1. m \in Seq(S) /\ o \in Seq(S)
        BY <3>3
      <4>2. QED
        BY <3>4, <4>1, Joined
    <3>6. /\ Len(p) = 5 /\ p[1] = m[1] /\ p[2] = m[2] /\ p[2 + 1] = o[1]
          /\ p[2 + 2] = o[2] /\ p[2 + 3] = o[3]
      BY <3>3, <3>5
    <3>7. Part(p, S)
      BY <2>3, <3>2, <3>3, <3>5, <3>6
    <3>8. Modify(s, {}) = m /\ ConsoleOutput = o
      BY <2>1, <3>1, Zenon DEF Modify, ConsoleOutput
    <3>9. QED
      BY <3>4, <3>7, <3>8
  <2>5. CASE c = "CO"
    <3>1. CommandProgram(c) = Modify({"RUN", "CONT"}, {}) \o ConsoleOutput
      BY <2>5 DEF CommandProgram
    <3>2. QED
      BY <2>4, <2>8, <3>1 DEF Part, StatusBits, Flags
  <2>6. CASE c = "ST"
    <3>1. PICK i, m : i = <<<<"cir", "JRST">>>> /\ m = Modify({"RUN", "CONT", "EXEC"}, {})
      OBVIOUS
    <3>2. CommandProgram(c) = (i \o m) \o ConsoleOutput
      BY <2>6, <3>1, Zenon DEF CommandProgram, Execute
    <3>3. Part(m \o ConsoleOutput, Of(c))
      BY <2>4, <2>8, <3>1 DEF StatusBits, Flags
    <3>4. Part(i, Of(c))
      BY <1>1, <3>1, OnePlain
    <3>5. (i \o m) \o ConsoleOutput = i \o (m \o ConsoleOutput)
      <4>1. m \in Seq(Accs)
        BY <3>1, ModifyType DEF StatusBits, Flags
      <4>2. i \in Seq(Accs)
        BY <3>4, NeutralTypes DEF Part
      <4>3. ConsoleOutput \in Seq(Accs)
        BY HandlerTypes
      <4>4. QED
        BY <4>1, <4>2, <4>3, ConcatAssociative
    <3>6. QED
      BY <3>2, <3>3, <3>4, <3>5, PartsJoin DEF Part
  <2>7. QED
    BY <1>5, <2>5, <2>6
<1>6. QED
  BY <1>2, <1>3, <1>4, <1>5

\* The programs that the threads have.
ProgramInv ==
    /\ \A t \in Threads : Ordered(prog[t])
    /\ \A t \in Threads \ {"cmd"} : prog[t] \in Seq(Neutral)
    /\ prog["cmd"] \in Seq(Of(cmd))
    /\ cmd = "none" => prog["cmd"] = <<>>

\* What an access does to the status, by the name of the access,
LEMMA StatusAccess ==
    ASSUME FirmTypes, NEW t \in Threads, Access(t)
    PROVE  LET a == Head(prog[t])
           IN  /\ a[1] # "wrstat" => flags' = flags
               /\ a[1] = "wrstat" => flags' = ((stat[t] \cup a[2]) \ a[3]) \cap Flags
               /\ a[1] = "rdstat" => stat'[t] = flags
               /\ a[1] # "rdstat" => stat' = stat
               /\ a[1] = "poll" => halt
<1>1. CASE accWrStat(t)
  <2>1. Head(prog[t])[1] = "wrstat"
    BY <1>1 DEF accWrStat, Doing
  <2>2. Arg(t, 1) = Head(prog[t])[2] /\ Arg(t, 2) = Head(prog[t])[3]
    BY DEF Arg
  <2>3. QED
    BY <1>1, <2>1, <2>2 DEF accWrStat, SameLocals
<1>2. CASE accRdStat(t)
  BY <1>2 DEF accRdStat, Doing, SameFpga, cpuVars, FirmTypes
<1>3. CASE ~accWrStat(t) /\ ~accRdStat(t)
  <2>1. flags' = flags /\ stat' = stat
    BY <1>3 DEF Access, accAddr, accData, accCir, accRdData, accPoll, accIfHalt, accIfChar, Test,
           accIfNone, accReport, accReturn, accSave, accDispatch, accRunning, accOutput,
           SameLocals, SameFpga, cpuVars
  <2>2. Head(prog[t])[1] \notin {"wrstat", "rdstat"}
    BY <1>3, ByName
  <2>3. Head(prog[t])[1] = "poll" => halt
    BY ByName DEF accPoll
  <2>4. QED
    BY <2>1, <2>2, <2>3
<1>4. QED
  BY <1>1, <1>2, <1>3

\* and what a thread has left after it.
LEMMA NextProgram ==
    ASSUME FirmTypes, NEW t \in Threads, Access(t)
    PROVE  LET name == Head(prog[t])[1]
           IN  /\ name \in {"rdstat", "wrstat", "poll"} => prog'[t] = Tail(prog[t])
               /\ \/ prog'[t] = Tail(prog[t])
                  \/ prog'[t] \in {<<>>, ConsoleOutput, HaltStatus}
                  \/ prog'[t] = PutChar \o prog[t] /\ name = "output"
               /\ cmd' = IF t = "cmd" /\ prog'[t] = <<>> THEN "none" ELSE cmd
<1>1. ASSUME NEW p, Goes(t, p)
      PROVE  prog'[t] = p /\ cmd' = IF t = "cmd" /\ prog'[t] = <<>> THEN "none" ELSE cmd
  <2>1. prog'[t] = p
    BY <1>1, GoesFrame
  <2>2. QED
    BY <1>1, <2>1 DEF Goes
<1>2. Advance(t) => /\ prog'[t] = Tail(prog[t])
                    /\ cmd' = IF t = "cmd" /\ prog'[t] = <<>> THEN "none" ELSE cmd
  BY <1>1 DEF Advance
<1>3. CASE accIfHalt(t) \/ accIfChar(t)
  <2>1. PICK p : Goes(t, p) /\ p \in {Tail(prog[t]), <<>>}
    BY <1>3 DEF accIfHalt, accIfChar, Test
  <2>2. Head(prog[t])[1] \in {"ifhalt", "ifchar"}
    BY <1>3 DEF accIfHalt, accIfChar, Test, Doing
  <2>3. QED
    BY <1>1, <2>1, <2>2
<1>4. CASE accIfNone(t)
  <2>1. PICK p : Goes(t, p) /\ p \in {Tail(prog[t]), ConsoleOutput}
    BY <1>4 DEF accIfNone
  <2>2. Head(prog[t])[1] = "ifnone"
    BY <1>4 DEF accIfNone, Doing
  <2>3. QED
    BY <1>1, <2>1, <2>2
<1>5. CASE accReport(t)
  <2>1. PICK p : Goes(t, p) /\ p \in {Tail(prog[t]), HaltStatus}
    BY <1>5 DEF accReport
  <2>2. Head(prog[t])[1] = "report"
    BY <1>5 DEF accReport, Doing
  <2>3. QED
    BY <1>1, <2>1, <2>2
<1>6. CASE accOutput(t)
  <2>1. Head(prog[t])[1] = "output"
    BY <1>6 DEF accOutput, Doing
  <2>2. Advance(t) \/ Goes(t, PutChar \o prog[t])
    BY <1>6 DEF accOutput
  <2>3. QED
    BY <1>1, <1>2, <2>1, <2>2
<1>7. CASE ~(accIfHalt(t) \/ accIfChar(t) \/ accIfNone(t) \/ accReport(t) \/ accOutput(t))
  <2>1. Advance(t)
    BY <1>7 DEF Access, accAddr, accData, accCir, accRdStat, accRdData, accWrStat, accPoll,
           accReturn, accSave, accDispatch, accRunning
  <2>2. QED
    BY <1>2, <2>1
<1>8. QED
  BY <1>3, <1>4, <1>5, <1>6, <1>7

\* An access keeps the programs ordered, and a write of the status register
\* comes next only after the read of it or another write.
LEMMA ProgramAccess ==
    ASSUME FirmTypes, ProgramInv, NEW t \in Threads, Access(t)
    PROVE  LET a == Head(prog[t])
           IN  /\ ProgramInv'
               /\ a \in IF t = "cmd" THEN Of(cmd) ELSE Neutral
               /\ a[1] = "wrstat" =>
                     /\ Starts(a) => /\ "CONT" \in a[2] /\ "CONT" \notin a[3]
                                     /\ "RUN" \notin a[3]
                                     /\ ~At(t, "wrstat")' /\ cmd' = cmd
                     /\ Awaits(a) => At(t, "poll")'
               /\ At(t, "wrstat")' => a[1] \in {"rdstat", "wrstat"}
<1>1. PICK S : S = IF t = "cmd" THEN Of(cmd) ELSE Neutral
  OBVIOUS
<1>2. prog[t] \in Seq(S) /\ Ordered(prog[t]) /\ Neutral \subseteq S
  BY <1>1, NeutralTypes DEF ProgramInv
<1>3. prog[t] # <<>>
  BY ByName
<1>4. PICK p, q, a : p = prog[t] /\ q = prog'[t] /\ a = Head(p)
  OBVIOUS
<1>5. /\ Tail(p) \in Seq(S) /\ Ordered(Tail(p)) /\ a \in S /\ p # <<>>
      /\ Tail(p) # <<>> => Precedes(a, Head(Tail(p)))
      /\ Tail(p) = <<>> => ~Starts(a) /\ ~Awaits(a)
  <2>1. p \in Seq(S) /\ p # <<>> /\ Ordered(p)
    BY <1>2, <1>3, <1>4
  <2>2. a \in S
    BY <1>4, <2>1
  <2>3. QED
    BY <1>4, <2>1, <2>2, TailOrdered
<1>6. /\ a[1] \in {"rdstat", "wrstat", "poll"} => q = Tail(p)
      /\ \/ q = Tail(p) \/ q \in {<<>>, ConsoleOutput, HaltStatus}
         \/ q = PutChar \o p /\ a[1] = "output"
      /\ cmd' = IF t = "cmd" /\ q = <<>> THEN "none" ELSE cmd
  BY <1>4, NextProgram
<1>7. q = Tail(p) \/ q = <<>> \/ (Part(q, S))
  <2>1. \A r : Part(r, Neutral) => Part(r, S)
    <3>1. Seq(Neutral) \subseteq Seq(S)
      BY <1>2
    <3>2. QED
      BY <3>1 DEF Part
  <2>2. CASE q = PutChar \o p /\ a[1] = "output"
    <3>1. p[1][1] # "wrstat"
      BY <1>4, <1>5, <2>2
    <3>2. Part(p, S)
      BY <1>2, <1>4, <1>5, <3>1 DEF Part
    <3>3. Part(PutChar, S)
      BY <2>1, ProgramParts
    <3>4. QED
      BY <2>2, <3>2, <3>3, PartsJoin
  <2>3. CASE q \in {ConsoleOutput, HaltStatus}
    BY <2>1, <2>3, ProgramParts
  <2>4. QED
    BY <1>6, <2>2, <2>3
<1>8. q \in Seq(S) /\ Ordered(q)
  <2>1. <<>> \in Seq(S) /\ Ordered(<<>>)
    BY DEF Ordered
  <2>2. QED
    BY <1>5, <1>7, <2>1, Zenon DEF Part
<1>9. At(t, "wrstat")' => a[1] \in {"rdstat", "wrstat"}
  <2>1. SUFFICES ASSUME q # <<>>, Head(q)[1] = "wrstat"
                 PROVE  a[1] \in {"rdstat", "wrstat"}
    BY <1>4 DEF At
  <2>2. ~Part(q, S)
    <3>1. q \in Seq(S) /\ Head(q) = q[1]
      BY <1>8, <2>1
    <3>2. QED
      BY <2>1, <3>1, Zenon DEF Part
  <2>3. q = Tail(p)
    BY <1>7, <2>1, <2>2
  <2>4. QED
    BY <1>5, <2>1, <2>3 DEF Precedes
<1>10. a[1] = "wrstat" =>
          /\ Starts(a) => /\ "CONT" \in a[2] /\ "CONT" \notin a[3] /\ "RUN" \notin a[3]
                          /\ ~At(t, "wrstat")' /\ cmd' = cmd
          /\ Awaits(a) => At(t, "poll")'
  <2>1. SUFFICES ASSUME a[1] = "wrstat", Starts(a) \/ Awaits(a)
                 PROVE  /\ Starts(a) => /\ "CONT" \in a[2] /\ "CONT" \notin a[3]
                                        /\ "RUN" \notin a[3]
                                        /\ ~At(t, "wrstat")' /\ cmd' = cmd
                        /\ Awaits(a) => At(t, "poll")'
    OBVIOUS
  <2>2. q = Tail(p) /\ q # <<>> /\ Precedes(a, Head(q))
    BY <1>5, <1>6, <2>1
  <2>3. cmd' = cmd
    BY <1>6, <2>2
  <2>4. QED
    BY <1>4, <2>2, <2>3 DEF Precedes, At
<1>11. ProgramInv'
  <2>1. \A u \in Threads \ {t} : prog'[u] = prog[u]
    BY AccessFrame
  <2>2. \A u \in Threads : Ordered(prog'[u])
    BY <1>4, <1>8, <2>1 DEF ProgramInv
  <2>3. CASE t = "cmd"
    <3>1. cmd' = cmd \/ (q = <<>> /\ cmd' = "none")
      BY <1>6, <2>3
    <3>2. q \in Seq(Of(cmd'))
      <4>1. S = Of(cmd)
        BY <1>1, <2>3
      <4>2. <<>> \in Seq(Of(cmd'))
        OBVIOUS
      <4>3. QED
        BY <1>8, <3>1, <4>1, <4>2
    <3>3. cmd # "none"
      BY <1>3, <2>3 DEF ProgramInv
    <3>4. cmd' = "none" => q = <<>>
      BY <3>1, <3>3
    <3>5. QED
      BY <1>4, <2>1, <2>2, <2>3, <3>2, <3>4 DEF ProgramInv, Threads
  <2>4. CASE t # "cmd"
    <3>1. cmd' = cmd /\ prog'["cmd"] = prog["cmd"]
      BY <1>6, <2>1, <2>4 DEF Threads
    <3>2. q \in Seq(Neutral)
      BY <1>1, <1>8, <2>4
    <3>3. QED
      BY <1>4, <2>1, <2>2, <2>4, <3>1, <3>2 DEF ProgramInv, Threads
  <2>5. QED
    BY <2>3, <2>4
<1>12. QED
  BY <1>1, <1>4, <1>5, <1>9, <1>10, <1>11

\* The other steps keep the programs ordered, too.
LEMMA ProgramOthers ==
    ASSUME Commands \cap {"SI", "EX"} = {}, "^C" \notin Keys, FirmTypes, ProgramInv,
           consIntr \/ haltIntr \/ startNext \/ Operator \/ Cpu \/ UNCHANGED vars
    PROVE  /\ ProgramInv'
           /\ \A u \in Threads : prog'[u] = prog[u] \/ (prog[u] = <<>> /\ ~At(u, "wrstat")')
<1>1. ASSUME NEW u \in Threads, NEW S, prog[u] = <<>>, prog'[u] = <<>> \/ Part(prog'[u], S)
      PROVE  prog'[u] \in Seq(S) /\ Ordered(prog'[u]) /\ ~At(u, "wrstat")'
  <2>1. PICK q : q = prog'[u]
    OBVIOUS
  <2>2. q \in Seq(S) /\ Ordered(q)
    <3>1. <<>> \in Seq(S) /\ Ordered(<<>>)
      BY DEF Ordered
    <3>2. q = <<>> \/ Part(q, S)
      BY <1>1, <2>1
    <3>3. QED
      BY <3>1, <3>2, Zenon DEF Part
  <2>3. ~(q # <<>> /\ Head(q)[1] = "wrstat")
    <3>1. CASE q = <<>>
      BY <3>1
    <3>2. CASE q # <<>>
      <4>1. Head(q) = q[1]
        BY <2>2, <3>2
      <4>2. QED
        BY <1>1, <2>1, <3>2, <4>1, Zenon DEF Part
    <3>3. QED
      BY <3>1, <3>2
  <2>4. QED
    BY <2>1, <2>2, <2>3 DEF At
<1>2. CASE consIntr
  <2>1. /\ prog["cons"] = <<>> /\ prog'["cons"] = GetChar
        /\ prog'["halt"] = prog["halt"] /\ prog'["cmd"] = prog["cmd"] /\ cmd' = cmd
    BY <1>2 DEF consIntr, InHandler, FirmTypes, Progs, Threads
  <2>2. prog'["cons"] \in Seq(Neutral) /\ Ordered(prog'["cons"]) /\ ~At("cons", "wrstat")'
    BY <1>1, <2>1, ProgramParts DEF Threads
  <2>3. QED
    BY <2>1, <2>2 DEF ProgramInv, Threads
<1>3. CASE haltIntr
  <2>1. /\ prog["halt"] = <<>> /\ prog'["halt"] \in {<<>>, HaltReport}
        /\ prog'["cons"] = prog["cons"] /\ prog'["cmd"] = prog["cmd"] /\ cmd' = cmd
    BY <1>3 DEF haltIntr, InHandler, FirmTypes, Progs, Threads
  <2>2. prog'["halt"] = <<>> \/ Part(prog'["halt"], Neutral)
    BY <2>1, ProgramParts
  <2>3. prog'["halt"] \in Seq(Neutral) /\ Ordered(prog'["halt"]) /\ ~At("halt", "wrstat")'
    BY <1>1, <2>1, <2>2 DEF Threads
  <2>4. QED
    BY <2>1, <2>3 DEF ProgramInv, Threads
<1>4. ASSUME NEW c \in Commands, Begin(c), cmd = "none"
      PROVE  /\ ProgramInv'
             /\ \A u \in Threads : prog'[u] = prog[u] \/ (prog[u] = <<>> /\ ~At(u, "wrstat")')
  <2>1. c \in {"HA", "CO", "ST", "EM", "RD"}
    BY ConsoleAssumption
  <2>2. /\ prog["cmd"] = <<>> /\ prog'["cmd"] = CommandProgram(c) /\ cmd' = c
        /\ prog'["cons"] = prog["cons"] /\ prog'["halt"] = prog["halt"]
    BY <1>4 DEF Begin, FirmTypes, Progs, Threads, ProgramInv
  <2>3. PICK S : S = Of(c)
    OBVIOUS
  <2>4. prog'["cmd"] \in Seq(S) /\ Ordered(prog'["cmd"]) /\ ~At("cmd", "wrstat")'
    BY <1>1, <2>1, <2>2, <2>3, CommandParts DEF Threads
  <2>5. cmd' # "none"
    BY <2>1, <2>2
  <2>6. QED
    BY <2>2, <2>3, <2>4, <2>5 DEF ProgramInv, Threads
<1>5. ASSUME UNCHANGED <<prog, cmd>>
      PROVE  /\ ProgramInv'
             /\ \A u \in Threads : prog'[u] = prog[u] \/ (prog[u] = <<>> /\ ~At(u, "wrstat")')
  BY <1>5 DEF ProgramInv
<1>6. CASE startNext
  <2>1. con \in Commands /\ Begin(con) /\ cmd = "none"
    BY <1>6 DEF startNext, FirmTypes
  <2>2. QED
    BY <1>4, <2>1
<1>7. CASE Operator
  <2>1. CASE \E c \in Commands : Begin(c) /\ cmd = "none"
    BY <1>4, <2>1
  <2>2. CASE UNCHANGED <<prog, cmd>>
    BY <1>5, <2>2
  <2>3. QED
    BY <1>7, <2>1, <2>2 DEF Operator, typeLine, typeCtrlC, typeCtrlS, typeCtrlQ
<1>8. CASE Cpu \/ UNCHANGED vars
  <2>1. UNCHANGED <<prog, cmd>>
    BY <1>8 DEF Cpu, cpuInstr, cpuXct, cpuHalted, cpuSetHalt, cpuUnhalt, SetHalt, vars, firmVars
  <2>2. QED
    BY <1>5, <2>1
<1>9. QED
  BY <1>2, <1>3, <1>6, <1>7, <1>8

-----------------------------------------------------------------------------
(* The KS10 with RUN clear is on its way into the halt loop, or through it *)
(* for one instruction, and somebody waits until it is there: so RUN is not*)
(* set meanwhile.  What a thread has read of RUN is still so when it writes*)
(* it back.                                                                *)

Leaving  == "RUN" \notin flags /\ (cpu # "HALTLP" \/ "CONT" \in flags)
RunKnown == "RUN" \in flags => \/ cpu \in {"INSTR", "XCT"}
                               \/ cpu = "HALTLP" /\ "CONT" \in flags /\ cmd \in {"CO", "ST"}
Awaited  == Leaving => \E t \in Threads : At(t, "poll")
Agreed   == \A t \in Threads : At(t, "wrstat") => ("RUN" \in stat[t] <=> "RUN" \in flags)
Stray    == \A t \in Threads : At(t, "wrstat") /\ "CONT" \in stat[t] /\ "RUN" \notin stat[t]
                               => t # "cmd" /\ At("cmd", "poll")

HoldInv == RunKnown /\ Awaited /\ Agreed /\ Stray

\* A thread that writes the status register.
LEMMA HoldWrite ==
    ASSUME FirmTypes, FpgaTypes, HandlerInv, CauseInv, ProgramInv, HoldInv,
           NEW t \in Threads, Access(t), At(t, "wrstat")
    PROVE  HoldInv'
<1>1. PICK a : a = Head(prog[t])
  OBVIOUS
<1>2. a[1] = "wrstat" /\ ~Urgent /\ cpu' = cpu
  BY <1>1, Alone, AccessFrame DEF At
<1>3. \A u \in Threads \ {t} : /\ prog'[u] = prog[u] /\ stat'[u] = stat[u]
                               /\ prog[u] # <<>> => u = "cmd"
  <2>1. \A u \in Threads \ {t} : prog'[u] = prog[u] /\ stat'[u] = stat[u]
    BY AccessFrame
  <2>2. (t # "cons" => prog["cons"] = <<>>) /\ (t # "halt" => prog["halt"] = <<>>)
    BY Alone
  <2>3. QED
    BY <2>1, <2>2 DEF Threads
<1>4. /\ \A u \in Threads \ {t} : At(u, "wrstat")' => At(u, "wrstat") /\ u = "cmd"
      /\ \A u \in Threads \ {t} : At(u, "poll") => At(u, "poll")' /\ u = "cmd"
  BY <1>3 DEF At
<1>5. /\ flags' = ((stat[t] \cup a[2]) \ a[3]) \cap Flags /\ stat' = stat
  BY <1>1, <1>2, StatusAccess
<1>6. "RUN" \in stat[t] <=> "RUN" \in flags
  BY DEF HoldInv, Agreed
<1>7. ~At(t, "poll")
  BY <1>1, <1>2 DEF At
<1>8. /\ a \in IF t = "cmd" THEN Of(cmd) ELSE Neutral
      /\ Starts(a) => /\ "CONT" \in a[2] /\ "CONT" \notin a[3] /\ "RUN" \notin a[3]
                      /\ ~At(t, "wrstat")' /\ cmd' = cmd
      /\ Awaits(a) => At(t, "poll")'
  BY <1>1, <1>2, ProgramAccess
<1>9. "RUN" \in flags => cpu \in {"INSTR", "XCT"}
  BY <1>2 DEF HoldInv, RunKnown, Urgent
<1>10. stat[t] \subseteq Flags
  BY DEF FirmTypes
<1>11. CASE Starts(a)
  <2>1. t = "cmd" /\ cmd \in {"CO", "ST"}
    BY <1>8, <1>11 DEF Neutral, Of, Starts
  <2>2. "RUN" \in flags' /\ "CONT" \in flags'
    BY <1>5, <1>8, <1>11 DEF Starts, Flags
  <2>3. cpu \in {"INSTR", "XCT", "HALTLP"}
    <3>1. ~(\E u \in Threads : At(u, "poll"))
      BY <1>4, <1>7, <2>1
    <3>2. ~Leaving
      BY <3>1 DEF HoldInv, Awaited
    <3>3. QED
      BY <1>9, <3>2 DEF Leaving
  <2>4. RunKnown' /\ Awaited'
    BY <1>2, <1>8, <1>11, <2>1, <2>2, <2>3 DEF RunKnown, Awaited, Leaving
  <2>5. \A u \in Threads : ~At(u, "wrstat")'
    BY <1>4, <1>8, <1>11, <2>1
  <2>6. Agreed' /\ Stray'
    BY <2>5 DEF Agreed, Stray
  <2>7. QED
    BY <2>4, <2>6 DEF HoldInv
<1>12. CASE ~Starts(a)
  <2>1. "RUN" \notin a[2]
    BY <1>2, <1>12 DEF Starts
  <2>2. "RUN" \in flags' => "RUN" \in flags
    BY <1>5, <1>6, <2>1
  <2>3. "RUN" \in flags' => cpu' \in {"INSTR", "XCT"}
    BY <1>2, <1>9, <2>2
  <2>4. RunKnown'
    BY <2>3 DEF RunKnown
  <2>5. t # "cmd" \/ ~Awaits(a) => ("RUN" \in flags' <=> "RUN" \in flags)
    <3>1. t # "cmd" \/ ~Awaits(a) => "RUN" \notin a[3]
      BY <1>2, <1>8, <2>1 DEF Neutral, Awaits
    <3>2. QED
      BY <1>5, <1>6, <2>1, <3>1 DEF Flags
  <2>6. At(t, "wrstat")' => ~Awaits(a)
    <3>1. ~(At(t, "wrstat")' /\ At(t, "poll")')
      BY DEF At
    <3>2. QED
      BY <1>8, <3>1
  <2>7. Agreed'
    <3>1. SUFFICES ASSUME NEW u \in Threads, At(u, "wrstat")'
                   PROVE  "RUN" \in stat'[u] <=> "RUN" \in flags'
      BY DEF Agreed
    <3>2. CASE u = t
      BY <1>5, <1>6, <2>5, <2>6, <3>1, <3>2
    <3>3. CASE u # t
      <4>1. At(u, "wrstat") /\ u = "cmd"
        BY <1>4, <3>1, <3>3
      <4>2. "RUN" \in stat[u] <=> "RUN" \in flags
        BY <4>1 DEF HoldInv, Agreed
      <4>3. QED
        BY <1>5, <2>5, <3>3, <4>1, <4>2
    <3>4. QED
      BY <3>2, <3>3
  <2>8. Stray'
    <3>1. SUFFICES ASSUME NEW u \in Threads, At(u, "wrstat")', "CONT" \in stat'[u],
                          "RUN" \notin stat'[u]
                   PROVE  u # "cmd" /\ At("cmd", "poll")'
      BY DEF Stray
    <3>2. At(u, "wrstat")
      BY <1>4, <3>1
    <3>3. u # "cmd" /\ At("cmd", "poll")
      BY <1>5, <3>1, <3>2 DEF HoldInv, Stray
    <3>4. t # "cmd"
      BY <1>7, <3>3
    <3>5. QED
      BY <1>4, <3>3, <3>4 DEF Threads
  <2>9. Awaited'
    <3>1. SUFFICES ASSUME Leaving' PROVE \E u \in Threads : At(u, "poll")'
      BY DEF Awaited
    <3>2. CASE Awaits(a)
      BY <1>8, <3>2
    <3>3. CASE ~Awaits(a)
      <4>1. "RUN" \notin flags /\ "RUN" \notin stat[t] /\ "CONT" \notin a[2]
        BY <1>2, <1>6, <2>1, <2>5, <3>1, <3>3 DEF Leaving, Awaits
      <4>2. CASE cpu # "HALTLP"
        <5>1. PICK u \in Threads : At(u, "poll")
          BY <4>1, <4>2 DEF HoldInv, Awaited, Leaving
        <5>2. QED
          BY <1>4, <1>7, <5>1
      <4>3. CASE cpu = "HALTLP"
        <5>1. "CONT" \in flags'
          BY <1>2, <3>1, <4>3 DEF Leaving
        <5>2. "CONT" \in stat[t]
          BY <1>5, <4>1, <5>1
        <5>3. t # "cmd" /\ At("cmd", "poll")
          BY <4>1, <5>2 DEF HoldInv, Stray
        <5>4. QED
          BY <1>4, <5>3 DEF Threads
      <4>4. QED
        BY <4>2, <4>3
    <3>4. QED
      BY <3>2, <3>3
  <2>10. QED
    BY <2>4, <2>7, <2>8, <2>9 DEF HoldInv
<1>13. QED
  BY <1>11, <1>12

\* A thread that does something else.
LEMMA HoldAccess ==
    ASSUME FirmTypes, FpgaTypes, HandlerInv, CauseInv, ProgramInv, HoldInv,
           NEW t \in Threads, Access(t), ~At(t, "wrstat")
    PROVE  HoldInv'
<1>1. PICK a : a = Head(prog[t])
  OBVIOUS
<1>2. a[1] # "wrstat" /\ prog[t] # <<>> /\ ~Urgent /\ cpu' = cpu
  BY <1>1, Alone, AccessFrame DEF At
<1>3. \A u \in Threads \ {t} : /\ prog'[u] = prog[u] /\ stat'[u] = stat[u]
                               /\ prog[u] # <<>> => u = "cmd"
  <2>1. \A u \in Threads \ {t} : prog'[u] = prog[u] /\ stat'[u] = stat[u]
    BY AccessFrame
  <2>2. (t # "cons" => prog["cons"] = <<>>) /\ (t # "halt" => prog["halt"] = <<>>)
    BY Alone
  <2>3. QED
    BY <2>1, <2>2 DEF Threads
<1>4. /\ \A u \in Threads \ {t} : At(u, "wrstat")' => At(u, "wrstat") /\ u = "cmd"
      /\ \A u \in Threads \ {t} : At(u, "poll") => At(u, "poll")' /\ u = "cmd"
  BY <1>3 DEF At
<1>5. /\ flags' = flags
      /\ a[1] = "rdstat" => stat'[t] = flags
      /\ a[1] = "poll" => halt
  BY <1>1, <1>2, StatusAccess
<1>6. At(t, "wrstat")' => a[1] = "rdstat"
  BY <1>1, <1>2, ProgramAccess
<1>7. Leaving => \E u \in Threads \ {t} : At(u, "poll")
  <2>1. SUFFICES ASSUME Leaving PROVE \E u \in Threads \ {t} : At(u, "poll")
    OBVIOUS
  <2>2. PICK u \in Threads : At(u, "poll")
    BY <2>1 DEF HoldInv, Awaited
  <2>3. ~At(t, "poll")
    <3>1. SUFFICES ASSUME At(t, "poll") PROVE FALSE
      OBVIOUS
    <3>2. cpu = "HALTLP"
      BY <1>1, <1>5, <3>1 DEF At, CauseInv, HaltLoop
    <3>3. QED
      BY <1>2, <2>1, <3>2 DEF Leaving, Urgent
  <2>4. QED
    BY <2>2, <2>3
<1>8. RunKnown'
  <2>1. "RUN" \in flags => cpu \in {"INSTR", "XCT"}
    BY <1>2 DEF HoldInv, RunKnown, Urgent
  <2>2. QED
    BY <1>2, <1>5, <2>1 DEF RunKnown
<1>9. Awaited'
  <2>1. Leaving' => Leaving
    BY <1>2, <1>5 DEF Leaving
  <2>2. QED
    BY <1>4, <1>7, <2>1 DEF Awaited
<1>10. Agreed'
  <2>1. SUFFICES ASSUME NEW u \in Threads, At(u, "wrstat")'
                 PROVE  "RUN" \in stat'[u] <=> "RUN" \in flags'
    BY DEF Agreed
  <2>2. CASE u = t
    BY <1>5, <1>6, <2>1, <2>2
  <2>3. CASE u # t
    BY <1>3, <1>4, <1>5, <2>1, <2>3 DEF HoldInv, Agreed
  <2>4. QED
    BY <2>2, <2>3
<1>11. Stray'
  <2>1. SUFFICES ASSUME NEW u \in Threads, At(u, "wrstat")', "CONT" \in stat'[u],
                        "RUN" \notin stat'[u]
                 PROVE  u # "cmd" /\ At("cmd", "poll")'
    BY DEF Stray
  <2>2. CASE u = t
    <3>1. "CONT" \in flags /\ "RUN" \notin flags
      BY <1>5, <1>6, <2>1, <2>2
    <3>2. PICK v \in Threads \ {t} : At(v, "poll")
      BY <1>7, <3>1 DEF Leaving
    <3>3. v = "cmd" /\ At(v, "poll")'
      BY <1>4, <3>2
    <3>4. QED
      BY <2>2, <3>2, <3>3
  <2>3. CASE u # t
    <3>1. At(u, "wrstat") /\ u = "cmd" /\ stat'[u] = stat[u]
      BY <1>3, <1>4, <2>1, <2>3
    <3>2. QED
      BY <2>1, <3>1 DEF HoldInv, Stray
  <2>4. QED
    BY <2>2, <2>3
<1>12. QED
  BY <1>8, <1>9, <1>10, <1>11 DEF HoldInv

\* The interrupts, the operator and the KS10.
LEMMA HoldOthers ==
    ASSUME Commands \cap {"SI", "EX"} = {}, "^C" \notin Keys, "HALT" \notin Program,
           FirmTypes, FpgaTypes, ProgramInv, HoldInv,
           consIntr \/ haltIntr \/ startNext \/ Operator \/ Cpu \/ UNCHANGED vars
    PROVE  HoldInv'
<1>1. stat' = stat
  BY DEF consIntr, haltIntr, startNext, Operator, typeLine, typeCtrlC, typeCtrlS, typeCtrlQ,
         SameForCon, Cpu, cpuInstr, cpuXct, cpuHalted, cpuSetHalt, cpuUnhalt, SetHalt, vars,
         firmVars
<1>2. /\ \A u \in Threads : At(u, "wrstat")' => At(u, "wrstat")
      /\ \A u \in Threads : At(u, "poll") => At(u, "poll")'
  <2>1. \A u \in Threads : prog'[u] = prog[u] \/ (prog[u] = <<>> /\ ~At(u, "wrstat")')
    BY ProgramOthers
  <2>2. QED
    BY <2>1 DEF At
<1>3. ASSUME "RUN" \in flags' <=> "RUN" \in flags
      PROVE  Agreed' /\ Stray'
  <2>1. Agreed'
    BY <1>1, <1>2, <1>3 DEF HoldInv, Agreed
  <2>2. Stray'
    <3>1. SUFFICES ASSUME NEW u \in Threads, At(u, "wrstat")', "CONT" \in stat'[u],
                          "RUN" \notin stat'[u]
                   PROVE  u # "cmd" /\ At("cmd", "poll")'
      BY DEF Stray
    <3>2. u # "cmd" /\ At("cmd", "poll")
      BY <1>1, <1>2, <3>1 DEF HoldInv, Stray
    <3>3. QED
      BY <1>2, <3>2 DEF Threads
  <2>3. QED
    BY <2>1, <2>2
<1>4. ASSUME Leaving' => Leaving
      PROVE  Awaited'
  BY <1>2, <1>4 DEF HoldInv, Awaited
<1>5. CASE consIntr \/ haltIntr \/ startNext \/ Operator
  <2>1. ~Urgent /\ UNCHANGED <<flags, cpu>>
    BY <1>5 DEF consIntr, haltIntr, startNext, Operator, typeLine, typeCtrlC, typeCtrlS,
                typeCtrlQ, ConsoleRuns, SameForCon, cpuVars
  <2>2. RunKnown' /\ (Leaving' => Leaving)
    BY <2>1 DEF HoldInv, RunKnown, Leaving, Urgent
  <2>3. QED
    BY <1>3, <1>4, <2>1, <2>2 DEF HoldInv
<1>6. CASE Cpu
  <2>1. cmd' = cmd
    BY <1>6 DEF Cpu, cpuInstr, cpuXct, cpuHalted, cpuSetHalt, cpuUnhalt, SetHalt, firmVars
  <2>2. CASE cpuInstr \/ cpuXct
    <3>1. flags' = flags /\ cpu \in {"INSTR", "XCT"}
      BY <2>2 DEF cpuInstr, cpuXct
    <3>2. IF "RUN" \in flags THEN cpu' = "INSTR" ELSE cpu' = "HALTING"
      BY <2>2 DEF cpuInstr, cpuXct, Nicond
    <3>3. RunKnown' /\ (Leaving' => Leaving)
      BY <3>1, <3>2 DEF RunKnown, Leaving
    <3>4. QED
      BY <1>3, <1>4, <3>1, <3>3 DEF HoldInv
  <2>3. CASE cpuHalted
    <3>1. flags' = flags /\ cpu = "HALTING" /\ cpu' = "H1"
      BY <2>3 DEF cpuHalted
    <3>2. RunKnown' /\ (Leaving' => Leaving)
      BY <3>1 DEF HoldInv, RunKnown, Leaving
    <3>3. QED
      BY <1>3, <1>4, <3>1, <3>2 DEF HoldInv
  <2>4. CASE cpuSetHalt
    <3>1. flags' = flags \ {"RUN", "EXEC", "CONT"} /\ cpu = "H1" /\ cpu' = "HALTLP"
      BY <2>4 DEF cpuSetHalt, SetHalt
    <3>2. "RUN" \notin flags
      BY <3>1 DEF HoldInv, RunKnown
    <3>3. RunKnown' /\ ~Leaving' /\ "RUN" \notin flags'
      BY <3>1 DEF RunKnown, Leaving
    <3>4. QED
      BY <1>3, <1>4, <3>2, <3>3 DEF HoldInv
  <2>5. CASE cpuUnhalt
    <3>1. flags' = flags \ {"CONT", "EXEC"} /\ "CONT" \in flags /\ cpu' \in {"INSTR", "XCT"}
      BY <2>5 DEF cpuUnhalt, Urgent
    <3>2. RunKnown' /\ (Leaving' => Leaving)
      BY <3>1 DEF RunKnown, Leaving
    <3>3. QED
      BY <1>3, <1>4, <3>1, <3>2 DEF HoldInv
  <2>6. QED
    BY <1>6, <2>2, <2>3, <2>4, <2>5 DEF Cpu
<1>7. CASE UNCHANGED vars
  <2>1. UNCHANGED <<flags, cpu, cmd>>
    BY <1>7 DEF vars, cpuVars, firmVars
  <2>2. RunKnown' /\ (Leaving' => Leaving)
    BY <2>1 DEF HoldInv, RunKnown, Leaving
  <2>3. QED
    BY <1>3, <1>4, <2>1, <2>2 DEF HoldInv
<1>8. QED
  BY <1>5, <1>6, <1>7

\* A halt holds: if the program of the KS10 executes no HALT, and the operator
\* neither single-steps it, nor gives it an instruction to execute, nor
\* abandons a command, then it leaves the halt loop with RUN set only for CO
\* and ST.  The counterexample to the same statement for all programs, a HALT
\* between the read of the status register and the write of it, needs a KS10
\* that halts of its own accord, when nobody waits for it.
THEOREM HaltHoldsAwaited ==
    ASSUME Commands \cap {"SI", "EX"} = {}, "^C" \notin Keys, "HALT" \notin Program
    PROVE  Spec => HaltHolds
<1>1. Init => ProgramInv /\ HoldInv
  <2>1. SUFFICES ASSUME Init PROVE ProgramInv /\ HoldInv
    OBVIOUS
  <2>2. \A t \in Threads : prog[t] = <<>>
    BY <2>1 DEF Init
  <2>3. ProgramInv
    <3>1. \A S : <<>> \in Seq(S)
      OBVIOUS
    <3>2. Ordered(<<>>)
      BY DEF Ordered
    <3>3. QED
      BY <2>2, <3>1, <3>2 DEF ProgramInv, Threads
  <2>4. HoldInv
    BY <2>1, <2>2 DEF Init, HoldInv, RunKnown, Awaited, Leaving, Agreed, Stray, At
  <2>5. QED
    BY <2>3, <2>4
<1>2. TypeInv /\ HandlerInv /\ CauseInv /\ ProgramInv /\ HoldInv /\ [Next]_vars
        => ProgramInv' /\ HoldInv'
  <2>1. SUFFICES ASSUME FirmTypes, FpgaTypes, HandlerInv, CauseInv, ProgramInv, HoldInv,
                        [Next]_vars
                 PROVE  ProgramInv' /\ HoldInv'
    BY DEF TypeInv
  <2>2. CASE \E t \in Threads : Access(t)
    <3>1. PICK t \in Threads : Access(t)
      BY <2>2
    <3>2. ProgramInv'
      BY <2>1, <3>1, ProgramAccess
    <3>3. HoldInv'
      BY <2>1, <3>1, HoldWrite, HoldAccess
    <3>4. QED
      BY <3>2, <3>3
  <2>3. CASE consIntr \/ haltIntr \/ startNext \/ Operator \/ Cpu \/ UNCHANGED vars
    BY <2>1, <2>3, ProgramOthers, HoldOthers
  <2>4. QED
    BY <2>1, <2>2, <2>3 DEF Next, Firmware
<1>3. TypeInv /\ HandlerInv /\ CauseInv /\ HoldInv /\ [Next]_vars
        => (cpu = "HALTLP" /\ cpu' # "HALTLP" => ("RUN" \in flags => cmd \in {"CO", "ST"}))
  BY DEF HoldInv, RunKnown
<1>4. QED
  BY <1>1, <1>2, <1>3, CauseInvariant, PTL DEF Spec, HaltHolds

-----------------------------------------------------------------------------
(* The types, as the component states them.                              *)

\* Every register and every variable of the firmware keeps a value that the
\* code gives it, for all commands, keys and programs.
THEOREM TypeCorrect == Spec => []TypeOK
<1>1. regADDR \in Addrs => regADDR \in Words \X {"rd", "wr"}
  BY DEF Addrs, Written, Words
<1>2. TypeInv => TypeOK
  BY <1>1, Zenon DEF TypeInv, TypeOK, FirmTypes, FpgaTypes
<1>3. QED
  BY <1>2, TypeInvariant, PTL
=============================================================================
