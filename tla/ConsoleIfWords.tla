--------------------------- MODULE ConsoleIfWords ---------------------------
(***************************************************************************)
(* Proofs about ConsoleIf: the words of memory that the KS10 and the       *)
(* console share, under the interleaving of the command task with the two  *)
(* interrupt handlers over one address register, one data register and one *)
(* instruction register. First the two words through which they pass       *)
(* characters; then the word that the console borrows: to learn where the  *)
(* halt status block is, the firmware makes the KS10 execute RDHSB, which  *)
(* stores the address in a word of memory; the firmware saves that word    *)
(* before and restores it after. Two threads do so, the handler of the     *)
(* halt interrupt and the command RD HSB.                                  *)
(***************************************************************************)
EXTENDS ConsoleIfProofs

-----------------------------------------------------------------------------
(* The character that the KS10 sends.  As long as nobody types to the      *)
(* program of the KS10, the character is nowhere but in the output word    *)
(* and, from the fourth access of its handler on, in what that has read.   *)

Sent     == GetPc \in {10, 11} /\ mem["CTYOUT"] = "char" => consPend
Fetching == /\ GetPc \in {4, 5} /\ mem["CTYOUT"] = "char" => consPend \/ regDATA = "char"
            /\ GetPc = 5 => val["cons"] = regDATA
Fetched  == GetPc \in 6 .. 10 => val["cons"] = "char"

OneWord   == \A w \in Words \ {"CTYOUT"} : mem[w] # "char"
OneReader == regDATA = "char" => GetPc \in 4 .. 7
NotOthers == \A t \in {"cmd", "halt"} : val[t] # "char" /\ saved[t] # "char"

\* What the command task still has to do does not write a character.
Silent    == {a \in Accs : (a[1] = "data" => a[2] # "char") /\ a[1] # "report"}
CmdSilent == prog["cmd"] \in Seq(Silent)

OutInv == Sent /\ Fetching /\ Fetched /\ OneWord /\ OneReader /\ NotOthers /\ CmdSilent

LEMMA SilentSeq ==
    ASSUME NEW p \in Seq(Accs), \A i \in 1 .. Len(p) : p[i] \in Silent
    PROVE  p \in Seq(Silent)
BY SeqDef

LEMMA SilentPrograms ==
    ASSUME NEW c
    PROVE  CommandProgram(c) \in Seq(Silent) /\ ConsoleOutput \in Seq(Silent)
<1>1. /\ <<"poll">> \in Silent /\ <<"rdstat">> \in Silent /\ <<"rddata">> \in Silent
      /\ <<"ifhalt">> \in Silent /\ <<"output">> \in Silent
  BY DEF Silent, Accs, Tests
<1>2. /\ <<"cir", "JRST">> \in Silent /\ <<"cir", "ANY">> \in Silent
      /\ <<"addr", "X", "rd">> \in Silent
  BY DEF Silent, Accs, Words
<1>3. <<"running", TRUE>> \in Silent /\ <<"running", FALSE>> \in Silent
  <2>1. ASSUME NEW b \in BOOLEAN
        PROVE  <<"running", b>> \in Silent
    BY SwitchTypes DEF Silent
  <2>2. QED
    BY <2>1
<1>4. ASSUME NEW s \in SUBSET StatusBits, NEW k \in SUBSET StatusBits
      PROVE  Modify(s, k) \in Seq(Silent)
  <2>1. <<"wrstat", s, k>> \in Silent
    BY StatusTypes DEF Silent
  <2>2. QED
    BY <1>1, <2>1 DEF Modify
<1>5. /\ Modify({}, {"RUN"}) \in Seq(Silent) /\ Modify({"CONT"}, {}) \in Seq(Silent)
      /\ Modify({"RUN", "CONT"}, {}) \in Seq(Silent)
      /\ Modify({"CONT", "EXEC"}, {}) \in Seq(Silent)
      /\ Modify({"RUN", "CONT", "EXEC"}, {}) \in Seq(Silent) /\ Modify({}, {}) \in Seq(Silent)
      /\ Modify({"GO"}, {}) \in Seq(Silent)
  BY <1>4 DEF StatusBits, Flags
<1>6. ReadMem("X") \in Seq(Silent) /\ ConsoleOutput \in Seq(Silent)
  BY <1>1, <1>2, <1>3, <1>5 DEF ReadMem, GoBit, ConsoleOutput
<1>7. ExecuteAndGetData("RDHSB") \in Seq(Silent)
  <2>1. PICK p : p = ExecuteAndGetData("RDHSB")
    OBVIOUS
  <2>2. p \in Seq(Accs) /\ Len(p) = 19
    BY <2>1, ExecuteAccesses
  <2>3. ASSUME NEW i \in 1 .. 19
        PROVE  p[i][1] # "report" /\ (p[i][1] = "data" => p[i][2] # "char")
    <3>1. /\ p[1][1] = "addr" /\ p[2][1] = "rdstat" /\ p[3][1] = "wrstat" /\ p[4][1] = "rddata"
          /\ p[5][1] = "save" /\ p[6][1] = "dispatch" /\ p[7][1] = "cir" /\ p[8][1] = "rdstat"
          /\ p[9][1] = "wrstat" /\ p[10][1] = "poll" /\ p[11][1] = "dispatch"
          /\ p[12][1] = "addr" /\ p[13][1] = "rdstat" /\ p[14][1] = "wrstat"
          /\ p[15][1] = "rddata" /\ p[16][1] = "addr" /\ p[17][1] = "data"
          /\ p[17][2] = "saved" /\ p[18][1] = "rdstat" /\ p[19][1] = "wrstat"
      <4>1. /\ p[1] = <<"addr", "TMP", "rd">> /\ p[2] = <<"rdstat">>
            /\ p[3] = <<"wrstat", {"GO"}, {}>> /\ p[4] = <<"rddata">> /\ p[5] = <<"save">>
            /\ p[6] = DispatchOff /\ p[7] = <<"cir", "RDHSB">> /\ p[8] = <<"rdstat">>
            /\ p[9] = <<"wrstat", {"CONT", "EXEC"}, {}>> /\ p[10] = <<"poll">>
            /\ p[11] = DispatchOn /\ p[12] = <<"addr", "TMP", "rd">> /\ p[13] = <<"rdstat">>
            /\ p[14] = <<"wrstat", {"GO"}, {}>> /\ p[15] = <<"rddata">>
            /\ p[16] = <<"addr", "TMP", "wr">> /\ p[17] = <<"data", "saved">>
            /\ p[18] = <<"rdstat">> /\ p[19] = <<"wrstat", {"GO"}, {}>>
        BY <2>1, ExecuteAccesses, Zenon
      <4>2. QED
        BY <4>1, DispatchParts
    <3>2. CASE i \in 1 .. 9
      BY <3>1, <3>2
    <3>3. CASE i \in 10 .. 19
      BY <3>1, <3>3
    <3>4. QED
      BY <3>2, <3>3
  <2>4. ASSUME NEW i \in 1 .. 19
        PROVE  p[i] \in Silent
    <3>1. p[i] \in Accs
      BY <2>2, ElementOfSeq
    <3>2. QED
      BY <2>3, <3>1 DEF Silent
  <2>5. QED
    BY <2>1, <2>2, <2>4, SilentSeq
<1>8. CASE c = "HA"
  BY <1>1, <1>5, <1>6, <1>8 DEF CommandProgram, UntilHalt
<1>9. CASE c = "SI" \/ c = "CO"
  BY <1>5, <1>6, <1>9 DEF CommandProgram
<1>10. CASE c = "ST" \/ c = "EX"
  BY <1>2, <1>5, <1>6, <1>10 DEF CommandProgram, Execute
<1>11. CASE c = "EM"
  BY <1>5, <1>6, <1>11 DEF CommandProgram, NxmNxd
<1>12. CASE c \notin {"HA", "SI", "CO", "ST", "EX", "EM"}
  BY <1>1, <1>6, <1>7, <1>12 DEF CommandProgram
<1>13. QED
  BY <1>8, <1>9, <1>10, <1>11, <1>12

\* What the command task writes and keeps is not the character.
LEMMA CmdClean ==
    ASSUME FirmTypes, FpgaTypes, CmdSilent, Access("cmd"), regDATA # "char",
           \A w \in Words : mem[w] # "char", val["cmd"] # "char", saved["cmd"] # "char"
    PROVE  /\ regDATA' # "char" /\ val'["cmd"] # "char" /\ saved'["cmd"] # "char"
           /\ \A w \in Words : mem'[w] # "char"
<1>1. Head(prog["cmd"]) \in Silent
  BY ByName DEF CmdSilent
<1>2. CASE accData("cmd")
  <2>1. Arg("cmd", 1) # "char"
    BY <1>1, <1>2 DEF accData, Doing, Arg, Silent
  <2>2. QED
    BY <1>2, <2>1 DEF accData, SameLocals
<1>3. CASE accRdData("cmd")
  BY <1>3 DEF accRdData, SameFpga, regVars, FirmTypes, Threads
<1>4. CASE accWrStat("cmd")
  <2>1. ASSUME NEW go \in BOOLEAN, BusCycle(go)
        PROVE  regDATA' # "char" /\ \A w \in Words : mem'[w] # "char"
    <3>1. regADDR[1] \in Words /\ mem \in [Words -> Values]
      BY DEF FpgaTypes, Addrs, Written, Words
    <3>2. QED
      BY <2>1, <3>1 DEF BusCycle
  <2>2. ("GO" \in Arg("cmd", 1)) \in BOOLEAN
    OBVIOUS
  <2>3. QED
    BY <1>4, <2>1, <2>2 DEF accWrStat, SameLocals
<1>5. CASE accSave("cmd")
  BY <1>5 DEF accSave, SameFpga, regVars, FirmTypes, Threads
<1>6. CASE ~(accData("cmd") \/ accRdData("cmd") \/ accWrStat("cmd") \/ accSave("cmd"))
  <2>1. UNCHANGED <<val, saved, regDATA, mem>>
    BY <1>6 DEF Access, accAddr, accCir, accRdStat, accPoll, accIfHalt, accIfChar, Test,
           accIfNone, accReport, accReturn, accDispatch, accRunning, accOutput,
           SameLocals, SameFpga, regVars
  <2>2. QED
    BY <2>1
<1>7. QED
  BY <1>2, <1>3, <1>4, <1>5, <1>6

\* Its program stays silent, as nobody types.
LEMMA CmdStaysSilent ==
    ASSUME ~Typed, FirmTypes, CmdSilent, Access("cmd")
    PROVE  CmdSilent'
<1>1. Head(prog["cmd"]) \in Silent /\ Tail(prog["cmd"]) \in Seq(Silent) /\ <<>> \in Seq(Silent)
  BY ByName DEF CmdSilent
<1>2. ASSUME NEW p, Goes("cmd", p), p \in Seq(Silent)
      PROVE  CmdSilent'
  BY <1>2, GoesFrame DEF CmdSilent, Threads
<1>3. ~accReport("cmd")
  BY <1>1 DEF accReport, Doing, Silent
<1>4. ASSUME NEW name, NEW b \in BOOLEAN, Test("cmd", name, b)
      PROVE  CmdSilent'
  BY <1>1, <1>2, <1>4 DEF Test
<1>5. CASE accIfHalt("cmd")
  BY <1>1, <1>2, <1>5 DEF accIfHalt, Test
<1>6. CASE accIfChar("cmd")
  BY <1>4, <1>6 DEF accIfChar
<1>7. CASE accIfNone("cmd")
  <2>1. ConsoleOutput \in Seq(Silent)
    BY SilentPrograms
  <2>2. (IF val["cmd"] = "none" THEN Tail(prog["cmd"]) ELSE ConsoleOutput) \in Seq(Silent)
    BY <1>1, <2>1
  <2>3. QED
    BY <1>2, <1>7, <2>2 DEF accIfNone
<1>8. CASE ~(accReport("cmd") \/ accIfHalt("cmd") \/ accIfChar("cmd") \/ accIfNone("cmd"))
  <2>1. Advance("cmd")
    BY <1>8 DEF Access, accAddr, accData, accCir, accRdStat, accRdData, accWrStat, accPoll,
           accReturn, accSave, accDispatch, accRunning, accOutput
  <2>2. QED
    BY <1>1, <1>2, <2>1 DEF Advance
<1>9. QED
  BY <1>3, <1>5, <1>6, <1>7, <1>8

\* An access of the command task: no handler runs and no interrupt is pending,
\* so that the output word is empty.
LEMMA OutCmd ==
    ASSUME ~Typed, FirmTypes, FpgaTypes, HandlerInv, OutInv, Access("cmd")
    PROVE  OutInv' /\ mem["CTYOUT"] # "char"
<1>1. /\ prog["cons"] = <<>> /\ prog'["cons"] = <<>> /\ ~consPend
      /\ prog["halt"] = <<>> /\ prog'["halt"] = <<>>
  BY Alone DEF Threads
<1>2. GetPc = 11 /\ GetPc' = 11
  BY <1>1, NoHandler
<1>3. \A w \in Words : mem[w] # "char"
  BY <1>1, <1>2 DEF OutInv, Sent, OneWord
<1>4. regDATA # "char" /\ val["cmd"] # "char" /\ saved["cmd"] # "char" /\ CmdSilent
  BY <1>2 DEF OutInv, OneReader, NotOthers
<1>5. /\ regDATA' # "char" /\ val'["cmd"] # "char" /\ saved'["cmd"] # "char"
      /\ \A w \in Words : mem'[w] # "char"
  BY <1>3, <1>4, CmdClean
<1>6. val'["halt"] = val["halt"] /\ saved'["halt"] = saved["halt"]
  BY AccessFrame DEF Threads
<1>7. CmdSilent'
  BY <1>4, CmdStaysSilent
<1>8. Sent' /\ Fetching' /\ Fetched' /\ OneWord' /\ OneReader'
  BY <1>2, <1>5 DEF Sent, Fetching, Fetched, OneWord, OneReader, Words
<1>9. NotOthers'
  BY <1>5, <1>6 DEF OutInv, NotOthers
<1>10. QED
  BY <1>3, <1>7, <1>8, <1>9 DEF OutInv, Words

\* The same, by what is written.
LEMMA CharEffects ==
    ASSUME NEW n \in 1 .. 10, CharDoes(n)
    PROVE  /\ n \notin {3, 7, 9} => regDATA' = regDATA
           /\ n \notin {3, 9} => mem' = mem
           /\ n # 4 => val' = val
           /\ n \in {3, 9} => BusGo
           /\ n = 4 => val'["cons"] = regDATA
           /\ n = 7 => regDATA' = "none"
BY DEF CharDoes

\* An access of the handler of the console interrupt.
LEMMA OutChar ==
    ASSUME FirmTypes, FpgaTypes, HandlerInv, OutInv, Access("cons")
    PROVE  /\ OutInv'
           /\ mem["CTYOUT"] = "char" /\ mem'["CTYOUT"] = "none" => val["cons"] = "char"
<1>1. prog["cons"] # <<>>
  BY Alone DEF Threads
<1>2. PICK n \in 1 .. 10 : n = GetPc /\ prog["cons"] = From(GetChar, n)
  BY <1>1, Places DEF HandlerInv, InChar
<1>3. CharDoes(n)
  BY <1>2, CharStep
<1>4. /\ val'["cmd"] = val["cmd"] /\ saved'["cmd"] = saved["cmd"]
      /\ val'["halt"] = val["halt"] /\ saved'["halt"] = saved["halt"]
      /\ prog'["cmd"] = prog["cmd"] /\ consPend' = consPend
  BY AccessFrame DEF Threads
<1>5. NotOthers' /\ CmdSilent'
  BY <1>4 DEF OutInv, NotOthers, CmdSilent
<1>6. CASE prog'["cons"] = From(GetChar, n + 1)
  <2>1. GetPc' = n + 1
    <3>1. n + 1 \in 1 .. 11
      OBVIOUS
    <3>2. QED
      BY <1>6, <3>1, CharPlace
  <2>2. CASE n = 3
    <3>1. regADDR = <<"CTYOUT", "rd">>
      BY <1>2, <2>2 DEF HandlerInv, CharRegs
    <3>2. regDATA' = mem["CTYOUT"] /\ mem' = mem
      BY <1>3, <2>2, <3>1, CharEffects DEF BusGo, BusCycle
    <3>3. QED
      BY <1>2, <1>5, <2>1, <2>2, <3>2 DEF OutInv, Sent, Fetching, Fetched, OneWord, OneReader
  <2>3. CASE n = 9
    <3>1. regADDR = <<"CTYOUT", "wr">> /\ regDATA = "none"
      BY <1>2, <2>3 DEF HandlerInv, CharRegs
    <3>2. regDATA' = regDATA /\ mem' = [mem EXCEPT !["CTYOUT"] = "none"]
      BY <1>3, <2>3, <3>1, CharEffects DEF BusGo, BusCycle
    <3>3. mem'["CTYOUT"] = "none" /\ \A w \in Words \ {"CTYOUT"} : mem'[w] = mem[w]
      BY <3>2 DEF FpgaTypes, Words
    <3>4. val' = val
      BY <1>3, <2>3, CharEffects
    <3>5. QED
      BY <1>2, <1>5, <2>1, <2>3, <3>1, <3>2, <3>3, <3>4
         DEF OutInv, Sent, Fetching, Fetched, OneWord, OneReader
  <2>4. CASE n \notin {3, 9}
    <3>1. mem' = mem
      BY <1>3, <2>4, CharEffects
    <3>2. (n # 7 => regDATA' = regDATA) /\ (n = 7 => regDATA' = "none")
      BY <1>3, <2>4, CharEffects
    <3>3. (n # 4 /\ val' = val) \/ (n = 4 /\ val'["cons"] = regDATA)
      BY <1>3, CharEffects
    <3>4. n = 5 => val["cons"] = "char"
      <4>1. n = 5 => prog'["cons"] = IF val["cons"] = "char" THEN From(GetChar, n + 1) ELSE <<>>
        BY <1>3 DEF CharDoes
      <4>2. n = 5 => prog'["cons"] # <<>>
        BY <2>1, NoHandler
      <4>3. QED
        BY <4>1, <4>2
    <3>5. OneWord' /\ OneReader'
      BY <1>2, <2>1, <2>4, <3>1, <3>2, <3>4 DEF OutInv, OneWord, OneReader
    <3>6. Sent' /\ Fetching' /\ Fetched'
      BY <1>2, <1>4, <2>1, <2>4, <3>1, <3>2, <3>3, <3>4 DEF OutInv, Sent, Fetching, Fetched
    <3>7. QED
      BY <1>5, <3>1, <3>5, <3>6 DEF OutInv
  <2>5. QED
    BY <2>2, <2>3, <2>4
<1>7. CASE prog'["cons"] = <<>> /\ n = 5 /\ val["cons"] # "char"
  <2>1. GetPc' = 11
    BY <1>7, NoHandler
  <2>2. mem' = mem /\ regDATA' = regDATA
    BY <1>3, <1>7, CharEffects
  <2>3. regDATA # "char"
    BY <1>2, <1>7 DEF OutInv, Fetching
  <2>4. Sent' /\ Fetching' /\ Fetched'
    BY <1>2, <1>4, <1>7, <2>1, <2>2, <2>3 DEF OutInv, Sent, Fetching, Fetched
  <2>5. OneWord' /\ OneReader'
    BY <2>2, <2>3 DEF OutInv, OneWord, OneReader
  <2>6. QED
    BY <1>5, <2>2, <2>4, <2>5 DEF OutInv
<1>8. QED
  BY <1>3, <1>6, <1>7 DEF CharDoes

\* An access of the handler of the halt interrupt: it reads and writes other
\* words than the output word.
LEMMA OutHalt ==
    ASSUME FirmTypes, FpgaTypes, HandlerInv, OutInv, Access("halt")
    PROVE  OutInv' /\ mem'["CTYOUT"] = mem["CTYOUT"]
<1>1. /\ prog["halt"] # <<>> /\ prog["cons"] = <<>> /\ prog'["cons"] = <<>>
  BY Alone DEF Threads
<1>2. GetPc = 11 /\ GetPc' = 11
  BY <1>1, NoHandler
<1>3. /\ val'["cmd"] = val["cmd"] /\ saved'["cmd"] = saved["cmd"]
      /\ prog'["cmd"] = prog["cmd"] /\ consPend' = consPend
  BY AccessFrame DEF Threads
<1>4. /\ regDATA # "char" /\ val["halt"] # "char" /\ saved["halt"] # "char"
      /\ \A w \in Words \ {"CTYOUT"} : mem[w] # "char"
  BY <1>2 DEF OutInv, OneReader, NotOthers, OneWord
<1>5. SUFFICES /\ regDATA' # "char" /\ val'["halt"] # "char" /\ saved'["halt"] # "char"
               /\ mem'["CTYOUT"] = mem["CTYOUT"]
               /\ \A w \in Words \ {"CTYOUT"} : mem'[w] # "char"
  <2>1. ASSUME regDATA' # "char", val'["halt"] # "char", saved'["halt"] # "char",
               mem'["CTYOUT"] = mem["CTYOUT"],
               \A w \in Words \ {"CTYOUT"} : mem'[w] # "char"
        PROVE  OutInv'
    <3>1. NotOthers' /\ CmdSilent'
      BY <1>3, <2>1 DEF OutInv, NotOthers, CmdSilent
    <3>2. Sent' /\ Fetching' /\ Fetched'
      BY <1>2, <1>3, <2>1 DEF OutInv, Sent, Fetching, Fetched
    <3>3. OneWord' /\ OneReader'
      BY <2>1 DEF OneWord, OneReader
    <3>4. QED
      BY <3>1, <3>2, <3>3 DEF OutInv
  <2>2. QED
    BY <2>1
<1>6. CASE InStatus
  <2>1. PICK n \in 1 .. 29 : n = HaltPc /\ prog["halt"] = From(HaltStatus, n)
    <3>1. HaltPc \in 1 .. 30 /\ prog["halt"] = From(HaltStatus, HaltPc)
      BY <1>6 DEF HandlerInv, InHalt
    <3>2. HaltPc # 30
      BY <1>1, <3>1, Places, Zenon
    <3>3. HaltPc \in 1 .. 29
      BY <3>1, <3>2
    <3>4. QED
      BY <3>1, <3>3
  <2>2. HaltDoes(n)
    BY <2>1, HaltStep
  <2>3. val'["halt"] # "char" /\ saved'["halt"] # "char"
    BY <1>4, <2>2, StatusEffects DEF HaltDoes
  <2>4. CASE n \in GoAt
    <3>1. regADDR[1] \in Words \ {"CTYOUT"}
      <4>1. n \in 2 .. 28
        BY <2>4 DEF GoAt
      <4>2. regADDR = HaltAddr(n)
        BY <1>6, <2>1, <4>1 DEF HandlerInv, HaltRegs
      <4>3. QED
        BY <4>1, <4>2 DEF HaltAddr, Words
    <3>2. BusGo
      BY <2>2, <2>4, StatusEffects DEF HaltDoes
    <3>3. mem \in [Words -> Values]
      BY DEF FpgaTypes
    <3>4. CASE regADDR[2] = "rd"
      BY <1>4, <2>3, <3>1, <3>2, <3>4 DEF BusGo, BusCycle
    <3>5. CASE regADDR[2] # "rd"
      BY <1>4, <2>3, <3>1, <3>2, <3>3, <3>5 DEF BusGo, BusCycle, Words
    <3>6. QED
      BY <3>4, <3>5
  <2>5. CASE n \notin GoAt
    <3>1. mem' = mem
      BY <2>2, <2>5, StatusEffects DEF HaltDoes
    <3>2. regDATA' # "char"
      BY <1>4, <2>2, <2>5, StatusEffects DEF HaltDoes
    <3>3. QED
      BY <1>4, <2>3, <3>1, <3>2
  <2>6. QED
    BY <2>4, <2>5
<1>7. CASE prog["halt"] = HaltReport
  <2>1. Head(prog["halt"])[1] = "report"
    BY <1>7 DEF HaltReport
  <2>2. accReport("halt")
    BY <2>1, ByName
  <2>3. UNCHANGED <<val, saved, regDATA, mem>>
    BY <2>2 DEF accReport, SameFpga, regVars
  <2>4. QED
    BY <1>4, <2>3
<1>8. QED
  BY <1>6, <1>7 DEF InStatus

\* The other steps.
LEMMA OutOthers ==
    ASSUME FirmTypes, FpgaTypes, HandlerInv, OutInv,
           consIntr \/ haltIntr \/ startNext \/ Operator \/ Cpu \/ UNCHANGED vars
    PROVE  OutInv' /\ (mem["CTYOUT"] = "char" => mem'["CTYOUT"] = "char")
<1>1. CASE consIntr
  <2>1. prog'["cons"] = GetChar /\ prog'["cmd"] = prog["cmd"]
    BY <1>1 DEF consIntr, FirmTypes, Progs, Threads
  <2>2. GetPc' = 1
    BY <2>1, CharPlace, Places
  <2>3. prog["cons"] = <<>>
    BY <1>1 DEF consIntr, InHandler
  <2>4. GetPc = 11
    BY <2>3, NoHandler
  <2>5. UNCHANGED <<val, saved, regDATA, mem>>
    BY <1>1 DEF consIntr, regVars
  <2>6. QED
    BY <2>1, <2>2, <2>4, <2>5
       DEF OutInv, Sent, Fetching, Fetched, OneWord, OneReader, NotOthers, CmdSilent
<1>2. ASSUME UNCHANGED <<val, saved, regDATA>>, prog'["cons"] = prog["cons"], CmdSilent',
             consPend => consPend',
             \A w \in Words \ {"CTYOUT"} : mem'[w] = "char" => mem[w] = "char",
             mem'["CTYOUT"] = mem["CTYOUT"] \/ (mem'["CTYOUT"] = "char" /\ consPend')
      PROVE  OutInv'
  <2>1. GetPc' = GetPc
    BY <1>2 DEF GetPc
  <2>2. QED
    BY <1>2, <2>1 DEF OutInv, Sent, Fetching, Fetched, OneWord, OneReader, NotOthers
<1>3. CASE haltIntr
  <2>1. prog'["cons"] = prog["cons"] /\ prog'["cmd"] = prog["cmd"]
    BY <1>3 DEF haltIntr, FirmTypes, Progs, Threads
  <2>2. UNCHANGED <<val, saved, regDATA, mem, consPend>>
    BY <1>3 DEF haltIntr, regVars
  <2>3. CmdSilent'
    BY <2>1 DEF OutInv, CmdSilent
  <2>4. QED
    BY <1>2, <2>1, <2>2, <2>3
<1>4. CASE startNext \/ Operator
  <2>1. UNCHANGED <<val, saved, regDATA, mem, consPend>>
    BY <1>4 DEF startNext, Operator, typeLine, typeCtrlC, typeCtrlS, typeCtrlQ, SameForCon,
                regVars, pendVars
  <2>2. prog' = prog \/ \E p \in Seq(Silent) : prog' = [prog EXCEPT !["cmd"] = p]
    <3>1. CASE startNext
      BY <3>1, SilentPrograms DEF startNext, Begin
    <3>2. CASE \E c \in Commands : typeLine(c)
      BY <3>2, SilentPrograms DEF typeLine, Begin
    <3>3. CASE typeCtrlC
      <4>1. <<>> \in Seq(Silent) /\ prog' = [prog EXCEPT !["cmd"] = <<>>]
        BY <3>3 DEF typeCtrlC
      <4>2. QED
        BY <4>1, Zenon
    <3>4. CASE typeCtrlS \/ typeCtrlQ
      BY <3>4 DEF typeCtrlS, typeCtrlQ
    <3>5. QED
      BY <1>4, <3>1, <3>2, <3>3, <3>4 DEF Operator
  <2>3. prog'["cons"] = prog["cons"] /\ CmdSilent'
    BY <2>2 DEF OutInv, CmdSilent, FirmTypes, Progs, Threads
  <2>4. QED
    BY <1>2, <2>1, <2>3
<1>5. CASE Cpu
  <2>1. UNCHANGED <<prog, val, saved, regDATA>>
    BY <1>5 DEF Cpu, cpuInstr, cpuXct, cpuHalted, cpuSetHalt, cpuUnhalt, SetHalt, firmVars,
                regVars
  <2>2. CmdSilent'
    BY <2>1 DEF OutInv, CmdSilent
  <2>3. consPend => consPend'
    BY <1>5 DEF Cpu, cpuInstr, cpuXct, cpuHalted, cpuSetHalt, cpuUnhalt, SetHalt, pendVars
  <2>4. /\ \A w \in Words \ {"CTYOUT"} : mem'[w] = "char" => mem[w] = "char"
        /\ mem'["CTYOUT"] = mem["CTYOUT"] \/ (mem'["CTYOUT"] = "char" /\ consPend')
    <3>1. mem \in [Words -> Values] /\ t1 # "char"
      BY DEF FpgaTypes
    <3>2. CASE cpuInstr
      BY <3>1, <3>2 DEF cpuInstr, Words
    <3>3. CASE cpuXct
      BY <3>1, <3>3 DEF cpuXct, Words
    <3>4. CASE cpuHalted
      BY <3>1, <3>4 DEF cpuHalted, Words
    <3>5. CASE cpuSetHalt \/ cpuUnhalt
      BY <3>5 DEF cpuSetHalt, cpuUnhalt
    <3>6. QED
      BY <1>5, <3>2, <3>3, <3>4, <3>5 DEF Cpu
  <2>5. QED
    BY <1>2, <2>1, <2>2, <2>3, <2>4
<1>6. CASE UNCHANGED vars
  <2>1. UNCHANGED <<prog, val, saved, regDATA, mem, consPend>>
    BY <1>6 DEF vars, firmVars, pendVars, regVars
  <2>2. CmdSilent'
    BY <2>1 DEF OutInv, CmdSilent
  <2>3. QED
    BY <1>2, <2>1, <2>2
<1>7. QED
  BY <1>1, <1>3, <1>4, <1>5, <1>6

LEMMA OutInvariant ==
    ASSUME ~Typed
    PROVE  Spec => [](TypeInv /\ HandlerInv /\ OutInv)
<1>1. Init => OutInv
  <2>1. SUFFICES ASSUME Init PROVE OutInv
    OBVIOUS
  <2>2. prog["cons"] = <<>> /\ prog["cmd"] = <<>>
    BY <2>1 DEF Init, Threads
  <2>3. GetPc = 11
    BY <2>2, NoHandler
  <2>4. CmdSilent
    BY <2>2 DEF CmdSilent
  <2>5. /\ \A w \in Words : mem[w] # "char" /\ regDATA # "char"
        /\ \A t \in Threads : val[t] # "char" /\ saved[t] # "char"
    BY <2>1 DEF Init, Words
  <2>6. QED
    BY <2>3, <2>4, <2>5
       DEF OutInv, Sent, Fetching, Fetched, OneWord, OneReader, NotOthers, Words, Threads
<1>2. TypeInv /\ HandlerInv /\ OutInv /\ [Next]_vars => OutInv'
  <2>1. SUFFICES ASSUME FirmTypes, FpgaTypes, HandlerInv, OutInv, [Next]_vars
                 PROVE  OutInv'
    BY DEF TypeInv
  <2>2. CASE \E t \in Threads : Access(t)
    BY <2>1, <2>2, OutCmd, OutChar, OutHalt DEF Threads
  <2>3. QED
    BY <2>1, <2>2, OutOthers DEF Next, Firmware
<1>3. QED
  BY <1>1, <1>2, HandlerInvariant, PTL DEF Spec

\* A character that the KS10 wants to send is fetched: the interrupt of the
\* console is pending or its handler runs, whatever commands and keys the
\* operator types, as long as he types nothing to the program of the KS10.
THEOREM OutNotifiedAlways ==
    ASSUME ~Typed
    PROVE  Spec => []OutNotified
<1>1. ASSUME TypeInv, HandlerInv, OutInv
      PROVE  OutNotified
  <2>1. prog["cons"] = <<>> => GetPc = 11
    BY NoHandler
  <2>2. QED
    BY <1>1, <2>1 DEF OutNotified, OutInv, Sent
<1>2. QED
  BY <1>1, OutInvariant, PTL

\* Only the handler that has read the character removes it from the output
\* word, under the same assumption.
THEOREM OutFetchedAlways ==
    ASSUME ~Typed
    PROVE  Spec => OutFetched
<1>1. ASSUME TypeInv, HandlerInv, OutInv, [Next]_vars,
             mem["CTYOUT"] = "char", mem'["CTYOUT"] = "none"
      PROVE  prog["cons"] # <<>> /\ val["cons"] = "char"
  <2>1. FirmTypes /\ FpgaTypes
    BY <1>1 DEF TypeInv
  <2>2. Access("cons")
    <3>1. ~Access("cmd")
      BY <1>1, <2>1, OutCmd
    <3>2. ~Access("halt")
      BY <1>1, <2>1, OutHalt
    <3>3. ~(consIntr \/ haltIntr \/ startNext \/ Operator \/ Cpu \/ UNCHANGED vars)
      BY <1>1, <2>1, OutOthers
    <3>4. QED
      BY <1>1, <3>1, <3>2, <3>3 DEF Next, Firmware, Threads
  <2>3. QED
    BY <1>1, <2>1, <2>2, OutChar, Alone DEF Threads
<1>2. TypeInv /\ HandlerInv /\ OutInv /\ [Next]_vars
        => (mem["CTYOUT"] = "char" /\ mem'["CTYOUT"] = "none"
              => prog["cons"] # <<>> /\ val["cons"] = "char")
  BY <1>1
<1>3. QED
  BY <1>2, OutInvariant, PTL DEF Spec, OutFetched

-----------------------------------------------------------------------------
(* The character that the operator types.  The command task writes it and  *)
(* goes straight on to interrupt the KS10; only ^C can stop it on its way. *)

Intr     == <<"wrstat", {"INTR"}, {}>>
Straight == {"addr", "data", "rdstat", "wrstat"}
IsGo(a)  == a[1] = "wrstat" /\ "GO" \in a[2]
IsPut(a) == a[1] = "addr" /\ a[2] = "CTYIN" /\ a[3] = "wr"

\* From its i-th access on, p goes straight on to interrupt the KS10.
SoonFrom(p, i) == \E j \in i .. Len(p) : /\ p[j] = Intr
                                         /\ \A k \in i .. j - 1 : p[k][1] \in Straight
Soon(p) == SoonFrom(p, 1)

\* p starts no bus cycle before it has written the address register.
GoSafe(p) == \A k \in 1 .. Len(p) : IsGo(p[k]) => \E j \in 1 .. k - 1 : p[j][1] = "addr"

\* A program that addresses the input word interrupts the KS10; none that
\* has done so, or only waits for a key, starts a bus cycle.
Follows(p)  == \A i \in 1 .. Len(p) : IsPut(p[i]) => SoonFrom(p, i + 1)
Quiet(p)    == \A i, k \in 1 .. Len(p) :
                  i < k /\ (p[i] = Intr \/ p[i][1] = "output") => ~IsGo(p[k])
NoReport(p) == \A i \in 1 .. Len(p) : p[i][1] # "report"
Decent(p)   == Follows(p) /\ Quiet(p) /\ NoReport(p)

CmdDecent == Decent(prog["cmd"]) /\ (cmd = "none" => prog["cmd"] = <<>>)
Stale     == regADDR = <<"CTYIN", "wr">> => GoSafe(prog["cmd"]) \/ Soon(prog["cmd"])
Notified  == mem["CTYIN"] = "char" => intr \/ Soon(prog["cmd"])

InInv == CmdDecent /\ Stale /\ Notified

LEMMA TailParts ==
    ASSUME NEW p \in Seq(Accs), p # <<>>, NEW q, q = Tail(p)
    PROVE  /\ q \in Seq(Accs) /\ Len(q) \in Nat /\ Len(p) = Len(q) + 1 /\ Head(p) = p[1]
           /\ \A i \in 1 .. Len(q) : q[i] = p[i + 1]
BY HeadTailProperties, LenProperties

LEMMA SoonTail ==
    ASSUME NEW p \in Seq(Accs), p # <<>>, Soon(p), Head(p) # Intr
    PROVE  Soon(Tail(p)) /\ Head(p)[1] \in Straight
<1>1. PICK q : q = Tail(p)
  OBVIOUS
<1>2. /\ q \in Seq(Accs) /\ Len(q) \in Nat /\ Len(p) = Len(q) + 1 /\ Head(p) = p[1]
      /\ \A i \in 1 .. Len(q) : q[i] = p[i + 1]
  BY <1>1, TailParts
<1>3. PICK j \in 1 .. Len(p) : p[j] = Intr /\ \A k \in 1 .. j - 1 : p[k][1] \in Straight
  BY DEF Soon, SoonFrom
<1>4. j # 1
  BY <1>2, <1>3
<1>5. j - 1 \in 1 .. Len(q) /\ q[j - 1] = Intr
  BY <1>2, <1>3, <1>4
<1>6. \A k \in 1 .. (j - 1) - 1 : q[k][1] \in Straight
  BY <1>2, <1>3, <1>4
<1>7. p[1][1] \in Straight
  BY <1>3, <1>4
<1>8. QED
  BY <1>1, <1>2, <1>5, <1>6, <1>7 DEF Soon, SoonFrom

\* Taking a step leaves a decent program.
LEMMA DecentTail ==
    ASSUME NEW p \in Seq(Accs), p # <<>>, Decent(p)
    PROVE  /\ Decent(Tail(p))
           /\ IsPut(Head(p)) => Soon(Tail(p))
           /\ Head(p) = Intr \/ Head(p)[1] = "output" => GoSafe(Tail(p))
           /\ GoSafe(p) /\ Head(p)[1] # "addr" => GoSafe(Tail(p)) /\ ~IsGo(Head(p))
<1>1. PICK q : q = Tail(p)
  OBVIOUS
<1>2. /\ q \in Seq(Accs) /\ Len(q) \in Nat /\ Len(p) = Len(q) + 1 /\ Head(p) = p[1]
      /\ \A i \in 1 .. Len(q) : q[i] = p[i + 1]
  BY <1>1, TailParts
<1>3. ASSUME NEW i \in 1 .. Len(p), SoonFrom(p, i + 1)
      PROVE  SoonFrom(q, i)
  <2>1. PICK j \in i + 1 .. Len(p) : p[j] = Intr /\ \A k \in i + 1 .. j - 1 : p[k][1] \in Straight
    BY <1>3 DEF SoonFrom
  <2>2. j - 1 \in i .. Len(q) /\ q[j - 1] = Intr
    BY <1>2, <2>1
  <2>3. \A k \in i .. (j - 1) - 1 : q[k][1] \in Straight
    BY <1>2, <2>1
  <2>4. QED
    BY <2>2, <2>3 DEF SoonFrom
<1>4. Follows(q)
  <2>1. SUFFICES ASSUME NEW i \in 1 .. Len(q), IsPut(q[i])
                 PROVE  SoonFrom(q, i + 1)
    BY DEF Follows
  <2>2. i + 1 \in 1 .. Len(p) /\ IsPut(p[i + 1])
    BY <1>2, <2>1
  <2>3. QED
    BY <1>3, <2>2 DEF Decent, Follows
<1>5. Quiet(q)
  <2>1. SUFFICES ASSUME NEW i \in 1 .. Len(q), NEW k \in 1 .. Len(q), i < k,
                        q[i] = Intr \/ q[i][1] = "output"
                 PROVE  ~IsGo(q[k])
    BY DEF Quiet
  <2>2. i + 1 \in 1 .. Len(p) /\ k + 1 \in 1 .. Len(p) /\ i + 1 < k + 1
    BY <1>2, <2>1
  <2>3. q[i] = p[i + 1] /\ q[k] = p[k + 1]
    BY <1>2
  <2>4. QED
    BY <2>1, <2>2, <2>3 DEF Decent, Quiet
<1>6. NoReport(q)
  BY <1>2 DEF Decent, NoReport
<1>7. IsPut(Head(p)) => Soon(q)
  <2>1. 1 \in 1 .. Len(p)
    BY <1>2
  <2>2. IsPut(p[1]) => SoonFrom(p, 1 + 1)
    BY <2>1 DEF Decent, Follows
  <2>3. QED
    BY <1>2, <1>3, <2>1, <2>2 DEF Soon
<1>8. Head(p) = Intr \/ Head(p)[1] = "output" => GoSafe(q)
  <2>1. SUFFICES ASSUME p[1] = Intr \/ p[1][1] = "output", NEW k \in 1 .. Len(q)
                 PROVE  ~IsGo(q[k])
    BY <1>2 DEF GoSafe
  <2>2. 1 \in 1 .. Len(p) /\ k + 1 \in 1 .. Len(p) /\ 1 < k + 1 /\ q[k] = p[k + 1]
    BY <1>2
  <2>3. QED
    BY <2>1, <2>2 DEF Decent, Quiet
<1>9. GoSafe(p) /\ Head(p)[1] # "addr" => GoSafe(q) /\ ~IsGo(Head(p))
  <2>1. SUFFICES ASSUME GoSafe(p), p[1][1] # "addr"
                 PROVE  GoSafe(q) /\ ~IsGo(p[1])
    BY <1>2
  <2>2. ~IsGo(p[1])
    BY <1>2, <2>1 DEF GoSafe
  <2>3. ASSUME NEW k \in 1 .. Len(q), IsGo(q[k])
        PROVE  \E j \in 1 .. k - 1 : q[j][1] = "addr"
    <3>1. k + 1 \in 1 .. Len(p) /\ IsGo(p[k + 1])
      BY <1>2, <2>3
    <3>2. PICK j \in 1 .. (k + 1) - 1 : p[j][1] = "addr"
      BY <2>1, <3>1 DEF GoSafe
    <3>3. j - 1 \in 1 .. k - 1 /\ q[j - 1] = p[j]
      BY <1>2, <2>1, <3>2
    <3>4. QED
      BY <3>2, <3>3
  <2>4. QED
    BY <2>2, <2>3 DEF GoSafe
<1>10. QED
  BY <1>1, <1>4, <1>5, <1>6, <1>7, <1>8, <1>9 DEF Decent

LEMMA PutCharAccesses ==
    /\ Len(PutChar) = 12
    /\ PutChar[1] = <<"addr", "CTYIN", "rd">> /\ PutChar[6] = <<"addr", "CTYIN", "wr">>
    /\ PutChar[2] = <<"rdstat">> /\ PutChar[8] = <<"rdstat">> /\ PutChar[10] = <<"rdstat">>
    /\ PutChar[3] = <<"wrstat", {"GO"}, {}>> /\ PutChar[9] = <<"wrstat", {"GO"}, {}>>
    /\ PutChar[4] = <<"rddata">> /\ PutChar[5] = <<"ifnone">>
    /\ PutChar[7] = <<"data", "char">>
    /\ PutChar[11] = Intr /\ PutChar[12] = <<"wrstat", {}, {}>>
BY DEF PutChar, ReadMem, WriteMem, GoBit, Modify, CpuIntr, Intr

\* putchar addresses the input word at its sixth access and interrupts the
\* KS10 at its eleventh.
PutKinds(a) ==
    /\ Len(a) = 12
    /\ \A i \in 1 .. 12 : /\ a[i][1] \notin {"output", "report"}
                          /\ IsPut(a[i]) => i = 6
                          /\ a[i] = Intr <=> i = 11
    /\ \A i \in 7 .. 10 : a[i][1] \in Straight
    /\ a[1][1] = "addr" /\ ~IsGo(a[1]) /\ ~IsGo(a[12])

LEMMA PutCharKinds == PutKinds(PutChar)
<1>1. PICK a : a = PutChar
  OBVIOUS
<1>2. /\ a[1][1] = "addr" /\ a[1][3] = "rd" /\ a[2][1] = "rdstat" /\ a[3][1] = "wrstat"
      /\ a[4][1] = "rddata" /\ a[5][1] = "ifnone" /\ a[6][1] = "addr" /\ a[7][1] = "data"
      /\ a[8][1] = "rdstat" /\ a[9][1] = "wrstat" /\ a[10][1] = "rdstat" /\ a[11] = Intr
      /\ a[12][1] = "wrstat" /\ a[3][2] = {"GO"} /\ a[9][2] = {"GO"} /\ a[12][2] = {}
  BY <1>1, PutCharAccesses
<1>3. Intr[1] = "wrstat" /\ Intr[2] = {"INTR"}
  BY DEF Intr
<1>4. a[3] # Intr /\ a[9] # Intr /\ a[12] # Intr
  <2>1. "INTR" \notin {"GO"} /\ "INTR" \in {"INTR"} /\ "INTR" \notin {}
    OBVIOUS
  <2>2. QED
    BY <1>2, <1>3, <2>1
<1>5. ASSUME NEW i \in 1 .. 12
      PROVE  /\ a[i][1] \notin {"output", "report"} /\ (IsPut(a[i]) => i = 6)
             /\ (a[i] = Intr <=> i = 11)
  <2>1. CASE i \in {1, 2, 4, 5}
    BY <1>2, <1>3, <2>1 DEF IsPut
  <2>2. CASE i \in {6, 7, 8, 10}
    BY <1>2, <1>3, <2>2 DEF IsPut
  <2>3. CASE i \in {3, 9, 12}
    BY <1>2, <1>4, <2>3 DEF IsPut
  <2>4. CASE i = 11
    BY <1>2, <1>3, <2>4 DEF IsPut
  <2>5. QED
    BY <2>1, <2>2, <2>3, <2>4
<1>6. ASSUME NEW i \in 7 .. 10
      PROVE  a[i][1] \in Straight
  BY <1>2 DEF Straight
<1>7. ~IsGo(a[1]) /\ ~IsGo(a[12])
  BY <1>2 DEF IsGo
<1>8. Len(a) = 12 /\ a[1][1] = "addr"
  BY <1>1, <1>2, PutCharAccesses
<1>9. PutKinds(a)
  BY <1>5, <1>6, <1>7, <1>8, Zenon DEF PutKinds
<1>10. QED
  BY <1>1, <1>9

\* putchar, called from the loop that passes the keys on.
LEMMA DecentPut ==
    ASSUME NEW p \in Seq(Accs), p # <<>>, Decent(p), Head(p)[1] = "output",
           NEW a \in Seq(Accs), PutKinds(a), NEW q, q = a \o p
    PROVE  Decent(q) /\ GoSafe(q)
<1>0. Len(a) = 12 /\ Len(p) \in Nat
  BY LenProperties DEF PutKinds
<1>10. /\ q \in Seq(Accs) /\ Len(q) = Len(a) + Len(p)
       /\ \A i \in 1 .. Len(a) : q[i] = a[i]
       /\ \A i \in 1 .. Len(p) : q[Len(a) + i] = p[i]
  BY Joined
<1>1. q \in Seq(Accs) /\ Len(p) \in Nat /\ Len(q) = 12 + Len(p)
  BY <1>0, <1>10
<1>2. \A i \in 1 .. 12 : q[i] = a[i]
  BY <1>0, <1>10
<1>3. \A i \in 1 .. Len(p) : q[12 + i] = p[i]
  BY <1>0, <1>10
<1>11. ASSUME NEW i \in 1 .. 12
       PROVE  /\ q[i][1] \notin {"output", "report"} /\ (IsPut(q[i]) => i = 6)
              /\ (q[i] = Intr <=> i = 11)
  BY <1>2 DEF PutKinds
<1>12. ASSUME NEW i \in 7 .. 10
       PROVE  q[i][1] \in Straight
  <2>1. a[i][1] \in Straight
    BY DEF PutKinds
  <2>2. i \in 1 .. 12
    OBVIOUS
  <2>3. QED
    BY <1>2, <2>1, <2>2, Zenon
<1>13. q[1][1] = "addr" /\ ~IsGo(q[1]) /\ ~IsGo(q[12])
  <2>1. a[1][1] = "addr" /\ ~IsGo(a[1]) /\ ~IsGo(a[12])
    BY DEF PutKinds
  <2>2. 1 \in 1 .. 12 /\ 12 \in 1 .. 12
    OBVIOUS
  <2>3. QED
    BY <1>2, <2>1, <2>2, Zenon
<1>4. ASSUME NEW i \in 1 .. Len(q)
      PROVE  i \in 1 .. 12 \/ (i - 12 \in 1 .. Len(p) /\ q[i] = p[i - 12])
  <2>1. CASE i \in 1 .. 12
    BY <2>1
  <2>2. CASE i > 12
    <3>1. i - 12 \in 1 .. Len(p) /\ 12 + (i - 12) = i
      BY <1>1, <2>2
    <3>2. QED
      BY <1>3, <3>1
  <2>3. QED
    BY <1>1, <2>1, <2>2
<1>5. ASSUME NEW k \in 1 .. Len(p)
      PROVE  ~IsGo(p[k])
  <2>1. 1 \in 1 .. Len(p) /\ p[1][1] = "output"
    BY TailParts
  <2>2. CASE k = 1
    BY <2>1, <2>2 DEF IsGo
  <2>3. CASE k # 1
    BY <2>1, <2>3 DEF Decent, Quiet
  <2>4. QED
    BY <2>2, <2>3
<1>6. Follows(q)
  <2>1. SUFFICES ASSUME NEW i \in 1 .. Len(q), IsPut(q[i])
                 PROVE  SoonFrom(q, i + 1)
    BY DEF Follows
  <2>2. CASE i \in 1 .. 12
    <3>1. i = 6
      BY <1>11, <2>1, <2>2
    <3>2. 11 \in i + 1 .. Len(q) /\ q[11] = Intr
      BY <1>1, <1>11, <3>1
    <3>3. ASSUME NEW k \in i + 1 .. 11 - 1
          PROVE  q[k][1] \in Straight
      <4>1. k \in 7 .. 10
        BY <3>1
      <4>2. QED
        BY <1>12, <4>1
    <3>4. QED
      BY <3>2, <3>3 DEF SoonFrom
  <2>3. CASE i - 12 \in 1 .. Len(p) /\ q[i] = p[i - 12]
    <3>1. SoonFrom(p, (i - 12) + 1)
      BY <2>1, <2>3 DEF Decent, Follows
    <3>2. PICK j \in (i - 12) + 1 .. Len(p) :
                 p[j] = Intr /\ \A k \in (i - 12) + 1 .. j - 1 : p[k][1] \in Straight
      BY <3>1 DEF SoonFrom
    <3>3. 12 + j \in i + 1 .. Len(q) /\ q[12 + j] = Intr
      <4>1. j \in 1 .. Len(p) /\ j >= (i - 12) + 1 /\ i \in Nat
        BY <1>1, <2>3, <3>2
      <4>2. q[12 + j] = p[j]
        BY <1>3, <4>1
      <4>3. QED
        BY <1>1, <3>2, <4>1, <4>2
    <3>4. ASSUME NEW k \in i + 1 .. (12 + j) - 1
          PROVE  q[k][1] \in Straight
      <4>1. k - 12 \in (i - 12) + 1 .. j - 1 /\ k - 12 \in 1 .. Len(p) /\ 12 + (k - 12) = k
        BY <2>3, <3>2
      <4>2. QED
        BY <1>3, <3>2, <4>1
    <3>5. QED
      BY <3>3, <3>4 DEF SoonFrom
  <2>4. QED
    BY <1>4, <2>2, <2>3
<1>7. Quiet(q)
  <2>1. SUFFICES ASSUME NEW i \in 1 .. Len(q), NEW k \in 1 .. Len(q), i < k,
                        q[i] = Intr \/ q[i][1] = "output"
                 PROVE  ~IsGo(q[k])
    BY DEF Quiet
  <2>2. CASE k \in 1 .. 12
    <3>1. i \in 1 .. 11
      BY <2>1, <2>2
    <3>2. i = 11
      <4>1. i \in 1 .. 12
        BY <3>1
      <4>2. q[i][1] # "output" /\ (q[i] = Intr => i = 11)
        BY <1>11, <4>1, Zenon
      <4>3. QED
        BY <2>1, <4>2
    <3>3. k = 12
      BY <2>1, <2>2, <3>2
    <3>4. QED
      BY <1>13, <3>3
  <2>3. CASE k - 12 \in 1 .. Len(p) /\ q[k] = p[k - 12]
    BY <1>5, <2>3
  <2>4. QED
    BY <1>4, <2>2, <2>3
<1>8. NoReport(q)
  <2>1. ASSUME NEW i \in 1 .. Len(q)
        PROVE  q[i][1] # "report"
    <3>1. CASE i \in 1 .. 12
      BY <1>11, <3>1
    <3>2. CASE i - 12 \in 1 .. Len(p) /\ q[i] = p[i - 12]
      BY <3>2 DEF Decent, NoReport
    <3>3. QED
      BY <1>4, <3>1, <3>2
  <2>2. QED
    BY <2>1 DEF NoReport
<1>9. GoSafe(q)
  <2>1. SUFFICES ASSUME NEW k \in 1 .. Len(q), IsGo(q[k])
                 PROVE  \E j \in 1 .. k - 1 : q[j][1] = "addr"
    BY DEF GoSafe
  <2>2. k # 1
    BY <1>13, <2>1
  <2>3. QED
    BY <1>1, <1>13, <2>2
<1>14. QED
  BY <1>6, <1>7, <1>8, <1>9 DEF Decent


\* The commands: most start no bus cycle,
Calm(a) == ~IsPut(a) /\ a # Intr /\ a[1] # "report"
Mild == {a \in Accs : Calm(a) /\ ~IsGo(a)}

LEMMA MildIsDecent ==
    ASSUME NEW p \in Seq(Mild)
    PROVE  Decent(p) /\ GoSafe(p)
<1>1. \A i \in 1 .. Len(p) : p[i] \in Mild
  BY ElementOfSeq
<1>2. Follows(p)
  BY <1>1 DEF Mild, Calm, Follows
<1>3. Quiet(p)
  BY <1>1 DEF Mild, Quiet
<1>4. NoReport(p)
  BY <1>1 DEF Mild, Calm, NoReport
<1>5. GoSafe(p)
  BY <1>1 DEF Mild, GoSafe
<1>6. QED
  BY <1>2, <1>3, <1>4, <1>5 DEF Decent

LEMMA MildPrograms ==
    ASSUME NEW c \in {"HA", "SI", "CO", "ST", "EX"}
    PROVE  CommandProgram(c) \in Seq(Mild) /\ ConsoleOutput \in Seq(Mild)
<1>1. ASSUME NEW a \in Accs, a[1] \notin {"addr", "wrstat", "report"}
      PROVE  a \in Mild
  <2>1. Intr[1] = "wrstat"
    BY DEF Intr
  <2>2. QED
    BY <1>1, <2>1 DEF Mild, Calm, IsPut, IsGo
<1>2. /\ <<"poll">> \in Accs /\ <<"rdstat">> \in Accs /\ <<"output">> \in Accs
      /\ <<"cir", "JRST">> \in Accs /\ <<"cir", "ANY">> \in Accs
  BY DEF Accs, Tests
<1>3. /\ <<"poll">> \in Mild /\ <<"rdstat">> \in Mild /\ <<"output">> \in Mild
      /\ <<"cir", "JRST">> \in Mild /\ <<"cir", "ANY">> \in Mild
  BY <1>1, <1>2
<1>4. <<"running", TRUE>> \in Mild /\ <<"running", FALSE>> \in Mild
  <2>1. ASSUME NEW b \in BOOLEAN
        PROVE  <<"running", b>> \in Mild
    BY <1>1, SwitchTypes
  <2>2. QED
    BY <2>1
<1>5. ASSUME NEW s \in SUBSET Flags, NEW k \in SUBSET Flags
      PROVE  Modify(s, k) \in Seq(Mild)
  <2>1. PICK a : a = <<"wrstat", s, k>>
    OBVIOUS
  <2>2. a \in Accs
    <3>1. s \in SUBSET StatusBits /\ k \in SUBSET StatusBits
      BY DEF StatusBits
    <3>2. QED
      BY <2>1, <3>1, StatusTypes
  <2>3. a[1] = "wrstat" /\ a[2] = s
    BY <2>1
  <2>4. "GO" \notin s /\ "INTR" \notin s
    BY DEF Flags
  <2>5. Intr[2] = {"INTR"}
    BY DEF Intr
  <2>6. a # Intr
    BY <2>3, <2>4, <2>5
  <2>7. a \in Mild
    BY <2>2, <2>3, <2>4, <2>6 DEF Mild, Calm, IsPut, IsGo
  <2>8. QED
    BY <1>3, <2>1, <2>7 DEF Modify
<1>6. /\ Modify({}, {"RUN"}) \in Seq(Mild) /\ Modify({"CONT"}, {}) \in Seq(Mild)
      /\ Modify({"RUN", "CONT"}, {}) \in Seq(Mild) /\ Modify({"CONT", "EXEC"}, {}) \in Seq(Mild)
      /\ Modify({"RUN", "CONT", "EXEC"}, {}) \in Seq(Mild)
  BY <1>5 DEF Flags
<1>7. ConsoleOutput \in Seq(Mild)
  BY <1>3, <1>4 DEF ConsoleOutput
<1>8. CASE c = "HA"
  BY <1>3, <1>6, <1>7, <1>8 DEF CommandProgram, UntilHalt
<1>9. CASE c = "SI" \/ c = "CO"
  BY <1>6, <1>7, <1>9 DEF CommandProgram
<1>10. CASE c = "ST" \/ c = "EX"
  BY <1>3, <1>6, <1>7, <1>10 DEF CommandProgram, Execute
<1>11. QED
  BY <1>8, <1>9, <1>10

\* the others address a word first, and do not wait for keys.
LEMMA ReaderIsDecent ==
    ASSUME NEW p \in Seq(Accs), NEW m \in 1 .. Len(p), p[m][1] = "addr",
           \A i \in 1 .. Len(p) : Calm(p[i]) /\ p[i][1] # "output",
           \A i \in 1 .. m : ~IsGo(p[i])
    PROVE  Decent(p) /\ GoSafe(p)
<1>1. Follows(p)
  BY DEF Calm, Follows
<1>2. Quiet(p)
  BY DEF Calm, Quiet
<1>3. NoReport(p)
  BY DEF Calm, NoReport
<1>4. GoSafe(p)
  <2>1. SUFFICES ASSUME NEW k \in 1 .. Len(p), IsGo(p[k])
                 PROVE  \E j \in 1 .. k - 1 : p[j][1] = "addr"
    BY DEF GoSafe
  <2>2. k > m
    BY <2>1
  <2>3. m \in 1 .. k - 1
    BY <2>2
  <2>4. QED
    BY <2>3
<1>5. QED
  BY <1>1, <1>2, <1>3, <1>4 DEF Decent

\* What a program may contain beside the writes of its own.
LEMMA CalmKinds ==
    ASSUME NEW a
    PROVE  /\ a[1] \notin {"addr", "wrstat", "report"} => Calm(a) /\ ~IsGo(a)
           /\ a[1] = "addr" /\ a[2] # "CTYIN" => Calm(a) /\ ~IsGo(a)
           /\ a[1] = "wrstat" /\ "INTR" \notin a[2] => Calm(a)
<1>1. Intr[1] = "wrstat" /\ "INTR" \in Intr[2]
  BY DEF Intr
<1>2. QED
  BY <1>1 DEF Calm, IsPut, IsGo

LEMMA CommandDecent ==
    ASSUME NEW c
    PROVE  Decent(CommandProgram(c)) /\ GoSafe(CommandProgram(c))
<1>1. CASE c \in {"HA", "SI", "CO", "ST", "EX"}
  BY <1>1, MildPrograms, MildIsDecent
<1>2. CASE c = "EM"
  <2>1. PICK p : p = CommandProgram("EM")
    OBVIOUS
  <2>2. p \in Seq(Accs)
    BY <2>1, CommandTypes
  <2>3. /\ Len(p) = 6 /\ p[1] = <<"addr", "X", "rd">> /\ p[2] = <<"rdstat">>
        /\ p[3] = <<"wrstat", {"GO"}, {}>> /\ p[4] = <<"rddata">> /\ p[5] = <<"rdstat">>
        /\ p[6] = <<"wrstat", {}, {}>>
    BY <2>1 DEF CommandProgram, ReadMem, GoBit, Modify, NxmNxd
  <2>4. /\ Len(p) = 6 /\ p[1][1] = "addr" /\ p[1][2] = "X" /\ p[2][1] = "rdstat"
        /\ p[3][1] = "wrstat" /\ p[3][2] = {"GO"} /\ p[4][1] = "rddata"
        /\ p[5][1] = "rdstat" /\ p[6][1] = "wrstat" /\ p[6][2] = {}
    BY <2>3
  <2> HIDE <2>1, <2>3
  <2>5. \A i \in 1 .. Len(p) : Calm(p[i]) /\ p[i][1] # "output"
    <3>1. ASSUME NEW i \in 1 .. 6
          PROVE  Calm(p[i]) /\ p[i][1] # "output"
      <4>1. CASE i \in {1, 2, 4, 5}
        BY <2>4, <4>1, CalmKinds
      <4>2. CASE i \in {3, 6}
        BY <2>4, <4>2, CalmKinds
      <4>3. QED
        BY <4>1, <4>2
    <3>2. QED
      BY <2>4, <3>1
  <2>6. \A i \in 1 .. 1 : ~IsGo(p[i])
    BY <2>4 DEF IsGo
  <2>7. Decent(p) /\ GoSafe(p)
    <3>1. 1 \in 1 .. Len(p) /\ p[1][1] = "addr"
      BY <2>4
    <3>2. QED
      BY <2>2, <2>5, <2>6, <3>1, ReaderIsDecent
  <2>8. QED
    BY <1>2, <2>1, <2>7
<1>3. CASE c \notin {"HA", "SI", "CO", "ST", "EX", "EM"}
  <2>1. PICK e : e = ExecuteAndGetData("RDHSB")
    OBVIOUS
  <2>2. /\ e \in Seq(Accs) /\ Len(e) = 19
        /\ e[1] = <<"addr", "TMP", "rd">> /\ e[2] = <<"rdstat">>
        /\ e[3] = <<"wrstat", {"GO"}, {}>> /\ e[4] = <<"rddata">> /\ e[5] = <<"save">>
        /\ e[6] = DispatchOff /\ e[7] = <<"cir", "RDHSB">> /\ e[8] = <<"rdstat">>
        /\ e[9] = <<"wrstat", {"CONT", "EXEC"}, {}>> /\ e[10] = <<"poll">>
        /\ e[11] = DispatchOn
        /\ e[12] = <<"addr", "TMP", "rd">> /\ e[13] = <<"rdstat">>
        /\ e[14] = <<"wrstat", {"GO"}, {}>> /\ e[15] = <<"rddata">>
        /\ e[16] = <<"addr", "TMP", "wr">> /\ e[17] = <<"data", "saved">>
        /\ e[18] = <<"rdstat">> /\ e[19] = <<"wrstat", {"GO"}, {}>>
    BY <2>1, ExecuteAccesses, Zenon
  <2>3. /\ e[1][1] = "addr" /\ e[1][2] = "TMP" /\ e[2][1] = "rdstat"
        /\ e[3][1] = "wrstat" /\ e[3][2] = {"GO"} /\ e[4][1] = "rddata" /\ e[5][1] = "save"
        /\ e[6][1] = "dispatch" /\ e[7][1] = "cir" /\ e[8][1] = "rdstat"
        /\ e[9][1] = "wrstat" /\ e[9][2] = {"CONT", "EXEC"} /\ e[10][1] = "poll"
        /\ e[11][1] = "dispatch"
    BY <2>2, DispatchParts
  <2>4. /\ e[12][1] = "addr" /\ e[12][2] = "TMP" /\ e[13][1] = "rdstat"
        /\ e[14][1] = "wrstat" /\ e[14][2] = {"GO"} /\ e[15][1] = "rddata"
        /\ e[16][1] = "addr" /\ e[16][2] = "TMP" /\ e[17][1] = "data"
        /\ e[18][1] = "rdstat" /\ e[19][1] = "wrstat" /\ e[19][2] = {"GO"}
    BY <2>2
  <2>5. ASSUME NEW i \in 1 .. 19
        PROVE  Calm(e[i]) /\ e[i][1] # "output"
    <3>1. CASE i \in {2, 4, 5, 6, 7, 8, 10, 11}
      BY <2>3, <3>1, CalmKinds
    <3>2. CASE i \in {1, 3, 9}
      BY <2>3, <3>2, CalmKinds
    <3>3. CASE i \in {13, 15, 17, 18}
      BY <2>4, <3>3, CalmKinds
    <3>4. CASE i \in {12, 14, 16, 19}
      BY <2>4, <3>4, CalmKinds
    <3>5. QED
      BY <3>1, <3>2, <3>3, <3>4
  <2>6. PICK x : x = <<<<"ifhalt">>>>
    OBVIOUS
  <2>7. /\ x \in Seq(Accs) /\ Len(x) = 1 /\ x[1][1] = "ifhalt"
    BY <2>6 DEF Accs, Tests
  <2>8. PICK p : p = x \o e
    OBVIOUS
  <2>9. p = CommandProgram(c)
    BY <1>3, <2>1, <2>6, <2>8 DEF CommandProgram
  <2>10. /\ p \in Seq(Accs) /\ Len(p) = 20 /\ p[1] = x[1]
         /\ \A i \in 1 .. 19 : p[1 + i] = e[i]
    <3>1. x \in Seq(Accs) /\ e \in Seq(Accs)
      BY <2>2, <2>7
    <3>2. /\ p \in Seq(Accs) /\ Len(p) = Len(x) + Len(e)
          /\ \A i \in 1 .. Len(x) : p[i] = x[i]
          /\ \A i \in 1 .. Len(e) : p[Len(x) + i] = e[i]
      BY <2>8, <3>1, Joined
    <3>3. Len(x) = 1 /\ Len(e) = 19
      BY <2>2, <2>7
    <3>4. QED
      BY <3>2, <3>3
  <2>11. Calm(p[1]) /\ p[1][1] # "output" /\ ~IsGo(p[1])
    BY <2>7, <2>10, CalmKinds
  <2>12. p[2][1] = "addr" /\ ~IsGo(p[2])
    BY <2>3, <2>10 DEF IsGo
  <2>13. \A i \in 1 .. Len(p) : Calm(p[i]) /\ p[i][1] # "output"
    <3>1. ASSUME NEW i \in 2 .. 20
          PROVE  Calm(p[i]) /\ p[i][1] # "output"
      <4>1. i - 1 \in 1 .. 19 /\ 1 + (i - 1) = i
        OBVIOUS
      <4>2. p[i] = e[i - 1]
        BY <2>10, <4>1
      <4>3. QED
        BY <2>5, <4>1, <4>2
    <3>2. SUFFICES ASSUME NEW i \in 1 .. 20 PROVE Calm(p[i]) /\ p[i][1] # "output"
      BY <2>10
    <3>3. i = 1 \/ i \in 2 .. 20
      OBVIOUS
    <3>4. QED
      BY <2>11, <3>1, <3>3
  <2>14. QED
    <3>1. 2 \in 1 .. Len(p) /\ \A i \in 1 .. 2 : ~IsGo(p[i])
      BY <2>10, <2>11, <2>12
    <3>2. Decent(p) /\ GoSafe(p)
      BY <2>10, <2>12, <2>13, <3>1, ReaderIsDecent
    <3>3. QED
      BY <2>9, <3>2
<1>4. QED
  BY <1>1, <1>2, <1>3

LEMMA EmptyIsDecent == Decent(<<>>) /\ GoSafe(<<>>) /\ ~Soon(<<>>)
<1>1. PICK p : p = <<>>
  OBVIOUS
<1>2. p \in Seq(Mild) /\ Len(p) = 0
  BY <1>1
<1>3. Decent(p) /\ GoSafe(p)
  BY <1>2, MildIsDecent
<1>4. ~Soon(p)
  BY <1>2 DEF Soon, SoonFrom
<1>5. QED
  BY <1>1, <1>3, <1>4

\* The command task goes on with q.
LEMMA InGoes ==
    ASSUME FirmTypes, CmdDecent, prog["cmd"] # <<>>, NEW q, Goes("cmd", q), Decent(q),
           regADDR' = <<"CTYIN", "wr">> => GoSafe(q) \/ Soon(q),
           mem'["CTYIN"] = "char" => intr' \/ Soon(q)
    PROVE  InInv'
<1>1. prog'["cmd"] = q
  BY GoesFrame DEF Threads
<1>2. cmd' = "none" => q = <<>>
  BY DEF Goes, CmdDecent
<1>3. CmdDecent'
  BY <1>1, <1>2 DEF CmdDecent
<1>4. Stale' /\ Notified'
  BY <1>1 DEF Stale, Notified
<1>5. QED
  BY <1>3, <1>4 DEF InInv

LEMMA InCmd ==
    ASSUME FirmTypes, FpgaTypes, InInv, Access("cmd")
    PROVE  InInv'
<1>1. PICK p : p = prog["cmd"]
  OBVIOUS
<1>2. p \in Seq(Accs) /\ p # <<>> /\ Decent(p) /\ CmdDecent
  BY <1>1, ByName DEF InInv, CmdDecent, FirmTypes, Progs, Threads
<1>3. /\ regADDR = <<"CTYIN", "wr">> => GoSafe(p) \/ Soon(p)
      /\ mem["CTYIN"] = "char" => intr \/ Soon(p)
  BY <1>1 DEF InInv, Stale, Notified
<1>4. PICK q : q = Tail(p)
  OBVIOUS
<1>5. /\ Decent(q) /\ (IsPut(Head(p)) => Soon(q))
      /\ Head(p) = Intr => GoSafe(q)
      /\ GoSafe(p) /\ Head(p)[1] # "addr" => GoSafe(q) /\ ~IsGo(Head(p))
  BY <1>2, <1>4, DecentTail
<1>6. Soon(p) /\ Head(p) # Intr => Soon(q) /\ Head(p)[1] \in Straight
  BY <1>2, <1>4, SoonTail
<1>7. Intr[1] = "wrstat" /\ Intr[2] = {"INTR"}
  BY DEF Intr
<1>8. Advance("cmd") <=> Goes("cmd", q)
  BY <1>1, <1>4 DEF Advance
<1>9. CASE accAddr("cmd")
  <2>1. /\ Goes("cmd", q) /\ UNCHANGED <<mem, intr>> /\ Head(p)[1] = "addr"
        /\ regADDR' = <<Head(p)[2], Head(p)[3]>>
    BY <1>1, <1>8, <1>9 DEF accAddr, cpuVars, Doing, Arg
  <2>2. regADDR' = <<"CTYIN", "wr">> => IsPut(Head(p))
    BY <2>1 DEF IsPut
  <2>3. mem["CTYIN"] = "char" => intr \/ Soon(q)
    BY <1>3, <1>6, <1>7, <2>1
  <2>4. QED
    BY <1>1, <1>2, <1>5, <2>1, <2>2, <2>3, InGoes
<1>10. CASE accWrStat("cmd")
  <2>1. /\ Goes("cmd", q) /\ UNCHANGED regADDR /\ Head(p)[1] = "wrstat"
        /\ intr' = (intr \/ "INTR" \in Head(p)[2]) /\ BusCycle("GO" \in Head(p)[2])
    BY <1>1, <1>8, <1>10 DEF accWrStat, Doing, Arg
  <2>2. regADDR = <<"CTYIN", "wr">> => GoSafe(q) \/ Soon(q)
    BY <1>3, <1>5, <1>6, <2>1
  <2>3. ASSUME NEW go \in BOOLEAN, BusCycle(go), mem'["CTYIN"] = "char", mem["CTYIN"] # "char"
        PROVE  go /\ regADDR = <<"CTYIN", "wr">>
    <3>1. /\ regADDR = <<regADDR[1], regADDR[2]>> /\ regADDR[2] \in {"rd", "wr"}
          /\ mem \in [Words -> Values]
      BY DEF FpgaTypes, Addrs, Words, Written
    <3>2. QED
      BY <2>3, <3>1 DEF BusCycle, Words
  <2>4. mem'["CTYIN"] = "char" => intr' \/ Soon(q)
    <3>1. SUFFICES ASSUME mem'["CTYIN"] = "char" PROVE intr' \/ Soon(q)
      OBVIOUS
    <3>2. CASE mem["CTYIN"] = "char"
      <4>1. intr \/ Soon(p)
        BY <1>3, <3>2
      <4>2. Head(p) = Intr => intr'
        BY <1>7, <2>1
      <4>3. intr => intr'
        BY <2>1
      <4>4. QED
        BY <1>6, <4>1, <4>2, <4>3, Zenon
    <3>3. CASE mem["CTYIN"] # "char"
      <4>1. ("GO" \in Head(p)[2]) \in BOOLEAN
        OBVIOUS
      <4>2. "GO" \in Head(p)[2] /\ regADDR = <<"CTYIN", "wr">>
        BY <2>1, <2>3, <3>1, <3>3, <4>1
      <4>3. IsGo(Head(p)) /\ Head(p) # Intr
        BY <1>7, <2>1, <4>2 DEF IsGo
      <4>4. QED
        BY <1>3, <1>5, <1>6, <2>1, <4>2, <4>3
    <3>4. QED
      BY <3>2, <3>3
  <2>5. QED
    BY <1>1, <1>2, <1>5, <2>1, <2>2, <2>4, InGoes
<1>11. ASSUME UNCHANGED <<regADDR, mem, intr>>, Goes("cmd", q), Head(p)[1] \notin {"addr", "wrstat"}
       PROVE  InInv'
  <2>1. regADDR' = <<"CTYIN", "wr">> => GoSafe(q) \/ Soon(q)
    BY <1>3, <1>5, <1>6, <1>7, <1>11
  <2>2. mem'["CTYIN"] = "char" => intr' \/ Soon(q)
    BY <1>3, <1>6, <1>7, <1>11
  <2>3. QED
    BY <1>1, <1>2, <1>5, <1>11, <2>1, <2>2, InGoes
<1>12. ASSUME UNCHANGED <<regADDR, mem, intr>>, NEW r, Goes("cmd", r), Decent(r), GoSafe(r),
              Head(p)[1] \notin Straight
       PROVE  InInv'
  <2>1. ~Soon(p)
    BY <1>6, <1>7, <1>12 DEF Straight
  <2>2. mem'["CTYIN"] = "char" => intr'
    BY <1>3, <1>12, <2>1
  <2>3. QED
    BY <1>1, <1>2, <1>12, <2>2, InGoes
<1>13. CASE accData("cmd") \/ accCir("cmd") \/ accRdStat("cmd") \/ accRdData("cmd")
            \/ accPoll("cmd") \/ accReturn("cmd") \/ accSave("cmd") \/ accDispatch("cmd")
            \/ accRunning("cmd")
  <2>1. UNCHANGED <<regADDR, mem, intr>> /\ Goes("cmd", q)
    BY <1>8, <1>13 DEF accData, accCir, accRdStat, accRdData, accPoll, accReturn, accSave,
           accDispatch, accRunning, SameFpga, regVars, cpuVars
  <2>2. Head(p)[1] \notin {"addr", "wrstat"}
    BY <1>1, <1>13 DEF accData, accCir, accRdStat, accRdData, accPoll, accReturn, accSave,
           accDispatch, accRunning, Doing
  <2>3. QED
    BY <1>11, <2>1, <2>2
<1>14. ASSUME NEW name \in {"ifhalt", "ifchar"}, NEW b \in BOOLEAN, Test("cmd", name, b)
       PROVE  InInv'
  <2>1. /\ UNCHANGED <<regADDR, mem, intr>> /\ Head(p)[1] = name
        /\ Goes("cmd", IF b THEN q ELSE <<>>)
    BY <1>1, <1>4, <1>14 DEF Test, Doing, SameFpga, regVars, cpuVars
  <2>2. CASE b
    BY <1>11, <2>1, <2>2
  <2>3. CASE ~b
    <3>1. Goes("cmd", <<>>)
      BY <2>1, <2>3
    <3>2. QED
      BY <1>12, <2>1, <3>1, EmptyIsDecent DEF Straight
  <2>4. QED
    BY <2>2, <2>3
<1>15. CASE accIfHalt("cmd") \/ accIfChar("cmd")
  <2>1. CASE accIfHalt("cmd")
    BY <1>14, <2>1 DEF accIfHalt, FpgaTypes
  <2>2. CASE accIfChar("cmd")
    <3>1. (val["cmd"] = "char") \in BOOLEAN
      OBVIOUS
    <3>2. QED
      BY <1>14, <2>2, <3>1 DEF accIfChar
  <2>3. QED
    BY <1>15, <2>1, <2>2
<1>16. CASE accIfNone("cmd")
  <2>1. /\ UNCHANGED <<regADDR, mem, intr>> /\ Head(p)[1] = "ifnone"
        /\ Goes("cmd", IF val["cmd"] = "none" THEN q ELSE ConsoleOutput)
    BY <1>1, <1>4, <1>16 DEF accIfNone, Doing, SameFpga, regVars, cpuVars
  <2>2. Decent(ConsoleOutput) /\ GoSafe(ConsoleOutput)
    BY MildPrograms, MildIsDecent
  <2>3. CASE val["cmd"] = "none"
    BY <1>11, <2>1, <2>3
  <2>4. CASE val["cmd"] # "none"
    <3>1. Goes("cmd", ConsoleOutput)
      BY <2>1, <2>4
    <3>2. QED
      BY <1>12, <2>1, <2>2, <3>1 DEF Straight
  <2>5. QED
    BY <2>3, <2>4
<1>17. CASE accOutput("cmd")
  <2>1. /\ UNCHANGED <<regADDR, mem, intr>> /\ Head(p)[1] = "output"
        /\ Goes("cmd", q) \/ Goes("cmd", PutChar \o p)
    BY <1>1, <1>8, <1>17 DEF accOutput, Doing, SameFpga, regVars, cpuVars
  <2>2. PICK r : r = PutChar \o p
    OBVIOUS
  <2>3. Decent(r) /\ GoSafe(r)
    BY <1>2, <2>1, <2>2, DecentPut, PutCharKinds, HandlerTypes
  <2>4. CASE Goes("cmd", q)
    BY <1>11, <2>1, <2>4
  <2>5. CASE Goes("cmd", r)
    BY <1>12, <2>1, <2>3, <2>5 DEF Straight
  <2>6. QED
    BY <2>1, <2>2, <2>4, <2>5
<1>18. ~accReport("cmd")
  <2>1. Head(p) = p[1] /\ 1 \in 1 .. Len(p)
    BY <1>2, TailParts
  <2>2. Head(p)[1] # "report"
    BY <1>2, <2>1 DEF Decent, NoReport
  <2>3. QED
    BY <1>1, <2>2 DEF accReport, Doing
<1>19. QED
  BY <1>9, <1>10, <1>13, <1>15, <1>16, <1>17, <1>18 DEF Access

\* The handlers use other words.
LEMMA InHandlers ==
    ASSUME FirmTypes, FpgaTypes, HandlerInv, InInv, NEW t \in {"cons", "halt"}, Access(t)
    PROVE  InInv'
<1>1. prog'["cmd"] = prog["cmd"] /\ cmd' = cmd /\ prog[t] # <<>>
  BY AccessFrame, Alone DEF Threads
<1>2. intr => intr'
  BY DEF Access, accAddr, accData, accCir, accRdStat, accRdData, accWrStat, accPoll,
         accIfHalt, accIfChar, Test, accIfNone, accReport, accReturn, accSave, accDispatch,
         accRunning, accOutput, SameFpga, cpuVars
<1>3. SUFFICES (regADDR' = regADDR \/ regADDR'[1] # "CTYIN") /\ mem'["CTYIN"] = mem["CTYIN"]
  <2>1. CASE regADDR' = regADDR /\ mem'["CTYIN"] = mem["CTYIN"]
    BY <1>1, <1>2, <2>1 DEF InInv, CmdDecent, Stale, Notified
  <2>2. CASE regADDR'[1] # "CTYIN" /\ mem'["CTYIN"] = mem["CTYIN"]
    <3>1. regADDR' # <<"CTYIN", "wr">>
      BY <2>2
    <3>2. QED
      BY <1>1, <1>2, <2>2, <3>1 DEF InInv, CmdDecent, Stale, Notified
  <2>3. QED
    BY <2>1, <2>2
<1>4. ASSUME BusGo, regADDR[1] \in {"CTYOUT", "HSW", "TMP", "HSB"}
      PROVE  mem'["CTYIN"] = mem["CTYIN"]
  BY <1>4 DEF BusGo, BusCycle, FpgaTypes, Words
<1>5. CASE t = "cons"
  <2>1. PICK n \in 1 .. 10 : n = GetPc /\ prog["cons"] = From(GetChar, n)
    <3>1. GetPc \in 1 .. 11 /\ prog["cons"] = From(GetChar, GetPc)
      BY DEF HandlerInv, InChar
    <3>2. GetPc # 11
      BY <1>1, <1>5, <3>1, Places, Zenon
    <3>3. GetPc \in 1 .. 10
      BY <3>1, <3>2
    <3>4. QED
      BY <3>1, <3>3
  <2>2. CharDoes(n)
    BY <1>5, <2>1, CharStep
  <2>3. regADDR' = regADDR \/ regADDR'[1] # "CTYIN"
    BY <2>2 DEF CharDoes
  <2>4. CASE n \in {3, 9}
    <3>1. BusGo
      BY <2>2, <2>4, CharEffects
    <3>2. regADDR[1] = "CTYOUT"
      BY <2>1, <2>4 DEF HandlerInv, CharRegs
    <3>3. QED
      BY <1>4, <2>3, <3>1, <3>2
  <2>5. CASE n \notin {3, 9}
    BY <2>2, <2>3, <2>5, CharEffects
  <2>6. QED
    BY <2>4, <2>5
<1>6. CASE t = "halt" /\ InStatus
  <2>1. PICK n \in 1 .. 29 : n = HaltPc /\ prog["halt"] = From(HaltStatus, n)
    <3>1. HaltPc \in 1 .. 30 /\ prog["halt"] = From(HaltStatus, HaltPc)
      BY <1>6 DEF HandlerInv, InHalt
    <3>2. HaltPc # 30
      BY <1>1, <1>6, <3>1, Places, Zenon
    <3>3. HaltPc \in 1 .. 29
      BY <3>1, <3>2
    <3>4. QED
      BY <3>1, <3>3
  <2>2. HaltDoes(n)
    BY <1>6, <2>1, HaltStep
  <2>3. regADDR' = regADDR \/ regADDR'[1] # "CTYIN"
    <3>1. CASE n \in AddrAt
      <4>1. regADDR' = HaltAddr(n + 1)
        BY <2>2, <3>1, StatusEffects DEF HaltDoes
      <4>2. QED
        BY <4>1 DEF HaltAddr
    <3>2. CASE n \notin AddrAt
      BY <2>2, <3>2, StatusEffects DEF HaltDoes
    <3>3. QED
      BY <3>1, <3>2
  <2>4. CASE n \in GoAt
    <3>1. BusGo
      BY <2>2, <2>4, StatusEffects DEF HaltDoes
    <3>2. n \in 2 .. 28
      BY <2>4 DEF GoAt
    <3>3. regADDR = HaltAddr(n)
      BY <1>6, <2>1, <3>2 DEF HandlerInv, HaltRegs
    <3>4. regADDR[1] \in {"HSW", "TMP", "HSB"}
      BY <3>2, <3>3 DEF HaltAddr
    <3>5. QED
      BY <1>4, <2>3, <3>1, <3>4
  <2>5. CASE n \notin GoAt
    BY <2>2, <2>3, <2>5, StatusEffects DEF HaltDoes
  <2>6. QED
    BY <2>4, <2>5
<1>7. CASE t = "halt" /\ prog["halt"] = HaltReport
  <2>1. Head(prog["halt"])[1] = "report"
    BY <1>7 DEF HaltReport
  <2>2. accReport("halt")
    BY <1>7, <2>1, ByName
  <2>3. QED
    BY <2>2 DEF accReport, SameFpga, regVars
<1>8. QED
  BY <1>5, <1>6, <1>7 DEF InStatus

\* The operator and the KS10.
LEMMA InOthers ==
    ASSUME ConsoleAssumption, "^C" \notin Keys, FirmTypes, FpgaTypes, InInv,
           consIntr \/ haltIntr \/ startNext \/ Operator \/ Cpu \/ UNCHANGED vars
    PROVE  InInv'
<1>1. ASSUME UNCHANGED <<cmd, regADDR>>, prog'["cmd"] = prog["cmd"],
             mem'["CTYIN"] = "char" => mem["CTYIN"] = "char" /\ (intr => intr')
      PROVE  InInv'
  BY <1>1 DEF InInv, CmdDecent, Stale, Notified
<1>2. CASE consIntr \/ haltIntr
  <2>1. UNCHANGED <<cmd, regADDR, mem, intr>> /\ prog'["cmd"] = prog["cmd"]
    BY <1>2 DEF consIntr, haltIntr, regVars, cpuVars, FirmTypes, Progs, Threads
  <2>2. QED
    BY <1>1, <2>1
<1>3. ASSUME NEW c \in Commands, cmd = "none", Begin(c), UNCHANGED <<regADDR, mem, intr>>
      PROVE  InInv'
  <2>1. cmd' # "none" /\ prog'["cmd"] = CommandProgram(c)
    BY <1>3 DEF ConsoleAssumption, Begin, FirmTypes, Progs, Threads
  <2>2. Decent(CommandProgram(c)) /\ GoSafe(CommandProgram(c))
    BY CommandDecent
  <2>3. ~Soon(prog["cmd"])
    BY <1>3, EmptyIsDecent DEF InInv, CmdDecent
  <2>4. mem["CTYIN"] = "char" => intr
    BY <2>3 DEF InInv, Notified
  <2>5. CmdDecent' /\ Stale'
    BY <2>1, <2>2 DEF CmdDecent, Stale
  <2>6. Notified'
    BY <1>3, <2>4 DEF Notified
  <2>7. QED
    BY <2>5, <2>6 DEF InInv
<1>4. CASE startNext \/ Operator
  <2>1. UNCHANGED <<regADDR, mem, intr>>
    BY <1>4 DEF startNext, Operator, typeLine, typeCtrlC, typeCtrlS, typeCtrlQ, SameForCon,
                regVars, cpuVars
  <2>2. CASE startNext
    <3>1. con \in Commands /\ cmd = "none" /\ Begin(con)
      BY <2>2 DEF startNext, FirmTypes
    <3>2. QED
      BY <1>3, <2>1, <3>1
  <2>3. CASE \E c \in Commands : typeLine(c)
    <3>1. PICK c \in Commands : typeLine(c)
      BY <2>3
    <3>2. CASE cmd = "none" /\ Begin(c)
      BY <1>3, <2>1, <3>2
    <3>3. CASE UNCHANGED <<cmd, prog>>
      BY <1>1, <2>1, <3>3
    <3>4. QED
      BY <3>1, <3>2, <3>3 DEF typeLine
  <2>4. CASE typeCtrlC
    BY <2>4 DEF typeCtrlC
  <2>5. CASE typeCtrlS \/ typeCtrlQ
    BY <1>1, <2>1, <2>5 DEF typeCtrlS, typeCtrlQ
  <2>6. QED
    BY <1>4, <2>2, <2>3, <2>4, <2>5 DEF Operator
<1>5. CASE Cpu
  <2>1. UNCHANGED <<cmd, prog, regADDR>>
    BY <1>5 DEF Cpu, cpuInstr, cpuXct, cpuHalted, cpuSetHalt, cpuUnhalt, SetHalt, firmVars,
                regVars
  <2>2. mem \in [Words -> Values] /\ t1 # "char"
    BY DEF FpgaTypes
  <2>3. mem'["CTYIN"] = "char" => mem["CTYIN"] = "char" /\ (intr => intr')
    <3>1. CASE cpuInstr
      BY <2>2, <3>1 DEF cpuInstr, Words
    <3>2. CASE cpuXct
      BY <2>2, <3>2 DEF cpuXct, Words
    <3>3. CASE cpuHalted
      BY <2>2, <3>3 DEF cpuHalted, Words
    <3>4. CASE cpuSetHalt \/ cpuUnhalt
      BY <3>4 DEF cpuSetHalt, cpuUnhalt, SetHalt
    <3>5. QED
      BY <1>5, <3>1, <3>2, <3>3, <3>4 DEF Cpu
  <2>4. QED
    BY <1>1, <2>1, <2>3
<1>6. CASE UNCHANGED vars
  <2>1. UNCHANGED <<cmd, prog, regADDR, mem, intr>>
    BY <1>6 DEF vars, firmVars, regVars, cpuVars
  <2>2. QED
    BY <1>1, <2>1
<1>7. QED
  BY <1>2, <1>4, <1>5, <1>6

\* A character that the operator has typed is announced to the KS10: the
\* interrupt is pending or the command task goes straight on to make it.  ^C
\* stops the command task between the two, and is excluded.
THEOREM InNotifiedAlways ==
    ASSUME "^C" \notin Keys
    PROVE  Spec => []InNotified
<1>1. Init => InInv
  <2>1. SUFFICES ASSUME Init PROVE InInv
    OBVIOUS
  <2>2. prog["cmd"] = <<>> /\ regADDR # <<"CTYIN", "wr">> /\ mem["CTYIN"] # "char"
    BY <2>1 DEF Init, Threads
  <2>3. QED
    BY <2>2, EmptyIsDecent DEF InInv, CmdDecent, Stale, Notified
<1>2. TypeInv /\ HandlerInv /\ InInv /\ [Next]_vars => InInv'
  <2>1. SUFFICES ASSUME FirmTypes, FpgaTypes, HandlerInv, InInv, [Next]_vars
                 PROVE  InInv'
    BY DEF TypeInv
  <2>2. CASE \E t \in Threads : Access(t)
    BY <2>1, <2>2, InCmd, InHandlers DEF Threads
  <2>3. QED
    BY <2>1, <2>2, ConsoleAssumption, InOthers DEF Next, Firmware
<1>3. TypeInv /\ InInv => InNotified
  <2>1. SUFFICES ASSUME TypeInv, InInv, mem["CTYIN"] = "char", ~intr
                 PROVE  \E i \in DOMAIN prog["cmd"] : prog["cmd"][i] = Intr
    BY DEF InNotified, Intr
  <2>2. prog["cmd"] \in Seq(Accs)
    BY <2>1 DEF TypeInv, FirmTypes, Progs, Threads
  <2>3. Soon(prog["cmd"])
    BY <2>1 DEF InInv, Notified
  <2>4. QED
    BY <2>2, <2>3 DEF Soon, SoonFrom
<1>4. QED
  BY <1>1, <1>2, <1>3, HandlerInvariant, PTL DEF Spec

-----------------------------------------------------------------------------
(* The word that RDHSB overwrites.  The handler of the halt interrupt and  *)
(* RD HSB execute the same accesses, from the test of the HALT line to the *)
(* restored word: a thread in them has a place in HaltStatus.              *)

RdProgram == CommandProgram("RD")

\* What RD HSB has left at the n-th access of HaltStatus.
Rest(n) == From(RdProgram, n - 4)

LEMMA RdPlaces ==
    /\ RdProgram \in Seq(Accs) /\ Rest(5) = RdProgram /\ Rest(25) = <<>>
    /\ \A n \in 5 .. 25 : Len(Rest(n)) = 25 - n
    /\ \A n \in 5 .. 24 : /\ Rest(n) # <<>> /\ Head(Rest(n)) = HaltStatus[n]
                          /\ Tail(Rest(n)) = Rest(n + 1)
<1>1. PICK e : e = ExecuteAndGetData("RDHSB")
  OBVIOUS
<1>2. PICK x : x = <<<<"ifhalt">>>>
  OBVIOUS
<1>3. PICK p : p = x \o e
  OBVIOUS
<1>4. p = RdProgram
  BY <1>1, <1>2, <1>3 DEF RdProgram, CommandProgram
<1>5. e \in Seq(Accs) /\ Len(e) = 19
  BY <1>1, ExecuteAccesses
<1>6. x \in Seq(Accs) /\ Len(x) = 1 /\ x[1] = <<"ifhalt">>
  BY <1>2 DEF Accs, Tests
<1>7. /\ p \in Seq(Accs) /\ Len(p) = 20 /\ p[1] = x[1]
      /\ \A i \in 1 .. 19 : p[1 + i] = e[i]
  <2>1. /\ p \in Seq(Accs) /\ Len(p) = Len(x) + Len(e)
        /\ \A i \in 1 .. Len(x) : p[i] = x[i]
        /\ \A i \in 1 .. Len(e) : p[Len(x) + i] = e[i]
    <3>1. x \in Seq(Accs) /\ e \in Seq(Accs)
      BY <1>5, <1>6
    <3>2. QED
      BY <1>3, <3>1, Joined
  <2>2. QED
    BY <1>5, <1>6, <2>1
<1>8. \A i \in 1 .. 19 : HaltStatus[5 + i] = e[i]
  BY <1>1, HaltAccesses
<1>9. ASSUME NEW n \in 5 .. 24
      PROVE  p[n - 4] = HaltStatus[n]
  <2>1. CASE n = 5
    BY <1>6, <1>7, <2>1, HaltProgram
  <2>2. CASE n # 5
    <3>1. n - 5 \in 1 .. 19 /\ 1 + (n - 5) = n - 4 /\ 5 + (n - 5) = n
      BY <2>2
    <3>2. p[n - 4] = e[n - 5] /\ HaltStatus[n] = e[n - 5]
      BY <1>7, <1>8, <3>1
    <3>3. QED
      BY <3>2
  <2>3. QED
    BY <2>1, <2>2
<1>10. From(p, 1) = p /\ From(p, 21) = <<>>
  <2>1. From(p, Len(p) + 1) = <<>> /\ From(p, 1) = p
    BY <1>7, FromParts
  <2>2. Len(p) + 1 = 21
    BY <1>7
  <2>3. QED
    BY <2>1, <2>2
<1>11. ASSUME NEW m \in 1 .. 20
       PROVE  /\ From(p, m) # <<>> /\ Head(From(p, m)) = p[m]
              /\ Tail(From(p, m)) = From(p, m + 1)
  <2>1. m \in 1 .. Len(p)
    BY <1>7
  <2>2. QED
    BY <1>7, <2>1, FromParts
<1>12. ASSUME NEW m \in 1 .. 21
       PROVE  Len(From(p, m)) = 20 - m + 1
  <2>1. m \in 1 .. Len(p) + 1
    BY <1>7
  <2>2. \A i \in 1 .. Len(p) + 1 : Len(From(p, i)) = Len(p) - i + 1
    BY <1>7, FromParts, Zenon
  <2>3. QED
    BY <1>7, <2>1, <2>2
<1>13. \A n : Rest(n) = From(p, n - 4)
  BY <1>4 DEF Rest
<1>14. Rest(5) = p /\ Rest(25) = <<>>
  <2>1. 5 - 4 = 1 /\ 25 - 4 = 21
    OBVIOUS
  <2>2. Rest(5) = From(p, 1) /\ Rest(25) = From(p, 21)
    BY <1>13, <2>1
  <2>3. QED
    BY <1>10, <2>2
<1>15. ASSUME NEW n \in 5 .. 25
       PROVE  Len(Rest(n)) = 25 - n
  <2>1. n - 4 \in 1 .. 21
    OBVIOUS
  <2>2. Len(From(p, n - 4)) = 20 - (n - 4) + 1
    BY <1>12, <2>1
  <2>3. QED
    BY <1>13, <2>2
<1>16. ASSUME NEW n \in 5 .. 24
       PROVE  /\ Rest(n) # <<>> /\ Head(Rest(n)) = HaltStatus[n]
              /\ Tail(Rest(n)) = Rest(n + 1)
  <2>1. n - 4 \in 1 .. 20 /\ (n - 4) + 1 = (n + 1) - 4
    OBVIOUS
  <2>2. /\ From(p, n - 4) # <<>> /\ Head(From(p, n - 4)) = p[n - 4]
        /\ Tail(From(p, n - 4)) = From(p, (n + 1) - 4)
    BY <1>11, <2>1
  <2>3. Rest(n) = From(p, n - 4) /\ Rest(n + 1) = From(p, (n + 1) - 4)
    BY <1>13
  <2>4. QED
    BY <1>9, <2>2, <2>3
<1>17. QED
  BY <1>4, <1>7, <1>14, <1>15, <1>16

\* What the command task goes on with: a test may end it, putchar returns to
\* the output loop and the output loop calls it.
LEMMA CmdNext ==
    ASSUME CmdDecent, FirmTypes, Access("cmd")
    PROVE  \E q : /\ Goes("cmd", q)
                  /\ \/ q = Tail(prog["cmd"])
                     \/ /\ Head(prog["cmd"])[1] \notin {"addr", "wrstat"}
                        /\ q \in {<<>>, ConsoleOutput}
                     \/ Head(prog["cmd"])[1] = "output" /\ q = PutChar \o prog["cmd"]
<1> DEFINE p == prog["cmd"]
           Kinds == {"addr", "wrstat"}
           Next1(q) == \/ q = Tail(p)
                       \/ Head(p)[1] \notin Kinds /\ q \in {<<>>, ConsoleOutput}
                       \/ Head(p)[1] = "output" /\ q = PutChar \o p
<1>1. p \in Seq(Accs) /\ p # <<>> /\ Decent(p)
  BY ByName DEF CmdDecent, FirmTypes, Progs, Threads
<1>2. SUFFICES \E q : Goes("cmd", q) /\ Next1(q)
  OBVIOUS
<1>3. ASSUME NEW name \in {"ifhalt", "ifchar"}, NEW b \in BOOLEAN, Test("cmd", name, b)
      PROVE  \E q : Goes("cmd", q) /\ Next1(q)
  <2>1. Head(p)[1] \notin Kinds
    BY <1>3 DEF Test, Doing
  <2>2. Goes("cmd", IF b THEN Tail(p) ELSE <<>>)
    BY <1>3 DEF Test
  <2>3. Next1(IF b THEN Tail(p) ELSE <<>>)
    BY <2>1
  <2>4. QED
    BY <2>2, <2>3
<1>4. CASE accIfHalt("cmd") \/ accIfChar("cmd")
  <2>1. Head(p)[1] \notin Kinds
    BY <1>4 DEF accIfHalt, accIfChar, Test, Doing
  <2>2. Goes("cmd", Tail(p)) \/ Goes("cmd", <<>>)
    BY <1>4 DEF accIfHalt, accIfChar, Test
  <2>3. QED
    BY <2>1, <2>2
<1>5. CASE accIfNone("cmd")
  <2>1. Head(p)[1] \notin Kinds
    BY <1>5 DEF accIfNone, Doing
  <2>2. Goes("cmd", Tail(p)) \/ Goes("cmd", ConsoleOutput)
    BY <1>5 DEF accIfNone
  <2>3. QED
    BY <2>1, <2>2
<1>6. CASE accOutput("cmd")
  <2>1. Head(p)[1] = "output"
    BY <1>6 DEF accOutput, Doing
  <2>2. Goes("cmd", Tail(p)) \/ Goes("cmd", PutChar \o p)
    BY <1>6 DEF accOutput, Advance
  <2>3. QED
    BY <2>1, <2>2
<1>7. ~accReport("cmd")
  <2>1. Head(p) = p[1] /\ 1 \in 1 .. Len(p)
    BY <1>1, TailParts
  <2>2. Head(p)[1] # "report"
    BY <1>1, <2>1 DEF Decent, NoReport
  <2>3. QED
    BY <2>2 DEF accReport, Doing
<1>8. CASE ~(accReport("cmd") \/ accIfHalt("cmd") \/ accIfChar("cmd") \/ accIfNone("cmd")
             \/ accOutput("cmd"))
  <2>1. Advance("cmd")
    BY <1>8 DEF Access, accAddr, accData, accCir, accRdStat, accRdData, accWrStat, accPoll,
           accReturn, accSave, accDispatch, accRunning
  <2>2. QED
    BY <2>1 DEF Advance
<1>9. QED
  BY <1>4, <1>5, <1>6, <1>7, <1>8

\* What an access of any thread changes of what the threads share.
LEMMA Touches ==
    ASSUME FirmTypes, FpgaTypes, NEW t \in Threads, Access(t)
    PROVE  LET a == Head(prog[t])
           IN  /\ a[1] = "addr" => regADDR' = <<a[2], a[3]>>
               /\ a[1] # "addr" => regADDR' = regADDR
               /\ \/ flags' = flags
                  \/ a[1] = "wrstat" /\ flags' = ((stat[t] \cup a[2]) \ a[3]) \cap Flags
               /\ stat' = stat \/ stat' = [stat EXCEPT ![t] = flags]
               /\ mem'["TMP"] # mem["TMP"] => IsGo(a) /\ regADDR = <<"TMP", "wr">>
               /\ a[1] # "dispatch" => dispatch' = dispatch
<1> DEFINE a == Head(prog[t])
<1>1. CASE accAddr(t)
  BY <1>1 DEF accAddr, Doing, Arg, SameLocals, cpuVars
<1>2. CASE accRdStat(t)
  BY <1>2 DEF accRdStat, Doing, SameFpga, regVars, cpuVars
<1>3. CASE accWrStat(t)
  <2>1. /\ a[1] = "wrstat" /\ flags' = ((stat[t] \cup a[2]) \ a[3]) \cap Flags
        /\ UNCHANGED <<regADDR, stat, dispatch>> /\ BusCycle("GO" \in a[2])
    BY <1>3 DEF accWrStat, Doing, Arg, SameLocals
  <2>2. ASSUME NEW go \in BOOLEAN, BusCycle(go), mem'["TMP"] # mem["TMP"]
        PROVE  go /\ regADDR = <<"TMP", "wr">>
    <3>1. /\ regADDR = <<regADDR[1], regADDR[2]>> /\ regADDR[2] \in {"rd", "wr"}
          /\ mem \in [Words -> Values]
      BY DEF FpgaTypes, Addrs, Words, Written
    <3>2. QED
      BY <2>2, <3>1 DEF BusCycle, Words
  <2>3. ("GO" \in a[2]) \in BOOLEAN
    OBVIOUS
  <2>4. mem'["TMP"] # mem["TMP"] => IsGo(a) /\ regADDR = <<"TMP", "wr">>
    BY <2>1, <2>2, <2>3 DEF IsGo
  <2>5. QED
    BY <2>1, <2>4
<1>4. CASE ~(accAddr(t) \/ accRdStat(t) \/ accWrStat(t))
  <2>1. UNCHANGED <<regADDR, flags, stat, mem>>
    BY <1>4 DEF Access, accData, accCir, accRdData, accPoll, accIfHalt, accIfChar, Test,
           accIfNone, accReport, accReturn, accSave, accDispatch, accRunning, accOutput,
           SameLocals, SameFpga, regVars, cpuVars
  <2>2. a[1] # "addr" /\ (accDispatch(t) => a[1] = "dispatch")
    BY <1>4, ByName DEF accDispatch, Doing
  <2>3. ~accDispatch(t) => dispatch' = dispatch
    BY <1>4 DEF Access, accData, accCir, accRdData, accPoll, accIfHalt, accIfChar, Test,
           accIfNone, accReport, accReturn, accSave, accRunning, accOutput, SameLocals
  <2>4. QED
    BY <2>1, <2>2, <2>3
<1>5. QED
  BY <1>1, <1>2, <1>3, <1>4

-----------------------------------------------------------------------------
(* Where a thread in those accesses is, and what holds there.              *)

RdPc    == 25 - Len(prog["cmd"])
InHaltX == InStatus /\ HaltPc \in 6 .. 24
InRdX   == cmd = "RD" /\ RdPc \in 6 .. 24

\* The KS10 stays in its halt loop until the thread executes RDHSB; the word
\* is what it was but for the time between that and the write of what has been
\* saved; and no other access executes an instruction.
HeldAt(t, n) ==
    /\ n \in 6 .. 14 => cpu = "HALTLP" /\ "CONT" \notin flags
    /\ n \in {8, 14} => "CONT" \notin stat[t]
    /\ n \in {9, 23, 24} => regDATA = "tmp"
    /\ n = 10 => val[t] = "tmp"
    /\ n \in 11 .. 24 => saved[t] = "tmp"
    /\ n \notin 15 .. 24 => mem["TMP"] = "tmp"
    /\ "EXEC" \in flags => n = 15 /\ "CONT" \in flags /\ cpu = "HALTLP"
    /\ cpu = "XCT" => n = 15
    /\ n \in (7 .. 14) \cup (18 .. 25) => regADDR = HaltAddr(n)

\* RD HSB is not interrupted: the KS10 halts again while dispatchHaltInterrupt
\* is clear, and does nothing before and after.
Undisturbed(n) ==
    /\ prog["halt"] = <<>>
    /\ n # 15 => /\ prog["cons"] = <<>> /\ ~consPend /\ ~haltPend
                 /\ cpu = "HALTLP" /\ "CONT" \notin flags
    /\ n \in 12 .. 16 => ~dispatch
    /\ n \in {8, 14, 19, 24} => "CONT" \notin stat["cmd"]

\* When no thread is in those accesses, none will write the word, although
\* the address that the last one left may still be there.
Resting == /\ mem["TMP"] = "tmp" /\ "EXEC" \notin flags /\ cpu # "XCT"
           /\ regADDR = <<"TMP", "wr">> => \/ InStatus /\ HaltPc = 25
                                          \/ GoSafe(prog["cmd"])

NoExecs == \A t \in Threads : "EXEC" \notin stat[t]
RdPlace == cmd = "RD" => RdPc \in 5 .. 24 /\ prog["cmd"] = Rest(RdPc)

\* What the other commands still have to do.
Keeps(a)   == /\ ~(a[1] = "addr" /\ a[2] = "TMP" /\ a[3] = "wr")
              /\ a[1] = "wrstat" => "EXEC" \notin a[2]
AllKeep(p) == \A i \in 1 .. Len(p) : Keeps(p[i])
CmdKeeps   == cmd # "RD" => AllKeep(prog["cmd"])

TmpInv == /\ InHaltX => HeldAt("halt", HaltPc)
          /\ InRdX => HeldAt("cmd", RdPc) /\ Undisturbed(RdPc)
          /\ ~InHaltX /\ ~InRdX => Resting
          /\ NoExecs /\ RdPlace /\ CmdKeeps /\ CmdDecent

-----------------------------------------------------------------------------
(* The programs of the commands.                                           *)

LEMMA KeepsKinds ==
    ASSUME NEW a
    PROVE  /\ a[1] \notin {"addr", "wrstat"} => Keeps(a)
           /\ a[1] = "addr" /\ a[2] # "TMP" => Keeps(a)
           /\ a[1] = "wrstat" /\ "EXEC" \notin a[2] => Keeps(a)
BY DEF Keeps

Kept == {a \in Accs : Keeps(a)}

LEMMA KeptPrograms ==
    ASSUME NEW c \in {"HA", "SI", "CO", "EM"}
    PROVE  CommandProgram(c) \in Seq(Kept) /\ ConsoleOutput \in Seq(Kept)
<1>1. /\ <<"poll">> \in Kept /\ <<"rdstat">> \in Kept /\ <<"rddata">> \in Kept
      /\ <<"output">> \in Kept
  BY KeepsKinds DEF Kept, Accs, Tests
<1>2. <<"addr", "X", "rd">> \in Kept
  BY KeepsKinds DEF Kept, Accs, Words
<1>3. <<"running", TRUE>> \in Kept /\ <<"running", FALSE>> \in Kept
  <2>1. ASSUME NEW b \in BOOLEAN
        PROVE  <<"running", b>> \in Kept
    BY SwitchTypes, KeepsKinds DEF Kept
  <2>2. QED
    BY <2>1
<1>4. ASSUME NEW s \in SUBSET (StatusBits \ {"EXEC"}), NEW k \in SUBSET StatusBits
      PROVE  Modify(s, k) \in Seq(Kept)
  <2>1. <<"wrstat", s, k>> \in Accs
    BY StatusTypes
  <2>2. <<"wrstat", s, k>> \in Kept
    BY <2>1, KeepsKinds DEF Kept
  <2>3. QED
    BY <1>1, <2>2 DEF Modify
<1>5. /\ Modify({}, {"RUN"}) \in Seq(Kept) /\ Modify({"CONT"}, {}) \in Seq(Kept)
      /\ Modify({"RUN", "CONT"}, {}) \in Seq(Kept) /\ Modify({}, {}) \in Seq(Kept)
      /\ Modify({"GO"}, {}) \in Seq(Kept)
  BY <1>4 DEF StatusBits, Flags
<1>6. ReadMem("X") \in Seq(Kept) /\ ConsoleOutput \in Seq(Kept)
  BY <1>1, <1>2, <1>3, <1>5 DEF ReadMem, GoBit, ConsoleOutput
<1>7. CASE c = "HA"
  BY <1>1, <1>5, <1>6, <1>7 DEF CommandProgram, UntilHalt
<1>8. CASE c = "SI" \/ c = "CO"
  BY <1>5, <1>6, <1>8 DEF CommandProgram
<1>9. CASE c = "EM"
  BY <1>5, <1>6, <1>9 DEF CommandProgram, NxmNxd
<1>10. QED
  BY <1>7, <1>8, <1>9

LEMMA KeptKeeps ==
    ASSUME NEW p \in Seq(Kept)
    PROVE  \A i \in 1 .. Len(p) : Keeps(p[i])
BY ElementOfSeq DEF Kept

LEMMA KeptPut ==
    /\ PutChar \in Seq(Accs)
    /\ \A i \in 1 .. Len(PutChar) : Keeps(PutChar[i])
<1>1. PICK a : a = PutChar
  OBVIOUS
<1>2. a \in Seq(Accs) /\ Len(a) = 12
  BY <1>1, HandlerTypes, PutCharAccesses
<1>3. /\ a[1] = <<"addr", "CTYIN", "rd">> /\ a[2] = <<"rdstat">>
      /\ a[3] = <<"wrstat", {"GO"}, {}>> /\ a[4] = <<"rddata">> /\ a[5] = <<"ifnone">>
      /\ a[6] = <<"addr", "CTYIN", "wr">> /\ a[7] = <<"data", "char">> /\ a[8] = <<"rdstat">>
      /\ a[9] = <<"wrstat", {"GO"}, {}>> /\ a[10] = <<"rdstat">>
      /\ a[11] = <<"wrstat", {"INTR"}, {}>> /\ a[12] = <<"wrstat", {}, {}>>
  BY <1>1 DEF PutChar, ReadMem, WriteMem, GoBit, Modify, CpuIntr
<1>4. ASSUME NEW i \in 1 .. 12
      PROVE  Keeps(a[i])
  <2>1. CASE i \in {1, 6}
    BY <1>3, <2>1, KeepsKinds
  <2>2. CASE i \in {2, 4, 5, 7, 8, 10}
    BY <1>3, <2>2, KeepsKinds
  <2>3. CASE i \in {3, 9, 11, 12}
    BY <1>3, <2>3, KeepsKinds
  <2>4. QED
    BY <2>1, <2>2, <2>3
<1>5. QED
  BY <1>1, <1>2, <1>4

\* What the command task goes on with is as harmless as what it had.
LEMMA CmdGoes ==
    ASSUME CmdDecent, FirmTypes, Access("cmd")
    PROVE  LET p == prog["cmd"]
           IN  /\ p \in Seq(Accs) /\ p # <<>> /\ Head(p) = p[1] /\ 1 \in 1 .. Len(p)
               /\ \E q : /\ Goes("cmd", q) /\ Decent(q)
                         /\ AllKeep(p) => AllKeep(q)
                         /\ GoSafe(p) /\ Head(p)[1] # "addr" => GoSafe(q) /\ ~IsGo(Head(p))
                         /\ Head(p)[1] \in {"addr", "wrstat"} => q = Tail(p)
<1>1. PICK p : p = prog["cmd"]
  OBVIOUS
<1>2. p \in Seq(Accs) /\ p # <<>> /\ Decent(p)
  BY <1>1, ByName DEF CmdDecent, FirmTypes, Progs, Threads
<1>3. PICK r : r = Tail(p)
  OBVIOUS
<1>4. /\ r \in Seq(Accs) /\ Len(r) \in Nat /\ Len(p) = Len(r) + 1 /\ Head(p) = p[1]
      /\ \A i \in 1 .. Len(r) : r[i] = p[i + 1]
  BY <1>2, <1>3, TailParts
<1>5. Decent(r) /\ (GoSafe(p) /\ Head(p)[1] # "addr" => GoSafe(r) /\ ~IsGo(Head(p)))
  BY <1>2, <1>3, DecentTail
<1>6. AllKeep(p) => AllKeep(r)
  <2>1. ASSUME AllKeep(p), NEW i \in 1 .. Len(r)
        PROVE  Keeps(r[i])
    <3>1. i + 1 \in 1 .. Len(p) /\ r[i] = p[i + 1]
      BY <1>4
    <3>2. QED
      BY <2>1, <3>1 DEF AllKeep
  <2>2. QED
    BY <2>1 DEF AllKeep
<1>7. Decent(<<>>) /\ GoSafe(<<>>) /\ AllKeep(<<>>)
  BY EmptyIsDecent DEF AllKeep
<1>8. Decent(ConsoleOutput) /\ GoSafe(ConsoleOutput) /\ AllKeep(ConsoleOutput)
  BY MildPrograms, MildIsDecent, KeptPrograms, KeptKeeps DEF AllKeep
<1>9. PICK o : o = PutChar \o p
  OBVIOUS
<1>10. AllKeep(p) => AllKeep(o)
  <2>1. /\ Len(PutChar) \in Nat /\ Len(p) \in Nat /\ Len(o) = Len(PutChar) + Len(p)
        /\ \A i \in 1 .. Len(PutChar) : o[i] = PutChar[i]
        /\ \A i \in 1 .. Len(p) : o[Len(PutChar) + i] = p[i]
    <3>1. PutChar \in Seq(Accs)
      BY KeptPut
    <3>2. QED
      BY <1>2, <1>9, <3>1, Joined, LenProperties
  <2>2. ASSUME AllKeep(p), NEW i \in 1 .. Len(o)
        PROVE  Keeps(o[i])
    <3>1. CASE i \in 1 .. Len(PutChar)
      BY <2>1, <3>1, KeptPut
    <3>2. CASE i \notin 1 .. Len(PutChar)
      <4>1. PICK k \in 1 .. Len(p) : i = Len(PutChar) + k
        <5>1. i - Len(PutChar) \in 1 .. Len(p) /\ i = Len(PutChar) + (i - Len(PutChar))
          BY <2>1, <3>2
        <5>2. QED
          BY <5>1
      <4>2. o[i] = p[k]
        BY <2>1, <4>1
      <4>3. QED
        BY <2>2, <4>2 DEF AllKeep
    <3>3. QED
      BY <3>1, <3>2
  <2>3. QED
    BY <2>2 DEF AllKeep
<1>11. Head(p)[1] = "output" => Decent(o) /\ GoSafe(o)
  BY <1>2, <1>9, DecentPut, PutCharKinds, HandlerTypes
<1>12. Head(p)[1] \notin {"addr", "wrstat"} => ~IsGo(Head(p))
  BY DEF IsGo
<1> DEFINE Next1(q) == /\ Goes("cmd", q) /\ Decent(q)
                       /\ AllKeep(p) => AllKeep(q)
                       /\ GoSafe(p) /\ Head(p)[1] # "addr" => GoSafe(q) /\ ~IsGo(Head(p))
                       /\ Head(p)[1] \in {"addr", "wrstat"} => q = Tail(p)
<1>13. \E q : Next1(q)
  <2>1. CASE Goes("cmd", r)
    <3>1. Next1(r)
      BY <1>3, <1>5, <1>6, <2>1
    <3>2. QED
      BY <3>1
  <2>2. ASSUME NEW q \in {<<>>, ConsoleOutput}, Goes("cmd", q),
               Head(p)[1] \notin {"addr", "wrstat"}
        PROVE  \E x : Next1(x)
    <3>1. Next1(q)
      BY <1>7, <1>8, <1>12, <2>2
    <3>2. QED
      BY <3>1
  <2>3. ASSUME Goes("cmd", o), Head(p)[1] = "output"
        PROVE  \E q : Next1(q)
    <3>1. Next1(o)
      BY <1>10, <1>11, <1>12, <2>3
    <3>2. QED
      BY <3>1
  <2>4. QED
    BY <1>1, <1>3, <1>9, <2>1, <2>2, <2>3, CmdNext
<1>14. 1 \in 1 .. Len(p)
  BY <1>4
<1>15. QED
  BY <1>1, <1>2, <1>4, <1>13, <1>14

-----------------------------------------------------------------------------
(* A thread on its way through the accesses.                               *)

\* It goes on, unless the test sees that the KS10 runs.
LEMMA StatusProg ==
    ASSUME NEW t, NEW n \in 1 .. 29, NEW next, StatusDoes(t, n, next)
    PROVE  IF n = 5 /\ ~halt THEN prog'[t] = <<>> ELSE prog'[t] = next
<1>1. n \notin {5} => prog'[t] = next
  BY DEF StatusDoes
<1>2. n = 5 => prog'[t] = IF halt THEN next ELSE <<>>
  BY DEF StatusDoes, AddrAt, StatAt, GoAt, DataAt
<1>3. QED
  BY <1>1, <1>2

\* An instruction is executed at once: the console sees none to execute.
LEMMA NoneNow ==
    ASSUME TmpInv, ~Urgent
    PROVE  "EXEC" \notin flags
BY DEF TmpInv, HeldAt, Resting, Urgent

\* It begins when the test has seen the HALT line.
LEMMA XEnter ==
    ASSUME Resting, NoExecs, HaltLoop, ~Urgent, halt, NEW t \in {"cmd", "halt"},
           UNCHANGED <<flags, cpu, mem>>
    PROVE  HeldAt(t, 6)'
<1>1. cpu = "HALTLP" /\ "CONT" \notin flags
  BY DEF HaltLoop, Urgent
<1>2. QED
  BY <1>1 DEF HeldAt, Resting

LEMMA XStep ==
    ASSUME FirmTypes, FpgaTypes, NoExecs, HaltLoop, ~Urgent, NEW t \in {"cmd", "halt"},
           NEW n \in 6 .. 24, HeldAt(t, n), NEW next, StatusDoes(t, n, next),
           UNCHANGED <<halt, cpu>>
    PROVE  HeldAt(t, n + 1)'
<1>1. /\ n \in AddrAt => regADDR' = HaltAddr(n + 1)
      /\ n \notin AddrAt => regADDR' = regADDR
      /\ n \in StatAt => stat'[t] = flags
      /\ n \notin StatAt => stat' = stat
      /\ n \in GoAt => BusGo /\ flags' = stat[t]
      /\ n \notin GoAt => mem' = mem
      /\ n = 14 => flags' = stat[t] \cup {"CONT", "EXEC"}
      /\ n \notin GoAt \cup {14} => flags' = flags
      /\ n = 22 => regDATA' = saved[t]
      /\ n \notin GoAt \cup {22} => regDATA' = regDATA
      /\ n \in DataAt => val'[t] = regDATA
      /\ n \notin DataAt => val' = val
      /\ n = 10 => saved'[t] = val[t]
      /\ n # 10 => saved' = saved
      /\ n = 15 => halt
  <2>1. n \in 1 .. 29
    OBVIOUS
  <2>2. /\ n \in AddrAt => regADDR' = HaltAddr(n + 1)
        /\ n \notin AddrAt => regADDR' = regADDR
        /\ n \in StatAt => stat'[t] = flags
        /\ n \notin StatAt => stat' = stat
    BY <2>1, StatusEffects, ZenonT(30)
  <2>3. /\ n \in GoAt => BusGo /\ flags' = stat[t]
        /\ n \notin GoAt => mem' = mem
        /\ n = 14 => flags' = stat[t] \cup {"CONT", "EXEC"}
        /\ n \notin GoAt \cup {14} => flags' = flags
    BY <2>1, StatusEffects, ZenonT(30)
  <2>4. /\ n = 22 => regDATA' = saved[t]
        /\ n \notin GoAt \cup {22} => regDATA' = regDATA
        /\ n \in DataAt => val'[t] = regDATA
        /\ n \notin DataAt => val' = val
    BY <2>1, StatusEffects, ZenonT(30)
  <2>5. /\ n = 10 => saved'[t] = val[t]
        /\ n # 10 => saved' = saved
        /\ n = 15 => halt
    BY <2>1, StatusEffects, ZenonT(30)
  <2>6. QED
    BY <2>2, <2>3, <2>4, <2>5, Zenon
<1>2. "EXEC" \notin flags /\ "EXEC" \notin stat[t]
  BY DEF HeldAt, Urgent, NoExecs, Threads
<1>3. n + 1 \in 6 .. 14 => cpu' = "HALTLP" /\ "CONT" \notin flags'
  <2>1. SUFFICES ASSUME n \in 6 .. 13 PROVE cpu = "HALTLP" /\ "CONT" \notin flags'
    OBVIOUS
  <2>2. cpu = "HALTLP" /\ "CONT" \notin flags
    BY <2>1 DEF HeldAt
  <2>3. CASE n = 8
    BY <1>1, <2>2, <2>3 DEF HeldAt, GoAt
  <2>4. CASE n # 8
    <3>1. n \notin GoAt \cup {14}
      BY <2>1, <2>4 DEF GoAt
    <3>2. QED
      BY <1>1, <2>2, <3>1
  <2>5. QED
    BY <2>3, <2>4
<1>4. n + 1 \in {8, 14} => "CONT" \notin stat'[t]
  <2>1. SUFFICES ASSUME n \in {7, 13} PROVE "CONT" \notin stat'[t]
    OBVIOUS
  <2>2. "CONT" \notin flags /\ stat'[t] = flags
    BY <1>1, <2>1 DEF HeldAt, StatAt
  <2>3. QED
    BY <2>2
<1>5. n + 1 \in {9, 23, 24} => regDATA' = "tmp"
  <2>1. CASE n = 8
    <3>1. regADDR = <<"TMP", "rd">> /\ mem["TMP"] = "tmp"
      BY <2>1 DEF HeldAt, HaltAddr
    <3>2. BusGo
      BY <1>1, <2>1 DEF GoAt
    <3>3. QED
      BY <3>1, <3>2 DEF BusGo, BusCycle
  <2>2. CASE n = 22
    BY <1>1, <2>2 DEF HeldAt
  <2>3. CASE n = 23
    <3>1. n \notin GoAt \cup {22}
      BY <2>3 DEF GoAt
    <3>2. QED
      BY <1>1, <2>3, <3>1 DEF HeldAt
  <2>4. QED
    BY <2>1, <2>2, <2>3
<1>6. n + 1 = 10 => val'[t] = "tmp"
  <2>1. SUFFICES ASSUME n = 9 PROVE val'[t] = "tmp"
    OBVIOUS
  <2>2. QED
    BY <1>1, <2>1 DEF HeldAt, DataAt
<1>7. n + 1 \in 11 .. 24 => saved'[t] = "tmp"
  <2>1. SUFFICES ASSUME n \in 10 .. 23 PROVE saved'[t] = "tmp"
    OBVIOUS
  <2>2. CASE n = 10
    BY <1>1, <2>2 DEF HeldAt
  <2>3. CASE n # 10
    BY <1>1, <2>1, <2>3 DEF HeldAt
  <2>4. QED
    BY <2>2, <2>3
<1>8. n + 1 \notin 15 .. 24 => mem'["TMP"] = "tmp"
  <2>1. CASE n = 24
    <3>1. regADDR = <<"TMP", "wr">> /\ regDATA = "tmp"
      BY <2>1 DEF HeldAt, HaltAddr
    <3>2. BusGo
      BY <1>1, <2>1 DEF GoAt
    <3>3. QED
      BY <3>1, <3>2 DEF BusGo, BusCycle, FpgaTypes, Words
  <2>2. CASE n \in 6 .. 13
    <3>1. mem["TMP"] = "tmp"
      BY <2>2 DEF HeldAt
    <3>2. CASE n = 8
      <4>1. regADDR = <<"TMP", "rd">>
        BY <3>2 DEF HeldAt, HaltAddr
      <4>2. BusGo
        BY <1>1, <3>2 DEF GoAt
      <4>3. QED
        BY <3>1, <4>1, <4>2 DEF BusGo, BusCycle
    <3>3. CASE n # 8
      BY <1>1, <2>2, <3>1, <3>3 DEF GoAt
    <3>4. QED
      BY <3>2, <3>3
  <2>3. QED
    BY <2>1, <2>2
<1>9. "EXEC" \in flags' => n + 1 = 15 /\ "CONT" \in flags' /\ cpu' = "HALTLP"
  <2>1. CASE n = 14
    BY <1>1, <2>1 DEF HeldAt
  <2>2. CASE n # 14
    BY <1>1, <1>2, <2>2
  <2>3. QED
    BY <2>1, <2>2
<1>10. cpu' = "XCT" => n + 1 = 15
  <2>1. n = 15 => cpu = "HALTLP"
    BY <1>1 DEF HaltLoop
  <2>2. n # 15 => cpu # "XCT"
    BY DEF HeldAt
  <2>3. QED
    BY <2>1, <2>2
<1>11. n + 1 \in (7 .. 14) \cup (18 .. 25) => regADDR' = HaltAddr(n + 1)
  <2>1. CASE n \in AddrAt
    BY <1>1, <2>1
  <2>2. CASE n \notin AddrAt /\ n + 1 \in (7 .. 14) \cup (18 .. 25)
    <3>1. n \in (7 .. 13) \cup (18 .. 20) \cup (22 .. 24)
      BY <2>2 DEF AddrAt
    <3>2. HaltAddr(n + 1) = HaltAddr(n)
      BY <3>1 DEF HaltAddr
    <3>3. regADDR = HaltAddr(n)
      BY <3>1 DEF HeldAt
    <3>4. QED
      BY <1>1, <2>2, <3>2, <3>3
  <2>3. QED
    BY <2>1, <2>2
<1>12. QED
  BY <1>3, <1>4, <1>5, <1>6, <1>7, <1>8, <1>9, <1>10, <1>11 DEF HeldAt

\* It has ended when the word is restored.
LEMMA XLeave ==
    ASSUME NEW t, HeldAt(t, 25)'
    PROVE  /\ mem'["TMP"] = "tmp" /\ "EXEC" \notin flags' /\ cpu' # "XCT"
           /\ regADDR' = <<"TMP", "wr">>
BY DEF HeldAt, HaltAddr

\* The KS10 moves only at the fifteenth access, where the thread waits for it.
LEMMA XCpu ==
    ASSUME FpgaTypes, NEW t, NEW n \in 6 .. 24, HeldAt(t, n), Cpu
    PROVE  HeldAt(t, n)' /\ ~(cpu = "HALTLP" /\ "CONT" \notin flags)
<1>1. UNCHANGED <<stat, val, saved, regADDR, regDATA>>
  BY DEF Cpu, cpuInstr, cpuXct, cpuHalted, cpuSetHalt, cpuUnhalt, SetHalt, firmVars, regVars
<1>2. ~(cpu = "HALTLP" /\ "CONT" \notin flags)
  BY DEF Cpu, cpuInstr, cpuXct, cpuHalted, cpuSetHalt, cpuUnhalt, SetHalt, Urgent
<1>3. n \notin 6 .. 14
  BY <1>2 DEF HeldAt
<1>4. cpu = "XCT" => n = 15
  BY DEF HeldAt
<1>5. "EXEC" \in flags => n = 15 /\ "CONT" \in flags /\ cpu = "HALTLP"
  BY DEF HeldAt
<1>6. "EXEC" \notin flags'
  BY <1>5 DEF Cpu, cpuInstr, cpuXct, cpuHalted, cpuSetHalt, cpuUnhalt, SetHalt
<1>7. cpu' = "XCT" => n = 15
  BY <1>5 DEF Cpu, cpuInstr, Nicond, cpuXct, cpuHalted, cpuSetHalt, cpuUnhalt, SetHalt
<1>8. QED
  BY <1>1, <1>2, <1>3, <1>6, <1>7 DEF HeldAt

-----------------------------------------------------------------------------
(* The steps.                                                              *)

\* A step that leaves the word and the KS10 alone.
LEMMA RestStep ==
    ASSUME Resting, "EXEC" \notin flags', cpu' = cpu, mem'["TMP"] = mem["TMP"],
           regADDR' = <<"TMP", "wr">> => \/ InStatus' /\ HaltPc' = 25
                                         \/ GoSafe(prog'["cmd"])
    PROVE  Resting'
BY DEF Resting

\* The status that a thread has read.
LEMMA StatStep ==
    ASSUME FirmTypes, FpgaTypes, NoExecs, "EXEC" \notin flags, NEW t \in Threads, Access(t)
    PROVE  NoExecs'
<1>1. stat' = stat \/ stat' = [stat EXCEPT ![t] = flags]
  BY Touches
<1>2. QED
  BY <1>1 DEF NoExecs, FirmTypes

\* The place of the handler, and of RD HSB.
LEMMA HaltPlaces ==
    ASSUME HandlerInv, InStatus, prog["halt"] # <<>>
    PROVE  /\ HaltPc \in 1 .. 29 /\ prog["halt"] = From(HaltStatus, HaltPc)
<1>1. HaltPc \in 1 .. 30 /\ prog["halt"] = From(HaltStatus, HaltPc)
  BY DEF HandlerInv, InHalt
<1>2. From(HaltStatus, 30) = <<>>
  BY Places
<1>3. HaltPc # 30
  BY <1>1, <1>2, Zenon
<1>4. HaltPc \in 1 .. 29
  BY <1>1, <1>3
<1>5. QED
  BY <1>1, <1>4

LEMMA RdPlaceNext ==
    ASSUME NEW n \in 5 .. 25, prog'["cmd"] = Rest(n)
    PROVE  RdPc' = n
<1>1. Len(prog'["cmd"]) = 25 - n
  BY RdPlaces
<1>2. QED
  BY <1>1 DEF RdPc

\* The handler leaves the command task where it is.
LEMMA TmpCmd ==
    ASSUME FirmTypes, TmpInv, NEW t \in {"cons", "halt"}, Access(t)
    PROVE  /\ prog'["cmd"] = prog["cmd"] /\ cmd' = cmd /\ RdPc' = RdPc
           /\ InRdX' <=> InRdX
           /\ RdPlace' /\ CmdKeeps' /\ CmdDecent'
<1>1. prog'["cmd"] = prog["cmd"] /\ cmd' = cmd
  BY AccessFrame DEF Threads
<1>2. RdPc' = RdPc
  BY <1>1 DEF RdPc
<1>3. (InRdX' <=> InRdX)
  BY <1>1, <1>2 DEF InRdX
<1>4. RdPlace' /\ CmdKeeps' /\ CmdDecent'
  BY <1>1, <1>2 DEF TmpInv, RdPlace, CmdKeeps, CmdDecent
<1>5. QED
  BY <1>1, <1>2, <1>3, <1>4

LEMMA TmpHalt ==
    ASSUME FirmTypes, FpgaTypes, HandlerInv, HaltLoop, TmpInv, Access("halt")
    PROVE  TmpInv'
<1>1. prog["halt"] # <<>> /\ ~Urgent /\ "EXEC" \notin flags
  BY Alone, NoneNow DEF Threads
<1>2. ~InRdX /\ ~InRdX' /\ RdPlace' /\ CmdKeeps' /\ CmdDecent' /\ prog'["cmd"] = prog["cmd"]
  <2>1. ~InRdX
    BY <1>1 DEF TmpInv, Undisturbed
  <2>2. QED
    BY <2>1, TmpCmd
<1>3. NoExecs' /\ NoExecs /\ UNCHANGED <<halt, cpu>>
  BY <1>1, StatStep, AccessFrame DEF TmpInv, Threads
<1>4. ASSUME ~InHaltX', Resting'
      PROVE  TmpInv'
  BY <1>2, <1>3, <1>4 DEF TmpInv
<1>5. ASSUME InHaltX', HeldAt("halt", HaltPc)'
      PROVE  TmpInv'
  BY <1>2, <1>3, <1>5 DEF TmpInv
<1>6. CASE prog["halt"] = HaltReport
  <2>1. ~InStatus /\ Resting
    BY <1>2, <1>6 DEF TmpInv, InStatus, InHaltX
  <2>2. accReport("halt")
    <3>1. Head(prog["halt"])[1] = "report"
      BY <1>6 DEF HaltReport
    <3>2. QED
      BY <3>1, ByName
  <2>3. UNCHANGED <<regADDR, flags, mem>>
    BY <2>2 DEF accReport, SameFpga, regVars, cpuVars
  <2>4. Resting'
    BY <1>2, <1>3, <2>1, <2>3 DEF Resting
  <2>5. prog'["halt"] = IF halt THEN HaltStatus ELSE Tail(HaltReport)
    BY <1>6, <2>2, GoesFrame DEF accReport, Threads
  <2>6. ~InHaltX'
    <3>1. CASE halt
      <4>1. prog'["halt"] = From(HaltStatus, 1)
        BY <2>5, <3>1, Places
      <4>2. HaltPc' = 1
        BY <4>1, HaltPlace
      <4>3. QED
        BY <4>2 DEF InHaltX
    <3>2. CASE ~halt
      <4>1. prog'["halt"] = From(HaltStatus, 29)
        BY <2>5, <3>2, Places
      <4>2. HaltPc' = 29
        BY <4>1, HaltPlace
      <4>3. QED
        BY <4>2 DEF InHaltX
    <3>3. QED
      BY <3>1, <3>2
  <2>7. QED
    BY <1>4, <2>4, <2>6
<1>7. CASE InStatus
  <2>1. PICK n \in 1 .. 29 : n = HaltPc /\ prog["halt"] = From(HaltStatus, n)
    BY <1>1, <1>7, HaltPlaces
  <2>2. HaltDoes(n)
    BY <2>1, HaltStep
  <2>3. /\ n \in AddrAt => regADDR' = HaltAddr(n + 1)
        /\ n \notin AddrAt => regADDR' = regADDR
        /\ n \in GoAt => BusGo /\ flags' = stat["halt"]
        /\ n \notin GoAt => mem' = mem
        /\ n \notin GoAt \cup {14} => flags' = flags
        /\ IF n = 5 /\ ~halt THEN prog'["halt"] = <<>>
           ELSE prog'["halt"] = From(HaltStatus, n + 1)
    <3>1. PICK x : x = From(HaltStatus, n + 1)
      OBVIOUS
    <3>2. StatusDoes("halt", n, x)
      BY <2>2, <3>1 DEF HaltDoes
    <3>3. /\ n \in AddrAt => regADDR' = HaltAddr(n + 1)
          /\ n \notin AddrAt => regADDR' = regADDR
          /\ n \in GoAt => BusGo /\ flags' = stat["halt"]
          /\ n \notin GoAt => mem' = mem
      BY <3>2, StatusEffects
    <3>4. n \notin GoAt \cup {14} => flags' = flags
      BY <3>2, StatusEffects
    <3>5. IF n = 5 /\ ~halt THEN prog'["halt"] = <<>> ELSE prog'["halt"] = x
      BY <3>2, StatusProg
    <3>6. QED
      BY <3>1, <3>3, <3>4, <3>5
  <2>4. n \in 2 .. 28 => regADDR = HaltAddr(n)
    BY <1>7, <2>1 DEF HandlerInv, HaltRegs
  <2>5. prog'["halt"] = From(HaltStatus, n + 1) => HaltPc' = n + 1 /\ InStatus'
    <3>1. n + 1 \in 1 .. 30
      OBVIOUS
    <3>2. QED
      BY <3>1, HaltPlace, Zenon
  <2>6. prog'["halt"] = <<>> => ~InHaltX'
    BY NoHandler DEF InHaltX
  <2>7. CASE n \in 6 .. 24
    <3>1. HeldAt("halt", n)
      BY <1>7, <2>1, <2>7 DEF TmpInv, InHaltX
    <3>2. HeldAt("halt", n + 1)'
      BY <1>1, <1>3, <2>2, <2>7, <3>1, XStep DEF HaltDoes
    <3>3. HaltPc' = n + 1 /\ InStatus'
      BY <2>3, <2>5, <2>7
    <3>4. CASE n # 24
      <4>1. InHaltX'
        BY <2>7, <3>3, <3>4 DEF InHaltX
      <4>2. HeldAt("halt", HaltPc)'
        BY <3>2, <3>3
      <4>3. QED
        BY <1>5, <4>1, <4>2
    <3>5. CASE n = 24
      <4>1. HaltPc' = 25 /\ ~InHaltX'
        BY <3>3, <3>5 DEF InHaltX
      <4>2. HeldAt("halt", 25)'
        BY <3>2, <3>5
      <4>3. Resting'
        BY <3>3, <4>1, <4>2, XLeave DEF Resting
      <4>4. QED
        BY <1>4, <4>1, <4>3
    <3>6. QED
      BY <3>4, <3>5
  <2>8. CASE n \notin 6 .. 24
    <3>1. Resting
      BY <1>2, <2>1, <2>8 DEF TmpInv, InHaltX
    <3>2. CASE n = 5 /\ halt
      <4>1. n \notin GoAt \cup {14} /\ n \notin GoAt
        BY <3>2 DEF GoAt
      <4>2. HeldAt("halt", 6)'
        BY <1>1, <1>3, <2>3, <3>1, <3>2, <4>1, XEnter
      <4>3. HaltPc' = 6 /\ InStatus'
        BY <2>3, <2>5, <3>2
      <4>4. InHaltX' /\ HeldAt("halt", HaltPc)'
        BY <4>2, <4>3 DEF InHaltX
      <4>5. QED
        BY <1>5, <4>4
    <3>3. CASE ~(n = 5 /\ halt)
      <4>1. ~InHaltX'
        <5>1. CASE n = 5
          BY <2>3, <2>6, <3>3, <5>1
        <5>2. CASE n # 5
          BY <2>3, <2>5, <2>8, <5>2 DEF InHaltX
        <5>3. QED
          BY <5>1, <5>2
      <4>2. mem'["TMP"] = mem["TMP"] /\ "EXEC" \notin flags'
        <5>1. CASE n \in GoAt
          <6>1. n \in {3, 27} /\ n \in 2 .. 28
            BY <2>8, <5>1 DEF GoAt
          <6>2. regADDR[2] = "rd"
            BY <2>4, <6>1 DEF HaltAddr
          <6>3. BusGo /\ flags' = stat["halt"]
            BY <2>3, <5>1
          <6>4. QED
            BY <1>3, <6>2, <6>3 DEF BusGo, BusCycle, NoExecs, Threads
        <5>2. CASE n \notin GoAt
          BY <1>1, <2>3, <2>8, <5>2
        <5>3. QED
          BY <5>1, <5>2
      <4>3. regADDR' = <<"TMP", "wr">> => GoSafe(prog'["cmd"])
        <5>1. CASE n \in AddrAt
          <6>1. n \in {1, 25}
            BY <2>8, <5>1 DEF AddrAt
          <6>2. regADDR' # <<"TMP", "wr">>
            BY <2>3, <5>1, <6>1 DEF HaltAddr
          <6>3. QED
            BY <6>2
        <5>2. CASE n \notin AddrAt
          <6>1. n # 25 /\ regADDR' = regADDR
            BY <2>3, <5>2 DEF AddrAt
          <6>2. QED
            BY <1>2, <2>1, <3>1, <6>1 DEF Resting
        <5>3. QED
          BY <5>1, <5>2
      <4>4. Resting'
        BY <1>3, <3>1, <4>2, <4>3, RestStep
      <4>5. QED
        BY <1>4, <4>1, <4>4
    <3>4. QED
      BY <3>2, <3>3
  <2>9. QED
    BY <2>7, <2>8
<1>8. QED
  BY <1>6, <1>7 DEF InStatus

\* The handler of the console interrupt uses another word.  It may run while
\* RD HSB waits for the KS10 to halt.
LEMMA TmpCons ==
    ASSUME FirmTypes, FpgaTypes, HandlerInv, TmpInv, Access("cons")
    PROVE  TmpInv'
<1>1. /\ prog["cons"] # <<>> /\ prog["halt"] = <<>> /\ prog'["halt"] = <<>>
      /\ ~Urgent /\ "EXEC" \notin flags
  BY Alone, NoneNow DEF Threads
<1>2. HaltPc = 30 /\ HaltPc' = 30 /\ ~InHaltX /\ ~InHaltX'
  BY <1>1, NoHandler DEF InHaltX
<1>3. /\ prog'["cmd"] = prog["cmd"] /\ RdPc' = RdPc /\ (InRdX' <=> InRdX)
      /\ RdPlace' /\ CmdKeeps' /\ CmdDecent'
  BY TmpCmd
<1>4. NoExecs' /\ NoExecs /\ cpu' = cpu /\ saved'["cmd"] = saved["cmd"]
  BY <1>1, StatStep, AccessFrame DEF TmpInv, Threads
<1>5. PICK n \in 1 .. 10 : n = GetPc /\ Head(prog["cons"]) = GetChar[n]
  <2>1. GetPc \in 1 .. 11 /\ prog["cons"] = From(GetChar, GetPc)
    BY DEF HandlerInv, InChar
  <2>2. GetPc # 11
    BY <1>1, <2>1, Places, Zenon
  <2>3. GetPc \in 1 .. 10
    BY <2>1, <2>2
  <2>4. GetChar \in Seq(Accs) /\ Len(GetChar) = 10
    BY HandlerTypes, GetCharAccesses
  <2>5. \A m \in 1 .. Len(GetChar) : Head(From(GetChar, m)) = GetChar[m]
    BY <2>4, FromParts
  <2>6. QED
    BY <2>1, <2>3, <2>4, <2>5
<1>6. PICK a : a = Head(prog["cons"])
  OBVIOUS
<1>7. /\ a[1] = "addr" => a[2] = "CTYOUT"
      /\ a[1] = "wrstat" => a[2] = {"GO"} /\ n \in {3, 9}
      /\ a[1] # "dispatch"
  BY <1>5, <1>6, GetCharAccesses
<1>8. /\ a[1] = "addr" => regADDR' = <<a[2], a[3]>>
      /\ a[1] # "addr" => regADDR' = regADDR
      /\ \/ flags' = flags
         \/ a[1] = "wrstat" /\ flags' = ((stat["cons"] \cup a[2]) \ a[3]) \cap Flags
      /\ mem'["TMP"] # mem["TMP"] => IsGo(a) /\ regADDR = <<"TMP", "wr">>
      /\ a[1] # "dispatch" => dispatch' = dispatch
  BY <1>6, Touches DEF Threads
<1>9. "EXEC" \notin flags'
  BY <1>1, <1>4, <1>7, <1>8 DEF NoExecs, Threads
<1>10. mem'["TMP"] = mem["TMP"]
  <2>1. n \in {3, 9} => regADDR[1] = "CTYOUT"
    BY <1>5 DEF HandlerInv, CharRegs
  <2>2. QED
    BY <1>7, <1>8, <2>1 DEF IsGo
<1>11. CASE InRdX
  <2>1. RdPc = 15
    BY <1>1, <1>11 DEF TmpInv, Undisturbed
  <2>2. HeldAt("cmd", RdPc) /\ Undisturbed(RdPc)
    BY <1>11 DEF TmpInv
  <2>3. HeldAt("cmd", 15) /\ Undisturbed(15)
    BY <2>1, <2>2
  <2>4. HeldAt("cmd", 15)'
    BY <1>4, <1>9, <2>3 DEF HeldAt
  <2>5. Undisturbed(15)'
    BY <1>1, <1>7, <1>8, <2>3 DEF Undisturbed
  <2>6. RdPc' = 15
    BY <1>3, <2>1
  <2>7. HeldAt("cmd", RdPc)' /\ Undisturbed(RdPc)'
    BY <2>4, <2>5, <2>6
  <2>8. QED
    BY <1>2, <1>3, <1>4, <1>11, <2>7 DEF TmpInv
<1>12. CASE ~InRdX
  <2>1. Resting
    BY <1>2, <1>12 DEF TmpInv
  <2>2. regADDR' = <<"TMP", "wr">> => GoSafe(prog'["cmd"])
    BY <1>2, <1>3, <1>7, <1>8, <2>1 DEF Resting
  <2>3. Resting'
    BY <1>4, <1>9, <1>10, <2>1, <2>2, RestStep
  <2>4. QED
    BY <1>2, <1>3, <1>4, <1>12, <2>3 DEF TmpInv
<1>13. QED
  BY <1>11, <1>12

\* The command task makes an access when nothing else runs.
LEMMA CmdAlone ==
    ASSUME FirmTypes, HandlerInv, TmpInv, Access("cmd")
    PROVE  /\ ~Urgent /\ "EXEC" \notin flags /\ ~InHaltX /\ ~InHaltX'
           /\ HaltPc = 30 /\ HaltPc' = 30
           /\ prog'["halt"] = <<>> /\ prog'["cons"] = <<>>
           /\ ~consPend /\ ~consPend' /\ ~haltPend /\ ~haltPend'
           /\ UNCHANGED <<halt, cpu>>
<1>1. /\ ~Urgent /\ prog["halt"] = <<>> /\ prog'["halt"] = <<>> /\ prog'["cons"] = <<>>
      /\ ~consPend /\ ~haltPend
  BY Alone DEF Threads
<1>2. HaltPc = 30 /\ HaltPc' = 30 /\ ~InHaltX /\ ~InHaltX'
  BY <1>1, NoHandler DEF InHaltX
<1>3. consPend' = consPend /\ haltPend' = haltPend /\ UNCHANGED <<halt, cpu>>
  BY AccessFrame DEF Threads
<1>4. QED
  BY <1>1, <1>2, <1>3, NoneNow

\* The commands but RD HSB.
LEMMA TmpCmdOther ==
    ASSUME FirmTypes, FpgaTypes, HandlerInv, TmpInv, Access("cmd"), cmd # "RD"
    PROVE  TmpInv'
<1>1. /\ ~Urgent /\ "EXEC" \notin flags /\ ~InHaltX /\ ~InHaltX' /\ HaltPc = 30
      /\ cpu' = cpu
  BY CmdAlone
<1>2. NoExecs' /\ NoExecs /\ CmdDecent
  BY <1>1, StatStep DEF TmpInv, Threads
<1>3. PICK p : p = prog["cmd"]
  OBVIOUS
<1>4. /\ Head(p) = p[1] /\ 1 \in 1 .. Len(p)
      /\ \E q : /\ Goes("cmd", q) /\ Decent(q)
                /\ AllKeep(p) => AllKeep(q)
                /\ GoSafe(p) /\ Head(p)[1] # "addr" => GoSafe(q) /\ ~IsGo(Head(p))
  BY <1>2, <1>3, CmdGoes
<1>5. PICK q : /\ Goes("cmd", q) /\ Decent(q)
               /\ AllKeep(p) => AllKeep(q)
               /\ GoSafe(p) /\ Head(p)[1] # "addr" => GoSafe(q) /\ ~IsGo(Head(p))
  BY <1>4
<1>6. prog'["cmd"] = q /\ cmd' = IF q = <<>> THEN "none" ELSE cmd
  BY <1>5, GoesFrame DEF Goes, Threads
<1>7. AllKeep(p) /\ Keeps(Head(p))
  BY <1>3, <1>4 DEF TmpInv, CmdKeeps, AllKeep
<1>8. cmd' # "RD" /\ ~InRdX /\ ~InRdX'
  BY <1>6 DEF InRdX
<1>9. CmdDecent' /\ CmdKeeps' /\ RdPlace'
  <2>1. cmd' = "none" => q = <<>>
    <3>1. cmd = "none" => p = <<>>
      BY <1>2, <1>3 DEF CmdDecent
    <3>2. p # <<>>
      BY <1>3, ByName
    <3>3. QED
      BY <1>6, <3>1, <3>2
  <2>2. AllKeep(q)
    BY <1>5, <1>7
  <2>3. CmdDecent'
    BY <1>5, <1>6, <2>1 DEF CmdDecent
  <2>4. CmdKeeps' /\ RdPlace'
    BY <1>6, <1>8, <2>2 DEF CmdKeeps, RdPlace
  <2>5. QED
    BY <2>3, <2>4
<1>10. Resting
  BY <1>1, <1>8 DEF TmpInv
<1>11. PICK a : a = Head(p)
  OBVIOUS
<1>12. /\ a[1] = "addr" => regADDR' = <<a[2], a[3]>>
       /\ a[1] # "addr" => regADDR' = regADDR
       /\ \/ flags' = flags
          \/ a[1] = "wrstat" /\ flags' = ((stat["cmd"] \cup a[2]) \ a[3]) \cap Flags
       /\ mem'["TMP"] # mem["TMP"] => IsGo(a) /\ regADDR = <<"TMP", "wr">>
  BY <1>3, <1>11, Touches DEF Threads
<1>13. /\ ~(a[1] = "addr" /\ a[2] = "TMP" /\ a[3] = "wr")
       /\ a[1] = "wrstat" => "EXEC" \notin a[2]
  BY <1>7, <1>11 DEF Keeps
<1>14. "EXEC" \notin flags'
  BY <1>1, <1>2, <1>12, <1>13 DEF NoExecs, Threads
<1>15. regADDR = <<"TMP", "wr">> => GoSafe(p)
  BY <1>1, <1>3, <1>10 DEF Resting
<1>16. mem'["TMP"] = mem["TMP"]
  <2>1. IsGo(a) => a[1] # "addr"
    BY DEF IsGo
  <2>2. QED
    BY <1>5, <1>11, <1>12, <1>15, <2>1
<1>17. regADDR' = <<"TMP", "wr">> => GoSafe(q)
  <2>1. CASE a[1] = "addr"
    BY <1>12, <1>13, <2>1
  <2>2. CASE a[1] # "addr"
    BY <1>5, <1>11, <1>12, <1>15, <2>2
  <2>3. QED
    BY <2>1, <2>2
<1>18. Resting'
  BY <1>1, <1>6, <1>10, <1>14, <1>16, <1>17, RestStep
<1>19. QED
  BY <1>1, <1>2, <1>8, <1>9, <1>18 DEF TmpInv

\* RD HSB from one access to the next.
LEMMA RdEnter ==
    ASSUME FirmTypes, HandlerInv, HaltLoop, TmpInv, Access("cmd"), halt, flags' = flags
    PROVE  Undisturbed(6)'
<1>1. /\ ~Urgent /\ prog'["halt"] = <<>> /\ prog'["cons"] = <<>> /\ ~consPend' /\ ~haltPend'
      /\ cpu' = cpu
  BY CmdAlone
<1>2. cpu' = "HALTLP" /\ "CONT" \notin flags'
  BY <1>1 DEF HaltLoop, Urgent
<1>3. QED
  BY <1>1, <1>2 DEF Undisturbed

LEMMA RdStep ==
    ASSUME FirmTypes, HandlerInv, HaltLoop, TmpInv, Access("cmd"),
           NEW n \in 6 .. 24, Undisturbed(n), NEW next, StatusDoes("cmd", n, next)
    PROVE  Undisturbed(n + 1)'
<1>1. n \in 1 .. 29
  OBVIOUS
<1>2. /\ n \in GoAt => flags' = stat["cmd"]
      /\ n \notin GoAt \cup {14} => flags' = flags
  BY <1>1, StatusEffects, ZenonT(30)
<1>3. /\ n \in StatAt => stat'["cmd"] = flags
      /\ n = 15 => halt
  BY <1>1, StatusEffects, ZenonT(30)
<1>4. /\ n = 11 => dispatch' = FALSE
      /\ n \notin {11, 16} => dispatch' = dispatch
  BY <1>1, StatusEffects, ZenonT(30)
<1>5. /\ ~Urgent /\ prog'["halt"] = <<>> /\ prog'["cons"] = <<>> /\ ~consPend' /\ ~haltPend'
      /\ cpu' = cpu
  BY CmdAlone
<1>6. n # 14 => cpu = "HALTLP" /\ "CONT" \notin flags
  <2>1. n = 15 => cpu = "HALTLP" /\ "CONT" \notin flags
    BY <1>3, <1>5 DEF HaltLoop, Urgent
  <2>2. n # 15 => cpu = "HALTLP" /\ "CONT" \notin flags
    BY DEF Undisturbed
  <2>3. QED
    BY <2>1, <2>2
<1>7. n # 14 => "CONT" \notin flags'
  <2>1. CASE n \in GoAt
    <3>1. n \in {8, 19, 24}
      BY <2>1 DEF GoAt
    <3>2. "CONT" \notin stat["cmd"]
      BY <3>1 DEF Undisturbed
    <3>3. QED
      BY <1>2, <2>1, <3>2
  <2>2. CASE n \notin GoAt
    BY <1>2, <1>6, <2>2
  <2>3. QED
    BY <2>1, <2>2
<1>8. n + 1 \in 12 .. 16 => ~dispatch'
  <2>1. CASE n = 11
    BY <1>4, <2>1
  <2>2. CASE n \in 12 .. 15
    <3>1. ~dispatch
      BY <2>2 DEF Undisturbed
    <3>2. dispatch' = dispatch
      BY <1>4, <2>2
    <3>3. QED
      BY <3>1, <3>2
  <2>3. QED
    BY <2>1, <2>2
<1>9. n + 1 \in {8, 14, 19, 24} => "CONT" \notin stat'["cmd"]
  <2>1. SUFFICES ASSUME n \in {7, 13, 18, 23} PROVE "CONT" \notin stat'["cmd"]
    OBVIOUS
  <2>2. n \in StatAt
    BY <2>1 DEF StatAt
  <2>3. QED
    BY <1>3, <1>6, <2>1, <2>2
<1>10. n + 1 # 15 => cpu' = "HALTLP" /\ "CONT" \notin flags'
  BY <1>5, <1>6, <1>7
<1>11. QED
  BY <1>5, <1>8, <1>9, <1>10 DEF Undisturbed

LEMMA TmpCmdRd ==
    ASSUME FirmTypes, FpgaTypes, HandlerInv, HaltLoop, TmpInv, Access("cmd"), cmd = "RD"
    PROVE  TmpInv'
<1>1. /\ ~Urgent /\ "EXEC" \notin flags /\ ~InHaltX /\ ~InHaltX' /\ HaltPc = 30
      /\ UNCHANGED <<halt, cpu>>
  BY CmdAlone
<1>2. NoExecs' /\ NoExecs /\ CmdDecent
  BY <1>1, StatStep DEF TmpInv, Threads
<1>3. PICK n \in 5 .. 24 : n = RdPc /\ prog["cmd"] = Rest(n)
  BY DEF TmpInv, RdPlace
<1>4. PICK x : x = Rest(n + 1)
  OBVIOUS
<1>5. Head(prog["cmd"]) = HaltStatus[n] /\ Tail(prog["cmd"]) = x /\ prog["cmd"] # <<>>
  BY <1>3, <1>4, RdPlaces, Zenon
<1>6. n \in 1 .. 29
  OBVIOUS
<1>7. StatusDoes("cmd", n, x)
  BY <1>5, <1>6, StatusStep DEF Threads
<1>8. IF n = 5 /\ ~halt THEN prog'["cmd"] = <<>> ELSE prog'["cmd"] = x
  BY <1>6, <1>7, StatusProg
<1>9. PICK q : Goes("cmd", q) /\ Decent(q)
  BY <1>2, CmdGoes, Zenon
<1>10. prog'["cmd"] = q /\ cmd' = IF prog'["cmd"] = <<>> THEN "none" ELSE cmd
  BY <1>9, GoesFrame DEF Goes, Threads
<1>11. CmdDecent'
  BY <1>9, <1>10 DEF CmdDecent
<1>12. CASE prog'["cmd"] = <<>>
  <2>1. cmd' = "none"
    BY <1>10, <1>12
  <2>2. ~InRdX' /\ RdPlace' /\ CmdKeeps'
    BY <1>12, <2>1 DEF InRdX, RdPlace, CmdKeeps, AllKeep
  <2>3. GoSafe(prog'["cmd"])
    BY <1>12, EmptyIsDecent
  <2>4. Resting'
    <3>1. CASE n = 5
      <4>1. Resting
        BY <1>1, <1>3, <3>1 DEF TmpInv, InRdX
      <4>2. n \notin GoAt \cup {14} /\ n \notin GoAt
        BY <3>1 DEF GoAt
      <4>3. flags' = flags /\ mem' = mem
        BY <1>6, <1>7, <4>2, StatusEffects, ZenonT(30)
      <4>4. QED
        BY <1>1, <2>3, <4>1, <4>3, RestStep
    <3>2. CASE n # 5
      <4>1. n = 24
        <5>1. x = <<>>
          BY <1>8, <1>12, <3>2
        <5>2. ~(n + 1 \in 5 .. 24)
          BY <1>4, <5>1, RdPlaces, Zenon
        <5>3. QED
          BY <5>2
      <4>2. HeldAt("cmd", 24) /\ StatusDoes("cmd", 24, x)
        BY <1>3, <1>7, <4>1 DEF TmpInv, InRdX
      <4>3. HeldAt("cmd", 24 + 1)'
        BY <1>1, <1>2, <4>2, XStep
      <4>4. HeldAt("cmd", 25)'
        BY <4>3
      <4>5. QED
        BY <2>3, <4>4, XLeave DEF Resting
    <3>3. QED
      BY <3>1, <3>2
  <2>5. QED
    BY <1>1, <1>2, <1>11, <2>2, <2>4 DEF TmpInv
<1>13. CASE prog'["cmd"] # <<>>
  <2>1. prog'["cmd"] = Rest(n + 1) /\ cmd' = "RD"
    BY <1>4, <1>8, <1>10, <1>13
  <2>2. n + 1 \in 6 .. 24
    <3>1. n + 1 # 25
      BY <1>13, <2>1, RdPlaces
    <3>2. QED
      BY <3>1
  <2>3. RdPc' = n + 1
    BY <2>1, <2>2, RdPlaceNext
  <2>4. InRdX' /\ RdPlace' /\ CmdKeeps'
    BY <2>1, <2>2, <2>3 DEF InRdX, RdPlace, CmdKeeps
  <2>5. HeldAt("cmd", n + 1)' /\ Undisturbed(n + 1)'
    <3>1. CASE n = 5
      <4>1. Resting
        BY <1>1, <1>3, <3>1 DEF TmpInv, InRdX
      <4>2. n \notin GoAt \cup {14} /\ n \notin GoAt
        BY <3>1 DEF GoAt
      <4>3. flags' = flags /\ mem' = mem
        BY <1>6, <1>7, <4>2, StatusEffects, ZenonT(30)
      <4>4. halt
        BY <1>8, <1>13, <3>1
      <4>5. HeldAt("cmd", 6)'
        BY <1>1, <1>2, <4>1, <4>3, <4>4, XEnter
      <4>6. Undisturbed(6)'
        BY <4>3, <4>4, RdEnter
      <4>7. n + 1 = 6
        BY <3>1
      <4>8. QED
        BY <4>5, <4>6, <4>7
    <3>2. CASE n # 5
      <4>1. n \in 6 .. 24
        BY <3>2
      <4>2. HeldAt("cmd", n) /\ Undisturbed(n)
        BY <1>3, <4>1 DEF TmpInv, InRdX
      <4>3. HeldAt("cmd", n + 1)'
        BY <1>1, <1>2, <1>7, <4>1, <4>2, XStep
      <4>4. Undisturbed(n + 1)'
        BY <1>7, <4>1, <4>2, RdStep
      <4>5. QED
        BY <4>3, <4>4
    <3>3. QED
      BY <3>1, <3>2
  <2>6. HeldAt("cmd", RdPc)' /\ Undisturbed(RdPc)'
    BY <2>3, <2>5
  <2>7. QED
    BY <1>1, <1>2, <1>11, <2>4, <2>6 DEF TmpInv
<1>14. QED
  BY <1>12, <1>13

\* A step that makes no access and starts no command.
LEMMA TmpFrame ==
    ASSUME TmpInv, UNCHANGED <<cmd, stat>>, prog'["cmd"] = prog["cmd"]
    PROVE  /\ RdPc' = RdPc /\ (InRdX' <=> InRdX)
           /\ NoExecs' /\ RdPlace' /\ CmdKeeps' /\ CmdDecent'
<1>1. RdPc' = RdPc
  BY DEF RdPc
<1>2. (InRdX' <=> InRdX)
  BY <1>1 DEF InRdX
<1>3. NoExecs' /\ RdPlace' /\ CmdKeeps' /\ CmdDecent'
  BY <1>1 DEF TmpInv, NoExecs, RdPlace, CmdKeeps, CmdDecent
<1>4. QED
  BY <1>1, <1>2, <1>3

LEMMA TmpSame ==
    ASSUME TmpInv,
           UNCHANGED <<prog, stat, val, saved, cmd, dispatch, consPend, haltPend,
                       regADDR, regDATA, flags, cpu, mem>>
    PROVE  TmpInv'
<1>1. /\ RdPc' = RdPc /\ (InRdX' <=> InRdX)
      /\ NoExecs' /\ RdPlace' /\ CmdKeeps' /\ CmdDecent'
  BY TmpFrame
<1>2. HaltPc' = HaltPc /\ (InStatus' <=> InStatus)
  BY DEF HaltPc, InStatus
<1>3. (InHaltX' <=> InHaltX)
  BY <1>2 DEF InHaltX
<1>4. InHaltX' => HeldAt("halt", HaltPc)'
  BY <1>2, <1>3 DEF TmpInv, HeldAt
<1>5. InRdX' => HeldAt("cmd", RdPc)' /\ Undisturbed(RdPc)'
  BY <1>1 DEF TmpInv, HeldAt, Undisturbed
<1>6. ~InHaltX' /\ ~InRdX' => Resting'
  BY <1>1, <1>2, <1>3 DEF TmpInv, Resting
<1>7. QED
  BY <1>1, <1>4, <1>5, <1>6 DEF TmpInv

\* An interrupt finds RD HSB waiting for the KS10 to halt, and what the halt
\* interrupt would do then is switched off.
LEMMA TmpIntr ==
    ASSUME FirmTypes, TmpInv, consIntr \/ haltIntr
    PROVE  TmpInv'
<1>1. /\ UNCHANGED <<stat, val, saved, cmd, dispatch, regADDR, regDATA, flags, cpu, mem>>
      /\ prog'["cmd"] = prog["cmd"] /\ prog["halt"] = <<>>
      /\ \/ prog'["halt"] = <<>>
         \/ haltIntr /\ dispatch /\ prog'["halt"] = HaltReport
  BY DEF consIntr, haltIntr, regVars, cpuVars, InHandler, FirmTypes, Progs, Threads
<1>2. HaltPc = 30 /\ ~InHaltX /\ ~InHaltX'
  <2>1. HaltPc = 30 /\ ~InHaltX
    BY <1>1, NoHandler DEF InHaltX
  <2>2. ~InHaltX'
    <3>1. CASE prog'["halt"] = <<>>
      BY <3>1, NoHandler DEF InHaltX
    <3>2. CASE prog'["halt"] = HaltReport
      BY <3>2 DEF InHaltX, InStatus
    <3>3. QED
      BY <1>1, <3>1, <3>2
  <2>3. QED
    BY <2>1, <2>2
<1>3. /\ RdPc' = RdPc /\ (InRdX' <=> InRdX)
      /\ NoExecs' /\ RdPlace' /\ CmdKeeps' /\ CmdDecent'
  BY <1>1, TmpFrame
<1>4. CASE InRdX
  <2>1. HeldAt("cmd", RdPc) /\ Undisturbed(RdPc)
    BY <1>4 DEF TmpInv
  <2>2. RdPc = 15
    <3>1. consPend \/ haltPend
      BY DEF consIntr, haltIntr
    <3>2. QED
      BY <2>1, <3>1 DEF Undisturbed
  <2>3. ~dispatch /\ HeldAt("cmd", 15)
    BY <2>1, <2>2 DEF Undisturbed
  <2>4. HeldAt("cmd", 15)'
    BY <1>1, <2>3 DEF HeldAt
  <2>5. Undisturbed(15)'
    BY <1>1, <2>3 DEF Undisturbed
  <2>6. RdPc' = 15
    BY <1>3, <2>2
  <2>7. HeldAt("cmd", RdPc)' /\ Undisturbed(RdPc)'
    BY <2>4, <2>5, <2>6
  <2>8. QED
    BY <1>2, <1>3, <1>4, <2>7 DEF TmpInv
<1>5. CASE ~InRdX
  <2>1. Resting
    BY <1>2, <1>5 DEF TmpInv
  <2>2. Resting'
    BY <1>1, <1>2, <2>1 DEF Resting
  <2>3. QED
    BY <1>2, <1>3, <1>5, <2>2 DEF TmpInv
<1>6. QED
  BY <1>4, <1>5

\* A command begins when the command task has nothing to do.
LEMMA TmpBegin ==
    ASSUME ConsoleAssumption, FirmTypes, TmpInv, "ST" \notin Commands, "EX" \notin Commands,
           NEW c \in Commands, cmd = "none", Begin(c), ~InHandler,
           UNCHANGED <<stat, regADDR, flags, cpu, mem>>
    PROVE  TmpInv'
<1>1. /\ cmd' = c /\ prog'["cmd"] = CommandProgram(c)
      /\ prog["halt"] = <<>> /\ prog'["halt"] = <<>>
  BY DEF Begin, FirmTypes, Progs, Threads, InHandler
<1>2. HaltPc = 30 /\ ~InHaltX /\ ~InHaltX'
  BY <1>1, NoHandler DEF InHaltX
<1>3. Resting /\ NoExecs'
  BY <1>2 DEF TmpInv, InRdX, NoExecs
<1>4. Decent(CommandProgram(c)) /\ GoSafe(CommandProgram(c))
  BY CommandDecent
<1>5. c \in {"HA", "SI", "CO", "EM", "RD"}
  BY DEF ConsoleAssumption
<1>6. CmdDecent' /\ Resting'
  <2>1. CmdDecent'
    BY <1>1, <1>4, <1>5 DEF CmdDecent
  <2>2. Resting'
    BY <1>1, <1>3, <1>4 DEF Resting
  <2>3. QED
    BY <2>1, <2>2
<1>7. CASE c = "RD"
  <2>1. prog'["cmd"] = Rest(5)
    BY <1>1, <1>7, RdPlaces DEF RdProgram
  <2>2. RdPc' = 5
    BY <2>1, RdPlaceNext
  <2>3. ~InRdX' /\ RdPlace' /\ CmdKeeps'
    BY <1>1, <1>7, <2>1, <2>2 DEF InRdX, RdPlace, CmdKeeps
  <2>4. QED
    BY <1>2, <1>3, <1>6, <2>3 DEF TmpInv
<1>8. CASE c # "RD"
  <2>1. AllKeep(prog'["cmd"])
    BY <1>1, <1>5, <1>8, KeptPrograms, KeptKeeps DEF AllKeep
  <2>2. ~InRdX' /\ RdPlace' /\ CmdKeeps'
    BY <1>1, <1>8, <2>1 DEF InRdX, RdPlace, CmdKeeps
  <2>3. QED
    BY <1>2, <1>3, <1>6, <2>2 DEF TmpInv
<1>9. QED
  BY <1>7, <1>8

\* ^C ends a command; RD HSB is excluded.
LEMMA TmpCtrlC ==
    ASSUME ConsoleAssumption, FirmTypes, TmpInv, typeCtrlC, cmd # "RD"
    PROVE  TmpInv'
<1>1. /\ cmd' = "none" /\ prog'["cmd"] = <<>> /\ prog["halt"] = <<>> /\ prog'["halt"] = <<>>
      /\ UNCHANGED <<stat, regADDR, flags, cpu, mem>>
  BY DEF typeCtrlC, ConsoleRuns, InHandler, SameForCon, regVars, cpuVars, FirmTypes, Progs,
         Threads
<1>2. HaltPc = 30 /\ ~InHaltX /\ ~InHaltX'
  BY <1>1, NoHandler DEF InHaltX
<1>3. ~InRdX /\ ~InRdX' /\ RdPlace'
  BY <1>1 DEF InRdX, RdPlace
<1>4. CmdKeeps' /\ CmdDecent' /\ GoSafe(prog'["cmd"])
  BY <1>1, EmptyIsDecent DEF CmdKeeps, CmdDecent, AllKeep
<1>5. Resting' /\ NoExecs'
  BY <1>1, <1>2, <1>3, <1>4 DEF TmpInv, Resting, NoExecs
<1>6. QED
  BY <1>2, <1>3, <1>4, <1>5 DEF TmpInv

\* The KS10 runs while RD HSB waits for it, and executes what is in the
\* instruction register only then.
LEMMA TmpCpu ==
    ASSUME FirmTypes, FpgaTypes, HandlerInv, TmpInv, Cpu
    PROVE  TmpInv'
<1>1. UNCHANGED <<prog, cmd, stat, val, saved, dispatch, regADDR>>
  BY DEF Cpu, cpuInstr, cpuXct, cpuHalted, cpuSetHalt, cpuUnhalt, SetHalt, firmVars, regVars
<1>2. /\ RdPc' = RdPc /\ (InRdX' <=> InRdX)
      /\ NoExecs' /\ RdPlace' /\ CmdKeeps' /\ CmdDecent'
  BY <1>1, TmpFrame
<1>3. HaltPc' = HaltPc /\ (InStatus' <=> InStatus) /\ (InHaltX' <=> InHaltX)
  <2>1. HaltPc' = HaltPc /\ (InStatus' <=> InStatus)
    BY <1>1 DEF HaltPc, InStatus
  <2>2. QED
    BY <2>1 DEF InHaltX
<1>4. CASE InHaltX
  <2>1. ~InRdX
    <3>1. prog["halt"] # <<>>
      BY <1>4, NoHandler DEF InHaltX
    <3>2. QED
      BY <3>1 DEF TmpInv, Undisturbed
  <2>2. PICK n \in 6 .. 24 : n = HaltPc
    BY <1>4 DEF InHaltX
  <2>3. HeldAt("halt", n)
    BY <1>4, <2>2 DEF TmpInv
  <2>4. HeldAt("halt", n)'
    BY <2>3, XCpu
  <2>5. HeldAt("halt", HaltPc)'
    BY <1>3, <2>2, <2>4
  <2>6. QED
    BY <1>2, <1>3, <1>4, <2>1, <2>5 DEF TmpInv
<1>5. CASE InRdX
  <2>1. PICK n \in 6 .. 24 : n = RdPc
    BY <1>5 DEF InRdX
  <2>2. HeldAt("cmd", n) /\ Undisturbed(n)
    BY <1>5, <2>1 DEF TmpInv
  <2>3. HeldAt("cmd", n)' /\ ~(cpu = "HALTLP" /\ "CONT" \notin flags)
    BY <2>2, XCpu
  <2>4. n = 15
    BY <2>2, <2>3 DEF Undisturbed
  <2>5. Undisturbed(15)'
    BY <1>1, <2>2, <2>4 DEF Undisturbed
  <2>6. RdPc' = n
    BY <1>2, <2>1
  <2>7. HeldAt("cmd", RdPc)' /\ Undisturbed(RdPc)'
    BY <2>3, <2>4, <2>5, <2>6
  <2>8. ~InHaltX
    BY <2>2, NoHandler DEF Undisturbed, InHaltX
  <2>9. QED
    BY <1>2, <1>3, <1>5, <2>7, <2>8 DEF TmpInv
<1>6. CASE ~InHaltX /\ ~InRdX
  <2>1. Resting
    BY <1>6 DEF TmpInv
  <2>2. mem'["TMP"] = mem["TMP"]
    BY <2>1 DEF Resting, Cpu, cpuInstr, cpuXct, cpuHalted, cpuSetHalt, cpuUnhalt, SetHalt,
                FpgaTypes, Words
  <2>3. "EXEC" \notin flags' /\ cpu' # "XCT"
    BY <2>1 DEF Resting, Cpu, cpuInstr, Nicond, cpuXct, cpuHalted, cpuSetHalt, cpuUnhalt,
                SetHalt
  <2>4. Resting'
    BY <1>1, <1>3, <2>1, <2>2, <2>3 DEF Resting
  <2>5. QED
    BY <1>2, <1>3, <1>6, <2>4 DEF TmpInv
<1>7. QED
  BY <1>4, <1>5, <1>6

LEMMA TmpOthers ==
    ASSUME ConsoleAssumption, FirmTypes, FpgaTypes, HandlerInv, TmpInv,
           "ST" \notin Commands, "EX" \notin Commands, "RD" \in Commands => "^C" \notin Keys,
           consIntr \/ haltIntr \/ startNext \/ Operator \/ Cpu \/ UNCHANGED vars
    PROVE  TmpInv'
<1>1. CASE startNext \/ Operator
  <2>1. /\ ~InHandler
        /\ UNCHANGED <<stat, val, saved, dispatch, consPend, haltPend, regADDR, regDATA,
                       flags, cpu, mem>>
    BY <1>1 DEF startNext, Operator, typeLine, typeCtrlC, typeCtrlS, typeCtrlQ, ConsoleRuns,
                SameForCon, pendVars, regVars, cpuVars
  <2>2. CASE startNext
    <3>1. con \in Commands /\ cmd = "none" /\ Begin(con)
      BY <2>2 DEF startNext, FirmTypes
    <3>2. QED
      BY <2>1, <3>1, TmpBegin
  <2>3. CASE \E c \in Commands : typeLine(c)
    <3>1. PICK c \in Commands : typeLine(c)
      BY <2>3
    <3>2. CASE cmd = "none" /\ Begin(c)
      BY <2>1, <3>2, TmpBegin
    <3>3. CASE UNCHANGED <<cmd, prog>>
      BY <2>1, <3>3, TmpSame
    <3>4. QED
      BY <3>1, <3>2, <3>3 DEF typeLine
  <2>4. CASE typeCtrlC
    <3>1. cmd # "RD"
      BY <2>4 DEF typeCtrlC, FirmTypes
    <3>2. QED
      BY <2>4, <3>1, TmpCtrlC
  <2>5. CASE typeCtrlS \/ typeCtrlQ
    BY <2>1, <2>5, TmpSame DEF typeCtrlS, typeCtrlQ
  <2>6. QED
    BY <1>1, <2>2, <2>3, <2>4, <2>5 DEF Operator
<1>2. CASE UNCHANGED vars
  BY <1>2, TmpSame DEF vars, firmVars, pendVars, regVars, cpuVars
<1>3. QED
  BY <1>1, <1>2, TmpIntr, TmpCpu

\* The word that RDHSB overwrites has been restored when neither the handler
\* of the halt interrupt nor RD HSB uses it.  A command that executes an
\* instruction of its own (ST, EX) may be interrupted between the write of the
\* instruction register and that of the flags; the handler leaves RDHSB in the
\* register, and the KS10 executes that.  ^C may end RD HSB before it has
\* restored the word.  Both are excluded.
THEOREM TmpRestoredAlways ==
    ASSUME "ST" \notin Commands, "EX" \notin Commands, "RD" \in Commands => "^C" \notin Keys
    PROVE  Spec => []TmpRestored
<1>1. Init => TmpInv
  <2>1. SUFFICES ASSUME Init PROVE TmpInv
    OBVIOUS
  <2>2. /\ prog["cmd"] = <<>> /\ prog["halt"] = <<>> /\ cmd = "none"
        /\ regADDR # <<"TMP", "wr">> /\ mem["TMP"] = "tmp" /\ flags = {} /\ cpu = "HALTLP"
        /\ \A t \in Threads : stat[t] = {}
    BY <2>1 DEF Init, Threads
  <2>3. ~InHaltX /\ ~InRdX
    BY <2>2, NoHandler DEF InHaltX, InRdX
  <2>4. Resting /\ NoExecs
    BY <2>2 DEF Resting, NoExecs
  <2>5. RdPlace /\ CmdKeeps /\ CmdDecent
    BY <2>2, EmptyIsDecent DEF RdPlace, CmdKeeps, AllKeep, CmdDecent
  <2>6. QED
    BY <2>3, <2>4, <2>5 DEF TmpInv
<1>2. TypeInv /\ HandlerInv /\ CauseInv /\ TmpInv /\ [Next]_vars => TmpInv'
  <2>1. SUFFICES ASSUME FirmTypes, FpgaTypes, HandlerInv, HaltLoop, TmpInv, [Next]_vars
                 PROVE  TmpInv'
    BY DEF TypeInv, CauseInv
  <2>2. CASE \E t \in Threads : Access(t)
    BY <2>1, <2>2, TmpCmdRd, TmpCmdOther, TmpHalt, TmpCons DEF Threads
  <2>3. QED
    BY <2>1, <2>2, ConsoleAssumption, TmpOthers DEF Next, Firmware
<1>3. TmpInv => TmpRestored
  <2>1. SUFFICES ASSUME TmpInv, ~InHandler, cmd # "RD"
                 PROVE  mem["TMP"] = "tmp"
    BY DEF TmpRestored
  <2>2. ~InHaltX /\ ~InRdX
    BY <2>1, NoHandler DEF InHandler, InHaltX, InRdX
  <2>3. QED
    BY <2>1, <2>2 DEF TmpInv, Resting
<1>4. QED
  BY <1>1, <1>2, <1>3, CauseInvariant, PTL DEF Spec
=============================================================================
