---------------------------- MODULE DebugProofs ----------------------------
(***************************************************************************)
(* The trace buffer of debug.v for every size, every set of instructions   *)
(* and every strobe length: its depth counter agrees with its pointers as  *)
(* long as entries are read only by TR DUMP.                               *)
(***************************************************************************)
EXTENDS Debug, SequenceTheorems, TLAPS

\* A clock of the FIFO keeps its registers in their ranges.
LEMMA FifoTypes ==
    ASSUME FifoTypeOK, NEW clr \in BOOLEAN, NEW rd \in BOOLEAN, NEW wr \in BOOLEAN,
           NEW in \in Data, FifoStep(clr, rd, wr, in)
    PROVE  FifoTypeOK'
<1> USE FifoAssumption DEF FifoTypeOK, FifoStep, Inc, empty, full
<1>1. rd_addr' \in 0 .. BUFSZ - 1 /\ wr_addr' \in 0 .. BUFSZ - 1
  OBVIOUS
<1>2. depth' \in 0 .. SIZE - 1
  BY DEF depthNext
<1>3. mem' \in [0 .. BUFSZ - 1 -> Data] /\ out' \in Data
  OBVIOUS
<1>4. QED
  BY <1>1, <1>2, <1>3

\* A clock of the FIFO keeps depth and pointers in agreement, unless it is
\* read and written at once while it is empty or full.
LEMMA FifoDepth ==
    ASSUME FifoTypeOK, DepthRight, NEW clr \in BOOLEAN, NEW rd \in BOOLEAN,
           NEW wr \in BOOLEAN, NEW in, FifoStep(clr, rd, wr, in),
           rd /\ wr => ~empty /\ ~full
    PROVE  DepthRight'
<1> USE FifoAssumption DEF FifoTypeOK, DepthRight, FifoStep, Slot
<1>1. CASE clr
  BY <1>1
<1>2. CASE ~clr
  <2>1. CASE rd /\ wr
    BY <1>2, <2>1 DEF depthNext, Inc, empty, full
  <2>2. CASE rd /\ ~wr
    BY <1>2, <2>2 DEF depthNext, Inc, empty, full
  <2>3. CASE ~rd /\ wr
    BY <1>2, <2>3 DEF depthNext, Inc, empty, full
  <2>4. CASE ~rd /\ ~wr
    BY <1>2, <2>4 DEF depthNext, Inc, empty, full
  <2>5. QED
    BY <2>1, <2>2, <2>3, <2>4
<1>3. QED
  BY <1>1, <1>2

-----------------------------------------------------------------------------
(* The words of the FIFO as a sequence.                                    *)

\* The words between the two pointers are a sequence as long as the depth.
LEMMA WordsSeq ==
    ASSUME FifoTypeOK
    PROVE  /\ Words \in Seq(Data) /\ Len(Words) = depth
           /\ \A i \in 1 .. depth : Words[i] = mem[Slot(i)]
<1> USE FifoAssumption DEF FifoTypeOK
<1>1. \A i \in 1 .. depth : Slot(i) \in 0 .. BUFSZ - 1
  BY DEF Slot
<1>2. \A i \in 1 .. depth : mem[Slot(i)] \in Data
  BY <1>1
<1>3. QED
  BY <1>2 DEF Words

\* A write appends the word,
LEMMA FifoAppend ==
    ASSUME FifoTypeOK, FifoTypeOK', DepthRight, NEW in \in Data, ~full,
           FifoStep(FALSE, FALSE, TRUE, in)
    PROVE  Words' = Append(Words, in)
<1> USE FifoAssumption DEF FifoTypeOK
<1>1. /\ rd_addr' = rd_addr /\ depth' = depth + 1 /\ depth < SIZE - 1
      /\ mem' = [mem EXCEPT ![wr_addr] = in]
  BY DEF FifoStep, depthNext, full
<1>2. \A i \in 1 .. depth : Slot(i) \in 0 .. BUFSZ - 1 /\ Slot(i) # wr_addr
  BY <1>1 DEF Slot, DepthRight
<1>3. \A i \in 1 .. depth + 1 : mem'[Slot(i)] = IF i = depth + 1 THEN in ELSE mem[Slot(i)]
  BY <1>1, <1>2 DEF DepthRight
<1>4. \A i : Slot(i)' = Slot(i)
  BY <1>1 DEF Slot
<1>5. /\ Words' \in Seq(Data) /\ Len(Words') = depth + 1
      /\ \A i \in 1 .. depth + 1 : Words'[i] = mem'[Slot(i)]
  <2>1. \A i \in 1 .. depth + 1 : mem'[Slot(i)] \in Data
    BY <1>1, <1>2, <1>3
  <2>2. Words' = [i \in 1 .. depth + 1 |-> mem'[Slot(i)]]
    BY <1>1, <1>4 DEF Words
  <2>3. QED
    BY <2>1, <2>2
<1>6. Words \in Seq(Data) /\ Len(Words) = depth /\ \A i \in 1 .. depth : Words[i] = mem[Slot(i)]
  BY WordsSeq
<1>7. /\ Append(Words, in) \in Seq(Data) /\ Len(Append(Words, in)) = depth + 1
      /\ \A i \in 1 .. depth + 1 : Append(Words, in)[i] = IF i = depth + 1 THEN in ELSE mem[Slot(i)]
  <2>1. /\ Append(Words, in) \in Seq(Data) /\ Len(Append(Words, in)) = depth + 1
        /\ \A i \in 1 .. depth : Append(Words, in)[i] = Words[i]
        /\ Append(Words, in)[depth + 1] = in
    BY <1>6, AppendProperties
  <2>2. ASSUME NEW i \in 1 .. depth + 1, i # depth + 1 PROVE i \in 1 .. depth
    BY <2>2
  <2>3. QED
    BY <1>6, <2>1, <2>2
<1>8. \A i \in 1 .. depth + 1 : Words'[i] = Append(Words, in)[i]
  BY <1>3, <1>5, <1>7
<1>9. QED
  BY <1>5, <1>7, <1>8, SeqEqual

\* and a read removes the oldest.
LEMMA FifoTail ==
    ASSUME FifoTypeOK, FifoTypeOK', NEW in, ~empty, FifoStep(FALSE, TRUE, FALSE, in)
    PROVE  Words # <<>> /\ Words' = Tail(Words)
<1> USE FifoAssumption DEF FifoTypeOK
<1>1. rd_addr' = Inc(rd_addr) /\ depth' = depth - 1 /\ depth > 0 /\ mem' = mem
  BY DEF FifoStep, depthNext, empty
<1>2. \A i \in 1 .. depth - 1 : Slot(i)' = Slot(i + 1)
  BY <1>1 DEF Slot, Inc
<1>3. Words \in Seq(Data) /\ Len(Words) = depth /\ \A i \in 1 .. depth : Words[i] = mem[Slot(i)]
  BY WordsSeq
<1>4. Words' \in Seq(Data) /\ Len(Words') = depth - 1
  <2>1. \A i \in 1 .. depth - 1 : Slot(i + 1) \in 0 .. BUFSZ - 1
    BY DEF Slot
  <2>2. \A i \in 1 .. depth - 1 : mem[Slot(i + 1)] \in Data
    BY <2>1
  <2>3. Words' = [i \in 1 .. depth - 1 |-> mem[Slot(i + 1)]]
    BY <1>1, <1>2 DEF Words
  <2>4. QED
    BY <1>1, <2>2, <2>3
<1>5. \A i \in 1 .. depth - 1 : Words'[i] = mem[Slot(i + 1)]
  BY <1>1, <1>2 DEF Words
<1>6. Words # <<>>
  BY <1>1, <1>3
<1>7. /\ Tail(Words) \in Seq(Data) /\ Len(Tail(Words)) = depth - 1
      /\ \A i \in 1 .. depth - 1 : Tail(Words)[i] = mem[Slot(i + 1)]
  BY <1>1, <1>3, <1>6, HeadTailProperties
<1>8. QED
  BY <1>4, <1>5, <1>6, <1>7, SeqEqual

-----------------------------------------------------------------------------
(* What the firmware still has to do is one of these.                      *)

TrCmds == {"RESET", "TRIG", "MATCH", "STOP"}
BrCmds == {"OFF", "MATCH", "FULL", "BOTH"}

Run        == <<"run", "">>
Empty      == <<"empty", "">>
Ditr       == <<"ditr", "">>
SetTr(c)   == <<"tr", c>>
SetBr(c)   == <<"br", c>>

Single == {<<>>, <<Run>>, <<Empty>>, <<Ditr, Empty>>}
AtBr   == {<<SetBr(b)>> : b \in BrCmds} \cup {<<SetBr(b), Run>> : b \in BrCmds}
          \cup {<<SetBr(b), Empty>> : b \in BrCmds}
AtTr   == {<<SetTr(c), SetBr(b)>> : c \in TrCmds, b \in BrCmds}
          \cup {<<SetTr(c), SetBr(b), Run>> : c \in TrCmds, b \in BrCmds}
          \cup {<<SetTr("STOP"), SetBr(b), Empty>> : b \in BrCmds}
Todos  == Single \cup AtBr \cup AtTr

\* TR DUMP has stopped the trace, or is about to: Stopping are its steps
\* before that, Reading those after.
Off      == trstate \in {"IDLE", "DONE"}
Stops(t) == Len(t) = 3 /\ t[3] = Empty
Reads(t) == t \in {<<Empty>>, <<Ditr, Empty>>} \/ (Len(t) = 2 /\ t[2] = Empty)
Stopping == Stops(todo)
Reading  == Reads(todo)

IInv ==
    /\ TypeOK
    /\ u = "FETCH" => at \in Data
    /\ todo \in Todos
    /\ todo = <<>> => ticks = 0
    /\ rdLast => Off
    /\ Reading => Off
    /\ Stopping /\ ticks \in 1 .. StrobeTicks => regTRCMD = "STOP"
    /\ Stopping /\ ticks \in 1 .. StrobeTicks - 1 => trstate # "ARMED"
    /\ Stopping /\ ticks \in 1 .. StrobeTicks - 2 => Off
    /\ DepthRight

\* A register write followed by one more access, as CommandAccesses joins them.
LEMMA Concat3 ==
    ASSUME NEW x, NEW y, NEW z
    PROVE  <<x, y>> \o <<z>> = <<x, y, z>>
<1> DEFINE S == {x, y, z}
<1>1. <<x, y>> \in Seq(S) /\ <<z>> \in Seq(S) /\ <<x, y, z>> \in Seq(S)
  OBVIOUS
<1>2. /\ <<x, y>> \o <<z>> \in Seq(S) /\ Len(<<x, y>> \o <<z>>) = 3
      /\ \A i \in 1 .. 3 : (<<x, y>> \o <<z>>)[i] = IF i <= 2 THEN <<x, y>>[i] ELSE <<z>>[i - 2]
  BY <1>1, ConcatProperties
<1>3. \A i \in 1 .. 3 : (<<x, y>> \o <<z>>)[i] = <<x, y, z>>[i]
  BY <1>2
<1>4. QED
  BY <1>1, <1>2, <1>3, SeqEqual

\* Every command but PEEK leaves the firmware with one of them.
LEMMA CommandTodos ==
    ASSUME TypeOK, NEW c \in Commands, c # "PEEK"
    PROVE  CommandAccesses(c) \in {<<Run>>} \cup AtTr
<1>1. regTRCMD \in TrCmds /\ regBRCMD \in BrCmds
  BY DEF TypeOK, TrCmds, BrCmds
<1>2. ASSUME NEW t \in TrCmds, NEW b \in BrCmds
      PROVE  /\ WriteDCSR(t, b) \in AtTr
             /\ WriteDCSR(t, b) \o <<Run>> \in AtTr
             /\ WriteDCSR("STOP", b) \o <<Empty>> \in AtTr
  <2>1. WriteDCSR(t, b) = <<SetTr(t), SetBr(b)>>
    BY DEF WriteDCSR, SetTr, SetBr
  <2>2. WriteDCSR(t, b) \o <<Run>> = <<SetTr(t), SetBr(b), Run>>
    BY <2>1, Concat3
  <2>3. WriteDCSR("STOP", b) \o <<Empty>> = <<SetTr("STOP"), SetBr(b), Empty>>
    BY Concat3 DEF WriteDCSR, SetTr, SetBr
  <2>4. QED
    BY <2>1, <2>2, <2>3 DEF AtTr
<1>3. CASE c \in {"RESET", "TRIG", "MATCH", "STOP"}
  <2>1. CommandAccesses(c) = WriteDCSR(c, regBRCMD)
    BY <1>3 DEF CommandAccesses, TR
  <2>2. c \in TrCmds
    BY <1>3 DEF TrCmds
  <2>3. QED
    BY <1>1, <1>2, <2>1, <2>2
<1>4. CASE c = "DUMP"
  <2>1. CommandAccesses(c) = WriteDCSR("STOP", regBRCMD) \o <<Empty>>
    BY <1>4 DEF CommandAccesses, Dump, TR, Empty
  <2>2. QED
    BY <1>1, <1>2, <2>1
<1>5. CASE c \in {"BR OFF", "BR MATCH", "BR FULL", "BR BOTH"}
  <2>1. PICK b \in BrCmds : CommandAccesses(c) = WriteDCSR(regTRCMD, b)
    BY <1>5 DEF CommandAccesses, BR, BrCmds
  <2>2. QED
    BY <1>1, <1>2, <2>1
<1>6. CASE c = "CO"
  <2>1. CommandAccesses(c) = Rearm \o <<Run>>
    BY <1>6 DEF CommandAccesses, Run
  <2>2. CASE regBRCMD = "MATCH" /\ brstate = "IDLE"
    <3>1. Rearm = WriteDCSR(regTRCMD, "MATCH")
      BY <2>2 DEF Rearm, BR
    <3>2. "MATCH" \in BrCmds
      BY DEF BrCmds
    <3>3. QED
      BY <1>1, <1>2, <2>1, <3>1, <3>2
  <2>3. CASE ~(regBRCMD = "MATCH" /\ brstate = "IDLE")
    <3>1. Rearm = <<>>
      BY <2>3 DEF Rearm
    <3>2. <<>> \o <<Run>> = <<Run>>
      OBVIOUS
    <3>3. QED
      BY <2>1, <3>1, <3>2
  <2>4. QED
    BY <2>2, <2>3
<1>7. QED
  BY <1>3, <1>4, <1>5, <1>6, DebugAssumption

\* The accesses are told apart by their names.
LEMMA Names ==
    /\ Run[1] = "run" /\ Empty[1] = "empty" /\ Ditr[1] = "ditr"
    /\ \A c : SetTr(c)[1] = "tr" /\ SetTr(c)[2] = c
    /\ \A b : SetBr(b)[1] = "br" /\ SetBr(b)[2] = b
BY DEF Run, Empty, Ditr, SetTr, SetBr

\* What is next and what is left of a write of both commands,
LEMMA AtTrParts ==
    ASSUME NEW t \in AtTr
    PROVE  /\ t # <<>> /\ Head(t)[1] = "tr" /\ Head(t)[2] \in TrCmds /\ Tail(t) \in AtBr
           /\ Len(t) # 1 /\ ~(Len(t) = 2 /\ t[2] = Empty)
           /\ Len(t) = 3 /\ t[3] = Empty => Head(t)[2] = "STOP"
           /\ Len(Tail(t)) = 2 /\ Tail(t)[2] = Empty => Len(t) = 3 /\ t[3] = Empty
<1>1. CASE t \in {<<SetTr(c), SetBr(b)>> : c \in TrCmds, b \in BrCmds}
  <2>1. PICK c \in TrCmds, b \in BrCmds : t = <<SetTr(c), SetBr(b)>>
    BY <1>1
  <2>2. Tail(t) = <<SetBr(b)>> /\ Head(t) = SetTr(c) /\ Len(t) = 2 /\ t[2] = SetBr(b)
    BY <2>1
  <2>3. SetBr(b) # Empty
    BY Names
  <2>4. QED
    BY <2>1, <2>2, <2>3, Names DEF AtBr
<1>2. CASE t \in {<<SetTr(c), SetBr(b), Run>> : c \in TrCmds, b \in BrCmds}
  <2>1. PICK c \in TrCmds, b \in BrCmds : t = <<SetTr(c), SetBr(b), Run>>
    BY <1>2
  <2>2. /\ Tail(t) = <<SetBr(b), Run>> /\ Head(t) = SetTr(c) /\ Len(t) = 3
        /\ t[3] = Run /\ Tail(t)[2] = Run
    BY <2>1
  <2>3. Run # Empty
    BY Names
  <2>4. QED
    BY <2>1, <2>2, <2>3, Names DEF AtBr
<1>3. CASE t \in {<<SetTr("STOP"), SetBr(b), Empty>> : b \in BrCmds}
  <2>1. PICK b \in BrCmds : t = <<SetTr("STOP"), SetBr(b), Empty>>
    BY <1>3
  <2>2. /\ Tail(t) = <<SetBr(b), Empty>> /\ Head(t) = SetTr("STOP") /\ Len(t) = 3
        /\ t[3] = Empty
    BY <2>1
  <2>3. QED
    BY <2>1, <2>2, Names DEF AtBr, TrCmds
<1>4. QED
  BY <1>1, <1>2, <1>3 DEF AtTr

\* of a write of the breakpoint command,
LEMMA AtBrParts ==
    ASSUME NEW t \in AtBr
    PROVE  /\ t # <<>> /\ Head(t)[1] = "br" /\ Head(t)[2] \in BrCmds /\ Len(t) # 3
           /\ t \notin {<<Empty>>, <<Ditr, Empty>>}
           /\ Tail(t) \in {<<>>, <<Run>>, <<Empty>>}
           /\ Tail(t) = <<Empty>> => Len(t) = 2 /\ t[2] = Empty
<1>1. CASE t \in {<<SetBr(b)>> : b \in BrCmds}
  <2>1. PICK b \in BrCmds : t = <<SetBr(b)>>
    BY <1>1
  <2>2. Tail(t) = <<>> /\ Head(t) = SetBr(b) /\ Len(t) = 1 /\ SetBr(b) # Empty
    BY <2>1, Names
  <2>3. QED
    BY <2>1, <2>2, Names
<1>2. CASE t \in {<<SetBr(b), Run>> : b \in BrCmds}
  <2>1. PICK b \in BrCmds : t = <<SetBr(b), Run>>
    BY <1>2
  <2>2. /\ Tail(t) = <<Run>> /\ Head(t) = SetBr(b) /\ Len(t) = 2
        /\ SetBr(b) # Ditr /\ Run # Empty
    BY <2>1, Names
  <2>3. QED
    BY <2>1, <2>2, Names
<1>3. CASE t \in {<<SetBr(b), Empty>> : b \in BrCmds}
  <2>1. PICK b \in BrCmds : t = <<SetBr(b), Empty>>
    BY <1>3
  <2>2. Tail(t) = <<Empty>> /\ Head(t) = SetBr(b) /\ Len(t) = 2 /\ SetBr(b) # Ditr
    BY <2>1, Names
  <2>3. QED
    BY <2>1, <2>2, Names
<1>4. QED
  BY <1>1, <1>2, <1>3 DEF AtBr

\* and of a single access.
LEMMA SingleParts ==
    ASSUME NEW t \in Single, t # <<>>
    PROVE  /\ Head(t)[1] \in {"run", "empty", "ditr"} /\ Len(t) # 3
           /\ Tail(t) \in {<<>>, <<Empty>>}
           /\ Tail(t) = <<Empty>> => t = <<Ditr, Empty>>
           /\ Head(t)[1] = "empty" => t = <<Empty>>
           /\ Head(t)[1] = "ditr" => t = <<Ditr, Empty>>
<1>1. CASE t = <<Run>>
  BY <1>1, Names
<1>2. CASE t = <<Empty>>
  BY <1>2, Names
<1>3. CASE t = <<Ditr, Empty>>
  BY <1>3, Names
<1>4. QED
  BY <1>1, <1>2, <1>3 DEF Single

-----------------------------------------------------------------------------
(* The steps.                                                              *)

\* What the firmware does next is again one of Todos.
LEMMA FirmStep ==
    ASSUME IInv, FirmNext, "PEEK" \notin Commands
    PROVE  /\ todo' \in Todos /\ ticks' \in 0 .. StrobeTicks + 1
           /\ todo' = <<>> => ticks' = 0
           /\ \/ /\ todo' = todo /\ (ticks' = 0 => todo = <<>>)
                 /\ ticks' \in 1 .. StrobeTicks => ticks' = ticks - 1
              \/ todo = <<>> /\ todo' \in {<<Run>>} \cup AtTr /\ ticks' = 0
              \/ todo # <<>> /\ ticks = 1 /\ ticks' = 0
                 /\ (todo' = Tail(todo) \/ (todo = <<Empty>> /\ todo' = <<Ditr, Empty>>))
<1>1. todo \in Todos
  BY DEF IInv
<1>2. ticks \in 0 .. StrobeTicks + 1 /\ StrobeTicks \in Nat /\ StrobeTicks >= 3
  BY DebugAssumption DEF IInv, TypeOK
<1>3. todo = <<>> => ticks = 0
  BY DEF IInv
<1>4. CASE todo = <<>> /\ Idle
  BY <1>1, <1>2, <1>3, <1>4 DEF Idle, firmVars
<1>5. CASE Type
  <2>1. todo = <<>> /\ ticks' = 0
    BY <1>5 DEF Type
  <2>2. todo' \in {<<Run>>} \cup AtTr
    BY <1>5, CommandTodos DEF Type, IInv
  <2>3. todo' \in Todos
    BY <2>2 DEF Todos, Single
  <2>4. ticks' \in 0 .. StrobeTicks + 1
    BY <1>2, <2>1
  <2>5. QED
    BY <2>1, <2>2, <2>3, <2>4
<1>6. CASE StartAccess
  <2>1. todo' = todo /\ todo # <<>> /\ ticks' = StrobeTicks + 1
    BY <1>6 DEF StartAccess
  <2>2. ticks' \in 1 .. StrobeTicks + 1 /\ ticks' \notin 1 .. StrobeTicks
    BY <1>2, <2>1
  <2>3. QED
    BY <1>1, <2>1, <2>2
<1>7. CASE Strobe
  <2>1. todo' = todo /\ ticks' \in 1 .. StrobeTicks + 1 /\ ticks # 0 /\ ticks' = ticks - 1
    BY <1>2, <1>7 DEF Strobe
  <2>2. ticks' \in 0 .. StrobeTicks + 1
    BY <1>2, <2>1
  <2>3. todo # <<>>
    BY <1>3, <2>1
  <2>4. QED
    BY <1>1, <1>2, <2>1, <2>2, <2>3
<1>8. CASE EndAccess
  <2>1. ticks = 1 /\ ticks' = 0 /\ todo' = AfterAccess
    BY <1>8 DEF EndAccess
  <2>2. todo # <<>> /\ ticks' \in 0 .. StrobeTicks + 1
    BY <1>2, <1>3, <2>1
  <2>3. CASE Head(todo)[1] = "empty" /\ ~empty
    <3>1. todo' = <<Ditr, Empty>>
      BY <2>1, <2>3 DEF AfterAccess, Ditr, Empty
    <3>2. todo = <<Empty>>
      BY <1>1, <2>2, <2>3, AtTrParts, AtBrParts, SingleParts DEF Todos
    <3>3. todo' \in Todos
      BY <3>1 DEF Todos, Single
    <3>4. QED
      BY <2>1, <2>2, <3>1, <3>2, <3>3
  <2>4. CASE ~(Head(todo)[1] = "empty" /\ ~empty)
    <3>1. todo' = Tail(todo)
      BY <2>1, <2>4 DEF AfterAccess
    <3>2. Tail(todo) \in AtBr \cup {<<>>, <<Run>>, <<Empty>>}
      BY <1>1, <2>2, AtTrParts, AtBrParts, SingleParts DEF Todos
    <3>3. Tail(todo) \in Todos
      BY <3>2 DEF Todos, Single
    <3>4. QED
      BY <2>1, <2>2, <3>1, <3>3
  <2>5. QED
    BY <2>3, <2>4
<1>9. QED
  BY <1>4, <1>5, <1>6, <1>7, <1>8 DEF FirmNext

\* A trace that is idle or done stays so without a command, and STOP makes it
\* so in two clocks.
LEMMA TraceStep ==
    ASSUME TypeOK, TrNext
    PROVE  /\ trstate' \in {"IDLE", "ARMED", "ACTIVE", "DONE"}
           /\ Off /\ (regTRCMD = "STOP" \/ ~regTRCMD_WR) => Off'
           /\ regTRCMD = "STOP" /\ regTRCMD_WR => trstate' # "ARMED"
           /\ regTRCMD = "STOP" /\ regTRCMD_WR /\ trstate # "ARMED" => Off'
<1> USE DEF TypeOK, TrNext, Off, trStop, trDone
<1>1. CASE regTRCMD = "RESET" /\ regTRCMD_WR
  BY <1>1
<1>2. CASE ~(regTRCMD = "RESET" /\ regTRCMD_WR)
  <2>1. CASE trstate = "IDLE"
    BY <1>2, <2>1
  <2>2. CASE trstate = "ARMED"
    BY <1>2, <2>2
  <2>3. CASE trstate = "ACTIVE"
    BY <1>2, <2>3
  <2>4. CASE trstate = "DONE"
    BY <1>2, <2>4
  <2>5. QED
    BY <2>1, <2>2, <2>3, <2>4
<1>3. QED
  BY <1>1, <1>2

\* The trace is commanded only while the firmware writes both commands, and
\* with what it writes.
LEMMA Strobes ==
    ASSUME IInv, CslNext
    PROVE  /\ regTRCMD_WR => todo \in AtTr /\ ticks > 1 /\ regTRCMD' = Head(todo)[2]
           /\ ~regTRCMD_WR => regTRCMD' = regTRCMD
           /\ todo \in AtTr /\ ticks > 1 => regTRCMD_WR
           /\ regTRCMD' \in TrCmds /\ regBRCMD' \in BrCmds
           /\ regDITR_RD => todo = <<Ditr, Empty>>
<1>1. todo \in Todos /\ (todo = <<>> => ticks = 0)
  BY DEF IInv
<1>2. regTRCMD \in TrCmds /\ regBRCMD \in BrCmds
  BY DEF IInv, TypeOK, TrCmds, BrCmds
<1>3. ASSUME ticks > 1
      PROVE  /\ Head(todo)[1] = "tr" <=> todo \in AtTr
             /\ Head(todo)[1] = "tr" => Head(todo)[2] \in TrCmds
             /\ Head(todo)[1] = "br" => Head(todo)[2] \in BrCmds
             /\ Head(todo)[1] = "ditr" => todo = <<Ditr, Empty>>
  <2>1. todo # <<>>
    BY <1>1, <1>3
  <2>2. QED
    BY <1>1, <2>1, AtTrParts, AtBrParts, SingleParts DEF Todos
<1>4. QED
  BY <1>2, <1>3 DEF CslNext, regTRCMD_WR, regBRCMD_WR, regDITR_RD, Access

\* Entries are read only once the firmware has stopped the trace.
LEMMA ReadsAfterStop ==
    ASSUME NEW t \in Todos, NEW s, Reads(s),
           \/ s \in {<<Run>>} \cup AtTr
           \/ t # <<>> /\ (s = Tail(t) \/ t = <<Empty>>)
    PROVE  Reads(t) \/ Stops(t)
<1>1. s \notin AtTr
  BY AtTrParts, Names DEF Reads
<1>2. s # <<Run>> /\ s # <<>>
  <2>1. Run # Empty /\ Run # Ditr
    BY Names
  <2>2. /\ <<Run>> \notin {<<Empty>>, <<Ditr, Empty>>} /\ Len(<<Run>>) # 2
        /\ <<>> \notin {<<Empty>>, <<Ditr, Empty>>} /\ Len(<<>>) # 2
    BY <2>1
  <2>3. QED
    BY <2>2 DEF Reads
<1>3. CASE t = <<Empty>>
  BY <1>3 DEF Reads
<1>4. CASE t # <<>> /\ s = Tail(t)
  <2>1. CASE t \in AtTr
    BY <1>4, <2>1, AtTrParts, AtBrParts DEF Reads, Stops
  <2>2. CASE t \in AtBr
    BY <1>2, <1>4, <2>2, AtBrParts DEF Reads
  <2>3. CASE t \in Single
    BY <1>2, <1>4, <2>3, SingleParts DEF Reads
  <2>4. QED
    BY <2>1, <2>2, <2>3 DEF Todos
<1>5. QED
  BY <1>1, <1>2, <1>3, <1>4

\* Before TR DUMP has stopped the trace its first access is the STOP; once it
\* reads, no write of both commands is left.
LEMMA TodoKinds ==
    ASSUME NEW t \in Todos
    PROVE  /\ Stops(t) => t \in AtTr /\ Head(t)[2] = "STOP"
           /\ Reads(t) => t \notin AtTr
<1>1. t = <<>> => Len(t) = 0
  OBVIOUS
<1>2. QED
  BY <1>1, AtTrParts, AtBrParts, SingleParts, Names DEF Stops, Reads, Todos

\* The invariant is inductive.
LEMMA Inductive ==
    ASSUME IInv, [Next]_vars, "PEEK" \notin Commands
    PROVE  IInv'
<1>1. CASE UNCHANGED vars
  BY <1>1 DEF IInv, TypeOK, FifoTypeOK, DepthRight, Slot, Reading, Stopping, Off,
              vars, fifoVars, debugVars, cpuVars, firmVars, auxVars
<1>2. CASE Next
  <2>1. FirmNext /\ CslNext /\ TrNext /\ BrNext /\ FifoNext /\ CpuNext /\ Count
    BY <1>2 DEF Next
  <2>2. /\ TypeOK /\ todo \in Todos /\ (Reading => Off) /\ DepthRight
        /\ ticks \in 0 .. StrobeTicks + 1 /\ StrobeTicks \in Nat /\ StrobeTicks >= 3
    BY DebugAssumption DEF IInv, TypeOK
  <2>3. /\ Stopping /\ ticks \in 1 .. StrobeTicks => regTRCMD = "STOP"
        /\ Stopping /\ ticks \in 1 .. StrobeTicks - 1 => trstate # "ARMED"
        /\ Stopping /\ ticks \in 1 .. StrobeTicks - 2 => Off
    BY DEF IInv
  <2>4. Stopping => todo \in AtTr /\ Head(todo)[2] = "STOP"
    BY <2>2, TodoKinds DEF Stopping
  <2>5. Reading => todo \notin AtTr
    BY <2>2, TodoKinds DEF Reading
  <2>6. ~regTRCMD_WR /\ Off => Off'
    BY <2>1, <2>2, TraceStep
  <2>7. Reading => Off'
    BY <2>1, <2>2, <2>5, <2>6, Strobes
  <2>8. Stopping /\ ticks = 1 => Off'
    BY <2>1, <2>2, <2>3, <2>6, Strobes
  <2>9. Reading' => Off'
    <3>1. CASE todo' = todo
      BY <2>7, <3>1 DEF Reading, Reads
    <3>2. CASE todo' # todo
      <4>1. \/ todo = <<>> /\ todo' \in {<<Run>>} \cup AtTr
            \/ todo # <<>> /\ ticks = 1
               /\ (todo' = Tail(todo) \/ (todo = <<Empty>> /\ todo' = <<Ditr, Empty>>))
        BY <2>1, <3>2, FirmStep
      <4>2. SUFFICES ASSUME Reads(todo') PROVE Off'
        BY DEF Reading
      <4>3. Reads(todo) \/ Stops(todo)
        BY <2>2, <4>1, <4>2, ReadsAfterStop
      <4>4. Stops(todo) => ticks = 1
        BY <4>1 DEF Stops
      <4>5. QED
        BY <2>7, <2>8, <4>3, <4>4 DEF Reading, Stopping
    <3>3. QED
      BY <3>1, <3>2
  <2>10. rdLast' => Off'
    <3>1. rdLast' => todo = <<Ditr, Empty>>
      BY <2>1, Strobes DEF FifoNext
    <3>2. QED
      BY <2>7, <3>1 DEF Reading, Reads
  <2>11. ASSUME Stopping', ticks' \in 1 .. StrobeTicks
         PROVE  /\ regTRCMD' = "STOP"
                /\ ticks' \in 1 .. StrobeTicks - 1 => trstate' # "ARMED"
                /\ ticks' \in 1 .. StrobeTicks - 2 => Off'
    <3>1. StrobeTicks \in Nat /\ ticks \in 0 .. StrobeTicks + 1 /\ ticks' \in 1 .. StrobeTicks
      BY <2>2, <2>11
    <3>2. ticks' # 0
      BY <3>1
    <3>3. todo' = todo
      BY <2>1, <3>2, FirmStep
    <3>4. ticks' = ticks - 1
      BY <2>1, <3>1, <3>2, FirmStep
    <3>5. Stopping
      BY <2>11, <3>3 DEF Stopping, Stops
    <3>6. ticks > 1
      BY <3>1, <3>4
    <3>7. regTRCMD_WR /\ regTRCMD' = "STOP"
      BY <2>1, <2>4, <3>5, <3>6, Strobes
    <3>8. /\ ticks' \in 1 .. StrobeTicks - 1 => ticks \in 1 .. StrobeTicks
          /\ ticks' \in 1 .. StrobeTicks - 2 => ticks \in 1 .. StrobeTicks - 1 /\ ticks \in 1 .. StrobeTicks
      BY <3>1, <3>4
    <3>9. QED
      BY <2>1, <2>2, <2>3, <3>5, <3>7, <3>8, TraceStep
  <2>12. FifoTypeOK' /\ DepthRight'
    <3>1. FifoTypeOK /\ hr \in Data /\ rdLast \in BOOLEAN /\ (rdLast => Off)
      BY DEF IInv, TypeOK
    <3>2. FifoStep(trstate = "IDLE", fifo_rd, fifo_wr, hr)
      BY <2>1 DEF FifoNext
    <3>3. ~(fifo_rd /\ fifo_wr)
      BY <3>1 DEF fifo_rd, fifo_wr, traceWRIn, Off
    <3>4. fifo_rd \in BOOLEAN /\ fifo_wr \in BOOLEAN /\ (trstate = "IDLE") \in BOOLEAN
      BY DEF fifo_rd, fifo_wr
    <3>5. QED
      BY <2>2, <3>1, <3>2, <3>3, <3>4, FifoTypes, FifoDepth
  <2>13. u' \in {"FETCH", "EXEC", "HALT"} /\ at' \in Data \cup {"data"} /\ (u' = "FETCH" => at' \in Data)
    <3>1. u \in {"FETCH", "EXEC", "HALT"} /\ at \in Data \cup {"data"} /\ (u = "FETCH" => at \in Data)
      BY DEF IInv, TypeOK
    <3>2. PICK w \in Waits : CpuMicro(~w)
      BY <2>1 DEF CpuNext
    <3>3. QED
      BY <3>1, <3>2 DEF CpuMicro, Nicond, Fetch, Halt
  <2>14. hr' \in Data /\ regsLOAD' \in BOOLEAN /\ cpuRUN' \in BOOLEAN
    <3>1. hr \in Data /\ cpuRUN \in BOOLEAN /\ (u = "FETCH" => at \in Data)
      BY DEF IInv, TypeOK
    <3>2. PICK w \in Waits : CpuLoad(~w) /\ CpuRun(~w)
      BY <2>1 DEF CpuNext
    <3>3. hr' \in Data /\ regsLOAD' \in BOOLEAN
      BY <3>1, <3>2 DEF CpuLoad
    <3>4. cpuRUN' \in BOOLEAN
      BY <3>1, <3>2 DEF CpuRun, cslSET, Access
    <3>5. QED
      BY <3>3, <3>4
  <2>15. /\ brstate' \in {"IDLE", "ARMED", "BREAK"}
         /\ recorded' \in BOOLEAN /\ traced' \in BOOLEAN
         /\ rdLast' \in BOOLEAN /\ wrLast' \in BOOLEAN
    <3>1. brstate' \in {"IDLE", "ARMED", "BREAK"}
      BY <2>1 DEF BrNext, IInv, TypeOK
    <3>2. recorded' \in BOOLEAN /\ traced' \in BOOLEAN
      BY <2>1, Zenon DEF Count, IInv, TypeOK
    <3>3. rdLast' \in BOOLEAN /\ wrLast' \in BOOLEAN
      BY <2>1 DEF FifoNext, regDITR_RD, Access, traceWRIn, IInv, TypeOK
    <3>4. QED
      BY <3>1, <3>2, <3>3
  <2>16. TypeOK'
    BY <2>1, <2>2, <2>12, <2>13, <2>14, <2>15, FirmStep, TraceStep, Strobes
       DEF TypeOK, TrCmds, BrCmds
  <2>17. todo' \in Todos /\ (todo' = <<>> => ticks' = 0)
    BY <2>1, FirmStep
  <2>18. /\ Stopping' /\ ticks' \in 1 .. StrobeTicks => regTRCMD' = "STOP"
         /\ Stopping' /\ ticks' \in 1 .. StrobeTicks - 1 => trstate' # "ARMED"
         /\ Stopping' /\ ticks' \in 1 .. StrobeTicks - 2 => Off'
    BY <2>2, <2>11
  <2>19. QED
    BY <2>9, <2>10, <2>12, <2>13, <2>16, <2>17, <2>18 DEF IInv
<1>3. QED
  BY <1>1, <1>2

\* After the reset of the FPGA the invariant holds.
LEMMA Initial == Init => IInv
<1> SUFFICES ASSUME Init PROVE IInv
  OBVIOUS
<1>1. /\ trstate = "IDLE" /\ brstate = "IDLE" /\ regTRCMD = "RESET" /\ regBRCMD = "OFF"
      /\ rdLast = FALSE /\ wrLast = FALSE /\ regsLOAD = FALSE /\ hr \in Data
      /\ at = "data" /\ u = "HALT" /\ cpuRUN = FALSE
      /\ recorded = FALSE /\ traced = FALSE
  BY DEF Init
<1>2. todo = <<>> /\ ticks = 0
  BY DEF Init
<1>3. rd_addr = 0 /\ wr_addr = 0 /\ depth = 0
      /\ \E d \in Data : mem = [a \in 0 .. BUFSZ - 1 |-> d] /\ out = d
  BY DEF Init, FifoInit
<1>4. FifoTypeOK /\ DepthRight
  BY <1>3, FifoAssumption DEF FifoTypeOK, DepthRight, Slot
<1>5. ticks \in 0 .. StrobeTicks + 1
  <2>1. StrobeTicks \in Nat
    BY DebugAssumption
  <2>2. QED
    BY <1>2, <2>1
<1>6. TypeOK
  BY <1>1, <1>4, <1>5, Zenon DEF TypeOK
<1>7. todo \in Todos /\ Off /\ ~Stopping
  BY <1>1, <1>2 DEF Todos, Single, Off, Stopping, Stops
<1>8. QED
  BY <1>1, <1>2, <1>4, <1>6, <1>7 DEF IInv

\* The invariant holds in every state, if no command reads a single entry.
LEMMA Invariant ==
    ASSUME "PEEK" \notin Commands
    PROVE  Spec => []IInv
<1>1. IInv /\ [Next]_vars => IInv'
  BY Inductive
<1>2. QED
  BY Initial, <1>1, PTL DEF Spec

-----------------------------------------------------------------------------
(* What the operator reads and commands.                                   *)

\* The first clock of a strobe shows the command of the one before; after it
\* the register holds what the firmware writes.
TrWritten == todo \in AtTr /\ ticks \in 1 .. StrobeTicks => regTRCMD = Head(todo)[2]
BrWritten == todo \in AtBr /\ ticks \in 1 .. StrobeTicks => regBRCMD = Head(todo)[2]

\* RESET and OFF act in the clock after they have been written.
ResetActs == regTRCMD = "RESET" => \/ trstate = "IDLE"
                                   \/ todo \in AtTr /\ ticks = StrobeTicks
OffActs   == regBRCMD = "OFF" => \/ brstate # "ARMED"
                                 \/ todo \in AtBr /\ ticks = StrobeTicks

\* The entry that has been read is removed before the next access begins, and
\* the register of the RAM holds the oldest one while the console reads it.
PopInTime == rdLast => ticks # 0
Fetched   == regDITR_RD /\ ~empty => out = mem[rd_addr]

\* No write finds the buffer full: it is empty when the trace begins, and leaves
\* ACTIVE in the clock after the write that fills it.
Room == /\ trstate = "ARMED" => depth = 0
        /\ trstate = "ACTIVE" /\ full => wrLast

\* In the first clock of an instruction the load strobe is up, and the write detector
\* is not set if it was down before; after that the instruction is in the trace.
Recorded ==
    /\ regsLOAD /\ u # "FETCH" => ~recorded /\ (traced => ~wrLast)
    /\ ~regsLOAD /\ traced => recorded

CInv == TrWritten /\ BrWritten /\ ResetActs /\ OffActs /\ PopInTime /\ Fetched /\ Room /\ Recorded

\* A register that the firmware writes holds the command after one clock.
LEMMA CommandsWritten ==
    ASSUME IInv, TrWritten, BrWritten, FirmNext, CslNext, "PEEK" \notin Commands
    PROVE  TrWritten' /\ BrWritten'
<1>1. /\ todo \in Todos /\ (todo = <<>> => ticks = 0)
      /\ ticks \in 0 .. StrobeTicks + 1 /\ StrobeTicks \in Nat /\ StrobeTicks >= 3
  BY DebugAssumption DEF IInv, TypeOK
<1>2. ASSUME ticks' \in 1 .. StrobeTicks
      PROVE  todo' = todo /\ ticks' = ticks - 1 /\ ticks > 1
  <2>1. ticks' # 0
    BY <1>1, <1>2
  <2>2. todo' = todo /\ ticks' = ticks - 1
    BY <1>2, <2>1, FirmStep
  <2>3. QED
    BY <1>1, <1>2, <2>2
<1>3. ASSUME todo \in AtTr, ticks > 1
      PROVE  regTRCMD' = Head(todo)[2]
  BY <1>3, Strobes
<1>4. ASSUME todo \in AtBr, ticks > 1
      PROVE  regBRCMD' = Head(todo)[2]
  BY <1>4, AtBrParts DEF CslNext, regBRCMD_WR, Access
<1>5. TrWritten'
  BY <1>2, <1>3 DEF TrWritten
<1>6. BrWritten'
  BY <1>2, <1>4 DEF BrWritten
<1>7. QED
  BY <1>5, <1>6

\* RESET resets the trace.
LEMMA ResetStep ==
    ASSUME IInv, TrWritten, ResetActs, FirmNext, CslNext, TrNext, "PEEK" \notin Commands
    PROVE  ResetActs'
<1>1. /\ todo \in Todos /\ ticks \in 0 .. StrobeTicks + 1
      /\ StrobeTicks \in Nat /\ StrobeTicks >= 3
  BY DebugAssumption DEF IInv, TypeOK
<1>2. SUFFICES ASSUME regTRCMD' = "RESET"
               PROVE  trstate' = "IDLE" \/ (todo' \in AtTr /\ ticks' = StrobeTicks)
  BY DEF ResetActs
<1>3. CASE regTRCMD = "RESET" /\ regTRCMD_WR
  BY <1>3 DEF TrNext
<1>4. CASE regTRCMD = "RESET" /\ ~regTRCMD_WR
  <2>1. ~(todo \in AtTr /\ ticks = StrobeTicks)
    BY <1>1, <1>4, Strobes
  <2>2. trstate = "IDLE"
    BY <1>4, <2>1 DEF ResetActs
  <2>3. QED
    BY <1>4, <2>2 DEF TrNext
<1>5. CASE regTRCMD # "RESET"
  <2>1. todo \in AtTr /\ ticks > 1 /\ Head(todo)[2] = "RESET"
    BY <1>2, <1>5, Strobes
  <2>2. ticks = StrobeTicks + 1
    BY <1>1, <1>5, <2>1 DEF TrWritten
  <2>3. todo' = todo /\ ticks' = ticks - 1
    BY <1>1, <2>2 DEF FirmNext, Idle, Type, StartAccess, Strobe, EndAccess
  <2>4. QED
    BY <1>1, <2>1, <2>2, <2>3
<1>6. QED
  BY <1>3, <1>4, <1>5

\* OFF disarms the breakpoint.
LEMMA OffStep ==
    ASSUME IInv, BrWritten, OffActs, FirmNext, CslNext, BrNext, "PEEK" \notin Commands
    PROVE  OffActs'
<1>1. /\ todo \in Todos /\ (todo = <<>> => ticks = 0) /\ ticks \in 0 .. StrobeTicks + 1
      /\ StrobeTicks \in Nat /\ StrobeTicks >= 3
      /\ brstate \in {"IDLE", "ARMED", "BREAK"}
  BY DebugAssumption DEF IInv, TypeOK
<1>2. regBRCMD_WR => todo \in AtBr /\ ticks > 1 /\ regBRCMD' = Head(todo)[2]
  <2>1. SUFFICES ASSUME ticks > 1, Head(todo)[1] = "br" PROVE todo \in AtBr
    BY DEF regBRCMD_WR, Access, CslNext
  <2>2. todo # <<>>
    BY <1>1, <2>1
  <2>3. QED
    BY <1>1, <2>1, <2>2, AtTrParts, SingleParts DEF Todos
<1>3. todo \in AtBr /\ ticks > 1 => regBRCMD_WR
  BY AtBrParts DEF regBRCMD_WR, Access
<1>4. ~regBRCMD_WR => regBRCMD' = regBRCMD
  BY DEF CslNext
<1>5. SUFFICES ASSUME regBRCMD' = "OFF"
               PROVE  brstate' # "ARMED" \/ (todo' \in AtBr /\ ticks' = StrobeTicks)
  BY DEF OffActs
<1>6. CASE regBRCMD = "OFF" /\ regBRCMD_WR
  BY <1>6 DEF BrNext, brOff
<1>7. CASE regBRCMD = "OFF" /\ ~regBRCMD_WR
  <2>1. ~(todo \in AtBr /\ ticks = StrobeTicks)
    BY <1>1, <1>3, <1>7
  <2>2. brstate \in {"IDLE", "BREAK"}
    BY <1>1, <1>7, <2>1 DEF OffActs
  <2>3. QED
    BY <1>7, <2>2 DEF BrNext, brOff
<1>8. CASE regBRCMD # "OFF"
  <2>1. todo \in AtBr /\ ticks > 1 /\ Head(todo)[2] = "OFF"
    BY <1>2, <1>4, <1>5, <1>8
  <2>2. ticks = StrobeTicks + 1
    BY <1>1, <1>8, <2>1 DEF BrWritten
  <2>3. todo' = todo /\ ticks' = ticks - 1
    BY <1>1, <2>2 DEF FirmNext, Idle, Type, StartAccess, Strobe, EndAccess
  <2>4. QED
    BY <1>1, <2>1, <2>2, <2>3
<1>9. QED
  BY <1>6, <1>7, <1>8

\* The word that the console reads stays in the output register.
LEMMA FetchStep ==
    ASSUME IInv, PopInTime, FirmNext, CslNext, FifoNext, "PEEK" \notin Commands
    PROVE  PopInTime' /\ Fetched'
<1>1. /\ todo \in Todos /\ (todo = <<>> => ticks = 0) /\ ticks \in 0 .. StrobeTicks + 1
      /\ StrobeTicks \in Nat /\ StrobeTicks >= 3 /\ FifoTypeOK
      /\ rdLast \in BOOLEAN /\ (Reading => Off)
  BY DebugAssumption DEF IInv, TypeOK
<1>2. PopInTime'
  <2>1. SUFFICES ASSUME rdLast' PROVE ticks' # 0
    BY DEF PopInTime
  <2>2. regDITR_RD
    BY <2>1 DEF FifoNext
  <2>3. ticks > 1
    BY <2>2 DEF regDITR_RD, Access
  <2>4. QED
    BY <1>1, <2>3 DEF FirmNext, Idle, Type, StartAccess, Strobe, EndAccess
<1>3. Fetched'
  <2>1. SUFFICES ASSUME regDITR_RD', ~empty' PROVE out' = mem'[rd_addr']
    BY DEF Fetched
  <2>2. Head(todo')[1] = "ditr" /\ ticks' > 1
    BY <2>1 DEF regDITR_RD, Access
  <2>3. todo' = todo /\ (ticks = 0 \/ ticks > 1)
    BY <1>1, <2>2 DEF FirmNext, Idle, Type, StartAccess, Strobe, EndAccess, firmVars
  <2>4. todo # <<>>
    BY <1>1, <2>2, <2>3 DEF FirmNext, Idle, Type, StartAccess, Strobe, EndAccess, firmVars
  <2>5. todo = <<Ditr, Empty>>
    BY <1>1, <2>2, <2>3, <2>4, AtTrParts, AtBrParts, SingleParts DEF Todos
  <2>6. Off
    BY <1>1, <2>5 DEF Reading, Reads
  <2>7. ~fifo_wr
    BY <2>6 DEF fifo_wr, traceWRIn, Off
  <2>8. ~fifo_rd
    BY <2>2, <2>3 DEF fifo_rd, regDITR_RD, Access, PopInTime
  <2>9. FifoStep(trstate = "IDLE", fifo_rd, fifo_wr, hr)
    BY DEF FifoNext
  <2>10. trstate # "IDLE"
    BY <2>1, <2>9 DEF FifoStep, empty
  <2>11. rd_addr' = rd_addr /\ mem' = mem /\ out' = mem[rd_addr]
    BY <2>7, <2>8, <2>9, <2>10 DEF FifoStep
  <2>12. QED
    BY <2>11
<1>4. QED
  BY <1>2, <1>3

\* The buffer does not fill but by the write that ends the trace.
LEMMA RoomStep ==
    ASSUME TypeOK, Room, TrNext, FifoNext
    PROVE  Room'
<1>1. SIZE \in Nat /\ SIZE >= 2 /\ depth \in 0 .. SIZE - 1
  BY FifoAssumption DEF TypeOK, FifoTypeOK
<1>2. depth' = IF trstate = "IDLE" THEN 0 ELSE depthNext(fifo_rd, fifo_wr)
  BY DEF FifoNext, FifoStep
<1>3. fifo_wr => trstate = "ACTIVE" /\ wrLast'
  BY DEF fifo_wr, traceWRIn, FifoNext
<1>4. trstate = "ARMED" => depth' = 0
  BY <1>1, <1>2, <1>3 DEF depthNext, empty, Room
<1>5. ASSUME trstate' = "ARMED"
      PROVE  depth' = 0
  <2>1. trstate \in {"IDLE", "ARMED"}
    BY <1>5 DEF TrNext, TypeOK
  <2>2. QED
    BY <1>2, <1>4, <2>1
<1>6. ASSUME trstate' = "ACTIVE", depth' = SIZE - 1
      PROVE  wrLast'
  <2>1. trstate = "ACTIVE"
    <3>1. trstate # "IDLE" /\ trstate # "ARMED"
      BY <1>1, <1>2, <1>4, <1>6
    <3>2. QED
      BY <1>6, <3>1 DEF TrNext
  <2>2. ~full
    BY <1>6, <2>1 DEF TrNext, trDone
  <2>3. fifo_wr
    BY <1>1, <1>2, <1>6, <2>1, <2>2 DEF depthNext, empty, full
  <2>4. QED
    BY <1>3, <2>3
<1>7. QED
  BY <1>5, <1>6 DEF Room, full

\* The strobe of a fetch without a wait state comes with the instruction.
LEMMA RecordStep ==
    ASSUME TypeOK, Room, Recorded, FifoNext, CpuNext, Count
    PROVE  Recorded'
<1>1. regsLOAD' <=> u = "FETCH"
  BY DEF CpuNext, CpuLoad
<1>2. wrLast' => regsLOAD
  BY DEF FifoNext, traceWRIn
<1>3. ASSUME regsLOAD', u' # "FETCH"
      PROVE  ~recorded' /\ (traced' => ~wrLast')
  BY <1>1, <1>2, <1>3 DEF Count, loads
<1>4. ASSUME ~regsLOAD', traced'
      PROVE  recorded'
  <2>1. u # "FETCH" /\ ~loads
    BY <1>1, <1>4 DEF loads
  <2>2. traced /\ trstate = "ACTIVE"
    BY <1>4, <2>1 DEF Count
  <2>3. CASE regsLOAD
    BY <2>1, <2>2, <2>3 DEF Count, Recorded, Room, fifo_wr, traceWRIn
  <2>4. CASE ~regsLOAD
    BY <2>1, <2>2, <2>4 DEF Count, Recorded
  <2>5. QED
    BY <2>3, <2>4
<1>5. QED
  BY <1>3, <1>4 DEF Recorded

\* Both invariants hold together.
LEMMA CommandInvariant ==
    ASSUME "PEEK" \notin Commands
    PROVE  Spec => [](IInv /\ CInv)
<1>1. Init => CInv
  <2>1. SUFFICES ASSUME Init PROVE CInv
    OBVIOUS
  <2>2. ~traced /\ ~regsLOAD /\ ~rdLast /\ trstate = "IDLE" /\ brstate = "IDLE"
    BY <2>1 DEF Init
  <2>3. ticks = 0
    BY <2>1 DEF Init
  <2>4. ~(ticks > 1) /\ ticks \notin 1 .. StrobeTicks
    <3>1. StrobeTicks \in Nat
      BY DebugAssumption
    <3>2. QED
      BY <2>3, <3>1
  <2>5. QED
    BY <2>2, <2>4 DEF CInv, TrWritten, BrWritten, ResetActs, OffActs, PopInTime, Fetched,
                      Room, Recorded, regDITR_RD, Access
<1>2. ASSUME IInv, CInv, [Next]_vars PROVE CInv'
  <2>1. CASE UNCHANGED vars
    BY <1>2, <2>1 DEF CInv, TrWritten, BrWritten, ResetActs, OffActs, PopInTime, Fetched,
                      Room, Recorded, regDITR_RD, Access, empty, full,
                      vars, fifoVars, debugVars,
                      cpuVars, firmVars, auxVars
  <2>2. CASE Next
    <3>1. FirmNext /\ CslNext /\ TrNext /\ BrNext /\ FifoNext /\ CpuNext /\ Count /\ TypeOK
      BY <1>2, <2>2 DEF Next, IInv
    <3>2. TrWritten' /\ BrWritten'
      BY <1>2, <3>1, CommandsWritten DEF CInv
    <3>3. ResetActs' /\ OffActs'
      BY <1>2, <3>1, ResetStep, OffStep DEF CInv
    <3>4. PopInTime' /\ Fetched'
      BY <1>2, <3>1, FetchStep DEF CInv
    <3>5. Room' /\ Recorded'
      BY <1>2, <3>1, RoomStep, RecordStep DEF CInv
    <3>6. QED
      BY <3>2, <3>3, <3>4, <3>5 DEF CInv
  <2>3. QED
    BY <1>2, <2>1, <2>2
<1>3. QED
  BY <1>1, <1>2, Invariant, PTL DEF Spec

-----------------------------------------------------------------------------
(* The theorems.                                                           *)

\* Every register of the trace unit and of the firmware's commands keeps a
\* value that the code gives it.
THEOREM TypeCorrect ==
    ASSUME "PEEK" \notin Commands
    PROVE  Spec => []TypeOK
<1>1. IInv => TypeOK
  BY DEF IInv
<1>2. QED
  BY <1>1, Invariant, PTL

\* TREMPTY and TRFULL are right, whatever the operator does to the trace and
\* whenever the CPU fetches, as long as only TR DUMP reads entries.
THEOREM DepthCorrect ==
    ASSUME "PEEK" \notin Commands
    PROVE  Spec => []DepthOK
<1>1. IInv => DepthOK
  BY DEF IInv, DepthOK
<1>2. QED
  BY <1>1, Invariant, PTL

\* The trace buffer with its pointers, its depth counter and its two edge
\* detectors implements the log of Recorder.
THEOREM ImplementsRecorder ==
    ASSUME "PEEK" \notin Commands
    PROVE  Spec => Records
<1>1. Init => Log!Init
  <2>1. SUFFICES ASSUME Init PROVE Log!Init
    OBVIOUS
  <2>2. trstate = "IDLE" /\ depth = 0
    BY <2>1 DEF Init, FifoInit
  <2>3. Words \in Seq(Data) /\ Len(Words) = 0
    BY <2>1, <2>2, Initial, WordsSeq DEF IInv, TypeOK
  <2>4. Words = <<>>
    BY <2>3
  <2>5. QED
    BY <2>2, <2>4 DEF Log!Init
<1>2. ASSUME IInv, IInv', [Next]_vars PROVE [Log!Next]_<<trstate, Words>>
  <2>1. CASE UNCHANGED vars
    BY <2>1 DEF vars, debugVars, fifoVars, Words, Slot
  <2>2. CASE Next
    <3>1. TrNext /\ FifoStep(trstate = "IDLE", fifo_rd, fifo_wr, hr)
      BY <2>2 DEF Next, FifoNext
    <3>2. /\ FifoTypeOK /\ FifoTypeOK' /\ DepthRight /\ hr \in Data
          /\ rdLast \in BOOLEAN /\ (rdLast => Off)
      BY <1>2 DEF IInv, TypeOK
    <3>3. <<trstate, trstate'>> \in Log!Moves \/ UNCHANGED trstate
      <4>1. trstate \in {"IDLE", "ARMED", "ACTIVE", "DONE"}
        BY <1>2 DEF IInv, TypeOK
      <4>2. CASE trstate = "IDLE"
        BY <3>1, <4>2 DEF TrNext, Log!Moves
      <4>3. CASE trstate = "ARMED"
        BY <3>1, <4>3 DEF TrNext, Log!Moves
      <4>4. CASE trstate = "ACTIVE"
        BY <3>1, <4>4 DEF TrNext, Log!Moves
      <4>5. CASE trstate = "DONE"
        BY <3>1, <4>5 DEF TrNext, Log!Moves
      <4>6. QED
        BY <4>1, <4>2, <4>3, <4>4, <4>5
    <3>4. Log!Grow \/ Log!Shrink \/ Log!Clear \/ UNCHANGED Words
      <4>1. fifo_wr => trstate = "ACTIVE" /\ ~fifo_rd
        BY <3>2 DEF fifo_wr, traceWRIn, fifo_rd, Off
      <4>2. fifo_rd \in BOOLEAN /\ fifo_wr \in BOOLEAN
        BY DEF fifo_rd, fifo_wr
      <4>3. CASE trstate = "IDLE"
        <5>1. depth' = 0
          BY <3>1, <4>3 DEF FifoStep
        <5>2. Words' = [i \in 1 .. 0 |-> mem'[Slot(i)']]
          BY <5>1 DEF Words
        <5>3. Words' = <<>>
          BY <5>2
        <5>4. QED
          BY <4>3, <5>3 DEF Log!Clear
      <4>4. CASE trstate # "IDLE" /\ fifo_wr /\ ~full
        <5>1. FifoStep(FALSE, FALSE, TRUE, hr)
          BY <3>1, <4>1, <4>2, <4>4
        <5>2. Words' = Append(Words, hr)
          BY <3>2, <4>4, <5>1, FifoAppend
        <5>3. Len(Words) < SIZE - 1
          BY <3>2, <4>4, WordsSeq, FifoAssumption DEF full, FifoTypeOK
        <5>4. QED
          BY <3>2, <4>1, <4>4, <5>2, <5>3 DEF Log!Grow
      <4>5. CASE trstate # "IDLE" /\ fifo_rd /\ ~empty
        <5>1. FifoStep(FALSE, TRUE, FALSE, hr)
          BY <3>1, <4>1, <4>2, <4>5
        <5>2. Words # <<>> /\ Words' = Tail(Words)
          BY <3>2, <4>5, <5>1, FifoTail
        <5>3. QED
          BY <5>2 DEF Log!Shrink
      <4>6. CASE trstate # "IDLE" /\ ~(fifo_wr /\ ~full) /\ ~(fifo_rd /\ ~empty)
        <5>1. rd_addr' = rd_addr /\ mem' = mem /\ depth' = depth
          BY <3>1, <4>6 DEF FifoStep, depthNext
        <5>2. QED
          BY <5>1 DEF Words, Slot
      <4>7. QED
        BY <4>3, <4>4, <4>5, <4>6
    <3>5. QED
      BY <3>3, <3>4 DEF Log!Next
  <2>3. QED
    BY <1>2, <2>1, <2>2
<1>3. QED
  BY <1>1, <1>2, Invariant, PTL DEF Spec, Records, Log!Spec

\* The console reads the oldest entry that it has not read: the pointer moves
\* and the RAM is read between two accesses, however long the strobes are.
THEOREM ReadsCorrect ==
    ASSUME "PEEK" \notin Commands
    PROVE  Spec => []ReadsOldest
<1>1. IInv /\ CInv => ReadsOldest
  <2>1. SUFFICES ASSUME IInv, CInv, regDITR_RD, ~empty PROVE out = Words[1]
    BY DEF ReadsOldest
  <2>2. FifoTypeOK /\ out = mem[rd_addr]
    BY <2>1 DEF IInv, TypeOK, CInv, Fetched
  <2>3. 1 \in 1 .. depth /\ Slot(1) = rd_addr
    BY <2>1, <2>2, FifoAssumption DEF FifoTypeOK, empty, Slot
  <2>4. QED
    BY <2>2, <2>3, WordsSeq
<1>2. QED
  BY <1>1, CommandInvariant, PTL

\* Without wait states the trace has every instruction that is fetched while it is on,
\* and has it once; what is recorded twice is followed by a fetch with a wait state.
\* Every size of the buffer, every strobe and every moment at which the operator starts,
\* stops or empties the trace.
THEOREM RecordedOnce ==
    ASSUME "PEEK" \notin Commands
    PROVE  Spec => []OneRecord
<1>1. CInv => OneRecord
  BY DEF CInv, Recorded, OneRecord, fifo_wr, traceWRIn
<1>2. QED
  BY <1>1, CommandInvariant, PTL

\* RESET and OFF take effect although the unit looks at the register in the
\* clock in which it is written, for every strobe of three clocks or more.
THEOREM CommandsCorrect ==
    ASSUME "PEEK" \notin Commands
    PROVE  Spec => []CommandsTake
<1>1. CInv => CommandsTake
  <2>1. <<>> \notin AtTr /\ <<>> \notin AtBr
    BY AtTrParts, AtBrParts
  <2>2. QED
    BY <2>1 DEF CInv, ResetActs, OffActs, CommandsTake
<1>2. QED
  BY <1>1, CommandInvariant, PTL
=============================================================================
