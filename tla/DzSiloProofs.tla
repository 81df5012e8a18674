---------------------------- MODULE DzSiloProofs ----------------------------
(***************************************************************************)
(* The receive side of the DZ11 for every number of lines, every set of    *)
(* characters, every size of the silo and every alarm level: no sleeping   *)
(* driver misses the alarm, and the silo is the queue of Silo.             *)
(***************************************************************************)
EXTENDS DzSilo, SequenceTheorems, TLAPS

\* Remainders of what is below twice the divisor.
LEMMA Remainder ==
  ASSUME NEW a \in Nat, NEW b \in Nat \ {0}
  PROVE  /\ a % b \in 0 .. b - 1
         /\ a < b => a % b = a
         /\ a >= b /\ a < 2 * b => a % b = a - b
OBVIOUS

-----------------------------------------------------------------------------
(* The types. *)

\* A clock keeps the registers of the silo in their ranges, ...
LEMMA ClockTypes ==
  ASSUME TypeOK, NEW clr \in BOOLEAN, Clock(clr)
  PROVE  /\ depth' \in 0 .. FIFO_SIZE - 1
         /\ rd_ptr' \in 0 .. FIFO_SIZE - 1 /\ wr_ptr' \in 0 .. FIFO_SIZE - 1
         /\ DPRAM' \in [0 .. FIFO_SIZE - 1 -> Word] /\ fifoDATA' \in Word
         /\ countSA' \in 0 .. 2 * ALARM - 1
         /\ uart' \in [Lines -> Data \cup {NoChar}] /\ scan' \in Lines
<1> USE SiloAssumption DEF TypeOK, Clock
<1>1. depth' \in 0 .. FIFO_SIZE - 1
  BY DEF Pointers, push, pop, full, empty
<1>2. rd_ptr' \in 0 .. FIFO_SIZE - 1 /\ wr_ptr' \in 0 .. FIFO_SIZE - 1
  BY DEF Pointers, Inc
<1>3. DPRAM' \in [0 .. FIFO_SIZE - 1 -> Word] /\ fifoDATA' \in Word
  <2>1. wr => <<scan, uart[scan]>> \in Word
    BY DEF wr, Word
  <2>2. QED
    BY <2>1 DEF Ram
<1>4. countSA' \in 0 .. 2 * ALARM - 1
  <2>1. (countSA + 1) % (2 * ALARM) \in 0 .. 2 * ALARM - 1
    BY Remainder
  <2>2. QED
    BY <2>1 DEF Alarm
<1>5. uart' \in [Lines -> Data \cup {NoChar}]
  BY DEF Receive
<1>6. scan' \in Lines
  <2>1. (scan + 1) % NLines \in 0 .. NLines - 1
    BY Remainder DEF Lines
  <2>2. QED
    BY <2>1 DEF Receive, Lines
<1>7. QED
  BY <1>1, <1>2, <1>3, <1>4, <1>5, <1>6

\* ... and the strobes and flags Boolean.
LEMMA ClockFlags ==
  ASSUME TypeOK, NEW clr \in BOOLEAN, Clock(clr)
  PROVE  /\ rbufDVAL' \in BOOLEAN /\ rbufSA' \in BOOLEAN
         /\ lastREAD' \in BOOLEAN /\ rd_dly' \in BOOLEAN /\ wr_dly' \in BOOLEAN
<1>1. rbufDVAL' \in BOOLEAN
  BY Zenon DEF TypeOK, Clock, DataValid, empty
<1>2. rbufSA' \in BOOLEAN
  BY Zenon DEF TypeOK, Clock, Alarm
<1>3. lastREAD' \in BOOLEAN /\ rd_dly' \in BOOLEAN /\ wr_dly' \in BOOLEAN
  BY Zenon DEF TypeOK, Clock, rd, wr
<1>4. QED
  BY <1>1, <1>2, <1>3

\* Every step is a clock, with CSR[CLR] only while the driver sleeps, and one of
\* the driver's.
DriverStep ==
  \/ drv' = drv /\ rbufREAD' = rbufREAD /\ got' = got
  \/ /\ drv = "asleep" /\ drv' = "csr" /\ rbufREAD' = rbufREAD /\ got' = got
  \/ /\ drv = "csr" /\ ~rd /\ drv' = (IF empty THEN "asleep" ELSE "rbuf")
     /\ rbufREAD' = rbufREAD /\ got' = got
  \/ drv = "rbuf" /\ drv' = "reading" /\ rbufREAD' = TRUE /\ got' = got
  \/ /\ drv = "reading" /\ drv' = "csr" /\ rbufREAD' = FALSE
     /\ got' = IF rbufDVAL THEN fifoDATA ELSE NoChar

ControlStep ==
  \/ csrMSE' = csrMSE /\ csrSAE' = csrSAE
  \/ /\ ~csrMSE /\ empty /\ csrMSE' = TRUE /\ csrSAE' \in BOOLEAN
     /\ drv = "asleep" /\ drv' = drv

LEMMA Steps ==
  ASSUME Next
  PROVE  \/ /\ Clock(TRUE) /\ drv = "asleep" /\ csrMSE' = FALSE /\ csrSAE' = FALSE
            /\ drv' = drv /\ rbufREAD' = rbufREAD /\ got' = got
         \/ Clock(FALSE) /\ DriverStep /\ ControlStep
BY DEF Next, ClearDz, WriteCsr, Interrupt, ReadCsr, ReadRbuf, EndRead, Wait,
       DriverStep, ControlStep, csr, bus

LEMMA TypeStep ==
  ASSUME TypeOK, [Next]_vars
  PROVE  TypeOK'
<1>1. CASE UNCHANGED vars
  BY <1>1 DEF TypeOK, vars, csr, fifo, stat, dly, bus
<1>2. CASE Next
  <2>1. PICK clr \in BOOLEAN : Clock(clr)
    BY <1>2, Steps
  <2>2. csrMSE' \in BOOLEAN /\ csrSAE' \in BOOLEAN
    BY <1>2, Steps, Zenon DEF ControlStep, TypeOK
  <2>3. rbufREAD' \in BOOLEAN
    BY <1>2, Steps, Zenon DEF DriverStep, TypeOK
  <2>4. drv' \in {"asleep", "csr", "rbuf", "reading"} /\ got' \in Word
    BY <1>2, Steps DEF DriverStep, TypeOK, Word
  <2>5. QED
    BY <2>1, <2>2, <2>3, <2>4, ClockTypes, ClockFlags DEF TypeOK
<1>3. QED
  BY <1>1, <1>2

LEMMA TypeInit == Init => TypeOK
<1> SUFFICES ASSUME Init PROVE TypeOK
  OBVIOUS
<1>1. /\ csrMSE \in BOOLEAN /\ csrSAE \in BOOLEAN /\ rbufDVAL \in BOOLEAN
      /\ rbufSA \in BOOLEAN /\ rbufREAD \in BOOLEAN /\ lastREAD \in BOOLEAN
      /\ rd_dly \in BOOLEAN /\ wr_dly \in BOOLEAN
  BY Zenon DEF Init
<1>2. QED
  BY <1>1, SiloAssumption DEF Init, TypeOK, Lines, Word

\* The pointers, the counters and the flags keep their ranges.
THEOREM TypeCorrect == Spec => []TypeOK
<1>1. QED
  BY TypeInit, TypeStep, PTL DEF Spec

-----------------------------------------------------------------------------
(* The alarm. *)

\* The strobe and its edge belong to the driver's reading; while it sleeps, the
\* alarm counter has counted all that is in the silo.
AlarmInv ==
  /\ rbufREAD => drv = "reading"
  /\ drv = "reading" => rbufREAD
  /\ lastREAD => drv \in {"csr", "reading"}
  /\ csrSAE => csrMSE
  /\ countSA > ALARM => rbufSA
  /\ drv = "asleep" /\ csrSAE /\ ~rbufSA => depth <= countSA

LEMMA AlarmInit == Init => AlarmInv
BY SiloAssumption DEF Init, AlarmInv

\* Below the alarm level the counter does not wrap.
LEMMA NoWrap ==
  ASSUME TypeOK, countSA < ALARM
  PROVE  (countSA + 1) % (2 * ALARM) = countSA + 1
<1>1. countSA + 1 \in Nat /\ 2 * ALARM \in Nat \ {0} /\ countSA + 1 < 2 * ALARM
  BY SiloAssumption DEF TypeOK
<1>2. QED
  BY <1>1, Remainder

LEMMA AlarmStep ==
  ASSUME TypeOK, AlarmInv, [Next]_vars
  PROVE  AlarmInv'
<1>1. CASE UNCHANGED vars
  BY <1>1 DEF AlarmInv, vars, csr, fifo, stat, dly, bus
<1>2. CASE Next
  <2>1. PICK clr \in BOOLEAN : Clock(clr)
    BY <1>2, Steps
  <2>2. (rbufREAD' => drv' = "reading") /\ (drv' = "reading" => rbufREAD')
    <3>1. CASE rbufREAD' = rbufREAD
      <4>1. drv' = "reading" <=> drv = "reading"
        BY <1>2, <3>1, Steps DEF DriverStep, AlarmInv
      <4>2. QED
        BY <3>1, <4>1, Zenon DEF AlarmInv
    <3>2. CASE rbufREAD' = TRUE /\ drv' = "reading"
      BY <3>2
    <3>3. CASE rbufREAD' = FALSE /\ drv' = "csr"
      BY <3>3
    <3>4. QED
      BY <1>2, <3>1, <3>2, <3>3, Steps DEF DriverStep
  <2>3. lastREAD' => drv' \in {"csr", "reading"}
    BY <1>2, <2>1, Steps DEF DriverStep, AlarmInv, Clock
  <2>4. csrSAE' => csrMSE'
    BY <1>2, Steps DEF ControlStep, AlarmInv
  <2>5. countSA' > ALARM => rbufSA'
    BY <2>1, NoWrap, SiloAssumption DEF Clock, Alarm, AlarmInv, TypeOK
  <2>6. ASSUME drv' = "asleep", csrSAE', ~rbufSA'
        PROVE  depth' <= countSA'
    <3>1. Clock(FALSE) /\ DriverStep /\ ControlStep
      BY <1>2, <2>6, Steps
    <3>2. ~rd
      BY <2>6, <3>1 DEF DriverStep, AlarmInv, rd
    <3>3. CASE ~csrSAE
      <4>1. empty /\ ~wr
        BY <2>6, <3>1, <3>3 DEF ControlStep, wr
      <4>2. depth' = 0
        BY <3>1, <3>2, <4>1 DEF Clock, Pointers, push, pop, empty
      <4>3. countSA' = 0
        BY <3>1, <3>3, Zenon DEF Clock, Alarm
      <4>4. QED
        BY <4>2, <4>3
    <3>4. CASE csrSAE
      <4>1. ~rbufSA /\ countSA # ALARM
        BY <2>6, <3>1, <3>2, <3>4, Zenon DEF Clock, Alarm
      <4>2. (countSA + 1) % (2 * ALARM) = countSA + 1
        BY <4>1, NoWrap, SiloAssumption DEF AlarmInv, TypeOK
      <4>3. countSA' = IF wr THEN countSA + 1 ELSE countSA
        BY <3>1, <3>2, <3>4, <4>2 DEF Clock, Alarm
      <4>4. depth' = IF wr /\ ~full THEN depth + 1 ELSE depth
        BY <3>1, <3>2 DEF Clock, Pointers, push, pop
      <4>5. depth <= countSA
        <5>1. CASE drv = "asleep"
          BY <3>4, <4>1, <5>1 DEF AlarmInv
        <5>2. CASE drv # "asleep"
          BY <2>6, <3>1, <5>2 DEF DriverStep, TypeOK, empty
        <5>3. QED
          BY <5>1, <5>2
      <4>6. QED
        BY <4>3, <4>4, <4>5 DEF TypeOK
    <3>5. QED
      BY <3>3, <3>4
  <2>7. QED
    BY <2>2, <2>3, <2>4, <2>5, <2>6 DEF AlarmInv
<1>3. QED
  BY <1>1, <1>2

\* A driver that sleeps with the alarm enabled is woken by sixteen characters,
\* whenever they came: what the counter has not counted has been read.
THEOREM AlarmCorrect == Spec => []AlarmStands
<1>1. TypeOK /\ AlarmInv => AlarmStands
  BY SiloAssumption DEF TypeOK, AlarmInv, AlarmStands
<1>2. QED
  BY <1>1, TypeInit, TypeStep, AlarmInit, AlarmStep, PTL DEF Spec

-----------------------------------------------------------------------------
(* The silo as a queue. *)

Slot(i) == LET a == rd_ptr + i - 1 IN IF a >= FIFO_SIZE THEN a - FIFO_SIZE ELSE a

\* The write pointer is as far ahead as the depth says.  What the driver is about
\* to take is valid and the oldest character; what it has just taken goes with the
\* end of the strobe.
SiloInv ==
  /\ wr_ptr = Slot(depth + 1)
  /\ ~empty => rbufDVAL \/ wr_dly
  /\ drv \in {"rbuf", "reading"} => ~empty /\ rbufDVAL /\ fifoDATA = DPRAM[rd_ptr]
  /\ rd => ~empty /\ got = DPRAM[rd_ptr]

LEMMA SiloInit == Init => SiloInv
BY SiloAssumption DEF Init, SiloInv, Slot, empty, rd

\* The words between the pointers are a sequence as long as the depth.
WordsAreSeq == /\ Words \in Seq(Word) /\ Len(Words) = depth
               /\ \A i \in 1 .. depth : Words[i] = DPRAM[Slot(i)]

LEMMA WordsSeq == TypeOK => WordsAreSeq
<1> SUFFICES ASSUME TypeOK PROVE WordsAreSeq
  OBVIOUS
<1>1. \A i \in 1 .. depth : Slot(i) \in 0 .. FIFO_SIZE - 1
  BY SiloAssumption DEF TypeOK, Slot
<1>2. ASSUME NEW i \in 1 .. depth PROVE (rd_ptr + i - 1) % FIFO_SIZE = Slot(i)
  <2> DEFINE a == rd_ptr + i - 1
  <2>1. a \in Nat /\ FIFO_SIZE \in Nat \ {0} /\ a < 2 * FIFO_SIZE
    BY SiloAssumption DEF TypeOK
  <2>2. Slot(i) = IF a >= FIFO_SIZE THEN a - FIFO_SIZE ELSE a
    BY DEF Slot
  <2> HIDE DEF a
  <2>3. a % FIFO_SIZE = IF a >= FIFO_SIZE THEN a - FIFO_SIZE ELSE a
    <3>1. CASE a < FIFO_SIZE
      BY <2>1, <3>1, Remainder
    <3>2. CASE a >= FIFO_SIZE
      BY <2>1, <3>2, Remainder
    <3>3. QED
      BY <2>1, <3>1, <3>2
  <2>4. QED
    BY <2>2, <2>3 DEF a
<1>3. \A i \in 1 .. depth : DPRAM[Slot(i)] \in Word
  BY <1>1 DEF TypeOK
<1>4. Words = [i \in 1 .. depth |-> DPRAM[Slot(i)]]
  BY <1>2 DEF Words
<1>5. depth \in Nat
  BY SiloAssumption DEF TypeOK
<1>6. QED
  BY <1>1, <1>3, <1>4, <1>5 DEF WordsAreSeq

\* What is written is behind all of them.
LEMMA Apart ==
  ASSUME TypeOK, wr_ptr = Slot(depth + 1), NEW i \in 1 .. depth
  PROVE  Slot(i) \in 0 .. FIFO_SIZE - 1 /\ Slot(i) # wr_ptr
<1>1. /\ depth \in Nat /\ depth <= FIFO_SIZE - 1 /\ FIFO_SIZE \in Nat
      /\ rd_ptr \in 0 .. FIFO_SIZE - 1 /\ i \in Int /\ 1 <= i /\ i <= depth
  BY SiloAssumption DEF TypeOK
<1>2. Slot(i) \in 0 .. FIFO_SIZE - 1
  BY <1>1 DEF Slot
<1>3. Slot(i) # Slot(depth + 1)
  BY <1>1 DEF Slot
<1>4. QED
  BY <1>2, <1>3

\* A character that enters a silo with room is behind all others, ...
LEMMA Push ==
  ASSUME TypeOK, TypeOK', wr_ptr = Slot(depth + 1), Clock(FALSE), ~rd, wr, ~full
  PROVE  Words' = Append(Words, <<scan, uart[scan]>>)
<1> DEFINE in == <<scan, uart[scan]>>
<1>1. /\ rd_ptr' = rd_ptr /\ depth' = depth + 1 /\ depth \in Nat
      /\ depth < FIFO_SIZE - 1 /\ DPRAM' = [DPRAM EXCEPT ![wr_ptr] = in]
  BY SiloAssumption DEF Clock, Pointers, Ram, push, pop, full, TypeOK
<1>2. \A i \in 1 .. depth : Slot(i) \in 0 .. FIFO_SIZE - 1 /\ Slot(i) # wr_ptr
  BY Apart
<1>3. \A i \in 1 .. depth + 1 : DPRAM'[Slot(i)] = IF i = depth + 1 THEN in ELSE DPRAM[Slot(i)]
  BY <1>1, <1>2, SiloAssumption DEF TypeOK
<1>4. /\ Words' \in Seq(Word) /\ Len(Words') = depth + 1
      /\ \A i \in 1 .. depth + 1 : Words'[i] = DPRAM'[Slot(i)]
  <2>1. \A i : Slot(i)' = Slot(i)
    BY <1>1 DEF Slot
  <2>2. /\ Words' \in Seq(Word) /\ Len(Words') = depth'
        /\ \A i \in 1 .. depth' : Words'[i] = DPRAM'[Slot(i)']
    <3>1. WordsAreSeq'
      BY WordsSeq, PTL
    <3>2. QED
      BY <3>1 DEF WordsAreSeq
  <2>3. QED
    BY <1>1, <2>1, <2>2
<1>5. Words \in Seq(Word) /\ Len(Words) = depth /\ \A i \in 1 .. depth : Words[i] = DPRAM[Slot(i)]
  BY WordsSeq DEF WordsAreSeq
<1>6. in \in Word
  BY DEF wr, Word, TypeOK
<1>7. /\ Append(Words, in) \in Seq(Word) /\ Len(Append(Words, in)) = depth + 1
      /\ \A i \in 1 .. depth : Append(Words, in)[i] = Words[i]
      /\ Append(Words, in)[depth + 1] = in
  BY <1>5, <1>6, AppendProperties
<1>8. ASSUME NEW i \in 1 .. depth + 1 PROVE Words'[i] = Append(Words, in)[i]
  <2>1. CASE i = depth + 1
    BY <1>3, <1>4, <1>7, <2>1
  <2>2. CASE i # depth + 1
    <3>1. i \in 1 .. depth
      BY <1>1, <2>2
    <3>2. QED
      BY <1>3, <1>4, <1>5, <1>7, <2>2, <3>1
  <2>3. QED
    BY <2>1, <2>2
<1>9. QED
  BY <1>4, <1>7, <1>8, SeqEqual

\* ... a read takes the first one away, ...
LEMMA Pop ==
  ASSUME TypeOK, TypeOK', Clock(FALSE), rd, ~wr, ~empty
  PROVE  Words # <<>> /\ Words' = Tail(Words)
<1>1. /\ rd_ptr' = Inc(rd_ptr) /\ depth' = depth - 1 /\ depth \in Nat /\ depth > 0
      /\ DPRAM' = DPRAM
  BY SiloAssumption DEF Clock, Pointers, Ram, push, pop, empty, TypeOK
<1>2. \A i \in 1 .. depth - 1 : Slot(i)' = Slot(i + 1)
  BY <1>1, SiloAssumption DEF Slot, Inc, TypeOK
<1>3. Words \in Seq(Word) /\ Len(Words) = depth /\ \A i \in 1 .. depth : Words[i] = DPRAM[Slot(i)]
  BY WordsSeq DEF WordsAreSeq
<1>4. /\ Words' \in Seq(Word) /\ Len(Words') = depth'
      /\ \A i \in 1 .. depth' : Words'[i] = DPRAM'[Slot(i)']
  <2>1. WordsAreSeq'
    BY WordsSeq, PTL
  <2>2. QED
    BY <2>1 DEF WordsAreSeq
<1>5. \A i \in 1 .. depth - 1 : Words'[i] = DPRAM[Slot(i + 1)]
  BY <1>1, <1>2, <1>4
<1>6. Words # <<>>
  BY <1>1, <1>3
<1>7. /\ Tail(Words) \in Seq(Word) /\ Len(Tail(Words)) = depth - 1
      /\ \A i \in 1 .. depth - 1 : Tail(Words)[i] = DPRAM[Slot(i + 1)]
  BY <1>1, <1>3, <1>6, HeadTailProperties
<1>8. QED
  BY <1>1, <1>4, <1>5, <1>6, <1>7, SeqEqual

\* ... and otherwise they stay: nothing is written over a character.
LEMMA Keep ==
  ASSUME TypeOK, TypeOK', wr_ptr = Slot(depth + 1), Clock(FALSE),
         IF rd THEN wr ELSE ~wr \/ full
  PROVE  Words' = Words
<1>1. /\ rd_ptr' = rd_ptr /\ depth' = depth /\ depth \in Nat
      /\ DPRAM' \in {DPRAM, [DPRAM EXCEPT ![wr_ptr] = <<scan, uart[scan]>>]}
  BY SiloAssumption DEF Clock, Pointers, Ram, push, pop, TypeOK
<1>2. \A i \in 1 .. depth : Slot(i) \in 0 .. FIFO_SIZE - 1 /\ Slot(i) # wr_ptr
  BY Apart
<1>3. \A i \in 1 .. depth : DPRAM'[Slot(i)] = DPRAM[Slot(i)]
  BY <1>1, <1>2 DEF TypeOK
<1>4. \A i : Slot(i)' = Slot(i)
  BY <1>1 DEF Slot
<1>5. Words \in Seq(Word) /\ Len(Words) = depth /\ \A i \in 1 .. depth : Words[i] = DPRAM[Slot(i)]
  BY WordsSeq DEF WordsAreSeq
<1>6. /\ Words' \in Seq(Word) /\ Len(Words') = depth'
      /\ \A i \in 1 .. depth' : Words'[i] = DPRAM'[Slot(i)']
  <2>1. WordsAreSeq'
    BY WordsSeq, PTL
  <2>2. QED
    BY <2>1 DEF WordsAreSeq
<1>7. QED
  BY <1>1, <1>3, <1>4, <1>5, <1>6, SeqEqual

\* The oldest character is not written over.
LEMMA OldestStays ==
  ASSUME TypeOK, SiloInv, Clock(FALSE), ~empty
  PROVE  DPRAM'[rd_ptr] = DPRAM[rd_ptr]
<1>1. rd_ptr # wr_ptr
  BY SiloAssumption DEF SiloInv, Slot, TypeOK, empty
<1>2. QED
  BY <1>1 DEF Clock, Ram, TypeOK

LEMMA SiloStep ==
  ASSUME TypeOK, AlarmInv, SiloInv, [Next]_vars
  PROVE  SiloInv'
<1>1. CASE UNCHANGED vars
  BY <1>1 DEF SiloInv, Slot, empty, rd, vars, csr, fifo, stat, dly, bus
<1>2. CASE Clock(TRUE) /\ drv = "asleep" /\ drv' = drv /\ rbufREAD' = rbufREAD
  <2>1. depth' = 0 /\ rd_ptr' = 0 /\ wr_ptr' = 0
    BY <1>2 DEF Clock, Pointers
  <2>2. ~rbufREAD
    BY <1>2 DEF AlarmInv
  <2>3. ~lastREAD'
    BY <1>2, <2>2 DEF Clock
  <2>4. QED
    BY <1>2, <2>1, <2>3, SiloAssumption DEF SiloInv, Slot, empty, rd
<1>3. CASE Clock(FALSE) /\ DriverStep
  <2> USE <1>3
  <2>1. wr_ptr' = Slot(depth + 1)'
    <3>1. wr_ptr = Slot(depth + 1)
      BY DEF SiloInv
    <3>2. CASE pop
      <4>1. depth' = depth - 1 /\ rd_ptr' = Inc(rd_ptr) /\ wr_ptr' = wr_ptr
        BY <3>2 DEF Clock, Pointers, push, pop
      <4>2. QED
        BY <3>1, <3>2, <4>1, SiloAssumption DEF TypeOK, Slot, Inc, pop, empty
    <3>3. CASE push
      <4>1. depth' = depth + 1 /\ rd_ptr' = rd_ptr /\ wr_ptr' = Inc(wr_ptr)
        BY <3>3 DEF Clock, Pointers, push, pop
      <4>2. QED
        BY <3>1, <3>3, <4>1, SiloAssumption DEF TypeOK, Slot, Inc, push, full
    <3>4. CASE ~pop /\ ~push
      <4>1. depth' = depth /\ rd_ptr' = rd_ptr /\ wr_ptr' = wr_ptr
        BY <3>4 DEF Clock, Pointers
      <4>2. QED
        BY <3>1, <4>1 DEF Slot
    <3>5. QED
      BY <3>2, <3>3, <3>4
  <2>2. ~empty' => rbufDVAL' \/ wr_dly'
    <3>1. CASE rd
      BY <3>1 DEF SiloInv, Clock, DataValid
    <3>2. CASE ~rd /\ wr
      BY <3>2 DEF Clock
    <3>3. CASE ~rd /\ ~wr
      <4>1. empty => empty'
        BY <3>3 DEF Clock, Pointers, push, pop, empty
      <4>2. ~empty => rbufDVAL'
        BY <3>3, Zenon DEF SiloInv, Clock, DataValid
      <4>3. QED
        BY <4>1, <4>2
    <3>4. QED
      BY <3>1, <3>2, <3>3
  <2>3. ASSUME drv' \in {"rbuf", "reading"}
        PROVE  ~empty' /\ rbufDVAL' /\ fifoDATA' = DPRAM'[rd_ptr']
    <3>1. ~rd
      BY <2>3 DEF DriverStep, AlarmInv, rd
    <3>2. ~empty
      BY <2>3 DEF DriverStep, SiloInv
    <3>3. rd_ptr' = rd_ptr /\ ~empty'
      BY <3>1, <3>2, SiloAssumption DEF Clock, Pointers, push, pop, empty, TypeOK
    <3>4. rbufDVAL'
      BY <3>1, <3>2, Zenon DEF SiloInv, Clock, DataValid
    <3>5. fifoDATA' = DPRAM'[rd_ptr]
      BY <3>2, OldestStays DEF Clock, Ram
    <3>6. QED
      BY <3>3, <3>4, <3>5
  <2>4. ASSUME rd'
        PROVE  ~empty' /\ got' = DPRAM'[rd_ptr']
    <3>1. rbufREAD /\ ~rbufREAD'
      BY <2>4 DEF rd, Clock
    <3>2. drv = "reading" /\ got' = IF rbufDVAL THEN fifoDATA ELSE NoChar
      BY <3>1 DEF DriverStep, AlarmInv
    <3>3. got' = DPRAM[rd_ptr] /\ ~empty /\ ~rd
      BY <3>1, <3>2 DEF SiloInv, rd
    <3>4. rd_ptr' = rd_ptr /\ ~empty'
      BY <3>3, SiloAssumption DEF Clock, Pointers, push, pop, empty, TypeOK
    <3>5. QED
      BY <3>3, <3>4, OldestStays
  <2>5. QED
    BY <2>1, <2>2, <2>3, <2>4 DEF SiloInv
<1>4. QED
  BY <1>1, <1>2, <1>3, Steps

-----------------------------------------------------------------------------
(* The refinement. *)

\* The receivers of a clock.
LEMMA ReceiversStep ==
  ASSUME TypeOK, Clock(FALSE)
  PROVE  Abstract!Receivers(IF wr THEN scan ELSE Abstract!NoLine)
<1>1. Abstract!NoLine \notin Lines /\ scan \in Lines
  BY SiloAssumption DEF Abstract!NoLine, Lines, TypeOK
<1>2. PICK arrived \in [Lines -> Data \cup {NoChar}] :
        /\ \A l \in Lines : arrived[l] # NoChar => uart[l] = NoChar \/ ~csrMSE
        /\ uart' = [l \in Lines |-> IF arrived[l] # NoChar THEN arrived[l]
                                    ELSE IF wr /\ l = scan THEN NoChar ELSE uart[l]]
  BY DEF Clock, Receive
<1>3. wr => uart[scan] # NoChar /\ uart'[scan] = NoChar
  BY <1>1, <1>2 DEF wr
<1>4. QED
  BY <1>1, <1>2, <1>3 DEF Abstract!Receivers, TypeOK

\* A clock of the silo is a step of the queue, unless a pop and a character collide.
LEMMA Refines ==
  ASSUME TypeOK, TypeOK', AlarmInv, SiloInv, [Next]_vars
  PROVE  [Collides \/ Abstract!Next]_<<uart, Queue, got, rd>>
<1>1. CASE UNCHANGED vars
  <2>1. Words' = Words /\ rd' = rd
    BY <1>1 DEF Words, rd, vars, fifo, dly, bus
  <2>2. QED
    BY <1>1, <2>1 DEF Queue, vars, bus
<1>2. CASE /\ Clock(TRUE) /\ drv = "asleep" /\ drv' = drv
           /\ rbufREAD' = rbufREAD /\ got' = got
  <2>1. ~rd /\ ~rd'
    BY <1>2 DEF rd, AlarmInv, Clock
  <2>2. Words' = <<>>
    <3>1. depth' = 0
      BY <1>2 DEF Clock, Pointers
    <3>2. WordsAreSeq'
      BY WordsSeq, PTL
    <3>3. QED
      BY <3>1, <3>2 DEF WordsAreSeq
  <2>3. uart' = [l \in Lines |-> NoChar]
    BY <1>2 DEF Clock, Receive
  <2>4. rd' = rd
    BY <2>1 DEF rd
  <2>5. Abstract!Clear
    BY <1>2, <2>1, <2>2, <2>3, <2>4 DEF Abstract!Clear, Queue
  <2>6. QED
    BY <2>5 DEF Abstract!Next
<1>3. CASE Clock(FALSE) /\ DriverStep
  <2> DEFINE l == IF wr THEN scan ELSE Abstract!NoLine
  <2>1. Abstract!Receivers(l) /\ l \in Lines \cup {Abstract!NoLine}
        /\ (l \in Lines <=> wr)
    BY <1>3, ReceiversStep, SiloAssumption DEF Abstract!NoLine, Lines, TypeOK
  <2>2. WordsAreSeq
    BY WordsSeq
  <2>3. ~rd => Words' = IF wr /\ Len(Words) < FIFO_SIZE - 1
                        THEN Append(Words, <<scan, uart[scan]>>) ELSE Words
    <3>1. full <=> ~(Len(Words) < FIFO_SIZE - 1)
      BY <2>2, SiloAssumption DEF WordsAreSeq, full, TypeOK
    <3>2. QED
      BY <1>3, <3>1, Push, Keep DEF SiloInv
  <2>4. ~rd => Abstract!Entered(l) = Words'
    BY <2>1, <2>3 DEF Abstract!Entered, Queue
  <2>5. CASE rd
    <3>1. ~empty /\ got = DPRAM[rd_ptr] /\ ~rd'
      BY <1>3, <2>5 DEF SiloInv, Clock, rd, DriverStep, AlarmInv
    <3>2. got' = got
      BY <1>3, <2>5 DEF DriverStep, AlarmInv, rd
    <3>3. CASE wr
      BY <2>5, <3>3 DEF Collides
    <3>4. CASE ~wr
      <4>1. Words' = Tail(Words)
        BY <1>3, <2>5, <3>1, <3>4, Pop
      <4>2. Abstract!Idle(l)
        BY <2>1, <2>5, <3>1, <3>2, <3>4, <4>1 DEF Abstract!Idle, Abstract!Entered, Queue
      <4>3. QED
        BY <2>1, <3>4, <4>2 DEF Abstract!Next
    <3>5. QED
      BY <3>3, <3>4
  <2>6. CASE ~rd /\ rd'
    <3>1. drv = "reading" /\ got' = IF rbufDVAL THEN fifoDATA ELSE NoChar
      BY <1>3, <2>6 DEF Clock, rd, DriverStep, AlarmInv
    <3>2. ~empty /\ got' = DPRAM[rd_ptr]
      BY <3>1 DEF SiloInv
    <3>3. Words # <<>> /\ got' = Head(Words)
      <4>1. depth \in Nat /\ depth > 0 /\ Slot(1) = rd_ptr
        BY <3>2, SiloAssumption DEF TypeOK, Slot, empty
      <4>2. QED
        BY <2>2, <3>2, <4>1 DEF WordsAreSeq
    <3>4. Abstract!Read(l)
      BY <2>4, <2>6, <3>3 DEF Abstract!Read, Queue
    <3>5. QED
      BY <2>1, <3>4 DEF Abstract!Next
  <2>7. CASE ~rd /\ ~rd'
    <3>1. got' = got
      BY <1>3, <2>7 DEF Clock, rd, DriverStep, AlarmInv
    <3>2. Abstract!Idle(l)
      BY <2>4, <2>7, <3>1 DEF Abstract!Idle, Queue
    <3>3. QED
      BY <2>1, <2>7, <3>2 DEF Abstract!Next
  <2>8. QED
    BY <2>5, <2>6, <2>7
<1>4. QED
  BY <1>1, <1>2, <1>3, Steps

LEMMA RefinesInit ==
  ASSUME Init
  PROVE  Abstract!Init
<1>1. TypeOK
  BY TypeInit
<1>2. Words = <<>> /\ ~rd
  BY <1>1, WordsSeq DEF Init, WordsAreSeq, rd
<1>3. rd = FALSE
  BY <1>2 DEF rd
<1>4. QED
  BY <1>2, <1>3 DEF Init, Abstract!Init, Queue

\* The silo implements the queue of Silo, in every clock but one in which a character
\* arrives as another is removed: what a driver reads that looks at RDONE is valid, in
\* order, and each character once.
THEOREM InOrder == Spec => ReadsInOrder
<1>1. Init => TypeOK /\ AlarmInv /\ SiloInv
  BY TypeInit, AlarmInit, SiloInit
<1>2. TypeOK /\ AlarmInv /\ SiloInv /\ [Next]_vars => (TypeOK /\ AlarmInv /\ SiloInv)'
  BY TypeStep, AlarmStep, SiloStep
<1>3. TypeOK /\ TypeOK' /\ AlarmInv /\ SiloInv /\ [Next]_vars
        => [Collides \/ Abstract!Next]_<<uart, Queue, got, rd>>
  BY Refines
<1>4. QED
  BY <1>1, <1>2, <1>3, RefinesInit, PTL DEF Spec, ReadsInOrder
=============================================================================
