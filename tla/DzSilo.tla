------------------------------- MODULE DzSilo -------------------------------
(***************************************************************************)
(* The receive side of the DZ11: the scanner that empties the receivers    *)
(* into the silo (dzscan.v), the silo with its alarm and status bits       *)
(* (dzrbuf.v), the control bits and the receiver's ready line (dzcsr.v,    *)
(* dz11.v), and a driver that reads.  A step is a clock.                   *)
(***************************************************************************)
EXTENDS Integers, Sequences

CONSTANTS
  NLines,        \* 8
  Data,          \* what a character may be
  FIFO_SIZE,     \* 65
  ALARM,         \* 16, half the range of the counter
  NoChar

ASSUME SiloAssumption ==
  /\ NLines \in Nat \ {0} /\ FIFO_SIZE \in Nat /\ FIFO_SIZE >= 2
  /\ ALARM \in Nat \ {0} /\ NoChar \notin Data /\ NoChar \notin Nat \X Data

Lines == 0 .. NLines - 1

VARIABLES
  uart, scan,                           \* the receivers, the scanner
  csrMSE, csrSAE,
  depth, rd_ptr, wr_ptr, DPRAM, fifoDATA,
  rbufDVAL, countSA, rbufSA,
  rbufREAD, lastREAD, rd_dly, wr_dly,   \* the strobe and its edge, delayed
  drv, got                              \* the driver, and what it read last

csr  == <<csrMSE, csrSAE>>
fifo == <<depth, rd_ptr, wr_ptr, DPRAM, fifoDATA>>
stat == <<rbufDVAL, countSA, rbufSA>>
dly  == <<lastREAD, rd_dly, wr_dly>>
bus  == <<rbufREAD, drv, got>>
vars == <<uart, scan, csr, fifo, stat, dly, bus>>

Init == /\ uart = [l \in Lines |-> NoChar] /\ scan = 0
        /\ csrMSE = FALSE /\ csrSAE = FALSE
        /\ depth = 0 /\ rd_ptr = 0 /\ wr_ptr = 0
        /\ DPRAM = [a \in 0 .. FIFO_SIZE - 1 |-> NoChar] /\ fifoDATA = NoChar
        /\ rbufDVAL = FALSE /\ countSA = 0 /\ rbufSA = FALSE
        /\ rbufREAD = FALSE /\ lastREAD = FALSE /\ rd_dly = FALSE /\ wr_dly = FALSE
        /\ drv = "asleep" /\ got = NoChar

-----------------------------------------------------------------------------
(* The silo. *)

empty == depth = 0
full  == depth = FIFO_SIZE - 1

wr == csrMSE /\ uart[scan] # NoChar
rd == lastREAD /\ ~rbufREAD
RRDY == rbufSA \/ (~csrSAE /\ ~empty)

Inc(p) == IF p = FIFO_SIZE - 1 THEN 0 ELSE p + 1

pop  == rd /\ ~wr /\ ~empty
push == wr /\ ~rd /\ ~full

Pointers(clr) ==
  IF clr THEN depth' = 0 /\ rd_ptr' = 0 /\ wr_ptr' = 0
  ELSE /\ depth' = IF pop THEN depth - 1 ELSE IF push THEN depth + 1 ELSE depth
       /\ rd_ptr' = IF pop THEN Inc(rd_ptr) ELSE rd_ptr
       /\ wr_ptr' = IF push THEN Inc(wr_ptr) ELSE wr_ptr

\* The RAM is written when the silo is full, too, behind the last character.
Ram == /\ DPRAM' = IF wr THEN [DPRAM EXCEPT ![wr_ptr] = <<scan, uart[scan]>>] ELSE DPRAM
       /\ fifoDATA' = DPRAM[rd_ptr]

DataValidEarly(clr) == rbufDVAL' = IF clr THEN FALSE ELSE IF rd \/ wr THEN ~empty ELSE rbufDVAL
DataValid(clr) == rbufDVAL' = IF clr THEN FALSE ELSE IF rd \/ wr_dly THEN ~empty ELSE rbufDVAL

\* The alarm counter counts characters, not the depth, and wraps.
AlarmLate(clr) ==
  IF clr \/ rd \/ ~csrSAE THEN countSA' = 0 /\ rbufSA' = FALSE
  ELSE /\ countSA' = IF wr THEN (countSA + 1) % (2 * ALARM) ELSE countSA
       /\ rbufSA' = (rbufSA \/ (countSA = ALARM /\ ~wr))

Alarm(clr) ==
  IF clr \/ rd \/ ~csrSAE THEN countSA' = 0 /\ rbufSA' = FALSE
  ELSE /\ countSA' = IF wr THEN (countSA + 1) % (2 * ALARM) ELSE countSA
       /\ rbufSA' = (rbufSA \/ countSA = ALARM)

\* The scanner takes the character of a line and looks at the next one.  A
\* character takes longer to arrive than the scanner takes for all lines.
Receive(clr) ==
  IF clr THEN scan' = 0 /\ uart' = [l \in Lines |-> NoChar]
  ELSE /\ scan' = IF csrMSE THEN (scan + 1) % NLines ELSE scan
       /\ \E arrived \in [Lines -> Data \cup {NoChar}] :
            /\ \A l \in Lines : arrived[l] # NoChar => uart[l] = NoChar \/ ~csrMSE
            /\ uart' = [l \in Lines |-> IF arrived[l] # NoChar THEN arrived[l]
                                        ELSE IF wr /\ l = scan THEN NoChar ELSE uart[l]]

Clock(clr) ==
  /\ Pointers(clr) /\ Ram /\ DataValid(clr) /\ Alarm(clr) /\ Receive(clr)
  /\ lastREAD' = rbufREAD /\ rd_dly' = rd /\ wr_dly' = wr

-----------------------------------------------------------------------------
(* The driver.  It looks at CSR[RDONE] before every read of RBUF. *)

\* CSR[CLR], which clears the control bits too, ...
ClearDz == /\ drv = "asleep" /\ Clock(TRUE)
           /\ csrMSE' = FALSE /\ csrSAE' = FALSE /\ UNCHANGED bus

\* ... and the start of the scanner.
WriteCsr == /\ drv = "asleep" /\ ~csrMSE /\ empty /\ Clock(FALSE)
            /\ csrMSE' = TRUE /\ csrSAE' \in BOOLEAN /\ UNCHANGED bus

\* The receiver's interrupt.
Interrupt == /\ drv = "asleep" /\ RRDY /\ Clock(FALSE)
             /\ drv' = "csr" /\ UNCHANGED <<csr, rbufREAD, got>>

\* A bus cycle begins some clocks after the one before.
ReadCsr == /\ drv = "csr" /\ ~rd /\ ~rd_dly /\ Clock(FALSE)
           /\ drv' = IF empty THEN "asleep" ELSE "rbuf"
           /\ UNCHANGED <<csr, rbufREAD, got>>

ReadRbuf == /\ drv = "rbuf" /\ Clock(FALSE)
            /\ drv' = "reading" /\ rbufREAD' = TRUE /\ UNCHANGED <<csr, got>>

\* The data are taken in the last clock of the strobe.
EndRead == /\ drv = "reading" /\ Clock(FALSE)
           /\ drv' = "csr" /\ rbufREAD' = FALSE
           /\ got' = IF rbufDVAL THEN fifoDATA ELSE NoChar
           /\ UNCHANGED csr

Wait == Clock(FALSE) /\ UNCHANGED <<csr, bus>>

Next == ClearDz \/ WriteCsr \/ Interrupt \/ ReadCsr \/ ReadRbuf \/ EndRead \/ Wait

Spec == Init /\ [][Next]_vars

-----------------------------------------------------------------------------
(* Properties. *)

Word == (Lines \X Data) \cup {NoChar}

\* The types; the pointers and the counter stay in their ranges.
TypeOK ==
  /\ uart \in [Lines -> Data \cup {NoChar}] /\ scan \in Lines
  /\ csrMSE \in BOOLEAN /\ csrSAE \in BOOLEAN
  /\ depth \in 0 .. FIFO_SIZE - 1
  /\ rd_ptr \in 0 .. FIFO_SIZE - 1 /\ wr_ptr \in 0 .. FIFO_SIZE - 1
  /\ DPRAM \in [0 .. FIFO_SIZE - 1 -> Word] /\ fifoDATA \in Word
  /\ rbufDVAL \in BOOLEAN /\ rbufSA \in BOOLEAN /\ countSA \in 0 .. 2 * ALARM - 1
  /\ rbufREAD \in BOOLEAN /\ lastREAD \in BOOLEAN /\ rd_dly \in BOOLEAN /\ wr_dly \in BOOLEAN
  /\ drv \in {"asleep", "csr", "rbuf", "reading"} /\ got \in Word

\* A driver that sleeps with the alarm enabled is woken when there are sixteen
\* characters, whenever they came and however many were lost.
AlarmStands == drv = "asleep" /\ csrSAE /\ depth >= ALARM => rbufSA \/ countSA = ALARM

\* The characters in the silo; the one that was just read goes at the end of the
\* strobe.
Words == [i \in 1 .. depth |-> DPRAM[(rd_ptr + i - 1) % FIFO_SIZE]]
Queue == IF rd THEN Tail(Words) ELSE Words

Abstract == INSTANCE Silo WITH CAP <- FIFO_SIZE - 1, q <- Queue, popping <- rd

\* A character arrives in the very clock in which another one is removed.
Collides == rd /\ wr

\* A driver that looks at RDONE reads valid characters, each once and in the order in
\* which they were taken from the receivers, in every clock but one in which a
\* character arrives as another is removed: of such a clock nothing is said here.
ReadsInOrder == Abstract!Init
                /\ [][Collides \/ Abstract!Next]_<<uart, Queue, got, rd>>

\* What is taken from a receiver is in the silo, as its last character: when the silo is
\* full, instead of the one that was the last (dzrbuf.v:78-82, 303-304).
Stored == [][wr /\ csrMSE' => depth' > 0 /\ Words'[depth'] = <<scan, uart[scan]>>]_vars
=============================================================================
