-------------------------------- MODULE Fifo --------------------------------
(***************************************************************************)
(* The parameterised FIFO of fifo.v: two pointers, a depth counter and a   *)
(* dual-port RAM with a registered output.  FifoStep is one clock of it.   *)
(***************************************************************************)
EXTENDS Integers

CONSTANTS
    SIZE,       \* the parameter of the module: one more than the FIFO holds
    BUFSZ,      \* words of RAM: the next power of two
    Data        \* what a word may be

ASSUME FifoAssumption ==
    /\ SIZE \in Nat /\ SIZE >= 2 /\ BUFSZ \in Nat /\ BUFSZ >= SIZE - 1
    /\ Data # {}

VARIABLES rd_addr, wr_addr, depth, mem, out
fifoVars == <<rd_addr, wr_addr, depth, mem, out>>

empty == depth = 0
full  == depth = SIZE - 1

\* A pointer wraps at the end of the RAM.
IncOn(a) == a + 1
Inc(a) == IF a = BUFSZ - 1 THEN 0 ELSE a + 1

\* The pointers stop at an empty and at a full FIFO; the depth does not move
\* when both move.
depthNext(rd, wr) ==
    IF rd /\ ~wr /\ ~empty THEN depth - 1
    ELSE IF wr /\ ~rd /\ ~full THEN depth + 1 ELSE depth

FifoStep(clr, rd, wr, in) ==
    /\ rd_addr' = IF clr THEN 0 ELSE IF rd /\ ~empty THEN Inc(rd_addr) ELSE rd_addr
    /\ wr_addr' = IF clr THEN 0 ELSE IF wr /\ ~full THEN Inc(wr_addr) ELSE wr_addr
    /\ depth'   = IF clr THEN 0 ELSE depthNext(rd, wr)
    /\ mem'     = IF wr /\ ~full THEN [mem EXCEPT ![wr_addr] = in] ELSE mem
    /\ out'     = mem[rd_addr]

FifoInit == /\ rd_addr = 0 /\ wr_addr = 0 /\ depth = 0
            /\ \E d \in Data : mem = [a \in 0 .. BUFSZ - 1 |-> d] /\ out = d

FifoTypeOK ==
    /\ rd_addr \in 0 .. BUFSZ - 1 /\ wr_addr \in 0 .. BUFSZ - 1
    /\ depth \in 0 .. SIZE - 1
    /\ mem \in [0 .. BUFSZ - 1 -> Data] /\ out \in Data

\* The address of the i-th word, and the words from the oldest to the newest.
Slot(i) == LET a == rd_addr + i - 1 IN IF a >= BUFSZ THEN a - BUFSZ ELSE a
Words   == [i \in 1 .. depth |-> mem[Slot(i)]]

\* The depth counter says how far the write pointer is ahead.
DepthRight == wr_addr = Slot(depth + 1)
=============================================================================
