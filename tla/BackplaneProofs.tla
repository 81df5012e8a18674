-------------------------- MODULE BackplaneProofs --------------------------
(***************************************************************************)
(* Theorems about the backplane bus, for every number of adapters up to    *)
(* the four of the arbiter, all timeouts, and all programs of the CPU, the *)
(* console and the DMA devices.                                            *)
(***************************************************************************)
EXTENDS Backplane, TLAPS

-----------------------------------------------------------------------------
(* The wires have the types of what drives them.                           *)

\* The arbiter's priority encoder names one of the adapters that ask.
LEMMA LowestIn ==
    ASSUME NEW S, S \subseteq UBAS, S # {}
    PROVE  Lowest(S) \in S
<1>1. S \subseteq 1 .. 4
  BY UbasAssumption
<1>2. \E u \in S : \A v \in S : u <= v
  <2>1. CASE 1 \in S
    BY <1>1, <2>1
  <2>2. CASE 1 \notin S /\ 2 \in S
    BY <1>1, <2>2
  <2>3. CASE 1 \notin S /\ 2 \notin S /\ 3 \in S
    BY <1>1, <2>3
  <2>4. CASE 1 \notin S /\ 2 \notin S /\ 3 \notin S
    <3>1. \A v \in S : v = 4
      BY <1>1, <2>4
    <3>2. PICK u \in S : TRUE
      OBVIOUS
    <3> QED
      BY <3>1, <3>2
  <2> QED
    BY <2>1, <2>2, <2>3, <2>4
<1> QED
  BY <1>2 DEF Lowest

\* The cycles that the microcode makes up are bus cycles.
LEMMA CycleConstants ==
    /\ Idle \in Cycle /\ Ram("rd") \in Cycle /\ Ram("wr") \in Cycle /\ Wru \in Cycle
    /\ \A u \in Units : Vect(u) \in Cycle
BY DEF Idle, Ram, Wru, Vect, Cycle, Ops, Whats, Units

\* Whoever owns the bus, what it drives is a bus cycle.
LEMMA BusCycleType ==
    ASSUME TypeOK
    PROVE  BusCycle \in Cycle
<1>1. CASE Owner = "dma"
  <2>1. dmaREQ # {} /\ dmaREQ \subseteq UBAS
    BY <1>1, CyclesAssumption DEF Owner, dmaREQ
  <2>2. Lowest(dmaREQ) \in UBAS
    BY <2>1, LowestIn
  <2> QED
    BY <1>1, <2>2 DEF BusCycle, TypeOK, UbaTypeOK
<1>2. CASE Owner # "dma"
  BY <1>2, CycleConstants DEF BusCycle, TypeOK, CslTypeOK, MicroTypeOK
<1> QED
  BY <1>1, <1>2

\* What the data multiplexers drive is a word.
LEMMA DataTypes ==
    ASSUME TypeOK
    PROVE  /\ \A u \in UBAS : ubaDATA(u) \in Data
           /\ busDATA \in Data /\ cpuDATA \in Data
           /\ cpuDATA[1] \in Units
<1>1. \A c \in Cycle : DataOf(c) \in Data
  BY DEF DataOf, Data, Cycle
<1>2. \A u \in UBAS : ubaDATA(u) \in Data
  BY DEF ubaDATA, Data, Units, Whats
<1>3. busDATA \in Data
  <2>1. ASSUME \E u \in UBAS : ubaACK(u)
        PROVE  Lowest({u \in UBAS : ubaACK(u)}) \in UBAS
    BY <2>1, LowestIn
  <2>2. ram \in Data /\ Zero \in Data /\ vma \in Cycle
    BY DEF TypeOK, MicroTypeOK, Data
  <2> QED
    BY <1>1, <1>2, <2>1, <2>2, BusCycleType DEF busDATA
<1>4. cpuDATA \in Data
  BY <1>3 DEF cpuDATA, Data
<1>5. cpuDATA[1] \in Units
  BY <1>4 DEF Data, Units, Junk, Zero
<1> QED
  BY <1>2, <1>3, <1>4, <1>5

-----------------------------------------------------------------------------
(* Type correctness, one lemma per component.                              *)

\* A clock of csl.v keeps its registers in their ranges; the timer wraps.
LEMMA CslTypes ==
    ASSUME TypeOK, EpiWrite, CslNext, CslRegs
    PROVE  CslTypeOK'
<1> USE DEF TypeOK, CslTypeOK
<1>1. csAddr' \in Cycle /\ strobe' \in 0 .. StrobeTicks /\ otherWR' \in BOOLEAN
  BY CountAssumption, CyclesAssumption DEF EpiWrite, cslGO
<1>2. csData' \in Data /\ nxmnxd' \in BOOLEAN
  BY DataTypes DEF CslRegs, Data
<1>3. csState' \in CslStates /\ csTimer' \in 0 .. 2 * CslTimeout + 1
  BY CountAssumption, SMTT(60) DEF CslNext, CslStates, cslTimedOut
<1> QED
  BY <1>1, <1>2, <1>3

\* A clock of nxd.v and nxm.v keeps their states and counters in range.
LEMMA WaitTypes ==
    ASSUME TypeOK, NxdNext, NxmNext
    PROVE  WaitTypeOK'
<1> USE DEF TypeOK, WaitTypeOK
<1>1. timeout' \in 0 .. MemTimeout
  BY CountAssumption DEF NxmNext
<1>2. ASSUME NEW t \in NxdStates, NEW b \in BOOLEAN, NxdTo(t, b)
      PROVE  WaitTypeOK'
  <2>1. wru' \in BOOLEAN
    BY <1>2, Zenon DEF NxdTo
  <2>2. vect' \in BOOLEAN
    BY <1>2, Zenon DEF NxdTo
  <2>3. nxd' \in NxdStates /\ busy' \in BOOLEAN
    BY <1>2, Zenon DEF NxdTo
  <2>4. nxdCnt' \in 0 .. NxdCount
    BY <1>2, CountAssumption DEF NxdTo
  <2> QED
    BY <1>1, <2>1, <2>2, <2>3, <2>4
<1>3. CASE nxdIdle
  <2>1. CASE NxdTo("IDLE", busy)
    BY <1>2, <2>1 DEF NxdStates
  <2>2. CASE /\ busy' = TRUE /\ nxd' = "CNT" /\ nxdCnt' = 0
             /\ wru' = (vma.what = "WRU") /\ vect' = (vma.what = "VECT")
    <3>1. wru' \in BOOLEAN /\ vect' \in BOOLEAN /\ busy' \in BOOLEAN
      BY <2>2, Zenon
    <3> QED
      BY <1>1, <2>2, <3>1, CountAssumption DEF NxdStates
  <2> QED
    BY <1>3, <2>1, <2>2 DEF nxdIdle
<1>4. CASE nxdCount
  <2>1. CASE cpuACK
    BY <1>2, <1>4, <2>1 DEF nxdCount, NxdStates
  <2>2. CASE ~cpuACK
    BY <1>1, <1>2, <1>4, <2>2, CountAssumption DEF nxdCount, nxdLast, NxdStates
  <2> QED
    BY <2>1, <2>2
<1>5. CASE nxdAckIo1 \/ nxdAcked \/ nxdNoAck
  BY <1>2, <1>5 DEF nxdAckIo1, nxdAcked, nxdNoAck, NxdStates
<1> QED
  BY <1>3, <1>4, <1>5 DEF NxdNext

\* A clock of every adapter and of its DMA device keeps them in range.
LEMMA UbaTypes ==
    ASSUME TypeOK, UbaNext, DmaNext, UNCHANGED piUnits
    PROVE  UbaTypeOK'
<1> USE DEF TypeOK, UbaTypeOK
<1>1. uState' \in [UBAS -> {"NULL", "CNT", "ACK", "NXD"}]
  BY DEF UbaNext, UbaStep
<1>2. uCnt' \in [UBAS -> 0 .. NxdCount]
  <2>1. ASSUME NEW u \in UBAS
        PROVE  uCnt'[u] \in 0 .. NxdCount
    BY CountAssumption DEF UbaNext, UbaStep
  <2>2. uCnt' = [u \in UBAS |-> uCnt'[u]]
    BY DEF UbaNext
  <2> HIDE DEF TypeOK, UbaTypeOK
  <2> QED
    BY <2>1, <2>2
<1>3. dma' \in [UBAS -> Cycle] /\ dmaGap' \in [UBAS -> 0 .. DmaGap]
  <2>1. PICK ask \in [{u \in DmaUnits \ dmaREQ : dmaGap[u] = 0} -> {Idle, Ram("rd"), Ram("wr")}] :
           dma' = [u \in UBAS |-> IF u \in {v \in DmaUnits \ dmaREQ : dmaGap[v] = 0} THEN ask[u]
                                  ELSE IF dmaACK(u) THEN Idle ELSE dma[u]]
    BY DEF DmaNext
  <2>2. dma' \in [UBAS -> Cycle]
    BY <2>1, CycleConstants
  <2>3. dmaGap' \in [UBAS -> 0 .. DmaGap]
    BY CountAssumption DEF DmaNext
  <2> QED
    BY <2>2, <2>3
<1>4. piUnits' \subseteq UBAS
  OBVIOUS
<1> QED
  BY <1>1, <1>2, <1>3, <1>4

\* A microinstruction keeps the program counter, SC and the VMA in range.
LEMMA MicroTypes ==
    ASSUME TypeOK, MicroNext
    PROVE  MicroTypeOK'
<1> USE DEF TypeOK, MicroTypeOK
<1>1. addr3666' \in BOOLEAN
  BY DEF MicroNext
<1>2. CASE ~clken
  BY <1>1, <1>2 DEF MicroNext
<1>3. CASE clken
  <2> USE DEF Micro
  <2>1. \A pc \in Micro : Finish(pc) => MicroTypeOK'
    BY <1>1, CycleConstants, SMTT(60) DEF Finish, Cycle, Ops
  <2>2. \A c \in Cycle, pc \in Micro : Start(c, pc) => MicroTypeOK'
    BY <1>1 DEF Start
  <2>3. \A pc \in Micro : Loop(pc) => MicroTypeOK'
    BY <1>1 DEF Loop
  <2>4. CASE uRun
    BY <1>1, <2>2, <2>3, <2>4, CyclesAssumption DEF uRun, RamStart
  <2>5. CASE uPre \/ uIow1 \/ uCall
    BY <2>3, <2>5 DEF uPre, uIow1, uCall
  <2>6. CASE uMemRead
    BY <2>1, <2>2, <2>6, CycleConstants DEF uMemRead
  <2>7. CASE uChain \/ uMemWrite \/ uIoWrite \/ uVecRead
    BY <2>1, <2>7 DEF uChain, uMemWrite, uIoWrite, uVecRead
  <2>8. CASE uIoClr \/ uStrtIo \/ uFetch
    BY <2>2, <2>8, CycleConstants DEF uIoClr, uStrtIo, uFetch
  <2>9. CASE uIoWait \/ uIow1n
    BY <1>1, <2>9, CountAssumption DEF uIoWait, uIow1n
  <2>10. CASE uIow2 \/ uIow4
    BY <1>1, <2>3, <2>10, CycleConstants, CountAssumption DEF uIow2, uIow4, IoReturn
  <2>11. CASE uIow3 \/ uIow5
    BY <1>1, <2>11, CycleConstants DEF uIow3, uIow5
  <2>12. CASE uWruRead
    BY <1>1, <2>12, CycleConstants, DataTypes DEF uWruRead, Cycle, Ops
  <2> QED
    BY <1>3, <2>4, <2>5, <2>6, <2>7, <2>8, <2>9, <2>10, <2>11, <2>12 DEF MicroNext
<1> QED
  BY <1>2, <1>3

\* Memory holds a word that somebody wrote.
LEMMA RamType ==
    ASSUME TypeOK, RamNext
    PROVE  ram' \in Data
<1>1. Owner = "dma" => Lowest(dmaREQ) \in UBAS
  BY LowestIn, CyclesAssumption DEF Owner, dmaREQ
<1>2. \A u \in Units, w \in {"csl", "cpu", "dma"} : <<u, w>> \in Data
  BY DEF Data
<1>3. 0 \in Units /\ UBAS \subseteq Units /\ Junk \in Data /\ ram \in Data
  BY DEF Units, Data, TypeOK
<1>4. <<0, "csl">> \in Data /\ <<0, "cpu">> \in Data
  BY <1>2, <1>3
<1>5. Owner = "dma" => <<Lowest(dmaREQ), "dma">> \in Data
  BY <1>1, <1>2, <1>3
<1> QED
  BY <1>3, <1>4, <1>5 DEF RamNext

\* The reset values are in range.
LEMMA InitType == Init => TypeOK
<1> SUFFICES ASSUME Init PROVE TypeOK
  OBVIOUS
<1> USE DEF Init
<1>0. /\ nxmnxd \in BOOLEAN /\ otherWR \in BOOLEAN /\ addr3666 \in BOOLEAN
      /\ wru \in BOOLEAN /\ vect \in BOOLEAN /\ busy \in BOOLEAN
  BY Zenon
<1>1. CslTypeOK
  <2>1. csTimer \in 0 .. 2 * CslTimeout + 1 /\ strobe \in 0 .. StrobeTicks
    BY CountAssumption
  <2>2. csAddr \in Cycle /\ csData \in Data
    BY CycleConstants DEF Data
  <2> QED
    BY <1>0, <2>1, <2>2 DEF CslTypeOK, CslStates
<1>2. MicroTypeOK
  <2>1. sc \in Int /\ upc \in Micro
    BY DEF Micro
  <2> QED
    BY <1>0, <2>1, CycleConstants DEF MicroTypeOK
<1>3. WaitTypeOK
  <2>1. nxdCnt \in 0 .. NxdCount /\ timeout \in 0 .. MemTimeout
    BY CountAssumption
  <2> QED
    BY <1>0, <2>1 DEF WaitTypeOK, NxdStates
<1>4. UbaTypeOK
  <2>1. uCnt \in [UBAS -> 0 .. NxdCount] /\ dmaGap \in [UBAS -> 0 .. DmaGap]
    BY CountAssumption
  <2>2. dma \in [UBAS -> Cycle] /\ uState \in [UBAS -> {"NULL", "CNT", "ACK", "NXD"}]
    BY CycleConstants
  <2>3. piUnits \subseteq UBAS
    BY CyclesAssumption
  <2> QED
    BY <2>1, <2>2, <2>3 DEF UbaTypeOK
<1>5. ram \in Data
  BY DEF Data
<1> QED
  BY <1>1, <1>2, <1>3, <1>4, <1>5 DEF TypeOK

\* A clock of the whole system keeps every register in range.
LEMMA NextType == TypeOK /\ [Next]_vars => TypeOK'
<1> SUFFICES ASSUME TypeOK, [Next]_vars PROVE TypeOK'
  OBVIOUS
<1>1. CASE Next
  BY <1>1, CslTypes, WaitTypes, UbaTypes, MicroTypes, RamType DEF Next, TypeOK
<1>2. CASE UNCHANGED vars
  BY <1>2 DEF vars, cslVars, cpuVars, ubaVars, TypeOK, CslTypeOK, MicroTypeOK,
     WaitTypeOK, UbaTypeOK
<1> QED
  BY <1>1, <1>2

\* Every register of the bus and of its masters keeps a value of its width,
\* so no counter runs past its timeout.
THEOREM TypeCorrect == Spec => []TypeOK
<1>1. Init => TypeOK
  BY InitType
<1>2. TypeOK /\ [Next]_vars => TypeOK'
  BY NextType
<1> QED
  BY <1>1, <1>2, PTL DEF Spec

-----------------------------------------------------------------------------
(* Memory never times out.                                                 *)

\* The counter of nxm.v runs only while a memory cycle of the CPU is on its
\* way, and that cycle reloads it in every clock in which it waits.
NxmInv == timeout # 0 => timeout = MemTimeout /\ vma.what = "RAM" /\ vma.op # "none"

\* A clock in which a memory cycle of the CPU waits reloads the counter of
\* nxm.v, any other clears it.
LEMMA NxmStep == TypeOK /\ NxmInv /\ [Next]_vars => NxmInv'
<1> SUFFICES ASSUME TypeOK, NxmInv, [Next]_vars PROVE NxmInv'
  OBVIOUS
<1>1. CASE Next
  <2>1. NxmNext /\ MicroNext
    BY <1>1 DEF Next
  \* An unanswered memory cycle stops the clock of the microcode.
  <2>2. CASE ~IsIO(vma) /\ cpuREQ /\ ~cpuACK
    <3>1. ~clken
      BY <2>2 DEF clken, memWAIT
    <3>2. UNCHANGED vma
      BY <2>1, <3>1 DEF MicroNext
    <3>3. vma.what = "RAM" /\ vma.op # "none"
      BY <2>2 DEF IsIO, cpuREQ
    <3>4. timeout' = MemTimeout
      BY <2>1, <2>2 DEF NxmNext
    <3> QED
      BY <3>2, <3>3, <3>4 DEF NxmInv
  \* Otherwise the counter is cleared: it never counts down.
  <2>3. CASE ~(~IsIO(vma) /\ cpuREQ /\ ~cpuACK)
    <3>1. cpuACK \/ timeout = 0
      BY <2>3 DEF NxmInv, IsIO, cpuREQ
    <3>2. timeout' = 0
      BY <2>1, <2>3, <3>1 DEF NxmNext
    <3> QED
      BY <3>2 DEF NxmInv
  <2> QED
    BY <2>2, <2>3
<1>2. CASE UNCHANGED vars
  BY <1>2 DEF vars, cpuVars, NxmInv
<1> QED
  BY <1>1, <1>2

\* nxm.v never interrupts: a memory cycle of the CPU is answered before the
\* counter moves, however often the console and DMA take the bus from it.
THEOREM NxmNever == Spec => []NoNXM
<1>1. Init => NxmInv
  BY DEF Init, NxmInv
<1>2. TypeOK /\ NxmInv /\ [Next]_vars => NxmInv'
  BY NxmStep
<1>3. NxmInv => NoNXM
  BY CountAssumption DEF NxmInv, NoNXM, nxmINTR
<1> QED
  BY <1>1, <1>2, <1>3, TypeCorrect, PTL DEF Spec

-----------------------------------------------------------------------------
(* Where the microcode is in a bus cycle.                                  *)

Vectors == {"WRU", "VECT"}
InWait  == upc \in {"IOWAIT", "IOW1", "IOW1N", "IOW2", "IOW3", "IOW4", "IOW5"}
InIO    == InWait \/ upc \in {"IOCLR", "IOWRITE"}

\* The cycle of an I/O instruction is on the bus from its start to its last
\* microinstruction, and no other cycle is, or is left behind.
VmaAt ==
    /\ upc \in {"RUN", "IOCLR"} => vma = Idle
    /\ upc = "IOWRITE" => vma = cmd /\ cmd.op # "rd"
    /\ InWait => vma = IF cmd.op = "rd" THEN cmd ELSE Idle
    /\ InIO => cmd.what \notin {"RAM"} \cup Vectors /\ cmd.op # "none"
    /\ upc \in {"PRE", "MEMREAD", "CHAIN", "MEMWRITE"} => vma.what \notin Vectors
    /\ upc = "WRUREAD" => vma = Wru
    /\ upc = "VECREAD" => vma.what = "VECT"
    /\ upc = "FETCH" => vma.op = "none"
CallAt ==
    upc \in {"CALL", "STRTIO"} =>
        /\ cmd.what \in {"CIR", "VECT"} \/ cmd = Wru
        /\ vma = Idle \/ /\ vma.what = "WRU" /\ vma.op = "none"
                         /\ upc = "STRTIO" => addr3666

MicroAt == VmaAt /\ CallAt

LEMMA CycleParts ==
    /\ Idle.op = "none" /\ Idle.unit = 0 /\ Idle.what = "RAM"
    /\ \A o : Ram(o).op = o /\ Ram(o).what = "RAM"
    /\ Wru.op = "rd" /\ Wru.unit = 0 /\ Wru.what = "WRU"
    /\ \A u : Vect(u).op = "rd" /\ Vect(u).unit = u /\ Vect(u).what = "VECT"
BY DEF Idle, Ram, Wru, Vect

\* The clock of the CPU does not stop between two cycles.
LEMMA NoWait ==
    ASSUME NxmInv, ~cpuREQ, vma.op = "none"
    PROVE  clken
BY DEF NxmInv, clken, ioWAIT, memWAIT, unackedIO

LEMMA MicroStep ==
    ASSUME TypeOK, NxmInv, MicroAt, MicroNext
    PROVE  MicroAt'
<1> USE DEF MicroAt, VmaAt, CallAt, InWait, InIO, Vectors
<1>1. vma \in Cycle /\ cmd \in Cycle
  BY DEF TypeOK, MicroTypeOK
<1>2. CASE ~clken
  <2>1. UNCHANGED <<upc, cmd, vma>> /\ addr3666' = (upc = "CALL")
    BY <1>2 DEF MicroNext
  <2>2. upc = "STRTIO" => FALSE
    <3>1. upc = "STRTIO" => ~cpuREQ /\ vma.op = "none"
      BY CycleParts DEF cpuREQ
    <3>2. QED
      BY <1>2, <3>1, NoWait
  <2>3. QED
    BY <2>1, <2>2
<1>3. CASE clken
  <2>1. CASE uRun
    <3>1. vma = Idle
      BY <2>1 DEF uRun
    <3>2. CASE Loop("RUN")
      BY <3>1, <3>2 DEF Loop
    <3>3. ASSUME NEW c \in CpuCycles, c.what = "RAM", RamStart(c)
          PROVE  MicroAt'
      BY <3>3 DEF RamStart, Start
    <3>4. ASSUME NEW c \in CpuCycles, c.what \notin {"RAM", "CIR", "WRU"},
                 cmd' = c, upc' = "IOCLR", UNCHANGED <<sc, vma>>
          PROVE  MicroAt'
      BY <3>1, <3>4, CyclesAssumption
    <3>5. ASSUME NEW c \in CpuCycles, c.what \in {"CIR", "WRU"},
                 cmd' = c, upc' = "CALL", UNCHANGED <<sc, vma>>
          PROVE  MicroAt'
      BY <3>1, <3>5, CyclesAssumption
    <3>6. QED
      BY <2>1, <3>2, <3>3, <3>4, <3>5 DEF uRun
  <2>2. CASE uPre \/ uIow1
    BY <2>2 DEF uPre, uIow1, Loop
  <2>3. CASE uMemRead
    BY <2>3, CycleParts DEF uMemRead, Finish, Start
  <2>4. CASE uChain \/ uMemWrite
    BY <2>4 DEF uChain, uMemWrite, Finish
  <2>5. CASE uIoClr
    BY <2>5 DEF uIoClr, Start
  <2>6. CASE uIoWrite
    BY <2>6 DEF uIoWrite, Finish
  <2>7. CASE uIoWait \/ uIow1n
    BY <2>7 DEF uIoWait, uIow1n
  <2>8. CASE uIow2 \/ uIow4
    BY <2>8, CycleParts DEF uIow2, uIow4, IoReturn, Loop
  <2>9. CASE uIow3 \/ uIow5
    BY <2>9 DEF uIow3, uIow5
  <2>10. CASE uCall
    <3>1. addr3666' = TRUE
      BY <2>10 DEF uCall, MicroNext
    <3>2. QED
      BY <2>10, <3>1 DEF uCall, Loop
  <2>11. CASE uStrtIo
    BY <2>11, CycleParts DEF uStrtIo, Start
  <2>12. CASE uWruRead
    BY <2>12, CycleParts, <1>1 DEF uWruRead, Cycle
  <2>13. CASE uVecRead \/ uFetch
    BY <1>1, <2>13, CycleParts DEF uVecRead, uFetch, Finish, Start, Cycle
  <2>14. QED
    BY <1>3, <2>1, <2>2, <2>3, <2>4, <2>5, <2>6, <2>7, <2>8, <2>9, <2>10, <2>11, <2>12,
       <2>13 DEF MicroNext
<1>4. QED
  BY <1>2, <1>3

\* An I/O cycle that is on the bus was there, or has just been started.
LEMMA MicroCarries ==
    ASSUME TypeOK, MicroNext, IsIO(vma')
    PROVE  \/ /\ upc \in {"IOCLR", "STRTIO"}
              /\ clken
           \/ /\ vma'.what = vma.what
              /\ vma'.unit = vma.unit
<1>1. vma \in Cycle
  BY DEF TypeOK, MicroTypeOK
<1>2. CASE UNCHANGED vma
  BY <1>2
<1>3. \A pc : Finish(pc) => vma' = Idle \/ (vma'.what = vma.what /\ vma'.unit = vma.unit)
  BY <1>1 DEF Finish, Cycle
<1>4. \A c, pc : Start(c, pc) => vma' = c
  BY DEF Start
<1>5. QED
  BY <1>1, <1>2, <1>3, <1>4, CycleParts
     DEF MicroNext, IsIO, Loop, uRun, RamStart, uPre, uMemRead, uChain, uMemWrite, uIoClr,
         uIoWrite, uIoWait, uIow1, uIow1n, uIow2, uIow3, uIow4, uIow5, IoReturn, uCall,
         uStrtIo, uWruRead, uVecRead, uFetch, Cycle

-----------------------------------------------------------------------------
(* Who answers an I/O cycle.  The console uses memory only.                *)

ConsoleInMemory == \A c \in CslCycles : c.what = "RAM"
CslAt == csAddr.what = "RAM" /\ csAddr.op # "none"

Answers(u) == IF vma.what = "WRU" THEN u \in piUnits
              ELSE vma.unit = u /\ vma.what \in {"REG", "DEV", "VECT"}

\* The microinstructions before an I/O cycle starts.
Between == upc \in {"IOCLR", "STRTIO"} \/ (upc = "CALL" /\ ~IsIO(vma))

\* An acknowledge that is left over lasts while the bus is not free for a
\* clock; the console's cycle between two cycles of the CPU takes one clock,
\* and the CPU has two microinstructions there.
AckAt == \A u \in UBAS : uState[u] = "ACK" => /\ IsIO(vma) => Answers(u)
                                              /\ Between => ~cslREQ

LEMMA Owners ==
    ASSUME CslAt
    PROVE  /\ Owner = "csl" <=> cslREQ
           /\ Owner = "csl" => BusCycle = csAddr /\ cslACK
           /\ Owner = "cpu" => BusCycle = vma /\ cpuREQ
           /\ ubaREQ => Owner \in {"csl", "cpu"}
<1>1. /\ Owner = "csl" <=> cslREQ
      /\ Owner = "cpu" => cpuREQ
  BY DEF Owner
<1>2. /\ Owner = "csl" => BusCycle = csAddr
      /\ Owner = "cpu" => BusCycle = vma
      /\ ubaREQ => Owner \in {"csl", "cpu"}
  BY DEF BusCycle, ubaREQ
<1>3. Owner = "csl" => cslACK
  BY <1>2 DEF CslAt, cslACK, busACK, memACK
<1>4. QED
  BY <1>1, <1>2, <1>3

\* Memory answers the console at once, and the console does not take the bus
\* from an I/O cycle of the CPU.
LEMMA CslStep ==
    ASSUME ConsoleInMemory, CslAt, EpiWrite, CslNext
    PROVE  /\ CslAt'
           /\ cslREQ => ~cslREQ'
           /\ Owner = "cpu" /\ IsIO(vma) => ~cslREQ'
<1>1. CslAt'
  BY CyclesAssumption DEF CslAt, EpiWrite, ConsoleInMemory
<1>2. ASSUME cslREQ PROVE ~cslREQ'
  <2>1. cslACK
    BY <1>2, Owners
  <2>2. csState' \in {"FAIL", "IDLE"}
    BY <1>2, <2>1 DEF CslNext, cslREQ
  <2>3. QED
    BY <2>2 DEF cslREQ
<1>3. ASSUME Owner = "cpu", IsIO(vma) PROVE ~cslREQ'
  <2>1. cslSeesIO /\ ~cslREQ
    BY <1>3, Owners DEF cslSeesIO
  <2>2. csState' \notin {"READ", "WRITE"}
    BY <2>1 DEF CslNext, cslREQ
  <2>3. QED
    BY <2>2 DEF cslREQ
<1>4. QED
  BY <1>1, <1>2, <1>3

\* An adapter acknowledges a cycle of the CPU that it answers, and stays
\* there until the bus is free or a device has it.
LEMMA AckEnters ==
    ASSUME CslAt, UbaNext, NEW u \in UBAS, uState'[u] = "ACK"
    PROVE  /\ ubaREQ
           /\ uState[u] = "ACK" \/ (Owner = "cpu" /\ IsIO(vma) /\ Answers(u))
<1>1. uState'[u] = UbaStep(u)
  BY DEF UbaNext
<1>2. ubaREQ /\ (uState[u] = "ACK" \/ regREQ(u) \/ devACK(u) \/ wruACK(u))
  BY <1>1 DEF UbaStep, regREQ, devACK, wruACK
<1>3. ASSUME regREQ(u) \/ devACK(u) \/ wruACK(u)
      PROVE  Owner = "cpu" /\ IsIO(vma) /\ Answers(u)
  <2>1. /\ ubaREQ
        /\ \/ BusCycle.unit = u /\ BusCycle.what \in {"REG", "DEV", "VECT"}
           \/ BusCycle = Wru /\ u \in piUnits
    BY <1>3 DEF regREQ, devACK, wruACK, Addressed
  <2>2. BusCycle.what # "RAM"
    BY <2>1, CycleParts
  <2>3. Owner = "cpu" /\ BusCycle = vma
    BY <2>1, <2>2, Owners DEF CslAt
  <2>4. QED
    BY <2>1, <2>2, <2>3, CycleParts DEF IsIO, Answers
<1>4. QED
  BY <1>2, <1>3

\* Nothing of the CPU is on the bus before a cycle starts, but for the WRU
\* cycle that CALL ends.
LEMMA BetweenFree ==
    ASSUME MicroAt, Between, cpuREQ
    PROVE  FALSE
BY CycleParts DEF MicroAt, VmaAt, CallAt, Between, cpuREQ, IsIO

LEMMA BetweenComes ==
    ASSUME TypeOK, NxmInv, MicroAt, MicroNext, Between', cpuREQ
    PROVE  IsIO(vma)
<1>1. CASE Between
  BY <1>1, BetweenFree
<1>2. CASE ~Between
  <2>1. clken
    BY <1>2 DEF MicroNext, Between, IsIO
  <2>2. upc = "RUN" \/ (upc = "CALL" /\ IsIO(vma))
    <3>1. upc' \in {"IOCLR", "STRTIO"} \/ (upc' = "CALL" /\ ~IsIO(vma'))
      BY DEF Between
    <3>2. upc # "WRUREAD"
      <4>1. SUFFICES ASSUME upc = "WRUREAD" PROVE FALSE
        OBVIOUS
      <4>2. vma = Wru /\ vma \in Cycle
        BY <4>1 DEF MicroAt, VmaAt, TypeOK, MicroTypeOK
      <4>3. uWruRead
        BY <2>1, <4>1 DEF MicroNext, uRun, uPre, uMemRead, uChain, uMemWrite, uIoClr,
           uIoWrite, uIoWait, uIow1, uIow1n, uIow2, uIow3, uIow4, uIow5, uCall, uStrtIo,
           uVecRead, uFetch
      <4>4. vma'.what = "WRU"
        BY <4>2, <4>3, CycleParts DEF uWruRead, Cycle
      <4>5. QED
        BY <3>1, <4>3, <4>4 DEF uWruRead, IsIO
    <3>3. QED
      BY <1>2, <2>1, <3>1, <3>2 DEF Between, MicroNext, uRun, RamStart, Start, Loop, Finish,
         uPre, uMemRead, uChain, uMemWrite, uIoClr, uIoWrite, uIoWait, uIow1, uIow1n, uIow2,
         uIow3, uIow4, uIow5, IoReturn, uCall, uStrtIo, uWruRead, uVecRead, uFetch
  <2>3. QED
    BY <2>2, CycleParts DEF MicroAt, VmaAt, cpuREQ
<1>3. QED
  BY <1>1, <1>2

LEMMA AckStep ==
    ASSUME ConsoleInMemory, TypeOK, NxmInv, MicroAt, CslAt, AckAt, Next
    PROVE  CslAt' /\ AckAt'
<1>1. EpiWrite /\ CslNext /\ MicroNext /\ UbaNext /\ piUnits' = piUnits
  BY DEF Next
<1>2. /\ CslAt'
      /\ cslREQ => ~cslREQ'
      /\ Owner = "cpu" /\ IsIO(vma) => ~cslREQ'
  BY <1>1, CslStep
<1>3. ASSUME NEW u \in UBAS, uState'[u] = "ACK"
      PROVE  (IsIO(vma') => Answers(u)') /\ (Between' => ~cslREQ')
  <2>1. /\ ubaREQ
        /\ uState[u] = "ACK" \/ (Owner = "cpu" /\ IsIO(vma) /\ Answers(u))
    BY <1>1, <1>3, AckEnters
  <2>2. Owner = "csl" \/ (Owner = "cpu" /\ cpuREQ)
    BY <2>1, Owners
  <2>3. Between' => ~cslREQ'
    BY <1>1, <1>2, <2>2, BetweenComes, Owners
  <2>4. ASSUME IsIO(vma')
        PROVE  Answers(u)'
    <3>1. ~Between
      <4>1. SUFFICES ASSUME Between PROVE FALSE
        OBVIOUS
      <4>2. ~cpuREQ
        BY <4>1, BetweenFree
      <4>3. uState[u] = "ACK" /\ cslREQ
        BY <2>1, <2>2, <4>2, Owners
      <4>4. QED
        BY <4>1, <4>3 DEF AckAt
    <3>2. vma'.what = vma.what /\ vma'.unit = vma.unit
      BY <1>1, <2>4, <3>1, MicroCarries DEF Between
    <3>3. Answers(u)
      BY <2>1, <2>4, <3>2 DEF AckAt, IsIO
    <3>4. QED
      BY <1>1, <3>2, <3>3 DEF Answers
  <2>5. QED
    BY <2>3, <2>4
<1>4. QED
  BY <1>2, <1>3 DEF AckAt
\* The invariant of the acknowledges, and that it is inductive.
AckInv == MicroAt /\ CslAt /\ AckAt

LEMMA AckInit == Init => AckInv
<1> SUFFICES ASSUME Init PROVE AckInv
  OBVIOUS
<1>1. MicroAt
  BY DEF Init, MicroAt, VmaAt, CallAt, InWait, InIO
<1>2. CslAt
  BY CycleParts DEF Init, CslAt
<1>3. AckAt
  BY DEF Init, AckAt
<1>4. QED
  BY <1>1, <1>2, <1>3 DEF AckInv

LEMMA AckInductive ==
    ASSUME ConsoleInMemory, TypeOK, NxmInv, AckInv, [Next]_vars
    PROVE  AckInv'
<1>1. CASE Next
  <2>1. MicroAt'
    BY <1>1, MicroStep DEF Next, AckInv
  <2>2. CslAt' /\ AckAt'
    BY <1>1, AckStep DEF AckInv
  <2>3. QED
    BY <2>1, <2>2 DEF AckInv
<1>2. CASE UNCHANGED vars
  <2>1. /\ UNCHANGED <<csState, csAddr, upc, cmd, vma, addr3666>>
        /\ UNCHANGED <<uState, piUnits>>
    BY <1>2 DEF vars, cslVars, cpuVars, ubaVars
  <2>2. MicroAt'
    BY <2>1 DEF AckInv, MicroAt, VmaAt, CallAt, InWait, InIO
  <2>3. CslAt'
    BY <2>1 DEF AckInv, CslAt
  <2>4. AckAt'
    BY <2>1 DEF AckInv, AckAt, Answers, Between, IsIO, cslREQ
  <2>5. QED
    BY <2>2, <2>3, <2>4 DEF AckInv
<1>3. QED
  BY <1>1, <1>2

\* The adapter that acknowledges an I/O cycle is the one it addresses.
LEMMA AckRight ==
    ASSUME AckInv
    PROVE  AckedByTarget
<1> SUFFICES ASSUME NEW u \in UBAS, ubaACK(u), IsIO(BusCycle)
             PROVE  IF BusCycle.what = "WRU" THEN u \in piUnits ELSE BusCycle.unit = u
  BY DEF AckedByTarget
<1>1. Owner \in {"csl", "cpu"} /\ uState[u] = "ACK"
  BY Owners DEF ubaACK, AckInv
<1>2. Owner # "csl"
  BY Owners DEF AckInv, CslAt, IsIO
<1>3. BusCycle = vma
  BY <1>1, <1>2, Owners DEF AckInv
<1>4. Answers(u)
  BY <1>1, <1>3 DEF AckInv, AckAt
<1>5. QED
  BY <1>3, <1>4 DEF Answers

\* While the console uses memory only, the acknowledge that an adapter holds
\* until the bus is free (ubanxd.v) never answers a later cycle of the CPU
\* that addresses somebody else, however long DMA and the console delay it.
THEOREM AckedAlways ==
    ASSUME ConsoleInMemory
    PROVE  Spec => []AckedByTarget
<1>1. Init => TypeOK /\ NxmInv /\ AckInv
  BY InitType, AckInit DEF Init, NxmInv
<1>2. TypeOK /\ NxmInv /\ AckInv /\ [Next]_vars => TypeOK' /\ NxmInv' /\ AckInv'
  BY NextType, NxmStep, AckInductive
<1>3. AckInv => AckedByTarget
  BY AckRight
<1>4. QED
  BY <1>1, <1>2, <1>3, PTL DEF Spec
-----------------------------------------------------------------------------
(* An I/O cycle that nobody answers.                                       *)

\* nxd.v counts while an I/O cycle of the CPU is on the bus; its latched
\* flags tell which kind of cycle.
CntAt ==
    /\ nxd = "CNT" => /\ IsIO(vma) /\ cpuREQ
                      /\ wru <=> vma.what = "WRU"
                      /\ vect <=> vma.what = "VECT"
    /\ (nxd = "NOACK" /\ vma.what = "WRU") => wru

\* The WRU cycle: an adapter answers only when nxd.v has begun to count, and
\* the flag remembers the answer until CALL.
WruAt ==
    /\ (upc = "WRUREAD" /\ \E u \in UBAS : uState[u] = "ACK")
          => nxd = "CNT" \/ (nxd = "NOACK" /\ wru)
    /\ (upc = "CALL" /\ vma.what = "WRU") => nxd = "ACKWRU" \/ (nxd = "NOACK" /\ wru)
    /\ (upc = "FETCH" /\ vma.what = "WRU") => nxd \notin {"IDLE", "CNT"}

\* The states of nxd.v after an acknowledge end before the next I/O
\* instruction starts, or when its CLR IO LATCH releases them.
AckedAt ==
    /\ nxd = "ACKWRU" => upc = "CALL" \/ (upc = "STRTIO" /\ addr3666)
    /\ nxd = "ACKVEC" => upc = "FETCH" \/ (upc = "MEMREAD" /\ vma.what # "VECT")
    /\ nxd = "ACKIO1" => upc # "IOCLR"

\* The BUSY flag of an instruction that addresses nobody stays set from the
\* first clock of its wait.
AbsentAt ==
    (cmd.what = "NXD" /\ (InWait \/ upc = "IOWRITE")) =>
        /\ nxd \in {"IDLE", "CNT", "NOACK"}
        /\ nxd = "NOACK" => ~wru
        /\ busy \/ (nxd = "IDLE" /\ vma = cmd)

AbsentInv == CntAt /\ WruAt /\ AckedAt /\ AbsentAt

\* Memory does not answer an I/O cycle but for its status register; nobody
\* answers an absent address, and the adapters answer WRU with their number.
LEMMA IOAcks ==
    ASSUME TypeOK, AckInv, IsIO(vma), cpuACK
    PROVE  /\ vma.what # "NXD"
           /\ vma.what = "WRU" => \E u \in UBAS : uState[u] = "ACK"
           /\ vma = Wru => cpuDATA[2] = "WRU"
<1>1. Owner = "cpu" /\ busACK /\ BusCycle = vma
  BY Owners DEF cpuACK, AckInv
<1>2. ASSUME vma.what \in {"NXD", "WRU"}
      PROVE  ~memACK /\ ~cirACK /\ (\E u \in UBAS : ubaACK(u))
  BY <1>1, <1>2 DEF memACK, cirACK, busACK
<1>3. vma.what # "NXD"
  <2>1. \A u \in UBAS : ubaACK(u) => Answers(u)
    BY DEF ubaACK, AckInv, AckAt
  <2>2. QED
    BY <1>2, <2>1 DEF Answers
<1>4. vma.what = "WRU" => \E u \in UBAS : uState[u] = "ACK"
  BY <1>2 DEF ubaACK
<1>5. ASSUME vma = Wru PROVE cpuDATA[2] = "WRU"
  <2>1. \A u \in UBAS : ubaDATA(u) = <<u, "WRU">>
    BY <1>1, <1>5, CycleParts DEF ubaDATA
  <2>2. ~memACK /\ \E u \in UBAS : ubaACK(u)
    BY <1>2, <1>5, CycleParts
  <2>3. Lowest({u \in UBAS : ubaACK(u)}) \in UBAS
    BY <2>2, LowestIn
  <2>4. cpuDATA = ubaDATA(Lowest({u \in UBAS : ubaACK(u)}))
    BY <1>1, <2>2 DEF cpuDATA, busDATA
  <2>5. QED
    BY <2>1, <2>3, <2>4
<1>6. QED
  BY <1>3, <1>4, <1>5

\* Without an acknowledge the data that the CPU sees are nobody's.
LEMMA NoAckNoData ==
    ASSUME AckInv, vma = Wru, cpuDATA[2] = "WRU"
    PROVE  cpuACK
<1>1. Zero[2] # "WRU"
  BY DEF Zero
<1>2. Owner = "cpu" /\ BusCycle = vma
  BY <1>1, Owners DEF cpuDATA, AckInv
<1>3. ubaREQ
  BY <1>2 DEF ubaREQ
<1>4. ~memACK
  BY <1>2, CycleParts DEF memACK
<1>5. busACK
  BY <1>1, <1>2, <1>3, <1>4 DEF cpuDATA, busDATA, busACK
<1>6. QED
  BY <1>2, <1>5 DEF cpuACK

\* The clock of the microcode during an I/O cycle.
LEMMA IOClock ==
    ASSUME NxmInv, IsIO(vma), MicroNext
    PROVE  /\ clken <=> ~ioWAIT
           /\ ioWAIT => UNCHANGED <<upc, cmd, vma>>
           /\ addr3666' <=> upc = "CALL"
<1>1. ~memWAIT
  BY DEF NxmInv, memWAIT, IsIO
<1>2. clken <=> ~ioWAIT
  BY <1>1 DEF clken
<1>3. QED
  BY <1>2 DEF MicroNext

\* Where each state of nxd.v comes from.
LEMMA NxdFrom ==
    ASSUME NxdNext
    PROVE  /\ nxd' = "CNT" =>
                \/ /\ nxd = "IDLE" /\ unackedIO
                   /\ wru' <=> vma.what = "WRU"
                   /\ vect' <=> vma.what = "VECT"
                \/ nxd = "CNT" /\ ~cpuACK /\ wru' = wru /\ vect' = vect
           /\ nxd' = "NOACK" =>
                \/ nxd = "CNT" /\ ~cpuACK /\ wru' = wru
                \/ nxd = "NOACK" /\ wru /\ vma.what = "WRU" /\ wru' = wru
           /\ nxd' = "ACKWRU" =>
                \/ nxd = "CNT" /\ cpuACK /\ wru
                \/ nxd = "ACKWRU" /\ ~addr3666
           /\ nxd' = "ACKVEC" =>
                \/ nxd = "CNT" /\ cpuACK /\ vect
                \/ nxd = "ACKVEC" /\ vma.what = "VECT"
           /\ nxd' = "ACKIO1" => nxd = "CNT"
<1> USE DEF NxdTo
<1>1. CASE nxdIdle
  BY <1>1, Zenon DEF nxdIdle
<1>2. CASE nxdCount
  BY <1>2 DEF nxdCount
<1>3. CASE nxdAckIo1
  BY <1>3 DEF nxdAckIo1
<1>4. CASE nxdAcked
  BY <1>4 DEF nxdAcked, nxdRelease
<1>5. CASE nxdNoAck
  BY <1>5 DEF nxdNoAck
<1>6. QED
  BY <1>1, <1>2, <1>3, <1>4, <1>5 DEF NxdNext
\* Where the microinstructions of an I/O cycle come from and go to.
LEMMA MicroFrom ==
    ASSUME TypeOK, MicroAt, MicroNext
    PROVE  /\ upc' = "WRUREAD" => (upc = "STRTIO" /\ clken) \/ (upc = "WRUREAD" /\ ~clken)
           /\ (upc' = "CALL" /\ vma'.what = "WRU") =>
                \/ upc = "WRUREAD" /\ clken /\ cpuDATA[2] = "WRU"
                \/ upc = "CALL" /\ ~clken /\ vma' = vma
           /\ (upc' = "FETCH" /\ vma'.what = "WRU") =>
                \/ upc = "WRUREAD" /\ clken /\ cpuDATA[2] # "WRU"
                \/ upc = "FETCH" /\ ~clken /\ vma' = vma
           /\ upc' = "IOCLR" => upc \in {"RUN", "IOCLR"}
           /\ (InWait \/ upc = "IOWRITE")' =>
                /\ cmd' = cmd
                /\ \/ upc = "IOCLR" /\ clken /\ vma' = cmd
                   \/ InWait \/ upc = "IOWRITE"
<1>1. CASE ~clken
  BY <1>1 DEF MicroNext, InWait
<1>2. CASE clken
  <2>1. vma \in Cycle /\ cmd \in Cycle
    BY DEF TypeOK, MicroTypeOK
  <2>2. CASE uRun \/ uPre \/ uMemRead \/ uChain \/ uMemWrite \/ uCall \/ uStrtIo
    <3>1. uRun => vma.what # "WRU"
      BY CycleParts DEF uRun, MicroAt, VmaAt
    <3>2. QED
      BY <1>2, <2>2, <3>1, CycleParts DEF uRun, RamStart, Start, Loop, Finish, uPre, uMemRead,
         uChain, uMemWrite, uCall, uStrtIo, InWait
  <2>3. CASE uIoClr \/ uIoWrite \/ uIoWait \/ uIow1 \/ uIow1n \/ uIow2 \/ uIow3 \/ uIow4 \/ uIow5
    BY <1>2, <2>3 DEF uIoClr, Start, Loop, Finish, uIoWrite, uIoWait, uIow1, uIow1n, uIow2,
       uIow3, uIow4, uIow5, IoReturn, InWait
  <2>4. CASE uWruRead
    BY <1>2, <2>4 DEF uWruRead, InWait
  <2>5. CASE uVecRead \/ uFetch
    <3>1. vma'.what # "WRU"
      BY <2>1, <2>5, CycleParts DEF uVecRead, uFetch, Finish, Start, MicroAt, VmaAt, Cycle
    <3>2. upc' \in {"FETCH", "MEMREAD"}
      BY <2>5 DEF uVecRead, uFetch, Finish, Start
    <3>3. QED
      BY <3>1, <3>2 DEF InWait
  <2>6. QED
    BY <1>2, <2>2, <2>3, <2>4, <2>5 DEF MicroNext
<1>3. QED
  BY <1>1, <1>2

\* What follows the last microinstructions of the two cycles of an interrupt.
LEMMA MicroTo ==
    ASSUME MicroNext
    PROVE  /\ (upc = "WRUREAD" /\ clken /\ cpuDATA[2] = "WRU") => upc' = "CALL"
           /\ upc = "CALL" => upc' \in {"CALL", "STRTIO"}
           /\ (upc = "VECREAD" /\ clken) => upc' = "FETCH"
           /\ upc = "FETCH" => upc' = "FETCH" \/ (upc' = "MEMREAD" /\ vma'.what = "RAM")
<1> USE DEF MicroNext, uRun, uPre, uMemRead, uChain, uMemWrite, uIoClr, uIoWrite, uIoWait, uIow1,
        uIow1n, uIow2, uIow3, uIow4, uIow5
<1>1. (upc = "WRUREAD" /\ clken) => uWruRead
  BY DEF uCall, uStrtIo, uVecRead, uFetch
<1>2. (upc = "CALL" /\ clken) => uCall
  BY DEF uStrtIo, uWruRead, uVecRead, uFetch
<1>3. (upc = "VECREAD" /\ clken) => uVecRead
  BY DEF uCall, uStrtIo, uWruRead, uFetch
<1>4. (upc = "FETCH" /\ clken) => uFetch
  BY DEF uCall, uStrtIo, uWruRead, uVecRead
<1>5. (upc = "WRUREAD" /\ clken /\ cpuDATA[2] = "WRU") => upc' = "CALL"
  BY <1>1 DEF uWruRead
<1>6. upc = "CALL" => upc' \in {"CALL", "STRTIO"}
  BY <1>2 DEF uCall, Loop
<1>7. (upc = "VECREAD" /\ clken) => upc' = "FETCH"
  BY <1>3 DEF uVecRead, Finish
<1>8. upc = "FETCH" => upc' = "FETCH" \/ (upc' = "MEMREAD" /\ vma'.what = "RAM")
  BY <1>4, CycleParts DEF uFetch, Start
<1>9. QED
  BY <1>5, <1>6, <1>7, <1>8

\* The microinstructions that a cycle of an interrupt may be at.
LEMMA VectorAt ==
    ASSUME TypeOK, MicroAt
    PROVE  /\ vma.what = "WRU" => upc \in {"CALL", "STRTIO", "WRUREAD", "FETCH"}
           /\ vma.what = "VECT" => upc \in {"VECREAD", "FETCH"}
           /\ upc \in {"RUN", "IOCLR"} => ~IsIO(vma) /\ ~cpuREQ
BY CycleParts DEF TypeOK, MicroTypeOK, MicroAt, VmaAt, CallAt, InWait, InIO, Vectors, Micro,
   IsIO, cpuREQ

\* A cycle that nobody acknowledges holds the clock of the microcode until
\* nxd.v gives up.
LEMMA Stalls ==
    ASSUME NxmInv, MicroNext, IsIO(vma), cpuREQ, ~cpuACK, nxd \in {"IDLE", "CNT"}
    PROVE  ~clken /\ UNCHANGED <<upc, cmd, vma>>
<1>1. ioWAIT
  BY DEF ioWAIT, unackedIO
<1>2. QED
  BY <1>1, IOClock

LEMMA CntStep ==
    ASSUME NxmInv, CntAt, WruAt, MicroNext, NxdNext
    PROVE  CntAt'
<1>1. ASSUME nxd' = "CNT"
      PROVE  /\ IsIO(vma) /\ cpuREQ /\ ~cpuACK /\ nxd \in {"IDLE", "CNT"}
             /\ wru' <=> vma.what = "WRU"
             /\ vect' <=> vma.what = "VECT"
  BY <1>1, NxdFrom DEF CntAt, unackedIO
<1>2. ASSUME nxd' = "CNT"
      PROVE  (IsIO(vma) /\ cpuREQ)' /\ vma' = vma
  <2>1. UNCHANGED <<upc, cmd, vma>>
    BY <1>1, <1>2, Stalls
  <2>2. addr3666' <=> upc = "CALL"
    BY <1>1, <1>2, IOClock
  <2>3. ~(upc = "CALL" /\ vma.what = "WRU")
    BY <1>1, <1>2 DEF WruAt
  <2>4. QED
    BY <1>1, <1>2, <2>1, <2>2, <2>3 DEF IsIO, cpuREQ
<1>3. ASSUME nxd' = "NOACK", vma'.what = "WRU" PROVE wru'
  <2>1. CASE nxd = "CNT" /\ ~cpuACK /\ wru' = wru
    <3>1. vma' = vma
      BY <2>1, Stalls DEF CntAt
    <3>2. QED
      BY <1>3, <2>1, <3>1 DEF CntAt
  <2>2. CASE nxd = "NOACK" /\ wru /\ wru' = wru
    BY <2>2
  <2>3. QED
    BY <1>3, <2>1, <2>2, NxdFrom
<1>4. QED
  BY <1>1, <1>2, <1>3 DEF CntAt
\* Nobody holds an acknowledge when the first clock of an I/O cycle begins.
LEMMA CycleStart ==
    ASSUME AckInv, UbaNext, upc \in {"IOCLR", "STRTIO"}, NEW u \in UBAS
    PROVE  uState'[u] # "ACK"
<1> SUFFICES ASSUME uState'[u] = "ACK" PROVE FALSE
  OBVIOUS
<1>1. ubaREQ /\ (uState[u] = "ACK" \/ (Owner = "cpu" /\ IsIO(vma) /\ Answers(u)))
  BY AckEnters DEF AckInv
<1>2. ~cpuREQ
  BY BetweenFree DEF AckInv, Between
<1>3. cslREQ /\ uState[u] = "ACK"
  BY <1>1, <1>2, Owners DEF AckInv
<1>4. QED
  BY <1>3 DEF AckInv, AckAt, Between

LEMMA WruStep ==
    ASSUME TypeOK, NxmInv, AckInv, CntAt, WruAt, AckedAt, MicroNext, NxdNext, UbaNext
    PROVE  WruAt'
<1>1. vma = Wru => IsIO(vma) /\ cpuREQ /\ vma.what = "WRU"
  BY CycleParts DEF IsIO, cpuREQ
<1>2. upc = "WRUREAD" => vma = Wru
  BY DEF AckInv, MicroAt, VmaAt
<1>3. ASSUME upc' = "WRUREAD", NEW u \in UBAS, uState'[u] = "ACK"
      PROVE  nxd' = "CNT" \/ (nxd' = "NOACK" /\ wru')
  <2>1. upc # "STRTIO"
    BY <1>3, CycleStart DEF AckInv
  <2>2. upc = "WRUREAD" /\ ~clken
    BY <1>3, <2>1, MicroFrom DEF AckInv
  <2>3. ioWAIT
    BY <1>1, <1>2, <2>2, IOClock
  <2>4. CASE nxd = "IDLE"
    BY <2>3, <2>4 DEF ioWAIT, NxdNext, nxdIdle, nxdCount, nxdAckIo1, nxdAcked, nxdNoAck
  <2>5. CASE nxd = "CNT"
    <3>1. wru /\ ~cpuACK
      BY <1>1, <1>2, <2>2, <2>3, <2>5 DEF CntAt, ioWAIT, unackedIO
    <3>2. nxdCount
      BY <2>5 DEF NxdNext, nxdIdle, nxdAckIo1, nxdAcked, nxdNoAck
    <3>3. nxd' = "CNT" \/ nxd' = "NOACK"
      BY <2>5, <3>1, <3>2 DEF nxdCount, NxdTo
    <3>4. nxd' = "NOACK" => wru' = wru
      BY <2>5, NxdFrom
    <3>5. QED
      BY <3>1, <3>3, <3>4
  <2>6. QED
    BY <2>3, <2>4, <2>5 DEF ioWAIT
\* The flag of WRU is kept while the VMA says WRU.
<1>4. ASSUME nxd = "NOACK", vma.what = "WRU"
      PROVE  nxd' = "NOACK" /\ wru'
  <2>1. wru
    BY <1>4 DEF CntAt
  <2>2. nxdNoAck
    BY <1>4 DEF NxdNext, nxdIdle, nxdCount, nxdAckIo1, nxdAcked
  <2>3. NxdTo("NOACK", FALSE)
    BY <1>4, <2>1, <2>2 DEF nxdNoAck
  <2>4. QED
    BY <2>1, <2>3 DEF NxdTo
<1>5. ASSUME upc' = "CALL", vma'.what = "WRU"
      PROVE  nxd' = "ACKWRU" \/ (nxd' = "NOACK" /\ wru')
  <2>1. CASE upc = "WRUREAD" /\ clken /\ cpuDATA[2] = "WRU"
    <3>1. cpuACK
      BY <1>2, <2>1, NoAckNoData
    <3>2. \E u \in UBAS : uState[u] = "ACK"
      BY <1>1, <1>2, <2>1, <3>1, IOAcks
    <3>3. nxd = "CNT" \/ nxd = "NOACK"
      BY <2>1, <3>2 DEF WruAt
    <3>4. CASE nxd = "CNT"
      <4>1. wru
        BY <1>1, <1>2, <2>1, <3>4 DEF CntAt
      <4>2. nxdCount
        BY <3>4 DEF NxdNext, nxdIdle, nxdAckIo1, nxdAcked, nxdNoAck
      <4>3. QED
        BY <3>1, <4>1, <4>2 DEF nxdCount, NxdTo
    <3>5. QED
      BY <1>1, <1>2, <1>4, <2>1, <3>3, <3>4
  <2>2. CASE upc = "CALL" /\ ~clken /\ vma' = vma
    <3>1. IsIO(vma)
      BY <1>5, <2>2 DEF IsIO
    <3>2. nxd \in {"IDLE", "CNT"}
      BY <2>2, <3>1, IOClock DEF ioWAIT
    <3>3. QED
      BY <1>5, <2>2, <3>2 DEF WruAt
  <2>3. QED
    BY <1>5, <2>1, <2>2, MicroFrom DEF AckInv
<1>6. ASSUME upc' = "FETCH", vma'.what = "WRU"
      PROVE  nxd' \notin {"IDLE", "CNT"}
  <2>1. CASE upc = "WRUREAD" /\ clken /\ cpuDATA[2] # "WRU"
    <3>1. ~cpuACK
      BY <1>1, <1>2, <2>1, IOAcks
    <3>2. nxd \notin {"IDLE", "CNT"}
      BY <1>1, <1>2, <2>1, <3>1, Stalls
    <3>3. nxd \notin {"ACKWRU", "ACKVEC"}
      BY <2>1 DEF AckedAt
    <3>4. nxd \in {"ACKIO1", "ACKIO2", "NOACK"}
      BY <3>2, <3>3 DEF TypeOK, WaitTypeOK, NxdStates
    <3>5. CASE nxd = "ACKIO1"
      BY <3>5 DEF NxdNext, nxdIdle, nxdCount, nxdAckIo1, nxdAcked, nxdNoAck, NxdTo
    <3>6. CASE nxd = "ACKIO2"
      <4>1. ~nxdRelease
        BY <2>1, <3>6 DEF nxdRelease, ioCLEAR
      <4>2. QED
        BY <3>6, <4>1 DEF NxdNext, nxdIdle, nxdCount, nxdAckIo1, nxdAcked, nxdNoAck, NxdTo
    <3>7. CASE nxd = "NOACK"
      BY <1>1, <1>2, <1>4, <2>1, <3>7
    <3>8. QED
      BY <3>4, <3>5, <3>6, <3>7
  <2>2. CASE upc = "FETCH" /\ ~clken /\ vma' = vma
    <3>1. IsIO(vma)
      BY <1>6, <2>2 DEF IsIO
    <3>2. nxd \in {"IDLE", "CNT"}
      BY <2>2, <3>1, IOClock DEF ioWAIT
    <3>3. QED
      BY <1>6, <2>2, <3>2 DEF WruAt
  <2>3. QED
    BY <1>6, <2>1, <2>2, MicroFrom DEF AckInv
<1>7. QED
  BY <1>3, <1>5, <1>6 DEF WruAt
\* A clock in which nxd.v takes an acknowledge is one of the microcode's.
LEMMA AckedClock ==
    ASSUME NxmInv, MicroNext, CntAt, nxd = "CNT", cpuACK
    PROVE  clken
<1>1. IsIO(vma) /\ ~ioWAIT
  BY DEF CntAt, ioWAIT, unackedIO
<1>2. QED
  BY <1>1, IOClock

LEMMA AckedStep ==
    ASSUME TypeOK, NxmInv, AckInv, CntAt, WruAt, AckedAt, MicroNext, NxdNext
    PROVE  AckedAt'
<1>1. ASSUME nxd' = "ACKWRU"
      PROVE  upc' = "CALL" \/ (upc' = "STRTIO" /\ addr3666')
  <2>1. CASE nxd = "CNT" /\ cpuACK /\ wru
    <3>1. clken /\ vma.what = "WRU" /\ IsIO(vma) /\ cpuREQ
      BY <2>1, AckedClock DEF CntAt
    <3>2. upc = "STRTIO" => ~cpuREQ
      BY BetweenFree DEF AckInv, Between
    <3>3. upc = "WRUREAD"
      BY <2>1, <3>1, <3>2, VectorAt DEF AckInv, WruAt
    <3>4. cpuDATA[2] = "WRU"
      BY <2>1, <3>1, <3>3, IOAcks DEF AckInv, MicroAt, VmaAt
    <3>5. QED
      BY <3>1, <3>3, <3>4, MicroTo
  <2>2. CASE nxd = "ACKWRU" /\ ~addr3666
    <3>1. upc = "CALL"
      BY <2>2 DEF AckedAt
    <3>2. addr3666'
      BY <3>1 DEF MicroNext
    <3>3. QED
      BY <3>1, <3>2, MicroTo
  <2>3. QED
    BY <1>1, <2>1, <2>2, NxdFrom
<1>2. ASSUME nxd' = "ACKVEC"
      PROVE  upc' = "FETCH" \/ (upc' = "MEMREAD" /\ vma'.what # "VECT")
  <2>1. CASE nxd = "CNT" /\ cpuACK /\ vect
    <3>1. clken /\ vma.what = "VECT"
      BY <2>1, AckedClock DEF CntAt
    <3>2. upc \in {"VECREAD", "FETCH"}
      BY <3>1, VectorAt DEF AckInv
    <3>3. QED
      BY <3>1, <3>2, MicroTo
  <2>2. CASE nxd = "ACKVEC" /\ vma.what = "VECT"
    <3>1. upc = "FETCH"
      BY <2>2 DEF AckedAt
    <3>2. QED
      BY <3>1, MicroTo
  <2>3. QED
    BY <1>2, <2>1, <2>2, NxdFrom
<1>3. ASSUME nxd' = "ACKIO1"
      PROVE  upc' # "IOCLR"
  <2>1. IsIO(vma)
    BY <1>3, NxdFrom DEF CntAt
  <2>2. upc \notin {"RUN", "IOCLR"}
    BY <2>1, VectorAt DEF AckInv
  <2>3. QED
    BY <2>2, MicroFrom DEF AckInv
<1>4. QED
  BY <1>1, <1>2, <1>3 DEF AckedAt

\* CLR IO LATCH releases nxd.v before the cycle of the instruction starts.
LEMMA AbsentStart ==
    ASSUME TypeOK, AckInv, CntAt, AckedAt, NxdNext, upc = "IOCLR"
    PROVE  nxd' = "IDLE"
<1>1. ~IsIO(vma) /\ ~cpuREQ
  BY VectorAt DEF AckInv
<1>2. nxd \notin {"CNT", "ACKIO1", "ACKWRU", "ACKVEC"}
  BY <1>1 DEF CntAt, AckedAt
<1>3. nxd \in {"IDLE", "ACKIO2", "NOACK"}
  BY <1>2 DEF TypeOK, WaitTypeOK, NxdStates
<1>4. CASE nxd = "IDLE"
  BY <1>1, <1>4 DEF unackedIO, NxdNext, nxdIdle, nxdCount, nxdAckIo1, nxdAcked, nxdNoAck, NxdTo
<1>5. CASE nxd = "ACKIO2"
  <2>1. nxdRelease
    BY <1>5 DEF nxdRelease, ioCLEAR
  <2>2. QED
    BY <1>5, <2>1 DEF NxdNext, nxdIdle, nxdCount, nxdAckIo1, nxdAcked, nxdNoAck, NxdTo
<1>6. CASE nxd = "NOACK"
  <2>1. vma.what # "WRU"
    BY <1>1 DEF IsIO
  <2>2. nxdNoAck
    BY <1>6 DEF NxdNext, nxdIdle, nxdCount, nxdAckIo1, nxdAcked
  <2>3. nxd' = "IDLE"
    BY <2>1, <2>2 DEF nxdNoAck, NxdTo
  <2>4. QED
    BY <2>3
<1>7. QED
  BY <1>3, <1>4, <1>5, <1>6

LEMMA AbsentStep ==
    ASSUME TypeOK, NxmInv, AckInv, AbsentInv, MicroNext, NxdNext
    PROVE  AbsentAt'
<1> SUFFICES ASSUME cmd'.what = "NXD", (InWait \/ upc = "IOWRITE")'
             PROVE  /\ nxd' \in {"IDLE", "CNT", "NOACK"}
                    /\ nxd' = "NOACK" => ~wru'
                    /\ busy' \/ (nxd' = "IDLE" /\ vma' = cmd')
  BY DEF AbsentAt
<1>1. cmd' = cmd
  BY MicroFrom DEF AckInv
<1>2. CASE upc = "IOCLR" /\ clken /\ vma' = cmd
  BY <1>1, <1>2, AbsentStart DEF AbsentInv
<1>3. CASE InWait \/ upc = "IOWRITE"
  <2>1. /\ nxd \in {"IDLE", "CNT", "NOACK"}
        /\ nxd = "NOACK" => ~wru
        /\ busy \/ (nxd = "IDLE" /\ vma = cmd)
    BY <1>1, <1>3 DEF AbsentInv, AbsentAt
  <2>2. vma = cmd \/ vma = Idle
    BY <1>3 DEF AckInv, MicroAt, VmaAt
  <2>3. vma = cmd => IsIO(vma) /\ cpuREQ /\ ~cpuACK /\ vma.what # "WRU"
    <3>1. vma = cmd => IsIO(vma) /\ vma.op # "none" /\ vma.what = "NXD"
      BY <1>1, <1>3 DEF IsIO, AckInv, MicroAt, VmaAt, InIO
    <3>2. QED
      BY <3>1, IOAcks DEF cpuREQ
  <2>4. vma = Idle => ~IsIO(vma)
    BY CycleParts DEF IsIO
  <2>5. CASE nxd = "IDLE" /\ vma = cmd
    <3>1. unackedIO
      BY <2>3, <2>5 DEF unackedIO
    <3>2. nxd' = "CNT" /\ busy'
      BY <2>5, <3>1 DEF NxdNext, nxdIdle, nxdCount, nxdAckIo1, nxdAcked, nxdNoAck
    <3>3. QED
      BY <3>2
  <2>6. CASE nxd = "IDLE" /\ vma = Idle
    <3>1. ~unackedIO
      BY <2>4, <2>6 DEF unackedIO
    <3>2. NxdTo("IDLE", busy)
      BY <2>6, <3>1 DEF NxdNext, nxdIdle, nxdCount, nxdAckIo1, nxdAcked, nxdNoAck
    <3>3. nxd' = "IDLE" /\ busy' = busy
      BY <3>2 DEF NxdTo
    <3>4. busy
      <4>1. CASE vma = cmd
        BY <1>1, <2>3, <2>4, <2>6, <4>1
      <4>2. CASE vma # cmd
        BY <2>1, <4>2
      <4>3. QED
        BY <4>1, <4>2
    <3>5. QED
      BY <3>3, <3>4
  <2>7. CASE nxd = "CNT"
    <3>1. vma = cmd /\ ~cpuACK /\ ~wru /\ busy
      BY <2>1, <2>2, <2>3, <2>4, <2>7 DEF AbsentInv, CntAt
    <3>2. nxdCount
      BY <2>7 DEF NxdNext, nxdIdle, nxdAckIo1, nxdAcked, nxdNoAck
    <3>3. nxd' \in {"CNT", "NOACK"} /\ busy' = busy /\ (nxd' = "NOACK" => wru' = wru)
      BY <2>7, <3>1, <3>2 DEF nxdCount, NxdTo
    <3>4. QED
      BY <3>1, <3>3
  <2>8. CASE nxd = "NOACK"
    <3>1. NxdTo("IDLE", busy)
      BY <2>1, <2>8 DEF NxdNext, nxdIdle, nxdCount, nxdAckIo1, nxdAcked, nxdNoAck
    <3>2. nxd' = "IDLE" /\ busy' = busy
      BY <3>1 DEF NxdTo
    <3>3. QED
      BY <2>1, <2>8, <3>2
  <2>9. QED
    BY <2>1, <2>2, <2>5, <2>6, <2>7, <2>8
<1>4. QED
  BY <1>2, <1>3, MicroFrom DEF AckInv

LEMMA AbsentInit == Init => AbsentInv
BY DEF Init, AbsentInv, CntAt, WruAt, AckedAt, AbsentAt, InWait

LEMMA AbsentInductive ==
    ASSUME TypeOK, NxmInv, AckInv, AbsentInv, [Next]_vars
    PROVE  AbsentInv'
<1>1. CASE Next
  <2>1. MicroNext /\ NxdNext /\ UbaNext
    BY <1>1 DEF Next
  <2>2. CntAt /\ WruAt /\ AckedAt
    BY DEF AbsentInv
  <2>3. CntAt' /\ WruAt' /\ AckedAt'
    BY <2>1, <2>2, CntStep, WruStep, AckedStep
  <2>4. AbsentAt'
    BY <2>1, AbsentStep
  <2>5. QED
    BY <2>3, <2>4 DEF AbsentInv
<1>2. CASE UNCHANGED vars
  <2>1. /\ UNCHANGED <<upc, cmd, vma, addr3666, nxd, busy>>
        /\ UNCHANGED <<wru, vect>> /\ UNCHANGED uState
    BY <1>2 DEF vars, cpuVars, ubaVars
  <2>2. CntAt' /\ AckedAt'
    BY <2>1 DEF AbsentInv, CntAt, AckedAt, IsIO, cpuREQ
  <2>3. WruAt'
    BY <2>1 DEF AbsentInv, WruAt
  <2>4. AbsentAt'
    BY <2>1 DEF AbsentInv, AbsentAt, InWait
  <2>5. QED
    BY <2>2, <2>3, <2>4 DEF AbsentInv
<1>3. QED
  BY <1>1, <1>2

\* IO BUSY is seen by every test of the loops that wait for it to end.
LEMMA AbsentBusy ==
    ASSUME TypeOK, NxmInv, AckInv, AbsentInv, Next, upc \in {"IOW2", "IOW4"},
           upc' \in {"RUN", "MEMREAD"}
    PROVE  cmd.what # "NXD"
<1> SUFFICES ASSUME cmd.what = "NXD" PROVE FALSE
  OBVIOUS
<1>1. MicroNext /\ clken
  BY DEF Next, MicroNext
<1>2. ~ioBUSY
  BY <1>1 DEF MicroNext, uRun, uPre, uMemRead, uChain, uMemWrite, uIoClr, uIoWrite, uIoWait,
     uIow1, uIow1n, uIow2, uIow3, uIow4, uIow5, uCall, uStrtIo, uWruRead, uVecRead, uFetch, Loop
<1>3. nxd = "IDLE" /\ vma = cmd
  BY <1>2 DEF AbsentInv, AbsentAt, InWait, ioBUSY
<1>4. IsIO(vma) /\ cpuREQ
  BY <1>3 DEF IsIO, cpuREQ, AckInv, MicroAt, VmaAt, InIO, InWait
<1>5. ~cpuACK
  BY <1>3, <1>4, IOAcks
<1>6. QED
  BY <1>1, <1>3, <1>4, <1>5, Stalls

\* An I/O instruction that addresses nobody never reads data or completes:
\* neither a left-over acknowledge of another adapter nor what the last
\* cycle left in nxd.v ends its wait, whatever the console, DMA and vectored
\* interrupts do around it.
THEOREM AbsentAlways ==
    ASSUME ConsoleInMemory
    PROVE  Spec => AbsentTraps
<1>1. Init => TypeOK /\ NxmInv /\ AckInv /\ AbsentInv
  BY InitType, AckInit, AbsentInit DEF Init, NxmInv
<1>2. TypeOK /\ NxmInv /\ AckInv /\ AbsentInv /\ [Next]_vars
        => TypeOK' /\ NxmInv' /\ AckInv' /\ AbsentInv'
  BY NextType, NxmStep, AckInductive, AbsentInductive
<1>3. TypeOK /\ NxmInv /\ AckInv /\ AbsentInv /\ [Next]_vars
        => [(upc \in {"IOW2", "IOW4"} /\ upc' \in {"RUN", "MEMREAD"})
              => (cmd.what # "NXD")]_vars
  BY AbsentBusy
<1>4. QED
  BY <1>1, <1>2, <1>3, PTL DEF Spec, AbsentTraps
-----------------------------------------------------------------------------
(* An I/O cycle that somebody answers: how long it takes.                  *)

Responds == {"REG", "DEV"}

\* The devices of one adapter do DMA, with some clocks between two words.
OneDma == DmaUnits = {} \/ (DmaGap >= 6 /\ \E d \in UBAS : DmaUnits = {d})

\* An adapter whose registers the CPU uses is not asked for absent addresses,
\* and the memory status register is not used as a device.
AbsentApart == \A b, c \in CpuCycles : (b.what = "NXD" /\ c.what = "REG") => b.unit # c.unit
NoStatus    == \A c \in CpuCycles : c.what # "MSR"

\* The counts of nxd.v and of the loop that waits for BUSY to end.
LongEnough  == NxdCount >= 5 /\ IdleLoop >= 2

\* Neither is an adapter that answers for the level being served.
VectorsApart == \A c \in CpuCycles : c.what = "NXD" => c.unit \notin PiUnits

\* Without DMA neither is needed: an adapter that counts an absent address
\* keeps step with nxd.v.
Apart == DmaUnits = {} \/ (AbsentApart /\ VectorsApart)

Timely == ConsoleInMemory /\ OneDma /\ Apart /\ NoStatus /\ LongEnough

\* No device asks for the bus in the next n clocks.
Quiet(n) == \A d \in DmaUnits : dma[d].op = "none" /\ dmaGap[d] >= n

DmaIsRam == \A d \in DmaUnits : dma[d] \in {Idle, Ram("rd"), Ram("wr")}

LEMMA DmaIsRamStep ==
    ASSUME DmaIsRam, DmaNext
    PROVE  DmaIsRam'
<1>1. PICK ask \in [{u \in DmaUnits \ dmaREQ : dmaGap[u] = 0} -> {Idle, Ram("rd"), Ram("wr")}] :
         dma' = [u \in UBAS |-> IF u \in {v \in DmaUnits \ dmaREQ : dmaGap[v] = 0} THEN ask[u]
                                ELSE IF dmaACK(u) THEN Idle ELSE dma[u]]
  BY DEF DmaNext
<1>2. \A d \in DmaUnits : d \in UBAS
  BY CyclesAssumption
<1>3. QED
  BY <1>1, <1>2 DEF DmaIsRam

\* What the DMA of one adapter does in a clock: it is quiet for a while, or
\* it keeps asking until it has the bus, and then it is quiet.
LEMMA DmaMoves ==
    ASSUME OneDma, TypeOK, DmaIsRam, DmaNext
    PROVE  /\ dmaREQ = {} <=> Quiet(0)
           /\ \A n \in Nat \ {0} : Quiet(n) => Quiet(n - 1)'
           /\ Owner = "dma" => Quiet(6)'
           /\ (Owner # "dma" /\ dmaREQ # {}) => (dmaREQ' # {} /\ ~Quiet(0)')
<1>1. dma \in [UBAS -> Cycle] /\ dmaGap \in [UBAS -> 0 .. DmaGap] /\ DmaUnits \subseteq UBAS
  BY CyclesAssumption DEF TypeOK, UbaTypeOK
<1>2. PICK ask \in [{u \in DmaUnits \ dmaREQ : dmaGap[u] = 0} -> {Idle, Ram("rd"), Ram("wr")}] :
         dma' = [u \in UBAS |-> IF u \in {v \in DmaUnits \ dmaREQ : dmaGap[v] = 0} THEN ask[u]
                                ELSE IF dmaACK(u) THEN Idle ELSE dma[u]]
  BY DEF DmaNext
<1>3. dmaGap' = [u \in UBAS |-> IF dmaACK(u) THEN DmaGap
                                ELSE IF dmaGap[u] = 0 THEN 0 ELSE dmaGap[u] - 1]
  BY DEF DmaNext
<1>4. dmaREQ = {} <=> Quiet(0)
  <2>1. \A d \in DmaUnits : dmaGap[d] >= 0
    BY <1>1, CountAssumption
  <2>2. QED
    BY <2>1 DEF Quiet, dmaREQ
<1>5. ASSUME NEW n \in Nat \ {0}, Quiet(n) PROVE Quiet(n - 1)'
  <2>1. SUFFICES ASSUME NEW d \in DmaUnits
                 PROVE  dma'[d].op = "none" /\ dmaGap'[d] >= n - 1
    BY DEF Quiet
  <2>2. dma[d].op = "none" /\ dmaGap[d] >= n /\ d \in UBAS /\ dmaGap[d] \in Nat
    BY <1>1, <1>5, CountAssumption DEF Quiet
  <2>3. ~dmaACK(d)
    <3>1. dmaREQ = {}
      BY <1>5 DEF Quiet, dmaREQ
    <3>2. QED
      BY <3>1 DEF dmaACK, Owner
  <2>4. dma'[d] = dma[d]
    BY <1>2, <2>2, <2>3
  <2>5. dmaGap'[d] = dmaGap[d] - 1
    BY <1>3, <2>2, <2>3
  <2>6. QED
    BY <2>2, <2>4, <2>5
<1>6. ASSUME Owner = "dma" PROVE Quiet(6)'
  <2>1. dmaREQ # {}
    BY <1>6 DEF Owner
  <2>2. PICK d \in UBAS : DmaUnits = {d}
    BY <2>1 DEF OneDma, dmaREQ
  <2>3. DmaGap >= 6 /\ dmaREQ = {d}
    BY <2>1, <2>2 DEF OneDma, dmaREQ
  <2>4. Lowest(dmaREQ) = d
    BY <2>3, LowestIn
  <2>5. dmaACK(d)
    <3>1. dma[d] \in {Idle, Ram("rd"), Ram("wr")} /\ dma[d].op # "none"
      BY <2>2, <2>3 DEF DmaIsRam, dmaREQ
    <3>2. BusCycle = dma[d]
      BY <1>6, <2>4 DEF BusCycle
    <3>3. memACK
      BY <3>1, <3>2, CycleParts DEF memACK
    <3>4. QED
      BY <1>6, <2>4, <3>3 DEF dmaACK
  <2>6. dma'[d] = Idle /\ dmaGap'[d] = DmaGap
    BY <1>2, <1>3, <2>3, <2>5
  <2>7. QED
    BY <2>2, <2>3, <2>6, CycleParts DEF Quiet
<1>7. ASSUME Owner # "dma", dmaREQ # {} PROVE dmaREQ' # {} /\ ~Quiet(0)'
  <2>1. PICK d \in DmaUnits : dma[d].op # "none"
    BY <1>7 DEF dmaREQ
  <2>2. dma'[d] = dma[d]
    BY <1>1, <1>2, <1>7, <2>1 DEF dmaACK, dmaREQ
  <2>3. QED
    BY <2>1, <2>2 DEF dmaREQ, Quiet
<1>8. QED
  BY <1>4, <1>5, <1>6, <1>7
\* The cycle of an I/O instruction, and the one on the bus, are the program's;
\* an adapter counts only when it was asked for an absent address.
CmdAt   == InIO => cmd \in CpuCycles /\ cmd.what \notin {"RAM", "CIR", "WRU", "VECT"}
VmaFrom == vma.what \in {"REG", "DEV", "NXD"} => vma \in CpuCycles
CountAt == \A u \in UBAS : uState[u] \in {"CNT", "NXD"}
              => \E c \in CpuCycles : c.what = "NXD" /\ c.unit = u

\* The adapters that answer WRU do it in the same clock.
PiAt == /\ piUnits \subseteq PiUnits
        /\ upc = "WRUREAD" => \A v, w \in piUnits : uState[v] = "ACK" => uState[w] = "ACK"

\* A cycle of the CPU that adapter u answers is on its way.
Asks(u) == vma.op # "none" /\ Answers(u)

\* A cycle of the CPU for an address of adapter u that nobody decodes is on
\* its way; nxd.v and the adapter count it together, or the adapter is one
\* clock behind.
Strays(u) == vma.op # "none" /\ vma.what = "NXD" /\ vma.unit = u
Paired(u) ==
    \/ nxd = "IDLE" /\ uState[u] \in {"NULL", "NXD"}
    \/ nxd = "CNT" /\ nxdCnt = 0 /\ uState[u] = "NULL"
    \/ nxd = "CNT" /\ uState[u] = "CNT" /\ uCnt[u] \in {nxdCnt, nxdCnt - 1}
    \/ nxd = "NOACK" /\ (uState[u] = "NXD" \/ (uState[u] = "CNT" /\ uCnt[u] = NxdCount))
SyncAt ==
    /\ nxd = "CNT" => ~cslREQ
    /\ vma.what = "NXD" => InWait \/ upc = "IOWRITE"
    /\ \A u \in UBAS : IF Strays(u) THEN Paired(u)
                      ELSE uState[u] # "CNT" /\ (uState[u] = "NXD" => vma = Idle)

ProgramInv == CmdAt /\ VmaFrom /\ CountAt /\ DmaIsRam /\ PiAt /\ (DmaUnits = {} => SyncAt)

\* The microinstruction that a clock executes.
LEMMA WaitMicro ==
    ASSUME MicroNext, clken
    PROVE  /\ upc = "IOCLR" => uIoClr
           /\ upc = "IOWRITE" => uIoWrite
           /\ upc = "IOWAIT" => uIoWait
           /\ upc = "IOW1" => uIow1
           /\ upc = "IOW2" => uIow2
           /\ upc = "IOW3" => uIow3
           /\ upc = "IOW4" => uIow4
<1> USE DEF MicroNext, uRun, uPre, uMemRead, uChain, uMemWrite, uIow1n, uIow5, uCall, uStrtIo,
        uWruRead, uVecRead, uFetch
<1>1. upc = "IOCLR" => uIoClr
  BY DEF uIoWrite, uIoWait, uIow1, uIow2, uIow3, uIow4
<1>2. upc = "IOWRITE" => uIoWrite
  BY DEF uIoClr, uIoWait, uIow1, uIow2, uIow3, uIow4
<1>3. upc = "IOWAIT" => uIoWait
  BY DEF uIoClr, uIoWrite, uIow1, uIow2, uIow3, uIow4
<1>4. upc = "IOW1" => uIow1
  BY DEF uIoClr, uIoWrite, uIoWait, uIow2, uIow3, uIow4
<1>5. upc = "IOW2" => uIow2
  BY DEF uIoClr, uIoWrite, uIoWait, uIow1, uIow3, uIow4
<1>6. upc = "IOW3" => uIow3
  BY DEF uIoClr, uIoWrite, uIoWait, uIow1, uIow2, uIow4
<1>7. upc = "IOW4" => uIow4
  BY DEF uIoClr, uIoWrite, uIoWait, uIow1, uIow2, uIow3
<1>8. QED
  BY <1>1, <1>2, <1>3, <1>4, <1>5, <1>6, <1>7

\* Without DMA the bus is the console's or the CPU's, and an absent address
\* reaches the adapter only in the CPU's clocks.
LEMMA StrayBus ==
    ASSUME DmaUnits = {}, TypeOK, AckInv, UbaNext, NEW u \in UBAS
    PROVE  /\ Owner = IF cslREQ THEN "csl" ELSE IF cpuREQ THEN "cpu" ELSE "nobody"
           /\ uState'[u] = UbaStep(u)
           /\ uCnt'[u] = IF uState[u] = "CNT" /\ UbaStep(u) = "CNT" THEN uCnt[u] + 1 ELSE 0
           /\ (devREQ(u) /\ ~devACK(u)) => Strays(u) /\ Owner = "cpu"
           /\ (Strays(u) /\ Owner = "cpu") => devREQ(u)
           /\ (Strays(u) \/ vma = Idle) => ~devACK(u) /\ ~regREQ(u) /\ ~wruACK(u)
<1>1. Owner = IF cslREQ THEN "csl" ELSE IF cpuREQ THEN "cpu" ELSE "nobody"
  BY DEF Owner, dmaREQ
<1>2. /\ uState'[u] = UbaStep(u)
      /\ uCnt'[u] = IF uState[u] = "CNT" /\ UbaStep(u) = "CNT" THEN uCnt[u] + 1 ELSE 0
  BY DEF UbaNext
<1>3. /\ ubaREQ => Owner \in {"csl", "cpu"}
      /\ Owner = "csl" => BusCycle.what = "RAM"
      /\ Owner = "cpu" => BusCycle = vma /\ ubaREQ
  BY Owners DEF AckInv, CslAt, ubaREQ
<1>4. (devREQ(u) /\ ~devACK(u)) => Strays(u) /\ Owner = "cpu"
  BY <1>3 DEF devREQ, devACK, Addressed, Strays
<1>5. (Strays(u) /\ Owner = "cpu") => devREQ(u)
  BY <1>3 DEF devREQ, Addressed, Strays
<1>6. (Strays(u) \/ vma = Idle) => ~devACK(u) /\ ~regREQ(u) /\ ~wruACK(u)
  BY <1>3, CycleParts DEF devACK, regREQ, wruACK, Strays
<1>7. QED
  BY <1>1, <1>2, <1>4, <1>5, <1>6

\* Where an absent address on the bus comes from, and how it goes.
LEMMA StrayMicro ==
    ASSUME TypeOK, NxmInv, AckInv, AbsentInv, SyncAt, Next
    PROVE  /\ vma'.what = "NXD" => InWait' \/ upc' = "IOWRITE"
           /\ vma'.what = "NXD" => upc = "IOCLR" \/ vma' = vma
           /\ vma.what = "NXD" => vma' = vma \/ vma' = Idle
           /\ (vma.what = "NXD" /\ nxd \in {"IDLE", "CNT"}) => vma' = vma
           /\ vma.what = "NXD" => /\ vma.op # "none" /\ IsIO(vma) /\ cpuREQ /\ ~cpuACK
                                  /\ vma # Idle
<1>1. MicroNext /\ vma \in Cycle
  BY DEF Next, TypeOK, MicroTypeOK
<1>2. ASSUME vma.what = "NXD"
      PROVE  /\ vma = cmd /\ vma.op # "none" /\ IsIO(vma) /\ cpuREQ /\ ~cpuACK
             /\ InIO /\ vma # Idle
  <2>1. InWait \/ upc = "IOWRITE"
    BY <1>2 DEF SyncAt
  <2>2. vma = cmd /\ InIO /\ vma.op # "none" /\ vma # Idle
    BY <1>2, <2>1, CycleParts DEF AckInv, MicroAt, VmaAt, InIO
  <2>3. IsIO(vma) /\ cpuREQ
    BY <1>2, <2>2 DEF IsIO, cpuREQ
  <2>4. QED
    BY <1>2, <2>2, <2>3, IOAcks
<1>3. ASSUME vma.what = "NXD"
      PROVE  /\ vma' = vma \/ vma' = Idle
             /\ vma' = vma => InWait' \/ upc' = "IOWRITE"
  <2>1. InWait \/ upc = "IOWRITE"
    BY <1>3 DEF SyncAt
  <2>2. CASE ~clken
    BY <1>1, <2>1, <2>2 DEF MicroNext, InWait
  <2>3. CASE clken /\ upc \in {"IOW2", "IOW4"}
    <3>1. cmd.op = "rd"
      BY <1>2, <1>3, <2>3, CycleParts DEF AckInv, MicroAt, VmaAt, InWait
    <3>2. upc' \notin {"RUN", "MEMREAD"}
      BY <1>2, <1>3, <2>3, AbsentBusy
    <3>3. QED
      BY <1>1, <2>3, <3>2, WaitMicro DEF uIow2, uIow4, IoReturn, Loop, InWait
  <2>4. CASE clken /\ upc \notin {"IOW2", "IOW4"}
    <3>1. uIoWrite \/ uIoWait \/ uIow1 \/ uIow1n \/ uIow3 \/ uIow5
      BY <1>1, <2>1, <2>4 DEF MicroNext, InWait, uRun, uPre, uMemRead, uChain, uMemWrite, uIoClr,
         uIow2, uIow4, uCall, uStrtIo, uWruRead, uVecRead, uFetch
    <3>2. CASE uIoWrite \/ uIow5
      BY <1>2, <1>3, <3>2 DEF uIoWrite, uIow5, Finish
    <3>3. CASE uIoWait \/ uIow1 \/ uIow1n \/ uIow3
      BY <3>3 DEF uIoWait, uIow1, uIow1n, uIow3, Loop, InWait
    <3>4. QED
      BY <3>1, <3>2, <3>3
  <2>5. QED
    BY <2>2, <2>3, <2>4
<1>4. ASSUME vma.what # "NXD", vma'.what = "NXD"
      PROVE  upc = "IOCLR" /\ (InWait' \/ upc' = "IOWRITE")
  <2>1. IsIO(vma')
    BY <1>4 DEF IsIO
  <2>2. upc \in {"IOCLR", "STRTIO"} /\ clken
    BY <1>1, <1>4, <2>1, MicroCarries
  <2>3. upc # "STRTIO"
    <3>1. SUFFICES ASSUME upc = "STRTIO" PROVE FALSE
      OBVIOUS
    <3>2. uStrtIo
      BY <1>1, <2>2, <3>1 DEF MicroNext, uRun, uPre, uMemRead, uChain, uMemWrite, uIoClr, uIoWrite,
         uIoWait, uIow1, uIow1n, uIow2, uIow3, uIow4, uIow5, uCall, uWruRead, uVecRead, uFetch
    <3>3. vma' = cmd
      BY <3>2 DEF uStrtIo, Start
    <3>4. QED
      BY <1>4, <3>1, <3>3, CycleParts DEF AckInv, MicroAt, CallAt
  <2>4. upc = "IOCLR"
    BY <2>2, <2>3
  <2>5. upc' \in {"IOWAIT", "IOWRITE"}
    BY <1>1, <2>2, <2>4, WaitMicro DEF uIoClr, Start
  <2>6. QED
    BY <2>4, <2>5 DEF InWait
<1>5. ASSUME vma.what = "NXD", nxd \in {"IDLE", "CNT"} PROVE vma' = vma
  BY <1>1, <1>2, <1>5, Stalls
<1>6. vma'.what = "NXD" => InWait' \/ upc' = "IOWRITE"
  BY <1>3, <1>4, CycleParts
<1>7. vma'.what = "NXD" => upc = "IOCLR" \/ vma' = vma
  BY <1>3, <1>4, CycleParts
<1>8. QED
  BY <1>2, <1>3, <1>5, <1>6, <1>7

\* nxd.v counts an absent address to its end.
LEMMA StrayNxd ==
    ASSUME NxdNext, TypeOK, vma.what = "NXD", unackedIO, ~cpuACK
    PROVE  /\ nxd = "IDLE" => nxd' = "CNT" /\ nxdCnt' = 0
           /\ (nxd = "CNT" /\ nxdCnt = NxdCount) => nxd' = "NOACK"
           /\ (nxd = "CNT" /\ nxdCnt # NxdCount) => nxd' = "CNT" /\ nxdCnt' = nxdCnt + 1
           /\ nxd = "NOACK" => nxd' = "IDLE"
<1> USE DEF NxdNext, nxdIdle, nxdCount, nxdAckIo1, nxdAcked, nxdNoAck, NxdTo, nxdLast
<1>1. nxd = "IDLE" => nxd' = "CNT" /\ nxdCnt' = 0
  OBVIOUS
<1>2. (nxd = "CNT" /\ nxdCnt = NxdCount) => nxd' = "NOACK"
  OBVIOUS
<1>3. (nxd = "CNT" /\ nxdCnt # NxdCount) => nxd' = "CNT" /\ nxdCnt' = nxdCnt + 1
  OBVIOUS
<1>4. nxd = "NOACK" => nxd' = "IDLE"
  OBVIOUS
<1>5. QED
  BY <1>1, <1>2, <1>3, <1>4

\* One clock of an absent address.
LEMMA PairStep ==
    ASSUME DmaUnits = {}, TypeOK, NxmInv, AckInv, AbsentInv, SyncAt, Next,
           NEW u \in UBAS, Strays(u)
    PROVE  IF vma' = vma THEN Paired(u)'
           ELSE uState'[u] # "CNT"
<1>1. NxdNext /\ UbaNext
  BY DEF Next
<1>2. /\ vma.what = "NXD" /\ vma.op # "none" /\ IsIO(vma) /\ cpuREQ /\ ~cpuACK /\ unackedIO
      /\ nxd \in {"IDLE", "CNT"} => vma' = vma
  BY StrayMicro DEF Strays, unackedIO
<1>3. Paired(u)
  BY DEF SyncAt
<1>4. /\ Owner = IF cslREQ THEN "csl" ELSE "cpu"
      /\ uState'[u] = UbaStep(u)
      /\ uCnt'[u] = IF uState[u] = "CNT" /\ UbaStep(u) = "CNT" THEN uCnt[u] + 1 ELSE 0
      /\ devREQ(u) <=> Owner = "cpu"
      /\ ~devACK(u) /\ ~regREQ(u) /\ ~wruACK(u)
  BY <1>1, <1>2, StrayBus
<1>5. /\ uState[u] = "NULL" => uState'[u] = IF Owner = "cpu" THEN "CNT" ELSE "NULL"
      /\ uState[u] = "CNT" => uState'[u] = IF uCnt[u] = NxdCount THEN "NXD" ELSE "CNT"
      /\ uState[u] = "NXD" => uState'[u] = "NULL"
  BY <1>4 DEF UbaStep
<1>6. /\ uState[u] = "NULL" => uCnt'[u] = 0
      /\ (uState[u] = "CNT" /\ uCnt[u] # NxdCount) => uCnt'[u] = uCnt[u] + 1
  BY <1>4, <1>5
<1>7. nxdCnt \in Nat /\ uCnt[u] \in Nat /\ NxdCount \in Nat
  BY CountAssumption DEF TypeOK, WaitTypeOK, UbaTypeOK
<1>8. CASE nxd = "IDLE"
  <2>1. nxd' = "CNT" /\ nxdCnt' = 0 /\ vma' = vma
    BY <1>1, <1>2, <1>8, StrayNxd
  <2>2. \/ uState'[u] = "NULL"
        \/ uState'[u] = "CNT" /\ uCnt'[u] = 0
    BY <1>3, <1>5, <1>6, <1>8 DEF Paired
  <2>3. QED
    BY <2>1, <2>2 DEF Paired
<1>9. CASE nxd = "CNT"
  <2>1. Owner = "cpu" /\ vma' = vma
    BY <1>2, <1>4, <1>9 DEF SyncAt
  <2>2. CASE nxdCnt = NxdCount
    <3>1. nxd' = "NOACK"
      BY <1>1, <1>2, <1>9, <2>2, StrayNxd
    <3>2. CASE uState[u] = "NULL"
      <4>1. NxdCount = 0 /\ uState'[u] = "CNT" /\ uCnt'[u] = 0
        BY <1>3, <1>5, <1>6, <1>9, <2>1, <2>2, <3>2 DEF Paired
      <4>2. QED
        BY <2>1, <3>1, <4>1 DEF Paired
    <3>3. CASE uState[u] = "CNT" /\ uCnt[u] = NxdCount
      BY <1>5, <2>1, <3>1, <3>3 DEF Paired
    <3>4. CASE uState[u] = "CNT" /\ uCnt[u] = NxdCount - 1
      <4>1. uState'[u] = "CNT" /\ uCnt'[u] = NxdCount
        BY <1>5, <1>6, <1>7, <3>4
      <4>2. QED
        BY <2>1, <3>1, <4>1 DEF Paired
    <3>5. QED
      BY <1>3, <1>9, <2>2, <3>2, <3>3, <3>4 DEF Paired
  <2>3. CASE nxdCnt # NxdCount
    <3>1. nxd' = "CNT" /\ nxdCnt' = nxdCnt + 1
      BY <1>1, <1>2, <1>9, <2>3, StrayNxd
    <3>2. CASE uState[u] = "NULL"
      <4>1. nxdCnt = 0 /\ uState'[u] = "CNT" /\ uCnt'[u] = 0
        BY <1>3, <1>5, <1>6, <1>9, <2>1, <3>2 DEF Paired
      <4>2. nxdCnt' - 1 = 0
        BY <3>1, <4>1
      <4>3. QED
        BY <2>1, <3>1, <4>1, <4>2 DEF Paired
    <3>3. CASE uState[u] = "CNT" /\ uCnt[u] = nxdCnt
      <4>1. uState'[u] = "CNT" /\ uCnt'[u] = nxdCnt'
        BY <1>5, <1>6, <2>3, <3>1, <3>3
      <4>2. QED
        BY <2>1, <3>1, <4>1 DEF Paired
    <3>4. CASE uState[u] = "CNT" /\ uCnt[u] = nxdCnt - 1
      <4>1. uCnt[u] # NxdCount
        <5>1. nxdCnt \in 0 .. NxdCount
          BY DEF TypeOK, WaitTypeOK
        <5>2. QED
          BY <1>7, <3>4, <5>1
      <4>2. uState'[u] = "CNT" /\ uCnt'[u] = nxdCnt' - 1
        BY <1>5, <1>6, <1>7, <3>1, <3>4, <4>1
      <4>3. QED
        BY <2>1, <3>1, <4>2 DEF Paired
    <3>5. QED
      BY <1>3, <1>9, <3>2, <3>3, <3>4 DEF Paired
  <2>4. QED
    BY <2>2, <2>3
<1>10. CASE nxd = "NOACK"
  <2>1. nxd' = "IDLE"
    BY <1>1, <1>2, <1>10, StrayNxd
  <2>2. uState'[u] \in {"NULL", "NXD"}
    BY <1>3, <1>5, <1>10 DEF Paired
  <2>3. QED
    BY <2>1, <2>2 DEF Paired
<1>11. QED
  BY <1>3, <1>8, <1>9, <1>10 DEF Paired

LEMMA SyncStep ==
    ASSUME DmaUnits = {}, ConsoleInMemory, TypeOK, NxmInv, AckInv, AbsentInv, SyncAt, Next
    PROVE  SyncAt'
<1>1. EpiWrite /\ CslNext /\ NxdNext /\ MicroNext /\ UbaNext
  BY DEF Next
<1>2. nxd' = "CNT" => ~cslREQ'
  <2>1. nxd' = "CNT" => IsIO(vma) /\ cpuREQ
    BY <1>1, NxdFrom DEF AbsentInv, CntAt, unackedIO
  <2>2. (IsIO(vma) /\ cpuREQ) => Owner = "csl" \/ Owner = "cpu"
    BY DEF Owner, dmaREQ
  <2>3. QED
    BY <1>1, <2>1, <2>2, CslStep, Owners DEF AckInv
<1>3. /\ vma'.what = "NXD" => InWait' \/ upc' = "IOWRITE"
      /\ vma'.what = "NXD" => upc = "IOCLR" \/ vma' = vma
      /\ vma.what = "NXD" => vma' = vma \/ vma' = Idle
      /\ vma.what = "NXD" => vma # Idle
  BY StrayMicro
<1>4. ASSUME NEW u \in UBAS
      PROVE  IF Strays(u)' THEN Paired(u)'
             ELSE uState'[u] # "CNT" /\ (uState'[u] = "NXD" => vma' = Idle)
  <2>1. CASE Strays(u)
    <3>1. vma.what = "NXD"
      BY <2>1 DEF Strays
    <3>2. vma' = vma => Strays(u)'
      BY <2>1 DEF Strays
    <3>3. vma' = Idle => ~Strays(u)'
      BY CycleParts DEF Strays
    <3>4. QED
      BY <1>3, <2>1, <3>1, <3>2, <3>3, PairStep
  <2>2. CASE ~Strays(u)
    <3>1. uState[u] # "CNT" /\ uState[u] \in {"NULL", "CNT", "ACK", "NXD"}
      BY <2>2 DEF SyncAt, TypeOK, UbaTypeOK
    <3>2. /\ uState'[u] = UbaStep(u)
          /\ ~(devREQ(u) /\ ~devACK(u))
          /\ vma = Idle => ~devACK(u) /\ ~regREQ(u) /\ ~wruACK(u)
      BY <1>1, <2>2, StrayBus
    <3>3. uState'[u] \notin {"CNT", "NXD"}
      BY <3>1, <3>2 DEF UbaStep
    <3>4. CASE Strays(u)'
      <4>1. vma'.what = "NXD" /\ ~(vma' = vma)
        BY <2>2, <3>4 DEF Strays
      <4>2. upc = "IOCLR"
        BY <1>3, <4>1
      <4>3. nxd' = "IDLE" /\ uState'[u] # "ACK"
        BY <1>1, <4>2, AbsentStart, CycleStart DEF AbsentInv
      <4>4. uState'[u] \in {"NULL", "CNT", "ACK", "NXD"}
        BY <3>1, <3>2 DEF UbaStep
      <4>5. QED
        BY <3>3, <3>4, <4>3, <4>4 DEF Paired
    <3>5. QED
      BY <3>3, <3>4
  <2>3. QED
    BY <2>1, <2>2
<1>5. QED
  BY <1>2, <1>3, <1>4 DEF SyncAt

\* An adapter that counts is not the one that the CPU waits for.
LEMMA ApartIs ==
    ASSUME Apart, ProgramInv, NEW u \in UBAS, Asks(u), vma.what \in {"WRU", "REG"},
           vma.what = "REG" => vma \in CpuCycles
    PROVE  uState[u] \notin {"CNT", "NXD"}
<1>1. vma.op # "none" /\ (vma.what = "WRU" => u \in piUnits) /\ (vma.what = "REG" => vma.unit = u)
  BY DEF Asks, Answers
<1>2. CASE DmaUnits = {}
  <2>1. SyncAt
    BY <1>2 DEF ProgramInv
  <2>2. ~Strays(u) /\ vma # Idle
    BY <1>1, CycleParts DEF Strays
  <2>3. QED
    BY <2>1, <2>2 DEF SyncAt
<1>3. CASE AbsentApart /\ VectorsApart
  <2>1. SUFFICES ASSUME uState[u] \in {"CNT", "NXD"} PROVE FALSE
    OBVIOUS
  <2>2. PICK b \in CpuCycles : b.what = "NXD" /\ b.unit = u
    BY <2>1 DEF ProgramInv, CountAt
  <2>3. vma.what # "WRU"
    BY <1>1, <1>3, <2>2 DEF VectorsApart, ProgramInv, PiAt
  <2>4. vma.what # "REG"
    BY <1>1, <1>3, <2>2 DEF AbsentApart
  <2>5. QED
    BY <2>3, <2>4
<1>4. QED
  BY <1>2, <1>3 DEF Apart

LEMMA PiStep ==
    ASSUME Apart, TypeOK, AckInv, ProgramInv, MicroNext, UbaNext, piUnits' = piUnits
    PROVE  PiAt'
<1>1. piUnits \subseteq PiUnits /\ piUnits \subseteq UBAS
  BY CyclesAssumption DEF ProgramInv, PiAt
<1>2. CASE upc = "STRTIO"
  BY <1>1, <1>2, CycleStart DEF PiAt
<1>3. CASE upc = "WRUREAD" /\ upc' = "WRUREAD"
  <2>1. vma = Wru
    BY <1>3 DEF AckInv, MicroAt, VmaAt
  <2>2. ASSUME NEW v \in piUnits
        PROVE  uState'[v] = "ACK" <=> Owner = "cpu" \/ (Owner = "csl" /\ uState[v] = "ACK")
    <3>1. uState[v] \in {"NULL", "ACK"}
      <4>1. v \in UBAS /\ Asks(v) /\ vma.what = "WRU"
        BY <1>1, <2>1, CycleParts DEF Asks, Answers
      <4>2. uState[v] \notin {"CNT", "NXD"}
        BY <4>1, ApartIs
      <4>3. QED
        BY <4>1, <4>2 DEF TypeOK, UbaTypeOK
    <3>2. uState'[v] = UbaStep(v)
      BY <1>1 DEF UbaNext
    <3>3. Owner = "cpu" => wruACK(v) /\ ubaREQ
      BY <2>1, Owners DEF wruACK, ubaREQ, AckInv
    <3>4. Owner = "csl" => BusCycle.what = "RAM" /\ ubaREQ
      BY Owners DEF ubaREQ, AckInv, CslAt
    <3>5. Owner = "csl" => ~devACK(v) /\ ~regREQ(v) /\ ~wruACK(v)
      BY <3>4, CycleParts DEF devACK, regREQ, wruACK
    <3>6. Owner \notin {"csl", "cpu"} => ~ubaREQ /\ ~devACK(v) /\ ~regREQ(v) /\ ~wruACK(v)
      BY DEF ubaREQ, devACK, regREQ, wruACK
    <3>7. QED
      BY <3>1, <3>2, <3>3, <3>4, <3>5, <3>6 DEF UbaStep
  <2>3. \A v, w \in piUnits : uState[v] = "ACK" => uState[w] = "ACK"
    BY <1>3 DEF ProgramInv, PiAt
  <2>4. QED
    BY <1>1, <2>2, <2>3 DEF PiAt
<1>4. upc' = "WRUREAD" => upc \in {"STRTIO", "WRUREAD"}
  BY MicroFrom DEF AckInv
<1>5. QED
  BY <1>1, <1>2, <1>3, <1>4 DEF PiAt

LEMMA ProgramStep ==
    ASSUME Apart, ConsoleInMemory, TypeOK, NxmInv, AckInv, AbsentInv, ProgramInv, Next
    PROVE  ProgramInv'
<1> USE DEF Next
<1>1. /\ CmdAt /\ VmaFrom /\ CountAt /\ DmaIsRam
      /\ vma \in Cycle
  BY DEF ProgramInv, TypeOK, MicroTypeOK
<1>2. DmaIsRam'
  BY <1>1, DmaIsRamStep
<1>3. CountAt'
  <2>1. SUFFICES ASSUME NEW u \in UBAS, uState'[u] \in {"CNT", "NXD"},
                        uState[u] \notin {"CNT", "NXD"}
                 PROVE  \E c \in CpuCycles : c.what = "NXD" /\ c.unit = u
    BY <1>1 DEF CountAt
  <2>2. uState'[u] = UbaStep(u)
    BY DEF UbaNext
  <2>3. devREQ(u) /\ ~devACK(u)
    BY <2>1, <2>2 DEF UbaStep
  <2>4. ubaREQ /\ BusCycle.unit = u /\ BusCycle.what = "NXD"
    BY <2>3 DEF devREQ, devACK, Addressed
  <2>5. BusCycle = vma
    BY <2>4, Owners DEF AckInv, CslAt
  <2>6. QED
    BY <1>1, <2>4, <2>5 DEF VmaFrom
<1>4. CmdAt'
  <2>1. CASE ~clken
    BY <1>1, <2>1 DEF MicroNext, CmdAt, InIO, InWait
  <2>2. CASE clken /\ uRun
    BY <2>2, CyclesAssumption DEF CmdAt, InIO, InWait, uRun, RamStart, Start, Loop
  <2>3. CASE clken /\ ~uRun
    <3>1. InIO' => InIO /\ cmd' = cmd
      BY <2>3 DEF MicroNext, InIO, InWait, uPre, uMemRead, uChain, uMemWrite, uIoClr, uIoWrite,
         uIoWait, uIow1, uIow1n, uIow2, uIow3, uIow4, uIow5, uCall, uStrtIo, uWruRead, uVecRead,
         uFetch, Start, Loop, Finish, IoReturn
    <3>2. QED
      BY <1>1, <3>1 DEF CmdAt
  <2>4. QED
    BY <2>1, <2>2, <2>3
<1>5. VmaFrom'
  <2>1. SUFFICES ASSUME vma'.what \in {"REG", "DEV", "NXD"}
                 PROVE  vma' \in CpuCycles
    BY DEF VmaFrom
  <2>2. \/ vma' = vma
        \/ vma' = Idle \/ vma' = [vma EXCEPT !.op = "none"]
        \/ vma' = Ram("rd") \/ (vma' \in CpuCycles)
        \/ (upc \in {"IOCLR", "STRTIO"} /\ vma' = cmd)
    BY DEF MicroNext, uRun, RamStart, uPre, uMemRead, uChain, uMemWrite, uIoClr, uIoWrite,
       uIoWait, uIow1, uIow1n, uIow2, uIow3, uIow4, uIow5, uCall, uStrtIo, uWruRead, uVecRead,
       uFetch, Start, Loop, Finish, IoReturn
  <2>3. CASE vma' = [vma EXCEPT !.op = "none"]
    <3>1. uWruRead \/ vma.what \in {"WRU", "VECT"} \/ vma' = vma \/ vma' = Idle
            \/ vma' = Ram("rd") \/ (vma' \in CpuCycles)
            \/ (upc \in {"IOCLR", "STRTIO"} /\ vma' = cmd)
      BY DEF MicroNext, uRun, RamStart, uPre, uMemRead, uChain, uMemWrite, uIoClr, uIoWrite,
         uIoWait, uIow1, uIow1n, uIow2, uIow3, uIow4, uIow5, uCall, uStrtIo, uVecRead,
         uFetch, Start, Loop, Finish, IoReturn
    <3>2. vma'.what = vma.what
      BY <1>1, <2>3 DEF Cycle
    <3>3. uWruRead => vma = Wru
      BY DEF uWruRead, AckInv, MicroAt, VmaAt
    <3>4. QED
      BY <1>1, <2>1, <3>1, <3>2, <3>3, CycleParts DEF VmaFrom, AckInv, MicroAt, VmaAt, CallAt,
         CmdAt, InIO
  <2>4. CASE upc = "IOCLR" /\ vma' = cmd
    BY <1>1, <2>4 DEF CmdAt, InIO
  <2>5. CASE upc = "STRTIO" /\ vma' = cmd
    BY <2>1, <2>5, CycleParts DEF AckInv, MicroAt, CallAt
  <2>6. QED
    BY <1>1, <2>1, <2>2, <2>3, <2>4, <2>5, CycleParts DEF VmaFrom
<1>6. QED
  BY <1>2, <1>3, <1>4, <1>5, PiStep, SyncStep DEF ProgramInv

\* The clocks that an adapter needs on the bus before its acknowledge, and
\* the clock that the console may need first.
Left(s)    == CASE s = "ACK" -> 0 [] s = "NULL" -> 1 [] OTHER -> 2
ConsoleHas == IF cslREQ THEN 1 ELSE 0
Turns(u)   == ConsoleHas + Left(uState[u])

LEMMA AsksFor ==
    ASSUME TypeOK, AckInv, NEW u \in UBAS, Asks(u)
    PROVE  /\ IsIO(vma) /\ cpuREQ
           /\ \/ upc = "WRUREAD" /\ vma = Wru /\ u \in piUnits
              \/ vma.what \in {"REG", "DEV", "VECT"} /\ vma.unit = u
<1>1. vma.op # "none" /\ vma.what \in {"WRU", "REG", "DEV", "VECT"}
  BY DEF Asks, Answers
<1>2. IsIO(vma) /\ cpuREQ
  BY <1>1 DEF IsIO, cpuREQ
<1>3. ASSUME vma.what = "WRU"
      PROVE  upc = "WRUREAD" /\ vma = Wru /\ u \in piUnits
  <2>1. upc \in {"CALL", "STRTIO", "WRUREAD", "FETCH"}
    BY <1>3, VectorAt DEF AckInv
  <2>2. upc = "WRUREAD" /\ vma = Wru
    BY <1>1, <2>1, CycleParts DEF AckInv, MicroAt, VmaAt, CallAt
  <2>3. QED
    BY <1>3, <2>2 DEF Asks, Answers
<1>4. QED
  BY <1>1, <1>2, <1>3 DEF Asks, Answers

LEMMA AsksTurn ==
    ASSUME TypeOK, AckInv, ProgramInv, NEW u \in UBAS, Asks(u)
    PROVE  /\ Owner = IF cslREQ THEN "csl" ELSE IF dmaREQ # {} THEN "dma" ELSE "cpu"
           /\ cpuACK <=> (Owner = "cpu" /\ uState[u] = "ACK")
<1>1. cpuREQ /\ IsIO(vma) /\ vma.what \in {"WRU", "REG", "DEV", "VECT"}
  BY AsksFor, CycleParts
<1>2. Owner = IF cslREQ THEN "csl" ELSE IF dmaREQ # {} THEN "dma" ELSE "cpu"
  BY <1>1 DEF Owner
<1>3. ASSUME Owner = "cpu"
      PROVE  busACK <=> uState[u] = "ACK"
  <2>1. BusCycle = vma /\ ubaREQ
    BY <1>3 DEF BusCycle, ubaREQ
  <2>2. ~memACK /\ ~cirACK
    BY <1>1, <2>1 DEF memACK, cirACK
  <2>3. \A v \in UBAS : uState[v] = "ACK" => uState[u] = "ACK"
    <3>1. ASSUME NEW v \in UBAS, uState[v] = "ACK" PROVE Answers(v)
      BY <1>1, <3>1 DEF AckInv, AckAt
    <3>2. CASE vma.what # "WRU"
      BY <3>1, <3>2 DEF Answers, Asks
    <3>3. CASE vma.what = "WRU"
      BY <3>1, <3>3, AsksFor DEF Answers, ProgramInv, PiAt
    <3>4. QED
      BY <3>2, <3>3
  <2>4. QED
    BY <2>1, <2>2, <2>3 DEF busACK, ubaACK
<1>4. QED
  BY <1>2, <1>3 DEF cpuACK

\* What a clock does to the adapter that the cycle is for.
LEMMA UnitMoves ==
    ASSUME Apart, TypeOK, AckInv, ProgramInv, UbaNext,
           NEW u \in UBAS, Asks(u)
    PROVE  /\ Owner = "cpu" => uState'[u] = IF uState[u] = "NXD" THEN "NULL" ELSE "ACK"
           /\ Owner = "csl" => \/ uState[u] \in {"ACK", "NULL"} /\ uState'[u] = uState[u]
                               \/ uState[u] = "CNT" /\ uState'[u] \in {"CNT", "NXD"}
                               \/ uState[u] = "NXD" /\ uState'[u] = "NULL"
           /\ Owner = "dma" => \/ uState[u] # "CNT" /\ uState'[u] = "NULL"
                               \/ uState[u] = "CNT" /\ uState'[u] \in {"CNT", "NXD"}
<1>1. /\ \/ vma = Wru /\ vma.what = "WRU" /\ u \in piUnits
         \/ vma.what \in {"REG", "DEV", "VECT"} /\ vma.unit = u
      /\ vma.op # "none"
      /\ uState[u] \in {"NULL", "CNT", "ACK", "NXD"}
  BY AsksFor, CycleParts DEF Asks, TypeOK, UbaTypeOK
<1>2. uState'[u] = UbaStep(u)
  BY DEF UbaNext
<1>3. uState[u] \in {"CNT", "NXD"} => vma.what # "WRU" /\ vma.what # "REG"
  <2>1. SUFFICES ASSUME uState[u] \in {"CNT", "NXD"}
                 PROVE  vma.what # "WRU" /\ vma.what # "REG"
    OBVIOUS
  <2>2. vma.what = "REG" => vma \in CpuCycles
    BY DEF ProgramInv, VmaFrom
  <2>3. QED
    BY <2>1, <2>2, ApartIs
<1>4. ASSUME Owner = "cpu"
      PROVE  uState'[u] = IF uState[u] = "NXD" THEN "NULL" ELSE "ACK"
  <2>1. ubaREQ /\ BusCycle = vma
    BY <1>4 DEF ubaREQ, BusCycle
  <2>2. vma.what \in {"DEV", "VECT"} => devACK(u)
    BY <1>1, <2>1 DEF devACK, Addressed
  <2>3. /\ vma.what = "REG" => regREQ(u)
        /\ vma.what = "WRU" => wruACK(u)
    BY <1>1, <2>1 DEF regREQ, wruACK, Addressed
  <2>4. QED
    BY <1>1, <1>2, <1>3, <2>1, <2>2, <2>3 DEF UbaStep
<1>5. ASSUME Owner = "csl"
      PROVE  \/ uState[u] \in {"ACK", "NULL"} /\ uState'[u] = uState[u]
             \/ uState[u] = "CNT" /\ uState'[u] \in {"CNT", "NXD"}
             \/ uState[u] = "NXD" /\ uState'[u] = "NULL"
  <2>1. ubaREQ /\ BusCycle.what = "RAM"
    BY <1>5, Owners DEF ubaREQ, AckInv, CslAt
  <2>2. ~devACK(u) /\ ~devREQ(u) /\ ~regREQ(u) /\ ~wruACK(u)
    BY <2>1, CycleParts DEF devACK, devREQ, regREQ, wruACK
  <2>3. QED
    BY <1>1, <1>2, <2>1, <2>2 DEF UbaStep
<1>6. ASSUME Owner = "dma"
      PROVE  \/ uState[u] # "CNT" /\ uState'[u] = "NULL"
             \/ uState[u] = "CNT" /\ uState'[u] \in {"CNT", "NXD"}
  <2>1. ~ubaREQ
    BY <1>6 DEF ubaREQ
  <2>2. ~devACK(u) /\ ~devREQ(u) /\ ~regREQ(u) /\ ~wruACK(u)
    BY <2>1 DEF devACK, devREQ, regREQ, wruACK
  <2>3. QED
    BY <1>1, <1>2, <2>1, <2>2 DEF UbaStep
<1>7. QED
  BY <1>4, <1>5, <1>6

LEMMA TurnMoves ==
    ASSUME ConsoleInMemory, Apart, TypeOK, AckInv, ProgramInv, EpiWrite, CslNext, UbaNext,
           NEW u \in UBAS, Asks(u)
    PROVE  /\ Turns(u) \in 0 .. 3 /\ ConsoleHas \in {0, 1} /\ Left(uState[u]) \in 0 .. 2
           /\ Owner # "dma" => /\ ConsoleHas' = 0
                               /\ Turns(u)' = 0 \/ Turns(u)' <= Turns(u) - 1
                               /\ cpuACK => Turns(u)' = 0
                               /\ ~cpuACK => Turns(u) # 0
           /\ Owner = "dma" => /\ ~cpuACK /\ ConsoleHas' \in {0, 1}
                               /\ Left(uState'[u]) <= IF Left(uState[u]) = 2 THEN 2 ELSE 1
           /\ Owner = "csl" => Left(uState'[u]) <= Left(uState[u])
           /\ Owner = "cpu" => Left(uState'[u]) = 0 \/ Left(uState'[u]) = Left(uState[u]) - 1
           /\ Left(uState'[u]) \in 0 .. 2 /\ Turns(u)' = ConsoleHas' + Left(uState'[u])
<1>1. uState[u] \in {"NULL", "CNT", "ACK", "NXD"} /\ u \in UBAS
  BY DEF TypeOK, UbaTypeOK
<1>2. /\ Left(uState[u]) \in 0 .. 2 /\ Left(uState'[u]) \in 0 .. 2
      /\ ConsoleHas \in {0, 1} /\ ConsoleHas' \in {0, 1}
      /\ Turns(u) = ConsoleHas + Left(uState[u])
      /\ Turns(u)' = ConsoleHas' + Left(uState'[u])
  BY DEF Left, ConsoleHas, Turns
<1>3. /\ Owner = IF cslREQ THEN "csl" ELSE IF dmaREQ # {} THEN "dma" ELSE "cpu"
      /\ cpuACK <=> (Owner = "cpu" /\ uState[u] = "ACK")
  BY AsksTurn
<1>4. IsIO(vma)
  BY AsksFor
<1>5. Owner # "dma" => ConsoleHas' = 0
  <2>1. (Owner = "csl" \/ Owner = "cpu") => ~cslREQ'
    BY <1>3, <1>4, CslStep, Owners DEF AckInv
  <2>2. QED
    BY <1>3, <2>1 DEF ConsoleHas
<1>6. ASSUME Owner = "cpu"
      PROVE  /\ ConsoleHas = 0
             /\ Left(uState'[u]) = 0 \/ Left(uState'[u]) = Left(uState[u]) - 1
             /\ cpuACK => Left(uState'[u]) = 0
             /\ ~cpuACK => Left(uState[u]) # 0
  <2>1. uState'[u] = IF uState[u] = "NXD" THEN "NULL" ELSE "ACK"
    BY <1>6, UnitMoves
  <2>2. QED
    BY <1>1, <1>3, <1>6, <2>1 DEF Left, ConsoleHas
<1>7. ASSUME Owner = "csl"
      PROVE  ConsoleHas = 1 /\ ~cpuACK /\ Left(uState'[u]) <= Left(uState[u])
  <2>1. \/ uState[u] \in {"ACK", "NULL"} /\ uState'[u] = uState[u]
        \/ uState[u] = "CNT" /\ uState'[u] \in {"CNT", "NXD"}
        \/ uState[u] = "NXD" /\ uState'[u] = "NULL"
    BY <1>7, UnitMoves
  <2>2. Left(uState'[u]) <= Left(uState[u])
    BY <2>1 DEF Left
  <2>3. QED
    BY <1>3, <1>7, <2>2 DEF ConsoleHas
<1>8. ASSUME Owner = "dma"
      PROVE  ~cpuACK /\ Left(uState'[u]) <= IF Left(uState[u]) = 2 THEN 2 ELSE 1
  <2>1. \/ uState[u] # "CNT" /\ uState'[u] = "NULL"
        \/ uState[u] = "CNT" /\ uState'[u] \in {"CNT", "NXD"}
    BY <1>8, UnitMoves
  <2>2. QED
    BY <1>1, <1>3, <1>8, <2>1 DEF Left
<1>9. Owner \in {"csl", "dma", "cpu"}
  BY <1>3
<1>10. QED
  BY <1>2, <1>5, <1>6, <1>7, <1>8, <1>9
\* The clocks until the acknowledge, at most: DMA may take the bus once, even
\* in the very clock of the acknowledge, and then the console may.
AckWithin(u) == IF Quiet(Turns(u)) THEN Turns(u)
                ELSE IF dmaREQ # {} THEN ConsoleHas + 2 + (IF Left(uState[u]) = 2 THEN 2 ELSE 1)
                ELSE Turns(u) + 3

LEMMA QuietLess ==
    ASSUME TypeOK, NEW n \in Nat, NEW m \in Nat, m <= n, Quiet(n)
    PROVE  Quiet(m)
BY CyclesAssumption, CountAssumption DEF Quiet, TypeOK, UbaTypeOK

LEMMA AckWithinMoves ==
    ASSUME Timely, TypeOK, TypeOK', AckInv, ProgramInv, EpiWrite, CslNext, UbaNext, DmaNext,
           NEW u \in UBAS, Asks(u), ~cpuACK
    PROVE  /\ AckWithin(u) \in 1 .. 6
           /\ AckWithin(u)' \in 0 .. AckWithin(u) - 1
<1>1. /\ Turns(u) \in 0 .. 3 /\ ConsoleHas \in {0, 1} /\ Left(uState[u]) \in 0 .. 2
      /\ Owner # "dma" => /\ ConsoleHas' = 0
                          /\ Turns(u)' = 0 \/ Turns(u)' <= Turns(u) - 1
                          /\ Turns(u) # 0
      /\ Owner = "dma" => /\ ConsoleHas' \in {0, 1}
                          /\ Left(uState'[u]) <= IF Left(uState[u]) = 2 THEN 2 ELSE 1
      /\ Owner = "csl" => Left(uState'[u]) <= Left(uState[u])
      /\ Owner = "cpu" => Left(uState'[u]) = 0 \/ Left(uState'[u]) = Left(uState[u]) - 1
      /\ Left(uState'[u]) \in 0 .. 2 /\ Turns(u)' = ConsoleHas' + Left(uState'[u])
  BY TurnMoves DEF Timely
<1>2. /\ Turns(u) = ConsoleHas + Left(uState[u])
      /\ Owner = IF cslREQ THEN "csl" ELSE IF dmaREQ # {} THEN "dma" ELSE "cpu"
      /\ ConsoleHas = IF cslREQ THEN 1 ELSE 0
  BY AsksTurn DEF Turns, ConsoleHas
<1>3. /\ dmaREQ = {} <=> Quiet(0)
      /\ \A n \in Nat \ {0} : Quiet(n) => Quiet(n - 1)'
      /\ Owner = "dma" => Quiet(6)'
      /\ (Owner # "dma" /\ dmaREQ # {}) => (dmaREQ' # {} /\ ~Quiet(0)')
  BY DmaMoves DEF Timely, ProgramInv
<1>4. \A n, m \in Nat : (m <= n /\ Quiet(n)) => Quiet(m)
  BY QuietLess
<1>5. \A n, m \in Nat : (m <= n /\ Quiet(n)') => Quiet(m)'
  <2>1. SUFFICES ASSUME NEW n \in Nat, NEW m \in Nat, m <= n, Quiet(n)'
                 PROVE  Quiet(m)'
    OBVIOUS
  <2>2. QED
    BY <2>1, CyclesAssumption, CountAssumption DEF Quiet, TypeOK, UbaTypeOK
<1>6. Turns(u)' \in 0 .. 3
  BY <1>1, <1>2
<1>7. CASE Quiet(Turns(u))
  <2>1. Quiet(0)
    BY <1>1, <1>4, <1>7
  <2>2. Owner # "dma" /\ Turns(u) \in 1 .. 3
    BY <1>1, <1>2, <1>3, <2>1
  <2>3. AckWithin(u) = Turns(u)
    BY <1>7 DEF AckWithin
  <2>5. Turns(u)' <= Turns(u) - 1
    BY <1>1, <1>6, <2>2
  <2>6. Quiet(Turns(u))'
    <3>1. PICK n \in Nat \ {0} : n = Turns(u)
      BY <2>2
    <3>2. PICK m \in Nat : m = Turns(u)'
      BY <1>6
    <3>3. Quiet(n - 1)' /\ m <= n - 1
      BY <1>3, <1>7, <2>5, <3>1, <3>2
    <3>4. Quiet(m)'
      BY <1>5, <3>3
    <3>5. QED
      BY <3>2, <3>4 DEF Quiet
  <2>7. AckWithin(u)' = Turns(u)'
    BY <2>6 DEF AckWithin, Quiet
  <2>8. QED
    BY <1>6, <2>2, <2>3, <2>5, <2>7
<1>8. CASE ~Quiet(Turns(u)) /\ dmaREQ # {}
  <2>1. AckWithin(u) = ConsoleHas + 2 + (IF Left(uState[u]) = 2 THEN 2 ELSE 1)
    BY <1>8 DEF AckWithin
  <2>2. CASE Owner = "dma"
    <3>1. Quiet(6)' /\ Turns(u)' <= 3 /\ Turns(u)' <= 1 + (IF Left(uState[u]) = 2 THEN 2 ELSE 1)
      BY <1>1, <1>3, <1>6, <2>2
    <3>2. PICK m \in Nat : m = Turns(u)' /\ m <= 6
      BY <1>6, <3>1
    <3>3. Quiet(m)'
      BY <1>5, <3>1, <3>2
    <3>4. AckWithin(u)' = Turns(u)'
      BY <3>2, <3>3 DEF AckWithin, Quiet
    <3>5. QED
      BY <1>1, <1>6, <2>1, <3>1, <3>4
  <2>3. CASE Owner # "dma"
    <3>1. Owner = "csl" /\ ConsoleHas = 1 /\ ConsoleHas' = 0
      BY <1>1, <1>2, <1>8, <2>3
    <3>2. dmaREQ' # {} /\ ~Quiet(0)'
      BY <1>3, <1>8, <2>3
    <3>3. ~Quiet(Turns(u))'
      <4>1. PICK m \in Nat : m = Turns(u)'
        BY <1>6
      <4>2. ~Quiet(m)'
        BY <1>5, <3>2
      <4>3. QED
        BY <4>1, <4>2 DEF Quiet
    <3>4. AckWithin(u)' = ConsoleHas' + 2 + (IF Left(uState'[u]) = 2 THEN 2 ELSE 1)
      BY <3>2, <3>3 DEF AckWithin, Quiet
    <3>5. QED
      BY <1>1, <2>1, <3>1, <3>4
  <2>4. QED
    BY <2>2, <2>3
<1>9. CASE ~Quiet(Turns(u)) /\ dmaREQ = {}
  <2>1. AckWithin(u) = Turns(u) + 3
    BY <1>9 DEF AckWithin
  <2>2. Owner # "dma" /\ Turns(u) \in 1 .. 3 /\ ConsoleHas' = 0
    BY <1>1, <1>2, <1>9
  <2>3. Turns(u)' <= Turns(u) - 1 /\ Left(uState'[u]) = Turns(u)'
    BY <1>1, <1>6, <2>2
  <2>4. \/ AckWithin(u)' = Turns(u)'
        \/ AckWithin(u)' = Turns(u)' + 3
        \/ AckWithin(u)' = ConsoleHas' + 2 + (IF Left(uState'[u]) = 2 THEN 2 ELSE 1)
    BY DEF AckWithin
  <2>5. QED
    BY <1>1, <1>6, <2>1, <2>2, <2>3, <2>4
<1>10. QED
  BY <1>7, <1>8, <1>9

\* nxd.v does not give up a cycle that an adapter answers.
InTime == \A u \in UBAS : (Asks(u) /\ nxd = "CNT") => nxdCnt + AckWithin(u) <= 5

LEMMA InTimeStep ==
    ASSUME Timely, TypeOK, TypeOK', NxmInv, AckInv, ProgramInv, AbsentInv, InTime, Next
    PROVE  InTime'
<1>1. EpiWrite /\ CslNext /\ UbaNext /\ DmaNext /\ NxdNext /\ MicroNext
  BY DEF Next
<1>2. SUFFICES ASSUME NEW u \in UBAS, Asks(u)', nxd' = "CNT"
               PROVE  nxdCnt' + AckWithin(u)' <= 5
  BY DEF InTime
<1>3. nxd \in {"IDLE", "CNT"} /\ IsIO(vma) /\ cpuREQ /\ ~cpuACK
  BY <1>1, <1>2, NxdFrom DEF AbsentInv, CntAt, unackedIO
<1>4. vma' = vma
  BY <1>1, <1>3, Stalls
<1>5. Asks(u)
  BY <1>2, <1>4 DEF Asks, Answers, Next
<1>6. AckWithin(u) \in 1 .. 6 /\ AckWithin(u)' \in 0 .. AckWithin(u) - 1
  BY <1>1, <1>3, <1>5, AckWithinMoves
<1>7. CASE nxd = "IDLE"
  <2>1. nxdCnt' = 0
    BY <1>1, <1>2, <1>7 DEF NxdNext, nxdIdle, nxdCount, nxdAckIo1, nxdAcked, nxdNoAck, NxdTo
  <2>2. QED
    BY <1>6, <2>1
<1>8. CASE nxd = "CNT"
  <2>1. nxdCnt' = nxdCnt + 1
    BY <1>1, <1>2, <1>3, <1>8 DEF NxdNext, nxdIdle, nxdCount, nxdAckIo1, nxdAcked, nxdNoAck, NxdTo
  <2>2. nxdCnt + AckWithin(u) <= 5 /\ nxdCnt \in Nat
    BY <1>5, <1>8, CountAssumption DEF InTime, TypeOK, WaitTypeOK
  <2>3. QED
    BY <1>6, <2>1, <2>2
<1>9. QED
  BY <1>3, <1>7, <1>8

\* What nxd.v does while the cycle of an adapter is on its way.
LEMMA NxdMoves ==
    ASSUME Timely, TypeOK, TypeOK', NxmInv, AckInv, ProgramInv, AbsentInv, InTime, Next,
           NEW u \in UBAS, Asks(u)
    PROVE  /\ (nxd = "IDLE" /\ ~cpuACK) => nxd' = "CNT" /\ busy'
           /\ (nxd = "IDLE" /\ cpuACK) => nxd' = "IDLE" /\ busy' = busy
           /\ (nxd = "CNT" /\ ~cpuACK) => nxd' = "CNT" /\ busy' = busy
           /\ (nxd = "CNT" /\ cpuACK) =>
                /\ busy' = busy
                /\ nxd' = CASE vma.what = "WRU" -> "ACKWRU" [] vma.what = "VECT" -> "ACKVEC"
                            [] OTHER -> "ACKIO1"
<1>1. EpiWrite /\ CslNext /\ UbaNext /\ DmaNext /\ NxdNext /\ MicroNext
  BY DEF Next
<1>2. IsIO(vma) /\ cpuREQ
  BY AsksFor
<1>3. (nxd = "IDLE" /\ ~cpuACK) => nxd' = "CNT" /\ busy'
  BY <1>1, <1>2 DEF unackedIO, NxdNext, nxdIdle, nxdCount, nxdAckIo1, nxdAcked, nxdNoAck
<1>4. (nxd = "IDLE" /\ cpuACK) => nxd' = "IDLE" /\ busy' = busy
  BY <1>1, <1>2 DEF unackedIO, NxdNext, nxdIdle, nxdCount, nxdAckIo1, nxdAcked, nxdNoAck, NxdTo
<1>5. ASSUME nxd = "CNT", ~cpuACK PROVE nxd' = "CNT" /\ busy' = busy
  <2>1. AckWithin(u) \in 1 .. 6 /\ nxdCnt + AckWithin(u) <= 5 /\ nxdCnt \in Nat
    BY <1>1, <1>5, AckWithinMoves, CountAssumption DEF InTime, TypeOK, WaitTypeOK
  <2>2. ~nxdLast
    BY <2>1, CountAssumption DEF nxdLast, Timely, LongEnough
  <2>3. QED
    BY <1>1, <1>5, <2>2 DEF NxdNext, nxdIdle, nxdCount, nxdAckIo1, nxdAcked, nxdNoAck
<1>6. ASSUME nxd = "CNT", cpuACK
      PROVE  /\ busy' = busy
             /\ nxd' = CASE vma.what = "WRU" -> "ACKWRU" [] vma.what = "VECT" -> "ACKVEC"
                         [] OTHER -> "ACKIO1"
  <2>1. (wru <=> vma.what = "WRU") /\ (vect <=> vma.what = "VECT")
    BY <1>6 DEF AbsentInv, CntAt
  <2>2. nxdCount
    BY <1>1, <1>6 DEF NxdNext, nxdIdle, nxdAckIo1, nxdAcked, nxdNoAck
  <2>3. NxdTo(IF wru THEN "ACKWRU" ELSE IF vect THEN "ACKVEC" ELSE "ACKIO1", busy)
    BY <1>6, <2>2 DEF nxdCount
  <2>4. QED
    BY <2>1, <2>3 DEF NxdTo
<1>7. QED
  BY <1>3, <1>4, <1>5, <1>6
-----------------------------------------------------------------------------
(* The loops of the microcode that wait for BUSY.                          *)

\* The instruction of a present unit waits in the clocks in which BUSY is
\* certain, and leaves each loop by its proper end.
WaitAt ==
    (InIO /\ cmd.what \in Responds) =>
        /\ upc \notin {"IOW1N", "IOW5"}
        /\ (upc = "IOWRITE" \/ (upc = "IOWAIT" /\ cmd.op = "rd")) =>
              \/ nxd = "CNT" /\ busy
              \/ nxd = "IDLE" /\ uState[cmd.unit] # "ACK"
        /\ (upc = "IOWAIT" /\ cmd.op # "rd") => nxd = "ACKIO1" /\ busy
        /\ upc = "IOW1" => busy /\ nxd = IF cmd.op = "rd" THEN "ACKIO1" ELSE "ACKIO2"
        /\ upc = "IOW2" => IF cmd.op = "rd" THEN busy /\ nxd = "ACKIO2"
                                            ELSE ~busy /\ nxd = "IDLE"
        /\ upc \in {"IOW3", "IOW4"} => /\ cmd.op = "rd"
                                       /\ nxd \in {"IDLE", "CNT", "ACKIO1", "ACKIO2"}
                                       /\ busy <=> nxd # "IDLE"

\* A read keeps its cycle on the bus while it waits for BUSY to end, and
\* CLR IO LATCH makes nxd.v look at it anew: when DMA takes the bus in such a
\* clock, the loop goes round again.
Releasing == upc \in {"IOW1", "IOW2", "IOW3", "IOW4"} /\ cmd.what \in Responds /\ cmd.op = "rd"

\* The clocks until the loop ends, and how often it still counts, when the
\* adapter needs e clocks for its acknowledge and DMA leaves the bus alone.
ClocksTest(s, e) == IF s = "ACKIO1" THEN 3
                    ELSE IF s = "ACKIO2" THEN (IF e <= 1 THEN 1 ELSE 6)
                    ELSE IF s = "IDLE" /\ e = 0 THEN 1 ELSE e + 3
ClocksBack(s, e) == IF s = "ACKIO1" THEN 2
                    ELSE IF s = "ACKIO2" THEN (IF e <= 1 THEN 2 ELSE 5)
                    ELSE IF s = "IDLE" /\ e = 0 THEN 0 ELSE e + 4
Clocks(pc, s, e) == IF pc = "IOW1" THEN 3 ELSE IF pc = "IOW2" THEN 2
                    ELSE IF pc = "IOW3" THEN ClocksTest(s, e) ELSE ClocksBack(s, e)
PassesTest(s, e) == IF s = "ACKIO2" THEN (IF e <= 1 THEN 1 ELSE 3)
                    ELSE IF s = "IDLE" /\ e = 0 THEN 1 ELSE 2
PassesBack(s, e) == IF s = "ACKIO1" \/ (s = "ACKIO2" /\ e <= 1) THEN 1
                    ELSE IF s = "IDLE" /\ e = 0 THEN 0 ELSE 2
Passes(pc, s, e) == IF pc = "IOW3" THEN PassesTest(s, e)
                    ELSE IF pc = "IOW4" THEN PassesBack(s, e) ELSE 2

\* DMA has taken the bus, and leaves it alone until the loop has ended; or
\* it has not, and the loop is in its first round.
ReleaseAt ==
    \A u \in UBAS : (Releasing /\ cmd.unit = u) =>
        /\ uState[u] \in {"NULL", "ACK"}
        /\ \/ /\ Quiet(Clocks(upc, nxd, Turns(u)))
              /\ upc \in {"IOW3", "IOW4"} => Passes(upc, nxd, Turns(u)) <= sc + 1
           \/ /\ Turns(u) = 0
              /\ upc = "IOW3" => nxd = "ACKIO2" /\ sc = IdleLoop
              /\ upc = "IOW4" => nxd = "IDLE" /\ sc = IdleLoop - 1

\* One clock of the loop: microinstruction and state of nxd.v, before and
\* after, with or without the acknowledge.
Follows(pc, s, ack, pc2, s2) ==
    \/ pc = "IOW1" /\ s = "ACKIO1" /\ pc2 = "IOW2" /\ s2 = "ACKIO2"
    \/ pc = "IOW2" /\ s = "ACKIO2" /\ pc2 = "IOW3" /\ s2 = "ACKIO2"
    \/ pc = "IOW3" /\ s = "ACKIO1" /\ pc2 = "IOW4" /\ s2 = "ACKIO2"
    \/ pc = "IOW3" /\ s = "ACKIO2" /\ pc2 = "IOW4" /\ s2 = "IDLE"
    \/ pc = "IOW3" /\ s = "IDLE" /\ ack /\ pc2 = "IOW4" /\ s2 = "IDLE"
    \/ pc = "IOW3" /\ s = "CNT" /\ ack /\ pc2 = "IOW4" /\ s2 = "ACKIO1"
    \/ pc = "IOW4" /\ s = "ACKIO1" /\ pc2 = "IOW3" /\ s2 = "ACKIO2"
    \/ pc = "IOW4" /\ s = "ACKIO2" /\ pc2 = "IOW3" /\ s2 = "IDLE"
    \/ pc = "IOW4" /\ s = "CNT" /\ ack /\ pc2 = "IOW3" /\ s2 = "ACKIO1"
    \/ pc = "IOW4" /\ s = "IDLE" /\ ack /\ pc2 \in {"MEMREAD", "RUN"}
    \/ pc \in {"IOW3", "IOW4"} /\ s \in {"IDLE", "CNT"} /\ ~ack /\ pc2 = pc /\ s2 = "CNT"

\* In a quiet clock the loop comes nearer to its end.
LEMMA ClocksLess ==
    ASSUME NEW pc, NEW s, NEW ack \in BOOLEAN, NEW pc2, NEW s2, Follows(pc, s, ack, pc2, s2),
           pc2 \notin {"MEMREAD", "RUN"},
           NEW e \in 0 .. 2, NEW f \in 0 .. 2, f = 0 \/ f <= e - 1, ack <=> e = 0
    PROVE  Clocks(pc, s, e) \in 1 .. 6 /\ Clocks(pc2, s2, f) \in 0 .. Clocks(pc, s, e) - 1
<1>1. e \in {0, 1, 2} /\ f \in {0, 1, 2}
  OBVIOUS
<1>2. CASE pc = "IOW1" /\ s = "ACKIO1" /\ pc2 = "IOW2" /\ s2 = "ACKIO2"
  BY <1>1, <1>2 DEF Clocks
<1>3. CASE pc = "IOW2" /\ s = "ACKIO2" /\ pc2 = "IOW3" /\ s2 = "ACKIO2"
  BY <1>1, <1>3 DEF Clocks, ClocksTest
<1>4. CASE pc = "IOW3" /\ s = "ACKIO1" /\ pc2 = "IOW4" /\ s2 = "ACKIO2"
  BY <1>1, <1>4 DEF Clocks, ClocksTest, ClocksBack
<1>5. CASE pc = "IOW3" /\ s = "ACKIO2" /\ pc2 = "IOW4" /\ s2 = "IDLE"
  BY <1>1, <1>5 DEF Clocks, ClocksTest, ClocksBack
<1>6. CASE pc = "IOW3" /\ s = "IDLE" /\ ack /\ pc2 = "IOW4" /\ s2 = "IDLE"
  BY <1>1, <1>6 DEF Clocks, ClocksTest, ClocksBack
<1>7. CASE pc = "IOW3" /\ s = "CNT" /\ ack /\ pc2 = "IOW4" /\ s2 = "ACKIO1"
  BY <1>1, <1>7 DEF Clocks, ClocksTest, ClocksBack
<1>8. CASE pc = "IOW4" /\ s = "ACKIO1" /\ pc2 = "IOW3" /\ s2 = "ACKIO2"
  BY <1>1, <1>8 DEF Clocks, ClocksBack, ClocksTest
<1>9. CASE pc = "IOW4" /\ s = "ACKIO2" /\ pc2 = "IOW3" /\ s2 = "IDLE"
  BY <1>1, <1>9 DEF Clocks, ClocksBack, ClocksTest
<1>10. CASE pc = "IOW4" /\ s = "CNT" /\ ack /\ pc2 = "IOW3" /\ s2 = "ACKIO1"
  BY <1>1, <1>10 DEF Clocks, ClocksBack, ClocksTest
<1>11. CASE pc = "IOW3" /\ s = "IDLE" /\ ~ack /\ pc2 = "IOW3" /\ s2 = "CNT"
  BY <1>1, <1>11 DEF Clocks, ClocksTest
<1>12. CASE pc = "IOW3" /\ s = "CNT" /\ ~ack /\ pc2 = "IOW3" /\ s2 = "CNT"
  BY <1>1, <1>12 DEF Clocks, ClocksTest
<1>13. CASE pc = "IOW4" /\ s = "IDLE" /\ ~ack /\ pc2 = "IOW4" /\ s2 = "CNT"
  BY <1>1, <1>13 DEF Clocks, ClocksBack
<1>14. CASE pc = "IOW4" /\ s = "CNT" /\ ~ack /\ pc2 = "IOW4" /\ s2 = "CNT"
  BY <1>1, <1>14 DEF Clocks, ClocksBack
<1>15. QED
  BY <1>2, <1>3, <1>4, <1>5, <1>6, <1>7, <1>8, <1>9, <1>10, <1>11, <1>12, <1>13, <1>14 DEF Follows

LEMMA PassesLess ==
    ASSUME NEW pc, NEW s, NEW ack \in BOOLEAN, NEW pc2, NEW s2, Follows(pc, s, ack, pc2, s2),
           pc2 \notin {"MEMREAD", "RUN"},
           NEW e \in 0 .. 2, NEW f \in 0 .. 2, f = 0 \/ f <= e - 1, ack <=> e = 0
    PROVE  /\ Passes(pc, s, e) \in 0 .. 3 /\ Passes(pc2, s2, f) \in 0 .. 3
           /\ pc \in {"IOW3", "IOW4"} =>
                Passes(pc2, s2, f) <= Passes(pc, s, e) - (IF pc = "IOW3" /\ pc2 = "IOW4" THEN 1 ELSE 0)
<1>1. e \in {0, 1, 2} /\ f \in {0, 1, 2}
  OBVIOUS
<1>2. CASE pc = "IOW1" /\ s = "ACKIO1" /\ pc2 = "IOW2" /\ s2 = "ACKIO2"
  BY <1>1, <1>2 DEF Passes
<1>3. CASE pc = "IOW2" /\ s = "ACKIO2" /\ pc2 = "IOW3" /\ s2 = "ACKIO2"
  BY <1>1, <1>3 DEF Passes, PassesTest
<1>4. CASE pc = "IOW3" /\ s = "ACKIO1" /\ pc2 = "IOW4" /\ s2 = "ACKIO2"
  BY <1>1, <1>4 DEF Passes, PassesTest, PassesBack
<1>5. CASE pc = "IOW3" /\ s = "ACKIO2" /\ pc2 = "IOW4" /\ s2 = "IDLE"
  BY <1>1, <1>5 DEF Passes, PassesTest, PassesBack
<1>6. CASE pc = "IOW3" /\ s = "IDLE" /\ ack /\ pc2 = "IOW4" /\ s2 = "IDLE"
  BY <1>1, <1>6 DEF Passes, PassesTest, PassesBack
<1>7. CASE pc = "IOW3" /\ s = "CNT" /\ ack /\ pc2 = "IOW4" /\ s2 = "ACKIO1"
  BY <1>1, <1>7 DEF Passes, PassesTest, PassesBack
<1>8. CASE pc = "IOW4" /\ s = "ACKIO1" /\ pc2 = "IOW3" /\ s2 = "ACKIO2"
  BY <1>1, <1>8 DEF Passes, PassesBack, PassesTest
<1>9. CASE pc = "IOW4" /\ s = "ACKIO2" /\ pc2 = "IOW3" /\ s2 = "IDLE"
  BY <1>1, <1>9 DEF Passes, PassesBack, PassesTest
<1>10. CASE pc = "IOW4" /\ s = "CNT" /\ ack /\ pc2 = "IOW3" /\ s2 = "ACKIO1"
  BY <1>1, <1>10 DEF Passes, PassesBack, PassesTest
<1>11. CASE pc = "IOW3" /\ s = "IDLE" /\ ~ack /\ pc2 = "IOW3" /\ s2 = "CNT"
  BY <1>1, <1>11 DEF Passes, PassesTest
<1>12. CASE pc = "IOW3" /\ s = "CNT" /\ ~ack /\ pc2 = "IOW3" /\ s2 = "CNT"
  BY <1>1, <1>12 DEF Passes, PassesTest
<1>13. CASE pc = "IOW4" /\ s = "IDLE" /\ ~ack /\ pc2 = "IOW4" /\ s2 = "CNT"
  BY <1>1, <1>13 DEF Passes, PassesBack
<1>14. CASE pc = "IOW4" /\ s = "CNT" /\ ~ack /\ pc2 = "IOW4" /\ s2 = "CNT"
  BY <1>1, <1>14 DEF Passes, PassesBack
<1>15. QED
  BY <1>2, <1>3, <1>4, <1>5, <1>6, <1>7, <1>8, <1>9, <1>10, <1>11, <1>12, <1>13, <1>14 DEF Follows

\* nxd.v after an acknowledge.
LEMMA NxdAfter ==
    ASSUME NxdNext
    PROVE  /\ nxd = "ACKIO1" => nxd' = "ACKIO2" /\ busy' = busy
           /\ (nxd = "ACKIO2" /\ ioCLEAR) => nxd' = "IDLE" /\ ~busy'
           /\ (nxd = "ACKIO2" /\ ~ioCLEAR) => nxd' = "ACKIO2" /\ busy' = busy
           /\ (nxd = "IDLE" /\ ~unackedIO) => nxd' = "IDLE" /\ busy' = busy
<1> USE DEF NxdNext, nxdIdle, nxdCount, nxdAckIo1, nxdAcked, nxdNoAck, NxdTo
<1>1. nxd = "ACKIO1" => nxd' = "ACKIO2" /\ busy' = busy
  OBVIOUS
<1>2. (nxd = "ACKIO2" /\ ioCLEAR) => nxd' = "IDLE" /\ ~busy'
  BY DEF nxdRelease
<1>3. (nxd = "ACKIO2" /\ ~ioCLEAR) => nxd' = "ACKIO2" /\ busy' = busy
  BY DEF nxdRelease
<1>4. (nxd = "IDLE" /\ ~unackedIO) => nxd' = "IDLE" /\ busy' = busy
  OBVIOUS
<1>5. QED
  BY <1>1, <1>2, <1>3, <1>4

\* A microinstruction of a wait stalls only while nxd.v has not seen the
\* acknowledge, and BUSY is what it tests.
LEMMA WaitClock ==
    ASSUME NxmInv, AckInv, MicroNext, InWait \/ upc = "IOWRITE"
    PROVE  /\ nxd \notin {"IDLE", "CNT"} => clken
           /\ ~unackedIO => clken
           /\ (unackedIO /\ nxd \in {"IDLE", "CNT"}) => ~clken
<1>1. timeout = 0 /\ (~IsIO(vma) => ~cpuREQ)
  <2>1. vma = Idle \/ (vma = cmd /\ cmd.what # "RAM")
    BY DEF AckInv, MicroAt, VmaAt, InIO
  <2>2. ~IsIO(vma) => ~cpuREQ
    BY <2>1, CycleParts DEF IsIO, cpuREQ
  <2>3. timeout = 0
    BY <2>1, CycleParts DEF NxmInv
  <2>4. QED
    BY <2>2, <2>3
<1>2. ~memWAIT
  BY <1>1 DEF memWAIT
<1>3. QED
  BY <1>2 DEF clken, ioWAIT

\* One clock of the wait for BUSY to end.
LEMMA LoopMoves ==
    ASSUME Timely, TypeOK, TypeOK', NxmInv, AckInv, ProgramInv, AbsentInv, InTime, Next,
           WaitAt, ReleaseAt, Releasing, NEW u \in UBAS, cmd.unit = u
    PROVE  /\ Asks(u)
           /\ Follows(upc, nxd, cpuACK, upc', nxd')
           /\ upc = "IOW2" => sc' = IdleLoop
           /\ (upc \in {"IOW3", "IOW4"} /\ upc' \in {"IOW3", "IOW4"})
                => sc' = IF upc = "IOW3" /\ upc' = "IOW4" THEN sc - 1 ELSE sc
           /\ upc \in {"IOW3", "IOW4"} => (busy' <=> nxd' # "IDLE")
<1>1. MicroNext /\ NxdNext
  BY DEF Next
<1>2. InWait /\ InIO
  BY DEF Releasing, InWait, InIO
<1>3. Asks(u)
  <2>1. vma = cmd /\ cmd.op = "rd"
    BY <1>2 DEF AckInv, MicroAt, VmaAt, Releasing
  <2>2. QED
    BY <2>1 DEF Releasing, Asks, Answers, Responds
<1>4. IsIO(vma) /\ cpuREQ
  BY <1>3, AsksFor
<1>5. unackedIO <=> ~cpuACK
  BY <1>4 DEF unackedIO
<1>6. /\ nxd \notin {"IDLE", "CNT"} => clken
      /\ cpuACK => clken
      /\ (~cpuACK /\ nxd \in {"IDLE", "CNT"}) => ~clken
  BY <1>1, <1>2, <1>5, WaitClock
<1>7. /\ upc = "IOW1" => busy /\ nxd = "ACKIO1"
      /\ upc = "IOW2" => busy /\ nxd = "ACKIO2"
      /\ upc \in {"IOW3", "IOW4"} => /\ nxd \in {"IDLE", "CNT", "ACKIO1", "ACKIO2"}
                                     /\ busy <=> nxd # "IDLE"
  BY <1>2 DEF WaitAt, Releasing
<1>8. CASE upc = "IOW1"
  <2>1. clken /\ nxd' = "ACKIO2"
    BY <1>1, <1>6, <1>7, <1>8, NxdAfter
  <2>2. upc' = "IOW2"
    BY <1>1, <1>8, <2>1, WaitMicro DEF uIow1, Loop
  <2>3. QED
    BY <1>3, <1>7, <1>8, <2>1, <2>2 DEF Follows
<1>9. CASE upc = "IOW2"
  <2>1. clken /\ nxd' = "ACKIO2" /\ ioBUSY
    BY <1>1, <1>6, <1>7, <1>9, NxdAfter DEF ioCLEAR, ioBUSY
  <2>2. upc' = "IOW3" /\ sc' = IdleLoop
    BY <1>1, <1>9, <2>1, WaitMicro DEF uIow2
  <2>3. QED
    BY <1>3, <1>7, <1>9, <2>1, <2>2 DEF Follows
<1>10. CASE upc \in {"IOW3", "IOW4"} /\ nxd \in {"IDLE", "CNT"} /\ ~cpuACK
  <2>1. nxd' = "CNT" /\ busy'
    BY <1>3, <1>7, <1>10, NxdMoves
  <2>2. UNCHANGED <<upc, sc>>
    BY <1>1, <1>6, <1>10 DEF MicroNext
  <2>3. QED
    BY <1>3, <1>10, <2>1, <2>2 DEF Follows
<1>11. ASSUME upc \in {"IOW3", "IOW4"}, nxd \notin {"IDLE", "CNT"} \/ cpuACK
       PROVE  clken
  BY <1>6, <1>11
<1>12. ASSUME upc \in {"IOW3", "IOW4"}, nxd \notin {"IDLE", "CNT"} \/ cpuACK
       PROVE  /\ nxd = "ACKIO1" => nxd' = "ACKIO2" /\ busy'
              /\ nxd = "ACKIO2" => nxd' = "IDLE" /\ ~busy'
              /\ nxd = "IDLE" => nxd' = "IDLE" /\ ~busy'
              /\ nxd = "CNT" => nxd' = "ACKIO1" /\ busy'
              /\ ioBUSY <=> nxd # "IDLE"
  <2>1. ioCLEAR
    BY <1>12 DEF ioCLEAR
  <2>2. ioBUSY <=> nxd # "IDLE"
    BY <1>5, <1>7, <1>12 DEF ioBUSY
  <2>3. nxd = "CNT" => nxd' = "ACKIO1" /\ busy' = busy
    BY <1>3, <1>12, NxdMoves DEF Releasing, Responds, AckInv, MicroAt, VmaAt, InWait
  <2>4. nxd = "IDLE" => nxd' = "IDLE" /\ busy' = busy
    BY <1>3, <1>12, NxdMoves
  <2>5. QED
    BY <1>1, <1>7, <1>12, <2>1, <2>2, <2>3, <2>4, NxdAfter
<1>13. CASE upc = "IOW3" /\ (nxd \notin {"IDLE", "CNT"} \/ cpuACK)
  <2>1. sc >= 0
    <3>1. \/ Passes(upc, nxd, Turns(u)) <= sc + 1
          \/ sc = IdleLoop
      BY <1>13 DEF ReleaseAt, Releasing
    <3>2. Passes(upc, nxd, Turns(u)) \in {1, 2, 3}
      BY <1>13 DEF Passes, PassesTest
    <3>3. sc \in Int /\ IdleLoop \in Nat
      BY CountAssumption DEF TypeOK, MicroTypeOK
    <3>4. QED
      BY <3>1, <3>2, <3>3
  <2>2. uIow3
    BY <1>1, <1>11, <1>13, WaitMicro
  <2>3. upc' = "IOW4" /\ sc' = sc - 1
    <3>1. ~(sc < 0)
      <4>1. sc \in Int
        BY DEF TypeOK, MicroTypeOK
      <4>2. QED
        BY <2>1, <4>1
    <3>2. QED
      BY <2>2, <3>1 DEF uIow3
  <2>4. QED
    BY <1>3, <1>7, <1>12, <1>13, <2>3 DEF Follows
<1>14. CASE upc = "IOW4" /\ (nxd \notin {"IDLE", "CNT"} \/ cpuACK)
  <2>1. uIow4
    BY <1>1, <1>11, <1>14, WaitMicro
  <2>2. nxd # "IDLE" => upc' = "IOW3" /\ sc' = sc
    BY <1>12, <1>14, <2>1 DEF uIow4, Loop
  <2>3. nxd = "IDLE" => upc' \in {"MEMREAD", "RUN"}
    BY <1>12, <1>14, <2>1 DEF uIow4, IoReturn
  <2>4. QED
    BY <1>3, <1>7, <1>12, <1>14, <2>2, <2>3 DEF Follows
<1>15. QED
  BY <1>8, <1>9, <1>10, <1>13, <1>14 DEF Releasing

LEMMA WaitStep ==
    ASSUME Timely, TypeOK, TypeOK', NxmInv, AckInv, ProgramInv, AbsentInv, InTime, Next,
           WaitAt, ReleaseAt
    PROVE  WaitAt'
<1> SUFFICES ASSUME InIO', cmd'.what \in Responds, upc' # "IOCLR"
             PROVE  /\ upc' \notin {"IOW1N", "IOW5"}
                    /\ (upc' = "IOWRITE" \/ (upc' = "IOWAIT" /\ cmd'.op = "rd")) =>
                          \/ nxd' = "CNT" /\ busy'
                          \/ nxd' = "IDLE" /\ uState'[cmd'.unit] # "ACK"
                    /\ (upc' = "IOWAIT" /\ cmd'.op # "rd") => nxd' = "ACKIO1" /\ busy'
                    /\ upc' = "IOW1" =>
                          busy' /\ nxd' = IF cmd'.op = "rd" THEN "ACKIO1" ELSE "ACKIO2"
                    /\ upc' = "IOW2" => IF cmd'.op = "rd" THEN busy' /\ nxd' = "ACKIO2"
                                        ELSE ~busy' /\ nxd' = "IDLE"
                    /\ upc' \in {"IOW3", "IOW4"} =>
                          /\ cmd'.op = "rd"
                          /\ nxd' \in {"IDLE", "CNT", "ACKIO1", "ACKIO2"}
                          /\ busy' <=> nxd' # "IDLE"
  BY Zenon DEF WaitAt
<1>1. MicroNext /\ NxdNext /\ UbaNext
  BY DEF Next
<1>2. /\ cmd' = cmd /\ cmd.what \in {"REG", "DEV"}
      /\ \/ upc = "IOCLR" /\ clken /\ vma' = cmd
         \/ InWait \/ upc = "IOWRITE"
  BY <1>1, MicroFrom DEF AckInv, InIO, Responds
<1>3. InIO /\ cmd.what \in Responds
  BY <1>2 DEF InIO, Responds
<1>4. cmd.unit \in UBAS
  BY <1>2, <1>3, CyclesAssumption DEF ProgramInv, CmdAt
<1>5. CASE upc = "IOCLR" /\ clken
  <2>1. nxd' = "IDLE" /\ uState'[cmd.unit] # "ACK"
    BY <1>1, <1>4, <1>5, AbsentStart, CycleStart DEF AbsentInv
  <2>2. upc' = IF cmd.op = "rd" THEN "IOWAIT" ELSE "IOWRITE"
    BY <1>1, <1>5, WaitMicro DEF uIoClr, Start
  <2>3. QED
    BY <1>2, <2>1, <2>2
<1>6. CASE upc = "IOWRITE" \/ (upc = "IOWAIT" /\ cmd.op = "rd")
  <2>1. PICK u \in UBAS : cmd.unit = u
    BY <1>4
  <2>2. vma = cmd /\ cmd.op # "none"
    BY <1>3, <1>6 DEF AckInv, MicroAt, VmaAt, InWait
  <2>3. Asks(u)
    BY <1>2, <2>1, <2>2 DEF Asks, Answers
  <2>4. /\ unackedIO <=> ~cpuACK
        /\ cpuACK => uState[u] = "ACK"
    BY <2>3, AsksFor, AsksTurn DEF unackedIO, Asks
  <2>5. \/ nxd = "CNT" /\ busy
        \/ nxd = "IDLE" /\ uState[u] # "ACK"
    BY <1>3, <1>6, <2>1 DEF WaitAt
  <2>6. CASE ~cpuACK
    <3>1. nxd' = "CNT" /\ busy'
      BY <2>3, <2>5, <2>6, NxdMoves
    <3>2. ~clken
      BY <1>1, <1>6, <2>4, <2>5, <2>6, WaitClock DEF InWait
    <3>3. upc' = upc
      BY <1>1, <3>2 DEF MicroNext
    <3>4. QED
      BY <1>2, <1>6, <3>1, <3>3
  <2>7. CASE cpuACK
    <3>1. nxd = "CNT" /\ busy
      BY <2>4, <2>5, <2>7
    <3>2. nxd' = "ACKIO1" /\ busy'
      BY <1>2, <2>2, <2>3, <2>7, <3>1, NxdMoves
    <3>3. clken
      BY <1>1, <1>6, <2>4, <2>7, WaitClock DEF InWait
    <3>4. upc = "IOWRITE" => upc' = "IOWAIT" /\ cmd.op # "rd"
      BY <1>1, <3>3, WaitMicro DEF uIoWrite, Finish, AckInv, MicroAt, VmaAt
    <3>5. upc = "IOWAIT" => upc' = "IOW1"
      BY <1>1, <3>1, <3>3, WaitMicro DEF uIoWait, ioBUSY
    <3>6. QED
      BY <1>2, <1>6, <3>2, <3>4, <3>5
  <2>8. QED
    BY <2>6, <2>7
<1>7. CASE upc \in {"IOWAIT", "IOW1", "IOW2"} /\ cmd.op # "rd"
  <2>1. vma = Idle
    BY <1>7 DEF AckInv, MicroAt, VmaAt, InWait
  <2>2. ~unackedIO
    BY <2>1, CycleParts DEF unackedIO, IsIO
  <2>3. clken
    BY <1>1, <1>7, <2>2, WaitClock DEF InWait
  <2>4. CASE upc = "IOWAIT"
    <3>1. nxd = "ACKIO1" /\ busy
      BY <1>3, <1>7, <2>4 DEF WaitAt
    <3>2. nxd' = "ACKIO2" /\ busy' /\ ioBUSY
      BY <1>1, <3>1, NxdAfter DEF ioBUSY
    <3>3. upc' = "IOW1"
      BY <1>1, <2>3, <2>4, <3>2, WaitMicro DEF uIoWait
    <3>4. QED
      BY <1>2, <1>7, <3>2, <3>3
  <2>5. CASE upc = "IOW1"
    <3>1. nxd = "ACKIO2" /\ ioCLEAR
      BY <1>3, <1>7, <2>5 DEF WaitAt, ioCLEAR
    <3>2. nxd' = "IDLE" /\ ~busy'
      BY <1>1, <3>1, NxdAfter
    <3>3. upc' = "IOW2"
      BY <1>1, <2>3, <2>5, WaitMicro DEF uIow1, Loop
    <3>4. QED
      BY <1>2, <1>7, <3>2, <3>3
  <2>6. CASE upc = "IOW2"
    <3>1. ~ioBUSY
      BY <1>3, <1>7, <2>2, <2>6 DEF WaitAt, ioBUSY
    <3>2. upc' = "RUN"
      BY <1>1, <1>7, <2>3, <2>6, <3>1, WaitMicro DEF uIow2, IoReturn
    <3>3. QED
      BY <3>2 DEF InIO, InWait
  <2>7. QED
    BY <1>7, <2>4, <2>5, <2>6
<1>8. CASE Releasing
  <2>1. PICK u \in UBAS : cmd.unit = u
    BY <1>4
  <2>2. /\ Follows(upc, nxd, cpuACK, upc', nxd')
        /\ upc \in {"IOW3", "IOW4"} => (busy' <=> nxd' # "IDLE")
    BY <1>8, <2>1, LoopMoves
  <2>3. cmd'.op = "rd"
    BY <1>2, <1>8 DEF Releasing
  <2>4. CASE upc = "IOW1"
    <3>1. busy /\ nxd = "ACKIO1"
      BY <1>3, <1>2, <2>3, <2>4 DEF WaitAt
    <3>2. nxd' = "ACKIO2" /\ busy'
      BY <1>1, <3>1, NxdAfter
    <3>3. upc' = "IOW2"
      BY <2>2, <2>4 DEF Follows
    <3>4. QED
      BY <2>3, <3>2, <3>3
  <2>5. CASE upc = "IOW2"
    <3>1. busy /\ nxd = "ACKIO2" /\ ~ioCLEAR
      BY <1>3, <1>2, <2>3, <2>5 DEF WaitAt, ioCLEAR
    <3>2. nxd' = "ACKIO2" /\ busy'
      BY <1>1, <3>1, NxdAfter
    <3>3. upc' = "IOW3"
      BY <2>2, <2>5 DEF Follows
    <3>4. QED
      BY <2>3, <3>2, <3>3
  <2>6. CASE upc \in {"IOW3", "IOW4"}
    <3>1. /\ upc' \in {"IOW3", "IOW4"} => nxd' \in {"IDLE", "CNT", "ACKIO1", "ACKIO2"}
          /\ upc' \in {"IOW3", "IOW4", "MEMREAD", "RUN"}
      BY <2>2, <2>6 DEF Follows
    <3>2. upc' \in {"IOW3", "IOW4"}
      BY <3>1 DEF InIO, InWait
    <3>3. QED
      BY <2>2, <2>3, <2>6, <3>1, <3>2
  <2>7. QED
    BY <1>8, <2>4, <2>5, <2>6 DEF Releasing
<1>9. CASE upc \in {"IOW3", "IOW4"} /\ cmd.op # "rd"
  BY <1>3, <1>9 DEF WaitAt
<1>10. upc \notin {"IOW1N", "IOW5"}
  BY <1>3 DEF WaitAt
<1>11. QED
  BY <1>2, <1>3, <1>5, <1>6, <1>7, <1>8, <1>9, <1>10 DEF InWait, Releasing

\* The wait for BUSY to end begins when the acknowledge comes.
LEMMA ReleaseFrom ==
    ASSUME Timely, TypeOK, NxmInv, AckInv, ProgramInv, AbsentInv, WaitAt, Next, Releasing'
    PROVE  /\ cmd' = cmd /\ cmd.unit \in UBAS
           /\ Releasing \/ (upc = "IOWAIT" /\ upc' = "IOW1" /\ Asks(cmd.unit) /\ cpuACK)
<1>1. MicroNext
  BY DEF Next
<1>2. /\ upc' \in {"IOW1", "IOW2", "IOW3", "IOW4"}
      /\ cmd'.what \in Responds /\ cmd'.op = "rd"
  BY DEF Releasing
<1>3. /\ cmd' = cmd
      /\ (upc = "IOCLR" /\ clken) \/ InWait \/ upc = "IOWRITE"
  BY <1>1, <1>2, MicroFrom DEF AckInv, InWait
<1>4. InIO /\ cmd.what \in Responds /\ cmd.op = "rd"
  BY <1>2, <1>3 DEF InIO
<1>5. cmd.unit \in UBAS
  BY <1>4, CyclesAssumption DEF ProgramInv, CmdAt, Responds
<1>6. upc \notin {"IOW1N", "IOW5", "IOWRITE"}
  BY <1>4 DEF WaitAt, AckInv, MicroAt, VmaAt
<1>7. upc # "IOCLR"
  BY <1>1, <1>2, <1>3, WaitMicro DEF uIoClr, Start, InWait
<1>8. CASE upc = "IOWAIT"
  <2>1. clken
    BY <1>1, <1>2, <1>8 DEF MicroNext
  <2>2. upc' = "IOW1"
    BY <1>1, <1>2, <1>8, <2>1, WaitMicro DEF uIoWait
  <2>3. vma = cmd /\ cmd.op # "none"
    BY <1>4, <1>8 DEF AckInv, MicroAt, VmaAt, InWait
  <2>4. Asks(cmd.unit)
    BY <1>4, <2>3 DEF Asks, Answers, Responds
  <2>5. IsIO(vma) /\ cpuREQ
    BY <1>5, <2>4, AsksFor
  <2>6. nxd \in {"IDLE", "CNT"}
    BY <1>4, <1>8 DEF WaitAt
  <2>7. cpuACK
    BY <1>1, <1>8, <2>1, <2>5, <2>6, WaitClock DEF unackedIO, InWait
  <2>8. QED
    BY <1>3, <1>5, <1>8, <2>2, <2>4, <2>7
<1>9. QED
  BY <1>3, <1>4, <1>5, <1>6, <1>7, <1>8 DEF InWait, Releasing

\* The adapter of a wait acknowledges as soon as it has the bus.
LEMMA ReleaseTurns ==
    ASSUME Timely, TypeOK, AckInv, ProgramInv, Next, NEW u \in UBAS, Asks(u),
           uState[u] \in {"NULL", "ACK"}
    PROVE  /\ uState'[u] \in {"NULL", "ACK"}
           /\ Turns(u) \in 0 .. 2 /\ Turns(u)' \in 0 .. 2
           /\ Owner # "dma" => Turns(u)' = 0 \/ Turns(u)' <= Turns(u) - 1
           /\ cpuACK => Turns(u) = 0 /\ Owner = "cpu" /\ Turns(u)' = 0
           /\ (Owner # "dma" /\ ~cpuACK) => Turns(u) # 0
           /\ dmaREQ = {} => Owner # "dma"
<1>1. EpiWrite /\ CslNext /\ UbaNext
  BY DEF Next
<1>2. uState'[u] \in {"NULL", "ACK"}
  BY <1>1, AsksTurn, UnitMoves DEF Timely
<1>3. /\ Left(uState[u]) \in {0, 1} /\ Left(uState'[u]) \in {0, 1}
      /\ ConsoleHas \in {0, 1} /\ ConsoleHas' \in {0, 1}
      /\ Turns(u) = ConsoleHas + Left(uState[u])
      /\ Turns(u)' = ConsoleHas' + Left(uState'[u])
  BY <1>2 DEF Left, ConsoleHas, Turns
<1>4. /\ Owner # "dma" => /\ Turns(u)' = 0 \/ Turns(u)' <= Turns(u) - 1
                          /\ cpuACK => Turns(u)' = 0
                          /\ ~cpuACK => Turns(u) # 0
      /\ Owner = "dma" => ~cpuACK
  BY <1>1, TurnMoves DEF Timely
<1>5. /\ Owner = IF cslREQ THEN "csl" ELSE IF dmaREQ # {} THEN "dma" ELSE "cpu"
      /\ cpuACK <=> (Owner = "cpu" /\ uState[u] = "ACK")
  BY AsksTurn
<1>6. cpuACK => Turns(u) = 0
  BY <1>5 DEF Turns, ConsoleHas, Left
<1>7. QED
  BY <1>2, <1>3, <1>4, <1>5, <1>6

LEMMA ReleaseStep ==
    ASSUME Timely, TypeOK, TypeOK', NxmInv, AckInv, ProgramInv, AbsentInv, InTime, Next,
           WaitAt, ReleaseAt
    PROVE  ReleaseAt'
<1> SUFFICES ASSUME NEW u \in UBAS, Releasing', cmd'.unit = u
             PROVE  /\ uState'[u] \in {"NULL", "ACK"}
                    /\ \/ /\ Quiet(Clocks(upc, nxd, Turns(u)))'
                          /\ upc' \in {"IOW3", "IOW4"} =>
                               Passes(upc', nxd', Turns(u)') <= sc' + 1
                       \/ /\ Turns(u)' = 0
                          /\ upc' = "IOW3" => nxd' = "ACKIO2" /\ sc' = IdleLoop
                          /\ upc' = "IOW4" => nxd' = "IDLE" /\ sc' = IdleLoop - 1
  BY DEF ReleaseAt
<1>1. cmd.unit = u /\ upc' \in {"IOW1", "IOW2", "IOW3", "IOW4"}
  BY ReleaseFrom DEF Releasing
<1>2. EpiWrite /\ CslNext /\ UbaNext /\ DmaNext
  BY DEF Next
<1>3. CASE upc' = "IOW1" /\ Asks(u) /\ cpuACK
  <2>1. uState[u] = "ACK"
    BY <1>3, AsksTurn
  <2>2. QED
    BY <1>3, <2>1, ReleaseTurns
<1>4. CASE Releasing
  <2>1. /\ Asks(u)
        /\ Follows(upc, nxd, cpuACK, upc', nxd')
        /\ upc = "IOW2" => sc' = IdleLoop
        /\ (upc \in {"IOW3", "IOW4"} /\ upc' \in {"IOW3", "IOW4"})
             => sc' = IF upc = "IOW3" /\ upc' = "IOW4" THEN sc - 1 ELSE sc
    BY <1>1, <1>4, LoopMoves
  <2>2. uState[u] \in {"NULL", "ACK"}
    BY <1>1, <1>4 DEF ReleaseAt
  <2>3. PICK e \in 0 .. 2 : e = Turns(u)
    BY <2>1, <2>2, ReleaseTurns
  <2>4. PICK f \in 0 .. 2 : f = Turns(u)'
    BY <2>1, <2>2, ReleaseTurns
  <2>5. /\ uState'[u] \in {"NULL", "ACK"}
        /\ Owner # "dma" => f = 0 \/ f <= e - 1
        /\ cpuACK => e = 0 /\ f = 0
        /\ (Owner # "dma" /\ ~cpuACK) => e # 0
        /\ dmaREQ = {} => Owner # "dma"
    BY <2>1, <2>2, <2>3, <2>4, ReleaseTurns
  <2>6. /\ dmaREQ = {} <=> Quiet(0)
        /\ \A n \in Nat \ {0} : Quiet(n) => Quiet(n - 1)'
        /\ Owner = "dma" => Quiet(6)'
    BY <1>2, DmaMoves DEF Timely, ProgramInv
  <2>7. \A n, m \in Nat : (m <= n /\ Quiet(n)') => Quiet(m)'
    <3>1. SUFFICES ASSUME NEW n \in Nat, NEW m \in Nat, m <= n, Quiet(n)'
                   PROVE  Quiet(m)'
      OBVIOUS
    <3>2. QED
      BY <3>1, CyclesAssumption, CountAssumption DEF Quiet, TypeOK, UbaTypeOK
  <2>8. upc' \notin {"MEMREAD", "RUN"} /\ sc \in Int /\ sc' \in Int /\ IdleLoop \in Nat
    BY <1>1, CountAssumption DEF TypeOK, MicroTypeOK
  <2>9. \/ /\ Quiet(Clocks(upc, nxd, e))
           /\ upc \in {"IOW3", "IOW4"} => Passes(upc, nxd, e) <= sc + 1
        \/ /\ e = 0
           /\ upc = "IOW3" => nxd = "ACKIO2" /\ sc = IdleLoop
           /\ upc = "IOW4" => nxd = "IDLE" /\ sc = IdleLoop - 1
    BY <1>1, <1>4, <2>3 DEF ReleaseAt
  \* DMA stays away: the loop comes nearer to its end.
  <2>10. CASE /\ Quiet(Clocks(upc, nxd, e))
              /\ upc \in {"IOW3", "IOW4"} => Passes(upc, nxd, e) <= sc + 1
    <3>1. PICK n \in Int : n = Clocks(upc, nxd, e)
      <4>1. Clocks(upc, nxd, e) \in Int
        BY DEF Clocks, ClocksTest, ClocksBack
      <4>2. QED
        BY <4>1
    <3>2. n \in Nat
      BY <3>1 DEF Clocks, ClocksTest, ClocksBack
    <3>3. Owner # "dma"
      <4>1. Quiet(0)
        BY <2>10, <3>1, <3>2, QuietLess
      <4>2. QED
        BY <2>5, <2>6, <4>1
    <3>4. /\ cpuACK \in BOOLEAN /\ (f = 0 \/ f <= e - 1) /\ (cpuACK <=> e = 0)
          /\ Follows(upc, nxd, cpuACK, upc', nxd') /\ upc' \notin {"MEMREAD", "RUN"}
      BY <2>1, <2>5, <2>8, <3>3 DEF cpuACK
    <3>5. /\ Clocks(upc, nxd, e) \in 1 .. 6
          /\ Clocks(upc', nxd', f) \in 0 .. Clocks(upc, nxd, e) - 1
      BY <3>4, ClocksLess
    <3>6. /\ Passes(upc, nxd, e) \in 0 .. 3 /\ Passes(upc', nxd', f) \in 0 .. 3
          /\ upc \in {"IOW3", "IOW4"} =>
               Passes(upc', nxd', f) <= Passes(upc, nxd, e)
                                        - (IF upc = "IOW3" /\ upc' = "IOW4" THEN 1 ELSE 0)
      BY <3>4, PassesLess
    <3>7. PICK m \in Nat : m = Clocks(upc', nxd', f)
      BY <3>1, <3>5
    <3>8. Quiet(m)'
      <4>1. n \in Nat \ {0} /\ m <= n - 1
        BY <3>1, <3>5, <3>7
      <4>2. Quiet(n - 1)'
        BY <2>6, <2>10, <3>1, <4>1
      <4>3. QED
        BY <2>7, <4>1, <4>2
    <3>9. Quiet(Clocks(upc, nxd, Turns(u)))'
      BY <2>4, <3>7, <3>8 DEF Quiet
    <3>10. upc' \in {"IOW3", "IOW4"} => Passes(upc', nxd', f) <= sc' + 1
      <4>1. PICK p \in 0 .. 3 : p = Passes(upc, nxd, e)
        BY <3>6
      <4>2. PICK q \in 0 .. 3 : q = Passes(upc', nxd', f)
        BY <3>6
      <4>3. CASE upc \in {"IOW3", "IOW4"}
        <5>1. p <= sc + 1 /\ q <= p - (IF upc = "IOW3" /\ upc' = "IOW4" THEN 1 ELSE 0)
          BY <2>10, <3>6, <4>1, <4>2, <4>3
        <5>2. PICK k \in {0, 1} : k = IF upc = "IOW3" /\ upc' = "IOW4" THEN 1 ELSE 0
          OBVIOUS
        <5>3. upc' \in {"IOW3", "IOW4"} => sc' = sc - k
          BY <2>1, <2>8, <4>3, <5>2
        <5>4. q <= p - k
          BY <5>1, <5>2
        <5>5. sc' = sc - k => q <= sc' + 1
          BY <2>8, <5>1, <5>4
        <5>6. QED
          BY <4>2, <5>3, <5>5
      <4>4. CASE upc = "IOW2"
        <5>1. sc' = IdleLoop /\ IdleLoop >= 2
          BY <2>1, <4>4 DEF Timely, LongEnough
        <5>2. q <= sc' + 1
          BY <2>8, <5>1
        <5>3. QED
          BY <4>2, <5>2
      <4>5. CASE upc = "IOW1"
        BY <2>1, <4>5 DEF Follows
      <4>6. QED
        BY <1>4, <4>3, <4>4, <4>5 DEF Releasing
    <3>11. QED
      BY <2>4, <2>5, <3>9, <3>10
  \* DMA takes the bus in the first round, and then stays away for two more.
  <2>11. CASE /\ e = 0
              /\ upc = "IOW3" => nxd = "ACKIO2" /\ sc = IdleLoop
              /\ upc = "IOW4" => nxd = "IDLE" /\ sc = IdleLoop - 1
    <3>1. CASE Owner # "dma"
      <4>1. cpuACK /\ f = 0
        BY <2>5, <2>11, <3>1
      <4>2. /\ upc' = "IOW3" => nxd' = "ACKIO2" /\ sc' = IdleLoop
            /\ upc' = "IOW4" => nxd' = "IDLE" /\ sc' = IdleLoop - 1
        BY <2>1, <2>8, <2>11, <4>1 DEF Follows
      <4>3. QED
        BY <2>4, <2>5, <4>1, <4>2
    <3>2. CASE Owner = "dma"
      <4>1. Quiet(6)' /\ ~cpuACK
        BY <2>5, <2>6, <3>2, AsksTurn, <2>1
      <4>2. PICK m \in Int : m = Clocks(upc', nxd', f)
        <5>1. Clocks(upc', nxd', f) \in Int
          BY DEF Clocks, ClocksTest, ClocksBack
        <5>2. QED
          BY <5>1
      <4>3. m \in Nat /\ m <= 6
        <5>1. f \in {0, 1, 2}
          OBVIOUS
        <5>2. QED
          BY <4>2, <5>1 DEF Clocks, ClocksTest, ClocksBack
      <4>4. Quiet(m)'
        BY <2>7, <4>1, <4>3
      <4>5. Quiet(Clocks(upc, nxd, Turns(u)))'
        BY <2>4, <4>2, <4>4 DEF Quiet
      <4>6. upc' \in {"IOW3", "IOW4"} => Passes(upc', nxd', f) <= sc' + 1
        <5>1. IdleLoop >= 2
          BY DEF Timely, LongEnough
        <5>2. CASE upc = "IOW1"
          BY <2>1, <5>2 DEF Follows
        <5>3. CASE upc = "IOW2"
          <6>1. Passes(upc', nxd', f) \in {0, 1, 2, 3}
            BY DEF Passes, PassesTest, PassesBack
          <6>2. QED
            BY <2>1, <2>8, <5>1, <5>3, <6>1
        <5>4. CASE upc \in {"IOW3", "IOW4"}
          <6>1. upc' = "IOW4" /\ nxd' \in {"IDLE", "CNT"} /\ sc' = IdleLoop - 1
            BY <2>1, <2>8, <2>11, <4>1, <5>4 DEF Follows
          <6>2. Passes(upc', nxd', f) \in {0, 1, 2}
            BY <6>1 DEF Passes, PassesBack
          <6>3. QED
            BY <2>8, <5>1, <6>1, <6>2
        <5>5. QED
          BY <1>4, <5>2, <5>3, <5>4 DEF Releasing
      <4>7. QED
        BY <2>4, <2>5, <4>5, <4>6
    <3>3. QED
      BY <3>1, <3>2
  <2>12. QED
    BY <2>9, <2>10, <2>11
<1>5. QED
  BY <1>1, <1>3, <1>4, ReleaseFrom

\* The fault is taken by the instructions that address nobody only.
LEMMA TrapOf ==
    ASSUME Timely, AckInv, ProgramInv, WaitAt, TypeOK
    PROVE  TrapOnlyAbsent
<1> SUFFICES ASSUME upc = "IOW5" PROVE cmd.what = "NXD"
  BY DEF TrapOnlyAbsent
<1>1. InIO /\ cmd.what \notin Responds
  BY DEF InIO, InWait, WaitAt
<1>2. cmd.what \notin {"RAM", "CIR", "WRU", "VECT", "MSR"}
  BY <1>1 DEF ProgramInv, CmdAt, Timely, NoStatus
<1>3. cmd.what \in Whats
  BY DEF TypeOK, MicroTypeOK, Cycle
<1>4. QED
  BY <1>1, <1>2, <1>3 DEF Whats, Responds

TrapInv == ProgramInv /\ InTime /\ WaitAt /\ ReleaseAt

LEMMA TrapInit == Init => TrapInv
<1> SUFFICES ASSUME Init PROVE TrapInv
  OBVIOUS
<1>1. upc = "RUN" /\ vma = Idle /\ nxd = "IDLE"
  BY DEF Init
<1>2. ProgramInv
  <2>1. CmdAt /\ VmaFrom
    BY <1>1, CycleParts DEF CmdAt, VmaFrom, InIO, InWait
  <2>2. CountAt /\ DmaIsRam
    BY CyclesAssumption DEF Init, CountAt, DmaIsRam
  <2>3. PiAt
    BY <1>1 DEF Init, PiAt
  <2>4. SyncAt
    BY <1>1, CycleParts DEF Init, SyncAt, Strays
  <2>5. QED
    BY <2>1, <2>2, <2>3, <2>4 DEF ProgramInv
<1>3. InTime /\ WaitAt /\ ReleaseAt
  BY <1>1 DEF InTime, WaitAt, ReleaseAt, Releasing, InIO, InWait
<1>4. QED
  BY <1>2, <1>3 DEF TrapInv

LEMMA TrapInductive ==
    ASSUME Timely, TypeOK, TypeOK', NxmInv, AckInv, AbsentInv, TrapInv, [Next]_vars
    PROVE  TrapInv'
<1>1. ProgramInv /\ InTime /\ WaitAt /\ ReleaseAt
  BY DEF TrapInv
<1>2. CASE Next
  <2>2. ProgramInv'
    BY <1>1, <1>2, ProgramStep DEF Timely
  <2>3. InTime'
    BY <1>1, <1>2, InTimeStep
  <2>4. WaitAt'
    BY <1>1, <1>2, WaitStep
  <2>5. ReleaseAt'
    BY <1>1, <1>2, ReleaseStep
  <2>6. QED
    BY <2>2, <2>3, <2>4, <2>5 DEF TrapInv
<1>3. CASE UNCHANGED vars
  <2>1. /\ UNCHANGED <<upc, sc, cmd, vma, nxd, nxdCnt>>
        /\ UNCHANGED <<busy, uState, uCnt, dma, dmaGap, csState, piUnits>>
    BY <1>3 DEF vars, cslVars, cpuVars, ubaVars
  <2>2. ProgramInv'
    <3>1. (CmdAt /\ VmaFrom /\ CountAt /\ DmaIsRam /\ PiAt)'
      BY <1>1, <2>1 DEF ProgramInv, CmdAt, VmaFrom, CountAt, DmaIsRam, PiAt, InIO, InWait
    <3>2. SyncAt => SyncAt'
      BY <2>1 DEF SyncAt, Strays, Paired, InWait, cslREQ
    <3>3. QED
      BY <1>1, <3>1, <3>2 DEF ProgramInv
  <2>3. \A u \in UBAS : Turns(u)' = Turns(u)
    BY <2>1 DEF Turns, ConsoleHas, cslREQ
  <2>4. \A n : Quiet(n)' <=> Quiet(n)
    BY <2>1 DEF Quiet
  <2>5. WaitAt'
    BY <1>1, <2>1 DEF WaitAt, InIO, InWait
  <2>6. \A u \in UBAS : AckWithin(u)' = AckWithin(u)
    BY <2>1 DEF AckWithin, Turns, ConsoleHas, cslREQ, dmaREQ, Quiet
  <2>7. InTime'
    BY <1>1, <2>1, <2>6 DEF InTime, Asks, Answers
  <2>8. ReleaseAt'
    BY <1>1, <2>1 DEF ReleaseAt, Releasing, Turns, ConsoleHas, cslREQ, Quiet
  <2>9. QED
    BY <2>2, <2>5, <2>7, <2>8 DEF TrapInv
<1>4. QED
  BY <1>2, <1>3

\* The cycle of an I/O instruction for a register or a device that is there
\* is acknowledged in time, and its wait ends, whatever the console does to
\* memory and one adapter's DMA does meanwhile: the fault is for the
\* addresses that nobody decodes.
THEOREM TrapsAlways ==
    ASSUME Timely
    PROVE  Spec => []TrapOnlyAbsent
<1> DEFINE Inv == TypeOK /\ NxmInv /\ AckInv /\ AbsentInv /\ TrapInv
<1>1. Init => Inv
  BY InitType, AckInit, AbsentInit, TrapInit DEF Init, NxmInv
<1>2. Inv /\ [Next]_vars => Inv'
  <2> SUFFICES ASSUME Inv, [Next]_vars PROVE Inv'
    OBVIOUS
  <2>1. TypeOK' /\ NxmInv' /\ AckInv' /\ AbsentInv'
    BY NextType, NxmStep, AckInductive, AbsentInductive DEF Timely
  <2>2. TrapInv'
    BY <2>1, TrapInductive
  <2>3. QED
    BY <2>1, <2>2
<1>3. Inv => TrapOnlyAbsent
  BY TrapOf DEF TrapInv
<1>4. QED
  BY <1>1, <1>2, <1>3, PTL DEF Spec

-----------------------------------------------------------------------------
(* The last microinstruction of a cycle: what is on the bus, and its answer. *)

CycleAt ==
    /\ upc \in {"PRE", "CHAIN", "MEMWRITE"} => vma = cmd /\ cmd \in {Ram("rd"), Ram("wr")}
    /\ upc = "CHAIN" => cmd = Ram("rd")
    /\ upc = "MEMWRITE" => cmd = Ram("wr")
    /\ upc = "MEMREAD" => /\ vma = cmd /\ cmd.what \notin {"NXD", "WRU", "VECT"}
                          /\ cmd.op = "rd" \/ cmd.what = "CIR"
    /\ upc = "VECREAD" => vma = cmd /\ \E u \in UBAS : cmd = Vect(u)
    /\ upc \in {"CALL", "STRTIO"} =>
          IF cmd.what = "VECT" THEN vma.what = "WRU" /\ \E u \in UBAS : cmd = Vect(u)
          ELSE vma = Idle

\* The adapter that the answer to WRU names.
LEMMA WruNames ==
    ASSUME AckInv, vma = Wru, cpuDATA[2] = "WRU"
    PROVE  cpuDATA[1] \in UBAS
<1>1. Owner = "cpu" /\ busACK /\ BusCycle = vma
  BY NoAckNoData, Owners DEF cpuACK, AckInv
<1>2. ~memACK /\ ~cirACK
  BY <1>1, CycleParts DEF memACK, cirACK
<1>3. \E u \in UBAS : ubaACK(u)
  BY <1>1, <1>2 DEF busACK
<1>4. \A u \in UBAS : ubaDATA(u) = <<u, "WRU">>
  BY <1>1, CycleParts DEF ubaDATA
<1>5. Lowest({u \in UBAS : ubaACK(u)}) \in UBAS
  BY <1>3, LowestIn
<1>6. cpuDATA = ubaDATA(Lowest({u \in UBAS : ubaACK(u)}))
  BY <1>1, <1>2, <1>3 DEF cpuDATA, busDATA
<1>7. QED
  BY <1>4, <1>5, <1>6

LEMMA RamCycle ==
    ASSUME NEW c \in CpuCycles, c.what = "RAM"
    PROVE  c = IF c.op = "rd" THEN Ram("rd") ELSE Ram("wr")
<1>1. c \in Cycle /\ c.op \in {"rd", "wr"} /\ c.unit = 0
  BY CyclesAssumption DEF Cycle, Ops
<1>2. QED
  BY <1>1 DEF Cycle, Ram

LEMMA CycleStep ==
    ASSUME TypeOK, NxmInv, AckInv, AbsentInv, CycleAt, Next
    PROVE  CycleAt'
<1>1. MicroNext /\ vma \in Cycle /\ cmd \in Cycle
  BY DEF Next, TypeOK, MicroTypeOK
<1>2. CASE ~clken
  BY <1>1, <1>2 DEF MicroNext, CycleAt
<1>3. CASE clken /\ uRun
  <2>1. vma = Idle
    BY <1>3 DEF uRun, AckInv, MicroAt, VmaAt
  <2>2. ASSUME NEW c \in CpuCycles, c.what = "RAM", RamStart(c) PROVE CycleAt'
    <3>1. c = IF c.op = "rd" THEN Ram("rd") ELSE Ram("wr")
      BY <2>2, RamCycle
    <3>2. Ram("rd").op = "rd" /\ Ram("wr").op = "wr" /\ c.what = "RAM"
      BY <2>2, CycleParts
    <3>3. /\ cmd' = c /\ vma' = c
          /\ upc' \in {"PRE", IF c.op = "rd" THEN "MEMREAD" ELSE "MEMWRITE"}
      BY <2>2 DEF RamStart, Start
    <3>4. QED
      BY <3>1, <3>2, <3>3 DEF CycleAt
  <2>3. ASSUME NEW c \in CpuCycles, c.what \in {"CIR", "WRU"},
               cmd' = c, upc' = "CALL", UNCHANGED <<sc, vma>>
        PROVE  CycleAt'
    BY <2>1, <2>3 DEF CycleAt
  <2>4. QED
    BY <1>3, <2>2, <2>3 DEF uRun, Loop, CycleAt
<1>4. CASE clken /\ (uPre \/ uMemRead \/ uChain \/ uMemWrite)
  BY <1>4, CycleParts DEF uPre, uMemRead, uChain, uMemWrite, Loop, Finish, Start, CycleAt
<1>5. CASE clken /\ (uIoClr \/ uIoWrite \/ uIoWait \/ uIow1 \/ uIow1n \/ uIow3 \/ uIow5)
  BY <1>5 DEF uIoClr, uIoWrite, uIoWait, uIow1, uIow1n, uIow3, uIow5, Start, Finish, Loop, CycleAt
<1>6. CASE clken /\ (uIow2 \/ uIow4)
  <2>1. upc' \in {"RUN", "MEMREAD", "IOW3"}
    BY <1>6 DEF uIow2, uIow4, IoReturn, Loop
  <2>2. upc' = "MEMREAD" => cmd.op = "rd" /\ UNCHANGED <<cmd, vma>> /\ cmd.what # "NXD"
    BY <1>6, AbsentBusy DEF uIow2, uIow4, IoReturn, Loop
  <2>3. /\ cmd.op = "rd" => vma = cmd
        /\ cmd.what \notin {"WRU", "VECT"}
    BY <1>6 DEF uIow2, uIow4, AckInv, MicroAt, VmaAt, InWait, InIO, Vectors
  <2>4. QED
    BY <2>1, <2>2, <2>3 DEF CycleAt
<1>7. CASE clken /\ (uCall \/ uStrtIo)
  <2>1. upc \in {"CALL", "STRTIO"} /\ cmd' = cmd
    BY <1>7 DEF uCall, uStrtIo, Loop, Start
  <2>2. cmd.what \in {"CIR", "VECT"} \/ cmd = Wru
    BY <2>1 DEF AckInv, MicroAt, CallAt
  <2>3. QED
    BY <1>7, <2>1, <2>2, CycleParts DEF uCall, uStrtIo, Loop, Start, CycleAt
<1>8. CASE clken /\ uWruRead
  <2>1. vma = Wru
    BY <1>8 DEF uWruRead, AckInv, MicroAt, VmaAt
  <2>2. vma'.what = "WRU"
    BY <1>8, <2>1, CycleParts DEF uWruRead, Wru
  <2>3. upc' = "CALL" => cmd' = Vect(cpuDATA[1]) /\ cpuDATA[1] \in UBAS
    BY <1>8, <2>1, WruNames DEF uWruRead
  <2>4. upc' \in {"CALL", "FETCH"}
    BY <1>8 DEF uWruRead
  <2>5. QED
    BY <2>2, <2>3, <2>4, CycleParts DEF CycleAt
<1>9. CASE clken /\ (uVecRead \/ uFetch)
  BY <1>9, CycleParts DEF uVecRead, uFetch, Finish, Start, CycleAt
<1>10. QED
  BY <1>1, <1>2, <1>3, <1>4, <1>5, <1>6, <1>7, <1>8, <1>9 DEF MicroNext

\* What nxd.v has when the CPU takes the data of a cycle, or goes from the WRU
\* cycle to the vector.
AnswerAt ==
    /\ (upc = "MEMREAD" /\ cmd.what \in Responds) \/ upc = "VECREAD" => nxd \in {"IDLE", "CNT"}
    /\ upc = "MEMREAD" => cmd.what # "MSR"
    /\ (upc \in {"CALL", "STRTIO"} /\ cmd.what = "VECT") =>
          nxd = "ACKWRU" /\ (upc = "CALL" => ~addr3666)
    /\ (upc = "WRUREAD" /\ piUnits # {}) => ~(nxd = "NOACK" /\ wru)

\* Where the microinstructions that take data come from.
LEMMA AnswerFrom ==
    ASSUME AckInv, CycleAt, MicroNext
    PROVE  /\ (upc' = "MEMREAD" /\ cmd'.what \notin {"RAM", "CIR"}) =>
                \/ upc = "MEMREAD" /\ ~clken /\ cmd' = cmd
                \/ upc \in {"IOW2", "IOW4"} /\ clken /\ cmd' = cmd /\ cmd.op = "rd"
           /\ upc' = "VECREAD" =>
                \/ upc = "VECREAD" /\ ~clken
                \/ upc = "STRTIO" /\ cmd.what = "VECT"
           /\ (upc' = "STRTIO" /\ cmd'.what = "VECT") =>
                \/ upc = "STRTIO" /\ ~clken /\ cmd' = cmd
                \/ upc = "CALL" /\ cmd' = cmd
           /\ (upc' = "CALL" /\ cmd'.what = "VECT") =>
                \/ upc = "CALL" /\ ~clken /\ cmd' = cmd
                \/ upc = "WRUREAD" /\ clken /\ cpuDATA[2] = "WRU"
           /\ upc' = "WRUREAD" =>
                \/ upc = "WRUREAD" /\ ~clken
                \/ upc = "STRTIO" /\ cmd = Wru
<1>1. CASE ~clken
  BY <1>1 DEF MicroNext
<1>2. CASE clken /\ (uRun \/ uPre \/ uMemRead \/ uChain \/ uMemWrite)
  BY <1>2, CycleParts DEF uRun, RamStart, uPre, uMemRead, uChain, uMemWrite, Loop, Finish, Start,
     CycleAt
<1>3. CASE clken /\ (uIoClr \/ uIoWrite \/ uIoWait \/ uIow1 \/ uIow1n \/ uIow3 \/ uIow5)
  BY <1>3 DEF uIoClr, uIoWrite, uIoWait, uIow1, uIow1n, uIow3, uIow5, Start, Finish, Loop
<1>4. CASE clken /\ (uIow2 \/ uIow4)
  BY <1>4 DEF uIow2, uIow4, IoReturn, Loop
<1>5. CASE clken /\ uCall
  BY <1>5 DEF uCall, Loop
<1>6. CASE clken /\ uStrtIo
  <2>1. cmd.what \in {"CIR", "VECT"} \/ cmd = Wru
    BY <1>6 DEF uStrtIo, AckInv, MicroAt, CallAt
  <2>2. QED
    BY <1>6, <2>1, CycleParts DEF uStrtIo, Start
<1>7. CASE clken /\ (uWruRead \/ uVecRead \/ uFetch)
  BY <1>7, CycleParts DEF uWruRead, uVecRead, uFetch, Start, Finish
<1>8. QED
  BY <1>1, <1>2, <1>3, <1>4, <1>5, <1>6, <1>7 DEF MicroNext

\* The read of a register or a device comes out of its wait with nxd.v idle.
LEMMA ReadComes ==
    ASSUME Timely, TypeOK, TypeOK', NxmInv, AckInv, ProgramInv, AbsentInv, TrapInv, CycleAt, Next,
           upc \in {"IOW2", "IOW4"}, upc' = "MEMREAD", cmd.op = "rd"
    PROVE  cmd.what # "MSR" /\ (cmd.what \in Responds => nxd' = "IDLE")
<1>1. InWait /\ InIO /\ vma = cmd
  BY DEF InWait, InIO, AckInv, MicroAt, VmaAt
<1>2. cmd \in CpuCycles
  BY <1>1 DEF ProgramInv, CmdAt
<1>3. cmd.what # "MSR"
  BY <1>2 DEF Timely, NoStatus
<1>4. ASSUME cmd.what \in Responds PROVE nxd' = "IDLE"
  <2>1. cmd.unit \in UBAS
    BY <1>2, <1>4, CyclesAssumption DEF Responds
  <2>2. Releasing
    BY <1>4 DEF Releasing
  <2>3. Asks(cmd.unit) /\ Follows(upc, nxd, cpuACK, upc', nxd')
    BY <2>1, <2>2, LoopMoves DEF TrapInv
  <2>4. nxd = "IDLE" /\ cpuACK
    BY <2>3 DEF Follows
  <2>5. QED
    BY <2>1, <2>3, <2>4, NxdMoves DEF TrapInv
<1>5. QED
  BY <1>3, <1>4

\* The WRU cycle is acknowledged while nxd.v counts, and its answer keeps
\* nxd.v in ACKWRU until STRTIO starts the cycle of the vector.
LEMMA VectorComes ==
    ASSUME Timely, TypeOK, TypeOK', NxmInv, AckInv, ProgramInv, AbsentInv, TrapInv, CycleAt,
           AnswerAt, Next
    PROVE  /\ (upc = "WRUREAD" /\ clken /\ cpuDATA[2] = "WRU") => nxd' = "ACKWRU" /\ ~addr3666'
           /\ (upc = "CALL" /\ cmd.what = "VECT") =>
                clken /\ upc' = "STRTIO" /\ nxd' = "ACKWRU"
           /\ (upc = "STRTIO" /\ cmd.what = "VECT") => clken /\ nxd' = "IDLE"
<1>1. MicroNext /\ NxdNext
  BY DEF Next
<1>2. ASSUME upc = "WRUREAD", clken, cpuDATA[2] = "WRU"
      PROVE  nxd' = "ACKWRU" /\ ~addr3666'
  <2>1. vma = Wru
    BY <1>2 DEF AckInv, MicroAt, VmaAt
  <2>2. IsIO(vma) /\ vma.what = "WRU" /\ vma.op = "rd" /\ cpuACK
    BY <1>2, <2>1, NoAckNoData, CycleParts DEF IsIO
  <2>3. PICK u \in UBAS : uState[u] = "ACK"
    BY <2>2, IOAcks
  <2>4. u \in piUnits
    BY <2>2, <2>3 DEF AckInv, AckAt, Answers
  <2>5. Asks(u)
    BY <2>2, <2>4 DEF Asks, Answers
  <2>6. nxd = "CNT"
    BY <1>2, <2>3, <2>4 DEF AbsentInv, WruAt, AnswerAt
  <2>7. nxd' = "ACKWRU"
    BY <2>2, <2>5, <2>6, NxdMoves DEF TrapInv
  <2>8. ~addr3666'
    BY <1>1, <1>2, <2>2, IOClock
  <2>9. QED
    BY <2>7, <2>8
<1>3. ASSUME upc \in {"CALL", "STRTIO"}, cmd.what = "VECT"
      PROVE  clken /\ nxd = "ACKWRU"
  <2>1. nxd = "ACKWRU" /\ IsIO(vma)
    BY <1>3 DEF AnswerAt, CycleAt, IsIO
  <2>2. clken
    BY <1>1, <2>1, IOClock DEF ioWAIT
  <2>3. QED
    BY <2>1, <2>2
<1>4. ASSUME upc = "CALL", cmd.what = "VECT"
      PROVE  upc' = "STRTIO" /\ nxd' = "ACKWRU"
  <2>1. clken /\ nxd = "ACKWRU" /\ ~addr3666
    BY <1>3, <1>4 DEF AnswerAt
  <2>2. upc' = "STRTIO"
    BY <1>1, <1>4, <2>1 DEF MicroNext, uRun, uPre, uMemRead, uChain, uMemWrite, uIoClr, uIoWrite,
       uIoWait, uIow1, uIow1n, uIow2, uIow3, uIow4, uIow5, uCall, uStrtIo, uWruRead, uVecRead,
       uFetch, Loop
  <2>3. nxd' = "ACKWRU"
    BY <1>1, <2>1 DEF NxdNext, nxdIdle, nxdCount, nxdAckIo1, nxdAcked, nxdNoAck, nxdRelease, NxdTo
  <2>4. QED
    BY <2>2, <2>3
<1>5. ASSUME upc = "STRTIO", cmd.what = "VECT"
      PROVE  nxd' = "IDLE"
  <2>1. nxd = "ACKWRU" /\ addr3666
    BY <1>3, <1>5 DEF AbsentInv, AckedAt
  <2>2. QED
    BY <1>1, <2>1 DEF NxdNext, nxdIdle, nxdCount, nxdAckIo1, nxdAcked, nxdNoAck, nxdRelease, NxdTo
<1>6. QED
  BY <1>2, <1>3, <1>4, <1>5

LEMMA AnswerStep ==
    ASSUME Timely, TypeOK, TypeOK', NxmInv, AckInv, ProgramInv, AbsentInv, TrapInv, CycleAt,
           AnswerAt, Next
    PROVE  AnswerAt'
<1>1. MicroNext /\ NxdNext /\ piUnits' = piUnits
  BY DEF Next
<1>2. ASSUME (upc = "MEMREAD" /\ cmd.what \in Responds) \/ upc = "VECREAD", ~clken
      PROVE  nxd' = "CNT"
  <2>1. PICK u \in UBAS : Asks(u)
    <3>1. CASE upc = "VECREAD"
      BY <3>1, CycleParts DEF CycleAt, Asks, Answers
    <3>2. CASE upc = "MEMREAD"
      <4>1. vma = cmd /\ cmd.op = "rd" /\ vma.what \in {"REG", "DEV"}
        BY <1>2, <3>2 DEF CycleAt, Responds
      <4>2. vma.unit \in UBAS
        BY <4>1, CyclesAssumption DEF ProgramInv, VmaFrom
      <4>3. QED
        BY <4>1, <4>2 DEF Asks, Answers
    <3>3. QED
      BY <1>2, <3>1, <3>2
  <2>2. ioWAIT
    BY <1>1, <1>2, <2>1, AsksFor, IOClock
  <2>3. ~cpuACK /\ nxd \in {"IDLE", "CNT"}
    BY <2>2 DEF ioWAIT, unackedIO
  <2>4. QED
    BY <2>1, <2>3, NxdMoves DEF TrapInv
<1>3. ASSUME (upc' = "MEMREAD" /\ cmd'.what \in Responds) \/ upc' = "VECREAD"
      PROVE  nxd' \in {"IDLE", "CNT"}
  <2>1. \/ upc = "MEMREAD" /\ ~clken /\ cmd' = cmd /\ cmd.what \in Responds
        \/ upc \in {"IOW2", "IOW4"} /\ upc' = "MEMREAD" /\ cmd' = cmd /\ cmd.op = "rd"
             /\ cmd.what \in Responds
        \/ upc = "VECREAD" /\ ~clken
        \/ upc = "STRTIO" /\ cmd.what = "VECT"
    BY <1>1, <1>3, AnswerFrom DEF Responds
  <2>2. QED
    BY <1>2, <2>1, ReadComes, VectorComes
<1>4. upc' = "MEMREAD" => cmd'.what # "MSR"
  <2>1. SUFFICES ASSUME upc' = "MEMREAD", cmd'.what \notin {"RAM", "CIR"}
                 PROVE  cmd'.what # "MSR"
    OBVIOUS
  <2>2. \/ upc = "MEMREAD" /\ cmd' = cmd
        \/ upc \in {"IOW2", "IOW4"} /\ cmd' = cmd /\ cmd.op = "rd"
    BY <1>1, <2>1, AnswerFrom
  <2>3. QED
    BY <2>1, <2>2, ReadComes DEF AnswerAt
<1>5. ASSUME upc' = "CALL", cmd'.what = "VECT"
      PROVE  nxd' = "ACKWRU" /\ ~addr3666'
  <2>1. upc # "CALL"
    BY <1>1, <1>5, AnswerFrom, VectorComes
  <2>2. QED
    BY <1>1, <1>5, <2>1, AnswerFrom, VectorComes
<1>6. ASSUME upc' = "STRTIO", cmd'.what = "VECT"
      PROVE  nxd' = "ACKWRU"
  BY <1>1, <1>6, AnswerFrom, VectorComes
<1>7. ASSUME upc' = "WRUREAD", piUnits # {}
      PROVE  ~(nxd' = "NOACK" /\ wru')
  <2>1. SUFFICES ASSUME nxd' = "NOACK" PROVE ~wru'
    OBVIOUS
  <2>2. CASE upc = "WRUREAD" /\ ~clken
    <3>1. PICK u \in UBAS : u \in piUnits
      BY <1>7 DEF TypeOK, UbaTypeOK
    <3>2. vma = Wru
      BY <2>2 DEF AckInv, MicroAt, VmaAt
    <3>3. Asks(u)
      BY <3>1, <3>2, CycleParts DEF Asks, Answers
    <3>4. ~(nxd = "CNT" /\ ~cpuACK)
      BY <2>1, <3>3, NxdMoves DEF TrapInv
    <3>5. QED
      BY <1>1, <1>7, <2>1, <2>2, <3>4, NxdFrom DEF AnswerAt
  <2>3. CASE upc = "STRTIO" /\ cmd = Wru
    <3>1. ~IsIO(vma)
      BY <2>3, CycleParts DEF CycleAt, IsIO
    <3>2. nxd # "CNT"
      BY <3>1 DEF AbsentInv, CntAt
    <3>3. QED
      BY <1>1, <2>1, <3>1, <3>2, NxdFrom DEF IsIO
  <2>4. QED
    BY <1>1, <1>7, <2>2, <2>3, AnswerFrom
<1>8. QED
  BY <1>1, <1>3, <1>4, <1>5, <1>6, <1>7 DEF AnswerAt

\* The clock enables the last microinstruction of a memory cycle when the CPU
\* has the bus, and memory answers then.
LEMMA RamData ==
    ASSUME NxmInv, AckInv, vma.what = "RAM", vma.op # "none", clken
    PROVE  Owner = "cpu" /\ BusCycle = vma /\ cpuDATA = ram
<1>1. ~IsIO(vma) /\ cpuREQ
  BY DEF IsIO, cpuREQ
<1>2. cpuACK
  BY <1>1 DEF clken, memWAIT
<1>3. Owner = "cpu" /\ BusCycle = vma
  BY <1>2, Owners DEF cpuACK, AckInv
<1>4. memACK
  BY <1>3 DEF memACK
<1>5. QED
  BY <1>3, <1>4 DEF cpuDATA, busDATA

\* An acknowledge brings the data of the register or the vector addressed: the
\* device multiplexer of an adapter has no request of its own while the CPU
\* owns the bus.
LEMMA UnitData ==
    ASSUME TypeOK, AckInv, ProgramInv, NEW u \in UBAS, Asks(u), vma.what # "WRU", cpuACK
    PROVE  Owner = "cpu" /\ ubaACK(u) /\ cpuDATA = DataOf(vma)
<1>1. vma.op # "none" /\ vma.unit = u /\ vma.what \in {"REG", "DEV", "VECT"}
  BY DEF Asks, Answers
<1>2. Owner = "cpu" /\ uState[u] = "ACK" /\ BusCycle = vma /\ ubaREQ
  BY AsksTurn, Owners DEF AckInv, ubaREQ
<1>3. ubaACK(u)
  BY <1>2 DEF ubaACK
<1>4. Lowest({v \in UBAS : ubaACK(v)}) = u
  <2>1. \A v \in UBAS : ubaACK(v) => v = u
    BY <1>1 DEF ubaACK, AckInv, AckAt, IsIO, Answers
  <2>2. Lowest({v \in UBAS : ubaACK(v)}) \in {v \in UBAS : ubaACK(v)}
    BY <1>3, LowestIn
  <2>3. QED
    BY <2>1, <2>2
<1>5. u \notin dmaREQ
  BY <1>2 DEF Owner
<1>6. ubaDATA(u) = DataOf(vma)
  BY <1>1, <1>2, <1>5 DEF ubaDATA, Addressed, DataOf
<1>7. ~memACK
  BY <1>1, <1>2 DEF memACK
<1>8. cpuDATA = ubaDATA(Lowest({v \in UBAS : ubaACK(v)}))
  BY <1>2, <1>3, <1>7 DEF cpuDATA, busDATA
<1>9. QED
  BY <1>2, <1>3, <1>4, <1>6, <1>8

\* While nxd.v waits, the clock is enabled by the acknowledge only.
LEMMA UnitClock ==
    ASSUME TypeOK, NxmInv, AckInv, NEW u \in UBAS, Asks(u), clken, nxd \in {"IDLE", "CNT"}
    PROVE  cpuACK
<1>1. IsIO(vma) /\ cpuREQ
  BY AsksFor
<1>2. QED
  BY <1>1 DEF clken, ioWAIT, unackedIO

LEMMA ReadRight ==
    ASSUME TypeOK, NxmInv, AckInv, TrapInv, CycleAt, AnswerAt,
           upc \in {"MEMREAD", "CHAIN", "VECREAD"}, clken, cmd.what # "CIR"
    PROVE  Target(cmd, cpuDATA)
<1>1. vma = cmd /\ cmd \in Cycle
  BY DEF CycleAt, TypeOK, MicroTypeOK
<1>2. CASE cmd.what = "RAM"
  <2>1. vma.op # "none"
    BY <1>1, <1>2, CycleParts DEF CycleAt
  <2>2. QED
    BY <1>1, <1>2, <2>1, RamData DEF Target
<1>3. CASE cmd.what \in {"REG", "DEV", "VECT"}
  <2>1. cmd.op = "rd"
    BY <1>3, CycleParts DEF CycleAt
  <2>2. cmd.unit \in UBAS
    BY <1>1, <1>3, CyclesAssumption, CycleParts DEF CycleAt, TrapInv, ProgramInv, VmaFrom
  <2>3. Asks(cmd.unit) /\ vma.what # "WRU"
    BY <1>1, <1>3, <2>1 DEF Asks, Answers
  <2>4. nxd \in {"IDLE", "CNT"}
    BY <1>3, CycleParts DEF AnswerAt, Responds, CycleAt
  <2>5. cpuDATA = DataOf(vma)
    BY <2>2, <2>3, <2>4, UnitClock, UnitData DEF TrapInv
  <2>6. QED
    BY <1>1, <1>3, <2>5 DEF Target
<1>4. cmd.what \notin {"NXD", "WRU", "MSR"}
  BY CycleParts DEF CycleAt, AnswerAt
<1>5. QED
  BY <1>1, <1>2, <1>3, <1>4 DEF Cycle, Whats

LEMMA WriteRight ==
    ASSUME Timely, TypeOK, NxmInv, AckInv, TrapInv, CycleAt, RamNext,
           upc \in {"MEMWRITE", "IOWRITE"}, clken, cmd.what # "NXD"
    PROVE  IF cmd.what = "RAM" THEN ram' = <<0, "cpu">>
           ELSE Owner = "cpu" /\ ubaACK(cmd.unit)
<1>1. CASE upc = "MEMWRITE"
  <2>1. vma = cmd /\ cmd = Ram("wr")
    BY <1>1 DEF CycleAt
  <2>2. Owner = "cpu" /\ BusCycle = Ram("wr")
    BY <2>1, RamData, CycleParts
  <2>3. QED
    BY <1>1, <2>1, <2>2, CycleParts DEF RamNext
<1>2. CASE upc = "IOWRITE"
  <2>1. vma = cmd /\ cmd \in CpuCycles /\ InIO
    BY <1>2 DEF InIO, TrapInv, ProgramInv, CmdAt, AckInv, MicroAt, VmaAt
  <2>2. cmd \in Cycle /\ cmd.what \notin {"RAM", "CIR", "WRU", "VECT", "MSR", "NXD"}
    BY <2>1, CyclesAssumption DEF TrapInv, ProgramInv, CmdAt, Timely, NoStatus
  <2>3. cmd.what \in {"REG", "DEV"}
    BY <2>2 DEF Cycle, Whats
  <2>4. cmd.unit \in UBAS /\ cmd.op # "none"
    BY <2>1, <2>3, CyclesAssumption
  <2>5. Asks(cmd.unit) /\ vma.what # "WRU"
    BY <2>1, <2>3, <2>4 DEF Asks, Answers
  <2>6. nxd \in {"IDLE", "CNT"}
    BY <1>2, <2>1, <2>3 DEF TrapInv, WaitAt, Responds
  <2>7. QED
    BY <2>3, <2>4, <2>5, <2>6, UnitClock, UnitData DEF TrapInv
<1>3. QED
  BY <1>1, <1>2

\* The invariant of the data, with all that it rests on.
DataInv == CycleAt /\ AnswerAt
BusInv == TypeOK /\ NxmInv /\ AckInv /\ AbsentInv /\ TrapInv /\ DataInv

LEMMA BusInit == Init => BusInv
<1> SUFFICES ASSUME Init PROVE BusInv
  OBVIOUS
<1>1. TypeOK /\ NxmInv /\ AckInv /\ AbsentInv /\ TrapInv
  BY InitType, AckInit, AbsentInit, TrapInit DEF Init, NxmInv
<1>2. upc = "RUN"
  BY DEF Init
<1>3. DataInv
  BY <1>2 DEF DataInv, CycleAt, AnswerAt
<1>4. QED
  BY <1>1, <1>3 DEF BusInv

LEMMA BusInductive ==
    ASSUME Timely, BusInv, [Next]_vars
    PROVE  BusInv'
<1>1. TypeOK /\ NxmInv /\ AckInv /\ AbsentInv /\ TrapInv /\ CycleAt /\ AnswerAt
  BY DEF BusInv, DataInv
<1>2. TypeOK' /\ NxmInv' /\ AckInv' /\ AbsentInv'
  BY <1>1, NextType, NxmStep, AckInductive, AbsentInductive DEF Timely
<1>3. TrapInv'
  BY <1>1, <1>2, TrapInductive
<1>4. CASE Next
  BY <1>1, <1>2, <1>3, <1>4, CycleStep, AnswerStep DEF BusInv, DataInv, TrapInv
<1>5. CASE UNCHANGED vars
  <2>1. UNCHANGED <<upc, cmd, vma, addr3666, nxd, wru, piUnits>>
    BY <1>5 DEF vars, cpuVars, ubaVars
  <2>2. CycleAt' /\ AnswerAt'
    BY <1>1, <2>1 DEF CycleAt, AnswerAt
  <2>3. QED
    BY <1>2, <1>3, <2>2 DEF BusInv, DataInv
<1>6. QED
  BY <1>4, <1>5

\* The last microinstruction of a read waits for the acknowledge, and has the
\* data of the unit that the instruction, or the answer to WRU, named.
THEOREM ReadsAlways ==
    ASSUME Timely
    PROVE  Spec => CpuReads
<1>1. Init => BusInv
  BY BusInit
<1>2. BusInv /\ [Next]_vars => BusInv'
  BY BusInductive
<1>3. BusInv /\ [Next]_vars
        => [(upc \in {"MEMREAD", "CHAIN", "VECREAD"} /\ clken /\ cmd.what # "CIR")
              => Target(cmd, cpuDATA)]_vars
  BY ReadRight DEF BusInv, DataInv
<1>4. QED
  BY <1>1, <1>2, <1>3, PTL DEF Spec, CpuReads

\* The last microinstruction of a write leaves only when memory takes the
\* word, or the adapter acknowledges it.
THEOREM WritesAlways ==
    ASSUME Timely
    PROVE  Spec => CpuWrites
<1>1. Init => BusInv
  BY BusInit
<1>2. BusInv /\ [Next]_vars => BusInv'
  BY BusInductive
<1>3. BusInv /\ [Next]_vars
        => [(upc \in {"MEMWRITE", "IOWRITE"} /\ clken /\ cmd.what # "NXD")
              => (IF cmd.what = "RAM" THEN ram' = <<0, "cpu">>
                  ELSE Owner = "cpu" /\ ubaACK(cmd.unit))]_vars
  <2>1. SUFFICES ASSUME BusInv, Next, upc \in {"MEMWRITE", "IOWRITE"}, clken, cmd.what # "NXD"
                 PROVE  IF cmd.what = "RAM" THEN ram' = <<0, "cpu">>
                        ELSE Owner = "cpu" /\ ubaACK(cmd.unit)
    OBVIOUS
  <2>2. QED
    BY <2>1, WriteRight DEF BusInv, DataInv, Next
<1>4. QED
  BY <1>1, <1>2, <1>3, PTL DEF Spec, CpuWrites

-----------------------------------------------------------------------------
(* One strobe for one instruction.                                         *)

\* Without DMA nobody takes the bus from a device read, and the microcode
\* holds it from the start of the wait to the last microinstruction.
LEMMA PopEnds ==
    ASSUME Timely, DmaUnits = {}, BusInv, Next, NEW u \in UBAS, Popping(u), ~Popping(u)'
    PROVE  upc = "MEMREAD" /\ upc' = "RUN"
<1>1. EpiWrite /\ CslNext /\ MicroNext
  BY DEF Next
<1>2. AckInv /\ TrapInv /\ CycleAt
  BY DEF BusInv, DataInv
<1>3. Owner = "cpu" /\ vma = [op |-> "rd", unit |-> u, what |-> "DEV"]
  BY <1>2, Owners DEF Popping, AckInv
<1>4. vma.op = "rd" /\ vma.what = "DEV"
  BY <1>3
<1>5. ~cslREQ'
  BY <1>1, <1>2, <1>3, <1>4, CslStep DEF Timely, AckInv, IsIO
<1>6. vma' # vma
  <2>1. SUFFICES ASSUME vma' = vma PROVE FALSE
    OBVIOUS
  <2>2. cpuREQ' /\ dmaREQ' = {}
    BY <1>4, <2>1 DEF cpuREQ, dmaREQ
  <2>3. Owner' = "cpu"
    BY <1>5, <2>2 DEF Owner
  <2>4. BusCycle' = vma'
    BY <2>3 DEF BusCycle
  <2>5. QED
    BY <1>3, <2>1, <2>3, <2>4 DEF Popping
<1>7. upc = "MEMREAD" \/ (InWait /\ vma = cmd)
  <2>1. upc \in Micro
    BY DEF BusInv, TypeOK, MicroTypeOK
  <2>2. upc \notin {"RUN", "IOCLR", "IOWRITE", "WRUREAD", "VECREAD", "FETCH"}
    BY <1>2, <1>4, CycleParts DEF AckInv, MicroAt, VmaAt
  <2>3. upc \notin {"PRE", "CHAIN", "MEMWRITE", "CALL", "STRTIO"}
    BY <1>2, <1>4, CycleParts DEF CycleAt
  <2>4. InWait => vma = cmd
    BY <1>2, <1>4, CycleParts DEF AckInv, MicroAt, VmaAt
  <2>5. QED
    BY <2>1, <2>2, <2>3, <2>4 DEF Micro, InWait
<1>8. ~InWait
  <2>1. SUFFICES ASSUME InWait PROVE FALSE
    OBVIOUS
  <2>2. cmd.what \in Responds /\ InIO
    BY <1>4, <1>7, <2>1 DEF Responds, InIO, InWait
  <2>3. upc # "IOW5"
    BY <1>2, <2>2 DEF TrapInv, WaitAt
  <2>4. vma' = vma
    BY <1>1, <2>1, <2>3 DEF MicroNext, InWait, uRun, uPre, uMemRead, uChain, uMemWrite, uIoClr,
       uIoWrite, uIoWait, uIow1, uIow1n, uIow2, uIow3, uIow4, uIow5, uCall, uStrtIo, uWruRead,
       uVecRead, uFetch, Loop, IoReturn
  <2>5. QED
    BY <1>6, <2>4
<1>9. upc = "MEMREAD"
  BY <1>7, <1>8
<1>10. cmd.what = "DEV"
  BY <1>2, <1>4, <1>9 DEF CycleAt
<1>11. uMemRead
  BY <1>1, <1>6, <1>9 DEF MicroNext, uRun, uPre, uChain, uMemWrite, uIoClr, uIoWrite, uIoWait,
     uIow1, uIow1n, uIow2, uIow3, uIow4, uIow5, uCall, uStrtIo, uWruRead, uVecRead, uFetch
<1>12. QED
  BY <1>9, <1>10, <1>11 DEF uMemRead, Finish

\* A device is strobed once for each read: a silo is popped when the strobe
\* falls, which is when the instruction ends.
THEOREM PopsOnce ==
    ASSUME Timely, DmaUnits = {}
    PROVE  Spec => PopOnce
<1>1. Init => BusInv
  BY BusInit
<1>2. BusInv /\ [Next]_vars => BusInv'
  BY BusInductive
<1>3. BusInv /\ [Next]_vars
        => [\A u \in UBAS : (Popping(u) /\ ~(Popping(u)'))
              => (upc = "MEMREAD" /\ upc' = "RUN")]_vars
  BY PopEnds
<1>4. QED
  BY <1>1, <1>2, <1>3, PTL DEF Spec, PopOnce

-----------------------------------------------------------------------------
(* The answer to WRU.                                                      *)

\* The console instruction register is not read: when the console takes the
\* bus in the first clock of that read, its acknowledge stays in nxd.v, and
\* the clock of the next WRU cycle does not wait.
NoCir == \A c \in CpuCycles : c.what # "CIR"

\* Without DMA the adapter keeps its acknowledge to the end of a read, and
\* nxd.v has forgotten the last I/O instruction when a WRU cycle starts.
Held == Releasing \/ (upc = "MEMREAD" /\ cmd.what \in Responds)
HeldAt ==
    /\ cmd.what # "CIR"
    /\ Held => Turns(cmd.unit) = 0
    /\ (Releasing /\ upc = "IOW3") => nxd = "ACKIO2"
    /\ (Releasing /\ upc = "IOW4") => nxd = "IDLE"
    /\ (upc = "MEMREAD" /\ cmd.what \in Responds) => nxd = "IDLE"
    /\ nxd \in {"ACKIO1", "ACKIO2"} => upc \in {"IOWAIT", "IOW1", "IOW2", "IOW3"}
    /\ (upc = "WRUREAD" /\ piUnits # {}) => nxd \in {"IDLE", "CNT"}

LEMMA CmdFrom ==
    ASSUME NoCir, AckInv, CycleAt, MicroNext, cmd.what # "CIR"
    PROVE  cmd'.what # "CIR"
<1>1. \/ UNCHANGED cmd \/ cmd' = Idle \/ cmd' \in CpuCycles \/ cmd' = Ram("rd")
      \/ \E u : cmd' = Vect(u)
  BY DEF MicroNext, uRun, RamStart, uPre, uMemRead, uChain, uMemWrite, uIoClr, uIoWrite, uIoWait,
     uIow1, uIow1n, uIow2, uIow3, uIow4, uIow5, uCall, uStrtIo, uWruRead, uVecRead, uFetch,
     Start, Loop, Finish, IoReturn
<1>2. QED
  BY <1>1, CycleParts DEF NoCir

\* While the adapter has its acknowledge and the console has not the bus, the
\* CPU has both.
LEMMA HeldTurn ==
    ASSUME Timely, DmaUnits = {}, TypeOK, AckInv, ProgramInv, Next, NEW u \in UBAS, Asks(u),
           Turns(u) = 0
    PROVE  cpuACK /\ Turns(u)' = 0
<1>1. uState[u] \in {"NULL", "CNT", "ACK", "NXD"}
  BY DEF TypeOK, UbaTypeOK
<1>2. uState[u] \in {"NULL", "ACK"}
  <2>1. ConsoleHas \in {0, 1} /\ ConsoleHas + Left(uState[u]) = 0
    BY DEF Turns, ConsoleHas
  <2>2. uState[u] \in {"CNT", "NXD"} => Left(uState[u]) = 2
    BY DEF Left
  <2>3. QED
    BY <1>1, <2>1, <2>2
<1>3. /\ Turns(u)' \in 0 .. 2
      /\ Owner # "dma" => Turns(u)' = 0 \/ Turns(u)' <= Turns(u) - 1
      /\ (Owner # "dma" /\ ~cpuACK) => Turns(u) # 0
      /\ dmaREQ = {} => Owner # "dma"
  BY <1>2, ReleaseTurns
<1>4. dmaREQ = {}
  BY DEF dmaREQ
<1>5. Turns(u)' = 0 \/ Turns(u)' <= 0 - 1
  BY <1>3, <1>4
<1>6. Turns(u)' = 0
  <2>1. PICK n \in 0 .. 2 : n = Turns(u)'
    BY <1>3
  <2>2. n = 0 \/ n <= 0 - 1
    BY <1>5, <2>1
  <2>3. QED
    BY <2>1, <2>2
<1>7. QED
  BY <1>3, <1>4, <1>6

\* A clock of a read that holds its acknowledge.
LEMMA HeldFrom ==
    ASSUME Timely, DmaUnits = {}, BusInv, TypeOK', HeldAt, Next, Held'
    PROVE  /\ cmd' = cmd /\ Turns(cmd.unit)' = 0
           /\ upc' = "IOW3" => nxd' = "ACKIO2"
           /\ upc' = "IOW4" => nxd' = "IDLE"
           /\ upc' = "MEMREAD" => nxd' = "IDLE"
<1>1. /\ TypeOK /\ NxmInv /\ AckInv /\ AbsentInv /\ TrapInv /\ CycleAt /\ AnswerAt
      /\ ProgramInv /\ InTime /\ WaitAt /\ ReleaseAt
  BY DEF BusInv, DataInv, TrapInv
<1>2. MicroNext
  BY DEF Next
<1>3. ASSUME Releasing
      PROVE  /\ \E u \in UBAS : cmd.unit = u /\ Turns(u)' = 0
             /\ cpuACK /\ Follows(upc, nxd, cpuACK, upc', nxd')
  <2>1. InIO /\ cmd.what \in {"REG", "DEV"}
    BY <1>3 DEF Releasing, Responds, InIO, InWait
  <2>2. PICK u \in UBAS : cmd.unit = u
    BY <1>1, <2>1, CyclesAssumption DEF ProgramInv, CmdAt
  <2>3. Asks(u) /\ Follows(upc, nxd, cpuACK, upc', nxd')
    BY <1>1, <1>3, <2>2, LoopMoves
  <2>4. Turns(u) = 0
    BY <1>3, <2>2 DEF HeldAt, Held
  <2>5. cpuACK /\ Turns(u)' = 0
    BY <1>1, <2>3, <2>4, HeldTurn
  <2>6. QED
    BY <2>2, <2>3, <2>5 DEF Turns
<1>4. CASE Releasing'
  <2>1. /\ cmd' = cmd /\ cmd.unit \in UBAS
        /\ Releasing \/ (upc = "IOWAIT" /\ upc' = "IOW1" /\ Asks(cmd.unit) /\ cpuACK)
    BY <1>1, <1>4, ReleaseFrom
  <2>2. upc' # "MEMREAD"
    BY <1>4 DEF Releasing
  <2>3. CASE Releasing
    <3>1. cpuACK /\ Follows(upc, nxd, cpuACK, upc', nxd')
      BY <1>3, <2>3
    <3>2. /\ upc = "IOW3" => nxd = "ACKIO2"
          /\ upc = "IOW4" => nxd = "IDLE"
      BY <2>3 DEF HeldAt
    <3>3. Turns(cmd.unit)' = 0
      BY <1>3, <2>1, <2>3 DEF Turns
    <3>4. QED
      BY <2>1, <2>2, <3>1, <3>2, <3>3 DEF Follows
  <2>4. CASE upc = "IOWAIT" /\ upc' = "IOW1" /\ Asks(cmd.unit) /\ cpuACK
    <3>1. PICK u \in UBAS : cmd.unit = u
      BY <2>1
    <3>2. uState[u] = "ACK"
      BY <1>1, <2>4, <3>1, AsksTurn
    <3>3. Turns(u)' = 0
      BY <1>1, <2>4, <3>1, <3>2, ReleaseTurns
    <3>4. QED
      BY <2>1, <2>4, <3>1, <3>3 DEF Turns
  <2>5. QED
    BY <2>1, <2>3, <2>4
<1>5. CASE (upc = "MEMREAD" /\ cmd.what \in Responds)'
  <2>1. \/ upc = "MEMREAD" /\ ~clken /\ cmd' = cmd
        \/ upc \in {"IOW2", "IOW4"} /\ clken /\ cmd' = cmd /\ cmd.op = "rd"
    BY <1>1, <1>2, <1>5, AnswerFrom DEF Responds
  <2>2. cmd.what \in {"REG", "DEV"}
    BY <1>5, <2>1 DEF Responds
  <2>3. upc # "MEMREAD"
    <3>1. SUFFICES ASSUME upc = "MEMREAD" PROVE FALSE
      OBVIOUS
    <3>2. vma = cmd /\ cmd.op = "rd" /\ ~clken
      BY <1>1, <2>1, <2>2, <3>1 DEF CycleAt
    <3>3. PICK u \in UBAS : cmd.unit = u
      BY <1>1, <2>2, <3>2, CyclesAssumption DEF ProgramInv, VmaFrom
    <3>4. Asks(u) /\ Turns(u) = 0
      BY <2>2, <3>1, <3>2, <3>3 DEF Asks, Answers, HeldAt, Held, Responds
    <3>5. cpuACK
      BY <1>1, <3>4, HeldTurn
    <3>6. IsIO(vma)
      BY <1>1, <3>4, AsksFor
    <3>7. QED
      BY <1>1, <1>2, <3>2, <3>5, <3>6, IOClock DEF ioWAIT, unackedIO
  <2>4. Releasing /\ cmd.op = "rd" /\ upc \in {"IOW2", "IOW4"} /\ cmd' = cmd
    BY <2>1, <2>2, <2>3 DEF Releasing, Responds
  <2>5. nxd' = "IDLE"
    BY <1>1, <1>5, <2>2, <2>4, ReadComes DEF Responds
  <2>6. Turns(cmd.unit)' = 0
    BY <1>3, <2>4 DEF Turns
  <2>7. QED
    BY <1>5, <2>4, <2>5, <2>6
<1>6. QED
  BY <1>4, <1>5 DEF Held

\* Where the states of nxd.v after an acknowledge come from.
LEMMA AckedFrom ==
    ASSUME NxdNext
    PROVE  /\ nxd' = "ACKIO1" => nxd = "CNT" /\ cpuACK /\ ~wru /\ ~vect
           /\ nxd' = "ACKIO2" => nxd = "ACKIO1" \/ (nxd = "ACKIO2" /\ ~ioCLEAR)
<1> USE DEF NxdTo
<1>1. CASE nxdIdle
  BY <1>1, Zenon DEF nxdIdle
<1>2. CASE nxdCount
  BY <1>2 DEF nxdCount
<1>3. CASE nxdAckIo1
  BY <1>3 DEF nxdAckIo1
<1>4. CASE nxdAcked
  BY <1>4 DEF nxdAcked, nxdRelease
<1>5. CASE nxdNoAck
  BY <1>5 DEF nxdNoAck
<1>6. QED
  BY <1>1, <1>2, <1>3, <1>4, <1>5 DEF NxdNext

\* The acknowledge of an I/O instruction comes at the start of its wait, and
\* is released in it.
LEMMA HeldAcked ==
    ASSUME Timely, BusInv, HeldAt, Next, nxd' \in {"ACKIO1", "ACKIO2"}
    PROVE  upc' \in {"IOWAIT", "IOW1", "IOW2", "IOW3"}
<1>1. /\ TypeOK /\ NxmInv /\ AckInv /\ AbsentInv /\ TrapInv /\ CycleAt /\ AnswerAt
      /\ ProgramInv /\ WaitAt
  BY DEF BusInv, DataInv, TrapInv
<1>2. MicroNext /\ NxdNext /\ upc \in Micro
  BY <1>1 DEF Next, TypeOK, MicroTypeOK
<1>3. ASSUME InIO, cmd.what # "NXD" PROVE cmd.what \in Responds
  <2>1. cmd \in CpuCycles /\ cmd.what \notin {"RAM", "CIR", "WRU", "VECT"}
    BY <1>1, <1>3 DEF ProgramInv, CmdAt
  <2>2. cmd.what # "MSR"
    BY <2>1 DEF Timely, NoStatus
  <2>3. cmd.what \in Whats
    BY <1>1 DEF TypeOK, MicroTypeOK, Cycle
  <2>4. QED
    BY <1>3, <2>1, <2>2, <2>3 DEF Whats, Responds
<1>4. CASE nxd = "CNT" /\ cpuACK /\ ~wru /\ ~vect
  <2>1. IsIO(vma) /\ cpuREQ /\ clken /\ vma.what \notin {"WRU", "VECT"}
    BY <1>1, <1>2, <1>4, AckedClock DEF AbsentInv, CntAt
  <2>2. vma.what # "NXD"
    BY <1>1, <1>4, <2>1, IOAcks
  <2>3. vma.op # "none" /\ vma # Idle
    BY <2>1, CycleParts DEF cpuREQ, IsIO
  <2>4. upc \notin {"RUN", "IOCLR", "WRUREAD", "VECREAD", "FETCH"}
    BY <1>1, <2>1, <2>3, CycleParts DEF AckInv, MicroAt, VmaAt
  <2>5. upc \notin {"PRE", "CHAIN", "MEMWRITE", "CALL", "STRTIO"}
    BY <1>1, <2>1, <2>3, CycleParts DEF CycleAt, IsIO, AckInv, MicroAt, CallAt
  <2>6. upc # "MEMREAD"
    <3>1. SUFFICES ASSUME upc = "MEMREAD" PROVE FALSE
      OBVIOUS
    <3>2. vma = cmd /\ cmd.what \notin {"NXD", "WRU", "VECT", "MSR", "CIR", "RAM"}
      BY <1>1, <2>1, <3>1 DEF CycleAt, AnswerAt, HeldAt, IsIO
    <3>3. cmd.what \in Responds
      BY <1>1, <3>2 DEF TypeOK, MicroTypeOK, Cycle, Whats, Responds
    <3>4. QED
      BY <1>4, <3>1, <3>3 DEF HeldAt
  <2>7. InWait \/ upc = "IOWRITE"
    BY <1>2, <2>4, <2>5, <2>6 DEF Micro, InWait
  <2>8. vma = cmd /\ cmd.what \in Responds
    BY <1>1, <1>3, <2>2, <2>3, <2>7 DEF AckInv, MicroAt, VmaAt, InIO
  <2>9. upc \in {"IOWRITE", "IOWAIT"} /\ busy
    <3>1. InIO
      BY <2>7 DEF InIO
    <3>2. InWait => cmd.op = "rd"
      BY <1>1, <2>3 DEF AckInv, MicroAt, VmaAt
    <3>3. upc \in {"IOW3", "IOW4"} => Releasing
      BY <2>8, <3>2 DEF Releasing, InWait
    <3>4. upc \notin {"IOW3", "IOW4"}
      BY <1>4, <3>3 DEF HeldAt
    <3>5. upc \notin {"IOW1N", "IOW5", "IOW1", "IOW2"}
      BY <1>1, <1>4, <2>8, <3>1, <3>2 DEF WaitAt, InWait
    <3>6. upc \in {"IOWRITE", "IOWAIT"}
      BY <2>7, <3>4, <3>5 DEF InWait
    <3>7. busy
      BY <1>1, <1>4, <2>8, <3>1, <3>2, <3>6 DEF WaitAt, InWait
    <3>8. QED
      BY <3>6, <3>7
  <2>10. upc = "IOWRITE" => upc' = "IOWAIT"
    BY <1>2, <2>1, WaitMicro DEF uIoWrite, Finish
  <2>11. upc = "IOWAIT" => upc' = "IOW1"
    BY <1>2, <2>1, <2>9, WaitMicro DEF uIoWait, ioBUSY
  <2>12. QED
    BY <2>9, <2>10, <2>11
<1>5. CASE nxd = "ACKIO1" \/ (nxd = "ACKIO2" /\ ~ioCLEAR)
  <2>1. upc \in {"IOWAIT", "IOW1", "IOW2", "IOW3"}
    BY <1>5 DEF HeldAt
  <2>2. InWait /\ InIO
    BY <2>1 DEF InWait, InIO
  <2>3. cmd.what # "NXD"
    BY <1>1, <1>5, <2>2 DEF AbsentInv, AbsentAt
  <2>4. cmd.what \in Responds
    BY <1>3, <2>2, <2>3
  <2>5. upc # "IOW3"
    <3>1. SUFFICES ASSUME upc = "IOW3" PROVE FALSE
      OBVIOUS
    <3>2. nxd = "ACKIO1" /\ cmd.op = "rd"
      BY <1>1, <1>5, <2>2, <2>4, <3>1 DEF WaitAt, ioCLEAR
    <3>3. QED
      BY <2>4, <3>1, <3>2 DEF HeldAt, Releasing
  <2>6. /\ upc = "IOWAIT" => busy
        /\ upc = "IOW2" => busy
    BY <1>1, <1>5, <2>2, <2>4 DEF WaitAt
  <2>7. clken
    BY <1>1, <1>2, <1>5, <2>2, WaitClock
  <2>8. /\ upc = "IOWAIT" => upc' = "IOW1"
        /\ upc = "IOW1" => upc' = "IOW2"
        /\ upc = "IOW2" => upc' = "IOW3"
    BY <1>2, <2>6, <2>7, WaitMicro DEF uIoWait, uIow1, uIow2, ioBUSY, Loop
  <2>9. QED
    BY <2>1, <2>5, <2>8
<1>6. QED
  BY <1>2, <1>4, <1>5, AckedFrom

\* nxd.v is idle, or counts, when the CPU waits for the answer to WRU.
LEMMA HeldWru ==
    ASSUME Timely, BusInv, TypeOK', HeldAt, Next, upc' = "WRUREAD", piUnits # {}
    PROVE  nxd' \in {"IDLE", "CNT"}
<1>1. /\ TypeOK /\ NxmInv /\ AckInv /\ AbsentInv /\ TrapInv /\ CycleAt /\ AnswerAt
      /\ ProgramInv /\ InTime
  BY DEF BusInv, DataInv, TrapInv
<1>2. MicroNext /\ NxdNext
  BY DEF Next
<1>3. CASE upc = "WRUREAD" /\ ~clken
  <2>1. PICK u \in UBAS : u \in piUnits
    BY <1>1 DEF TypeOK, UbaTypeOK
  <2>2. vma = Wru
    BY <1>1, <1>3 DEF AckInv, MicroAt, VmaAt
  <2>3. Asks(u)
    BY <2>1, <2>2, CycleParts DEF Asks, Answers
  <2>4. ioWAIT
    BY <1>1, <1>2, <1>3, <2>3, AsksFor, IOClock
  <2>5. nxd' = "CNT"
    BY <1>1, <2>3, <2>4, NxdMoves DEF ioWAIT, unackedIO
  <2>6. QED
    BY <2>5
<1>4. CASE upc = "STRTIO" /\ cmd = Wru
  <2>1. vma = Idle /\ ~IsIO(vma) /\ vma.what = "RAM"
    BY <1>1, <1>4, CycleParts DEF CycleAt, IsIO
  <2>2. nxd \notin {"CNT", "ACKIO1", "ACKIO2", "ACKVEC"} /\ (nxd = "ACKWRU" => addr3666)
    BY <1>1, <1>4, <2>1 DEF AbsentInv, CntAt, AckedAt, HeldAt
  <2>3. nxd \in NxdStates
    BY <1>1 DEF TypeOK, WaitTypeOK
  <2>4. CASE nxd = "IDLE"
    BY <1>2, <2>1, <2>4, NxdAfter DEF unackedIO
  <2>5. CASE nxd = "ACKWRU"
    BY <1>2, <2>2, <2>5 DEF NxdNext, nxdIdle, nxdCount, nxdAckIo1, nxdAcked, nxdNoAck, nxdRelease,
       NxdTo
  <2>6. CASE nxd = "NOACK"
    BY <1>2, <2>1, <2>6 DEF NxdNext, nxdIdle, nxdCount, nxdAckIo1, nxdAcked, nxdNoAck, NxdTo
  <2>7. QED
    BY <2>2, <2>3, <2>4, <2>5, <2>6 DEF NxdStates
<1>5. QED
  BY <1>1, <1>2, <1>3, <1>4, AnswerFrom

LEMMA HeldInductive ==
    ASSUME Timely, NoCir, DmaUnits = {}, BusInv, TypeOK', HeldAt, [Next]_vars
    PROVE  HeldAt'
<1>1. CASE Next
  <2>1. cmd'.what # "CIR"
    BY <1>1, CmdFrom DEF Next, BusInv, DataInv, HeldAt
  <2>2. Held' => /\ cmd' = cmd /\ Turns(cmd.unit)' = 0
                 /\ upc' = "IOW3" => nxd' = "ACKIO2"
                 /\ upc' = "IOW4" => nxd' = "IDLE"
                 /\ upc' = "MEMREAD" => nxd' = "IDLE"
    BY <1>1, HeldFrom
  <2>3. nxd' \in {"ACKIO1", "ACKIO2"} => upc' \in {"IOWAIT", "IOW1", "IOW2", "IOW3"}
    BY <1>1, HeldAcked
  <2>4. (upc' = "WRUREAD" /\ piUnits' # {}) => nxd' \in {"IDLE", "CNT"}
    BY <1>1, HeldWru DEF Next
  <2>5. Held' <=> Releasing' \/ (upc' = "MEMREAD" /\ cmd'.what \in Responds)
    BY DEF Held
  <2>6. QED
    BY <2>1, <2>2, <2>3, <2>4, <2>5 DEF HeldAt
<1>2. CASE UNCHANGED vars
  <2>1. UNCHANGED <<upc, cmd, nxd, piUnits, uState, csState>>
    BY <1>2 DEF vars, cslVars, cpuVars, ubaVars
  <2>2. QED
    BY <2>1 DEF HeldAt, Held, Releasing, Turns, ConsoleHas, cslREQ
<1>3. QED
  BY <1>1, <1>2

LEMMA WruRight ==
    ASSUME BusInv, HeldAt, upc = "WRUREAD", clken
    PROVE  cpuDATA = IF piUnits = {} THEN Zero ELSE <<Lowest(piUnits), "WRU">>
<1>1. /\ TypeOK /\ NxmInv /\ AckInv /\ ProgramInv
      /\ vma = Wru /\ IsIO(vma) /\ vma.what = "WRU" /\ piUnits \subseteq UBAS
  BY CycleParts DEF BusInv, TrapInv, AckInv, MicroAt, VmaAt, IsIO, TypeOK, UbaTypeOK
<1>2. Owner = "cpu" => BusCycle = vma /\ ubaREQ /\ ~memACK /\ ~cirACK
  BY <1>1, CycleParts, Owners DEF AckInv, ubaREQ, memACK, cirACK
<1>3. CASE piUnits = {}
  <2>1. \A u \in UBAS : uState[u] # "ACK"
    BY <1>1, <1>3 DEF AckInv, AckAt, Answers
  <2>2. \A u \in UBAS : ~ubaACK(u)
    BY <2>1 DEF ubaACK
  <2>3. Owner = "cpu" => busDATA = Zero
    BY <1>2, <2>2 DEF busDATA
  <2>4. QED
    BY <1>3, <2>3 DEF cpuDATA
<1>4. CASE piUnits # {}
  <2>1. nxd \in {"IDLE", "CNT"}
    BY <1>4 DEF HeldAt
  <2>2. \A u \in piUnits : Asks(u)
    BY <1>1, CycleParts DEF Asks, Answers
  <2>3. PICK w \in piUnits : TRUE
    BY <1>4
  <2>4. cpuACK
    BY <1>1, <2>1, <2>2, <2>3, UnitClock
  <2>5. \A u \in piUnits : Owner = "cpu" /\ uState[u] = "ACK"
    BY <1>1, <2>2, <2>4, AsksTurn
  <2>6. Owner = "cpu" /\ ubaREQ
    BY <1>2, <2>3, <2>5
  <2>7. \A u \in UBAS : ubaACK(u) <=> u \in piUnits
    BY <1>1, <2>5, <2>6 DEF ubaACK, AckInv, AckAt, Answers
  <2>8. {u \in UBAS : ubaACK(u)} = piUnits
    BY <1>1, <2>7
  <2>9. \A u : ubaDATA(u) = <<u, "WRU">>
    BY <1>1, <1>2, <2>6, CycleParts DEF ubaDATA
  <2>10. cpuDATA = ubaDATA(Lowest({u \in UBAS : ubaACK(u)}))
    BY <1>1, <1>2, <2>3, <2>6, <2>7 DEF cpuDATA, busDATA
  <2>11. QED
    BY <1>4, <2>8, <2>9, <2>10
<1>5. QED
  BY <1>3, <1>4

\* The WRU cycle waits for the adapters of the level, and takes the number of
\* the one with the highest priority; zero only when there is none.
THEOREM WruAlways ==
    ASSUME Timely, NoCir, DmaUnits = {}
    PROVE  Spec => WruReads
<1>1. Init => BusInv /\ HeldAt
  <2>1. Init => HeldAt
    BY CycleParts DEF Init, HeldAt, Held, Releasing
  <2>2. QED
    BY <2>1, BusInit
<1>2. BusInv /\ HeldAt /\ [Next]_vars => BusInv' /\ HeldAt'
  <2>1. SUFFICES ASSUME BusInv, HeldAt, [Next]_vars PROVE BusInv' /\ HeldAt'
    OBVIOUS
  <2>2. BusInv' /\ TypeOK'
    BY <2>1, BusInductive DEF BusInv
  <2>3. QED
    BY <2>1, <2>2, HeldInductive
<1>3. BusInv /\ HeldAt /\ [Next]_vars
        => [(upc = "WRUREAD" /\ clken)
              => (cpuDATA = IF piUnits = {} THEN Zero ELSE <<Lowest(piUnits), "WRU">>)]_vars
  BY WruRight
<1>4. QED
  BY <1>1, <1>2, <1>3, PTL DEF Spec, WruReads

-----------------------------------------------------------------------------
(* What the console is told of its cycles.                                 *)

\* The console writes no other register during its cycle, and reads the
\* instruction register only by itself; there are no vectored interrupts
\* (their acknowledge meets the fetch of the handler); and the timeout of the
\* console outlasts the count of an adapter that was asked for an absent address.
ConsoleAlone ==
    /\ OtherWrites = {FALSE}
    /\ Wru \notin CpuCycles
    /\ \A c \in CslCycles : c.what # "CIR"
    /\ CslTimeout >= NxdCount + 4

\* Memory cycles of the CPU are those of its instructions.
MemoryAt ==
    /\ upc \in {"PRE", "MEMREAD", "CHAIN", "MEMWRITE"} => vma = cmd
    /\ upc \in {"CALL", "STRTIO"} => cmd.what = "CIR" /\ vma = Idle
    /\ upc \notin {"WRUREAD", "VECREAD", "FETCH"}

LEMMA MemoryStep ==
    ASSUME Wru \notin CpuCycles, MicroAt, MemoryAt, MicroNext
    PROVE  MemoryAt'
<1>1. CASE ~clken
  BY <1>1 DEF MicroNext, MemoryAt
<1>2. CASE clken /\ uRun
  <2>1. vma = Idle
    BY <1>2 DEF uRun, MicroAt, VmaAt
  <2>2. \A c \in CpuCycles : c.what # "WRU"
    BY CyclesAssumption
  <2>3. QED
    BY <1>2, <2>1, <2>2 DEF uRun, RamStart, Start, Loop, MemoryAt
<1>3. CASE clken /\ (uPre \/ uMemRead \/ uChain \/ uMemWrite)
  BY <1>3 DEF uPre, uMemRead, uChain, uMemWrite, Loop, Finish, Start, MemoryAt
<1>4. CASE clken /\ (uIoClr \/ uIoWrite \/ uIoWait \/ uIow1 \/ uIow1n \/ uIow3 \/ uIow5)
  BY <1>4 DEF uIoClr, uIoWrite, uIoWait, uIow1, uIow1n, uIow3, uIow5, Start, Finish, Loop, MemoryAt
<1>5. CASE clken /\ (uIow2 \/ uIow4)
  BY <1>5 DEF uIow2, uIow4, IoReturn, Loop, MemoryAt, MicroAt, VmaAt, InWait
<1>6. CASE clken /\ (uCall \/ uStrtIo)
  BY <1>6 DEF uCall, uStrtIo, Loop, Start, MemoryAt
<1>7. ~(uWruRead \/ uVecRead \/ uFetch)
  BY DEF uWruRead, uVecRead, uFetch, MemoryAt
<1>8. QED
  BY <1>1, <1>2, <1>3, <1>4, <1>5, <1>6, <1>7 DEF MicroNext

\* The console's state machine: the address fits the state, the strobe has
\* ended when the cycle waits for the bus, and the failure flag is clear.
PlaceAt ==
    /\ csAddr \in CslCycles \cup {Ram("rd")}
    /\ csState \in {"READWAITGO", "READWAITIO", "READ"} => csAddr.op = "rd"
    /\ csState \in {"WRITEWAITGO", "WRITEWAITIO", "WRITE"} => csAddr.op # "rd"
    /\ csState \notin {"IDLE", "READWAITGO", "WRITEWAITGO"} => strobe = 0
    /\ csState # "IDLE" => ~nxmnxd
    /\ ~otherWR

LEMMA PlaceStep ==
    ASSUME OtherWrites = {FALSE}, TypeOK, PlaceAt, EpiWrite, CslNext, CslRegs
    PROVE  PlaceAt'
<1>1. csState \in CslStates /\ strobe \in Nat
  BY CountAssumption DEF TypeOK, CslTypeOK
<1>2. csAddr' \in CslCycles \cup {Ram("rd")} /\ ~otherWR'
  BY DEF PlaceAt, EpiWrite
<1>3. CASE csState = "IDLE"
  <2>1. /\ csState' = IF cslGO THEN (IF csAddr.op = "rd" THEN "READWAITGO" ELSE "WRITEWAITGO")
                      ELSE "IDLE"
        /\ cslGO => csAddr' = csAddr /\ nxmnxd' = FALSE
    BY <1>3 DEF CslNext, CslRegs, EpiWrite, cslWR
  <2>2. QED
    BY <1>2, <2>1 DEF PlaceAt
<1>4. CASE csState # "IDLE"
  <2>1. csAddr' = csAddr /\ strobe' = IF cslGO THEN strobe - 1 ELSE 0
    BY <1>4 DEF EpiWrite
  <2>2. csState # "FAIL" => nxmnxd' = nxmnxd
    BY <1>4 DEF CslRegs
  <2>3. CASE csState \in {"READWAITGO", "WRITEWAITGO"}
    BY <1>2, <2>1, <2>2, <2>3 DEF CslNext, PlaceAt, cslGO
  <2>4. CASE csState \in {"READWAITIO", "WRITEWAITIO"}
    BY <1>2, <2>1, <2>2, <2>4 DEF CslNext, PlaceAt, cslGO
  <2>5. CASE csState \in {"READ", "WRITE"}
    <3>1. csState' \in {csState, "IDLE", "FAIL"}
      BY <2>5 DEF CslNext
    <3>2. strobe' = 0
      BY <2>1, <2>5 DEF PlaceAt, cslGO
    <3>3. QED
      BY <1>2, <2>1, <2>2, <2>5, <3>1, <3>2 DEF PlaceAt
  <2>6. CASE csState = "FAIL"
    BY <1>2, <2>1, <2>6 DEF CslNext, PlaceAt
  <2>7. QED
    BY <1>1, <1>4, <2>3, <2>4, <2>5, <2>6 DEF CslStates
<1>5. QED
  BY <1>3, <1>4

\* The kinds of cycles that the console runs.
LEMMA ConsoleCycles ==
    ASSUME ConsoleAlone, PlaceAt
    PROVE  /\ csAddr \in Cycle /\ csAddr.op \in {"rd", "wr"}
           /\ csAddr.what \in {"RAM", "MSR", "REG", "DEV", "NXD"}
           /\ csAddr.what \in {"REG", "DEV"} => csAddr.unit \in UBAS
           /\ csAddr.what = "RAM" => csAddr \in {Ram("rd"), Ram("wr")}
<1>1. csAddr = Ram("rd") \/ csAddr \in CslCycles
  BY DEF PlaceAt
<1>2. CASE csAddr = Ram("rd")
  BY <1>2, CycleConstants, CycleParts
<1>3. CASE csAddr \in CslCycles
  <2>1. csAddr \in Cycle /\ csAddr.op # "none" /\ csAddr.what \notin {"WRU", "VECT", "CIR"}
    BY <1>3, CyclesAssumption DEF ConsoleAlone
  <2>2. csAddr.op \in {"rd", "wr"} /\ csAddr.what \in {"RAM", "MSR", "REG", "DEV", "NXD"}
    BY <2>1 DEF Cycle, Ops, Whats
  <2>3. csAddr.what \in {"REG", "DEV"} => csAddr.unit \in UBAS
    BY <1>3, CyclesAssumption
  <2>4. csAddr.what = "RAM" => csAddr.unit = 0
    BY <1>3, CyclesAssumption
  <2>5. csAddr.what = "RAM" => csAddr \in {Ram("rd"), Ram("wr")}
    BY <2>1, <2>2, <2>4 DEF Cycle, Ram
  <2>6. QED
    BY <2>1, <2>2, <2>3, <2>5
<1>4. QED
  BY <1>1, <1>2, <1>3

\* An acknowledge that the console leaves behind stays while memory cycles
\* of the CPU follow at once; they have ended before the next console cycle.
MicroLeft == IF upc = "PRE" THEN 3 ELSE IF upc = "MEMREAD" THEN 2 ELSE 1
Distance == IF csState = "FAIL" THEN 5
            ELSE IF csState = "IDLE" THEN (IF cslGO THEN 3 ELSE 4)
            ELSE IF csState \in {"READWAITGO", "WRITEWAITGO"} THEN 2 ELSE 1
LeftAt ==
    \A v \in UBAS : uState[v] = "ACK" =>
        /\ cslREQ => csAddr.unit = v /\ csAddr.what \in {"REG", "DEV"}
        /\ (~cslREQ /\ vma.what = "RAM" /\ vma.op # "none") => MicroLeft < Distance

LEMMA OwnerIs ==
    /\ Owner = "csl" <=> cslREQ
    /\ Owner = "csl" => BusCycle = csAddr
    /\ Owner = "cpu" => BusCycle = vma /\ cpuREQ
    /\ ubaREQ => Owner \in {"csl", "cpu"}
BY DEF Owner, BusCycle, ubaREQ

\* A step of the state machine brings the next cycle nearer by one clock.
LEMMA DistanceStep ==
    ASSUME OtherWrites = {FALSE}, TypeOK, PlaceAt, EpiWrite, CslNext
    PROVE  /\ (~cslREQ /\ ~cslREQ') => Distance' >= Distance - 1
           /\ (~cslREQ /\ cslREQ') => Distance = 1 /\ ~cslSeesIO
           /\ (cslREQ /\ ~cslREQ') => Distance' >= 4
<1>1. csState \in CslStates /\ strobe \in Nat
  BY CountAssumption DEF TypeOK, CslTypeOK
<1>2. ASSUME cslREQ, ~cslREQ' PROVE Distance' >= 4
  <2>1. csState' \in {"FAIL", "IDLE"}
    BY <1>2 DEF CslNext, cslREQ
  <2>2. strobe' = 0
    BY <1>2 DEF EpiWrite, PlaceAt, cslREQ, cslGO
  <2>3. QED
    BY <2>1, <2>2 DEF Distance, cslGO
<1>3. ASSUME ~cslREQ, cslREQ' PROVE Distance = 1 /\ ~cslSeesIO
  <2>1. csState \in {"READWAITIO", "WRITEWAITIO"} /\ ~cslSeesIO
    BY <1>1, <1>3 DEF CslNext, CslStates, cslREQ
  <2>2. QED
    BY <2>1 DEF Distance
<1>4. ASSUME ~cslREQ, ~cslREQ' PROVE Distance' >= Distance - 1
  <2>1. CASE csState = "IDLE" /\ cslGO
    <3>1. csState' \in {"READWAITGO", "WRITEWAITGO"}
      BY <2>1 DEF CslNext
    <3>2. QED
      BY <2>1, <3>1 DEF Distance
  <2>2. CASE csState = "IDLE" /\ ~cslGO
    <3>1. csState' = "IDLE"
      BY <2>2 DEF CslNext
    <3>2. QED
      BY <2>2, <3>1 DEF Distance
  <2>3. CASE csState \in {"READWAITGO", "WRITEWAITGO"}
    <3>1. csState' \in {"READWAITGO", "WRITEWAITGO", "READWAITIO", "WRITEWAITIO"}
      BY <2>3 DEF CslNext
    <3>2. Distance = 2 /\ Distance' >= 1
      BY <2>3, <3>1 DEF Distance
    <3>3. QED
      BY <3>2
  <2>4. CASE csState \in {"READWAITIO", "WRITEWAITIO"}
    <3>1. csState' \in {"READWAITIO", "WRITEWAITIO"}
      BY <1>4, <2>4 DEF CslNext, cslREQ
    <3>2. QED
      BY <2>4, <3>1 DEF Distance
  <2>5. CASE csState = "FAIL"
    <3>1. csState' = "IDLE" /\ strobe' = 0
      BY <2>5 DEF CslNext, EpiWrite, PlaceAt, cslGO
    <3>2. QED
      BY <2>5, <3>1 DEF Distance, cslGO
  <2>6. QED
    BY <1>1, <1>4, <2>1, <2>2, <2>3, <2>4, <2>5 DEF CslStates, cslREQ
<1>5. QED
  BY <1>2, <1>3, <1>4

LEMMA AckFrom ==
    ASSUME UbaNext, NEW v \in UBAS, uState'[v] = "ACK"
    PROVE  /\ ubaREQ
           /\ \/ uState[v] = "ACK"
              \/ BusCycle.unit = v /\ BusCycle.what \in {"REG", "DEV", "VECT"}
              \/ BusCycle.what = "WRU"
<1>1. uState'[v] = UbaStep(v)
  BY DEF UbaNext
<1>2. ubaREQ /\ (uState[v] = "ACK" \/ regREQ(v) \/ devACK(v) \/ wruACK(v))
  BY <1>1 DEF UbaStep, regREQ, devACK, wruACK
<1>3. QED
  BY <1>2, CycleParts DEF regREQ, devACK, wruACK, Addressed

\* Memory cycles of the CPU come after other memory cycles or after a clock
\* without a request, and each clock in which the CPU has the bus ends one.
LEMMA RamFrom ==
    ASSUME TypeOK, MicroAt, MemoryAt, MicroNext, vma'.what = "RAM", vma'.op # "none"
    PROVE  vma.what = "RAM"
<1>0. /\ vma \in Cycle
      /\ \A pc : ~Finish(pc)
  <2>1. vma \in Cycle
    BY DEF TypeOK, MicroTypeOK
  <2>2. QED
    BY <2>1, CycleParts DEF Finish, Cycle
<1>1. CASE vma' = vma
  BY <1>1
<1>2. CASE uRun
  BY <1>2, CycleParts DEF uRun, MicroAt, VmaAt
<1>3. CASE uMemRead
  BY <1>0, <1>3 DEF uMemRead, Start, MemoryAt
<1>4. CASE uChain \/ uMemWrite \/ uIoWrite
  BY <1>0, <1>4 DEF uChain, uMemWrite, uIoWrite
<1>5. CASE uIoClr
  BY <1>5 DEF uIoClr, Start, MicroAt, VmaAt, InIO
<1>6. CASE uStrtIo
  BY <1>6 DEF uStrtIo, Start, MemoryAt
<1>7. CASE uIow5
  BY <1>7, CycleParts DEF uIow5
<1>8. ~(uWruRead \/ uVecRead \/ uFetch)
  BY DEF uWruRead, uVecRead, uFetch, MemoryAt
<1>9. uPre \/ uIoWait \/ uIow1 \/ uIow1n \/ uIow2 \/ uIow3 \/ uIow4 \/ uCall => vma' = vma
  BY DEF uPre, uIoWait, uIow1, uIow1n, uIow2, uIow3, uIow4, uCall, Loop, IoReturn
<1>10. QED
  BY <1>1, <1>2, <1>3, <1>4, <1>5, <1>6, <1>7, <1>8, <1>9 DEF MicroNext

LEMMA RamStep ==
    ASSUME TypeOK, NxmInv, MicroAt, MemoryAt, MicroNext, Owner = "cpu", vma.what = "RAM",
           vma'.what = "RAM", vma'.op # "none"
    PROVE  MicroLeft' \in Nat /\ MicroLeft \in Nat /\ MicroLeft' < MicroLeft
<1>1. BusCycle = vma /\ vma.op # "none"
  BY OwnerIs DEF cpuREQ
<1>2. clken
  BY <1>1 DEF clken, ioWAIT, unackedIO, memWAIT, IsIO, cpuACK, busACK, memACK
<1>3. upc \in {"PRE", "MEMREAD", "CHAIN", "MEMWRITE"}
  BY <1>1, CycleParts
     DEF TypeOK, MicroTypeOK, Micro, MicroAt, VmaAt, MemoryAt, InWait, InIO
<1>4. uPre \/ uMemRead \/ uChain \/ uMemWrite
  BY <1>2, <1>3 DEF MicroNext, uRun, uIoClr, uIoWrite, uIoWait, uIow1, uIow1n, uIow2, uIow3,
     uIow4, uIow5, uCall, uStrtIo, uWruRead, uVecRead, uFetch
<1>5. ~(uChain \/ uMemWrite)
  BY CycleParts DEF uChain, uMemWrite, Finish
<1>6. CASE uPre
  <2>1. upc' \in {"MEMREAD", "MEMWRITE"} /\ upc = "PRE"
    BY <1>6 DEF uPre, Loop
  <2>2. MicroLeft' \in {1, 2} /\ MicroLeft = 3
    BY <2>1 DEF MicroLeft
  <2>3. QED
    BY <2>2
<1>7. CASE uMemRead
  <2>1. upc' = "CHAIN" /\ upc = "MEMREAD"
    BY <1>7, CycleParts DEF uMemRead, Finish, Start
  <2>2. MicroLeft' = 1 /\ MicroLeft = 2
    BY <2>1 DEF MicroLeft
  <2>3. QED
    BY <2>2
<1>8. QED
  BY <1>4, <1>5, <1>6, <1>7

LEMMA LeftStep ==
    ASSUME ConsoleAlone, TypeOK, NxmInv, MicroAt, MemoryAt, PlaceAt, LeftAt, Next
    PROVE  LeftAt'
<1>1. EpiWrite /\ CslNext /\ MicroNext /\ UbaNext /\ OtherWrites = {FALSE}
  BY DEF Next, ConsoleAlone
<1>2. SUFFICES ASSUME NEW v \in UBAS, uState'[v] = "ACK"
               PROVE  /\ cslREQ' => csAddr'.unit = v /\ csAddr'.what \in {"REG", "DEV"}
                      /\ (~cslREQ' /\ vma'.what = "RAM" /\ vma'.op # "none")
                           => MicroLeft' < Distance'
  BY DEF LeftAt
<1>3. /\ ubaREQ
      /\ \/ uState[v] = "ACK"
         \/ BusCycle.unit = v /\ BusCycle.what \in {"REG", "DEV", "VECT"}
         \/ BusCycle.what = "WRU"
  BY <1>1, <1>2, AckFrom
<1>4. MicroLeft \in 1 .. 3 /\ MicroLeft' \in 1 .. 3 /\ Distance \in 1 .. 5 /\ Distance' \in 1 .. 5
  BY DEF MicroLeft, Distance
<1>5. CASE cslREQ
  <2>1. BusCycle = csAddr
    BY <1>5, OwnerIs
  <2>2. csAddr.unit = v /\ csAddr.what \in {"REG", "DEV"}
    BY <1>3, <1>5, <2>1, ConsoleCycles DEF LeftAt
  <2>3. csAddr' = csAddr
    BY <1>1, <1>5 DEF EpiWrite, cslREQ
  <2>4. ~cslREQ' => Distance' >= 4
    BY <1>1, <1>5, DistanceStep
  <2>5. QED
    BY <1>4, <2>2, <2>3, <2>4
<1>6. CASE ~cslREQ
  <2>1. Owner = "cpu" /\ BusCycle = vma /\ cpuREQ
    BY <1>3, <1>6, OwnerIs
  <2>2. ASSUME vma.what = "RAM"
        PROVE  MicroLeft < Distance
    BY <1>2, <1>3, <1>6, <2>1, <2>2 DEF LeftAt, cpuREQ
  <2>3. ~cslREQ'
    <3>1. SUFFICES ASSUME cslREQ' PROVE FALSE
      OBVIOUS
    <3>2. Distance = 1 /\ ~cslSeesIO
      BY <1>1, <1>6, <3>1, DistanceStep
    <3>3. vma.what = "RAM"
      BY <2>1, <3>2 DEF cslSeesIO, IsIO
    <3>4. QED
      BY <1>4, <2>2, <3>2, <3>3
  <2>4. ASSUME vma'.what = "RAM", vma'.op # "none"
        PROVE  MicroLeft' < Distance'
    <3>1. vma.what = "RAM"
      BY <1>1, <2>4, RamFrom
    <3>2. MicroLeft' < MicroLeft
      BY <1>1, <2>1, <2>4, <3>1, RamStep
    <3>3. Distance' >= Distance - 1
      BY <1>1, <1>6, <2>3, DistanceStep
    <3>4. QED
      BY <1>4, <2>2, <3>1, <3>2, <3>3
  <2>5. QED
    BY <2>3, <2>4
<1>7. QED
  BY <1>5, <1>6

-----------------------------------------------------------------------------
(* The timeout of the console.                                             *)

\* The clocks until the adapter acknowledges the console's cycle, which may
\* find it counting for an absent address.
Remaining(u) == IF uState[u] = "ACK" THEN 0
                ELSE IF uState[u] = "NULL" THEN 1
                ELSE IF uState[u] = "NXD" THEN 2
                ELSE IF csAddr.what = "DEV" THEN 1 ELSE NxdCount - uCnt[u] + 3

TimerAt ==
    /\ csState = "FAIL" => csAddr.what = "NXD"
    /\ cslREQ => /\ csTimer <= CslTimeout
                 /\ csAddr.what \in {"RAM", "MSR"} => csTimer = 0
                 /\ csAddr.what \in {"REG", "DEV"} =>
                       csTimer + Remaining(csAddr.unit) <= NxdCount + 3

\* Who acknowledges the console.
LEMMA ConsoleAcks ==
    ASSUME ConsoleAlone, PlaceAt, LeftAt, cslREQ
    PROVE  /\ Owner = "csl" /\ BusCycle = csAddr /\ ubaREQ
           /\ cslACK <=> \/ csAddr.what \in {"RAM", "MSR"}
                         \/ csAddr.what \in {"REG", "DEV"} /\ uState[csAddr.unit] = "ACK"
<1>1. Owner = "csl" /\ BusCycle = csAddr /\ ubaREQ
  BY OwnerIs DEF ubaREQ
<1>2. memACK <=> csAddr.what \in {"RAM", "MSR"}
  BY <1>1, ConsoleCycles DEF memACK
<1>3. (\E v \in UBAS : ubaACK(v))
         <=> csAddr.what \in {"REG", "DEV"} /\ uState[csAddr.unit] = "ACK"
  BY <1>1, ConsoleCycles DEF ubaACK, LeftAt
<1>4. ~cirACK
  BY <1>1 DEF cirACK
<1>5. QED
  BY <1>1, <1>2, <1>3, <1>4 DEF cslACK, busACK

LEMMA RemainingStep ==
    ASSUME ConsoleAlone, TypeOK, PlaceAt, LeftAt, UbaNext, cslREQ, csAddr' = csAddr,
           csAddr.what \in {"REG", "DEV"}, uState[csAddr.unit] # "ACK"
    PROVE  /\ Remaining(csAddr.unit) \in Nat
           /\ Remaining(csAddr.unit)' \in Nat
           /\ Remaining(csAddr.unit)' <= Remaining(csAddr.unit) - 1
<1>1. PICK u \in UBAS : csAddr.unit = u
  BY ConsoleCycles
<1>2. /\ uState[u] \in {"NULL", "CNT", "NXD"}
      /\ uCnt[u] \in 0 .. NxdCount /\ NxdCount \in Nat
  BY <1>1, CountAssumption DEF TypeOK, UbaTypeOK
<1>3. /\ uState'[u] = UbaStep(u)
      /\ uCnt'[u] = IF uState[u] = "CNT" /\ UbaStep(u) = "CNT" THEN uCnt[u] + 1 ELSE 0
  BY DEF UbaNext
<1>4. BusCycle = csAddr /\ ubaREQ /\ csAddr.op # "none"
  BY ConsoleAcks, ConsoleCycles
<1>5. /\ regREQ(u) <=> csAddr.what = "REG"
      /\ devACK(u) <=> csAddr.what = "DEV"
  BY <1>1, <1>4 DEF regREQ, devACK, Addressed
<1>6. CASE uState[u] = "NULL"
  <2>1. uState'[u] = "ACK"
    BY <1>3, <1>5, <1>6 DEF UbaStep
  <2>2. QED
    BY <1>1, <1>6, <2>1 DEF Remaining
<1>7. CASE uState[u] = "NXD"
  <2>1. uState'[u] = "NULL"
    BY <1>3, <1>7 DEF UbaStep
  <2>2. QED
    BY <1>1, <1>7, <2>1 DEF Remaining
<1>8. CASE uState[u] = "CNT"
  <2>1. CASE csAddr.what = "DEV"
    <3>1. uState'[u] = "ACK"
      BY <1>3, <1>5, <1>8, <2>1 DEF UbaStep
    <3>2. QED
      BY <1>1, <1>8, <2>1, <3>1 DEF Remaining
  <2>2. CASE csAddr.what = "REG" /\ uCnt[u] = NxdCount
    <3>1. uState'[u] = "NXD"
      BY <1>3, <1>5, <1>8, <2>2 DEF UbaStep
    <3>2. Remaining(u) = NxdCount - uCnt[u] + 3 /\ Remaining(u)' = 2
      BY <1>8, <2>2, <3>1 DEF Remaining
    <3>3. QED
      BY <1>1, <1>2, <2>2, <3>2
  <2>3. CASE csAddr.what = "REG" /\ uCnt[u] # NxdCount
    <3>1. uState'[u] = "CNT" /\ uCnt'[u] = uCnt[u] + 1
      BY <1>3, <1>5, <1>8, <2>3 DEF UbaStep
    <3>2. /\ Remaining(u) = NxdCount - uCnt[u] + 3
          /\ Remaining(u)' = NxdCount - (uCnt[u] + 1) + 3
      BY <1>8, <2>3, <3>1 DEF Remaining
    <3>3. QED
      BY <1>1, <1>2, <2>3, <3>2
  <2>4. QED
    BY <2>1, <2>2, <2>3
<1>9. QED
  BY <1>2, <1>6, <1>7, <1>8

LEMMA TimerStep ==
    ASSUME ConsoleAlone, TypeOK, TypeOK', PlaceAt, PlaceAt', LeftAt, TimerAt, Next
    PROVE  TimerAt'
<1>1. EpiWrite /\ CslNext /\ UbaNext
  BY DEF Next
<1>2. /\ csTimer \in Nat /\ NxdCount \in Nat /\ CslTimeout \in Nat /\ CslTimeout >= NxdCount + 4
      /\ csState \in CslStates
  BY CountAssumption DEF TypeOK, CslTypeOK, ConsoleAlone
<1>3. CASE ~cslREQ
  <2>1. csState' # "FAIL" /\ (cslREQ' => csTimer' = 0)
    BY <1>1, <1>2, <1>3 DEF CslNext, CslStates, cslREQ
  <2>2. ASSUME cslREQ', csAddr'.what \in {"REG", "DEV"}
        PROVE  Remaining(csAddr.unit)' \in 0 .. NxdCount + 3
    <3>0. csAddr' = csAddr
      BY <1>1, <1>2, <1>3, <2>2 DEF EpiWrite, CslNext, CslStates, cslREQ
    <3>1. PICK u \in UBAS : csAddr'.unit = u
      BY <2>2, <3>0, ConsoleCycles
    <3>2. uState'[u] \in {"NULL", "CNT", "ACK", "NXD"} /\ uCnt'[u] \in 0 .. NxdCount
      BY <3>1 DEF TypeOK, UbaTypeOK
    <3>3. QED
      BY <1>2, <3>1, <3>2 DEF Remaining
  <2>3. QED
    BY <1>2, <2>1, <2>2 DEF TimerAt
<1>4. CASE cslREQ
  <2>1. csAddr' = csAddr
    BY <1>1, <1>4 DEF EpiWrite, cslREQ
  <2>2. csState' = "FAIL" => csTimer = CslTimeout
    BY <1>1, <1>4 DEF CslNext, cslREQ, cslTimedOut
  <2>3. cslREQ' => ~cslACK /\ csTimer # CslTimeout
                     /\ csTimer' = (csTimer + 1) % (2 * (CslTimeout + 1))
    BY <1>1, <1>4 DEF CslNext, cslREQ, cslTimedOut
  <2>4. csTimer <= CslTimeout
    BY <1>4 DEF TimerAt
  <2>5. cslREQ' => csTimer' = csTimer + 1
    BY <1>2, <2>3, <2>4
  <2>6. ASSUME csAddr.what \in {"REG", "DEV"}
        PROVE  /\ Remaining(csAddr.unit) \in Nat
               /\ csTimer + Remaining(csAddr.unit) <= NxdCount + 3
    <3>1. PICK u \in UBAS : csAddr.unit = u
      BY <2>6, ConsoleCycles
    <3>2. uState[u] \in {"NULL", "CNT", "ACK", "NXD"} /\ uCnt[u] \in 0 .. NxdCount
      BY <3>1 DEF TypeOK, UbaTypeOK
    <3>3. Remaining(u) \in Nat
      BY <1>2, <3>2 DEF Remaining
    <3>4. QED
      BY <1>4, <2>6, <3>1, <3>3 DEF TimerAt
  <2>7. csState' = "FAIL" => csAddr.what = "NXD"
    <3>1. csTimer = CslTimeout => csAddr.what \notin {"RAM", "MSR"}
      BY <1>2, <1>4 DEF TimerAt
    <3>2. csTimer = CslTimeout => csAddr.what \notin {"REG", "DEV"}
      BY <1>2, <2>6
    <3>3. QED
      BY <2>2, <3>1, <3>2, ConsoleCycles
  <2>8. cslREQ' => csAddr.what \notin {"RAM", "MSR"}
    BY <1>4, <2>3, ConsoleAcks
  <2>9. ASSUME cslREQ', csAddr.what \in {"REG", "DEV"}
        PROVE  csTimer' + Remaining(csAddr.unit)' <= NxdCount + 3
    <3>1. uState[csAddr.unit] # "ACK"
      BY <1>4, <2>3, <2>9, ConsoleAcks
    <3>2. /\ Remaining(csAddr.unit)' \in Nat
          /\ Remaining(csAddr.unit)' <= Remaining(csAddr.unit) - 1
      BY <1>1, <1>4, <2>1, <2>9, <3>1, RemainingStep
    <3>3. QED
      BY <1>2, <2>5, <2>6, <2>9, <3>2
  <2>10. QED
    BY <1>2, <2>1, <2>3, <2>4, <2>5, <2>7, <2>8, <2>9 DEF TimerAt
<1>5. QED
  BY <1>3, <1>4

-----------------------------------------------------------------------------
ConsoleInv == MicroAt /\ MemoryAt /\ PlaceAt /\ LeftAt /\ TimerAt

LEMMA ConsoleInit == Init => ConsoleInv
<1> SUFFICES ASSUME Init PROVE ConsoleInv
  OBVIOUS
<1>1. MicroAt
  BY AckInit DEF AckInv
<1>2. MemoryAt
  BY DEF Init, MemoryAt
<1>3. PlaceAt
  BY DEF Init, PlaceAt
<1>4. LeftAt /\ TimerAt
  BY DEF Init, LeftAt, TimerAt, cslREQ
<1>5. QED
  BY <1>1, <1>2, <1>3, <1>4 DEF ConsoleInv

LEMMA ConsoleInductive ==
    ASSUME ConsoleAlone, TypeOK, TypeOK', NxmInv, ConsoleInv, [Next]_vars
    PROVE  ConsoleInv'
<1> USE DEF ConsoleInv
<1>1. CASE Next
  <2>1. EpiWrite /\ CslNext /\ CslRegs /\ MicroNext
    BY <1>1 DEF Next
  <2>2. MicroAt' /\ MemoryAt'
    BY <2>1, MicroStep, MemoryStep DEF ConsoleAlone
  <2>3. PlaceAt'
    BY <2>1, PlaceStep DEF ConsoleAlone
  <2>4. LeftAt'
    BY <1>1, LeftStep
  <2>5. TimerAt'
    BY <1>1, <2>3, TimerStep
  <2>6. QED
    BY <2>2, <2>3, <2>4, <2>5
<1>2. CASE UNCHANGED vars
  <2>1. /\ UNCHANGED <<csState, csTimer, csAddr, nxmnxd, strobe, otherWR>>
        /\ UNCHANGED <<upc, cmd, vma, addr3666, uState, uCnt>>
    BY <1>2 DEF vars, cslVars, cpuVars, ubaVars
  <2>2. MicroAt' /\ MemoryAt'
    BY <2>1 DEF MicroAt, VmaAt, CallAt, MemoryAt, InIO, InWait
  <2>3. PlaceAt'
    BY <2>1 DEF PlaceAt
  <2>4. LeftAt'
    BY <2>1 DEF LeftAt, cslREQ, MicroLeft, Distance, cslGO
  <2>5. TimerAt'
    BY <2>1 DEF TimerAt, cslREQ, Remaining
  <2>6. QED
    BY <2>2, <2>3, <2>4, <2>5
<1>3. QED
  BY <1>1, <1>2

\* A console cycle ends with its acknowledge, or in FAIL.
LEMMA ConsoleEnds ==
    ASSUME TypeOK, PlaceAt, CslNext, csState # "IDLE", csState' = "IDLE"
    PROVE  csState = "FAIL" \/ (cslREQ /\ cslACK)
<1>1. csState \in CslStates
  BY DEF TypeOK, CslTypeOK
<1>2. CASE csState \in {"READ", "WRITE"}
  BY <1>2 DEF CslNext, cslREQ
<1>3. QED
  BY <1>1, <1>2 DEF CslNext, CslStates

LEMMA ReportRight ==
    ASSUME ConsoleAlone, TypeOK, ConsoleInv, Next, csState # "IDLE", csState' = "IDLE"
    PROVE  nxmnxd' = (csAddr.what = "NXD")
<1> USE DEF ConsoleInv
<1>1. EpiWrite /\ CslNext /\ CslRegs
  BY DEF Next
<1>2. CASE csState = "FAIL"
  <2>1. ~cslWR
    BY <1>2 DEF PlaceAt, cslWR, cslGO
  <2>2. nxmnxd' = TRUE
    BY <1>1, <1>2, <2>1 DEF CslRegs
  <2>3. QED
    BY <1>2, <2>2 DEF TimerAt
<1>3. CASE cslREQ /\ cslACK
  <2>1. csAddr.what # "NXD"
    BY <1>3, ConsoleAcks
  <2>2. nxmnxd' = nxmnxd
    BY <1>1, <1>3 DEF CslRegs, cslREQ
  <2>3. nxmnxd = FALSE
    BY DEF PlaceAt, TypeOK, CslTypeOK
  <2>4. QED
    BY <2>1, <2>2, <2>3
<1>4. QED
  BY <1>1, <1>2, <1>3, ConsoleEnds

\* The console does not read the devices behind an adapter that does DMA: a
\* request of theirs takes the device multiplexer (section 5 of the README).
DevicesApart == \A c \in CslCycles : c.what = "DEV" => c.unit \notin DmaUnits

LEMMA CompleteRight ==
    ASSUME ConsoleAlone, DevicesApart, TypeOK, ConsoleInv, Next,
           csState \in {"READ", "WRITE"}, csState' = "IDLE"
    PROVE  IF csAddr.op = "rd" THEN Target(csAddr, csData')
           ELSE csAddr.what = "RAM" => (ram' = <<0, "csl">>)
<1> USE DEF ConsoleInv
<1>1. CslNext /\ CslRegs /\ RamNext
  BY DEF Next
<1>2. cslREQ /\ cslACK
  BY <1>1, ConsoleEnds DEF cslREQ
<1>3. Owner = "csl" /\ BusCycle = csAddr /\ ubaREQ
  BY <1>2, ConsoleAcks
<1>4. ASSUME csAddr.op # "rd", csAddr.what = "RAM" PROVE ram' = <<0, "csl">>
  <2>1. csAddr = Ram("wr")
    BY <1>4, ConsoleCycles, CycleParts
  <2>2. QED
    BY <1>1, <1>3, <2>1 DEF RamNext
<1>5. ASSUME csAddr.op = "rd" PROVE Target(csAddr, csData')
  <2>1. csData' = busDATA
    <3>1. csState = "READ" /\ ~cslWR
      BY <1>5 DEF PlaceAt, cslWR, cslGO
    <3>2. QED
      BY <1>1, <3>1 DEF CslRegs
  <2>2. CASE csAddr.what \in {"RAM", "MSR"}
    <3>1. memACK
      BY <1>3, <1>5, <2>2 DEF memACK
    <3>2. QED
      BY <1>3, <2>1, <2>2, <3>1 DEF busDATA, Target
  <2>3. CASE csAddr.what \in {"REG", "DEV"} /\ uState[csAddr.unit] = "ACK"
    <3>1. PICK u \in UBAS : csAddr.unit = u
      BY <2>3, ConsoleCycles
    <3>2. Lowest({v \in UBAS : ubaACK(v)}) = u
      <4>1. \A v \in UBAS : ubaACK(v) <=> v = u
        BY <1>2, <1>3, <2>3, <3>1 DEF ubaACK, LeftAt
      <4>2. Lowest({v \in UBAS : ubaACK(v)}) \in {v \in UBAS : ubaACK(v)}
        BY <3>1, <4>1, LowestIn
      <4>3. QED
        BY <4>1, <4>2
    <3>3. ubaACK(u) /\ ~memACK
      BY <1>3, <2>3, <3>1 DEF ubaACK, memACK
    <3>4. csAddr.what = "DEV" => u \notin dmaREQ
      BY <3>1, CycleParts DEF DevicesApart, PlaceAt, dmaREQ
    <3>5. ubaDATA(u) = DataOf(csAddr)
      <4>1. Addressed(u) /\ DataOf(csAddr) = <<u, csAddr.what>> /\ BusCycle.what = csAddr.what
        BY <1>3, <1>5, <3>1 DEF Addressed, DataOf
      <4>2. CASE csAddr.what = "REG"
        BY <4>1, <4>2 DEF ubaDATA
      <4>3. CASE csAddr.what = "DEV"
        BY <3>4, <4>1, <4>3 DEF ubaDATA
      <4>4. QED
        BY <2>3, <4>2, <4>3
    <3>6. busDATA = ubaDATA(Lowest({v \in UBAS : ubaACK(v)}))
      BY <3>3 DEF busDATA
    <3>7. QED
      BY <2>1, <2>3, <3>2, <3>5, <3>6 DEF Target
  <2>4. QED
    BY <1>2, <2>2, <2>3, ConsoleAcks
<1>6. QED
  BY <1>4, <1>5

\* When GO negates, NXM/NXD is set if and only if nobody decodes the address,
\* whatever the CPU and DMA on any adapters do meanwhile.
THEOREM ReportsAlways ==
    ASSUME ConsoleAlone
    PROVE  Spec => CslReports
<1>1. Init => TypeOK /\ NxmInv /\ ConsoleInv
  BY InitType, ConsoleInit DEF Init, NxmInv
<1>2. TypeOK /\ NxmInv /\ ConsoleInv /\ [Next]_vars => TypeOK' /\ NxmInv' /\ ConsoleInv'
  BY NextType, NxmStep, ConsoleInductive
<1>3. TypeOK /\ NxmInv /\ ConsoleInv /\ [Next]_vars
        => [(csState # "IDLE" /\ csState' = "IDLE") => (nxmnxd' = (csAddr.what = "NXD"))]_vars
  BY ReportRight
<1>4. QED
  BY <1>1, <1>2, <1>3, PTL DEF Spec, CslReports

\* A console cycle that ends has read the unit addressed, or written memory.
THEOREM CompletesAlways ==
    ASSUME ConsoleAlone, DevicesApart
    PROVE  Spec => CslCompletes
<1>1. Init => TypeOK /\ NxmInv /\ ConsoleInv
  BY InitType, ConsoleInit DEF Init, NxmInv
<1>2. TypeOK /\ NxmInv /\ ConsoleInv /\ [Next]_vars => TypeOK' /\ NxmInv' /\ ConsoleInv'
  BY NextType, NxmStep, ConsoleInductive
<1>3. TypeOK /\ NxmInv /\ ConsoleInv /\ [Next]_vars
        => [(csState \in {"READ", "WRITE"} /\ csState' = "IDLE")
              => IF csAddr.op = "rd" THEN Target(csAddr, csData')
                 ELSE csAddr.what = "RAM" => (ram' = <<0, "csl">>)]_vars
  BY CompleteRight
<1>4. QED
  BY <1>1, <1>2, <1>3, PTL DEF Spec, CslCompletes

=============================================================================
