----------------------------- MODULE Backplane -----------------------------
(***************************************************************************)
(* The KS10 backplane bus, one step per clock edge.                        *)
(*                                                                         *)
(* Four parties share the bus through the arbiter (arb.v): the console     *)
(* state machine (csl.v), the Unibus adapters doing DMA (uba.v), the CPU   *)
(* (bus.v, nxd.v, nxm.v and the microcode that starts and waits for bus    *)
(* cycles), and memory (mem.v), which only answers.  Registers are         *)
(* variables, wires are operators, and every component takes its step on   *)
(* the same clock edge.                                                    *)
(*                                                                         *)
(* A bus cycle is [op, unit, what]: the flags and the address of the       *)
(* cycle, reduced to what the address decoders distinguish.  A register    *)
(* whose value is dead (a counter outside its counting state, a latched    *)
(* flag in IDLE) holds its initial value.                                  *)
(***************************************************************************)
EXTENDS Integers, FiniteSets

CONSTANTS
    UBAS,           \* the Unibus adapters, numbered by arbiter priority
    NxdCount,       \* last CNTn state of nxd.v and ubanxd.v (9)
    CslTimeout,     \* console bus timeout (511)
    MemTimeout,     \* tDONE of nxm.v (15)
    BusyLoop,       \* iterations of the microcode that wait for IO BUSY (128)
    IdleLoop,       \* iterations of the microcode that wait for -IO BUSY (511)
    CpuCycles,      \* the cycles the program running on the CPU starts
    CslCycles,      \* the cycles the console starts
    DmaUnits,       \* the adapters whose devices do DMA
    PiUnits,        \* the adapters that may share the PI level being served
    DmaGap,         \* clocks between two DMA cycles of an adapter
    StrobeTicks,    \* the longest a synchronised console write strobe lasts
    OtherWrites     \* may the console write another register meanwhile?

\* The arbiter has four adapter ports.
ASSUME UbasAssumption == UBAS \subseteq 1 .. 4
ASSUME CountAssumption ==
    /\ NxdCount \in Nat /\ CslTimeout \in Nat
    /\ MemTimeout \in Nat \ {0, 1} /\ BusyLoop \in Nat /\ IdleLoop \in Nat
    /\ StrobeTicks \in Nat \ {0} /\ DmaGap \in Nat
    /\ OtherWrites \subseteq BOOLEAN /\ OtherWrites # {}

-----------------------------------------------------------------------------
(* Bus cycles.                                                             *)

Units == UBAS \cup {0}

\* RAM, MSR, CIR: memory, its status register, the console instruction
\* register (device 0).  REG: a register of an adapter; DEV: a register of a
\* device behind it; NXD: an IO address nobody decodes.  WRU, VECT: the two
\* cycles of a vectored interrupt.
Whats == {"RAM", "MSR", "CIR", "REG", "DEV", "NXD", "WRU", "VECT"}
Ops   == {"none", "rd", "wr"}
Cycle == [op : Ops, unit : Units, what : Whats]

Idle == [op |-> "none", unit |-> 0, what |-> "RAM"]
Ram(o) == [op |-> o, unit |-> 0, what |-> "RAM"]
Wru == [op |-> "rd", unit |-> 0, what |-> "WRU"]
Vect(u) == [op |-> "rd", unit |-> u, what |-> "VECT"]

IsIO(c) == c.what # "RAM"

\* Data are tagged by who put them on the bus.
Junk == <<0, "junk">>
Zero == <<0, "zero">>
DataOf(c) == <<c.unit, c.what>>
Data == {Junk, Zero} \cup (Units \X (Whats \cup {"cpu", "csl", "dma"}))

ASSUME CyclesAssumption ==
    /\ CpuCycles \subseteq Cycle /\ CslCycles \subseteq Cycle
    /\ DmaUnits \subseteq UBAS /\ PiUnits \subseteq UBAS
    /\ \A c \in CpuCycles \cup CslCycles : c.op # "none"
    /\ \A c \in CslCycles : c.what \notin {"WRU", "VECT"}
    /\ \A c \in CpuCycles : c.what # "VECT" /\ (c.what = "WRU" => c = Wru)
    /\ \A c \in CpuCycles \cup CslCycles :
          /\ c.what \in {"REG", "DEV"} => c.unit \in UBAS
          /\ c.what = "RAM" => c.unit = 0

-----------------------------------------------------------------------------
VARIABLES
    csState, csTimer, csAddr, csData, nxmnxd,   \* csl.v
    strobe, otherWR,                            \* synchronised EPI writes
    upc, sc, cmd, vma, addr3666,                \* microcode, bus.v
    nxd, nxdCnt, wru, vect, busy,               \* nxd.v
    timeout,                                    \* nxm.v
    uState, uCnt,                               \* ubanxd.v
    dma, dmaGap,                                \* requests of the devices
    piUnits,                                    \* adapters assigned (PIH, PIL) to this level
    ram                                         \* one word of memory

cslVars == <<csState, csTimer, csAddr, csData, nxmnxd, strobe, otherWR>>
cpuVars == <<upc, sc, cmd, vma, addr3666, nxd, nxdCnt, wru, vect, busy, timeout>>
ubaVars == <<uState, uCnt, dma, dmaGap, piUnits>>
vars    == <<cslVars, cpuVars, ubaVars, ram>>

-----------------------------------------------------------------------------
(* Requests and the arbiter: console, then adapters, then CPU.             *)

cslREQ == csState \in {"READ", "WRITE"}
dmaREQ == {u \in DmaUnits : dma[u].op # "none"}
cpuREQ == \/ vma.op # "none"
          \/ vma.what = "VECT"
          \/ vma.what = "WRU" /\ ~addr3666

Lowest(S) == CHOOSE u \in S : \A v \in S : u <= v

Owner == CASE cslREQ                     -> "csl"
           [] ~cslREQ /\ dmaREQ # {}     -> "dma"
           [] ~cslREQ /\ dmaREQ = {} /\ cpuREQ -> "cpu"
           [] OTHER                      -> "nobody"

\* The cycle on the bus.  The adapters see it only when the console or the
\* CPU owns the bus; the console sees only the CPU's.
BusCycle == CASE Owner = "csl" -> csAddr
              [] Owner = "dma" -> dma[Lowest(dmaREQ)]
              [] Owner = "cpu" -> vma
              [] OTHER         -> Idle
ubaREQNoDefault == Owner # "dma"
ubaREQ == Owner \in {"csl", "cpu"}
cslSeesNothing == FALSE
cslSeesIO == Owner = "cpu" /\ IsIO(vma)

\* Memory acknowledges at once; an adapter acknowledges while its NXD state
\* machine is in ACK, whoever owns the bus; the console answers CIR reads.
memACK    == BusCycle.op # "none" /\ BusCycle.what \in {"RAM", "MSR"}
ubaACK(u) == ubaREQ /\ uState[u] = "ACK"
cirACK    == Owner = "cpu" /\ vma.what = "CIR" /\ vma.op = "rd"
busACK    == memACK \/ (ubaREQ /\ \E u \in UBAS : ubaACK(u)) \/ cirACK

Addressed(u) == BusCycle.op # "none" /\ BusCycle.unit = u

\* What adapter u drives: its register or the WRU response; otherwise the
\* output of the device multiplexer, where a device's own DMA request wins
\* over the device that is addressed.
ubaDATA(u) ==
    CASE BusCycle.op = "rd" /\ BusCycle.what = "WRU" -> <<u, "WRU">>
      [] Addressed(u) /\ BusCycle.what = "REG"  -> <<u, "REG">>
      [] Addressed(u) /\ BusCycle.what = "VECT" -> <<u, "VECT">>
      [] /\ u \in dmaREQ /\ BusCycle.what \notin {"WRU", "VECT"}
         /\ ~(Addressed(u) /\ BusCycle.what = "REG") -> <<u, "dma">>
      [] u \notin dmaREQ /\ Addressed(u) /\ BusCycle.what = "DEV" -> <<u, "DEV">>
      [] OTHER -> Zero

\* What the arbiter returns to the owner of the bus.
busDATA ==
    IF memACK THEN IF BusCycle.what = "RAM" THEN ram ELSE DataOf(BusCycle)
    ELSE IF \E u \in UBAS : ubaACK(u) THEN ubaDATA(Lowest({u \in UBAS : ubaACK(u)}))
    ELSE IF cirACK THEN DataOf(vma)
    ELSE Zero

cslACKAlways == Owner = "csl"
cslACK  == Owner = "csl" /\ busACK
cpuACK  == Owner = "cpu" /\ busACK
cpuDATA == IF Owner = "cpu" THEN busDATA ELSE Zero

-----------------------------------------------------------------------------
(* Wait states and interrupts of the CPU.                                  *)

unackedIO == IsIO(vma) /\ cpuREQ /\ ~cpuACK
ioWAITCounting == unackedIO /\ nxd = "CNT"
ioWAIT  == unackedIO /\ nxd \in {"IDLE", "CNT"}
ioBUSY  == busy \/ (unackedIO /\ nxd = "IDLE")
memWAITRegistered == timeout # 0 /\ ~cpuACK
memWAIT == (~IsIO(vma) /\ cpuREQ /\ ~cpuACK) \/ (timeout # 0 /\ ~cpuACK)
nxmINTR == timeout = 1
clken   == ~ioWAIT /\ ~memWAIT

-----------------------------------------------------------------------------
(* csl.v: the console bus state machine and the registers it uses.         *)

cslGO == strobe > 0
cslWR == cslGO \/ otherWR

\* The strobes of the EPI bus.  Software starts a cycle by writing the
\* address, the data and at last the GO bit, only when the last cycle ended.
EpiWrite ==
    /\ otherWR' \in OtherWrites
    /\ \/ /\ csState = "IDLE" /\ ~cslWR
          /\ \E c \in CslCycles, n \in 1 .. StrobeTicks :
                csAddr' = c /\ strobe' = n
       \/ /\ strobe' = IF cslGO THEN strobe - 1 ELSE 0
          /\ UNCHANGED csAddr

cslTimedOutNever == csTimer > 2 * CslTimeout + 1
cslTimedOut == csTimer = CslTimeout

\* The bus state machine.  A cycle waits for GO to end and for the CPU to
\* have no I/O cycle on the bus.
CslNext ==
    LET rd == csAddr.op = "rd"
        Go(s) == csState' = s /\ csTimer' = 0
    IN CASE csState = "IDLE" ->
              IF cslGO THEN Go(IF rd THEN "READWAITGO" ELSE "WRITEWAITGO") ELSE Go("IDLE")
         [] csState \in {"READWAITGO", "WRITEWAITGO"} ->
              IF cslGO THEN Go(csState)
              ELSE Go(IF csState = "READWAITGO" THEN "READWAITIO" ELSE "WRITEWAITIO")
         [] csState = "READWAITIO"  -> Go(IF cslSeesIO THEN csState ELSE "READ")
         [] csState = "WRITEWAITIO" -> Go(IF cslSeesIO THEN csState ELSE "WRITE")
         [] csState \in {"READ", "WRITE"} ->
              IF cslTimedOut THEN Go("FAIL")
              ELSE IF cslACK THEN Go("IDLE")
              ELSE csTimer' = (csTimer + 1) % (2 * (CslTimeout + 1)) /\ UNCHANGED csState
         [] OTHER -> Go("IDLE")

\* A register write wins over the capture of read data and of the failure.
CslRegs ==
    /\ csData' = CASE ~cslWR /\ csState = "READ" -> busDATA
                   [] csState = "IDLE" /\ cslGO -> Zero
                   [] OTHER -> csData
    /\ nxmnxd' = CASE ~cslWR /\ csState = "FAIL" -> TRUE
                   [] csState = "IDLE" /\ cslGO -> FALSE
                   [] OTHER -> nxmnxd

-----------------------------------------------------------------------------
(* nxd.v and nxm.v: the CPU's wait states.                                 *)

nxdLast == nxdCnt = NxdCount

ioCLEAROnce == upc \in {"IOW1", "IOCLR"}
ioCLEAR == upc \in {"IOW1", "IOW3", "IOW4", "IOCLR"}

\* nxd.v moves to state s; the latched flags are dead in IDLE.
NxdTo(s, b) == /\ nxd' = s /\ busy' = b /\ nxdCnt' = 0
               /\ wru'  = IF s = "IDLE" THEN FALSE ELSE wru
               /\ vect' = IF s = "IDLE" THEN FALSE ELSE vect

nxdIdle == /\ nxd = "IDLE"
           /\ \/ ~unackedIO /\ NxdTo("IDLE", busy)
              \/ /\ unackedIO /\ busy' = TRUE /\ nxd' = "CNT" /\ nxdCnt' = 0
                 /\ wru' = (vma.what = "WRU") /\ vect' = (vma.what = "VECT")
nxdCount == /\ nxd = "CNT"
            /\ \/ /\ cpuACK
                  /\ NxdTo(IF wru THEN "ACKWRU" ELSE IF vect THEN "ACKVEC" ELSE "ACKIO1", busy)
               \/ ~cpuACK /\ nxdLast /\ NxdTo("NOACK", busy)
               \/ ~cpuACK /\ ~nxdLast /\ nxdCnt' = nxdCnt + 1 /\ UNCHANGED <<nxd, wru, vect, busy>>
nxdAckIo1 == nxd = "ACKIO1" /\ NxdTo("ACKIO2", busy)

\* An acknowledged cycle stays busy until the microcode releases it.
nxdRelease == \/ nxd = "ACKIO2" /\ ioCLEAR
              \/ nxd = "ACKWRU" /\ addr3666
              \/ nxd = "ACKVEC" /\ vma.what # "VECT"
nxdAcked == /\ nxd \in {"ACKIO2", "ACKWRU", "ACKVEC"}
            /\ IF nxdRelease THEN NxdTo("IDLE", FALSE) ELSE NxdTo(nxd, busy)
nxdNoAck == /\ nxd = "NOACK"
            /\ IF wru THEN NxdTo(IF vma.what = "WRU" THEN nxd ELSE "IDLE", FALSE)
               ELSE NxdTo("IDLE", busy)

NxdNext == nxdIdle \/ nxdCount \/ nxdAckIo1 \/ nxdAcked \/ nxdNoAck

NxmNext ==
    timeout' = IF ~IsIO(vma) /\ cpuREQ /\ ~cpuACK THEN MemTimeout
               ELSE IF cpuACK \/ timeout = 0 THEN 0
               ELSE timeout - 1

-----------------------------------------------------------------------------
(* The microcode: one disjunct per microinstruction that starts, awaits or *)
(* ends a bus cycle.  It advances only when the CPU clock is enabled.      *)

Loop(pc) == upc' = pc /\ UNCHANGED <<sc, cmd, vma>>

\* MEM READ, MEM WRITE: the last microinstruction of a cycle clears the
\* read and write flags of the VMA, and leaves the others.
Finish(pc) == /\ upc' = pc /\ UNCHANGED sc
              /\ vma' = IF vma.what \in {"WRU", "VECT"} THEN [vma EXCEPT !.op = "none"] ELSE Idle
              /\ cmd' = IF pc = "IOWAIT" THEN cmd ELSE Idle

\* A microinstruction that loads the VMA and starts cycle c.
Start(c, pc) == cmd' = c /\ vma' = c /\ upc' = pc /\ UNCHANGED sc

\* What follows the start of a RAM cycle: other work, or its last
\* microinstruction at once.
RamStart(c) == \E pc \in {"PRE", IF c.op = "rd" THEN "MEMREAD" ELSE "MEMWRITE"} : Start(c, pc)

uRun ==
    /\ upc = "RUN"
    /\ \/ Loop("RUN")
       \/ \E c \in CpuCycles :
            \/ c.what = "RAM" /\ RamStart(c)
            \/ /\ c.what \notin {"RAM", "CIR", "WRU"}
               /\ cmd' = c /\ upc' = "IOCLR" /\ UNCHANGED <<sc, vma>>
            \/ /\ c.what \in {"CIR", "WRU"}
               /\ cmd' = c /\ upc' = "CALL" /\ UNCHANGED <<sc, vma>>

uPre      == upc = "PRE" /\ Loop(IF cmd.op = "rd" THEN "MEMREAD" ELSE "MEMWRITE")
uMemRead  == /\ upc = "MEMREAD"
             /\ \/ Finish("RUN")
                \/ cmd.what = "RAM" /\ Ram("rd") \in CpuCycles /\ Start(Ram("rd"), "CHAIN")
uChain    == upc = "CHAIN" /\ Finish("RUN")
uMemWrite == upc = "MEMWRITE" /\ Finish("RUN")

\* IOEA ends with CLR IO LATCH; IORD1 and IOWR1 start the cycle, and a
\* write finishes its bus request before it waits.
uIoClr    == upc = "IOCLR" /\ Start(cmd, IF cmd.op = "rd" THEN "IOWAIT" ELSE "IOWRITE")
uIoWrite  == upc = "IOWRITE" /\ Finish("IOWAIT")
uIoWait   == /\ upc = "IOWAIT" /\ UNCHANGED <<cmd, vma>>
             /\ IF ioBUSY THEN upc' = "IOW1" /\ UNCHANGED sc
                ELSE upc' = "IOW1N" /\ sc' = BusyLoop
uIow1     == upc = "IOW1" /\ Loop("IOW2")
uIow1n    == /\ upc = "IOW1N" /\ UNCHANGED <<cmd, vma>>
             /\ \/ ioBUSY /\ upc' = "IOW1" /\ sc' = 0
                \/ ~ioBUSY /\ sc > 0 /\ upc' = upc /\ sc' = sc - 1
                \/ ~ioBUSY /\ sc = 0 /\ upc' = "IOW5" /\ sc' = 0
IoReturn  == /\ sc' = 0 /\ UNCHANGED vma
             /\ IF cmd.op = "rd" THEN upc' = "MEMREAD" /\ UNCHANGED cmd
                ELSE upc' = "RUN" /\ cmd' = Idle
uIow2     == /\ upc = "IOW2"
             /\ IF ioBUSY THEN upc' = "IOW3" /\ sc' = IdleLoop /\ UNCHANGED <<cmd, vma>>
                ELSE IoReturn
uIow3NoStep == /\ upc = "IOW3" /\ UNCHANGED <<cmd, vma>>
               /\ IF sc < 0 THEN upc' = "IOW5" /\ sc' = 0 ELSE upc' = "IOW4" /\ sc' = sc
uIow3     == /\ upc = "IOW3" /\ UNCHANGED <<cmd, vma>>
             /\ IF sc < 0 THEN upc' = "IOW5" /\ sc' = 0 ELSE upc' = "IOW4" /\ sc' = sc - 1
uIow4     == upc = "IOW4" /\ IF ioBUSY THEN Loop("IOW3") ELSE IoReturn
uIow5     == upc = "IOW5" /\ upc' = "RUN" /\ cmd' = Idle /\ vma' = Idle /\ UNCHANGED sc

\* STRTIO and the two cycles of a vectored interrupt.
uCall     == upc = "CALL" /\ Loop("STRTIO")
uStrtIo   == upc = "STRTIO" /\ Start(cmd, IF cmd.what = "CIR" THEN "MEMREAD"
                                      ELSE IF cmd.what = "WRU" THEN "WRUREAD" ELSE "VECREAD")
uWruRead  == /\ upc = "WRUREAD" /\ vma' = [vma EXCEPT !.op = "none"] /\ UNCHANGED sc
             /\ \/ cpuDATA[2] = "WRU" /\ cmd' = Vect(cpuDATA[1]) /\ upc' = "CALL"
                \/ cpuDATA[2] # "WRU" /\ upc' = "FETCH" /\ UNCHANGED cmd
uVecRead  == upc = "VECREAD" /\ Finish("FETCH")
uFetch    == upc = "FETCH" /\ Start(Ram("rd"), "MEMREAD")

MicroNext ==
    /\ addr3666' = (upc = "CALL")
    /\ IF clken
       THEN \/ uRun \/ uPre \/ uMemRead \/ uChain \/ uMemWrite \/ uIoClr \/ uIoWrite \/ uIoWait
            \/ uIow1 \/ uIow1n \/ uIow2 \/ uIow3 \/ uIow4 \/ uIow5
            \/ uCall \/ uStrtIo \/ uWruRead \/ uVecRead \/ uFetch
       ELSE UNCHANGED <<upc, sc, cmd, vma>>

-----------------------------------------------------------------------------
(* ubanxd.v of each adapter, and the devices behind it.                    *)

\* Registers of the adapter answer at once; a device answers its own
\* registers and its vector; anything else at this unit is never answered.
devREQ(u) == ubaREQ /\ Addressed(u) /\ BusCycle.what \in {"DEV", "VECT", "NXD"}
devACKAbsent(u) == devREQ(u)
devACK(u) == ubaREQ /\ Addressed(u) /\ BusCycle.what \in {"DEV", "VECT"}
regREQ(u) == ubaREQ /\ Addressed(u) /\ BusCycle.what = "REG"
wruACKAny(u) == ubaREQ /\ BusCycle = Wru
wruACK(u) == ubaREQ /\ BusCycle = Wru /\ u \in piUnits

UbaStep(u) ==
    CASE uState[u] = "NULL" ->
           IF regREQ(u) \/ devACK(u) \/ wruACK(u) THEN "ACK"
           ELSE IF devREQ(u) THEN "CNT" ELSE "NULL"
      [] uState[u] = "CNT" ->
           IF devACK(u) THEN "ACK" ELSE IF uCnt[u] = NxdCount THEN "NXD" ELSE "CNT"
      [] uState[u] = "ACK" -> IF ubaREQ THEN "ACK" ELSE "NULL"
      [] OTHER -> "NULL"

UbaNext ==
    /\ uState' = [u \in UBAS |-> UbaStep(u)]
    /\ uCnt' = [u \in UBAS |->
                   IF uState[u] = "CNT" /\ UbaStep(u) = "CNT" THEN uCnt[u] + 1 ELSE 0]

\* A device asks for one word of memory, holds its request until memory has
\* answered it, and leaves the bus alone for a while.
dmaACK(u) == Owner = "dma" /\ u = Lowest(dmaREQ) /\ memACK

DmaNext ==
    LET mayAsk == {u \in DmaUnits \ dmaREQ : dmaGap[u] = 0}
    IN /\ \E ask \in [mayAsk -> {Idle, Ram("rd"), Ram("wr")}] :
             dma' = [u \in UBAS |-> IF u \in mayAsk THEN ask[u]
                                   ELSE IF dmaACK(u) THEN Idle ELSE dma[u]]
       /\ dmaGap' = [u \in UBAS |-> IF dmaACK(u) THEN DmaGap
                                    ELSE IF dmaGap[u] = 0 THEN 0 ELSE dmaGap[u] - 1]

\* The word of memory: written in every clock in which a write is on the
\* bus.  The CPU drives its data path there, whose value is the data of the
\* write only in its last microinstruction.
RamNext ==
    ram' = IF BusCycle # Ram("wr") THEN ram
           ELSE CASE Owner = "csl" -> <<0, "csl">>
                  [] Owner = "dma" -> <<Lowest(dmaREQ), "dma">>
                  [] OTHER -> IF upc = "MEMWRITE" THEN <<0, "cpu">> ELSE Junk

-----------------------------------------------------------------------------
Init ==
    /\ csState = "IDLE" /\ csTimer = 0 /\ csAddr = Ram("rd") /\ csData = Zero
    /\ nxmnxd = FALSE /\ strobe = 0 /\ otherWR = FALSE
    /\ upc = "RUN" /\ sc = 0 /\ cmd = Idle /\ vma = Idle /\ addr3666 = FALSE
    /\ nxd = "IDLE" /\ nxdCnt = 0 /\ wru = FALSE /\ vect = FALSE /\ busy = FALSE
    /\ timeout = 0
    /\ uState = [u \in UBAS |-> "NULL"] /\ uCnt = [u \in UBAS |-> 0]
    /\ dma = [u \in UBAS |-> Idle] /\ dmaGap = [u \in UBAS |-> 0]
    /\ piUnits \in SUBSET PiUnits
    /\ ram = Zero

Next ==
    /\ EpiWrite /\ CslNext /\ CslRegs
    /\ NxdNext /\ NxmNext /\ MicroNext
    /\ UbaNext /\ DmaNext /\ RamNext
    /\ UNCHANGED piUnits

Spec == Init /\ [][Next]_vars

\* The clock never stops.
FairSpec == Spec /\ WF_vars(Next)

-----------------------------------------------------------------------------
(* Properties.                                                             *)

CslStates == {"IDLE", "READWAITGO", "READWAITIO", "READ",
              "WRITEWAITGO", "WRITEWAITIO", "WRITE", "FAIL"}
NxdStates == {"IDLE", "CNT", "ACKIO1", "ACKIO2", "ACKWRU", "ACKVEC", "NOACK"}
Micro == {"RUN", "PRE", "MEMREAD", "CHAIN", "MEMWRITE", "IOCLR", "IOWRITE",
          "IOWAIT", "IOW1", "IOW1N", "IOW2", "IOW3", "IOW4", "IOW5",
          "CALL", "STRTIO", "WRUREAD", "VECREAD", "FETCH"}

CslTypeOK == /\ csState \in CslStates
             /\ csTimer \in 0 .. 2 * CslTimeout + 1
             /\ csAddr \in Cycle /\ csData \in Data /\ nxmnxd \in BOOLEAN
             /\ strobe \in 0 .. StrobeTicks /\ otherWR \in BOOLEAN
MicroTypeOK == /\ upc \in Micro /\ sc \in Int
               /\ cmd \in Cycle /\ vma \in Cycle /\ addr3666 \in BOOLEAN
WaitTypeOK == /\ nxd \in NxdStates /\ nxdCnt \in 0 .. NxdCount
              /\ wru \in BOOLEAN /\ vect \in BOOLEAN /\ busy \in BOOLEAN
              /\ timeout \in 0 .. MemTimeout
UbaTypeOK == /\ uState \in [UBAS -> {"NULL", "CNT", "ACK", "NXD"}]
             /\ uCnt \in [UBAS -> 0 .. NxdCount]
             /\ dma \in [UBAS -> Cycle] /\ dmaGap \in [UBAS -> 0 .. DmaGap]
             /\ piUnits \subseteq UBAS

\* Every register has a value of its width: the counters of the three
\* timeouts stop at their limits.
TypeOK == CslTypeOK /\ MicroTypeOK /\ WaitTypeOK /\ UbaTypeOK /\ ram \in Data

\* Memory is never reported as nonexistent (nxm.v says that this cannot
\* happen): whoever takes the bus away from a memory cycle of the CPU, the
\* cycle is answered before the counter runs out.
NoNXM == ~nxmINTR

\* The microcode takes an IO page fault only for an address that nobody
\* decodes, whatever the console and DMA do to its cycle meanwhile.
TrapOnlyAbsent == upc = "IOW5" => cmd.what = "NXD"

\* An I/O instruction that addresses nobody never completes: the wait loops
\* IOW1 to IOW4 end in the fault.
AbsentTraps == [][(upc \in {"IOW2", "IOW4"} /\ upc' \in {"RUN", "MEMREAD"})
                    => (cmd.what # "NXD")]_vars

Target(c, data) == IF c.what = "RAM" THEN data = ram ELSE data = DataOf(c)

\* The last microinstruction of a read takes the data of the unit that the
\* instruction addressed: neither another unit's nor the zeros that the
\* arbiter returns while the CPU does not own the bus.
CpuReads == [][(upc \in {"MEMREAD", "CHAIN", "VECREAD"} /\ clken /\ cmd.what # "CIR")
                 => Target(cmd, cpuDATA)]_vars

\* The last microinstruction of a write leaves only when the write has
\* reached memory or the adapter that it addressed.
CpuWrites == [][(upc \in {"MEMWRITE", "IOWRITE"} /\ clken /\ cmd.what # "NXD")
                  => (IF cmd.what = "RAM" THEN ram' = <<0, "cpu">>
                      ELSE Owner = "cpu" /\ ubaACK(cmd.unit))]_vars

\* The WRU cycle finds the adapter of the highest priority among those assigned
\* to the level being served (uba.v:369: whether it interrupts or not), and
\* zero (a CPU-internal interrupt) only when none is.
WruReads == [][(upc = "WRUREAD" /\ clken)
                 => (cpuDATA = IF piUnits = {} THEN Zero
                               ELSE <<Lowest(piUnits), "WRU">>)]_vars

\* An I/O cycle is acknowledged only by the adapter that it addresses: the
\* ACK state of an adapter does not outlive the cycle it answers.
AckedByTarget == \A u \in UBAS : ubaACK(u) /\ IsIO(BusCycle)
                    => IF BusCycle.what = "WRU" THEN u \in piUnits
                       ELSE BusCycle.unit = u

Popping(u) == Owner = "cpu" /\ BusCycle = [op |-> "rd", unit |-> u, what |-> "DEV"]

\* One I/O read instruction strobes the device once: a receiver silo pops
\* when the strobe falls, and that is when the instruction ends.
PopOnce == [][\A u \in UBAS : (Popping(u) /\ ~(Popping(u)'))
                => (upc = "MEMREAD" /\ upc' = "RUN")]_vars

\* A console cycle that ends has had its effect: the data register holds the
\* word of the unit addressed, or memory holds the word of the console.
CslCompletes == [][(csState \in {"READ", "WRITE"} /\ csState' = "IDLE")
                     => IF csAddr.op = "rd" THEN Target(csAddr, csData')
                        ELSE csAddr.what = "RAM" => (ram' = <<0, "csl">>)]_vars

\* When GO negates, NXM/NXD tells whether anybody decodes the address.
CslReports == [][(csState # "IDLE" /\ csState' = "IDLE")
                   => (nxmnxd' = (csAddr.what = "NXD"))]_vars

\* Every I/O instruction ends, in its data or in a fault.
CpuEnds == (IsIO(cmd) ~> ~IsIO(cmd))

\* The console's bus state machine returns to IDLE: GO negates.
CslEnds == (csState # "IDLE" ~> csState = "IDLE")
=============================================================================
