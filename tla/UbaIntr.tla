------------------------------ MODULE UbaIntr ------------------------------
(***************************************************************************)
(* Interrupts of the Unibus devices, from the device's interrupt machine   *)
(* (dzintr.v, lpintr.v, dupintr.v, rhintr.v) through its adapter           *)
(* (ubaintr.v, uba.v) and the priority interrupt system (pi.v) to the      *)
(* microcode that takes them (PFPI1 to PISET) and the handler that the     *)
(* vector leads to, which re-arms the device and dismisses.                *)
(*                                                                         *)
(* Adapter 1 has the RH11, adapter 3 the DZ11, the LP20 and the DUP11.     *)
(* One step is one clock.  A bus cycle of the CPU lasts two clocks or more *)
(* and is not taken away from it; Backplane is about that.                 *)
(***************************************************************************)
EXTENDS Naturals, Sequences, FiniteSets

CONSTANTS
    Fitted,         \* sets of sources, one of which is there
    PIH, PIL,       \* the levels assigned to each adapter (0: none)
    AprLevel,       \* the level of the processor's own interrupts
    MaxEvents,      \* bound on what devices and operator do
    BusTicks        \* the longest bus cycle of the CPU

Units   == {1, 3}
Sources == {"rx", "tx", "lp", "duprx", "duptx", "attn", "seek", "xfer", "apr"}

ASSUME IntrAssumption ==
    /\ Fitted \subseteq SUBSET Sources
    /\ PIH \in [Units -> 0 .. 7] /\ PIL \in [Units -> 0 .. 7]
    /\ AprLevel \in 1 .. 7 /\ MaxEvents \in Nat /\ BusTicks \in Nat \ {0, 1}

VARIABLES
    fitted,                     \* the sources that are there
    dz, lp, dup, rh,            \* the devices' interrupt machines
    ie,                         \* the sources whose interrupt is enabled
    devINTA,                    \* ubaintr.v of each adapter
    apr,                        \* an enabled flag of apr.v is set
    hwPi, hwOn, piINTR,         \* pi.v: in progress, system enabled, request
    pi,                         \* the microcode's PI levels in progress
    upc, bus, tick, lvl, unit,  \* microcode and the CPU's bus cycle
    stack,                      \* the handlers that have been started
    left                        \* events that may still happen

devVars == <<dz, lp, dup, rh, ie, apr>>
cpuVars == <<pi, upc, bus, tick, lvl, unit, stack>>
vars    == <<fitted, devVars, devINTA, hwPi, hwOn, piINTR, cpuVars, left>>

Least(S) == CHOOSE x \in S : \A y \in S : x <= y
Most(S)  == CHOOSE x \in S : \A y \in S : x >= y

-----------------------------------------------------------------------------
(* Requests, acknowledges and vectors.                                     *)

rxINTR     == dz.rx = "ACT" /\ "rx" \in ie
txINTR     == dz.tx = "ACT" /\ "tx" \in ie
lpINTR     == lp \in {"ACTIVE", "VECTREAD"}
dupRXINTR  == dup.rx \in {"ACTIVE", "VECTREAD"}
dupTXINTR  == dup.tx \in {"ACTIVE", "VECTREAD"}
rhIRQ      == rh.IFF \/ (rh.ATA /\ rh.RDY)

\* The INTR lines (7 to 4) of the devices of an adapter.
devINTR(u) ==
    IF u = 1 THEN {i \in {6} : rhIRQ}
    ELSE {i \in {5} : rxINTR \/ txINTR \/ dupRXINTR \/ dupTXINTR}
         \cup {i \in {4} : lpINTR}
High == {6, 7}
Low  == {4, 5}

\* The PI levels at which an adapter interrupts.
busINTR(u) == {PIH[u] : i \in devINTR(u) \cap High}
              \cup {PIL[u] : i \in devINTR(u) \cap Low}

wruREAD     == bus = "wru"
vectREAD(u) == bus = "vect" /\ unit = u

\* devINTA is registered: it follows the WRU cycle by a clock.
Granted(u) ==
    LET group == IF lvl = PIH[u] THEN High ELSE IF lvl = PIL[u] THEN Low ELSE {}
        asking == devINTR(u) \cap group
    IN  IF wruREAD /\ asking # {} THEN Most(asking) ELSE 0
UbaIntrNext == devINTA' = [u \in Units |-> Granted(u)]

dzIACK == wruREAD /\ devINTA[3] = 5
rhIACK == wruREAD /\ devINTA[1] = 6

\* The data of a vector cycle are those of the lowest device that asserts the
\* highest INTR; zero when none does.
Vector(u) ==
    IF u = 1 THEN IF rhIRQ THEN "rh" ELSE "zero"
    ELSE CASE rxINTR \/ txINTR       -> IF dz.rxVECTOR THEN "rx" ELSE "tx"
           [] ~(rxINTR \/ txINTR) /\ (dupRXINTR \/ dupTXINTR)
                                     -> IF dupRXINTR THEN "duprx" ELSE "duptx"
           [] OTHER                  -> IF lpINTR THEN "lp" ELSE "zero"

wruACKAny == {u \in Units : devINTR(u) # {}}
\* The adapters that answer the WRU cycle, whether they interrupt or not.
wruACK == {u \in Units : lvl \in {PIH[u], PIL[u]}}

-----------------------------------------------------------------------------
(* pi.v.  Eight stands for no level.                                       *)

requests == busINTR(1) \cup busINTR(3) \cup {l \in {AprLevel} : apr}
Highest(levels) == IF levels = {} THEN 8 ELSE Least(levels)
reqPRI == IF hwOn THEN Highest(requests \cap 1 .. 7) ELSE 8
curPRI == Highest(hwPi)
Interrupts == reqPRI < curPRI
PiNextSticky == piINTR' = (Interrupts \/ (piINTR /\ hwOn))
PiNext == piINTR' = Interrupts

-----------------------------------------------------------------------------
(* The devices.  An event is the outside world's: a character, a line that *)
(* is ready, an error of the printer, an attention of the disk.            *)

\* A machine that has its request taken, waits for the handler's access and is
\* armed again when that access is over.
Rearm(s, done) ==
    CASE s = "WAIT" /\ done  -> "DONE"
      [] s = "DONE" /\ ~done -> "IDLE"
      [] OTHER               -> s

\* dzintr.v: receiver, transmitter and the arbiter that commits to one of them.
DzSide(s, ready, clr, done) ==
    CASE s = "IDLE" /\ ready -> "ACT"
      [] s = "ACT" /\ clr    -> "WAIT"
      [] OTHER               -> Rearm(s, done)
DzArb ==
    CASE dz.arb = "IDLE" /\ "ACT" \in {dz.rx, dz.tx} -> "IACK"
      [] dz.arb = "IACK" /\ dzIACK                   -> "VECTREAD"
      [] dz.arb = "VECTREAD" /\ vectREAD(3)          -> "VECTCLR"
      [] dz.arb = "VECTCLR" /\ ~vectREAD(3)
            -> IF dz.rxVECTOR THEN "RXDONE" ELSE "TXDONE"
      [] dz.arb \in {"RXDONE", "TXDONE"}             -> "IDLE"
      [] OTHER                                       -> dz.arb
rxVECTORNext == IF dz.arb = "IACK" /\ dzIACK THEN rxINTR ELSE dz.rxVECTOR

\* Receiver done until the silo is read; the transmitter's scanner holds a
\* line (TRDY) until the write of its character is over.
DzNext(e) ==
    dz' = [rx  |-> DzSide(dz.rx, dz.RRDY /\ "rx" \in ie, dz.arb = "RXDONE",
                          bus = "rbufREAD"),
           tx  |-> DzSide(dz.tx, dz.scan # "SCAN" /\ "tx" \in ie, dz.arb = "TXDONE",
                          bus = "tdrWRITE"),
           arb |-> DzArb,
           rxVECTOR |-> rxVECTORNext,
           RRDY |-> e = "rx" \/ (dz.RRDY /\ ~(dz.rx = "DONE" /\ bus # "rbufREAD")),
           scan |-> CASE dz.scan = "SCAN" /\ e = "tx"         -> "HOLD"
                      [] dz.scan = "HOLD" /\ bus = "tdrWRITE" -> "WAIT"
                      [] dz.scan = "WAIT" /\ bus # "tdrWRITE" -> "SCAN"
                      [] OTHER                                -> dz.scan]

\* lpintr.v and dupintr.v: the request is taken by the vector cycle itself.
Taken(s, trig, vect, done) ==
    CASE s = "IDLE" /\ trig      -> "ACTIVE"
      [] s = "ACTIVE" /\ vect    -> "VECTREAD"
      [] s = "VECTREAD" /\ ~vect -> "WAIT"
      [] OTHER                   -> Rearm(s, done)
lpVECTAny == bus = "vect"
lpVECT == vectREAD(3)
LpNext(e) == lp' = Taken(lp, e = "lp" /\ "lp" \in ie, lpVECT, bus = "csraREAD")

\* The receiver's machine inhibits the transmitter's.
DupNext(e) ==
    dup' = [rx |-> Taken(dup.rx, dup.RXDONE /\ "duprx" \in ie, vectREAD(3),
                         bus \in {"rxcsrREAD", "rxdbufREAD"}),
            tx |-> Taken(dup.tx, dup.TXDONE /\ "duptx" \in ie,
                         vectREAD(3) /\ (dup.tx = "VECTREAD" \/ dup.rx = "IDLE"),
                         bus = "txdbufWRITE"),
            RXDONE |-> e = "duprx" \/ (dup.RXDONE /\ ~(dup.rd /\ bus # "rxdbufREAD")),
            TXDONE |-> e = "duptx" \/ (dup.TXDONE /\ bus # "txdbufWRITE"),
            rd     |-> bus = "rxdbufREAD"]

\* rhintr.v, and of rhcs1.v and rpds.v what it depends on.  Clearing wins.
RhNext(e) ==
    rh' = [IFF |-> ~rhIACK /\ (rh.IFF \/ (rh.RDY /\ ~rh.lastRDY /\ "rh" \in ie)),
           RDY |-> IF bus = "cs1GO" THEN FALSE ELSE rh.RDY \/ e \in {"seek", "xfer"},
           lastRDY |-> rh.RDY,
           ATA |-> bus # "asWRITE" /\ (rh.ATA \/ e \in {"attn", "seek"})]

\* The write of a control register takes effect in the first clock.
ToggleOf == [rx |-> "rxIE", tx |-> "txIE", lp |-> "lpIE", duprx |-> "duprxIE",
             duptx |-> "duptxIE"]
Toggled == {s \in DOMAIN ToggleOf : bus = ToggleOf[s] /\ tick = 1}
IeNext == ie' = IF rhIACK THEN ie \ {"rh"}
                ELSE IF bus = "cs1GO" THEN ie \cup {"rh"}
                ELSE (ie \ Toggled) \cup (Toggled \ ie)
AprNext(e) == apr' = (e = "apr" \/ (apr /\ bus # "WRAPR"))

-----------------------------------------------------------------------------
(* The microcode, and the program: a background that enables and disables  *)
(* interrupts and starts the disk once the operation before has            *)
(* interrupted, and the handlers.  A handler is the accesses it still has  *)
(* to make; then it dismisses.                                             *)

HandlerOf(vec) ==
    CASE vec = "rx"    -> {<<"rbufREAD">>}
      [] vec = "tx"    -> {<<"tdrWRITE">>}
      [] vec = "lp"    -> {<<"csraREAD">>}
      [] vec = "duprx" -> {<<"rxdbufREAD">>, <<"rxcsrREAD", "rxdbufREAD">>}
      [] vec = "duptx" -> {<<"txdbufWRITE">>}
      [] vec = "rh"    -> {<<"asWRITE">>}
      [] vec = "apr"   -> {<<"WRAPR">>}
      [] OTHER         -> {<<>>}

Go(to)     == upc' = to
CycleLastsLonger == tick < BusTicks + 1 /\ tick' = tick + 1
                    /\ UNCHANGED <<bus, lvl, unit, upc, stack, pi, hwPi, hwOn>>
HoldBus    == UNCHANGED <<bus, lvl, unit, tick>>
HoldPi     == UNCHANGED <<hwPi, hwOn>>
Cycle(b)   == bus' = b /\ tick' = 1
CycleLasts == tick < BusTicks /\ tick' = tick + 1
              /\ UNCHANGED <<bus, lvl, unit, upc, stack, pi>> /\ HoldPi
CycleEnds  == tick > 1

\* An instruction of a handler: the next access, or the dismissal of the
\* highest level in progress (JEN).
uAccess == /\ upc = "RUN" /\ stack # <<>> /\ Head(stack).todo # <<>>
           /\ Cycle(Head(Head(stack).todo)) /\ Go("IO")
           /\ stack' = <<[Head(stack) EXCEPT !.todo = Tail(@)]>> \o Tail(stack)
           /\ UNCHANGED <<lvl, unit, pi>> /\ HoldPi
uDismissLowest == /\ upc = "RUN" /\ stack # <<>> /\ Head(stack).todo = <<>>
                  /\ pi' = pi \ {Most(pi)} /\ stack' = Tail(stack) /\ Go("LDPI2")
                  /\ HoldBus /\ HoldPi
uDismiss == /\ upc = "RUN" /\ stack # <<>> /\ Head(stack).todo = <<>>
            /\ pi' = pi \ {Least(pi)} /\ stack' = Tail(stack) /\ Go("LDPI2")
            /\ HoldBus /\ HoldPi
\* An instruction of the background.
uProgram == /\ upc = "RUN" /\ stack = <<>> /\ Go("DONE")
            /\ HoldBus /\ UNCHANGED <<stack, pi>> /\ HoldPi
uControl(a) == /\ upc = "RUN" /\ stack = <<>> /\ Cycle(a) /\ Go("IO")
               /\ UNCHANGED <<lvl, unit, stack, pi>> /\ HoldPi
uIo == /\ upc = "IO"
       /\ \/ CycleLasts
          \/ /\ CycleEnds /\ Cycle("none") /\ Go("DONE")
             /\ UNCHANGED <<lvl, unit, stack, pi>> /\ HoldPi

\* DONE starts the fetch; the next microinstruction fails if piINTR is set.
uDone == /\ upc = "DONE" /\ Go("XCTGO") /\ HoldBus /\ UNCHANGED <<stack, pi>> /\ HoldPi
uXctgo == /\ upc = "XCTGO" /\ Go(IF piINTR THEN "PFPI1" ELSE "RUN")
          /\ HoldBus /\ UNCHANGED <<stack, pi>> /\ HoldPi
\* SKIP IRPT: without piINTR the trap is taken for one of the timer or the pager.
uPfpi1 == /\ upc = "PFPI1" /\ Go(IF piINTR THEN "PI" ELSE "PFT")
          /\ HoldBus /\ UNCHANGED <<stack, pi>> /\ HoldPi
\* The dispatch on the new level; without one the microinstruction repeats.
uPi == /\ upc = "PI" /\ UNCHANGED <<bus, tick, unit, stack>> /\ HoldPi
       /\ IF reqPRI = 8 THEN UNCHANGED <<upc, lvl, pi>>
          ELSE lvl' = reqPRI /\ pi' = pi \cup {reqPRI} /\ Go("PI10")
\* The PI system is off while the WRU cycle runs.
uPi10 == /\ upc = "PI10" /\ hwPi' = pi /\ hwOn' = FALSE /\ Cycle("wru") /\ Go("WRU")
         /\ UNCHANGED <<lvl, unit, stack, pi>>

StartHandler(vec) ==
    /\ \E h \in HandlerOf(vec) :
          stack' = <<[level |-> lvl, vec |-> vec, todo |-> h]>> \o stack
    /\ Go("LDPI2") /\ Cycle("none") /\ UNCHANGED <<lvl, unit, pi>> /\ HoldPi
uWru == /\ upc = "WRU"
        /\ \/ CycleLasts
           \/ CycleEnds /\ wruACK = {} /\ StartHandler("apr")
           \/ /\ CycleEnds /\ wruACK # {} /\ unit' = Least(wruACK)
              /\ Cycle("vect") /\ Go("VECINT") /\ UNCHANGED <<lvl, stack, pi>> /\ HoldPi
uVecint == /\ upc = "VECINT"
           /\ \/ CycleLasts
              \/ CycleEnds /\ StartHandler(Vector(unit))

uLdpi2Off == /\ upc = "LDPI2" /\ hwPi' = pi /\ hwOn' = hwOn /\ Go("DONE")
             /\ HoldBus /\ UNCHANGED <<stack, pi>>
\* LOAD PI with the levels in progress and the PI system on.
uLdpi2 == /\ upc = "LDPI2" /\ hwPi' = pi /\ hwOn' = TRUE /\ Go("DONE")
          /\ HoldBus /\ UNCHANGED <<stack, pi>>

-----------------------------------------------------------------------------
\* What may happen now, at most MaxEvents times.
Possible(e) == /\ left > 0 /\ e \in fitted
               /\ e = "tx" => dz.scan = "SCAN"
               /\ e = "duptx" => ~dup.TXDONE
               /\ e \in {"seek", "xfer"} => ~rh.RDY

Micro == uAccess \/ uDismiss \/ uProgram \/ uIo \/ uDone \/ uXctgo \/ uPfpi1
         \/ uPi \/ uPi10 \/ uWru \/ uVecint \/ uLdpi2
Control == \/ \E s \in fitted \cap DOMAIN ToggleOf : uControl(ToggleOf[s])
           \/ /\ fitted \cap {"seek", "xfer"} # {} /\ rh.RDY /\ "rh" \notin ie
              /\ uControl("cs1GO")

Devices(e) == DzNext(e) /\ LpNext(e) /\ DupNext(e) /\ RhNext(e) /\ AprNext(e)
              /\ IeNext /\ UbaIntrNext /\ PiNext /\ UNCHANGED fitted

Init == /\ fitted \in Fitted
        /\ dz = [rx |-> "IDLE", tx |-> "IDLE", arb |-> "IDLE", rxVECTOR |-> FALSE,
                 RRDY |-> FALSE, scan |-> "SCAN"]
        /\ lp = "IDLE"
        /\ dup = [rx |-> "IDLE", tx |-> "IDLE", RXDONE |-> FALSE, TXDONE |-> FALSE,
                  rd |-> FALSE]
        /\ rh = [IFF |-> FALSE, RDY |-> TRUE, lastRDY |-> TRUE, ATA |-> FALSE]
        /\ ie = DOMAIN ToggleOf /\ devINTA = [u \in Units |-> 0] /\ apr = FALSE
        /\ hwPi = {} /\ hwOn = TRUE /\ piINTR = FALSE /\ pi = {}
        /\ upc = "RUN" /\ bus = "none" /\ tick = 1 /\ lvl = 1 /\ unit = 1
        /\ stack = <<>> /\ left = MaxEvents

Quiet == Devices("none") /\ Micro /\ UNCHANGED left
Event(e) == Possible(e) /\ Devices(e) /\ Micro /\ left' = left - 1
Program == left > 0 /\ Devices("none") /\ Control /\ left' = left - 1
Next == Quiet \/ Program \/ \E e \in Sources : Event(e)
Spec == Init /\ [][Next]_vars
FairSpec == Spec /\ WF_vars(Next)

-----------------------------------------------------------------------------
(* Properties.                                                             *)

Accesses == {"rbufREAD", "tdrWRITE", "csraREAD", "rxcsrREAD", "rxdbufREAD",
             "txdbufWRITE", "asWRITE", "cs1GO", "WRAPR"}
Vectors  == {"rx", "tx", "lp", "duprx", "duptx", "rh", "apr", "zero"}
LineStates == {"IDLE", "ACTIVE", "VECTREAD", "WAIT", "DONE"}
Levels   == 1 .. 7

\* The types.  No more handlers are in progress than there are levels.
TypeOK ==
    /\ fitted \in Fitted
    /\ dz \in [rx : {"IDLE", "ACT", "WAIT", "DONE"}, tx : {"IDLE", "ACT", "WAIT", "DONE"},
               arb : {"IDLE", "IACK", "VECTREAD", "VECTCLR", "RXDONE", "TXDONE"},
               rxVECTOR : BOOLEAN, RRDY : BOOLEAN, scan : {"SCAN", "HOLD", "WAIT"}]
    /\ lp \in LineStates
    /\ dup \in [rx : LineStates, tx : LineStates, RXDONE : BOOLEAN, TXDONE : BOOLEAN,
                rd : BOOLEAN]
    /\ rh \in [IFF : BOOLEAN, RDY : BOOLEAN, lastRDY : BOOLEAN, ATA : BOOLEAN]
    /\ ie \subseteq DOMAIN ToggleOf \cup {"rh"} /\ apr \in BOOLEAN
    /\ devINTA \in [Units -> {0} \cup Low \cup High]
    /\ hwPi \subseteq Levels /\ hwOn \in BOOLEAN /\ piINTR \in BOOLEAN
    /\ pi \subseteq Levels /\ lvl \in Levels /\ unit \in Units
    /\ upc \in {"RUN", "IO", "DONE", "XCTGO", "PFPI1", "PI", "PI10", "WRU", "VECINT", "LDPI2"}
    /\ bus \in {"none", "wru", "vect"} \cup Accesses \cup {ToggleOf[s] : s \in DOMAIN ToggleOf}
    /\ tick \in 1 .. BusTicks /\ left \in 0 .. MaxEvents
    /\ Len(stack) <= 7
    /\ \A i \in DOMAIN stack : stack[i].level \in Levels /\ stack[i].vec \in Vectors

\* A device withdraws its request only when its own handler has been started:
\* no interrupt is taken from a device and given to nobody.
MachineOf == [rx |-> dz.rx, tx |-> dz.tx, lp |-> lp, duprx |-> dup.rx, duptx |-> dup.tx]
Started == {stack[i].vec : i \in DOMAIN stack}
NoneLost == \A s \in DOMAIN MachineOf : MachineOf[s] \in {"WAIT", "DONE"} => s \in Started

\* The vector that the microcode reads is that of a device of the adapter it
\* asked and that requests at the level being served.
Asks(vec) == CASE vec = "rx"            -> rxINTR
               [] vec = "tx"            -> txINTR
               [] vec = "lp"            -> lpINTR
               [] vec = "duprx"         -> dupRXINTR
               [] vec = "duptx"         -> dupTXINTR
               [] vec = "rh"            -> rhIRQ
               [] OTHER                 -> FALSE
VectorOfRequest == [][(upc = "VECINT" /\ upc' = "LDPI2")
                        => Asks(Head(stack').vec) /\ lvl \in busINTR(unit)]_vars

\* A request that has stopped an instruction stays until it is dispatched on:
\* the microcode never takes an interrupt for a page failure and never waits in
\* its dispatch for a level.
RequestStands == /\ upc = "PFPI1" => piINTR
                 /\ upc = "PI" => reqPRI < curPRI

\* Handlers are interrupted by higher levels only, and the hardware knows the
\* levels of the handlers in progress whenever an instruction runs.
Nested == /\ \A i, j \in DOMAIN stack : i < j => stack[i].level < stack[j].level
          /\ upc \in {"RUN", "IO", "DONE", "XCTGO"}
                => hwPi = {stack[i].level : i \in DOMAIN stack}

\* When nothing more happens, every interrupt has been served and dismissed.
Settles == <>[](stack = <<>> /\ requests \cap Levels = {})
=============================================================================
