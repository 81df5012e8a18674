--------------------------- MODULE UbaIntrProofs ---------------------------
(***************************************************************************)
(* Theorems about the interrupts of the Unibus devices, for every          *)
(* assignment of levels, every set of devices, every number of events and  *)
(* every length of a bus cycle.                                            *)
(***************************************************************************)
EXTENDS UbaIntr, TLAPS

-----------------------------------------------------------------------------
(* The priority encoders of pi.v.                                          *)

\* The least of a set of levels is one of them.
LEMMA LeastIn ==
    ASSUME NEW S, S \subseteq Levels, S # {}
    PROVE  Least(S) \in S /\ \A y \in S : Least(S) <= y
<1>1. \E x \in S : \A y \in S : x <= y
  <2>1. SUFFICES ASSUME \A x \in S : \E y \in S : y < x
                 PROVE  FALSE
    BY DEF Levels
  <2>2. 1 \notin S
    BY <2>1 DEF Levels
  <2>3. 2 \notin S
    BY <2>1, <2>2 DEF Levels
  <2>4. 3 \notin S
    BY <2>1, <2>2, <2>3 DEF Levels
  <2>5. 4 \notin S
    BY <2>1, <2>2, <2>3, <2>4 DEF Levels
  <2>6. 5 \notin S /\ 6 \notin S /\ 7 \notin S
    BY <2>1, <2>2, <2>3, <2>4, <2>5 DEF Levels
  <2>7. PICK x : x \in S /\ x \in 1 .. 7
    BY DEF Levels
  <2>8. QED
    BY <2>2, <2>3, <2>4, <2>5, <2>6, <2>7
<1>2. QED
  BY <1>1 DEF Least

\* The encoder gives eight for no level, else the level that goes first.
LEMMA HighestIs ==
    ASSUME NEW S, S \subseteq Levels
    PROVE  /\ Highest(S) \in 1 .. 8
           /\ Highest(S) # 8 => Highest(S) \in S
           /\ \A l \in S : Highest(S) <= l
<1>1. CASE S = {}
  BY <1>1 DEF Highest
<1>2. CASE S # {}
  <2>1. Least(S) \in S /\ (\A l \in S : Least(S) <= l) /\ Highest(S) = Least(S)
    BY <1>2, LeastIn DEF Highest
  <2>2. Least(S) \in 1 .. 7
    BY <2>1 DEF Levels
  <2>3. QED
    BY <2>1, <2>2
<1>3. QED
  BY <1>1, <1>2

\* The request that pi.v gives the microcode, and the level in progress.
LEMMA ReqIs ==
    /\ reqPRI \in 1 .. 8
    /\ reqPRI # 8 => hwOn /\ reqPRI \in requests /\ reqPRI \in Levels
    /\ hwOn => \A l \in requests \cap Levels : reqPRI <= l
<1>1. requests \cap 1 .. 7 \subseteq Levels
  BY DEF Levels
<1>2. CASE hwOn
  BY <1>1, <1>2, HighestIs DEF reqPRI, Levels
<1>3. CASE ~hwOn
  BY <1>3 DEF reqPRI
<1>4. QED
  BY <1>2, <1>3
LEMMA CurIs ==
    ASSUME hwPi \subseteq Levels
    PROVE  /\ curPRI \in 1 .. 8 /\ (curPRI # 8 => curPRI \in hwPi)
           /\ \A l \in hwPi : curPRI <= l
BY HighestIs DEF curPRI

-----------------------------------------------------------------------------
(* The stack of handlers.                                                  *)

Handlers == {<<"rbufREAD">>, <<"tdrWRITE">>, <<"csraREAD">>, <<"rxdbufREAD">>,
             <<"rxcsrREAD", "rxdbufREAD">>, <<"txdbufWRITE">>, <<"asWRITE">>,
             <<"WRAPR">>, <<>>}
Frame == [level : Levels, vec : Vectors, todo : Seq(Accesses)]

LEMMA HandlerTypes ==
    \A h \in Handlers : h \in Seq(Accesses)
<1>1. \A a \in Accesses : <<a>> \in Seq(Accesses)
  OBVIOUS
<1>2. \A a, b \in Accesses : <<a, b>> \in Seq(Accesses)
  OBVIOUS
<1>3. <<>> \in Seq(Accesses)
  OBVIOUS
<1>4. {"rbufREAD", "tdrWRITE", "csraREAD", "rxcsrREAD", "rxdbufREAD", "txdbufWRITE",
       "asWRITE", "WRAPR"} \subseteq Accesses
  BY DEF Accesses
<1>5. QED
  BY <1>1, <1>2, <1>3, <1>4 DEF Handlers

\* A handler that is started goes on top.
LEMMA Pushed ==
    ASSUME NEW s \in Seq(Frame), NEW f \in Frame
    PROVE  /\ <<f>> \o s \in Seq(Frame) /\ Len(<<f>> \o s) = Len(s) + 1
           /\ (<<f>> \o s)[1] = f
           /\ DOMAIN (<<f>> \o s) = 1 .. Len(s) + 1 /\ DOMAIN s = 1 .. Len(s)
           /\ \A i \in 1 .. Len(s) : (<<f>> \o s)[i + 1] = s[i]
OBVIOUS

\* A handler that dismisses was on top.
LEMMA Popped ==
    ASSUME NEW s \in Seq(Frame), s # <<>>
    PROVE  /\ Tail(s) \in Seq(Frame) /\ Len(Tail(s)) = Len(s) - 1
           /\ DOMAIN Tail(s) = 1 .. Len(s) - 1 /\ DOMAIN s = 1 .. Len(s)
           /\ Len(s) \in Nat \ {0} /\ s[1] = Head(s) /\ s[1] \in Frame
           /\ \A i \in 1 .. Len(s) - 1 : Tail(s)[i] = s[i + 1]
OBVIOUS

\* A handler that makes an access is the top one and stays in its place.
Stepped(s) == <<[Head(s) EXCEPT !.todo = Tail(@)]>> \o Tail(s)
LEMMA SteppedIs ==
    ASSUME NEW s \in Seq(Frame), s # <<>>, Head(s).todo # <<>>
    PROVE  /\ Stepped(s) \in Seq(Frame) /\ Len(Stepped(s)) = Len(s)
           /\ DOMAIN Stepped(s) = DOMAIN s /\ DOMAIN s = 1 .. Len(s) /\ 1 \in DOMAIN s
           /\ s[1] = Head(s) /\ Head(s[1].todo) \in Accesses
           /\ Stepped(s)[1].todo = Tail(s[1].todo)
           /\ \A i \in DOMAIN s : /\ Stepped(s)[i].level = s[i].level
                                  /\ Stepped(s)[i].vec = s[i].vec
           /\ \A i \in DOMAIN s \ {1} : Stepped(s)[i] = s[i]
<1> DEFINE f == [Head(s) EXCEPT !.todo = Tail(@)]
<1>1. s[1] = Head(s) /\ s[1] \in Frame /\ Len(s) \in Nat \ {0}
  OBVIOUS
<1>2. s[1].todo \in Seq(Accesses) /\ s[1].todo # <<>>
  BY <1>1 DEF Frame
<1>3. Head(s[1].todo) \in Accesses /\ Tail(s[1].todo) \in Seq(Accesses)
  BY <1>2
<1>4. f \in Frame /\ f.level = s[1].level /\ f.vec = s[1].vec /\ f.todo = Tail(s[1].todo)
  BY <1>1, <1>3 DEF Frame
<1>5. Stepped(s) = <<f>> \o Tail(s)
  BY DEF Stepped
<1>6. Tail(s) \in Seq(Frame)
  BY Popped
<1> HIDE DEF f
<1>7. /\ Stepped(s) \in Seq(Frame) /\ Len(Stepped(s)) = Len(Tail(s)) + 1
      /\ Stepped(s)[1] = f /\ DOMAIN Stepped(s) = 1 .. Len(Tail(s)) + 1
      /\ \A i \in 1 .. Len(Tail(s)) : Stepped(s)[i + 1] = Tail(s)[i]
  BY <1>4, <1>5, <1>6, Pushed
<1>8. /\ Len(Tail(s)) = Len(s) - 1 /\ DOMAIN s = 1 .. Len(s)
      /\ \A i \in 1 .. Len(s) - 1 : Tail(s)[i] = s[i + 1]
  BY Popped
<1>9. ASSUME NEW i \in DOMAIN s \ {1}
      PROVE  Stepped(s)[i] = s[i]
  <2>1. i - 1 \in 1 .. Len(s) - 1 /\ (i - 1) + 1 = i
    BY <1>1, <1>8
  <2>2. QED
    BY <1>7, <1>8, <2>1
<1>10. QED
  BY <1>1, <1>3, <1>4, <1>7, <1>8, <1>9

-----------------------------------------------------------------------------
(* The microcode: its bus cycles, the levels in progress and the stack.    *)

MicroStates == {"RUN", "IO", "DONE", "XCTGO", "PFPI1", "PI", "PI10", "WRU", "VECINT", "LDPI2"}
Taking      == {"PI10", "WRU", "VECINT"}
Toggles     == {ToggleOf[s] : s \in DOMAIN ToggleOf}
Registers   == Accesses \cup Toggles

CpuTypes == /\ pi \subseteq Levels /\ lvl \in Levels /\ unit \in Units
            /\ upc \in MicroStates /\ bus \in {"none", "wru", "vect"} \cup Registers
            /\ tick \in 1 .. BusTicks
            /\ hwPi \subseteq Levels /\ hwOn \in BOOLEAN /\ stack \in Seq(Frame)

\* Which microinstruction runs which bus cycle.
BusAt == /\ upc = "WRU" <=> bus = "wru"
         /\ upc = "VECINT" <=> bus = "vect"
         /\ upc = "IO" <=> bus \in Registers

\* The PI system is off from the WRU cycle to the handler, and knows the levels
\* in progress while instructions run.
HwAt == /\ upc \notin {"WRU", "VECINT", "LDPI2"} => hwOn
        /\ upc \in {"RUN", "IO", "DONE", "XCTGO", "PFPI1", "PI"} => hwPi = pi

\* The levels in progress are those of the handlers and the one being taken,
\* which goes before them; there is room for the levels that go before the top.
LevelsIn == {stack[i].level : i \in DOMAIN stack}
PiAt     == /\ pi = LevelsIn \cup {l \in {lvl} : upc \in Taking}
            /\ upc \in Taking => \A i \in DOMAIN stack : lvl < stack[i].level
Ordered  == \A i, j \in DOMAIN stack : i < j => stack[i].level < stack[j].level
Room     == \A i \in DOMAIN stack : stack[i].level + Len(stack) <= 7 + i
StackOK  == stack \in Seq(Frame) /\ PiAt /\ Ordered /\ Room

\* The level being taken is one of the three that can be requested, and the
\* vector is asked of the first adapter that has it.
LvlAt  == upc \in Taking => lvl \in {PIH[1], PIL[3], AprLevel}
UnitAt == upc = "VECINT" => /\ lvl \in {PIH[unit], PIL[unit]}
                            /\ unit = 3 => lvl \notin {PIH[1], PIL[1]}

\* A request that is seen is one that stands.
Stand == /\ upc = "XCTGO" /\ piINTR => Interrupts
         /\ upc = "PFPI1" => piINTR /\ Interrupts
         /\ upc = "PI" => Interrupts

\* No cycle is named like another.
LEMMA BusNames ==
    /\ "none" \notin Registers /\ "wru" \notin Registers /\ "vect" \notin Registers
    /\ Accesses \subseteq Registers
    /\ \A s \in DOMAIN ToggleOf : ToggleOf[s] \in Registers
BY DEF Registers, Accesses, Toggles, ToggleOf

\* Every handler in progress has a level.
LEMMA LevelTypes ==
    ASSUME NEW s \in Seq(Frame)
    PROVE  /\ Len(s) \in Nat /\ DOMAIN s = 1 .. Len(s)
           /\ \A i \in DOMAIN s : s[i] \in Frame /\ s[i].level \in 1 .. 7
<1>1. ASSUME NEW i \in DOMAIN s
      PROVE  s[i] \in Frame /\ s[i].level \in 1 .. 7
  <2>1. s[i] \in Frame
    OBVIOUS
  <2>2. QED
    BY <2>1 DEF Frame, Levels
<1>2. QED
  BY <1>1

\* The levels in progress stay those of the stack, in whatever the microcode does.
LEMMA StackWhole ==
    ASSUME CpuTypes, StackOK, BusAt, Stand, HwAt, Micro \/ Control
    PROVE  StackOK'
<1> DEFINE Plain == /\ stack' = stack /\ pi' = pi
                    /\ upc' \in Taking <=> upc \in Taking
                    /\ upc' \in Taking => lvl' = lvl
<1>1. ASSUME Plain
      PROVE  StackOK'
  BY <1>1 DEF StackOK, PiAt, LevelsIn, Ordered, Room
<1>2. ASSUME uProgram \/ (\E a : uControl(a)) \/ uIo \/ uDone \/ uXctgo \/ uPfpi1 \/ uLdpi2
      PROVE  StackOK'
  <2>1. Plain
    BY <1>2 DEF uProgram, uControl, uIo, uDone, uXctgo, uPfpi1, uLdpi2, Taking, Go, CycleLasts
  <2>2. QED
    BY <1>1, <2>1
<1>3. CASE uAccess
  <2>1. stack # <<>> /\ Head(stack).todo # <<>> /\ stack' = Stepped(stack) /\ pi' = pi
        /\ upc = "RUN" /\ upc' = "IO"
    BY <1>3 DEF uAccess, Stepped, Go
  <2>2. /\ stack \in Seq(Frame) /\ stack' \in Seq(Frame) /\ Len(stack') = Len(stack)
        /\ DOMAIN stack' = DOMAIN stack
        /\ \A i \in DOMAIN stack : stack'[i].level = stack[i].level
    BY <2>1, SteppedIs DEF CpuTypes
  <2>3. LevelsIn' = LevelsIn /\ PiAt'
    BY <2>1, <2>2 DEF LevelsIn, StackOK, PiAt, Taking
  <2>4. Ordered' /\ Room'
    BY <2>2 DEF StackOK, Ordered, Room
  <2>5. QED
    BY <2>2, <2>3, <2>4 DEF StackOK
<1>4. CASE uDismiss
  <2>1. stack # <<>> /\ stack' = Tail(stack) /\ pi' = pi \ {Least(pi)} /\ upc = "RUN"
        /\ upc' = "LDPI2"
    BY <1>4 DEF uDismiss, Go
  <2>2. /\ stack' \in Seq(Frame) /\ Len(stack') = Len(stack) - 1
        /\ DOMAIN stack' = 1 .. Len(stack) - 1 /\ DOMAIN stack = 1 .. Len(stack)
        /\ Len(stack) \in Nat \ {0}
        /\ \A i \in 1 .. Len(stack) - 1 : stack'[i] = stack[i + 1]
    BY <2>1, Popped DEF CpuTypes
  <2>3. \A i \in DOMAIN stack : stack[i].level \in Levels
    BY LevelTypes DEF CpuTypes, Levels
  <2>4. LevelsIn = pi /\ pi # {} /\ pi \subseteq Levels
    <3>1. LevelsIn = pi /\ pi \subseteq Levels
      BY <2>1 DEF StackOK, PiAt, Taking, CpuTypes
    <3>2. stack[1].level \in LevelsIn
      BY <2>2 DEF LevelsIn
    <3>3. QED
      BY <3>1, <3>2
  <2>5. Least(pi) = stack[1].level
    <3>1. Least(pi) \in pi /\ \A y \in pi : Least(pi) <= y
      BY <2>4, LeastIn
    <3>2. stack[1].level \in pi
      BY <2>2, <2>4 DEF LevelsIn
    <3>3. PICK i \in DOMAIN stack : Least(pi) = stack[i].level
      BY <2>4, <3>1 DEF LevelsIn
    <3>4. CASE i = 1
      BY <3>3, <3>4
    <3>5. CASE i # 1
      <4>1. stack[1].level < stack[i].level
        BY <2>2, <3>5 DEF StackOK, Ordered
      <4>2. stack[i].level <= stack[1].level
        BY <3>1, <3>2, <3>3
      <4>3. stack[1].level \in 1 .. 7 /\ stack[i].level \in 1 .. 7
        BY <2>2, LevelTypes DEF CpuTypes
      <4>4. QED
        BY <4>1, <4>2, <4>3
    <3>6. QED
      BY <3>4, <3>5
  <2>6. LevelsIn' = pi'
    <3>1. ASSUME NEW l \in LevelsIn'
          PROVE  l \in pi'
      <4>1. PICK i \in 1 .. Len(stack) - 1 : l = stack[i + 1].level
        BY <3>1, <2>2 DEF LevelsIn
      <4>2. i + 1 \in DOMAIN stack /\ 1 \in DOMAIN stack /\ 1 < i + 1
        BY <2>2
      <4>3. stack[1].level < stack[i + 1].level
        BY <4>2 DEF StackOK, Ordered
      <4>4. l \in LevelsIn /\ l # stack[1].level
        BY <4>1, <4>2, <4>3, <2>3 DEF LevelsIn, Levels
      <4>5. QED
        BY <4>4, <2>1, <2>4, <2>5
    <3>2. ASSUME NEW l \in pi'
          PROVE  l \in LevelsIn'
      <4>1. PICK i \in DOMAIN stack : l = stack[i].level /\ i # 1
        BY <2>1, <2>4, <2>5 DEF LevelsIn
      <4>2. i - 1 \in DOMAIN stack' /\ stack'[i - 1] = stack[i]
        <5>1. i - 1 \in 1 .. Len(stack) - 1 /\ (i - 1) + 1 = i
          BY <4>1, <2>2
        <5>2. QED
          BY <5>1, <2>2
      <4>3. QED
        BY <4>1, <4>2 DEF LevelsIn
    <3>3. QED
      BY <3>1, <3>2
  <2>7. PiAt'
    BY <2>1, <2>6 DEF PiAt, Taking
  <2>8. Ordered' /\ Room'
    <3>1. \A i \in DOMAIN stack' : i \in Nat /\ i + 1 \in DOMAIN stack /\ stack'[i] = stack[i + 1]
      BY <2>2
    <3>2. Ordered'
      BY <2>2, <3>1 DEF StackOK, Ordered
    <3>3. ASSUME NEW i \in DOMAIN stack'
          PROVE  stack'[i].level + Len(stack') <= 7 + i
      <4>1. /\ stack[i + 1].level + Len(stack) <= 7 + (i + 1) /\ i \in Nat
            /\ stack'[i].level = stack[i + 1].level /\ stack[i + 1].level \in Nat
        BY <3>1, <3>3, <2>3 DEF StackOK, Room, Levels
      <4>2. QED
        BY <4>1, <2>2
    <3>4. QED
      BY <3>2, <3>3 DEF Room
  <2>9. QED
    BY <2>2, <2>7, <2>8 DEF StackOK
<1>5. CASE uPi
  <2>1. reqPRI < curPRI /\ upc = "PI" /\ hwPi = pi
    BY <1>5 DEF Stand, uPi, Interrupts, HwAt
  <2>2. reqPRI # 8 /\ pi \subseteq Levels
    BY <2>1, ReqIs, CurIs DEF CpuTypes
  <2>3. /\ lvl' = reqPRI /\ pi' = pi \cup {reqPRI} /\ stack' = stack /\ upc' = "PI10"
    BY <1>5, <2>2 DEF uPi, Go
  <2>4. \A l \in pi : reqPRI < l
    <3>1. \A l \in pi : curPRI <= l
      BY <2>1, <2>2, CurIs
    <3>2. QED
      BY <2>1, <2>2, <3>1, ReqIs, CurIs DEF Levels
  <2>5. pi = LevelsIn
    BY <2>1 DEF StackOK, PiAt, Taking
  <2>6. PiAt'
    BY <2>3, <2>4, <2>5 DEF PiAt, Taking, LevelsIn
  <2>7. QED
    BY <2>3, <2>6 DEF StackOK, Ordered, Room
<1>6. ASSUME NEW vec \in Vectors, StartHandler(vec), upc \in Taking
      PROVE  StackOK'
  <2>1. PICK h \in Handlers : stack' = <<[level |-> lvl, vec |-> vec, todo |-> h]>> \o stack
    BY <1>6 DEF StartHandler, HandlerOf, Handlers
  <2>2. [level |-> lvl, vec |-> vec, todo |-> h] \in Frame
    BY HandlerTypes DEF CpuTypes, Frame
  <2>3. /\ stack' \in Seq(Frame) /\ Len(stack') = Len(stack) + 1 /\ Len(stack) \in Nat
        /\ stack'[1].level = lvl
        /\ DOMAIN stack' = 1 .. Len(stack) + 1 /\ DOMAIN stack = 1 .. Len(stack)
        /\ \A i \in 1 .. Len(stack) : stack'[i + 1] = stack[i]
    BY <2>1, <2>2, Pushed DEF CpuTypes
  <2>4. ASSUME NEW i \in DOMAIN stack', i # 1
        PROVE  i - 1 \in DOMAIN stack /\ stack'[i] = stack[i - 1]
    <3>1. i - 1 \in 1 .. Len(stack) /\ (i - 1) + 1 = i
      BY <2>3, <2>4
    <3>2. QED
      BY <3>1, <2>3
  <2>5. LevelsIn' = LevelsIn \cup {lvl}
    <3>1. ASSUME NEW l \in LevelsIn'
          PROVE  l \in LevelsIn \cup {lvl}
      BY <3>1, <2>3, <2>4 DEF LevelsIn
    <3>2. ASSUME NEW l \in LevelsIn
          PROVE  l \in LevelsIn'
      <4>1. PICK i \in DOMAIN stack : l = stack[i].level
        BY <3>2 DEF LevelsIn
      <4>2. i + 1 \in DOMAIN stack' /\ stack'[i + 1] = stack[i]
        BY <2>3
      <4>3. QED
        BY <4>1, <4>2 DEF LevelsIn
    <3>3. 1 \in DOMAIN stack'
      BY <2>3
    <3>4. QED
      BY <2>3, <3>1, <3>2, <3>3 DEF LevelsIn
  <2>6. pi' = pi /\ upc' = "LDPI2" /\ pi = LevelsIn \cup {lvl}
        /\ \A i \in DOMAIN stack : lvl < stack[i].level
    BY <1>6 DEF StartHandler, Go, StackOK, PiAt
  <2>7. PiAt'
    BY <2>5, <2>6 DEF PiAt, Taking
  <2>8. Ordered'
    <3>1. SUFFICES ASSUME NEW i \in DOMAIN stack', NEW j \in DOMAIN stack', i < j
                   PROVE  stack'[i].level < stack'[j].level
      BY DEF Ordered
    <3>2. j # 1 /\ j - 1 \in DOMAIN stack /\ stack'[j] = stack[j - 1]
      BY <3>1, <2>3, <2>4
    <3>3. CASE i = 1
      BY <3>2, <3>3, <2>3, <2>6
    <3>4. CASE i # 1
      <4>1. i - 1 \in DOMAIN stack /\ stack'[i] = stack[i - 1] /\ i - 1 < j - 1
        BY <3>1, <3>4, <2>3, <2>4
      <4>2. QED
        BY <3>2, <4>1 DEF StackOK, Ordered
    <3>5. QED
      BY <3>3, <3>4
  <2>9. Room'
    <3>1. SUFFICES ASSUME NEW i \in DOMAIN stack'
                   PROVE  stack'[i].level + Len(stack') <= 7 + i
      BY DEF Room
    <3>2. CASE i = 1 /\ Len(stack) = 0
      BY <3>2, <2>3 DEF CpuTypes, Levels
    <3>3. CASE i = 1 /\ Len(stack) # 0
      <4>1. 1 \in DOMAIN stack /\ stack[1].level \in 1 .. 7
        BY <3>3, <2>3, LevelTypes DEF CpuTypes
      <4>2. lvl < stack[1].level /\ stack[1].level + Len(stack) <= 7 + 1
        BY <4>1, <2>6 DEF StackOK, Room
      <4>3. QED
        BY <3>3, <4>1, <4>2, <2>3 DEF CpuTypes, Levels
    <3>4. CASE i # 1
      <4>1. i - 1 \in DOMAIN stack /\ stack'[i].level = stack[i - 1].level /\ i \in Nat
        BY <3>4, <2>3, <2>4
      <4>2. stack[i - 1].level \in 1 .. 7
        BY <4>1, LevelTypes DEF CpuTypes
      <4>3. stack[i - 1].level + Len(stack) <= 7 + (i - 1)
        BY <4>1 DEF StackOK, Room
      <4>4. Len(stack) \in Nat /\ Len(stack') = Len(stack) + 1
        BY <2>3
      <4>5. \A x \in 1 .. 7, n, k \in Nat : x + n <= 7 + (k - 1) => x + (n + 1) <= 7 + k
        OBVIOUS
      <4>6. stack[i - 1].level + (Len(stack) + 1) <= 7 + i
        BY <4>1, <4>2, <4>3, <4>4, <4>5
      <4>7. QED
        BY <4>1, <4>4, <4>6
    <3>5. QED
      BY <3>2, <3>3, <3>4, <2>3
  <2>10. QED
    BY <2>3, <2>7, <2>8, <2>9 DEF StackOK
<1>7. CASE uPi10
  BY <1>1, <1>7 DEF uPi10, Taking, Go
<1>8. CASE uWru
  <2>1. CASE StartHandler("apr")
    BY <1>6, <1>8, <2>1 DEF uWru, Taking, Vectors
  <2>2. CASE ~StartHandler("apr")
    BY <1>1, <1>8, <2>2 DEF uWru, Taking, Go, CycleLasts
  <2>3. QED
    BY <2>1, <2>2
<1>9. CASE uVecint
  <2>1. CASE StartHandler(Vector(unit))
    <3>1. Vector(unit) \in Vectors
      BY DEF Vector, Vectors
    <3>2. QED
      BY <1>6, <1>9, <2>1, <3>1 DEF uVecint, Taking
  <2>2. CASE ~StartHandler(Vector(unit))
    BY <1>1, <1>9, <2>2 DEF uVecint, Taking, Go, CycleLasts
  <2>3. QED
    BY <2>1, <2>2
<1>10. QED
  BY <1>2, <1>3, <1>4, <1>5, <1>7, <1>8, <1>9 DEF Micro, Control

\* A clock of the microcode keeps the types, the place of the bus cycles, and
\* what the hardware knows.
LEMMA MicroPlace ==
    ASSUME CpuTypes, StackOK, BusAt, HwAt, Stand, Micro \/ Control
    PROVE  CpuTypes' /\ BusAt' /\ HwAt'
<1> USE BusNames DEF BusAt, HwAt, CpuTypes, Cycle, Go, HoldBus, HoldPi, MicroStates
<1>1. stack' \in Seq(Frame)
  BY StackWhole DEF StackOK
<1>2. 1 \in 1 .. BusTicks
  BY IntrAssumption
<1>3. ASSUME CycleLasts
      PROVE  CpuTypes' /\ BusAt' /\ HwAt'
  BY <1>3, IntrAssumption DEF CycleLasts
<1>4. ASSUME NEW a \in Registers, upc = "RUN", Cycle(a), Go("IO"), HoldPi,
             UNCHANGED <<lvl, unit, pi>>
      PROVE  CpuTypes' /\ BusAt' /\ HwAt'
  BY <1>1, <1>2, <1>4
<1>5. CASE uAccess
  <2>1. Head(Head(stack).todo) \in Registers
    BY <1>5, SteppedIs DEF uAccess
  <2>2. QED
    BY <1>4, <1>5, <2>1 DEF uAccess
<1>6. CASE uDismiss
  BY <1>1, <1>6 DEF uDismiss
<1>7. CASE uProgram \/ uDone \/ uXctgo \/ uPfpi1
  <2>1. upc = "PFPI1" => piINTR
    BY DEF Stand
  <2>2. QED
    BY <1>1, <1>7, <2>1 DEF uProgram, uDone, uXctgo, uPfpi1
<1>8. CASE Control
  <2>1. PICK a \in Registers : uControl(a)
    BY <1>8 DEF Control, Accesses
  <2>2. QED
    BY <1>4, <2>1 DEF uControl
<1>9. CASE uIo
  <2>1. CASE CycleLasts
    BY <1>3, <2>1
  <2>2. CASE ~CycleLasts
    BY <1>1, <1>2, <1>9, <2>2 DEF uIo
  <2>3. QED
    BY <2>1, <2>2
<1>10. CASE uPi
  <2>1. reqPRI < curPRI /\ reqPRI # 8
    BY <1>10, ReqIs, CurIs DEF Stand, uPi, Interrupts
  <2>2. reqPRI \in Levels
    BY <2>1, ReqIs
  <2>3. QED
    BY <1>1, <1>10, <2>1, <2>2 DEF uPi
<1>11. CASE uPi10
  BY <1>1, <1>2, <1>11 DEF uPi10
<1>12. ASSUME NEW vec, StartHandler(vec), upc \in Taking
       PROVE  CpuTypes' /\ BusAt' /\ HwAt'
  BY <1>1, <1>2, <1>12 DEF StartHandler, Taking
<1>13. CASE uWru
  <2>1. CASE CycleLasts
    BY <1>3, <2>1
  <2>2. CASE StartHandler("apr")
    BY <1>12, <1>13, <2>2 DEF uWru, Taking
  <2>3. CASE ~CycleLasts /\ ~StartHandler("apr")
    <3>1. wruACK # {} /\ wruACK \subseteq Units /\ wruACK \subseteq Levels
      BY <1>13, <2>3 DEF uWru, wruACK, Units, Levels
    <3>2. Least(wruACK) \in Units
      BY <3>1, LeastIn
    <3>3. QED
      BY <1>1, <1>2, <1>13, <2>3, <3>2 DEF uWru
  <2>4. QED
    BY <2>1, <2>2, <2>3
<1>14. CASE uVecint
  BY <1>3, <1>12, <1>14 DEF uVecint, Taking
<1>15. CASE uLdpi2
  BY <1>1, <1>15 DEF uLdpi2
<1>16. QED
  BY <1>5, <1>6, <1>7, <1>8, <1>9, <1>10, <1>11, <1>13, <1>14, <1>15 DEF Micro

\* Only three levels can be requested.
LEMMA ReqLevels ==
    requests \subseteq {PIH[1], PIL[3], AprLevel}
<1>1. busINTR(1) \subseteq {PIH[1]}
  BY DEF busINTR, devINTR, High, Low
<1>2. busINTR(3) \subseteq {PIL[3]}
  BY DEF busINTR, devINTR, High, Low
<1>3. QED
  BY <1>1, <1>2 DEF requests

\* The level being taken was requested, and the adapter asked for the vector is
\* the first that has it.
LEMMA TakenPlace ==
    ASSUME CpuTypes, BusAt, HwAt, Stand, LvlAt, UnitAt, Micro \/ Control
    PROVE  LvlAt' /\ UnitAt'
<1> USE DEF LvlAt, UnitAt, Taking, Go
<1>1. CASE uPi
  <2>1. reqPRI # 8
    BY <1>1, ReqIs, CurIs DEF Stand, uPi, Interrupts, CpuTypes
  <2>2. reqPRI \in {PIH[1], PIL[3], AprLevel}
    BY <2>1, ReqIs, ReqLevels
  <2>3. QED
    BY <1>1, <2>1, <2>2 DEF uPi
<1>2. CASE uWru
  <2>1. CASE CycleLasts \/ StartHandler("apr")
    BY <1>2, <2>1 DEF CycleLasts, StartHandler
  <2>2. CASE ~CycleLasts /\ ~StartHandler("apr")
    <3>1. wruACK # {} /\ wruACK \subseteq Units /\ unit' = Least(wruACK) /\ lvl' = lvl
          /\ upc = "WRU" /\ upc' = "VECINT" /\ wruACK \subseteq Levels
      BY <1>2, <2>2 DEF uWru, wruACK, Units, Levels
    <3>2. unit' \in wruACK /\ \A u \in wruACK : unit' <= u
      BY <3>1, LeastIn
    <3>3. lvl \in {PIH[unit'], PIL[unit']}
      BY <3>2 DEF wruACK
    <3>4. ASSUME unit' = 3 PROVE lvl \notin {PIH[1], PIL[1]}
      BY <3>2, <3>4 DEF wruACK, Units
    <3>5. QED
      BY <3>1, <3>3, <3>4
  <2>3. QED
    BY <2>1, <2>2
<1>3. CASE uPi10 \/ uVecint
  BY <1>3 DEF uPi10, uVecint, CycleLasts, StartHandler
<1>4. CASE ~uPi /\ ~uPi10 /\ ~uWru /\ ~uVecint
  <2>1. upc' \notin Taking
    BY <1>4 DEF Micro, Control, uAccess, uDismiss, uProgram, uControl, uIo, uDone,
                uXctgo, uPfpi1, uLdpi2, CycleLasts
  <2>2. QED
    BY <2>1
<1>5. QED
  BY <1>1, <1>2, <1>3, <1>4

-----------------------------------------------------------------------------
(* The devices.                                                            *)

DzTypes  == dz \in [rx : {"IDLE", "ACT", "WAIT", "DONE"}, tx : {"IDLE", "ACT", "WAIT", "DONE"},
                    arb : {"IDLE", "IACK", "VECTREAD", "VECTCLR", "RXDONE", "TXDONE"},
                    rxVECTOR : BOOLEAN, RRDY : BOOLEAN, scan : {"SCAN", "HOLD", "WAIT"}]
DupTypes == dup \in [rx : LineStates, tx : LineStates, RXDONE : BOOLEAN, TXDONE : BOOLEAN,
                     rd : BOOLEAN]
RhTypes  == rh \in [IFF : BOOLEAN, RDY : BOOLEAN, lastRDY : BOOLEAN, ATA : BOOLEAN]
DevTypes == /\ fitted \in Fitted /\ DzTypes /\ lp \in LineStates /\ DupTypes /\ RhTypes
            /\ ie \subseteq DOMAIN ToggleOf \cup {"rh"} /\ apr \in BOOLEAN
            /\ devINTA \in [Units -> {0} \cup Low \cup High] /\ piINTR \in BOOLEAN

\* Wires that are true or false.
LEMMA WireTypes ==
    ASSUME DzTypes
    PROVE  rxINTR \in BOOLEAN /\ rhIACK \in BOOLEAN /\ Interrupts \in BOOLEAN
<1>1. rxINTR \in BOOLEAN
  BY Zenon DEF rxINTR
<1>2. rhIACK \in BOOLEAN
  BY Zenon DEF rhIACK
<1>3. Interrupts \in BOOLEAN
  BY DEF Interrupts
<1>4. QED
  BY <1>1, <1>2, <1>3

\* A clock of the devices keeps the types of their registers.
LEMMA DeviceTypes ==
    ASSUME DevTypes, NEW e, Devices(e)
    PROVE  DevTypes'
<1>1. DzTypes'
  <2>1. DzNext(e) /\ DzTypes
    BY DEF DevTypes, Devices
  <2>2. ASSUME NEW s \in {"IDLE", "ACT", "WAIT", "DONE"}, NEW r, NEW c, NEW d
        PROVE  DzSide(s, r, c, d) \in {"IDLE", "ACT", "WAIT", "DONE"}
    BY DEF DzSide, Rearm
  <2>3. DzArb \in {"IDLE", "IACK", "VECTREAD", "VECTCLR", "RXDONE", "TXDONE"}
    BY <2>1 DEF DzArb, DzTypes
  <2>4. rxVECTORNext \in BOOLEAN
    BY <2>1, WireTypes DEF rxVECTORNext, DzTypes
  <2>5. (e = "rx" \/ (dz.RRDY /\ ~(dz.rx = "DONE" /\ bus # "rbufREAD"))) \in BOOLEAN
    OBVIOUS
  <2>6. (CASE dz.scan = "SCAN" /\ e = "tx"         -> "HOLD"
           [] dz.scan = "HOLD" /\ bus = "tdrWRITE" -> "WAIT"
           [] dz.scan = "WAIT" /\ bus # "tdrWRITE" -> "SCAN"
           [] OTHER                                -> dz.scan) \in {"SCAN", "HOLD", "WAIT"}
    BY <2>1 DEF DzTypes
  <2>7. dz.rx \in {"IDLE", "ACT", "WAIT", "DONE"} /\ dz.tx \in {"IDLE", "ACT", "WAIT", "DONE"}
    BY <2>1 DEF DzTypes
  <2>8. QED
    BY <2>1, <2>2, <2>3, <2>4, <2>5, <2>6, <2>7 DEF DzTypes, DzNext
<1>2. ASSUME NEW s \in LineStates, NEW g, NEW v, NEW d
      PROVE  Taken(s, g, v, d) \in LineStates
  BY <1>2 DEF Taken, Rearm, LineStates
<1>3. lp' \in LineStates
  BY <1>2 DEF DevTypes, Devices, LpNext
<1>4. DupTypes'
  <2>1. dup.rx \in LineStates /\ dup.tx \in LineStates /\ DupNext(e)
    BY DEF DevTypes, DupTypes, Devices
  <2>2. /\ (e = "duprx" \/ (dup.RXDONE /\ ~(dup.rd /\ bus # "rxdbufREAD"))) \in BOOLEAN
        /\ (e = "duptx" \/ (dup.TXDONE /\ bus # "txdbufWRITE")) \in BOOLEAN
        /\ (bus = "rxdbufREAD") \in BOOLEAN
    OBVIOUS
  <2>3. QED
    BY <1>2, <2>1, <2>2 DEF DupTypes, DupNext
<1>5. RhTypes'
  <2>1. /\ (~rhIACK /\ (rh.IFF \/ (rh.RDY /\ ~rh.lastRDY /\ "rh" \in ie))) \in BOOLEAN
        /\ (bus # "asWRITE" /\ (rh.ATA \/ e \in {"attn", "seek"})) \in BOOLEAN
        /\ (rh.RDY \/ e \in {"seek", "xfer"}) \in BOOLEAN
    OBVIOUS
  <2>2. rh.RDY \in BOOLEAN
    BY DEF DevTypes, RhTypes
  <2>3. QED
    BY <2>1, <2>2 DEF Devices, RhNext, RhTypes
<1>6. ie' \subseteq DOMAIN ToggleOf \cup {"rh"}
  BY DEF DevTypes, Devices, IeNext, Toggled
<1>7. apr' \in BOOLEAN /\ fitted' \in Fitted
  BY DEF DevTypes, Devices, AprNext
<1>8. piINTR' \in BOOLEAN
  BY WireTypes DEF DevTypes, Devices, PiNext
<1>9. devINTA' \in [Units -> {0} \cup Low \cup High]
  <2>1. ASSUME NEW u \in Units
        PROVE  Granted(u) \in {0} \cup Low \cup High
    <3>1. ASSUME NEW S, S \subseteq devINTR(u), S # {}
          PROVE  Most(S) \in Low \cup High
      <4>1. S \subseteq {4, 5, 6}
        BY <3>1 DEF devINTR
      <4>2. \E x \in S : \A y \in S : x >= y
        <5>1. CASE 6 \in S
          BY <4>1, <5>1
        <5>2. CASE 6 \notin S /\ 5 \in S
          BY <4>1, <5>2
        <5>3. CASE 6 \notin S /\ 5 \notin S
          <6>1. S = {4}
            BY <3>1, <4>1, <5>3
          <6>2. QED
            BY <6>1
        <5>4. QED
          BY <5>1, <5>2, <5>3
      <4>3. Most(S) \in S
        BY <4>2 DEF Most
      <4>4. QED
        BY <4>1, <4>3 DEF Low, High
    <3>2. QED
      BY <3>1 DEF Granted
  <2>2. QED
    BY <2>1 DEF Devices, UbaIntrNext
<1>10. QED
  BY <1>1, <1>3, <1>4, <1>5, <1>6, <1>7, <1>8, <1>9 DEF DevTypes

\* A vector cycle takes the DZ11's arbiter on, and that releases the level that
\* it asked at only once its handler has been started.
ArbAt == /\ dz.arb = "VECTCLR" => /\ upc = "LDPI2" \/ (upc = "VECINT" /\ unit = 3)
                                  /\ PIL[3] \in pi
         /\ dz.arb \in {"RXDONE", "TXDONE"} => upc = "DONE" /\ PIL[3] \in pi

\* The other machines withdraw their request as the vector cycle ends.
LinesAt == "VECTREAD" \in {lp, dup.rx, dup.tx} => upc = "LDPI2" \/ (upc = "VECINT" /\ unit = 3)

\* The processor's own level is not one at which the microcode would ask
\* adapter 3 for the vector of a device that did not request there.
AprAlone == AprLevel # PIH[3]

\* After a vector cycle, either it lasts or the handler has been started; a
\* clock later the PI system is on.
LEMMA AfterVector ==
    ASSUME Micro \/ Control
    PROVE  /\ upc = "VECINT" => (upc' = "VECINT" \/ upc' = "LDPI2") /\ unit' = unit /\ pi' = pi
                                /\ lvl' = lvl
           /\ upc = "LDPI2" => upc' = "DONE" /\ pi' = pi /\ stack' = stack
BY DEF Micro, Control, uAccess, uDismiss, uProgram, uControl, uIo, uDone, uXctgo, uPfpi1,
       uPi, uPi10, uWru, uVecint, uLdpi2, Go, CycleLasts, StartHandler

\* A clock keeps the DZ11's arbiter in its place.
LEMMA ArbPlace ==
    ASSUME AprAlone, DzTypes, BusAt, LvlAt, UnitAt, PiAt, CpuTypes, ArbAt,
           NEW e, DzNext(e), Micro \/ Control
    PROVE  ArbAt'
<1>1. dz'.arb = DzArb
  BY DEF DzNext
<1>2. ASSUME vectREAD(3)
      PROVE  upc = "VECINT" /\ unit = 3 /\ PIL[3] \in pi
  BY <1>2 DEF AprAlone, vectREAD, BusAt, LvlAt, UnitAt, PiAt, Taking
<1>3. upc = "VECINT" /\ unit = 3 => vectREAD(3)
  BY DEF vectREAD, BusAt
<1>4. ASSUME dz'.arb = "VECTCLR"
      PROVE  vectREAD(3)
  BY <1>1, <1>3, <1>4 DEF DzArb, ArbAt, DzTypes
<1>5. ASSUME dz'.arb \in {"RXDONE", "TXDONE"}
      PROVE  upc = "LDPI2" /\ PIL[3] \in pi
  BY <1>1, <1>3, <1>5 DEF DzArb, ArbAt, DzTypes
<1>6. QED
  BY <1>2, <1>4, <1>5, AfterVector DEF ArbAt

\* A clock keeps the other machines in theirs.
LEMMA LinesPlace ==
    ASSUME BusAt, LinesAt, NEW e, LpNext(e), DupNext(e), Micro \/ Control
    PROVE  LinesAt'
<1>1. vectREAD(3) <=> upc = "VECINT" /\ unit = 3
  BY DEF vectREAD, BusAt
<1>2. ASSUME NEW s, NEW g, NEW v, NEW d, Taken(s, g, v, d) = "VECTREAD"
      PROVE  v
  BY <1>2 DEF Taken, Rearm
<1>3. ASSUME lp' = "VECTREAD"
      PROVE  vectREAD(3)
  BY <1>2, <1>3 DEF LpNext, lpVECT
<1>4. ASSUME dup'.rx = "VECTREAD"
      PROVE  vectREAD(3)
  BY <1>2, <1>4 DEF DupNext
<1>5. ASSUME dup'.tx = "VECTREAD"
      PROVE  vectREAD(3)
  BY <1>5 DEF DupNext, Taken, Rearm
<1>6. QED
  BY <1>1, <1>3, <1>4, <1>5, AfterVector DEF LinesAt

\* A request that stops an instruction is not withdrawn before the dispatch:
\* what was asked before stays, and what is taken leaves at a level in progress.
LEMMA Stands ==
    ASSUME DevTypes, CpuTypes, HwAt, ArbAt, LinesAt, Interrupts, BusAt,
           upc \in {"DONE", "XCTGO", "PFPI1"}, NEW e, Devices(e),
           hwPi' = hwPi, hwOn' = hwOn
    PROVE  Interrupts'
<1> DEFINE l == reqPRI
<1>1. l < curPRI /\ l \in requests /\ l \in Levels /\ hwOn /\ l \notin pi
  <2>1. l < curPRI /\ curPRI \in 1 .. 8 /\ hwPi = pi
    BY CurIs DEF Interrupts, CpuTypes, HwAt
  <2>2. l # 8 /\ l \in requests /\ l \in Levels /\ hwOn
    BY <2>1, ReqIs
  <2>3. \A k \in pi : curPRI <= k
    BY <2>1, CurIs DEF CpuTypes
  <2>4. QED
    BY <2>1, <2>2, <2>3 DEF Levels
<1>2. bus = "none" /\ ~rhIACK /\ ~vectREAD(3)
  BY DEF BusAt, CpuTypes, rhIACK, wruREAD, vectREAD
<1>3. ie' = ie
  BY <1>2 DEF Devices, IeNext, Toggled, ToggleOf
<1> HIDE DEF l
<1>4. ASSUME l \in busINTR(1) PROVE l \in requests'
  <2>1. rhIRQ /\ l = PIH[1]
    BY <1>4 DEF busINTR, devINTR, High, Low
  <2>2. rhIRQ'
    BY <1>2, <2>1 DEF Devices, RhNext, rhIRQ
  <2>3. QED
    BY <2>1, <2>2 DEF requests, busINTR, devINTR, High
<1>5. ASSUME l \in busINTR(3) PROVE l \in requests'
  <2>1. l = PIL[3] /\ devINTR(3) # {}
    BY <1>5 DEF busINTR, devINTR, High, Low
  <2>2. dz.arb \notin {"RXDONE", "TXDONE"} /\ "VECTREAD" \notin {lp, dup.rx, dup.tx}
    BY <1>1, <2>1 DEF ArbAt, LinesAt
  <2>3. rxINTR => rxINTR'
    BY <1>3, <2>2 DEF rxINTR, Devices, DzNext, DzSide, Rearm
  <2>4. txINTR => txINTR'
    BY <1>3, <2>2 DEF txINTR, Devices, DzNext, DzSide, Rearm
  <2>5. lpINTR => lpINTR'
    BY <1>2, <2>2 DEF lpINTR, Devices, LpNext, lpVECT, Taken, Rearm
  <2>6. dupRXINTR => dupRXINTR'
    BY <1>2, <2>2 DEF dupRXINTR, Devices, DupNext, Taken, Rearm
  <2>7. dupTXINTR => dupTXINTR'
    BY <1>2, <2>2 DEF dupTXINTR, Devices, DupNext, Taken, Rearm
  <2>8. devINTR(3)' \cap Low # {}
    BY <2>1, <2>3, <2>4, <2>5, <2>6, <2>7 DEF devINTR, Low
  <2>9. QED
    BY <2>1, <2>8 DEF requests, busINTR
<1>6. ASSUME l = AprLevel, apr PROVE l \in requests'
  BY <1>2, <1>6 DEF Devices, AprNext, requests
<1>7. l \in requests'
  BY <1>1, <1>4, <1>5, <1>6 DEF requests
<1>8. requests' \cap 1 .. 7 \subseteq Levels /\ l \in requests' \cap 1 .. 7
  BY <1>1, <1>7 DEF Levels
<1>9. Highest(requests' \cap 1 .. 7) <= l
  BY <1>8, HighestIs
<1>10. reqPRI' <= l
  BY <1>1, <1>9 DEF reqPRI
<1>11. curPRI' = curPRI
  BY DEF curPRI
<1>12. reqPRI' \in 1 .. 8 /\ curPRI \in 1 .. 8
  <2>1. reqPRI' = Highest(requests' \cap 1 .. 7)
    BY <1>1 DEF reqPRI
  <2>2. QED
    BY <1>8, <2>1, HighestIs, CurIs DEF CpuTypes
<1>13. QED
  BY <1>1, <1>10, <1>11, <1>12 DEF Interrupts, Levels

\* A clock keeps what the microcode knows of the requests.
LEMMA StandStep ==
    ASSUME DevTypes, CpuTypes, BusAt, HwAt, Stand, ArbAt, LinesAt, HwAt',
           NEW e, Devices(e), Micro \/ Control
    PROVE  Stand'
<1>1. piINTR' = Interrupts /\ Interrupts \in BOOLEAN
  BY WireTypes DEF Devices, PiNext, DevTypes
<1>2. CASE upc' \in {"XCTGO", "PFPI1", "PI"}
  <2>1. uDone \/ uXctgo \/ uPfpi1 \/ uPi
    BY <1>2 DEF Micro, Control, uAccess, uDismiss, uProgram, uControl, uIo, uDone, uXctgo,
                uPfpi1, uPi, uPi10, uWru, uVecint, uLdpi2, Go, CycleLasts, StartHandler
  <2>2. CASE uPi
    <3>1. reqPRI # 8
      BY <2>2, ReqIs, CurIs DEF Stand, uPi, Interrupts, CpuTypes
    <3>2. QED
      BY <2>2, <3>1 DEF uPi, Go, Stand
  <2>3. CASE uDone \/ uXctgo \/ uPfpi1
    <3>1. upc \in {"DONE", "XCTGO", "PFPI1"} /\ hwPi' = hwPi /\ hwOn' = hwOn
      BY <2>3 DEF uDone, uXctgo, uPfpi1, HoldPi
    <3>2. Interrupts => Interrupts'
      BY <3>1, Stands
    <3>3. /\ upc' = "XCTGO" => upc = "DONE"
          /\ upc' = "PFPI1" => upc = "XCTGO" /\ piINTR
          /\ upc' = "PI" => upc = "PFPI1"
      BY <1>2, <2>3 DEF uDone, uXctgo, uPfpi1, Go
    <3>4. QED
      BY <1>1, <3>2, <3>3 DEF Stand
  <2>4. QED
    BY <2>1, <2>2, <2>3
<1>3. CASE upc' \notin {"XCTGO", "PFPI1", "PI"}
  BY <1>3 DEF Stand
<1>4. QED
  BY <1>2, <1>3

-----------------------------------------------------------------------------
(* The invariant, and what follows from it.                                *)

IntrInv == /\ DevTypes /\ CpuTypes /\ left \in 0 .. MaxEvents
           /\ BusAt /\ HwAt /\ StackOK /\ LvlAt /\ UnitAt
           /\ Stand /\ ArbAt /\ LinesAt

\* A step is a clock of the devices and one of the microcode; an event is one
\* that may happen now.
LEMMA StepIs ==
    ASSUME Next, left \in 0 .. MaxEvents
    PROVE  /\ left' \in 0 .. MaxEvents
           /\ \E e : /\ Devices(e) /\ (Micro \/ Control)
                     /\ e \in Sources => Possible(e)
<1>1. "none" \notin Sources
  BY DEF Sources
<1>2. CASE Quiet
  BY <1>1, <1>2 DEF Quiet
<1>3. CASE Program
  BY <1>1, <1>3, IntrAssumption DEF Program
<1>4. ASSUME NEW e \in Sources, Event(e)
      PROVE  left' \in 0 .. MaxEvents /\ Devices(e) /\ Micro /\ Possible(e)
  BY <1>4, IntrAssumption DEF Event, Possible
<1>5. QED
  BY <1>2, <1>3, <1>4 DEF Next

LEMMA IntrInit ==
    Init => IntrInv
<1>1. SUFFICES ASSUME Init PROVE IntrInv
  OBVIOUS
<1>2. DevTypes
  <2>1. DzTypes /\ lp \in LineStates /\ DupTypes /\ RhTypes
    BY <1>1 DEF Init, DzTypes, DupTypes, RhTypes, LineStates
  <2>2. QED
    BY <1>1, <2>1 DEF Init, DevTypes
<1>3. stack = <<>> /\ stack \in Seq(Frame)
  BY <1>1 DEF Init
<1>4. CpuTypes /\ BusAt
  BY <1>1, <1>3, IntrAssumption, BusNames DEF Init, CpuTypes, BusAt, Levels, Units, MicroStates
<1>5. StackOK
  BY <1>1, <1>3 DEF Init, StackOK, PiAt, LevelsIn, Ordered, Room, Taking
<1>6. QED
  BY <1>1, <1>2, <1>4, <1>5, IntrAssumption
     DEF Init, IntrInv, HwAt, LvlAt, UnitAt, Stand, ArbAt, LinesAt, Taking

LEMMA IntrStep ==
    ASSUME AprAlone, IntrInv, Next
    PROVE  IntrInv'
<1>1. left' \in 0 .. MaxEvents
  BY StepIs DEF IntrInv
<1>2. PICK e : Devices(e) /\ (Micro \/ Control)
  BY StepIs DEF IntrInv
<1>3. DevTypes' /\ CpuTypes' /\ BusAt' /\ HwAt' /\ StackOK'
  BY <1>2, DeviceTypes, MicroPlace, StackWhole DEF IntrInv
<1>4. LvlAt' /\ UnitAt'
  BY <1>2, TakenPlace DEF IntrInv
<1>5. ArbAt' /\ LinesAt'
  BY <1>2, ArbPlace, LinesPlace DEF IntrInv, DevTypes, StackOK, Devices
<1>6. Stand'
  BY <1>2, <1>3, StandStep DEF IntrInv
<1>7. QED
  BY <1>1, <1>3, <1>4, <1>5, <1>6 DEF IntrInv

LEMMA IntrInvariant ==
    ASSUME AprAlone
    PROVE  Spec => []IntrInv
<1>1. ASSUME IntrInv, UNCHANGED vars
      PROVE  IntrInv'
  BY <1>1 DEF vars, devVars, cpuVars, IntrInv, DevTypes, DzTypes, DupTypes, RhTypes, CpuTypes,
              BusAt, HwAt, StackOK, PiAt, LevelsIn, Ordered, Room, LvlAt, UnitAt, Stand,
              Interrupts, reqPRI, curPRI, requests, busINTR, devINTR, rhIRQ, rxINTR, txINTR,
              lpINTR, dupRXINTR, dupTXINTR, ArbAt, LinesAt
<1>2. IntrInv /\ [Next]_vars => IntrInv'
  BY <1>1, IntrStep
<1>3. QED
  BY <1>2, IntrInit, PTL DEF Spec

\* The registers keep their types, and no more handlers are in progress than
\* there are levels (dzintr.v, lpintr.v, dupintr.v, rhintr.v, pi.v).
THEOREM TypeCorrect ==
    ASSUME AprAlone
    PROVE  Spec => []TypeOK
<1>1. ASSUME IntrInv
      PROVE  TypeOK
  <2>1. DevTypes /\ CpuTypes /\ Room /\ left \in 0 .. MaxEvents
    BY <1>1 DEF IntrInv, StackOK
  <2>2. Len(stack) \in Nat /\ DOMAIN stack = 1 .. Len(stack)
        /\ \A i \in DOMAIN stack : stack[i] \in Frame /\ stack[i].level \in 1 .. 7
    BY <2>1, LevelTypes DEF CpuTypes
  <2>3. Len(stack) <= 7
    <3>1. CASE 1 \in DOMAIN stack
      BY <2>1, <2>2, <3>1 DEF Room
    <3>2. CASE 1 \notin DOMAIN stack
      BY <2>2, <3>2
    <3>3. QED
      BY <3>1, <3>2
  <2>4. \A i \in DOMAIN stack : stack[i].level \in Levels /\ stack[i].vec \in Vectors
    BY <2>2 DEF Frame
  <2>5. QED
    BY <2>1, <2>3, <2>4 DEF TypeOK, DevTypes, DzTypes, DupTypes, RhTypes, CpuTypes,
       MicroStates, Registers, Toggles
<1>2. QED
  BY <1>1, IntrInvariant, PTL

\* A request that stops an instruction stands until the microcode dispatches on
\* it (pi.v against the four interrupt machines): none is taken for a page
\* failure, and the dispatch finds a level.
THEOREM RequestsStand ==
    ASSUME AprAlone
    PROVE  Spec => []RequestStands
<1>1. IntrInv => RequestStands
  BY DEF IntrInv, Stand, RequestStands, Interrupts
<1>2. QED
  BY <1>1, IntrInvariant, PTL

\* Handlers nest by level, and pi.v knows the levels in progress (the microcode
\* of PI and LOAD PI, the dismissal).
THEOREM NestedAlways ==
    ASSUME AprAlone
    PROVE  Spec => []Nested
<1>1. IntrInv => Nested
  BY DEF IntrInv, StackOK, Ordered, PiAt, LevelsIn, HwAt, Nested, Taking
<1>2. QED
  BY <1>1, IntrInvariant, PTL

-----------------------------------------------------------------------------
(* Whose vector is read, and whose handler is started, when the adapters   *)
(* and the processor have levels of their own and one device at a time is  *)
(* fitted on adapter 3.                                                    *)

LevelsApart == /\ \A u \in Units : AprLevel \notin {PIH[u], PIL[u]}
               /\ PIL[3] \notin {PIH[1], PIL[1], PIH[3]}
OneFitted   == \A F \in Fitted :
                  \A D, E \in {{"rx", "tx"}, {"lp"}, {"duprx"}, {"duptx"}} :
                     F \cap D # {} /\ F \cap E # {} => D = E

\* A device that is not fitted rests.
Fit == /\ "rx" \notin fitted => dz.rx = "IDLE" /\ ~dz.RRDY
       /\ "tx" \notin fitted => dz.tx = "IDLE" /\ dz.scan = "SCAN"
       /\ "rx" \notin fitted /\ "tx" \notin fitted => dz.arb = "IDLE"
       /\ "lp" \notin fitted => lp = "IDLE"
       /\ "duprx" \notin fitted => dup.rx = "IDLE" /\ ~dup.RXDONE
       /\ "duptx" \notin fitted => dup.tx = "IDLE" /\ ~dup.TXDONE

\* The level of adapter 3 is taken for a device that requests.
AskDz  == rxINTR \/ txINTR
Asked3 == upc \in Taking /\ lvl = PIL[3] => devINTR(3) \cap Low # {}

\* The grant reaches the DZ11 in the second clock of the WRU cycle and commits
\* its arbiter to the side that requests.
Granted3 == upc = "WRU" /\ devINTA[3] = 5 => lvl = PIL[3] /\ tick > 1
Commits  == upc \in Taking /\ lvl = PIL[3] /\ AskDz =>
               /\ upc = "PI10" => dz.arb = "IACK"
               /\ upc = "WRU" => IF tick <= 2 THEN dz.arb = "IACK" /\ (tick = 2 => devINTA[3] = 5)
                                              ELSE dz.arb = "VECTREAD"
               /\ upc = "VECINT" => dz.arb \in {"VECTREAD", "VECTCLR"}
Committed == /\ dz.arb = "VECTREAD" => upc \in {"WRU", "VECINT"} /\ lvl = PIL[3]
             /\ dz.arb = "VECTREAD" \/ (dz.arb = "VECTCLR" /\ upc = "VECINT")
                   => IF dz.rxVECTOR THEN rxINTR ELSE txINTR
ReqInv == Fit /\ Asked3 /\ Granted3 /\ Commits /\ Committed

\* A clock with no event of a device that is not fitted keeps it at rest.
LEMMA FitStep ==
    ASSUME Fit, DevTypes, NEW e, Devices(e), e \in Sources => Possible(e)
    PROVE  Fit'
<1>1. fitted' = fitted
  BY DEF Devices
<1>2. \A s \in Sources : e = s => s \in fitted
  BY DEF Possible
<1>3. \A s \in {"rx", "tx", "lp", "duprx", "duptx"} : s \notin fitted => e # s
  BY <1>2 DEF Sources
<1>4. ASSUME "rx" \notin fitted
      PROVE  dz'.rx = "IDLE" /\ ~dz'.RRDY
  BY <1>3, <1>4 DEF Devices, DzNext, DzSide, Rearm, Fit
<1>5. ASSUME "tx" \notin fitted
      PROVE  dz'.tx = "IDLE" /\ dz'.scan = "SCAN"
  BY <1>3, <1>5 DEF Devices, DzNext, DzSide, Rearm, Fit
<1>6. ASSUME "rx" \notin fitted, "tx" \notin fitted
      PROVE  dz'.arb = "IDLE"
  BY <1>6 DEF Devices, DzNext, DzArb, Fit
<1>7. ASSUME "lp" \notin fitted
      PROVE  lp' = "IDLE"
  BY <1>3, <1>7 DEF Devices, LpNext, Taken, Rearm, Fit
<1>8. ASSUME "duprx" \notin fitted
      PROVE  dup'.rx = "IDLE" /\ ~dup'.RXDONE
  BY <1>3, <1>8 DEF Devices, DupNext, Taken, Rearm, Fit
<1>9. ASSUME "duptx" \notin fitted
      PROVE  dup'.tx = "IDLE" /\ ~dup'.TXDONE
  BY <1>3, <1>9 DEF Devices, DupNext, Taken, Rearm, Fit
<1>10. QED
  BY <1>1, <1>4, <1>5, <1>6, <1>7, <1>8, <1>9 DEF Fit

\* One device requests on adapter 3.
LEMMA OneAsks ==
    ASSUME OneFitted, Fit, fitted \in Fitted
    PROVE  /\ AskDz => ~lpINTR /\ ~dupRXINTR /\ ~dupTXINTR
           /\ dz.arb # "IDLE" => ~lpINTR /\ ~dupRXINTR /\ ~dupTXINTR
           /\ lpINTR => ~AskDz /\ ~dupRXINTR /\ ~dupTXINTR
           /\ dupRXINTR => ~AskDz /\ ~lpINTR /\ ~dupTXINTR
           /\ dupTXINTR => ~AskDz /\ ~lpINTR /\ ~dupRXINTR
<1>1. /\ AskDz => "rx" \in fitted \/ "tx" \in fitted
      /\ dz.arb # "IDLE" => "rx" \in fitted \/ "tx" \in fitted
      /\ lpINTR => "lp" \in fitted
      /\ dupRXINTR => "duprx" \in fitted
      /\ dupTXINTR => "duptx" \in fitted
  BY DEF Fit, AskDz, rxINTR, txINTR, lpINTR, dupRXINTR, dupTXINTR
<1>2. \A D, E \in {{"rx", "tx"}, {"lp"}, {"duprx"}, {"duptx"}} :
         fitted \cap D # {} /\ fitted \cap E # {} => D = E
  BY DEF OneFitted
<1>3. {"rx", "tx"} # {"lp"} /\ {"rx", "tx"} # {"duprx"} /\ {"rx", "tx"} # {"duptx"}
      /\ {"lp"} # {"duprx"} /\ {"lp"} # {"duptx"} /\ {"duprx"} # {"duptx"}
  <2>1. {"rx", "tx"} # {"lp"} /\ {"rx", "tx"} # {"duprx"} /\ {"rx", "tx"} # {"duptx"}
    BY Zenon
  <2>2. QED
    BY <2>1
<1>4. /\ fitted \cap {"rx", "tx"} # {} =>
            fitted \cap {"lp"} = {} /\ fitted \cap {"duprx"} = {} /\ fitted \cap {"duptx"} = {}
      /\ fitted \cap {"lp"} # {} =>
            fitted \cap {"duprx"} = {} /\ fitted \cap {"duptx"} = {}
      /\ fitted \cap {"duprx"} # {} => fitted \cap {"duptx"} = {}
  BY <1>2, <1>3
<1>5. QED
  BY <1>1, <1>4

\* A request that is dispatched on stays through the cycles that take it.
LEMMA Kept ==
    ASSUME DevTypes, BusAt, ArbAt, LinesAt, CpuTypes, upc \in {"PI"} \cup Taking,
           NEW e, Devices(e)
    PROVE  /\ rxINTR => rxINTR'
           /\ txINTR => txINTR'
           /\ devINTR(3) \cap Low # {} => devINTR(3)' \cap Low # {}
           /\ ie' \in {ie, ie \ {"rh"}}
<1>1. /\ bus \in {"none", "wru", "vect"} /\ bus \notin Registers
      /\ upc = "VECINT" <=> bus = "vect"
  BY BusNames DEF BusAt, CpuTypes, Taking
<1>2. ie' \in {ie, ie \ {"rh"}}
  BY <1>1 DEF Devices, IeNext, Toggled, ToggleOf
<1>3. dz.arb \notin {"RXDONE", "TXDONE"}
  BY DEF ArbAt, Taking
<1>4. "VECTREAD" \in {lp, dup.rx, dup.tx} => vectREAD(3)
  BY <1>1 DEF LinesAt, vectREAD, Taking
<1>5. rxINTR => rxINTR'
  BY <1>2, <1>3 DEF rxINTR, Devices, DzNext, DzSide, Rearm
<1>6. txINTR => txINTR'
  BY <1>2, <1>3 DEF txINTR, Devices, DzNext, DzSide, Rearm
<1>7. lpINTR => lpINTR'
  BY <1>4 DEF lpINTR, Devices, LpNext, lpVECT, Taken, Rearm
<1>8. dupRXINTR => dupRXINTR'
  BY <1>4 DEF dupRXINTR, Devices, DupNext, Taken, Rearm
<1>9. dupTXINTR => dupTXINTR'
  BY <1>4 DEF dupTXINTR, Devices, DupNext, Taken, Rearm
<1>10. devINTR(3) \cap Low # {} => devINTR(3)' \cap Low # {}
  BY <1>5, <1>6, <1>7, <1>8, <1>9 DEF devINTR, Low
<1>11. QED
  BY <1>2, <1>5, <1>6, <1>10

\* How the microcode gets to and through the cycles that take an interrupt.
LEMMA TakingFrom ==
    ASSUME CpuTypes, Stand, Micro \/ Control, upc' \in Taking
    PROVE  /\ upc \in Taking => lvl' = lvl
           /\ upc \notin Taking => /\ upc = "PI" /\ upc' = "PI10" /\ lvl' = reqPRI
                                   /\ reqPRI \in requests /\ reqPRI \in Levels
           /\ upc' = "PI10" => upc = "PI"
           /\ upc' = "WRU" => \/ upc = "PI10" /\ tick' = 1
                              \/ upc = "WRU" /\ tick' = tick + 1
           /\ upc' = "VECINT" => upc \in {"WRU", "VECINT"} /\ (upc = "WRU" => tick > 1)
<1>1. uPi \/ uPi10 \/ uWru \/ uVecint
  BY DEF Micro, Control, uAccess, uDismiss, uProgram, uControl, uIo, uDone, uXctgo,
         uPfpi1, uPi, uPi10, uWru, uVecint, uLdpi2, Go, CycleLasts, StartHandler, Taking
<1>2. CASE uPi
  <2>1. reqPRI # 8 /\ reqPRI \in requests /\ reqPRI \in Levels
    BY <1>2, ReqIs, CurIs DEF Stand, uPi, Interrupts, CpuTypes
  <2>2. QED
    BY <1>2, <2>1 DEF uPi, Go, Taking
<1>3. CASE uPi10 \/ uWru \/ uVecint
  BY <1>3 DEF uPi10, uWru, uVecint, Go, Cycle, CycleLasts, CycleEnds, StartHandler, Taking
<1>4. QED
  BY <1>1, <1>2, <1>3

\* Adapter 3 is asked at its own level only, and only of adapter 3 is a vector
\* asked at that level.
LEMMA LevelOf3 ==
    ASSUME LevelsApart
    PROVE  /\ PIL[3] \in requests => devINTR(3) \cap Low # {}
           /\ LvlAt /\ UnitAt /\ BusAt /\ CpuTypes /\ upc = "VECINT" =>
                 (unit = 3 <=> lvl = PIL[3]) /\ (unit = 1 <=> lvl = PIH[1])
           /\ Granted(3) # 0 => wruREAD /\ lvl = PIL[3]
           /\ Granted(3) # 0 => devINTR(3) \cap Low # {}
<1>1. PIL[3] \in requests => devINTR(3) \cap Low # {}
  <2>1. PIL[3] \notin busINTR(1)
    BY DEF LevelsApart, busINTR, devINTR, High, Low
  <2>2. PIL[3] # AprLevel
    BY DEF LevelsApart, Units
  <2>3. PIL[3] \in busINTR(3) => devINTR(3) \cap Low # {}
    BY DEF LevelsApart, busINTR, devINTR, High, Low
  <2>4. QED
    BY <2>1, <2>2, <2>3 DEF requests
<1>2. ASSUME LvlAt, UnitAt, CpuTypes, upc = "VECINT"
      PROVE  (unit = 3 <=> lvl = PIL[3]) /\ (unit = 1 <=> lvl = PIH[1])
  <2>1. /\ AprLevel \notin {PIH[1], PIL[1]} /\ AprLevel \notin {PIH[3], PIL[3]}
        /\ PIL[3] # PIH[1] /\ PIL[3] # PIL[1] /\ PIL[3] # PIH[3]
    BY DEF LevelsApart, Units
  <2>2. lvl \in {PIH[1], PIL[3], AprLevel} /\ lvl \in {PIH[unit], PIL[unit]}
        /\ (unit = 3 => lvl \notin {PIH[1], PIL[1]}) /\ unit \in {1, 3}
    BY <1>2 DEF LvlAt, UnitAt, CpuTypes, Units, Taking
  <2>3. CASE unit = 1
    BY <2>1, <2>2, <2>3
  <2>4. CASE unit = 3
    BY <2>1, <2>2, <2>4
  <2>5. QED
    BY <2>2, <2>3, <2>4
<1>3. ASSUME Granted(3) # 0
      PROVE  wruREAD /\ lvl = PIL[3] /\ devINTR(3) \cap Low # {}
  <2>1. devINTR(3) \cap High = {}
    BY DEF devINTR, High
  <2>2. QED
    BY <1>3, <2>1 DEF Granted
<1>4. QED
  BY <1>1, <1>2, <1>3

\* When a device of adapter 3 is the DZ11, the request at its level is the DZ11's.
LEMMA DzAsks ==
    ASSUME OneFitted, Fit, fitted \in Fitted, devINTR(3) \cap Low # {},
           dz.arb # "IDLE" \/ "rx" \in fitted \/ "tx" \in fitted
    PROVE  AskDz
<1>1. AskDz \/ lpINTR \/ dupRXINTR \/ dupTXINTR
  BY DEF devINTR, Low, AskDz
<1>2. "rx" \in fitted \/ "tx" \in fitted
  BY DEF Fit
<1>3. /\ lpINTR => "lp" \in fitted
      /\ dupRXINTR => "duprx" \in fitted
      /\ dupTXINTR => "duptx" \in fitted
  BY DEF Fit, lpINTR, dupRXINTR, dupTXINTR
<1>4. /\ \A D \in {{"lp"}, {"duprx"}, {"duptx"}} :
            fitted \cap {"rx", "tx"} # {} /\ fitted \cap D # {} => {"rx", "tx"} = D
  BY DEF OneFitted
<1>5. {"rx", "tx"} # {"lp"} /\ {"rx", "tx"} # {"duprx"} /\ {"rx", "tx"} # {"duptx"}
  BY Zenon
<1>6. QED
  BY <1>1, <1>2, <1>3, <1>4, <1>5

\* A clock keeps the requests in step with the microcode that takes them.
LEMMA ReqStep ==
    ASSUME LevelsApart, OneFitted, IntrInv, LvlAt', UnitAt', CpuTypes', BusAt', ReqInv,
           NEW e, Devices(e), e \in Sources => Possible(e), Micro \/ Control
    PROVE  ReqInv'
<1> USE DEF IntrInv
<1>1. fitted \in Fitted /\ fitted' = fitted /\ Fit /\ dz'.arb = DzArb
      /\ dz'.rxVECTOR = rxVECTORNext
  BY DEF DevTypes, Devices, DzNext, ReqInv
<1>2. Fit'
  BY <1>1, FitStep
<1>3. ASSUME upc' \in Taking, lvl' = PIL[3]
      PROVE  /\ upc \in {"PI"} \cup Taking /\ devINTR(3) \cap Low # {}
             /\ upc \in Taking => lvl = PIL[3]
  <2>1. CASE upc \in Taking
    BY <1>3, <2>1, TakingFrom DEF ReqInv, Asked3
  <2>2. CASE upc \notin Taking
    BY <1>3, <2>2, TakingFrom, LevelOf3
  <2>3. QED
    BY <2>1, <2>2
<1>4. Asked3'
  BY <1>3, Kept DEF Asked3
<1>5. /\ wruREAD <=> upc = "WRU"
      /\ \A u : vectREAD(u) <=> upc = "VECINT" /\ unit = u
  BY DEF BusAt, wruREAD, vectREAD
<1>6. dzIACK => upc = "WRU" /\ devINTA[3] = 5 /\ lvl = PIL[3] /\ tick > 1
  BY <1>5 DEF dzIACK, ReqInv, Granted3
<1>7. devINTA'[3] = Granted(3)
  BY DEF Devices, UbaIntrNext, Units
<1>8. Granted3'
  <2>1. SUFFICES ASSUME upc' = "WRU", devINTA'[3] = 5
                 PROVE  lvl' = PIL[3] /\ tick' > 1
    BY DEF Granted3
  <2>2. upc = "WRU" /\ lvl = PIL[3]
    BY <1>5, <1>7, <2>1, LevelOf3
  <2>3. lvl' = lvl /\ tick' = tick + 1 /\ tick \in Nat /\ tick > 0
    BY <2>1, <2>2, TakingFrom DEF Taking, CpuTypes
  <2>4. QED
    BY <2>2, <2>3
<1>9. ASSUME upc' \in Taking, lvl' = PIL[3], AskDz'
      PROVE  AskDz
  <2>1. "rx" \in fitted \/ "tx" \in fitted
    BY <1>1, <1>2, <1>9 DEF Fit, AskDz, rxINTR, txINTR
  <2>2. QED
    BY <1>1, <1>3, <1>9, <2>1, DzAsks
<1>10. Commits'
  <2>1. SUFFICES ASSUME upc' \in Taking, lvl' = PIL[3], AskDz'
                 PROVE  /\ upc' = "PI10" => dz'.arb = "IACK"
                        /\ upc' = "WRU" => IF tick' <= 2
                               THEN dz'.arb = "IACK" /\ (tick' = 2 => devINTA'[3] = 5)
                               ELSE dz'.arb = "VECTREAD"
                        /\ upc' = "VECINT" => dz'.arb \in {"VECTREAD", "VECTCLR"}
    BY DEF Commits
  <2>2. AskDz /\ upc \in {"PI"} \cup Taking /\ (upc \in Taking => lvl = PIL[3])
    BY <1>3, <1>9, <2>1
  <2>3. "ACT" \in {dz.rx, dz.tx}
    BY <2>2 DEF AskDz, rxINTR, txINTR
  <2>4. upc = "WRU" => ~vectREAD(3)
    BY <1>5
  <2>5. ASSUME upc' = "PI10"
        PROVE  dz'.arb = "IACK"
    <3>1. upc = "PI"
      BY <2>1, <2>5, TakingFrom
    <3>2. dz.arb \in {"IDLE", "IACK"} /\ ~dzIACK
      BY <1>6, <3>1 DEF ArbAt, ReqInv, Committed, DevTypes, DzTypes
    <3>3. QED
      BY <1>1, <2>3, <3>2 DEF DzArb
  <2>6. ASSUME upc' = "WRU", upc = "PI10"
        PROVE  dz'.arb = "IACK" /\ tick' = 1
    <3>1. dz.arb = "IACK" /\ ~dzIACK
      BY <1>6, <2>2, <2>6 DEF ReqInv, Commits, Taking
    <3>2. tick' = 1
      BY <2>1, <2>6, TakingFrom
    <3>3. QED
      BY <1>1, <3>1, <3>2 DEF DzArb
  <2>7. ASSUME upc = "WRU", tick = 1
        PROVE  dz'.arb = "IACK" /\ devINTA'[3] = 5
    <3>1. dz.arb = "IACK" /\ ~dzIACK
      BY <1>6, <2>2, <2>7 DEF ReqInv, Commits, Taking
    <3>2. ~lpINTR /\ lvl = PIL[3]
      BY <1>1, <2>2, <2>7, OneAsks DEF Taking
    <3>3. devINTR(3) \cap Low = {5}
      BY <2>2, <3>2 DEF devINTR, Low, AskDz
    <3>4. Most({5}) = 5
      BY DEF Most
    <3>5. wruREAD /\ lvl # PIH[3]
      BY <1>5, <2>7, <3>2 DEF LevelsApart
    <3>6. Granted(3) = 5
      BY <3>2, <3>3, <3>4, <3>5 DEF Granted
    <3>7. QED
      BY <1>1, <1>7, <3>1, <3>6 DEF DzArb
  <2>8. ASSUME upc = "WRU", tick > 1
        PROVE  dz'.arb = "VECTREAD"
    <3>1. tick \in Nat /\ (tick <= 2 => tick = 2)
      BY <2>8 DEF CpuTypes
    <3>2. CASE tick = 2
      <4>1. dz.arb = "IACK" /\ devINTA[3] = 5
        BY <2>2, <2>8, <3>2 DEF ReqInv, Commits, Taking
      <4>2. dzIACK
        BY <1>5, <2>8, <4>1 DEF dzIACK
      <4>3. QED
        BY <1>1, <4>1, <4>2 DEF DzArb
    <3>3. CASE tick # 2
      <4>1. dz.arb = "VECTREAD"
        BY <2>2, <2>8, <3>1, <3>3 DEF ReqInv, Commits, Taking
      <4>2. QED
        BY <1>1, <2>4, <2>8, <4>1 DEF DzArb
    <3>4. QED
      BY <3>2, <3>3
  <2>9. ASSUME upc' = "VECINT", upc = "VECINT"
        PROVE  dz'.arb \in {"VECTREAD", "VECTCLR"}
    <3>1. dz.arb \in {"VECTREAD", "VECTCLR"}
      BY <2>2, <2>9 DEF ReqInv, Commits, Taking
    <3>2. vectREAD(3)
      BY <1>5, <2>2, <2>9, LevelOf3 DEF Taking
    <3>3. QED
      BY <1>1, <3>1, <3>2 DEF DzArb
  <2>10. /\ tick \in Nat /\ tick > 0
         /\ upc' = "WRU" => upc = "PI10" \/ (upc = "WRU" /\ tick' = tick + 1)
         /\ upc' = "VECINT" => upc = "VECINT" \/ (upc = "WRU" /\ tick > 1)
    BY <2>1, TakingFrom DEF CpuTypes
  <2>11. ASSUME upc' = "WRU"
         PROVE  IF tick' <= 2 THEN dz'.arb = "IACK" /\ (tick' = 2 => devINTA'[3] = 5)
                              ELSE dz'.arb = "VECTREAD"
    <3>1. CASE upc = "PI10"
      BY <2>6, <2>11, <3>1
    <3>2. CASE upc = "WRU" /\ tick' = tick + 1 /\ tick = 1
      BY <2>7, <3>2
    <3>3. CASE upc = "WRU" /\ tick' = tick + 1 /\ tick # 1
      BY <2>8, <2>10, <3>3
    <3>4. QED
      BY <2>10, <2>11, <3>1, <3>2, <3>3
  <2>12. QED
    BY <2>5, <2>8, <2>9, <2>10, <2>11
<1>11. ASSUME dz'.arb = "VECTREAD"
       PROVE  /\ upc = "WRU" /\ lvl = PIL[3]
              /\ \/ dz.arb = "VECTREAD" /\ dz'.rxVECTOR = dz.rxVECTOR
                 \/ dz.arb = "IACK" /\ dzIACK /\ dz'.rxVECTOR = rxINTR
  <2>1. (dz.arb = "IACK" /\ dzIACK) \/ (dz.arb = "VECTREAD" /\ ~vectREAD(3))
    BY <1>1, <1>11 DEF DzArb, DevTypes, DzTypes
  <2>2. CASE dz.arb = "IACK" /\ dzIACK
    BY <1>1, <1>6, <2>2 DEF rxVECTORNext
  <2>3. CASE dz.arb = "VECTREAD" /\ ~vectREAD(3)
    <3>1. upc \in {"WRU", "VECINT"} /\ lvl = PIL[3]
      BY <2>3 DEF ReqInv, Committed
    <3>2. upc # "VECINT"
      BY <1>5, <2>3, <3>1, LevelOf3
    <3>3. QED
      BY <1>1, <2>3, <3>1, <3>2 DEF rxVECTORNext
  <2>4. QED
    BY <2>1, <2>2, <2>3
<1>12. ASSUME dz'.arb = "VECTCLR", upc' = "VECINT"
       PROVE  dz.arb \in {"VECTREAD", "VECTCLR"} /\ upc = "VECINT" /\ dz'.rxVECTOR = dz.rxVECTOR
  <2>1. dz.arb \in {"VECTREAD", "VECTCLR"} /\ vectREAD(3)
    BY <1>1, <1>5, <1>12, AfterVector DEF DzArb, DevTypes, DzTypes, ArbAt
  <2>2. QED
    BY <1>1, <1>5, <2>1 DEF rxVECTORNext
<1>13. ASSUME dz'.arb = "VECTREAD" \/ (dz'.arb = "VECTCLR" /\ upc' = "VECINT")
       PROVE  IF dz'.rxVECTOR THEN rxINTR' ELSE txINTR'
  <2>1. upc \in Taking
    BY <1>11, <1>12, <1>13 DEF Taking
  <2>2. (rxINTR => rxINTR') /\ (txINTR => txINTR')
    BY <2>1, Kept
  <2>3. CASE dz.arb = "IACK" /\ dzIACK /\ dz'.rxVECTOR = rxINTR
    <3>1. devINTR(3) \cap Low # {}
      BY <1>6, <2>3 DEF ReqInv, Asked3, Taking
    <3>2. rxINTR \/ txINTR
      BY <1>1, <2>3, <3>1, DzAsks DEF AskDz
    <3>3. QED
      BY <2>2, <2>3, <3>2
  <2>4. CASE (dz.arb = "VECTREAD" \/ (dz.arb = "VECTCLR" /\ upc = "VECINT"))
             /\ dz'.rxVECTOR = dz.rxVECTOR
    BY <2>2, <2>4 DEF ReqInv, Committed
  <2>5. QED
    BY <1>11, <1>12, <1>13, <2>3, <2>4
<1>14. ASSUME dz'.arb = "VECTREAD"
       PROVE  upc' \in {"WRU", "VECINT"} /\ lvl' = PIL[3]
  <2>1. upc = "WRU" /\ lvl = PIL[3] /\ 3 \in wruACK
    BY <1>11, <1>14 DEF wruACK, Units
  <2>2. uWru
    BY <2>1 DEF Micro, Control, uAccess, uDismiss, uProgram, uControl, uIo, uDone, uXctgo,
                uPfpi1, uPi, uPi10, uVecint, uLdpi2
  <2>3. QED
    BY <2>1, <2>2 DEF uWru, CycleLasts, Go
<1>15. QED
  BY <1>2, <1>4, <1>8, <1>10, <1>13, <1>14 DEF ReqInv, Committed

-----------------------------------------------------------------------------
(* The handlers that have been started.                                    *)

Machines == {"rx", "tx", "lp", "duprx", "duptx"}
DoneOf   == [rx |-> {"rbufREAD"}, tx |-> {"tdrWRITE"}, lp |-> {"csraREAD"},
             duprx |-> {"rxcsrREAD", "rxdbufREAD"}, duptx |-> {"txdbufWRITE"},
             rh |-> {"asWRITE"}, apr |-> {"WRAPR"}, zero |-> {}]

\* A handler makes only the accesses of its device.
Todo == \A i \in DOMAIN stack : stack[i].todo \in Seq(DoneOf[stack[i].vec])

\* The handler of a vector is on top and has all its accesses to make.
Fresh(v) == stack # <<>> /\ stack[1].vec = v /\ stack[1].todo # <<>>

\* A request is withdrawn as the handler of its device starts.
Starts == /\ dz.arb = "VECTCLR" /\ upc = "LDPI2" => IF dz.rxVECTOR THEN Fresh("rx") ELSE Fresh("tx")
          /\ dz.arb = "RXDONE" => Fresh("rx")
          /\ dz.arb = "TXDONE" => Fresh("tx")
          /\ lp = "VECTREAD" /\ upc = "LDPI2" => Fresh("lp")
          /\ dup.rx = "VECTREAD" /\ upc = "LDPI2" => Fresh("duprx")
          /\ dup.tx = "VECTREAD" /\ upc = "LDPI2" => Fresh("duptx")

\* A machine that waits has a handler that has still to make the access.
Accessing(s) == upc = "IO" /\ bus \in DoneOf[s]
Pending(s)   == \E i \in DOMAIN stack : stack[i].vec = s /\ (stack[i].todo # <<>> \/ Accessing(s))
WaitOK(s, m) == /\ m = "WAIT" => Pending(s)
                /\ m = "DONE" => s \in Started /\ (Accessing(s) \/ upc = "DONE")
Waits == /\ WaitOK("rx", dz.rx) /\ WaitOK("tx", dz.tx) /\ WaitOK("lp", lp)
         /\ WaitOK("duprx", dup.rx) /\ WaitOK("duptx", dup.tx)

ServeInv == Todo /\ Starts /\ Waits

\* What the microcode does to the stack: nothing, an access of the top handler,
\* its dismissal, or the start of another.
LEMMA StackMoves ==
    ASSUME CpuTypes, BusAt, Micro \/ Control
    PROVE  \/ stack' = stack /\ (upc' = "IO" => (upc = "IO" /\ bus' = bus) \/ stack = <<>>)
              /\ (upc = "IO" => (upc' = "IO" /\ bus' = bus) \/ upc' = "DONE")
              /\ (upc = "DONE" => upc' = "XCTGO")
           \/ /\ upc = "RUN" /\ upc' = "IO" /\ stack # <<>> /\ Head(stack).todo # <<>>
              /\ stack' = Stepped(stack) /\ bus' = Head(Head(stack).todo)
           \/ /\ upc = "RUN" /\ upc' = "LDPI2" /\ stack # <<>> /\ Head(stack).todo = <<>>
              /\ stack' = Tail(stack)
           \/ /\ upc \in {"WRU", "VECINT"} /\ upc' = "LDPI2"
              /\ \E v : StartHandler(v) /\ v = (IF upc = "WRU" THEN "apr" ELSE Vector(unit))
<1>1. CASE uAccess
  BY <1>1 DEF uAccess, Stepped, Go, Cycle
<1>2. CASE uDismiss
  BY <1>2 DEF uDismiss, Go
<1>3. CASE uProgram \/ uIo \/ uDone \/ uXctgo \/ uPfpi1 \/ uPi \/ uPi10 \/ uLdpi2
  BY <1>3 DEF uProgram, uIo, uDone, uXctgo, uPfpi1, uPi, uPi10, uLdpi2, Go, CycleLasts
<1>4. CASE Control
  <2>1. PICK a : uControl(a)
    BY <1>4 DEF Control
  <2>2. QED
    BY <2>1 DEF uControl, Go
<1>5. CASE uWru
  BY <1>5 DEF uWru, Go, CycleLasts, StartHandler
<1>6. CASE uVecint
  BY <1>6 DEF uVecint, Go, CycleLasts, StartHandler
<1>7. QED
  BY <1>1, <1>2, <1>3, <1>4, <1>5, <1>6 DEF Micro

\* Every handler has the accesses of its device, and one that serves a device
\* has at least one.
LEMMA HandlerAccesses ==
    ASSUME NEW v \in Vectors, NEW h \in HandlerOf(v)
    PROVE  h \in Seq(DoneOf[v]) /\ h \in Handlers /\ (v # "zero" => h # <<>>)
<1>1. \A S : \A a \in S : <<a>> \in Seq(S)
  OBVIOUS
<1>2. \A S : \A a, b \in S : <<a, b>> \in Seq(S)
  OBVIOUS
<1>3. \A S : <<>> \in Seq(S)
  OBVIOUS
<1>4. CASE v = "duprx"
  <2>1. "rxcsrREAD" \in DoneOf[v] /\ "rxdbufREAD" \in DoneOf[v]
    BY <1>4 DEF DoneOf
  <2>2. h \in {<<"rxdbufREAD">>, <<"rxcsrREAD", "rxdbufREAD">>}
    BY <1>4 DEF HandlerOf
  <2>3. CASE h = <<"rxdbufREAD">>
    BY <1>1, <2>1, <2>3 DEF Handlers
  <2>4. CASE h = <<"rxcsrREAD", "rxdbufREAD">>
    BY <1>2, <2>1, <2>4 DEF Handlers
  <2>5. QED
    BY <2>2, <2>3, <2>4
<1>5. CASE v = "zero"
  <2>1. h = <<>>
    BY <1>5 DEF HandlerOf
  <2>2. QED
    BY <1>3, <1>5, <2>1 DEF Handlers
<1>6. CASE v \notin {"duprx", "zero"}
  <2>1. PICK a \in DoneOf[v] : h = <<a>> /\ a \in Accesses
    BY <1>6 DEF HandlerOf, DoneOf, Vectors, Accesses
  <2>2. h \in Handlers
    BY <1>6 DEF HandlerOf, Vectors, Handlers
  <2>3. QED
    BY <1>1, <2>1, <2>2
<1>7. QED
  BY <1>4, <1>5, <1>6

\* A handler that is started is on top, the others below it.
LEMMA Started1 ==
    ASSUME CpuTypes, NEW v \in Vectors, StartHandler(v)
    PROVE  /\ stack' \in Seq(Frame) /\ DOMAIN stack' = 1 .. Len(stack) + 1
           /\ DOMAIN stack = 1 .. Len(stack) /\ Len(stack) \in Nat
           /\ stack'[1].vec = v /\ stack'[1].todo \in Seq(DoneOf[v])
           /\ \A i \in 1 .. Len(stack) : stack'[i + 1] = stack[i]
           /\ v # "zero" => Fresh(v)'
<1>1. PICK h \in HandlerOf(v) : stack' = <<[level |-> lvl, vec |-> v, todo |-> h]>> \o stack
  BY DEF StartHandler
<1>2. h \in Seq(DoneOf[v]) /\ h \in Seq(Accesses) /\ (v # "zero" => h # <<>>)
  BY HandlerAccesses, HandlerTypes
<1>3. [level |-> lvl, vec |-> v, todo |-> h] \in Frame
  BY <1>2 DEF CpuTypes, Frame
<1>4. /\ stack' \in Seq(Frame) /\ DOMAIN stack' = 1 .. Len(stack) + 1
      /\ DOMAIN stack = 1 .. Len(stack) /\ Len(stack) \in Nat
      /\ stack'[1] = [level |-> lvl, vec |-> v, todo |-> h]
      /\ \A i \in 1 .. Len(stack) : stack'[i + 1] = stack[i]
  BY <1>1, <1>3, Pushed DEF CpuTypes
<1>5. v # "zero" => Fresh(v)'
  BY <1>2, <1>4 DEF Fresh
<1>6. QED
  BY <1>2, <1>4, <1>5

\* A clock keeps to each handler the accesses of its device.
LEMMA TodoStep ==
    ASSUME CpuTypes, BusAt, Todo, Micro \/ Control
    PROVE  Todo'
<1>1. CASE stack' = stack
  BY <1>1 DEF Todo
<1>2. CASE stack # <<>> /\ Head(stack).todo # <<>> /\ stack' = Stepped(stack)
  <2>1. /\ DOMAIN stack' = DOMAIN stack /\ 1 \in DOMAIN stack /\ stack[1].todo # <<>>
        /\ stack'[1].todo = Tail(stack[1].todo)
        /\ \A i \in DOMAIN stack : stack'[i].vec = stack[i].vec
        /\ \A i \in DOMAIN stack \ {1} : stack'[i] = stack[i]
    BY <1>2, SteppedIs DEF CpuTypes
  <2>2. stack'[1].todo \in Seq(DoneOf[stack'[1].vec])
    <3>1. \A S : \A q \in Seq(S) : q # <<>> => Tail(q) \in Seq(S)
      OBVIOUS
    <3>2. stack[1].todo \in Seq(DoneOf[stack[1].vec])
      BY <2>1 DEF Todo
    <3>3. QED
      BY <2>1, <3>1, <3>2
  <2>3. QED
    BY <2>1, <2>2 DEF Todo
<1>3. CASE stack # <<>> /\ stack' = Tail(stack)
  <2>1. /\ DOMAIN stack' = 1 .. Len(stack) - 1 /\ DOMAIN stack = 1 .. Len(stack)
        /\ Len(stack) \in Nat \ {0}
        /\ \A i \in 1 .. Len(stack) - 1 : stack'[i] = stack[i + 1]
    BY <1>3, Popped DEF CpuTypes
  <2>2. \A i \in DOMAIN stack' : i + 1 \in DOMAIN stack
    BY <2>1
  <2>3. QED
    BY <2>1, <2>2 DEF Todo
<1>4. ASSUME NEW v \in Vectors, StartHandler(v)
      PROVE  Todo'
  <2>1. SUFFICES ASSUME NEW i \in DOMAIN stack'
                 PROVE  stack'[i].todo \in Seq(DoneOf[stack'[i].vec])
    BY DEF Todo
  <2>2. CASE i = 1
    BY <1>4, <2>2, Started1
  <2>3. CASE i # 1
    <3>1. i - 1 \in DOMAIN stack /\ (i - 1) + 1 = i /\ i - 1 \in 1 .. Len(stack)
      BY <1>4, <2>3, Started1
    <3>2. stack'[i] = stack[i - 1]
      BY <1>4, <3>1, Started1
    <3>3. QED
      BY <3>1, <3>2 DEF Todo
  <2>4. QED
    BY <2>2, <2>3
<1>5. \A u : Vector(u) \in Vectors
  BY DEF Vector, Vectors
<1>6. QED
  BY <1>1, <1>2, <1>3, <1>4, <1>5, StackMoves DEF Vectors

\* The vector of adapter 3 is that of the device that requests.
LEMMA VectorIs ==
    ASSUME OneFitted, DevTypes, ReqInv
    PROVE  /\ upc = "VECINT" /\ dz.arb \in {"VECTREAD", "VECTCLR"} =>
                 Vector(3) = IF dz.rxVECTOR THEN "rx" ELSE "tx"
           /\ AskDz => Vector(3) = IF dz.rxVECTOR THEN "rx" ELSE "tx"
           /\ lpINTR => Vector(3) = "lp"
           /\ dupRXINTR => Vector(3) = "duprx"
           /\ dupTXINTR => Vector(3) = "duptx"
<1>1. AskDz => Vector(3) = IF dz.rxVECTOR THEN "rx" ELSE "tx"
  BY DEF AskDz, Vector
<1>2. upc = "VECINT" /\ dz.arb \in {"VECTREAD", "VECTCLR"} => AskDz
  BY DEF ReqInv, Committed, AskDz
<1>3. /\ lpINTR => ~AskDz /\ ~dupRXINTR /\ ~dupTXINTR
      /\ dupRXINTR => ~AskDz
      /\ dupTXINTR => ~AskDz /\ ~dupRXINTR
  BY OneAsks DEF DevTypes, ReqInv
<1>4. lpINTR => Vector(3) = "lp"
  BY <1>3 DEF AskDz, Vector
<1>5. dupRXINTR => Vector(3) = "duprx"
  BY <1>3 DEF AskDz, Vector
<1>6. dupTXINTR => Vector(3) = "duptx"
  BY <1>3 DEF AskDz, Vector
<1>7. QED
  BY <1>1, <1>2, <1>4, <1>5, <1>6

\* The vector cycle ends in the start of a handler.
LEMMA VectorStarts ==
    ASSUME upc = "VECINT", upc' = "LDPI2", Micro \/ Control
    PROVE  StartHandler(Vector(unit))
BY DEF Micro, Control, uAccess, uDismiss, uProgram, uControl, uIo, uDone, uXctgo, uPfpi1,
       uPi, uPi10, uWru, uVecint, uLdpi2, CycleLasts

\* A clock keeps a handler ready for the request that is being withdrawn.
LEMMA StartsStep ==
    ASSUME OneFitted, IntrInv, ReqInv, Starts, ArbAt', LinesAt',
           NEW e, Devices(e), Micro \/ Control
    PROVE  Starts'
<1> USE DEF IntrInv
<1>1. dz'.arb = DzArb /\ dz'.rxVECTOR = rxVECTORNext /\ DzTypes
  BY DEF Devices, DzNext, DevTypes
<1>2. \A u : vectREAD(u) <=> upc = "VECINT" /\ unit = u
  BY DEF BusAt, vectREAD
<1>3. ASSUME vectREAD(3), upc' = "LDPI2", NEW v \in Vectors \ {"zero"}, Vector(3) = v
      PROVE  Fresh(v)'
  <2>1. StartHandler(v)
    BY <1>2, <1>3, VectorStarts
  <2>2. QED
    BY <1>3, <2>1, Started1
<1>4. ASSUME dz'.arb = "VECTCLR", upc' = "LDPI2"
      PROVE  /\ dz'.rxVECTOR = dz.rxVECTOR
             /\ IF dz.rxVECTOR THEN Fresh("rx")' ELSE Fresh("tx")'
  <2>1. dz.arb \in {"VECTREAD", "VECTCLR"} /\ vectREAD(3)
    BY <1>1, <1>2, <1>4 DEF DzArb, DzTypes, ArbAt
  <2>2. dz'.rxVECTOR = dz.rxVECTOR
    BY <1>1, <2>1 DEF rxVECTORNext
  <2>3. Vector(3) = IF dz.rxVECTOR THEN "rx" ELSE "tx"
    BY <1>2, <2>1, VectorIs
  <2>4. CASE dz.rxVECTOR
    BY <1>3, <1>4, <2>1, <2>2, <2>3, <2>4 DEF Vectors
  <2>5. CASE ~dz.rxVECTOR
    BY <1>3, <1>4, <2>1, <2>2, <2>3, <2>5 DEF Vectors
  <2>6. QED
    BY <2>4, <2>5
<1>5. ASSUME dz'.arb \in {"RXDONE", "TXDONE"}
      PROVE  IF dz'.arb = "RXDONE" THEN Fresh("rx")' ELSE Fresh("tx")'
  <2>1. dz.arb = "VECTCLR" /\ upc = "LDPI2"
        /\ dz'.arb = IF dz.rxVECTOR THEN "RXDONE" ELSE "TXDONE"
    BY <1>1, <1>2, <1>5 DEF DzArb, DzTypes, ArbAt
  <2>2. (IF dz.rxVECTOR THEN Fresh("rx") ELSE Fresh("tx")) /\ stack' = stack
    BY <2>1, AfterVector DEF Starts
  <2>3. CASE dz.rxVECTOR
    BY <2>1, <2>2, <2>3 DEF Fresh
  <2>4. CASE ~dz.rxVECTOR
    BY <2>1, <2>2, <2>4 DEF Fresh
  <2>5. QED
    BY <2>3, <2>4
<1>6. ASSUME lp' = "VECTREAD", upc' = "LDPI2"
      PROVE  Fresh("lp")'
  <2>1. lpINTR /\ vectREAD(3)
    BY <1>6 DEF Devices, LpNext, lpVECT, Taken, Rearm, lpINTR
  <2>2. QED
    BY <1>3, <1>6, <2>1, VectorIs DEF Vectors
<1>7. ASSUME dup'.rx = "VECTREAD", upc' = "LDPI2"
      PROVE  Fresh("duprx")'
  <2>1. dupRXINTR /\ vectREAD(3)
    BY <1>7 DEF Devices, DupNext, Taken, Rearm, dupRXINTR
  <2>2. QED
    BY <1>3, <1>7, <2>1, VectorIs DEF Vectors
<1>8. ASSUME dup'.tx = "VECTREAD", upc' = "LDPI2"
      PROVE  Fresh("duptx")'
  <2>1. dupTXINTR /\ vectREAD(3)
    BY <1>8 DEF Devices, DupNext, Taken, Rearm, dupTXINTR
  <2>2. QED
    BY <1>3, <1>8, <2>1, VectorIs DEF Vectors
<1>9. QED
  BY <1>4, <1>5, <1>6, <1>7, <1>8 DEF Starts

\* A machine that is armed as its handler starts, or that has not yet seen the
\* access it waits for, keeps a handler that will make it.
LEMMA WaitStep ==
    ASSUME CpuTypes, BusAt, Todo, Micro \/ Control,
           NEW s \in Machines, NEW m, NEW n, WaitOK(s, m),
           n = "WAIT" => \/ m = "WAIT" /\ bus \notin DoneOf[s]
                         \/ Fresh(s) /\ upc \in {"LDPI2", "DONE"},
           n = "DONE" => m \in {"WAIT", "DONE"} /\ bus \in DoneOf[s]
    PROVE  /\ n = "WAIT" => Pending(s)'
           /\ n = "DONE" => s \in Started' /\ (Accessing(s)' \/ upc' = "DONE")
<1>1. DoneOf[s] \subseteq Registers
  BY BusNames DEF Machines, DoneOf, Accesses
<1>2. ASSUME n = "DONE"
      PROVE  s \in Started' /\ (Accessing(s)' \/ upc' = "DONE")
  <2>1. upc = "IO" /\ s \in Started
    BY <1>1, <1>2 DEF BusAt, WaitOK, Pending, Started
  <2>2. stack' = stack /\ ((upc' = "IO" /\ bus' = bus) \/ upc' = "DONE")
    BY <2>1, StackMoves
  <2>3. QED
    BY <1>2, <2>1, <2>2 DEF Accessing, Started
<1>3. ASSUME NEW i \in DOMAIN stack, stack[i].vec = s, stack[i].todo # <<>>
      PROVE  Pending(s)'
  <2>1. CASE stack' = stack
    BY <1>3, <2>1 DEF Pending
  <2>2. CASE /\ upc' = "IO" /\ stack # <<>> /\ Head(stack).todo # <<>>
             /\ stack' = Stepped(stack) /\ bus' = Head(Head(stack).todo)
    <3>1. /\ DOMAIN stack' = DOMAIN stack /\ stack[1] = Head(stack)
          /\ stack'[i].vec = stack[i].vec /\ (i # 1 => stack'[i] = stack[i])
      BY <1>3, <2>2, SteppedIs DEF CpuTypes
    <3>2. CASE i # 1
      BY <1>3, <3>1, <3>2 DEF Pending
    <3>3. CASE i = 1
      <4>1. stack[1].todo \in Seq(DoneOf[s]) /\ stack[1].todo # <<>>
        BY <1>3, <3>3 DEF Todo
      <4>2. \A S : \A q \in Seq(S) : q # <<>> => Head(q) \in S
        OBVIOUS
      <4>3. bus' \in DoneOf[s]
        BY <2>2, <3>1, <4>1, <4>2
      <4>4. QED
        BY <1>3, <2>2, <3>1, <4>3 DEF Pending, Accessing
    <3>4. QED
      BY <3>2, <3>3
  <2>3. CASE stack # <<>> /\ Head(stack).todo = <<>> /\ stack' = Tail(stack)
    <3>1. /\ DOMAIN stack' = 1 .. Len(stack) - 1 /\ DOMAIN stack = 1 .. Len(stack)
          /\ Len(stack) \in Nat \ {0} /\ stack[1] = Head(stack)
          /\ \A k \in 1 .. Len(stack) - 1 : stack'[k] = stack[k + 1]
      BY <2>3, Popped DEF CpuTypes
    <3>2. i # 1
      BY <1>3, <2>3, <3>1
    <3>3. i - 1 \in 1 .. Len(stack) - 1 /\ (i - 1) + 1 = i
      BY <3>1, <3>2
    <3>4. stack'[i - 1] = stack[i] /\ i - 1 \in DOMAIN stack'
      BY <3>1, <3>3
    <3>5. QED
      BY <1>3, <3>4 DEF Pending
  <2>4. ASSUME NEW v \in Vectors, StartHandler(v)
        PROVE  Pending(s)'
    <3>1. i \in 1 .. Len(stack) /\ i + 1 \in DOMAIN stack' /\ stack'[i + 1] = stack[i]
      BY <1>3, <2>4, Started1
    <3>2. QED
      BY <1>3, <3>1 DEF Pending
  <2>5. \A u : Vector(u) \in Vectors
    BY DEF Vector, Vectors
  <2>6. QED
    BY <2>1, <2>2, <2>3, <2>4, <2>5, StackMoves DEF Vectors
<1>4. ASSUME n = "WAIT"
      PROVE  Pending(s)'
  <2>1. CASE m = "WAIT" /\ bus \notin DoneOf[s]
    <3>1. PICK i \in DOMAIN stack : stack[i].vec = s /\ stack[i].todo # <<>>
      BY <2>1 DEF WaitOK, Pending, Accessing
    <3>2. QED
      BY <1>3, <3>1
  <2>2. CASE Fresh(s)
    <3>1. 1 \in DOMAIN stack /\ stack[1].vec = s /\ stack[1].todo # <<>>
      BY <2>2, LevelTypes DEF Fresh, CpuTypes
    <3>2. QED
      BY <1>3, <3>1
  <2>3. QED
    BY <1>4, <2>1, <2>2
<1>5. QED
  BY <1>2, <1>4

\* A clock keeps a handler for every machine that waits.
LEMMA WaitsStep ==
    ASSUME IntrInv, ServeInv, NEW e, Devices(e), Micro \/ Control
    PROVE  Waits'
<1> USE DEF IntrInv, ServeInv, Machines
<1>1. \A u : vectREAD(u) <=> upc = "VECINT" /\ unit = u
  BY DEF BusAt, vectREAD
<1>2. /\ DoneOf["rx"] = {"rbufREAD"} /\ DoneOf["tx"] = {"tdrWRITE"}
      /\ DoneOf["lp"] = {"csraREAD"} /\ DoneOf["duprx"] = {"rxcsrREAD", "rxdbufREAD"}
      /\ DoneOf["duptx"] = {"txdbufWRITE"}
  BY DEF DoneOf
<1>3. WaitOK("rx", dz.rx)'
  <2>1. dz'.rx = "WAIT" => \/ dz.rx = "WAIT" /\ bus \notin DoneOf["rx"]
                         \/ dz.arb = "RXDONE"
    BY <1>2 DEF Devices, DzNext, DzSide, Rearm
  <2>2. dz'.rx = "DONE" => dz.rx \in {"WAIT", "DONE"} /\ bus \in DoneOf["rx"]
    BY <1>2 DEF Devices, DzNext, DzSide, Rearm
  <2>3. dz.arb = "RXDONE" => Fresh("rx") /\ upc \in {"LDPI2", "DONE"}
    BY <1>1 DEF Starts, ArbAt
  <2>4. WaitOK("rx", dz.rx)
    BY DEF Waits
  <2>5. /\ dz'.rx = "WAIT" => Pending("rx")'
        /\ dz'.rx = "DONE" => "rx" \in Started' /\ (Accessing("rx")' \/ upc' = "DONE")
    BY <2>1, <2>2, <2>3, <2>4, WaitStep
  <2>6. QED
    BY <2>5 DEF WaitOK
<1>4. WaitOK("tx", dz.tx)'
  <2>1. dz'.tx = "WAIT" => \/ dz.tx = "WAIT" /\ bus \notin DoneOf["tx"]
                         \/ dz.arb = "TXDONE"
    BY <1>2 DEF Devices, DzNext, DzSide, Rearm
  <2>2. dz'.tx = "DONE" => dz.tx \in {"WAIT", "DONE"} /\ bus \in DoneOf["tx"]
    BY <1>2 DEF Devices, DzNext, DzSide, Rearm
  <2>3. dz.arb = "TXDONE" => Fresh("tx") /\ upc \in {"LDPI2", "DONE"}
    BY <1>1 DEF Starts, ArbAt
  <2>4. WaitOK("tx", dz.tx)
    BY DEF Waits
  <2>5. /\ dz'.tx = "WAIT" => Pending("tx")'
        /\ dz'.tx = "DONE" => "tx" \in Started' /\ (Accessing("tx")' \/ upc' = "DONE")
    BY <2>1, <2>2, <2>3, <2>4, WaitStep
  <2>6. QED
    BY <2>5 DEF WaitOK
<1>5. WaitOK("lp", lp)'
  <2>1. lp' = "WAIT" => \/ lp = "WAIT" /\ bus \notin DoneOf["lp"]
                      \/ (lp = "VECTREAD" /\ ~vectREAD(3))
    BY <1>2 DEF Devices, LpNext, lpVECT, Taken, Rearm
  <2>2. lp' = "DONE" => lp \in {"WAIT", "DONE"} /\ bus \in DoneOf["lp"]
    BY <1>2 DEF Devices, LpNext, lpVECT, Taken, Rearm
  <2>3. (lp = "VECTREAD" /\ ~vectREAD(3)) => Fresh("lp") /\ upc \in {"LDPI2", "DONE"}
    BY <1>1 DEF Starts, LinesAt
  <2>4. WaitOK("lp", lp)
    BY DEF Waits
  <2>5. /\ lp' = "WAIT" => Pending("lp")'
        /\ lp' = "DONE" => "lp" \in Started' /\ (Accessing("lp")' \/ upc' = "DONE")
    BY <2>1, <2>2, <2>3, <2>4, WaitStep
  <2>6. QED
    BY <2>5 DEF WaitOK
<1>6. WaitOK("duprx", dup.rx)'
  <2>1. dup'.rx = "WAIT" => \/ dup.rx = "WAIT" /\ bus \notin DoneOf["duprx"]
                          \/ (dup.rx = "VECTREAD" /\ ~vectREAD(3))
    BY <1>2 DEF Devices, DupNext, Taken, Rearm
  <2>2. dup'.rx = "DONE" => dup.rx \in {"WAIT", "DONE"} /\ bus \in DoneOf["duprx"]
    BY <1>2 DEF Devices, DupNext, Taken, Rearm
  <2>3. (dup.rx = "VECTREAD" /\ ~vectREAD(3)) => Fresh("duprx") /\ upc \in {"LDPI2", "DONE"}
    BY <1>1 DEF Starts, LinesAt
  <2>4. WaitOK("duprx", dup.rx)
    BY DEF Waits
  <2>5. /\ dup'.rx = "WAIT" => Pending("duprx")'
        /\ dup'.rx = "DONE" => "duprx" \in Started' /\ (Accessing("duprx")' \/ upc' = "DONE")
    BY <2>1, <2>2, <2>3, <2>4, WaitStep
  <2>6. QED
    BY <2>5 DEF WaitOK
<1>7. WaitOK("duptx", dup.tx)'
  <2>1. dup'.tx = "WAIT" => \/ dup.tx = "WAIT" /\ bus \notin DoneOf["duptx"]
                          \/ (dup.tx = "VECTREAD" /\ ~vectREAD(3))
    BY <1>2 DEF Devices, DupNext, Taken, Rearm
  <2>2. dup'.tx = "DONE" => dup.tx \in {"WAIT", "DONE"} /\ bus \in DoneOf["duptx"]
    BY <1>2 DEF Devices, DupNext, Taken, Rearm
  <2>3. (dup.tx = "VECTREAD" /\ ~vectREAD(3)) => Fresh("duptx") /\ upc \in {"LDPI2", "DONE"}
    BY <1>1 DEF Starts, LinesAt
  <2>4. WaitOK("duptx", dup.tx)
    BY DEF Waits
  <2>5. /\ dup'.tx = "WAIT" => Pending("duptx")'
        /\ dup'.tx = "DONE" => "duptx" \in Started' /\ (Accessing("duptx")' \/ upc' = "DONE")
    BY <2>1, <2>2, <2>3, <2>4, WaitStep
  <2>6. QED
    BY <2>5 DEF WaitOK
<1>8. QED
  BY <1>3, <1>4, <1>5, <1>6, <1>7 DEF Waits

LEMMA ServeInit ==
    Init => ReqInv /\ ServeInv
<1>1. SUFFICES ASSUME Init PROVE ReqInv /\ ServeInv
  OBVIOUS
<1>2. stack = <<>> /\ DOMAIN stack = {} /\ upc = "RUN" /\ lp = "IDLE"
      /\ dz.arb = "IDLE" /\ dz.rx = "IDLE" /\ dz.tx = "IDLE" /\ ~dz.RRDY /\ dz.scan = "SCAN"
      /\ dup.rx = "IDLE" /\ dup.tx = "IDLE" /\ ~dup.RXDONE /\ ~dup.TXDONE
  BY <1>1 DEF Init
<1>3. ReqInv
  BY <1>2 DEF ReqInv, Fit, Asked3, Granted3, Commits, Committed, Taking
<1>4. ServeInv
  BY <1>2 DEF ServeInv, Todo, Starts, Waits, WaitOK
<1>5. QED
  BY <1>3, <1>4

LEMMA ServeStep ==
    ASSUME LevelsApart, OneFitted, IntrInv, IntrInv', ReqInv, ServeInv, Next
    PROVE  ReqInv' /\ ServeInv'
<1>1. PICK e : Devices(e) /\ (Micro \/ Control) /\ (e \in Sources => Possible(e))
  BY StepIs DEF IntrInv
<1>2. ReqInv'
  BY <1>1, ReqStep DEF IntrInv
<1>3. Todo'
  BY <1>1, TodoStep DEF IntrInv, ServeInv
<1>4. Starts'
  BY <1>1, StartsStep DEF IntrInv, ServeInv
<1>5. Waits'
  BY <1>1, WaitsStep
<1>6. QED
  BY <1>2, <1>3, <1>4, <1>5 DEF ServeInv

LEMMA ServeStutter ==
    ReqInv /\ ServeInv /\ UNCHANGED vars => ReqInv' /\ ServeInv'
BY DEF vars, devVars, cpuVars, ReqInv, Fit, Asked3, Granted3, Commits, Committed, AskDz,
       devINTR, rhIRQ, rxINTR, txINTR, lpINTR, dupRXINTR, dupTXINTR, ServeInv, Todo, Starts,
       Fresh, Waits, WaitOK, Pending, Accessing, Started

LEMMA ServeInvariant ==
    ASSUME LevelsApart, OneFitted
    PROVE  Spec => [](IntrInv /\ ReqInv /\ ServeInv)
<1>1. AprAlone
  BY DEF LevelsApart, AprAlone, Units
<1>2. IntrInv /\ IntrInv' /\ ReqInv /\ ServeInv /\ [Next]_vars => ReqInv' /\ ServeInv'
  BY ServeStep, ServeStutter
<1>3. Spec => []IntrInv
  BY <1>1, IntrInvariant
<1>4. QED
  BY <1>2, <1>3, ServeInit, PTL DEF Spec

\* No interrupt is taken from a device and given to nobody (dzintr.v, lpintr.v
\* and dupintr.v against the vector that uba.v gives the microcode): a machine
\* that has withdrawn its request has its handler among those in progress.
THEOREM NoneIsLost ==
    ASSUME LevelsApart, OneFitted
    PROVE  Spec => []NoneLost
<1>1. ServeInv => NoneLost
  BY DEF ServeInv, Waits, WaitOK, Pending, Started, NoneLost, MachineOf
<1>2. QED
  BY <1>1, ServeInvariant, PTL

-----------------------------------------------------------------------------
(* The RH11, without completions of data transfers: its request is that of *)
(* an attention, and stays until the handler clears it.                    *)

NoTransfer == \A F \in Fitted : "xfer" \notin F

Rh1 == upc \in Taking /\ lvl = PIH[1]
Attention == rh.ATA /\ rh.RDY
RhInv == /\ rh.IFF => Attention /\ "rh" \in ie
         /\ rh.RDY /\ ~rh.lastRDY => rh.ATA
         /\ "rh" \in Started => rh.RDY /\ rh.lastRDY /\ ~rh.IFF
         /\ bus = "asWRITE" => "rh" \in Started
         /\ bus = "cs1GO" => stack = <<>> /\ ~rh.IFF /\ (~rh.RDY \/ (tick = 1 /\ "rh" \notin ie))
         /\ Rh1 => Attention /\ rh.lastRDY
         /\ Rh1 /\ upc = "WRU" /\ tick > 1 => devINTA[1] = 6
         /\ Rh1 /\ upc = "VECINT" => ~rh.IFF

\* Where an access comes from: the cycle lasts, the handler makes its next, or
\* the background makes one.
LEMMA AccessFrom ==
    ASSUME CpuTypes, BusAt, Todo, Micro \/ Control, upc' = "IO"
    PROVE  \/ upc = "IO" /\ bus' = bus /\ stack' = stack
           \/ \E i \in DOMAIN stack : bus' \in DoneOf[stack[i].vec] /\ upc = "RUN"
           \/ /\ upc = "RUN" /\ stack = <<>> /\ stack' = <<>> /\ tick' = 1
              /\ bus' \in Toggles \cup {"cs1GO"} /\ (bus' = "cs1GO" => "rh" \notin ie)
<1>1. CASE uAccess
  <2>1. stack # <<>> /\ Head(stack).todo # <<>> /\ bus' = Head(Head(stack).todo) /\ upc = "RUN"
    BY <1>1 DEF uAccess, Cycle
  <2>2. 1 \in DOMAIN stack /\ stack[1] = Head(stack)
    BY <2>1, SteppedIs DEF CpuTypes
  <2>3. stack[1].todo \in Seq(DoneOf[stack[1].vec])
    BY <2>2 DEF Todo
  <2>4. \A S : \A q \in Seq(S) : q # <<>> => Head(q) \in S
    OBVIOUS
  <2>5. bus' \in DoneOf[stack[1].vec]
    BY <2>1, <2>2, <2>3, <2>4
  <2>6. QED
    BY <2>1, <2>2, <2>5
<1>2. CASE Control
  <2>1. PICK a \in Toggles \cup {"cs1GO"} : uControl(a) /\ (a = "cs1GO" => "rh" \notin ie)
    BY <1>2 DEF Control, Toggles, ToggleOf
  <2>2. QED
    BY <2>1 DEF uControl, Cycle
<1>3. CASE uIo
  BY <1>3 DEF uIo, CycleLasts, Go
<1>4. QED
  BY <1>1, <1>2, <1>3
     DEF Micro, uDismiss, uProgram, uDone, uXctgo, uPfpi1, uPi, uPi10, uWru, uVecint,
         uLdpi2, Go, CycleLasts, StartHandler, BusAt

\* Which handlers have been started a clock later.
LEMMA StartedStep ==
    ASSUME CpuTypes, BusAt, Micro \/ Control
    PROVE  /\ \A v \in Started' :
                 v \in Started \/ v = "apr" \/ (upc = "VECINT" /\ v = Vector(unit))
           /\ upc = "RUN" /\ upc' = "IO" => Started' = Started
           /\ stack' = stack => Started' = Started
<1>1. CASE stack' = stack
  BY <1>1 DEF Started
<1>2. CASE stack # <<>> /\ Head(stack).todo # <<>> /\ stack' = Stepped(stack)
  <2>1. DOMAIN stack' = DOMAIN stack /\ \A i \in DOMAIN stack : stack'[i].vec = stack[i].vec
    BY <1>2, SteppedIs DEF CpuTypes
  <2>2. QED
    BY <2>1 DEF Started
<1>3. CASE stack # <<>> /\ stack' = Tail(stack) /\ upc' = "LDPI2"
  <2>1. \A i \in DOMAIN stack' : i + 1 \in DOMAIN stack /\ stack'[i] = stack[i + 1]
    BY <1>3, Popped DEF CpuTypes
  <2>2. Started' \subseteq Started
    BY <2>1 DEF Started
  <2>3. ASSUME stack' = stack PROVE Started' = Started
    BY <2>3 DEF Started
  <2>4. QED
    BY <1>3, <2>2, <2>3
<1>4. ASSUME NEW v \in Vectors, StartHandler(v), upc' = "LDPI2"
      PROVE  /\ \A w \in Started' : w \in Started \/ w = v
             /\ stack' = stack => Started' = Started
  <2>1. ASSUME NEW i \in DOMAIN stack', i # 1
        PROVE  i - 1 \in DOMAIN stack /\ stack'[i] = stack[i - 1]
    <3>1. i - 1 \in DOMAIN stack /\ (i - 1) + 1 = i /\ i - 1 \in 1 .. Len(stack)
      BY <1>4, <2>1, Started1
    <3>2. QED
      BY <1>4, <3>1, Started1
  <2>2. stack'[1].vec = v
    BY <1>4, Started1
  <2>3. QED
    BY <2>1, <2>2 DEF Started
<1>5. \A u : Vector(u) \in Vectors
  BY DEF Vector, Vectors
<1>6. QED
  BY <1>1, <1>2, <1>3, <1>4, <1>5, StackMoves DEF Vectors

\* A clock keeps the RH11's request until its handler clears it.
LEMMA RhStep ==
    ASSUME LevelsApart, NoTransfer, IntrInv, IntrInv', Todo, RhInv,
           NEW e, Devices(e), e \in Sources => Possible(e), Micro \/ Control
    PROVE  RhInv'
<1> USE DEF IntrInv
<1>1. /\ rh'.IFF <=> ~rhIACK /\ (rh.IFF \/ (rh.RDY /\ ~rh.lastRDY /\ "rh" \in ie))
      /\ rh'.lastRDY = rh.RDY
      /\ rh'.ATA <=> bus # "asWRITE" /\ (rh.ATA \/ e \in {"attn", "seek"})
  BY DEF Devices, RhNext
<1>2. e # "xfer"
  <2>1. e = "xfer" => "xfer" \in fitted
    BY DEF Possible, Sources
  <2>2. QED
    BY <2>1 DEF NoTransfer, DevTypes
<1>3. rh'.RDY <=> bus # "cs1GO" /\ (rh.RDY \/ e = "seek")
  BY <1>2 DEF Devices, RhNext, DevTypes, RhTypes
<1>4. "rh" \in ie' <=> ~rhIACK /\ (bus = "cs1GO" \/ "rh" \in ie)
  BY DEF Devices, IeNext, Toggled, ToggleOf, BusAt, rhIACK, wruREAD
<1>5. /\ bus = "asWRITE" => rh.RDY /\ rh.lastRDY /\ ~rh.IFF
      /\ bus = "cs1GO" => ~rh.IFF /\ ~(rh.RDY /\ "rh" \in ie)
  BY DEF RhInv
<1>6. rh'.IFF => rh'.ATA /\ rh'.RDY /\ "rh" \in ie'
  BY <1>1, <1>3, <1>4, <1>5 DEF RhInv, Attention
<1>7. rh'.RDY /\ ~rh'.lastRDY => rh'.ATA
  BY <1>1, <1>3, <1>5
<1>8. bus = "cs1GO" => "rh" \notin Started
  BY DEF RhInv, Started
<1>9. ASSUME "rh" \in Started'
      PROVE  rh'.RDY /\ rh'.lastRDY /\ ~rh'.IFF
  <2>1. CASE "rh" \in Started
    BY <1>1, <1>3, <1>8, <2>1 DEF RhInv
  <2>2. CASE "rh" \notin Started
    <3>1. upc = "VECINT" /\ Vector(unit) = "rh"
      BY <1>9, <2>2, StartedStep
    <3>2. unit = 1
      BY <3>1 DEF Vector, CpuTypes, Units
    <3>3. lvl = PIH[1] /\ bus = "vect"
      BY <3>1, <3>2, LevelOf3 DEF BusAt
    <3>4. Attention /\ rh.lastRDY /\ ~rh.IFF
      BY <3>1, <3>3 DEF RhInv, Rh1, Taking
    <3>5. QED
      BY <1>1, <1>3, <3>3, <3>4 DEF Attention
  <2>3. QED
    BY <2>1, <2>2
<1>10. \A v \in Vectors : "cs1GO" \notin DoneOf[v] /\ ("asWRITE" \in DoneOf[v] => v = "rh")
  BY DEF DoneOf, Vectors
<1>11. \A i \in DOMAIN stack : stack[i].vec \in Vectors
  BY LevelTypes DEF CpuTypes, Frame
<1>12. ASSUME bus' \in {"asWRITE", "cs1GO"}
       PROVE  upc' = "IO"
  BY <1>12, BusNames DEF BusAt, Accesses
<1>13. ASSUME bus' = "asWRITE"
       PROVE  "rh" \in Started'
  <2>1. CASE upc = "IO" /\ bus' = bus /\ stack' = stack
    BY <1>13, <2>1, StartedStep DEF RhInv
  <2>2. CASE \E i \in DOMAIN stack : bus' \in DoneOf[stack[i].vec] /\ upc = "RUN"
    <3>1. "rh" \in Started /\ upc = "RUN"
      BY <1>10, <1>11, <1>13, <2>2 DEF Started
    <3>2. QED
      BY <1>12, <1>13, <3>1, StartedStep
  <2>3. QED
    BY <1>12, <1>13, <2>1, <2>2, AccessFrom DEF Toggles, ToggleOf
<1>14. ASSUME bus' = "cs1GO"
       PROVE  stack' = <<>> /\ ~rh'.IFF /\ (~rh'.RDY \/ (tick' = 1 /\ "rh" \notin ie'))
  <2>1. CASE upc = "IO" /\ bus' = bus /\ stack' = stack
    BY <1>1, <1>3, <1>5, <1>14, <2>1 DEF RhInv
  <2>2. ~(\E i \in DOMAIN stack : bus' \in DoneOf[stack[i].vec])
    BY <1>10, <1>11, <1>14
  <2>3. CASE upc = "RUN" /\ stack' = <<>> /\ tick' = 1 /\ "rh" \notin ie
    <3>1. bus # "cs1GO"
      BY <2>3, BusNames DEF BusAt, Accesses
    <3>2. QED
      BY <1>1, <1>4, <2>3, <3>1 DEF RhInv
  <2>4. QED
    BY <1>12, <1>14, <2>1, <2>2, <2>3, AccessFrom
<1>15. PIH[1] \in requests => rhIRQ
  <2>1. PIH[1] # AprLevel /\ PIH[1] # PIL[3]
    BY DEF LevelsApart, Units
  <2>2. PIH[1] \notin busINTR(3)
    BY <2>1 DEF busINTR, devINTR, High, Low
  <2>3. PIH[1] \in busINTR(1) => rhIRQ
    BY DEF busINTR, devINTR, High, Low
  <2>4. QED
    BY <2>1, <2>2, <2>3 DEF requests
<1>16. ASSUME Rh1'
       PROVE  /\ upc \in Taking => Rh1
              /\ Attention /\ bus \notin {"cs1GO", "asWRITE"}
              /\ upc # "PI" => rh.lastRDY
  <2>1. upc' \in Taking /\ lvl' = PIH[1]
    BY <1>16 DEF Rh1
  <2>2. CASE upc \in Taking
    <3>1. Rh1
      BY <2>1, <2>2, TakingFrom DEF Rh1
    <3>2. bus \notin Registers
      BY <2>2, BusNames DEF BusAt, Taking
    <3>3. QED
      BY <2>2, <3>1, <3>2 DEF RhInv, Registers, Accesses, Taking
  <2>3. CASE upc \notin Taking
    <3>1. upc = "PI" /\ PIH[1] \in requests
      BY <2>1, <2>3, TakingFrom
    <3>2. Attention
      BY <1>15, <3>1 DEF rhIRQ, RhInv, Attention
    <3>3. bus \notin Registers
      BY <3>1 DEF BusAt
    <3>4. QED
      BY <2>3, <3>1, <3>2, <3>3 DEF Registers, Accesses
  <2>4. QED
    BY <2>2, <2>3
<1>17. Rh1' => rh'.ATA /\ rh'.RDY /\ rh'.lastRDY
  BY <1>1, <1>3, <1>16 DEF Attention
<1>18. ASSUME Rh1', upc' = "WRU", tick' > 1
       PROVE  devINTA'[1] = 6
  <2>1. upc = "WRU"
    BY <1>18, TakingFrom DEF Taking
  <2>2. lvl = PIH[1] /\ rhIRQ /\ wruREAD
    BY <1>16, <1>18, <2>1 DEF Rh1, Taking, Attention, rhIRQ, wruREAD, BusAt
  <2>3. devINTR(1) \cap High = {6}
    BY <2>2 DEF devINTR, High
  <2>4. Most({6}) = 6
    BY DEF Most
  <2>5. Granted(1) = 6
    BY <2>2, <2>3, <2>4 DEF Granted
  <2>6. QED
    BY <2>5 DEF Devices, UbaIntrNext, Units
<1>19. ASSUME Rh1', upc' = "VECINT"
       PROVE  ~rh'.IFF
  <2>1. upc \in {"WRU", "VECINT"} /\ (upc = "WRU" => tick > 1) /\ Rh1
    BY <1>16, <1>19, TakingFrom DEF Taking
  <2>2. CASE upc = "WRU"
    <3>1. rhIACK
      BY <2>1, <2>2 DEF RhInv, rhIACK, wruREAD, BusAt
    <3>2. QED
      BY <1>1, <3>1
  <2>3. CASE upc = "VECINT"
    BY <1>1, <1>16, <1>19, <2>1, <2>3 DEF RhInv
  <2>4. QED
    BY <2>1, <2>2, <2>3
<1>20. QED
  BY <1>6, <1>7, <1>9, <1>13, <1>14, <1>17, <1>18, <1>19 DEF RhInv, Attention

LEMMA RhInvariant ==
    ASSUME LevelsApart, OneFitted, NoTransfer
    PROVE  Spec => [](IntrInv /\ ReqInv /\ ServeInv /\ RhInv)
<1>1. Init => RhInv
  <2>1. SUFFICES ASSUME Init PROVE RhInv
    OBVIOUS
  <2>2. rh.IFF = FALSE /\ rh.RDY = TRUE /\ rh.lastRDY = TRUE /\ bus = "none" /\ upc = "RUN"
    BY <2>1 DEF Init
  <2>3. QED
    BY <2>2 DEF RhInv, Rh1, Taking
<1>2. IntrInv /\ IntrInv' /\ ServeInv /\ RhInv /\ [Next]_vars => RhInv'
  <2>1. ASSUME IntrInv, IntrInv', ServeInv, RhInv, Next
        PROVE  RhInv'
    <3>1. PICK e : Devices(e) /\ (Micro \/ Control) /\ (e \in Sources => Possible(e))
      BY <2>1, StepIs DEF IntrInv
    <3>2. QED
      BY <2>1, <3>1, RhStep DEF ServeInv
  <2>2. ASSUME RhInv, UNCHANGED vars
        PROVE  RhInv'
    BY <2>2 DEF vars, devVars, cpuVars, RhInv, Rh1, Attention, Started
  <2>3. QED
    BY <2>1, <2>2
<1>3. QED
  BY <1>1, <1>2, ServeInvariant, PTL DEF Spec

\* The vector that the microcode reads is that of a device of the adapter it
\* asked (uba.v) that requests at the level being served.
THEOREM VectorsRight ==
    ASSUME LevelsApart, OneFitted, NoTransfer
    PROVE  Spec => VectorOfRequest
<1>1. ASSUME IntrInv, ReqInv, ServeInv, RhInv, Next, upc = "VECINT", upc' = "LDPI2"
      PROVE  Asks(Head(stack').vec) /\ lvl \in busINTR(unit)
  <2>1. Micro \/ Control
    BY <1>1, StepIs DEF IntrInv
  <2>2. Vector(unit) \in Vectors
    BY DEF Vector, Vectors
  <2>3. Head(stack').vec = Vector(unit)
    <3>1. StartHandler(Vector(unit))
      BY <1>1, <2>1, VectorStarts
    <3>2. stack' \in Seq(Frame) /\ DOMAIN stack' = 1 .. Len(stack) + 1 /\ Len(stack) \in Nat
          /\ stack'[1].vec = Vector(unit)
      BY <1>1, <2>2, <3>1, Started1 DEF IntrInv
    <3>3. Head(stack') = stack'[1]
      BY <3>2
    <3>4. QED
      BY <3>2, <3>3
  <2>4. (unit = 3 <=> lvl = PIL[3]) /\ (unit = 1 <=> lvl = PIH[1]) /\ unit \in {1, 3}
    BY <1>1, LevelOf3 DEF IntrInv, CpuTypes, Units
  <2>5. CASE unit = 3
    <3>1. devINTR(3) \cap Low # {}
      BY <1>1, <2>4, <2>5 DEF ReqInv, Asked3, Taking
    <3>2. lvl \in busINTR(3)
      BY <2>4, <2>5, <3>1 DEF busINTR
    <3>3. AskDz \/ lpINTR \/ dupRXINTR \/ dupTXINTR
      BY <3>1 DEF devINTR, Low, AskDz
    <3>4. CASE AskDz
      <4>1. dz.arb \in {"VECTREAD", "VECTCLR"}
        BY <1>1, <2>4, <2>5, <3>4 DEF ReqInv, Commits, Taking
      <4>2. IF dz.rxVECTOR THEN rxINTR ELSE txINTR
        BY <1>1, <4>1 DEF ReqInv, Committed
      <4>3. Vector(3) = IF dz.rxVECTOR THEN "rx" ELSE "tx"
        BY <1>1, <3>4, VectorIs DEF IntrInv
      <4>4. Asks(Vector(3))
        BY <4>2, <4>3 DEF Asks
      <4>5. QED
        BY <2>3, <2>5, <3>2, <4>4
    <3>5. CASE lpINTR
      BY <1>1, <2>3, <2>5, <3>2, <3>5, VectorIs DEF IntrInv, Asks
    <3>6. CASE dupRXINTR
      BY <1>1, <2>3, <2>5, <3>2, <3>6, VectorIs DEF IntrInv, Asks
    <3>7. CASE dupTXINTR
      BY <1>1, <2>3, <2>5, <3>2, <3>7, VectorIs DEF IntrInv, Asks
    <3>8. QED
      BY <3>3, <3>4, <3>5, <3>6, <3>7
  <2>6. CASE unit = 1
    <3>1. rhIRQ
      BY <1>1, <2>4, <2>6 DEF RhInv, Rh1, Taking, Attention, rhIRQ
    <3>2. Vector(1) = "rh" /\ lvl \in busINTR(1)
      BY <2>4, <2>6, <3>1 DEF Vector, busINTR, devINTR, High
    <3>3. QED
      BY <2>3, <2>6, <3>1, <3>2 DEF Asks
  <2>7. QED
    BY <2>4, <2>5, <2>6
<1>2. IntrInv /\ ReqInv /\ ServeInv /\ RhInv /\ [Next]_vars
         => [(upc = "VECINT" /\ upc' = "LDPI2")
                => Asks(Head(stack').vec) /\ lvl \in busINTR(unit)]_vars
  BY <1>1
<1>3. QED
  BY <1>2, RhInvariant, PTL DEF Spec, VectorOfRequest
=============================================================================
