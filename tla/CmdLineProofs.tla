--------------------------- MODULE CmdLineProofs ---------------------------
(***************************************************************************)
(* Proofs about CmdLine, for a ^T that is typed inside of the line.  The   *)
(* history is sound because of what the bytes between head and tail are:   *)
(* there is a set of slots, with head and tail in it, each of which but    *)
(* tail holds the length of a line whose successor is again in the set and *)
(* that ends before tail.  Everything that walks along the headers stays   *)
(* in that set, and Save makes one of it again.                            *)
(***************************************************************************)
EXTENDS CmdLine, WellFoundedInduction, TLAPS

-----------------------------------------------------------------------------
(* Numbers. *)

\* A set of natural numbers has a smallest one.
LEMMA LeastNat ==
  ASSUME NEW T, T \subseteq Nat, T # {}
  PROVE  \E x \in T : \A y \in T : x <= y
<1>1. \E x \in T : \A y \in T : ~(<<y, x>> \in OpToRel(<, Nat))
  BY NatLessThanWellFounded, WFMin
<1>2. PICK x \in T : \A y \in T : ~(<<y, x>> \in OpToRel(<, Nat))
  BY <1>1
<1>3. \A y \in T : ~(y < x)
  BY <1>2 DEF OpToRel
<1> QED
  BY <1>3

\* Min of the community modules is that number.
LEMMA MinIsLeast ==
  ASSUME NEW T, T \subseteq Nat, T # {}
  PROVE  Min(T) \in T /\ \A y \in T : Min(T) <= y
<1>1. \E x \in T : \A y \in T : x <= y
  BY LeastNat
<1> QED
  BY <1>1 DEF Min

LEMMA MaxOfTwo ==
  ASSUME NEW a \in Int, NEW b \in Int
  PROVE  Max({a, b}) = IF a >= b THEN a ELSE b
BY DEF Max

\* How far slot b is behind slot a.
Dist(a, b) == Wrap(b + BufSize - a)

LEMMA DistType ==
  ASSUME BufSize \in Nat, NEW a \in Slots, NEW b \in Slots
  PROVE  Dist(a, b) \in Slots /\ Wrap(a + Dist(a, b)) = b
BY DEF Dist, Wrap, Slots

LEMMA DistAdd ==
  ASSUME BufSize \in Nat, NEW a \in Slots, NEW b \in Slots, NEW x \in Nat,
         Dist(a, b) + x < BufSize
  PROVE  Wrap(b + x) \in Slots /\ Dist(a, Wrap(b + x)) = Dist(a, b) + x
BY DEF Dist, Wrap, Slots

LEMMA DistFrom ==
  ASSUME BufSize \in Nat, NEW a \in Slots, NEW g \in Slots, NEW h \in Slots,
         Dist(a, g) <= Dist(a, h)
  PROVE  Dist(g, h) = Dist(a, h) - Dist(a, g)
BY DEF Dist, Wrap, Slots

LEMMA DistRound ==
  ASSUME BufSize \in Nat, NEW a \in Slots, NEW h \in Slots, NEW t \in Slots,
         Dist(a, h) < Dist(a, t)
  PROVE  Dist(t, h) = BufSize + Dist(a, h) - Dist(a, t)
BY DEF Dist, Wrap, Slots

LEMMA RoomIsDist ==
  ASSUME BufSize \in Nat, tail \in Slots, NEW h \in Slots, NEW size \in Nat,
         RoomFor(h, size)
  PROVE  Dist(h, tail) + size + 1 < BufSize
BY DEF Dist, Wrap, Slots, RoomFor

-----------------------------------------------------------------------------
(* The headers. *)

\* f is the walk of m steps from h along skip.
Walk(h, skip, m, f) ==
  f = [n \in 0 .. m |-> IF n = 0 THEN h ELSE skip[f[n - 1]]]

LEMMA WalksExist ==
  ASSUME NEW N \in Nat, NEW h, NEW skip
  PROVE  \A m \in 0 .. N : \E f : Walk(h, skip, m, f)
<1> DEFINE Bad == {m \in 0 .. N : ~ \E f : Walk(h, skip, m, f)}
<1>1. SUFFICES ASSUME Bad # {} PROVE FALSE
  BY <1>1
<1>2. Bad \subseteq Nat
  OBVIOUS
<1>3. PICK m \in Bad : \A y \in Bad : m <= y
  BY <1>1, <1>2, LeastNat
<1>4. m # 0
  <2>1. Walk(h, skip, 0, [n \in 0 .. 0 |-> h])
    BY DEF Walk
  <2> QED
    BY <2>1, <1>3
<1>5. m - 1 \in 0 .. N /\ m - 1 \notin Bad
  <2>1. m \in Nat /\ m <= N
    BY <1>3
  <2>2. m - 1 \in 0 .. N /\ ~(m <= m - 1)
    BY <2>1, <1>4
  <2> QED
    BY <2>2, <1>3
<1>6. PICK f : Walk(h, skip, m - 1, f)
  BY <1>5
<1> DEFINE g == [n \in 0 .. m |-> IF n <= m - 1 THEN f[n] ELSE skip[f[m - 1]]]
<1>7. Walk(h, skip, m, g)
  <2>1. m \in Nat /\ m # 0
    BY <1>3, <1>4
  <2>2. \A n \in 0 .. m : g[n] = IF n = 0 THEN h ELSE skip[g[n - 1]]
    <3> SUFFICES ASSUME NEW n \in 0 .. m
                 PROVE  g[n] = IF n = 0 THEN h ELSE skip[g[n - 1]]
      OBVIOUS
    <3>1. CASE n = 0
      BY <3>1, <2>1, <1>6 DEF Walk
    <3>2. CASE n # 0 /\ n <= m - 1
      BY <3>2, <2>1, <1>6 DEF Walk
    <3>3. CASE n = m
      <4>1. g[n] = skip[f[m - 1]]
        BY <3>3, <2>1
      <4>2. g[n - 1] = f[m - 1]
        BY <3>3, <2>1
      <4> QED
        BY <4>1, <4>2, <3>3, <2>1
    <3> QED
      BY <3>1, <3>2, <3>3, <2>1
  <2> HIDE DEF g
  <2>3. g = [n \in 0 .. m |-> g[n]]
    BY DEF g
  <2> QED
    BY <2>2, <2>3 DEF Walk
<1> HIDE DEF g
<1> QED
  BY <1>3, <1>7

\* Header is the walk from head, in this state and in the next.
LEMMA HeaderIs ==
  ASSUME BufSize \in Nat
  PROVE  Walk(head, Skip, BufSize, Header) /\ Walk(head', Skip', BufSize, Header')
<1>1. PICK f : Walk(head, Skip, BufSize, f)
  BY WalksExist
<1>2. Walk(head, Skip, BufSize, Header)
  BY <1>1 DEF Walk, Header
<1>3. PICK g : Walk(head', Skip', BufSize, g)
  BY WalksExist
<1>4. Walk(head', Skip', BufSize, Header')
  BY <1>3 DEF Walk, Header
<1> QED
  BY <1>2, <1>4

\* The slots from head to tail: H are those that hold the length of a line,
\* and tail, which holds the zero.
Chain(H) ==
  /\ H \subseteq Slots /\ head \in H /\ tail \in H
  /\ buffer[tail] = 0
  /\ \A h \in H : Dist(head, h) <= Dist(head, tail)
  /\ \A h \in H \ {tail} :
       /\ buffer[h] \in 1 .. LineSize - 1
       /\ Wrap(h + buffer[h] + 1) \in H
       /\ Dist(head, h) + buffer[h] + 1 <= Dist(head, tail)
       /\ \A i \in 1 .. buffer[h] : buffer[Wrap(h + i)] \in 32 .. 126

\* The walk along the headers stays in the chain, and moves on until tail.
LEMMA HeadersInChain ==
  ASSUME BufSize \in Nat, NEW H, Chain(H)
  PROVE  \A n \in 0 .. BufSize : /\ Header[n] \in H
                                 /\ Header[n] = tail \/ n <= Dist(head, Header[n])
<1> DEFINE Good(n) == /\ Header[n] \in H
                      /\ Header[n] = tail \/ n <= Dist(head, Header[n])
           Bad == {n \in 0 .. BufSize : ~Good(n)}
<1>1. SUFFICES ASSUME Bad # {} PROVE FALSE
  BY <1>1
<1>2. Bad \subseteq Nat
  OBVIOUS
<1>3. PICK m \in Bad : \A y \in Bad : m <= y
  BY <1>1, <1>2, LeastNat
<1>4. \A n \in 0 .. BufSize : Header[n] = IF n = 0 THEN head ELSE Skip[Header[n - 1]]
  BY HeaderIs DEF Walk
<1>5. m # 0
  <2>1. Header[0] = head
    BY <1>4
  <2>2. Dist(head, head) \in Nat
    BY DistType DEF Chain, Slots
  <2> QED
    BY <2>1, <2>2, <1>3 DEF Chain
<1>6. m - 1 \in 0 .. BufSize /\ m \in Nat /\ m - 1 \notin Bad
  <2>1. m \in Nat /\ m <= BufSize
    BY <1>3
  <2>2. m - 1 \in 0 .. BufSize /\ ~(m <= m - 1)
    BY <2>1, <1>5
  <2> QED
    BY <2>1, <2>2, <1>3
<1>7. Good(m - 1)
  BY <1>6
<1>8. Header[m] = Skip[Header[m - 1]]
  BY <1>4, <1>5, <1>6
<1>9. PICK h \in H : h = Header[m - 1] /\ (h = tail \/ m - 1 <= Dist(head, h))
  BY <1>7
<1>10. h \in Slots /\ head \in Slots
  BY DEF Chain
<1>11. Header[m] = IF buffer[h] = 0 THEN h ELSE Wrap(h + buffer[h] + 1)
  BY <1>8, <1>9, <1>10 DEF Skip
<1>12. CASE h = tail
  BY <1>11, <1>12, <1>3 DEF Chain
<1>13. CASE h # tail
  <2>1. /\ buffer[h] \in Nat /\ buffer[h] # 0
        /\ Wrap(h + buffer[h] + 1) \in H
        /\ Dist(head, h) + buffer[h] + 1 <= Dist(head, tail)
    BY <1>13 DEF Chain
  <2>2. Header[m] = Wrap(h + (buffer[h] + 1)) /\ Header[m] \in H
    BY <2>1, <1>11, <1>10 DEF Slots, Wrap
  <2>3. Dist(head, h) \in Nat /\ Dist(head, tail) \in 0 .. BufSize - 1
    BY <1>10, DistType DEF Slots, Chain
  <2>4. PICK b \in Nat : b = buffer[h] + 1 /\ b > 0
    BY <2>1
  <2>5. Dist(head, h) + b < BufSize
    BY <2>1, <2>3, <2>4
  <2>6. Dist(head, Wrap(h + b)) = Dist(head, h) + b
    BY <2>5, <2>4, <1>10, DistAdd
  <2>7. Dist(head, Header[m]) = Dist(head, h) + b
    BY <2>6, <2>4, <2>2
  <2>8. m <= Dist(head, Header[m])
    BY <2>7, <2>3, <2>4, <1>9, <1>13, <1>6
  <2> QED
    BY <2>2, <2>8, <1>3
<1> QED
  BY <1>12, <1>13

\* The list ends: entries is a number, and the header of that number is tail.
LEMMA EntriesType ==
  ASSUME BufSize \in Nat, NEW H, Chain(H)
  PROVE  entries \in 0 .. BufSize /\ Header[entries] = tail
<1> DEFINE Ends == {n \in 0 .. BufSize : buffer[Header[n]] = 0}
<1>1. Header[BufSize] = tail
  <2>1. Header[BufSize] \in H /\ (Header[BufSize] = tail \/ BufSize <= Dist(head, Header[BufSize]))
    BY HeadersInChain
  <2>2. Dist(head, Header[BufSize]) \in 0 .. BufSize - 1
    BY <2>1, DistType DEF Chain, Slots
  <2> QED
    BY <2>1, <2>2
<1>2. Ends # {} /\ Ends \subseteq Nat
  BY <1>1 DEF Chain
<1>3. entries \in Ends
  BY <1>2, MinIsLeast DEF entries
<1>4. Header[entries] \in H
  BY <1>3, HeadersInChain
<1>5. \A h \in H : h # tail => buffer[h] # 0
  BY DEF Chain
<1> QED
  BY <1>3, <1>4, <1>5

-----------------------------------------------------------------------------
(* Recalling a line. *)

Texts == {s \in Seq(32 .. 126) : Len(s) <= LineSize - 1}

LEMMA LineAtType ==
  ASSUME CmdLineAssumption, NEW H, Chain(H), NEW h \in H
  PROVE  LineAt(h) \in Texts
<1>1. CASE h = tail
  <2>1. buffer[h] = 0
    BY <1>1 DEF Chain
  <2>2. LineAt(h) = <<>>
    BY <2>1 DEF LineAt
  <2>3. LineSize - 1 >= 0
    <3>1. Len(BootLine) \in 1 .. LineSize - 1 /\ LineSize \in Nat
      BY DEF CmdLineAssumption
    <3> QED
      BY <3>1
  <2> QED
    BY <2>2, <2>3 DEF Texts
<1>2. CASE h # tail
  <2>1. PICK n \in 1 .. LineSize - 1 : n = buffer[h]
    BY <1>2 DEF Chain
  <2>2. \A i \in 1 .. n : buffer[Wrap(h + i)] \in 32 .. 126
    BY <1>2, <2>1 DEF Chain
  <2>3. LineAt(h) = [i \in 1 .. n |-> buffer[Wrap(h + i)]]
    BY <2>1 DEF LineAt
  <2>4. n \in Nat /\ n <= LineSize - 1
    BY <2>1 DEF CmdLineAssumption
  <2>5. LineAt(h) \in [1 .. n -> 32 .. 126]
    BY <2>2, <2>3
  <2>6. LineAt(h) \in Seq(32 .. 126) /\ Len(LineAt(h)) = n
    BY <2>4, <2>5
  <2> QED
    BY <2>4, <2>6 DEF Texts
<1> QED
  BY <1>1, <1>2

\* What find returns is in the chain, and it is tail unless the place that is
\* asked for is one of the entries.
LEMMA FindInChain ==
  ASSUME BufSize \in Nat, NEW H, Chain(H), NEW num \in Int, NEW idx \in Int
  PROVE  /\ find(num, idx) \in H
         /\ num - idx \notin 0 .. entries - 1 => find(num, idx) = tail
<1>1. entries \in 0 .. BufSize /\ Header[entries] = tail
  BY EntriesType
<1>2. tail \in H
  BY DEF Chain
<1>3. CASE num - idx \in 0 .. entries - 1
  <2>1. num - idx \in 0 .. BufSize
    BY <1>1, <1>3
  <2>2. Header[num - idx] \in H
    BY <2>1, HeadersInChain
  <2> QED
    BY <2>2, <1>3 DEF find
<1>4. CASE num - idx \notin 0 .. entries - 1
  BY <1>4, <1>1, <1>2 DEF find
<1> QED
  BY <1>3, <1>4

LEMMA UpInChain ==
  ASSUME BufSize \in Nat, NEW H, Chain(H), index \in Nat
  PROVE  Up \in H /\ (HasOlder => index + 1 <= entries)
<1>1. entries \in 0 .. BufSize
  BY EntriesType
<1>2. /\ Up \in H
      /\ entries - 1 - index \notin 0 .. entries - 1 => Up = tail
  <2>1. entries - 1 \in Int /\ index \in Int
    BY <1>1
  <2> QED
    BY <2>1, FindInChain DEF Up
<1>3. HasOlder => Up # tail
  BY DEF HasOlder, Chain
<1>4. HasOlder => entries - 1 - index \in 0 .. entries - 1
  BY <1>2, <1>3
<1> QED
  BY <1>1, <1>2, <1>4

LEMMA NewerType ==
  ASSUME CmdLineAssumption, NEW H, Chain(H), index \in Nat
  PROVE  Newer \in Texts
<1>1. BufSize \in Nat /\ LineSize \in Nat /\ LineSize - 1 >= 0
  <2>1. Len(BootLine) \in 1 .. LineSize - 1 /\ LineSize \in Nat /\ BufSize \in Nat
    BY DEF CmdLineAssumption
  <2> QED
    BY <2>1
<1>2. CASE index > 0
  <2>1. entries + 1 \in Int /\ index \in Int
    BY <1>1, EntriesType
  <2>2. Down \in H
    BY <1>1, <2>1, FindInChain DEF Down
  <2> QED
    BY <2>2, <1>2, LineAtType DEF Newer
<1>3. CASE ~(index > 0)
  BY <1>1, <1>3 DEF Newer, Texts
<1> QED
  BY <1>2, <1>3

-----------------------------------------------------------------------------
(* Saving a line. *)

\* findfree ends at a line of the chain in front of which there is room.
LEMMA FreeHeadRoom ==
  ASSUME BufSize \in Nat, NEW H, Chain(H), NEW size \in Nat, size <= BufSize - 2
  PROVE  FreeHead(size) \in H /\ RoomFor(FreeHead(size), size)
<1> DEFINE Stops == {n \in 0 .. entries : n = entries \/ RoomFor(Header[n], size)}
<1>1. entries \in 0 .. BufSize /\ Header[entries] = tail
  BY EntriesType
<1>2. Stops \subseteq Nat /\ Stops # {}
  BY <1>1
<1>3. Min(Stops) \in Stops
  BY <1>2, MinIsLeast
<1>4. PICK n \in 0 .. entries : n = Min(Stops) /\ (n = entries \/ RoomFor(Header[n], size))
  BY <1>3
<1>5. FreeHead(size) = Header[n]
  BY <1>4 DEF FreeHead
<1>6. Header[n] \in H
  <2>1. n \in 0 .. BufSize
    BY <1>1, <1>4
  <2> QED
    BY <2>1, HeadersInChain
<1>7. RoomFor(tail, size)
  <2>1. tail \in Nat
    BY DEF Chain, Slots
  <2> QED
    BY <2>1 DEF RoomFor
<1> QED
  BY <1>1, <1>4, <1>5, <1>6, <1>7

\* What save writes: the line behind tail, and nothing of the lines that stay.
LEMMA SaveWrites ==
  ASSUME BufSize \in Nat, LineSize \in Nat, NEW H, Chain(H),
         NEW text \in Texts, text # <<>>, LineSize < BufSize, Save(text),
         NEW size, size = Len(text), NEW g, g = FreeHead(size),
         NEW t, t = tail
  PROVE  /\ size \in 1 .. LineSize - 1 /\ size + 1 < BufSize
         /\ g \in H /\ Dist(g, t) + size + 1 < BufSize
         /\ head' = g /\ tail' = Wrap(t + size + 1) /\ index' = 0
         /\ buffer' = [p \in Slots |-> buffer'[p]]
         /\ buffer'[t] = size
         /\ \A i \in 1 .. size : buffer'[Wrap(t + i)] = text[i]
         /\ buffer'[Wrap(t + size + 1)] = 0
         /\ \A p \in Slots : Dist(head, g) <= Dist(head, p) /\ Dist(head, p) < Dist(head, t)
                               => buffer'[p] = buffer[p]
         /\ \A p \in Slots : buffer'[p] \in {0, size} \cup 32 .. 126 \cup {buffer[p]}
<1>1. size \in 1 .. LineSize - 1 /\ size <= BufSize - 2 /\ size # 0
  <2>1. text \in Seq(32 .. 126) /\ Len(text) \in Nat /\ Len(text) <= LineSize - 1 /\ text # <<>>
    BY DEF Texts
  <2>2. Len(text) # 0
    BY <2>1
  <2> QED
    BY <2>1, <2>2
<1>2. g \in H /\ RoomFor(g, size)
  <2>1. size \in Nat
    BY <1>1
  <2> QED
    BY <1>1, <2>1, FreeHeadRoom
<1>3. g \in Slots /\ t \in Slots /\ head \in Slots /\ t \in H /\ tail \in Slots
  BY <1>2 DEF Chain
<1>4. Dist(g, t) + size + 1 < BufSize
  <2>1. size \in Nat
    BY <1>1
  <2> QED
    BY <2>1, <1>2, <1>3, RoomIsDist
<1> DEFINE Byte(p, k) == IF k = 0 THEN size
                         ELSE IF k <= size THEN text[k]
                         ELSE IF k = size + 1 THEN 0
                         ELSE IF p = g /\ buffer[g] = 0 THEN size ELSE buffer[p]
<1>5. /\ buffer' = [p \in Slots |-> Byte(p, Dist(t, p))]
      /\ head' = g /\ tail' = Wrap(t + size + 1) /\ index' = 0
  BY <1>1 DEF Save, Dist
<1>6. \A p \in Slots : buffer'[p] = Byte(p, Dist(t, p))
  BY <1>5
<1>7. Dist(t, t) = 0
  BY <1>3 DEF Dist, Wrap, Slots
<1>8. \A i \in 0 .. size + 1 : Wrap(t + i) \in Slots /\ Dist(t, Wrap(t + i)) = i
  <2> SUFFICES ASSUME NEW i \in 0 .. size + 1
               PROVE  Wrap(t + i) \in Slots /\ Dist(t, Wrap(t + i)) = i
    OBVIOUS
  <2>1. i \in Nat /\ Dist(t, t) + i < BufSize
    BY <1>1, <1>7
  <2> QED
    BY <2>1, <1>3, <1>7, DistAdd
<1>9. buffer'[t] = size
  BY <1>6, <1>7, <1>3
<1>10. \A i \in 1 .. size : buffer'[Wrap(t + i)] = text[i]
  <2> SUFFICES ASSUME NEW i \in 1 .. size PROVE buffer'[Wrap(t + i)] = text[i]
    OBVIOUS
  <2>1. i \in 0 .. size + 1 /\ i # 0 /\ i <= size
    BY <1>1
  <2>2. PICK p \in Slots : p = Wrap(t + i) /\ Dist(t, p) = i
    BY <2>1, <1>8
  <2> QED
    BY <2>1, <2>2, <1>6
<1>11. buffer'[Wrap(t + size + 1)] = 0
  <2>1. size + 1 \in 0 .. size + 1 /\ size + 1 # 0 /\ ~(size + 1 <= size)
    BY <1>1
  <2>2. PICK p \in Slots : p = Wrap(t + (size + 1)) /\ Dist(t, p) = size + 1
    BY <2>1, <1>8
  <2>3. t + (size + 1) = t + size + 1
    BY <1>1, <1>3 DEF Slots
  <2> QED
    BY <2>1, <2>2, <2>3, <1>6
<1>12. \A p \in Slots : Dist(head, g) <= Dist(head, p) /\ Dist(head, p) < Dist(head, t)
                          => buffer'[p] = buffer[p]
  <2> SUFFICES ASSUME NEW p \in Slots,
                      Dist(head, g) <= Dist(head, p), Dist(head, p) < Dist(head, t)
               PROVE  buffer'[p] = buffer[p]
    OBVIOUS
  <2>1. Dist(t, p) = BufSize + Dist(head, p) - Dist(head, t)
    BY <1>3, DistRound
  <2>2. /\ Dist(head, p) \in 0 .. BufSize - 1 /\ Dist(head, g) \in 0 .. BufSize - 1
        /\ Dist(head, t) \in 0 .. BufSize - 1
    BY <1>3, DistType DEF Slots
  <2>3. Dist(g, t) = Dist(head, t) - Dist(head, g)
    <3>1. Dist(head, g) <= Dist(head, t)
      BY <2>2
    <3> QED
      BY <3>1, <1>3, DistFrom
  <2>4. Dist(t, p) > size + 1
    BY <2>1, <2>2, <2>3, <1>4, <1>1
  <2>5. ~(p = g /\ buffer[g] = 0)
    <3>1. p # t
      BY <2>2
    <3> QED
      BY <3>1, <1>2 DEF Chain
  <2>6. PICK k \in Nat : k = Dist(t, p) /\ k > size + 1
    BY <2>1, <2>2, <2>4
  <2>7. k # 0 /\ ~(k <= size) /\ k # size + 1
    BY <2>6, <1>1
  <2> QED
    BY <2>5, <2>6, <2>7, <1>6
<1>13. \A p \in Slots : buffer'[p] \in {0, size} \cup 32 .. 126 \cup {buffer[p]}
  <2> SUFFICES ASSUME NEW p \in Slots
               PROVE  buffer'[p] \in {0, size} \cup 32 .. 126 \cup {buffer[p]}
    OBVIOUS
  <2>1. PICK k \in Nat : k = Dist(t, p)
    BY <1>3, DistType DEF Slots
  <2>2. k # 0 /\ k <= size => text[k] \in 32 .. 126
    BY <1>1 DEF Texts
  <2> QED
    BY <2>1, <2>2, <1>6
<1>14. buffer' = [p \in Slots |-> buffer'[p]]
  BY <1>5
<1>15. size + 1 < BufSize
  BY <1>1
<1> QED
  BY <1>1, <1>2, <1>4, <1>5, <1>9, <1>10, <1>11, <1>12, <1>13, <1>14, <1>15

\* The lines that stay and the new one are a chain again.
LEMMA SaveChain ==
  ASSUME BufSize \in Nat, LineSize \in Nat, NEW H, Chain(H),
         NEW text \in Texts, text # <<>>, LineSize < BufSize, Save(text)
  PROVE  \E G : Chain(G)'
<1>1. PICK size : size = Len(text)
  OBVIOUS
<1>2. PICK g : g = FreeHead(size)
  OBVIOUS
<1>3. PICK a, t : a = head /\ t = tail
  OBVIOUS
<1>4. PICK q : q = Wrap(t + size + 1)
  OBVIOUS
<1>5. /\ size \in 1 .. LineSize - 1 /\ size + 1 < BufSize
      /\ g \in H /\ Dist(g, t) + size + 1 < BufSize
      /\ head' = g /\ tail' = q
      /\ buffer'[t] = size
      /\ \A i \in 1 .. size : buffer'[Wrap(t + i)] = text[i]
      /\ buffer'[q] = 0
      /\ \A p \in Slots : Dist(a, g) <= Dist(a, p) /\ Dist(a, p) < Dist(a, t)
                            => buffer'[p] = buffer[p]
  BY <1>1, <1>2, <1>3, <1>4, SaveWrites
<1>6. /\ H \subseteq Slots /\ a \in H /\ t \in H /\ a \in Slots /\ t \in Slots /\ g \in Slots
      /\ \A h \in H : Dist(a, h) <= Dist(a, t)
      /\ \A h \in H \ {t} :
           /\ buffer[h] \in 1 .. LineSize - 1
           /\ Wrap(h + buffer[h] + 1) \in H
           /\ Dist(a, h) + buffer[h] + 1 <= Dist(a, t)
           /\ \A i \in 1 .. buffer[h] : buffer[Wrap(h + i)] \in 32 .. 126
  BY <1>3, <1>5 DEF Chain
<1>7. PICK G : G = {h \in H : Dist(a, g) <= Dist(a, h)} \cup {q}
  OBVIOUS
<1>8. Dist(g, t) \in 0 .. BufSize - 1 /\ Dist(a, t) \in 0 .. BufSize - 1 /\ Dist(a, g) \in 0 .. BufSize - 1
  BY <1>6, DistType DEF Slots
<1>9. q \in Slots /\ Dist(g, q) = Dist(g, t) + size + 1
  <2>1. PICK x \in Nat : x = size + 1
    BY <1>5
  <2>2. Dist(g, t) + x < BufSize
    BY <2>1, <1>5, <1>8
  <2>3. Wrap(t + x) \in Slots /\ Dist(g, Wrap(t + x)) = Dist(g, t) + x
    BY <2>2, <1>6, DistAdd
  <2>4. t + x = t + size + 1 /\ Dist(g, t) + x = Dist(g, t) + size + 1
    BY <2>1, <1>5, <1>6, <1>8 DEF Slots
  <2> QED
    BY <2>3, <2>4, <1>4
<1>10. \A h \in H : Dist(a, g) <= Dist(a, h) =>
          /\ Dist(g, h) = Dist(a, h) - Dist(a, g)
          /\ Dist(a, h) \in 0 .. BufSize - 1
          /\ Dist(g, h) <= Dist(g, t)
  <2> SUFFICES ASSUME NEW h \in H, Dist(a, g) <= Dist(a, h)
               PROVE  /\ Dist(g, h) = Dist(a, h) - Dist(a, g)
                      /\ Dist(a, h) \in 0 .. BufSize - 1
                      /\ Dist(g, h) <= Dist(g, t)
    OBVIOUS
  <2>1. h \in Slots /\ Dist(a, h) <= Dist(a, t)
    BY <1>6
  <2>2. Dist(g, h) = Dist(a, h) - Dist(a, g)
    BY <2>1, <1>6, DistFrom
  <2>3. Dist(a, h) \in 0 .. BufSize - 1
    BY <2>1, <1>6, DistType DEF Slots
  <2>4. Dist(a, g) <= Dist(a, t)
    BY <2>1, <2>3, <1>8
  <2>5. Dist(g, t) = Dist(a, t) - Dist(a, g)
    BY <2>4, <1>6, DistFrom
  <2> QED
    BY <2>1, <2>2, <2>3, <2>5, <1>8
<1>11. G \subseteq Slots /\ g \in G /\ q \in G /\ t \in G
  <2>1. Dist(a, g) <= Dist(a, g)
    BY <1>8
  <2>2. Dist(a, g) <= Dist(a, t)
    BY <1>5, <1>6
  <2> QED
    BY <2>1, <2>2, <1>5, <1>6, <1>7, <1>9
<1>12. \A h \in G : Dist(g, h) <= Dist(g, q)
  <2>1. \A h \in G : h = q \/ (h \in H /\ Dist(a, g) <= Dist(a, h))
    BY <1>7
  <2> QED
    BY <2>1, <1>5, <1>8, <1>9, <1>10
<1>13. ASSUME NEW h \in G \ {q}
       PROVE  /\ buffer'[h] \in 1 .. LineSize - 1
              /\ Wrap(h + buffer'[h] + 1) \in G
              /\ Dist(g, h) + buffer'[h] + 1 <= Dist(g, q)
              /\ \A i \in 1 .. buffer'[h] : buffer'[Wrap(h + i)] \in 32 .. 126
  <2>1. h \in H /\ Dist(a, g) <= Dist(a, h) /\ h \in Slots
    BY <1>7, <1>6
  <2>2. CASE h = t
    <3>1. buffer'[h] = size
      BY <2>2, <1>5
    <3>2. Wrap(h + buffer'[h] + 1) \in G
      BY <3>1, <2>2, <1>4, <1>11
    <3>3. Dist(g, h) + buffer'[h] + 1 <= Dist(g, q)
      BY <3>1, <2>2, <1>9, <1>8, <1>5
    <3>4. ASSUME NEW i \in 1 .. buffer'[h] PROVE buffer'[Wrap(h + i)] \in 32 .. 126
      <4>1. i \in 1 .. size /\ buffer'[Wrap(h + i)] = text[i]
        BY <3>1, <2>2, <1>5
      <4> QED
        BY <4>1, <1>1 DEF Texts
    <3> QED
      BY <3>1, <3>2, <3>3, <3>4, <1>5
  <2>3. CASE h # t
    <3>1. PICK b \in 1 .. LineSize - 1 : b = buffer[h]
      BY <2>1, <2>3, <1>6
    <3>2. /\ Wrap(h + b + 1) \in H
          /\ Dist(a, h) + b + 1 <= Dist(a, t)
          /\ \A i \in 1 .. b : buffer[Wrap(h + i)] \in 32 .. 126
      BY <2>1, <2>3, <3>1, <1>6
    <3>3. Dist(a, h) \in 0 .. BufSize - 1 /\ Dist(a, h) < Dist(a, t) /\ b \in Nat
      BY <2>1, <3>1, <3>2, <1>10, <1>8
    <3>4. \A i \in 0 .. b + 1 : Wrap(h + i) \in Slots /\ Dist(a, Wrap(h + i)) = Dist(a, h) + i
      <4> SUFFICES ASSUME NEW i \in 0 .. b + 1
                   PROVE  Wrap(h + i) \in Slots /\ Dist(a, Wrap(h + i)) = Dist(a, h) + i
        OBVIOUS
      <4>1. i \in Nat /\ Dist(a, h) + i < BufSize
        BY <3>2, <3>3, <1>8
      <4> QED
        BY <4>1, <2>1, <1>6, DistAdd
    <3>5. buffer'[h] = b
      BY <2>1, <3>1, <3>3, <1>5
    <3>6. ASSUME NEW i \in 1 .. b PROVE buffer'[Wrap(h + i)] \in 32 .. 126
      <4>1. i \in 0 .. b + 1 /\ i >= 0 /\ i <= b
        BY <3>3
      <4>2. PICK p \in Slots : p = Wrap(h + i) /\ Dist(a, p) = Dist(a, h) + i
        BY <4>1, <3>4
      <4>3. Dist(a, g) <= Dist(a, p) /\ Dist(a, p) < Dist(a, t)
        BY <4>1, <4>2, <3>2, <3>3, <2>1, <1>8
      <4>4. buffer'[p] = buffer[p]
        BY <4>3, <1>5
      <4> QED
        BY <4>2, <4>4, <3>2
    <3>7. Wrap(h + b + 1) \in G
      <4>1. b + 1 \in 0 .. b + 1 /\ h + (b + 1) = h + b + 1
        BY <3>3, <2>1 DEF Slots
      <4>2. Dist(a, Wrap(h + b + 1)) = Dist(a, h) + (b + 1)
        BY <4>1, <3>4
      <4>3. Dist(a, g) <= Dist(a, Wrap(h + b + 1))
        BY <4>2, <3>3, <2>1, <1>8
      <4> QED
        BY <4>3, <3>2, <1>7
    <3>8. Dist(g, h) + b + 1 <= Dist(g, q)
      <4>1. Dist(g, h) = Dist(a, h) - Dist(a, g)
        BY <2>1, <1>10
      <4>2. Dist(g, t) = Dist(a, t) - Dist(a, g)
        BY <1>6, <1>5, DistFrom
      <4> QED
        BY <4>1, <4>2, <3>2, <3>3, <1>8, <1>9, <1>5
    <3> QED
      BY <3>5, <3>6, <3>7, <3>8
  <2> QED
    BY <2>2, <2>3
<1>14. Chain(G)'
  BY <1>5, <1>11, <1>12, <1>13 DEF Chain
<1> QED
  BY <1>14

-----------------------------------------------------------------------------
(* The terminal. *)

\* The first n characters of the line from place c on.
Piece(line, c, n) == [i \in 1 .. n |-> line[c + i - 1]]

PutRule(P, line, c, m) ==
  P = [n \in 0 .. m |->
         IF n = 0 THEN <<>>
         ELSE IF line[c + n - 1] = 0 THEN P[n - 1]
         ELSE Append(P[n - 1], line[c + n - 1])]

LEMMA PieceGrows ==
  ASSUME NEW line, NEW c, NEW n \in Nat, n # 0
  PROVE  Append(Piece(line, c, n - 1), line[c + n - 1]) = Piece(line, c, n)
<1>1. n - 1 \in Nat /\ (n - 1) + 1 = n
  OBVIOUS
<1> DEFINE V == {line[c + i - 1] : i \in 1 .. n}
<1>2. Piece(line, c, n - 1) \in [1 .. n - 1 -> V] /\ Piece(line, c, n) \in [1 .. n -> V]
  BY <1>1 DEF Piece
<1>3. line[c + n - 1] \in V
  OBVIOUS
<1> HIDE DEF V
<1>4. Piece(line, c, n - 1) \in Seq(V) /\ Len(Piece(line, c, n - 1)) = n - 1
  BY <1>1, <1>2
<1>5. Piece(line, c, n) \in Seq(V) /\ Len(Piece(line, c, n)) = n
  BY <1>2
<1>6. PICK s \in Seq(V) : s = Append(Piece(line, c, n - 1), line[c + n - 1])
  <2>1. PICK r \in Seq(V), x \in V : r = Piece(line, c, n - 1) /\ x = line[c + n - 1]
    BY <1>3, <1>4
  <2>2. Append(r, x) \in Seq(V)
    OBVIOUS
  <2> QED
    BY <2>1, <2>2
<1>7. Len(s) = n
  BY <1>1, <1>3, <1>4, <1>6
<1>8. \A i \in 1 .. n : s[i] = Piece(line, c, n)[i]
  <2> SUFFICES ASSUME NEW i \in 1 .. n PROVE s[i] = Piece(line, c, n)[i]
    OBVIOUS
  <2>1. CASE i = n
    BY <2>1, <1>1, <1>3, <1>4, <1>6 DEF Piece
  <2>2. CASE i # n
    <3>1. i \in 1 .. n - 1
      BY <2>2
    <3>2. s[i] = Piece(line, c, n - 1)[i]
      BY <3>1, <1>3, <1>4, <1>6
    <3> QED
      BY <3>1, <3>2 DEF Piece
  <2> QED
    BY <2>1, <2>2
<1>9. s = Piece(line, c, n)
  BY <1>5, <1>7, <1>8
<1> QED
  BY <1>6, <1>9

LEMMA PutIsPiece ==
  ASSUME NEW line, NEW c \in Nat, NEW m \in Nat, NEW P, PutRule(P, line, c, m),
         \A i \in c .. c + m - 1 : line[i] # 0
  PROVE  P[m] = Piece(line, c, m)
<1> DEFINE Bad == {n \in 0 .. m : P[n] # Piece(line, c, n)}
<1>1. SUFFICES ASSUME Bad # {} PROVE FALSE
  BY <1>1
<1>2. Bad \subseteq Nat
  OBVIOUS
<1>3. PICK n \in Bad : \A y \in Bad : n <= y
  BY <1>1, <1>2, LeastNat
<1>4. P[n] = IF n = 0 THEN <<>>
             ELSE IF line[c + n - 1] = 0 THEN P[n - 1]
             ELSE Append(P[n - 1], line[c + n - 1])
  BY <1>3 DEF PutRule
<1>5. n # 0
  BY <1>3, <1>4 DEF Piece
<1>6. n \in Nat /\ n - 1 \in 0 .. m /\ n - 1 \notin Bad /\ c + n - 1 \in c .. c + m - 1
  <2>1. n \in Nat /\ n <= m
    BY <1>3
  <2>2. n - 1 \in 0 .. m /\ ~(n <= n - 1)
    BY <2>1, <1>5
  <2>3. c + n - 1 \in c .. c + m - 1
    BY <2>1, <1>5
  <2> QED
    BY <2>1, <2>2, <2>3, <1>3
<1>7. P[n - 1] = Piece(line, c, n - 1)
  BY <1>6
<1>8. P[n] = Append(Piece(line, c, n - 1), line[c + n - 1])
  BY <1>4, <1>5, <1>6, <1>7
<1>9. P[n] = Piece(line, c, n)
  BY <1>5, <1>6, <1>8, PieceGrows
<1> QED
  BY <1>3, <1>9

\* A line without zeros is printed as it is.
LEMMA RestIs ==
  ASSUME NEW line, NEW c \in Nat, NEW len \in Nat, c <= len,
         \A i \in c .. len - 1 : line[i] # 0
  PROVE  Rest(line, c, len) = Piece(line, c, len - c)
<1>1. PICK m \in Nat : m = len - c
  OBVIOUS
<1>2. Max({0, len - c}) = m
  <2>1. Max({0, len - c}) = IF 0 >= len - c THEN 0 ELSE len - c
    BY MaxOfTwo
  <2> QED
    BY <2>1, <1>1
<1>3. \A i \in c .. c + m - 1 : line[i] # 0
  BY <1>1
<1> DEFINE g == [n \in 0 .. m |-> Piece(line, c, n)]
<1>4. PutRule(g, line, c, m)
  <2>1. \A n \in 0 .. m : g[n] = IF n = 0 THEN <<>>
                                 ELSE IF line[c + n - 1] = 0 THEN g[n - 1]
                                 ELSE Append(g[n - 1], line[c + n - 1])
    <3> SUFFICES ASSUME NEW n \in 0 .. m
                 PROVE  g[n] = IF n = 0 THEN <<>>
                               ELSE IF line[c + n - 1] = 0 THEN g[n - 1]
                               ELSE Append(g[n - 1], line[c + n - 1])
      OBVIOUS
    <3>1. CASE n = 0
      BY <3>1 DEF Piece
    <3>2. CASE n # 0
      <4>1. n \in Nat /\ n - 1 \in 0 .. m /\ c + n - 1 \in c .. c + m - 1
        BY <3>2
      <4>2. g[n] = Piece(line, c, n) /\ g[n - 1] = Piece(line, c, n - 1)
        BY <4>1
      <4>3. line[c + n - 1] # 0
        BY <4>1, <1>3
      <4> QED
        BY <3>2, <4>1, <4>2, <4>3, PieceGrows
    <3> QED
      BY <3>1, <3>2
  <2>2. g = [n \in 0 .. m |-> g[n]]
    OBVIOUS
  <2> HIDE DEF g
  <2> QED
    BY <2>1, <2>2 DEF PutRule
<1> HIDE DEF g
<1>5. Rest(line, c, len) = (CHOOSE P : PutRule(P, line, c, m))[m]
  BY <1>2 DEF Rest, PutRule
<1>6. PutRule(CHOOSE P : PutRule(P, line, c, m), line, c, m)
  BY <1>4
<1>7. (CHOOSE P : PutRule(P, line, c, m))[m] = Piece(line, c, m)
  BY <1>3, <1>6, PutIsPiece
<1> QED
  BY <1>1, <1>5, <1>7

LEMMA ElementType ==
  ASSUME NEW V, NEW s \in Seq(V), NEW i \in 1 .. Len(s)
  PROVE  s[i] \in V
OBVIOUS

LEMMA LenOfFunction ==
  ASSUME NEW n \in Nat, NEW f, f = [i \in 1 .. n |-> f[i]]
  PROVE  Len(f) = n /\ DOMAIN f = 1 .. n
<1> DEFINE V == {f[i] : i \in 1 .. n}
<1>1. \A i \in 1 .. n : f[i] \in V
  OBVIOUS
<1> HIDE DEF V
<1>2. f \in [1 .. n -> V]
  BY <1>1
<1> QED
  BY <1>2

LEMMA ErasedIs ==
  ASSUME NEW V, NEW s \in Seq(V), NEW c \in 0 .. Len(s)
  PROVE  /\ Erased(s, c) = [i \in 1 .. c |-> s[i]]
         /\ Len(Erased(s, c)) = c
<1>1. Erased(s, c) = [i \in 1 .. c |-> s[i]]
  BY DEF Erased
<1> QED
  BY <1>1, LenOfFunction

\* What the row is when the line has been printed from place c on.
LEMMA UpdatedIs ==
  ASSUME NEW V, NEW s \in Seq(V), NEW c \in 0 .. Len(s),
         NEW line, NEW len \in Nat, c <= len,
         \A i \in c .. len - 1 : line[i] # 0
  PROVE  Updated(s, c, line, len) = [i \in 1 .. len |-> IF i <= c THEN s[i] ELSE line[i - 1]]
<1>1. c \in Nat
  OBVIOUS
<1>2. Rest(line, c, len) = Piece(line, c, len - c)
  BY <1>1, RestIs
<1>3. PICK m \in Nat : m = len - c
  BY <1>1
<1>4. PICK t : t = Piece(line, c, m)
  OBVIOUS
<1>5. Len(t) = m /\ DOMAIN t = 1 .. m
  <2>1. t = [i \in 1 .. m |-> t[i]]
    BY <1>4 DEF Piece
  <2> QED
    BY <2>1, LenOfFunction
<1>6. PICK r : r = Erased(s, c) /\ r = [i \in 1 .. c |-> s[i]] /\ Len(r) = c
  BY ErasedIs
<1>7. Updated(s, c, line, len) = Shown(r, c, t)
  BY <1>2, <1>3, <1>4, <1>6 DEF Updated
<1>8. Max({c, c + m}) = len
  <2>1. Max({c, c + m}) = IF c >= c + m THEN c ELSE c + m
    BY <1>1, MaxOfTwo
  <2> QED
    BY <2>1, <1>1, <1>3
<1>9. Shown(r, c, t) = [i \in 1 .. len |-> IF i - c \in 1 .. m THEN t[i - c] ELSE r[i]]
  BY <1>5, <1>6, <1>8 DEF Shown
<1>10. \A i \in 1 .. len : (IF i - c \in 1 .. m THEN t[i - c] ELSE r[i])
                             = IF i <= c THEN s[i] ELSE line[i - 1]
  <2> SUFFICES ASSUME NEW i \in 1 .. len
               PROVE  (IF i - c \in 1 .. m THEN t[i - c] ELSE r[i])
                        = IF i <= c THEN s[i] ELSE line[i - 1]
    OBVIOUS
  <2>1. CASE i <= c
    <3>1. i - c \notin 1 .. m /\ i \in 1 .. c
      BY <2>1, <1>1
    <3> QED
      BY <3>1, <2>1, <1>6
  <2>2. CASE ~(i <= c)
    <3>1. PICK k \in 1 .. m : k = i - c
      BY <2>2, <1>1, <1>3
    <3>2. t[k] = line[c + k - 1]
      BY <1>4 DEF Piece
    <3>3. c + k - 1 = i - 1
      BY <3>1, <1>1
    <3> QED
      BY <3>1, <3>2, <3>3, <2>2
  <2> QED
    BY <2>1, <2>2
<1> QED
  BY <1>7, <1>9, <1>10

-----------------------------------------------------------------------------
(* The keys that edit the line. *)

\* What TypeOK and ShownIsRun say of the line and of the screen.
LineOK == /\ cmdline \in [Cells -> {0} \cup 32 .. 126]
          /\ cmdlen \in 0 .. LineSize - 1
          /\ curpos \in 0 .. cmdlen
          /\ \A i \in 1 .. cmdlen : Text[i] # 0
          /\ screen \in {Text, Garbled}
          /\ col = curpos

\* The line without sequences.
LEMMA ShownCells ==
  ASSUME LineSize \in Nat,
         cmdline \in [Cells -> {0} \cup 32 .. 126],
         cmdlen \in 0 .. LineSize - 1
  PROVE  /\ Text \in Seq({0} \cup 32 .. 126) /\ Len(Text) = cmdlen
         /\ \A i \in 1 .. cmdlen : Text[i] = cmdline[i - 1]
<1>1. \A i \in 1 .. cmdlen : i - 1 \in Cells
  BY DEF Cells
<1>2. Text \in [1 .. cmdlen -> {0} \cup 32 .. 126]
  BY <1>1 DEF Text
<1> QED
  BY <1>2 DEF Text

\* The next line is right when its bytes are, and the row that is shown or given up.
LEMMA LineOKNext ==
  ASSUME NEW n \in 0 .. LineSize - 1, cmdlen' = n,
         cmdline' \in [Cells -> {0} \cup 32 .. 126],
         \A i \in 0 .. n - 1 : cmdline'[i] # 0,
         screen' \in {Garbled, [i \in 1 .. n |-> cmdline'[i - 1]]},
         curpos' \in 0 .. n, col' = curpos'
  PROVE  LineOK'
<1>1. Text' = [i \in 1 .. n |-> cmdline'[i - 1]]
  BY DEF Text
<1>2. \A i \in 1 .. n : Text'[i] # 0
  BY <1>1
<1>3. screen' \in {Text', Garbled}
  BY <1>1
<1>4. Garbled' = Garbled
  BY DEF Garbled
<1> QED
  BY <1>2, <1>3, <1>4 DEF LineOK

LEMMA LineFacts ==
  ASSUME LineSize \in Nat, LineOK
  PROVE  /\ screen # Garbled =>
              /\ screen \in Seq({0} \cup 32 .. 126) /\ Len(screen) = cmdlen
              /\ screen = [i \in 1 .. cmdlen |-> cmdline[i - 1]]
         /\ \A i \in 0 .. cmdlen - 1 : cmdline[i] # 0
         /\ \A i \in Cells : cmdline[i] \in {0} \cup 32 .. 126
         /\ col = curpos /\ curpos \in 0 .. cmdlen /\ cmdlen \in 0 .. LineSize - 1
<1>1. /\ cmdline \in [Cells -> {0} \cup 32 .. 126] /\ cmdlen \in 0 .. LineSize - 1
      /\ screen \in {Text, Garbled} /\ (\A i \in 1 .. cmdlen : Text[i] # 0) /\ col = curpos
      /\ curpos \in 0 .. cmdlen
  BY DEF LineOK
<1>2. /\ Text \in Seq({0} \cup 32 .. 126) /\ Len(Text) = cmdlen
      /\ \A i \in 1 .. cmdlen : Text[i] = cmdline[i - 1]
  BY <1>1, ShownCells
<1>3. \A i \in 0 .. cmdlen - 1 : cmdline[i] # 0
  <2> SUFFICES ASSUME NEW i \in 0 .. cmdlen - 1 PROVE cmdline[i] # 0
    OBVIOUS
  <2>1. i + 1 \in 1 .. cmdlen /\ (i + 1) - 1 = i
    BY <1>1
  <2> QED
    BY <2>1, <1>1, <1>2
<1>4. screen # Garbled => screen = [i \in 1 .. cmdlen |-> cmdline[i - 1]]
  BY <1>1 DEF Text
<1>5. \A i \in Cells : cmdline[i] \in {0} \cup 32 .. 126
  BY <1>1
<1>6. screen # Garbled => screen = Text
  BY <1>1
<1>7. screen # Garbled => screen \in Seq({0} \cup 32 .. 126) /\ Len(screen) = cmdlen
  <2> HIDE DEF Text
  <2> QED
    BY <1>2, <1>6
<1> QED
  BY <1>1, <1>3, <1>4, <1>5, <1>7

LEMMA StayOK ==
  ASSUME LineOK, Stay
  PROVE  LineOK'
BY DEF LineOK, Stay, editVars, Text, Garbled

\* Something else is printed on the row, and a new prompt when the line is empty.
LEMMA GarbledOK ==
  ASSUME LineOK, UNCHANGED <<cmdline, cmdlen, curpos, col>>,
         screen' = Garbled \/ (cmdlen = 0 /\ screen' = <<>>)
  PROVE  LineOK'
<1>1. Text' = Text /\ Garbled' = Garbled
  BY DEF Text, Garbled
<1>2. cmdlen = 0 => Text = <<>>
  BY DEF Text
<1>3. screen' \in {Text', Garbled'}
  BY <1>1, <1>2
<1> QED
  BY <1>1, <1>3 DEF LineOK

\* A key that prints where the cursor is: the row is right, or was given up before.
LEMMA PaintedOK ==
  ASSUME NEW row, Painted(row), NEW good,
         screen # Garbled => row = good
  PROVE  screen' \in {Garbled, good}
BY DEF Painted

LEMMA MoveToOK ==
  ASSUME LineSize \in Nat, LineOK, NEW pos \in 0 .. cmdlen, MoveTo(pos)
  PROVE  LineOK'
<1>1. PICK n \in 0 .. LineSize - 1 : n = cmdlen
  BY DEF LineOK
<1>2. /\ cmdline' = cmdline /\ cmdlen' = n /\ screen' = screen /\ curpos' = pos /\ col' = pos
  BY <1>1 DEF MoveTo, At
<1>3. screen' \in {Garbled, [i \in 1 .. n |-> cmdline'[i - 1]]}
  BY <1>1, <1>2, LineFacts
<1>4. \A i \in 0 .. n - 1 : cmdline'[i] # 0
  BY <1>1, <1>2, LineFacts
<1> QED
  BY <1>1, <1>2, <1>3, <1>4, LineOKNext DEF LineOK

LEMMA ForwardOK ==
  ASSUME LineSize \in Nat, LineOK, Forward \/ Backward
  PROVE  LineOK'
<1>1. curpos \in 0 .. cmdlen /\ cmdlen \in 0 .. LineSize - 1
  BY DEF LineOK
<1>2. CASE Stay
  BY <1>2, StayOK
<1>3. CASE curpos < cmdlen /\ MoveTo(curpos + 1)
  <2>1. curpos + 1 \in 0 .. cmdlen
    BY <1>1, <1>3
  <2> QED
    BY <2>1, <1>3, MoveToOK
<1>4. CASE curpos > 0 /\ MoveTo(curpos - 1)
  <2>1. curpos - 1 \in 0 .. cmdlen
    BY <1>1, <1>4
  <2> QED
    BY <2>1, <1>4, MoveToOK
<1> QED
  BY <1>2, <1>3, <1>4 DEF Forward, Backward

LEMMA insertOK ==
  ASSUME LineSize \in Nat, LineOK, NEW ch \in 32 .. 126, inschar(ch)
  PROVE  LineOK'
<1> DEFINE V == {0} \cup 32 .. 126
<1>1. PICK n \in 0 .. LineSize - 1, c \in Nat : c <= n /\ n = cmdlen /\ c = curpos
  BY DEF LineOK
<1>2. /\ screen # Garbled =>
           /\ screen \in Seq(V) /\ Len(screen) = n
           /\ screen = [i \in 1 .. n |-> cmdline[i - 1]]
      /\ col = c
      /\ \A i \in 0 .. n - 1 : cmdline[i] # 0
      /\ \A i \in Cells : cmdline[i] \in V
  BY <1>1, LineFacts
<1>3. CASE ~Fits
  BY <1>3, StayOK DEF inschar
<1>4. CASE Fits
  <2>1. n + 1 \in 0 .. LineSize - 1
    BY <1>4, <1>1 DEF Fits
  <2>2. PICK line : line = [i \in Cells |-> IF i = c THEN ch
                                 ELSE IF i > c /\ i <= n THEN cmdline[i - 1]
                                 ELSE cmdline[i]]
    OBVIOUS
  <2>3. PICK s : s = Shown(screen, c, <<ch>>)
    OBVIOUS
  <2>4. /\ cmdline' = line /\ cmdlen' = n + 1 /\ curpos' = c + 1 /\ col' = c + 1
        /\ Painted(Updated(s, c + 1, line, n + 1))
    BY <1>1, <1>2, <1>4, <2>2, <2>3 DEF inschar, At
  <2>5. \A i \in Cells : line[i] \in V
    <3> SUFFICES ASSUME NEW i \in Cells PROVE line[i] \in V
      OBVIOUS
    <3>1. i > c /\ i <= n => i - 1 \in Cells
      BY <1>1 DEF Cells
    <3> QED
      BY <3>1, <1>2, <2>2
  <2>6. line \in [Cells -> V]
    BY <2>2, <2>5
  <2>7. \A i \in 0 .. n : /\ i \in Cells
                          /\ line[i] = IF i = c THEN ch ELSE IF i > c THEN cmdline[i - 1] ELSE cmdline[i]
                          /\ line[i] # 0
    <3> SUFFICES ASSUME NEW i \in 0 .. n
                 PROVE  /\ i \in Cells
                        /\ line[i] = IF i = c THEN ch ELSE IF i > c THEN cmdline[i - 1] ELSE cmdline[i]
                        /\ line[i] # 0
      OBVIOUS
    <3>1. i \in Cells /\ i <= n
      BY <2>1 DEF Cells
    <3>2. line[i] = IF i = c THEN ch ELSE IF i > c THEN cmdline[i - 1] ELSE cmdline[i]
      BY <3>1, <2>2
    <3>3. CASE i = c
      BY <3>1, <3>2, <3>3
    <3>4. CASE i > c
      <4>1. i - 1 \in 0 .. n - 1
        BY <3>4, <1>1
      <4> QED
        BY <4>1, <3>1, <3>2, <3>4, <1>2
    <3>5. CASE i < c
      <4>1. i \in 0 .. n - 1
        BY <3>5, <1>1
      <4> QED
        BY <4>1, <3>1, <3>2, <3>5, <1>2
    <3> QED
      BY <3>3, <3>4, <3>5
  <2>8. ASSUME screen # Garbled
        PROVE  Updated(s, c + 1, line, n + 1) = [i \in 1 .. n + 1 |-> cmdline'[i - 1]]
    <3>1. /\ screen \in Seq(V) /\ Len(screen) = n
          /\ screen = [i \in 1 .. n |-> cmdline[i - 1]]
          /\ col = c /\ \A i \in Cells : cmdline[i] \in V
      BY <2>8, <1>2
    <3>2. s \in Seq(V) /\ Len(s) \in Nat /\ Len(s) >= c + 1
          /\ \A i \in 1 .. c + 1 : s[i] = IF i = c + 1 THEN ch ELSE cmdline[i - 1]
      <4>1. PICK m \in Nat : m = Max({n, c + 1})
        BY MaxOfTwo
      <4>2. m >= c + 1 /\ m <= n + 1
        <5>1. Max({n, c + 1}) = IF n >= c + 1 THEN n ELSE c + 1
          BY MaxOfTwo
        <5> QED
          BY <5>1, <4>1, <1>1
      <4>3. s = [i \in 1 .. m |-> IF i - c = 1 THEN ch ELSE screen[i]]
        <5>1. Len(<<ch>>) = 1 /\ DOMAIN <<ch>> = {1} /\ <<ch>>[1] = ch
          OBVIOUS
        <5>2. s = [i \in 1 .. m |-> IF i - c \in {1} THEN <<ch>>[i - c] ELSE screen[i]]
          BY <5>1, <3>1, <2>3, <4>1 DEF Shown
        <5> QED
          BY <5>1, <5>2
      <4>4. \A i \in 1 .. m : s[i] \in V
        <5> SUFFICES ASSUME NEW i \in 1 .. m PROVE s[i] \in V
          OBVIOUS
        <5>1. CASE i - c = 1
          BY <5>1, <4>3
        <5>2. CASE i - c # 1
          <6>1. i \in 1 .. n
            BY <5>2, <4>2, <4>1, MaxOfTwo, <1>1
          <6> QED
            BY <6>1, <5>2, <4>3, <3>1
        <5> QED
          BY <5>1, <5>2
      <4>5. s \in [1 .. m -> V]
        BY <4>3, <4>4
      <4>6. s \in Seq(V) /\ Len(s) = m
        BY <4>5
      <4>7. \A i \in 1 .. c + 1 : s[i] = IF i = c + 1 THEN ch ELSE cmdline[i - 1]
        <5> SUFFICES ASSUME NEW i \in 1 .. c + 1
                     PROVE  s[i] = IF i = c + 1 THEN ch ELSE cmdline[i - 1]
          OBVIOUS
        <5>1. i \in 1 .. m /\ (i - c = 1 <=> i = c + 1) /\ (i # c + 1 => i \in 1 .. n)
          BY <4>2
        <5> QED
          BY <5>1, <4>3, <3>1
      <4> QED
        BY <4>2, <4>6, <4>7
    <3>3. Updated(s, c + 1, line, n + 1) = [i \in 1 .. n + 1 |-> IF i <= c + 1 THEN s[i] ELSE line[i - 1]]
      <4>1. c + 1 \in 0 .. Len(s) /\ n + 1 \in Nat /\ c + 1 <= n + 1
        BY <3>2, <1>1
      <4>2. \A i \in c + 1 .. (n + 1) - 1 : line[i] # 0
        BY <2>7
      <4>3. PICK d \in 0 .. Len(s), k \in Nat : d = c + 1 /\ k = n + 1 /\ d <= k
        BY <4>1
      <4>4. \A i \in d .. k - 1 : line[i] # 0
        BY <4>2, <4>3
      <4>5. Updated(s, d, line, k) = [i \in 1 .. k |-> IF i <= d THEN s[i] ELSE line[i - 1]]
        <5>1. s \in Seq(V) /\ d \in 0 .. Len(s) /\ d <= k
          BY <4>3, <3>2
        <5> HIDE DEF V
        <5> QED
          BY <5>1, <4>4, UpdatedIs
      <4> QED
        BY <4>3, <4>5
    <3>4. \A i \in 1 .. n + 1 : (IF i <= c + 1 THEN s[i] ELSE line[i - 1]) = line[i - 1]
      <4> SUFFICES ASSUME NEW i \in 1 .. n + 1, i <= c + 1 PROVE s[i] = line[i - 1]
        OBVIOUS
      <4>1. i \in 1 .. c + 1 /\ i - 1 \in 0 .. n /\ ~(i - 1 > c) /\ (i - 1 = c <=> i = c + 1)
        OBVIOUS
      <4> QED
        BY <4>1, <2>7, <3>2
    <3> QED
      BY <2>4, <3>3, <3>4
  <2>9. screen' \in {Garbled, [i \in 1 .. n + 1 |-> cmdline'[i - 1]]}
    BY <2>4, <2>8, PaintedOK
  <2>10. \A i \in 0 .. (n + 1) - 1 : cmdline'[i] # 0
    BY <2>4, <2>7
  <2>11. c + 1 \in 0 .. n + 1
    BY <1>1
  <2> QED
    BY <2>1, <2>4, <2>6, <2>9, <2>10, <2>11, LineOKNext
<1> QED
  BY <1>3, <1>4

\* update() where the line is as the screen shows it left of the cursor, and from the
\* start of any row.
LEMMA UpdatedShows ==
  ASSUME LineSize \in Nat, LineOK, NEW c \in Nat, c <= cmdlen,
         c = 0 \/ screen # Garbled,
         NEW line, NEW len \in Nat, c <= len,
         \A i \in 0 .. len - 1 : line[i] # 0,
         \A i \in 0 .. c - 1 : line[i] = cmdline[i]
  PROVE  Updated(screen, c, line, len) = [i \in 1 .. len |-> line[i - 1]]
<1> DEFINE V == {0} \cup 32 .. 126
<1>1. PICK s \in Seq(V) : s = screen
  <2>1. Garbled \in Seq(V)
    BY DEF Garbled
  <2> QED
    BY <2>1, LineFacts
<1>2. /\ cmdlen \in Nat
      /\ c # 0 => Len(s) = cmdlen /\ s = [i \in 1 .. cmdlen |-> cmdline[i - 1]]
  BY <1>1, LineFacts
<1>3. c \in 0 .. Len(s)
  <2>1. Len(s) \in Nat
    OBVIOUS
  <2> QED
    BY <2>1, <1>2
<1>4. \A i \in c .. len - 1 : line[i] # 0
  OBVIOUS
<1>5. Updated(s, c, line, len) = [i \in 1 .. len |-> IF i <= c THEN s[i] ELSE line[i - 1]]
  <2> HIDE DEF V
  <2> QED
    BY <1>3, <1>4, UpdatedIs
<1>6. \A i \in 1 .. len : (IF i <= c THEN s[i] ELSE line[i - 1]) = line[i - 1]
  <2> SUFFICES ASSUME NEW i \in 1 .. len, i <= c PROVE s[i] = line[i - 1]
    OBVIOUS
  <2>1. i - 1 \in 0 .. c - 1 /\ i \in 1 .. cmdlen
    BY <1>2
  <2> QED
    BY <2>1, <1>2
<1> QED
  BY <1>1, <1>5, <1>6

\* What follows place p has moved by one to the left.
LEMMA ClosedIs ==
  ASSUME LineSize \in Nat, LineOK, NEW p \in Nat, p < cmdlen
  PROVE  /\ Closed(p) \in [Cells -> {0} \cup 32 .. 126]
         /\ \A i \in 0 .. p - 1 : Closed(p)[i] = cmdline[i]
         /\ \A i \in p .. cmdlen - 2 : Closed(p)[i] = cmdline[i + 1]
         /\ \A i \in 0 .. cmdlen - 2 : Closed(p)[i] # 0
<1>1. PICK n \in 0 .. LineSize - 1 : n = cmdlen
  BY DEF LineOK
<1>2. PICK line : line = Closed(p)
  OBVIOUS
<1>3. line = [i \in Cells |-> IF i = n - 1 THEN 0
                              ELSE IF i >= p /\ i < n THEN cmdline[i + 1]
                              ELSE cmdline[i]]
  BY <1>1, <1>2 DEF Closed
<1>4. /\ \A i \in 0 .. n - 1 : cmdline[i] # 0
      /\ \A i \in Cells : cmdline[i] \in {0} \cup 32 .. 126
  BY <1>1, LineFacts
<1>5. \A i \in Cells : line[i] \in {0} \cup 32 .. 126
  <2> SUFFICES ASSUME NEW i \in Cells PROVE line[i] \in {0} \cup 32 .. 126
    OBVIOUS
  <2>1. i >= p /\ i < n => i + 1 \in Cells
    BY <1>1 DEF Cells
  <2> QED
    BY <2>1, <1>3, <1>4
<1>6. line \in [Cells -> {0} \cup 32 .. 126]
  BY <1>3, <1>5
<1>7. \A i \in 0 .. p - 1 : line[i] = cmdline[i]
  <2> SUFFICES ASSUME NEW i \in 0 .. p - 1 PROVE line[i] = cmdline[i]
    OBVIOUS
  <2>1. i \in Cells /\ i # n - 1 /\ ~(i >= p)
    BY <1>1 DEF Cells
  <2> QED
    BY <2>1, <1>3
<1>8. \A i \in p .. n - 2 : line[i] = cmdline[i + 1]
  <2> SUFFICES ASSUME NEW i \in p .. n - 2 PROVE line[i] = cmdline[i + 1]
    OBVIOUS
  <2>1. i \in Cells /\ i # n - 1 /\ i >= p /\ i < n
    BY <1>1 DEF Cells
  <2> QED
    BY <2>1, <1>3
<1>9. \A i \in 0 .. n - 2 : line[i] # 0
  <2> SUFFICES ASSUME NEW i \in 0 .. n - 2 PROVE line[i] # 0
    OBVIOUS
  <2>1. i \in 0 .. n - 1 /\ i + 1 \in 0 .. n - 1 /\ (i \in 0 .. p - 1 \/ i \in p .. n - 2)
    BY <1>1
  <2> QED
    BY <2>1, <1>4, <1>7, <1>8
<1> QED
  BY <1>1, <1>2, <1>6, <1>7, <1>8, <1>9

LEMMA deleteOK ==
  ASSUME LineSize \in Nat, LineOK,
         delchar \/ backspace \/ (curpos > 0 /\ Rubout /\ screen' = Garbled)
  PROVE  LineOK'
<1>1. PICK n \in 0 .. LineSize - 1, c \in Nat : c <= n /\ n = cmdlen /\ c = curpos
  BY DEF LineOK
<1>2. col = c
  BY <1>1, LineFacts
<1>3. CASE Stay
  BY <1>3, StayOK
<1>4. ASSUME NEW p \in Nat, p <= c, p < n,
             cmdline' = Closed(p), cmdlen' = n - 1, curpos' = p, col' = p,
             Painted(Updated(screen, p, cmdline', n - 1)) \/ screen' = Garbled
      PROVE  LineOK'
  <2>1. PICK line : line = Closed(p)
    OBVIOUS
  <2>2. PICK k \in 0 .. LineSize - 1 : k = n - 1 /\ k \in Nat /\ p <= k
    BY <1>1, <1>4
  <2>3. /\ line \in [Cells -> {0} \cup 32 .. 126]
        /\ \A i \in 0 .. p - 1 : line[i] = cmdline[i]
        /\ \A i \in 0 .. n - 2 : line[i] # 0
    BY <1>1, <1>4, <2>1, ClosedIs
  <2>4. \A i \in 0 .. k - 1 : line[i] # 0
    BY <2>2, <2>3, <1>1
  <2>5. Painted(Updated(screen, p, line, k)) \/ screen' = Garbled
    BY <1>4, <2>1, <2>2
  <2>6. screen # Garbled => Updated(screen, p, line, k) = [i \in 1 .. k |-> line[i - 1]]
    <3>1. p <= cmdlen /\ k \in Nat /\ p <= k
      BY <1>1, <1>4, <2>2
    <3> QED
      BY <3>1, <2>3, <2>4, UpdatedShows
  <2>7. cmdline' = line /\ cmdlen' = k /\ p \in 0 .. k
    BY <1>4, <2>1, <2>2
  <2>8. screen' \in {Garbled, [i \in 1 .. k |-> line[i - 1]]}
    BY <2>5, <2>6, PaintedOK
  <2> QED
    BY <1>4, <2>3, <2>4, <2>7, <2>8, LineOKNext
<1>5. CASE delchar /\ ~Stay
  <2>1. /\ c # n /\ cmdline' = Closed(c) /\ cmdlen' = n - 1
        /\ Painted(Updated(screen, c, cmdline', n - 1))
        /\ curpos' = c /\ col' = c
    BY <1>1, <1>2, <1>5 DEF delchar
  <2>2. c < n /\ c <= c
    BY <2>1, <1>1
  <2> QED
    BY <2>1, <2>2, <1>4
<1>6. CASE (backspace \/ (curpos > 0 /\ Rubout /\ screen' = Garbled)) /\ ~Stay
  <2>1. /\ c > 0 /\ cmdline' = Closed(c - 1) /\ cmdlen' = n - 1
        /\ Painted(Updated(screen, c - 1, cmdline', n - 1)) \/ screen' = Garbled
        /\ curpos' = c - 1 /\ col' = c - 1
    BY <1>1, <1>2, <1>6 DEF backspace, Rubout, At
  <2>2. c - 1 \in Nat /\ c - 1 < n /\ c - 1 <= c
    BY <2>1, <1>1
  <2> QED
    BY <2>1, <2>2, <1>4
<1> QED
  BY <1>3, <1>5, <1>6

LEMMA killOK ==
  ASSUME LineSize \in Nat, LineOK, killEnd \/ killLine
  PROVE  LineOK'
<1>1. PICK n \in 0 .. LineSize - 1, c \in Nat : c <= n /\ n = cmdlen /\ c = curpos
  BY DEF LineOK
<1>2. /\ screen # Garbled =>
           /\ screen \in Seq({0} \cup 32 .. 126) /\ Len(screen) = n
           /\ screen = [i \in 1 .. n |-> cmdline[i - 1]]
      /\ \A i \in 0 .. n - 1 : cmdline[i] # 0
      /\ col = c
      /\ cmdline \in [Cells -> {0} \cup 32 .. 126]
  BY <1>1, LineFacts DEF LineOK
<1>3. CASE killEnd
  <2>1. /\ cmdlen' = c /\ Painted(Erased(screen, c)) /\ cmdline' = cmdline
        /\ curpos' = c /\ col' = c
    BY <1>1, <1>2, <1>3 DEF killEnd
  <2>2. ASSUME screen # Garbled
        PROVE  Erased(screen, c) = [i \in 1 .. c |-> cmdline'[i - 1]]
    <3>1. screen \in Seq({0} \cup 32 .. 126) /\ c \in 0 .. Len(screen)
      BY <2>2, <1>1, <1>2
    <3>2. Erased(screen, c) = [i \in 1 .. c |-> screen[i]]
      BY <3>1, ErasedIs
    <3>3. \A i \in 1 .. c : screen[i] = cmdline[i - 1]
      BY <2>2, <1>1, <1>2
    <3> QED
      BY <2>1, <3>2, <3>3
  <2>5. screen' \in {Garbled, [i \in 1 .. c |-> cmdline'[i - 1]]}
    BY <2>1, <2>2, PaintedOK
  <2>6. c \in 0 .. LineSize - 1 /\ c \in 0 .. c
    BY <1>1
  <2>7. \A i \in 0 .. c - 1 : cmdline'[i] # 0
    BY <1>1, <1>2, <2>1
  <2> QED
    BY <1>2, <2>1, <2>5, <2>6, <2>7, LineOKNext
<1>4. CASE killLine
  <2>1. /\ cmdlen' = 0 /\ screen' = <<>> /\ cmdline' = cmdline /\ curpos' = 0 /\ col' = 0
    BY <1>4 DEF killLine, At
  <2>2. screen' = [i \in 1 .. 0 |-> cmdline'[i - 1]]
    BY <2>1
  <2>3. 0 \in 0 .. LineSize - 1 /\ 0 \in 0 .. 0
    BY <1>1
  <2> QED
    BY <1>2, <2>1, <2>2, <2>3, LineOKNext
<1> QED
  BY <1>3, <1>4

LEMMA redrawOK ==
  ASSUME LineSize \in Nat, LineOK, redraw
  PROVE  LineOK'
<1>1. PICK n \in 0 .. LineSize - 1 : n = cmdlen
  BY DEF LineOK
<1>2. /\ \A i \in 0 .. n - 1 : cmdline[i] # 0
      /\ cmdline \in [Cells -> {0} \cup 32 .. 126]
  BY <1>1, LineFacts DEF LineOK
<1>3. /\ cmdlen' = n /\ screen' = Updated(screen, 0, cmdline, n) /\ cmdline' = cmdline
      /\ curpos' = n /\ col' = n
  BY <1>1 DEF redraw, At
<1>4. 0 \in Nat /\ 0 <= n /\ n \in Nat /\ n \in 0 .. n
  BY <1>1
<1>5. \A i \in 0 .. 0 - 1 : cmdline[i] = cmdline[i]
  OBVIOUS
<1>6. Updated(screen, 0, cmdline, n) = [i \in 1 .. n |-> cmdline[i - 1]]
  BY <1>1, <1>2, <1>4, <1>5, UpdatedShows
<1> QED
  BY <1>2, <1>3, <1>4, <1>6, LineOKNext

LEMMA transposeOK ==
  ASSUME LineSize \in Nat, LineOK, transpose, 0 < curpos, curpos < cmdlen
  PROVE  LineOK' /\ state' = state
<1>1. PICK n \in 0 .. LineSize - 1, c \in Nat : c < n /\ c > 0 /\ n = cmdlen /\ c = curpos
  BY DEF LineOK
<1>2. /\ \A i \in 0 .. n - 1 : cmdline[i] # 0
      /\ \A i \in Cells : cmdline[i] \in {0} \cup 32 .. 126
      /\ cmdline \in [Cells -> {0} \cup 32 .. 126]
      /\ col = c
  BY <1>1, LineFacts DEF LineOK
<1>3. PICK line : line = [cmdline EXCEPT ![c] = cmdline[c - 1], ![c - 1] = cmdline[c]]
  OBVIOUS
<1>4. /\ cmdline' = line /\ cmdlen' = n /\ curpos' = c /\ col' = c /\ state' = state
      /\ Painted(Updated(screen, c - 1, line, n))
  <2>1. curpos # 0
    BY <1>1
  <2>2. /\ cmdline' = [cmdline EXCEPT ![curpos] = cmdline[curpos - 1],
                                      ![curpos - 1] = cmdline[curpos]]
        /\ Painted(Updated(screen, col - 1, cmdline', cmdlen))
        /\ state' = state /\ cmdlen' = cmdlen /\ curpos' = curpos /\ col' = col
    BY <2>1, Zenon DEF transpose
  <2>3. cmdline' = line
    BY <2>2, <1>1, <1>3
  <2>4. Painted(Updated(screen, c - 1, line, n))
    BY <2>2, <2>3, <1>1, <1>2
  <2> QED
    BY <2>2, <2>3, <2>4, <1>1, <1>2
<1>5. c \in Cells /\ c - 1 \in Cells /\ c # c - 1
  BY <1>1 DEF Cells
<1>6. /\ \A i \in Cells : line[i] = IF i = c THEN cmdline[c - 1]
                                   ELSE IF i = c - 1 THEN cmdline[c] ELSE cmdline[i]
      /\ line = [i \in Cells |-> line[i]]
  BY <1>2, <1>3, <1>5
<1>7. line \in [Cells -> {0} \cup 32 .. 126]
  BY <1>2, <1>5, <1>6
<1>8. \A i \in 0 .. n - 1 : line[i] # 0
  <2> SUFFICES ASSUME NEW i \in 0 .. n - 1 PROVE line[i] # 0
    OBVIOUS
  <2>1. i \in Cells
    BY <1>1 DEF Cells
  <2>2. c \in 0 .. n - 1 /\ c - 1 \in 0 .. n - 1
    BY <1>1
  <2> QED
    BY <2>1, <2>2, <1>2, <1>6
<1>9. PICK d \in Nat : d = c - 1 /\ d <= n
  BY <1>1
<1>10. \A i \in 0 .. d - 1 : line[i] = cmdline[i]
  <2> SUFFICES ASSUME NEW i \in 0 .. d - 1 PROVE line[i] = cmdline[i]
    OBVIOUS
  <2>1. i \in Cells /\ i # c /\ i # c - 1
    BY <1>1, <1>9 DEF Cells
  <2> QED
    BY <2>1, <1>6
<1>11. screen # Garbled => Updated(screen, d, line, n) = [i \in 1 .. n |-> line[i - 1]]
  <2>1. d <= cmdlen /\ n \in Nat
    BY <1>1, <1>9
  <2> QED
    BY <2>1, <1>8, <1>9, <1>10, UpdatedShows
<1>12. screen' \in {Garbled, [i \in 1 .. n |-> line[i - 1]]}
  BY <1>4, <1>9, <1>11, PaintedOK
<1>13. c \in 0 .. n
  BY <1>1
<1>14. LineOK'
  BY <1>4, <1>7, <1>8, <1>12, <1>13, LineOKNext
<1> QED
  BY <1>4, <1>14

LEMMA GetOK ==
  ASSUME LineSize \in Nat, LineOK, NEW text \in Texts, Get(text)
  PROVE  LineOK'
<1>1. PICK n \in 0 .. LineSize - 1 : n = Len(text) /\ n \in Nat /\ \A i \in 1 .. n : text[i] \in 32 .. 126
  <2>1. text \in Seq(32 .. 126) /\ Len(text) \in Nat /\ Len(text) <= LineSize - 1
    BY DEF Texts
  <2>2. ASSUME NEW i \in 1 .. Len(text) PROVE text[i] \in 32 .. 126
    BY <2>1, <2>2, ElementType
  <2>3. Len(text) \in 0 .. LineSize - 1
    BY <2>1
  <2> QED
    BY <2>1, <2>2, <2>3
<1>2. PICK line : line = [i \in Cells |-> IF i < n THEN text[i + 1] ELSE cmdline[i]]
  OBVIOUS
<1>3. /\ cmdline' = line /\ cmdlen' = n /\ screen' = Updated(screen, 0, line, n)
      /\ curpos' = n /\ col' = n
  BY <1>1, <1>2 DEF Get, At
<1>4. \A i \in Cells : cmdline[i] \in {0} \cup 32 .. 126
  BY LineFacts
<1>5. \A i \in Cells : line[i] \in {0} \cup 32 .. 126
  <2> SUFFICES ASSUME NEW i \in Cells PROVE line[i] \in {0} \cup 32 .. 126
    OBVIOUS
  <2>1. i < n => i + 1 \in 1 .. n
    BY DEF Cells
  <2> QED
    BY <2>1, <1>1, <1>2, <1>4
<1>6. line \in [Cells -> {0} \cup 32 .. 126]
  BY <1>2, <1>5
<1>7. \A i \in 0 .. n - 1 : line[i] # 0
  <2> SUFFICES ASSUME NEW i \in 0 .. n - 1 PROVE line[i] # 0
    OBVIOUS
  <2>1. i \in Cells /\ i < n /\ i + 1 \in 1 .. n
    BY <1>1 DEF Cells
  <2> QED
    <3>1. line[i] = text[i + 1]
      BY <2>1, <1>2
    <3>2. text[i + 1] \in 32 .. 126
      BY <2>1, <1>1
    <3> QED
      BY <3>1, <3>2
<1>8. Updated(screen, 0, line, n) = [i \in 1 .. n |-> line[i - 1]]
  <2>1. 0 \in Nat /\ 0 <= cmdlen /\ 0 <= n
    BY <1>1 DEF LineOK
  <2>2. \A i \in 0 .. 0 - 1 : line[i] = cmdline[i]
    OBVIOUS
  <2> QED
    BY <2>1, <2>2, <1>1, <1>7, UpdatedShows
<1>9. n \in 0 .. n
  BY <1>1
<1> QED
  BY <1>3, <1>6, <1>7, <1>8, <1>9, LineOKNext

LEMMA newlineOK ==
  ASSUME CmdLineAssumption, newline
  PROVE  LineOK'
<1>1. 0 \in 0 .. LineSize - 1 /\ 0 \in 0 .. 0
  <2>1. Len(BootLine) \in 1 .. LineSize - 1 /\ LineSize \in Nat
    BY DEF CmdLineAssumption
  <2> QED
    BY <2>1
<1>2. /\ cmdline' = [i \in Cells |-> 0] /\ cmdlen' = 0 /\ curpos' = 0 /\ col' = 0
      /\ screen' = <<>>
  BY DEF newline, At
<1>3. cmdline' \in [Cells -> {0} \cup 32 .. 126]
  BY <1>2
<1>4. screen' = [i \in 1 .. 0 |-> cmdline'[i - 1]]
  BY <1>2
<1> QED
  BY <1>1, <1>2, <1>3, <1>4, LineOKNext

\* The line that is entered is a text of the history.
LEMMA TextType ==
  ASSUME LineSize \in Nat, LineOK
  PROVE  Text \in Texts
<1>1. PICK n \in 0 .. LineSize - 1 : n = cmdlen
  BY DEF LineOK
<1>2. /\ cmdline \in [Cells -> {0} \cup 32 .. 126]
      /\ \A i \in 0 .. n - 1 : cmdline[i] # 0
      /\ \A i \in Cells : cmdline[i] \in {0} \cup 32 .. 126
  BY <1>1, LineFacts DEF LineOK
<1>3. \A i \in 1 .. n : cmdline[i - 1] \in 32 .. 126
  <2> SUFFICES ASSUME NEW i \in 1 .. n PROVE cmdline[i - 1] \in 32 .. 126
    OBVIOUS
  <2>1. i - 1 \in Cells /\ i - 1 \in 0 .. n - 1
    BY <1>1 DEF Cells
  <2> QED
    BY <2>1, <1>2
<1>4. Text = [i \in 1 .. n |-> cmdline[i - 1]]
  BY <1>1 DEF Text
<1>5. Text \in [1 .. n -> 32 .. 126]
  BY <1>3, <1>4
<1>6. n \in Nat /\ n <= LineSize - 1
  BY <1>1
<1>7. Text \in Seq(32 .. 126) /\ Len(Text) = n
  BY <1>5, <1>6
<1> QED
  BY <1>6, <1>7 DEF Texts

-----------------------------------------------------------------------------
(* The invariant. *)

Linked == \E H \in SUBSET Slots : Chain(H)

IInv == /\ HistTypeOK /\ Linked
        /\ index = 0 \/ index <= entries
        /\ state \in States
        /\ LineOK

HistInv == HistTypeOK /\ Linked /\ (index = 0 \/ index <= entries)

LEMMA Numbers ==
  ASSUME CmdLineAssumption
  PROVE  /\ LineSize \in Nat /\ BufSize \in Nat /\ LineSize < BufSize /\ LineSize <= 256
         /\ LineSize >= 2
<1>1. Len(BootLine) \in 1 .. LineSize - 1 /\ LineSize \in Nat
  BY DEF CmdLineAssumption
<1> QED
  BY <1>1 DEF CmdLineAssumption

LEMMA InitOK ==
  ASSUME CmdLineAssumption, Init
  PROVE  IInv /\ Chain({0, Len(BootLine) + 1})
<1>1. LineSize \in Nat /\ BufSize \in Nat /\ LineSize < BufSize /\ LineSize <= 256 /\ LineSize >= 2
  BY Numbers
<1>2. PICK n \in 1 .. LineSize - 1 : n = Len(BootLine)
  BY DEF CmdLineAssumption
<1>3. \A i \in 1 .. n : BootLine[i] \in 32 .. 126
  <2> SUFFICES ASSUME NEW i \in 1 .. n PROVE BootLine[i] \in 32 .. 126
    OBVIOUS
  <2>1. BootLine \in Seq(32 .. 126)
    BY DEF CmdLineAssumption
  <2> QED
    BY <2>1, <1>2, ElementType
<1>4. /\ buffer = [p \in Slots |-> IF p = 0 THEN n ELSE IF p <= n THEN BootLine[p] ELSE 0]
      /\ head = 0 /\ tail = n + 1 /\ index = 0
  BY <1>2 DEF Init
<1>5. 0 \in Slots /\ n + 1 \in Slots /\ n + 1 < BufSize /\ n + 1 # 0
  BY <1>1 DEF Slots
<1>6. \A p \in Slots : p # 0 /\ p <= n => p \in 1 .. n
  BY <1>1 DEF Slots
<1>7. \A p \in Slots : buffer[p] \in 0 .. 255
  <2> SUFFICES ASSUME NEW p \in Slots PROVE buffer[p] \in 0 .. 255
    OBVIOUS
  <2>1. CASE p = 0
    BY <2>1, <1>4, <1>1
  <2>2. CASE p # 0 /\ p <= n
    <3>1. buffer[p] = BootLine[p]
      BY <2>2, <1>4
    <3> QED
      BY <3>1, <2>2, <1>3, <1>6
  <2>3. CASE p # 0 /\ ~(p <= n)
    BY <2>3, <1>4
  <2> QED
    BY <2>1, <2>2, <2>3
<1>8. HistTypeOK
  <2>1. buffer \in [Slots -> 0 .. 255]
    BY <1>4, <1>7
  <2>2. index \in 0 .. BufSize
    BY <1>1, <1>4
  <2> QED
    BY <2>1, <2>2, <1>4, <1>5 DEF HistTypeOK
<1>9. Chain({0, n + 1})
  <2>1. buffer[0] = n /\ buffer[n + 1] = 0
    BY <1>4, <1>5
  <2>2. Wrap(0 + n + 1) = n + 1
    BY <1>5 DEF Wrap
  <2>3. Dist(0, 0) = 0 /\ Dist(0, n + 1) = n + 1
    BY <1>1, <1>5 DEF Dist, Wrap
  <2>4. \A i \in 1 .. n : buffer[Wrap(0 + i)] \in 32 .. 126
    <3> SUFFICES ASSUME NEW i \in 1 .. n PROVE buffer[Wrap(0 + i)] \in 32 .. 126
      OBVIOUS
    <3>1. Wrap(0 + i) = i /\ i \in Slots /\ i # 0 /\ i <= n
      BY <1>1 DEF Wrap, Slots
    <3>2. buffer[i] = BootLine[i]
      BY <3>1, <1>4
    <3> QED
      BY <3>1, <3>2, <1>3
  <2>5. \A h \in {0, n + 1} : Dist(0, h) <= Dist(0, n + 1)
    BY <2>3, <1>2
  <2>6. \A h \in {0, n + 1} \ {n + 1} : h = 0
    OBVIOUS
  <2>7. Dist(0, 0) + n + 1 <= Dist(0, n + 1)
    BY <2>3, <1>2
  <2> QED
    BY <2>1, <2>2, <2>4, <2>5, <2>6, <2>7, <1>4, <1>5 DEF Chain
<1>10. Linked
  BY <1>5, <1>9 DEF Linked
<1>11. LineOK
  <2>1. /\ cmdline = [i \in Cells |-> 0] /\ cmdlen = 0 /\ curpos = 0 /\ screen = <<>> /\ col = 0
    BY DEF Init
  <2>2. cmdline \in [Cells -> {0} \cup 32 .. 126]
    BY <2>1
  <2>3. Text = <<>>
    BY <2>1 DEF Text
  <2> QED
    BY <2>1, <2>2, <2>3, <1>1 DEF LineOK
<1> QED
  BY <1>2, <1>4, <1>8, <1>9, <1>10, <1>11 DEF IInv, Init, States

LEMMA EntriesSame ==
  ASSUME buffer' = buffer, head' = head, tail' = tail
  PROVE  entries' = entries /\ (Linked => Linked')
<1>1. Skip' = Skip
  BY DEF Skip
<1>2. Header' = Header
  BY <1>1 DEF Header
<1>3. entries' = entries
  BY <1>2 DEF entries
<1>4. Linked => Linked'
  BY DEF Linked, Chain
<1> QED
  BY <1>3, <1>4

\* The keys that leave the history alone.
LEMMA HistSame ==
  ASSUME HistInv, UNCHANGED histVars
  PROVE  HistInv'
<1>1. buffer' = buffer /\ head' = head /\ tail' = tail /\ index' = index
  BY DEF histVars
<1> QED
  BY <1>1, EntriesSame DEF HistInv, HistTypeOK

LEMMA OlderOK ==
  ASSUME CmdLineAssumption, HistInv, LineOK, getOlder
  PROVE  HistInv' /\ LineOK'
<1>1. LineSize \in Nat /\ BufSize \in Nat
  BY Numbers
<1>2. buffer' = buffer /\ head' = head /\ tail' = tail
  BY DEF getOlder
<1>3. CASE HasOlder
  <2>1. PICK H : Chain(H)
    BY DEF HistInv, Linked
  <2>2. index \in Nat
    BY DEF HistInv, HistTypeOK
  <2>3. Up \in H /\ index + 1 <= entries
    BY <2>1, <2>2, <1>1, <1>3, UpInChain
  <2>4. entries \in 0 .. BufSize
    BY <2>1, <1>1, EntriesType
  <2>5. index' = index + 1
    BY <1>3 DEF getOlder, OlderIndex
  <2>6. index' \in 0 .. BufSize /\ index' <= entries'
    BY <2>2, <2>3, <2>4, <2>5, <1>1, <1>2, EntriesSame
  <2>7. HistInv'
    BY <2>6, <1>2, EntriesSame DEF HistInv, HistTypeOK
  <2>8. LineAt(Up) \in Texts
    BY <2>1, <2>3, LineAtType
  <2>9. LineOK'
    BY <2>8, <1>1, <1>3, GetOK DEF getOlder
  <2> QED
    BY <2>7, <2>9
<1>4. CASE ~HasOlder
  <2>1. Stay /\ index' = index
    BY <1>4 DEF getOlder
  <2> QED
    BY <2>1, <1>2, StayOK, HistSame DEF histVars
<1> QED
  BY <1>3, <1>4

LEMMA NewerOK ==
  ASSUME CmdLineAssumption, HistInv, LineOK, getNewer
  PROVE  HistInv' /\ LineOK'
<1>1. LineSize \in Nat /\ BufSize \in Nat
  BY Numbers
<1>2. buffer' = buffer /\ head' = head /\ tail' = tail
  BY DEF getNewer
<1>3. PICK H : Chain(H)
  BY DEF HistInv, Linked
<1>4. index \in 0 .. BufSize /\ (index = 0 \/ index <= entries)
  BY DEF HistInv, HistTypeOK
<1>5. entries \in 0 .. BufSize
  BY <1>1, <1>3, EntriesType
<1>6. index' = IF index > 0 THEN index - 1 ELSE index
  BY DEF getNewer, NewerIndex
<1>7. index' \in 0 .. BufSize /\ (index' = 0 \/ index' <= entries)
  BY <1>1, <1>4, <1>5, <1>6
<1>8. HistInv'
  BY <1>2, <1>7, EntriesSame DEF HistInv, HistTypeOK
<1>9. Newer \in Texts
  <2>1. index \in Nat
    BY <1>4
  <2> QED
    BY <2>1, <1>3, NewerType
<1>10. LineOK'
  BY <1>1, <1>9, GetOK DEF getNewer
<1> QED
  BY <1>8, <1>10

LEMMA SaveOK ==
  ASSUME CmdLineAssumption, HistInv, NEW text \in Texts, Save(text)
  PROVE  HistInv'
<1>1. LineSize \in Nat /\ BufSize \in Nat /\ LineSize < BufSize /\ LineSize <= 256
  BY Numbers
<1>2. CASE text = <<>>
  <2>1. UNCHANGED histVars
    BY <1>2 DEF Save
  <2> QED
    BY <2>1, HistSame
<1>3. CASE text # <<>>
  <2>1. PICK H : Chain(H)
    BY DEF HistInv, Linked
  <2>2. PICK G : Chain(G)'
    BY <2>1, <1>1, <1>3, SaveChain
  <2>3. Linked'
    BY <2>2 DEF Linked, Chain
  <2>4. PICK size : size = Len(text)
    OBVIOUS
  <2>5. /\ size \in 1 .. LineSize - 1 /\ index' = 0
        /\ buffer' = [p \in Slots |-> buffer'[p]]
        /\ \A p \in Slots : buffer'[p] \in {0, size} \cup 32 .. 126 \cup {buffer[p]}
    <3>1. PICK g, t : g = FreeHead(size) /\ t = tail
      OBVIOUS
    <3> QED
      BY <3>1, <2>1, <2>4, <1>1, <1>3, SaveWrites
  <2>6. \A p \in Slots : buffer[p] \in 0 .. 255
    BY DEF HistInv, HistTypeOK
  <2>7. \A p \in Slots : buffer'[p] \in 0 .. 255
    <3> SUFFICES ASSUME NEW p \in Slots PROVE buffer'[p] \in 0 .. 255
      OBVIOUS
    <3>1. buffer'[p] \in {0, size} \cup 32 .. 126 \/ buffer'[p] = buffer[p]
      BY <2>5
    <3>2. size \in 0 .. 255
      <4>1. size \in 1 .. LineSize - 1
        BY <2>5
      <4> QED
        BY <4>1, <1>1
    <3>3. buffer[p] \in 0 .. 255
      BY <2>6
    <3>4. CASE buffer'[p] = buffer[p]
      BY <3>3, <3>4
    <3>5. CASE buffer'[p] \in {0, size} \cup 32 .. 126
      <4>1. buffer'[p] = 0 \/ buffer'[p] = size \/ buffer'[p] \in 32 .. 126
        BY <3>5
      <4>2. CASE buffer'[p] = 0
        BY <4>2
      <4>3. CASE buffer'[p] = size
        BY <4>3, <3>2
      <4>4. CASE buffer'[p] \in 32 .. 126
        BY <4>4
      <4> QED
        BY <4>1, <4>2, <4>3, <4>4
    <3> QED
      BY <3>1, <3>4, <3>5
  <2>8. buffer' \in [Slots -> 0 .. 255]
    BY <2>5, <2>7
  <2>9. head' \in Slots /\ tail' \in Slots
    BY <2>2 DEF Chain
  <2>10. index' \in 0 .. BufSize
    BY <2>5, <1>1
  <2> QED
    BY <2>3, <2>5, <2>8, <2>9, <2>10 DEF HistInv, HistTypeOK
<1> QED
  BY <1>2, <1>3

LEMMA PlainOK ==
  ASSUME CmdLineAssumption, TransposeAnywhere = FALSE, HistInv, LineOK,
         NEW ch, Plain(ch)
  PROVE  HistInv' /\ LineOK' /\ state' \in States
<1>1. LineSize \in Nat /\ BufSize \in Nat
  BY Numbers
<1>2. state = "NONE" /\ "NONE" \in States /\ "ESC" \in States
  BY DEF Plain, States
<1>3. CASE newline /\ UNCHANGED state
  <2>1. Save(Text) /\ Text \in Texts
    BY <1>1, <1>3, TextType DEF newline
  <2> QED
    BY <2>1, <1>2, <1>3, SaveOK, newlineOK
<1>4. CASE getNewer /\ UNCHANGED state
  BY <1>2, <1>4, NewerOK
<1>5. CASE getOlder /\ UNCHANGED state
  BY <1>2, <1>5, OlderOK
<1>6. CASE /\ TransposeAnywhere \/ (0 < curpos /\ curpos < cmdlen)
           /\ transpose
           /\ UNCHANGED histVars
  <2>1. 0 < curpos /\ curpos < cmdlen
    BY <1>6
  <2> QED
    BY <2>1, <1>1, <1>2, <1>6, transposeOK, HistSame
<1>7. CASE state' = "ESC" /\ Stay /\ UNCHANGED histVars
  BY <1>2, <1>7, StayOK, HistSame
<1>8. CASE UNCHANGED <<state, histVars>> /\ (MoveTo(0) \/ MoveTo(cmdlen))
  <2>1. 0 \in 0 .. cmdlen /\ cmdlen \in 0 .. cmdlen
    BY DEF LineOK
  <2> QED
    BY <2>1, <1>1, <1>2, <1>8, MoveToOK, HistSame
<1>9. CASE UNCHANGED <<state, histVars>> /\ (Forward \/ Backward)
  BY <1>1, <1>2, <1>9, ForwardOK, HistSame
<1>10. CASE UNCHANGED <<state, histVars>> /\ (delchar \/ backspace)
  BY <1>1, <1>2, <1>10, deleteOK, HistSame
<1>11. CASE UNCHANGED <<state, histVars>> /\ (killEnd \/ killLine)
  BY <1>1, <1>2, <1>11, killOK, HistSame
<1>12. CASE UNCHANGED <<state, histVars>> /\ redraw
  BY <1>1, <1>2, <1>12, redrawOK, HistSame
<1>13. CASE UNCHANGED <<state, histVars>> /\ ch \in Typed /\ inschar(ch)
  <2>1. ch \in 32 .. 126
    BY <1>13 DEF CmdLineAssumption
  <2> QED
    BY <2>1, <1>1, <1>2, <1>13, insertOK, HistSame
<1> QED
  BY <1>3, <1>4, <1>5, <1>6, <1>7, <1>8, <1>9, <1>10, <1>11, <1>12, <1>13, Zenon DEF Plain

LEMMA BracketOK ==
  ASSUME CmdLineAssumption, HistInv, LineOK, NEW ch, Bracket(ch)
  PROVE  HistInv' /\ LineOK' /\ state' \in States
<1>1. LineSize \in Nat /\ BufSize \in Nat
  BY Numbers
<1>2. state' \in States
  <2>1. state' = CASE ch = 49 -> "HOME" [] ch = 52 -> "END"
                   [] ch = 50 -> "IGNORE" [] OTHER -> "NONE"
    BY DEF Bracket
  <2> QED
    BY <2>1 DEF States
<1>3. CASE getOlder
  BY <1>2, <1>3, OlderOK
<1>4. CASE getNewer
  BY <1>2, <1>4, NewerOK
<1>5. CASE (Forward \/ Backward) /\ UNCHANGED histVars
  BY <1>1, <1>2, <1>5, ForwardOK, HistSame
<1>6. CASE Stay /\ UNCHANGED histVars
  BY <1>2, <1>6, StayOK, HistSame
<1> QED
  BY <1>3, <1>4, <1>5, <1>6, Zenon DEF Bracket

LEMMA EscapeOK ==
  ASSUME CmdLineAssumption, HistInv, LineOK, NEW ch, Escape(ch)
  PROVE  HistInv' /\ LineOK' /\ state' \in States
<1>1. state' \in States
  <2>1. state' = CASE ch = 91 -> "ESCBRK" [] ch = 79 -> "PFN" [] OTHER -> "NONE"
    BY DEF Escape
  <2> QED
    BY <2>1 DEF States
<1>2. Stay /\ UNCHANGED histVars
  BY DEF Escape
<1> QED
  BY <1>1, <1>2, StayOK, HistSame

LEMMA KeypadOK ==
  ASSUME CmdLineAssumption, HistInv, LineOK, NEW ch, Keypad(ch)
  PROVE  HistInv' /\ LineOK' /\ state' \in States
<1>1. LineSize \in Nat
  BY Numbers
<1>2. state' \in States /\ UNCHANGED histVars
  BY DEF Keypad, States
<1>3. \/ MoveTo(0) \/ MoveTo(cmdlen) \/ Stay
      \/ screen' = Garbled /\ UNCHANGED <<cmdline, cmdlen, curpos, col>>
  BY Zenon DEF Keypad
<1>4. 0 \in 0 .. cmdlen /\ cmdlen \in 0 .. cmdlen
  BY DEF LineOK
<1> QED
  BY <1>1, <1>2, <1>3, <1>4, MoveToOK, StayOK, GarbledOK, HistSame

LEMMA PrintedOK ==
  ASSUME CmdLineAssumption, HistInv, LineOK, state \in States, NEW ch, Printed(ch)
  PROVE  HistInv' /\ LineOK' /\ state' \in States
<1>1. LineSize \in Nat
  BY Numbers
<1>2. state' \in States /\ UNCHANGED histVars
  BY DEF Printed, States, Unknown
<1>3. CASE curpos > 0 /\ Rubout /\ screen' = Garbled
  BY <1>1, <1>2, <1>3, deleteOK, HistSame
<1>4. CASE /\ screen' = IF ch = 3 /\ cmdlen = 0 THEN <<>> ELSE Garbled
           /\ UNCHANGED <<cmdline, cmdlen, curpos, col>>
  <2>1. screen' = Garbled \/ (cmdlen = 0 /\ screen' = <<>>)
    BY <1>4
  <2> QED
    BY <2>1, <1>1, <1>2, <1>4, GarbledOK, HistSame
<1> QED
  BY <1>3, <1>4 DEF Printed

LEMMA StepOK ==
  ASSUME CmdLineAssumption, TransposeAnywhere = FALSE, IInv, [Next]_vars
  PROVE  IInv'
<1>1. HistInv /\ LineOK
  BY DEF IInv, HistInv
<1>2. CASE Next
  <2>1. PICK ch : process(ch) \/ Printed(ch)
    BY <1>2 DEF Next
  <2>2. HistInv' /\ LineOK' /\ state' \in States
    BY <2>1, <1>1, PlainOK, EscapeOK, BracketOK, KeypadOK, PrintedOK DEF process, IInv
  <2> QED
    BY <2>2 DEF IInv, HistInv
<1>3. CASE UNCHANGED vars
  <2>1. UNCHANGED histVars /\ Stay /\ state' = state
    BY <1>3 DEF vars, Stay
  <2> QED
    BY <2>1, <1>1, StayOK, HistSame DEF IInv, HistInv
<1> QED
  BY <1>2, <1>3

LEMMA Invariant ==
  ASSUME TransposeAnywhere = FALSE
  PROVE  Spec => []IInv
<1>1. Init => IInv
  BY CmdLineAssumption, InitOK
<1>2. IInv /\ [Next]_vars => IInv'
  BY CmdLineAssumption, StepOK
<1> QED
  BY <1>1, <1>2, PTL DEF Spec

-----------------------------------------------------------------------------
(* Theorems. *)

\* The bytes, lengths and positions of the line and of its history keep their
\* ranges whatever is typed (inschar leaves room for the final zero, recall
\* copies only lines that fit and the index stays within the entries).
THEOREM TypeCorrect ==
  ASSUME TransposeAnywhere = FALSE
  PROVE  Spec => []TypeOK
<1>1. IInv => TypeOK
  BY DEF IInv, LineOK, TypeOK
<1> QED
  BY <1>1, Invariant, PTL

\* What newline() hands to the command parser is what the terminal shows: no key of
\* the editor, no recalled line and no cursor key makes the two differ; ^C, ^Q, ^S and
\* PF1, which print on the row, do until the next key that repaints it.
THEOREM ShownAlways ==
  ASSUME TransposeAnywhere = FALSE
  PROVE  Spec => []ShownIsRun
<1>1. IInv => ShownIsRun
  BY DEF IInv, LineOK, ShownIsRun
<1> QED
  BY <1>1, Invariant, PTL

-----------------------------------------------------------------------------
(* The lines that save keeps. *)

\* Each line takes its characters and one byte more.
LEMMA HeadersStep ==
  ASSUME BufSize \in Nat, NEW H, Chain(H)
  PROVE  /\ entries \in 0 .. BufSize - 1
         /\ Header[0] = head /\ Dist(head, head) = 0 /\ Header[entries] = tail
         /\ \A n \in 0 .. entries : Header[n] \in H /\ Dist(head, Header[n]) \in 0 .. BufSize - 1
         /\ \A n \in 0 .. entries - 1 :
              /\ Header[n] \in H \ {tail} /\ buffer[Header[n]] \in 1 .. LineSize - 1
              /\ Header[n + 1] = Wrap(Header[n] + buffer[Header[n]] + 1)
              /\ Dist(head, Header[n + 1]) = Dist(head, Header[n]) + buffer[Header[n]] + 1
<1>1. entries \in 0 .. BufSize /\ Header[entries] = tail
  BY EntriesType
<1>2. \A n \in 0 .. BufSize : Header[n] = IF n = 0 THEN head ELSE Skip[Header[n - 1]]
  BY HeaderIs DEF Walk
<1>3. \A n \in 0 .. BufSize : Header[n] \in H /\ (Header[n] = tail \/ n <= Dist(head, Header[n]))
  BY HeadersInChain
<1>4. H \subseteq Slots /\ head \in Slots /\ tail \in Slots
  BY DEF Chain
<1>5. Header[0] = head /\ Dist(head, head) = 0
  BY <1>2, <1>4 DEF Dist, Wrap, Slots
<1>6. \A h \in Slots : Dist(head, h) \in 0 .. BufSize - 1
  BY <1>4, DistType DEF Slots
<1>7. ASSUME NEW n \in 0 .. entries - 1
      PROVE  /\ Header[n] \in H \ {tail} /\ buffer[Header[n]] \in 1 .. LineSize - 1
             /\ Header[n + 1] = Wrap(Header[n] + buffer[Header[n]] + 1)
             /\ Dist(head, Header[n + 1]) = Dist(head, Header[n]) + buffer[Header[n]] + 1
             /\ n + 1 <= Dist(head, Header[n + 1])
  <2> DEFINE Ends == {k \in 0 .. BufSize : buffer[Header[k]] = 0}
  <2>1. n \in 0 .. BufSize /\ n + 1 \in 0 .. BufSize /\ n + 1 # 0 /\ (n + 1) - 1 = n
    BY <1>1
  <2>2. buffer[Header[n]] # 0
    <3>1. entries \in Ends
      BY <1>1 DEF Chain
    <3>2. \A k \in Ends : Min(Ends) <= k
      BY <3>1, MinIsLeast
    <3>3. ~(entries <= n)
      BY <1>1
    <3> QED
      BY <2>1, <3>2, <3>3 DEF entries
  <2>3. PICK h \in H : h = Header[n]
    BY <2>1, <1>3
  <2>4. h # tail
    BY <2>2, <2>3 DEF Chain
  <2>5. /\ buffer[h] \in 1 .. LineSize - 1
        /\ Dist(head, h) + buffer[h] + 1 <= Dist(head, tail)
    BY <2>3, <2>4 DEF Chain
  <2>6. Header[n + 1] = Wrap(h + buffer[h] + 1)
    <3>1. Header[n + 1] = Skip[h]
      BY <2>1, <2>3, <1>2
    <3> QED
      BY <3>1, <2>2, <2>3, <1>4 DEF Skip
  <2>7. PICK b \in Nat : b = buffer[h] + 1
    BY <2>5
  <2>8. h \in Slots /\ Dist(head, h) \in 0 .. BufSize - 1 /\ Dist(head, tail) \in 0 .. BufSize - 1
    BY <1>4, <1>6
  <2>9. Dist(head, h) + b < BufSize
    BY <2>5, <2>7, <2>8
  <2>10. Dist(head, Wrap(h + b)) = Dist(head, h) + b
    BY <2>8, <2>9, <1>4, DistAdd
  <2>11. h + b = h + buffer[h] + 1 /\ Dist(head, h) + b = Dist(head, h) + buffer[h] + 1
    BY <2>5, <2>7, <2>8 DEF Slots
  <2>12. Dist(head, Header[n + 1]) = Dist(head, h) + buffer[h] + 1
    BY <2>6, <2>10, <2>11
  <2>13. n <= Dist(head, h)
    BY <2>1, <2>3, <2>4, <1>3
  <2>14. n + 1 <= Dist(head, Header[n + 1])
    BY <2>5, <2>8, <2>12, <2>13
  <2> QED
    BY <2>3, <2>4, <2>5, <2>6, <2>12, <2>14
<1>8. entries \in 0 .. BufSize - 1
  <2>1. CASE entries = 0
    <3>1. 0 \in Slots \/ BufSize > 0
      BY <1>4 DEF Slots
    <3> QED
      BY <3>1, <2>1, <1>4 DEF Slots
  <2>2. CASE entries # 0
    <3>1. PICK n \in 0 .. entries - 1 : n + 1 = entries
      BY <2>2, <1>1
    <3>2. entries <= Dist(head, tail)
      BY <3>1, <1>1, <1>7
    <3> QED
      BY <3>2, <1>1, <1>4, <1>6
  <2> QED
    BY <2>1, <2>2
<1>9. \A n \in 0 .. entries : Header[n] \in H /\ Dist(head, Header[n]) \in 0 .. BufSize - 1
  <2> SUFFICES ASSUME NEW n \in 0 .. entries
               PROVE  Header[n] \in H /\ Dist(head, Header[n]) \in 0 .. BufSize - 1
    OBVIOUS
  <2>1. n \in 0 .. BufSize
    BY <1>1
  <2> QED
    BY <2>1, <1>3, <1>4, <1>6
<1> QED
  BY <1>1, <1>5, <1>7, <1>8, <1>9

\* A later header is farther from head.
LEMMA HeadersUp ==
  ASSUME BufSize \in Nat, NEW H, Chain(H), NEW i \in 0 .. entries
  PROVE  \A j \in i .. entries : Dist(head, Header[i]) <= Dist(head, Header[j])
<1> DEFINE Bad == {j \in i .. entries : ~(Dist(head, Header[i]) <= Dist(head, Header[j]))}
<1>1. SUFFICES ASSUME Bad # {} PROVE FALSE
  BY <1>1
<1>2. entries \in 0 .. BufSize - 1
  BY HeadersStep
<1>3. Bad \subseteq Nat
  BY <1>2
<1>4. PICK j \in Bad : \A y \in Bad : j <= y
  BY <1>1, <1>3, LeastNat
<1>5. j # i
  <2>1. Dist(head, Header[i]) \in 0 .. BufSize - 1
    BY HeadersStep
  <2> QED
    BY <2>1, <1>4
<1>6. j - 1 \in i .. entries /\ j - 1 \in 0 .. entries - 1 /\ j - 1 \notin Bad /\ (j - 1) + 1 = j
  <2>1. j \in Nat /\ j >= i /\ j <= entries /\ i \in Nat
    BY <1>2, <1>4
  <2>2. j - 1 \in i .. entries /\ j - 1 \in 0 .. entries - 1 /\ (j - 1) + 1 = j /\ ~(j <= j - 1)
    BY <2>1, <1>5, <1>2
  <2> QED
    BY <2>2, <1>4
<1>7. PICK k \in 0 .. entries - 1 : k = j - 1 /\ k + 1 = j
  BY <1>6
<1>8. /\ Dist(head, Header[k + 1]) = Dist(head, Header[k]) + buffer[Header[k]] + 1
      /\ buffer[Header[k]] \in 1 .. LineSize - 1
  BY HeadersStep
<1>9. k \in 0 .. entries /\ j \in 0 .. entries
  BY <1>2, <1>4, <1>7
<1>10. /\ Dist(head, Header[k]) \in 0 .. BufSize - 1 /\ Dist(head, Header[j]) \in 0 .. BufSize - 1
       /\ Dist(head, Header[i]) \in 0 .. BufSize - 1
  BY <1>9, HeadersStep
<1>11. Dist(head, Header[i]) <= Dist(head, Header[k])
  BY <1>6, <1>7
<1>12. Dist(head, Header[i]) <= Dist(head, Header[j])
  BY <1>7, <1>8, <1>10, <1>11
<1> QED
  BY <1>4, <1>12

\* findfree forgets no more lines than it must.
LEMMA FreeHeadFirst ==
  ASSUME BufSize \in Nat, NEW H, Chain(H), NEW size \in Nat, size <= BufSize - 2
  PROVE  \E m \in 0 .. entries :
            /\ FreeHead(size) = Header[m] /\ RoomFor(Header[m], size)
            /\ \A n \in 0 .. m - 1 : ~RoomFor(Header[n], size)
<1> DEFINE Stops == {n \in 0 .. entries : n = entries \/ RoomFor(Header[n], size)}
<1>1. entries \in 0 .. BufSize - 1
  BY HeadersStep
<1>2. Stops \subseteq Nat /\ Stops # {}
  BY <1>1
<1>3. Min(Stops) \in Stops /\ \A y \in Stops : Min(Stops) <= y
  BY <1>2, MinIsLeast
<1>4. PICK m \in 0 .. entries : m = Min(Stops)
  BY <1>3
<1>5. FreeHead(size) = Header[m]
  BY <1>4 DEF FreeHead
<1>6. RoomFor(Header[m], size)
  BY <1>5, FreeHeadRoom
<1>7. \A n \in 0 .. m - 1 : ~RoomFor(Header[n], size)
  <2> SUFFICES ASSUME NEW n \in 0 .. m - 1, RoomFor(Header[n], size) PROVE FALSE
    OBVIOUS
  <2>1. n \in 0 .. entries /\ ~(m <= n)
    BY <1>1, <1>4
  <2>2. n \in Stops
    BY <2>1
  <2> QED
    BY <2>1, <2>2, <1>3, <1>4
<1> QED
  BY <1>5, <1>6, <1>7

\* The headers of the lines that stay keep their places; that of the new one
\* is the old tail.
LEMMA SaveHeaders ==
  ASSUME BufSize \in Nat, LineSize \in Nat, NEW H, Chain(H),
         NEW text \in Texts, text # <<>>, LineSize < BufSize, Save(text),
         NEW m \in 0 .. entries, FreeHead(Len(text)) = Header[m]
  PROVE  /\ \A n \in 0 .. entries - m : Header'[n] = Header[n + m]
         /\ entries' = entries - m + 1
         /\ \A n \in m .. entries - 1 : \A h \in Slots : h = Header[n] => LineAt(h)' = LineAt(h)
<1>1. PICK size, g, t, a, e : /\ size = Len(text) /\ g = FreeHead(size) /\ t = tail
                              /\ a = head /\ e = entries
  OBVIOUS
<1>2. /\ size \in 1 .. LineSize - 1
      /\ head' = g /\ tail' = Wrap(t + size + 1)
      /\ buffer'[t] = size
      /\ buffer'[Wrap(t + size + 1)] = 0
      /\ \A p \in Slots : Dist(a, g) <= Dist(a, p) /\ Dist(a, p) < Dist(a, t)
                            => buffer'[p] = buffer[p]
  BY <1>1, SaveWrites
<1>3. /\ e \in 0 .. BufSize - 1 /\ Header[e] = t
      /\ \A n \in 0 .. e : Header[n] \in H /\ Dist(a, Header[n]) \in 0 .. BufSize - 1
      /\ \A n \in 0 .. e - 1 :
              /\ Header[n] \in H \ {t} /\ buffer[Header[n]] \in 1 .. LineSize - 1
              /\ Header[n + 1] = Wrap(Header[n] + buffer[Header[n]] + 1)
  BY <1>1, HeadersStep
<1>4. /\ H \subseteq Slots /\ t \in Slots /\ a \in Slots
      /\ \A h \in H \ {t} : /\ buffer[h] \in 1 .. LineSize - 1
                            /\ Dist(a, h) + buffer[h] + 1 <= Dist(a, t)
  BY <1>1 DEF Chain
<1>5. \A n \in m .. e : Dist(a, g) <= Dist(a, Header[n])
  BY <1>1, HeadersUp
<1>6. m \in Nat /\ m <= e
  BY <1>1, <1>3
\* The bytes of a line that stays.
<1>7. ASSUME NEW n \in m .. e - 1, NEW i \in 0 .. buffer[Header[n]]
      PROVE  /\ Wrap(Header[n] + i) \in Slots
             /\ buffer'[Wrap(Header[n] + i)] = buffer[Wrap(Header[n] + i)]
  <2>1. n \in 0 .. e - 1 /\ n \in m .. e
    BY <1>3, <1>6
  <2>2. PICK h \in H \ {t} : h = Header[n]
    BY <2>1, <1>3
  <2>3. PICK b \in 1 .. LineSize - 1 : b = buffer[h] /\ Dist(a, h) + b + 1 <= Dist(a, t)
    BY <1>4
  <2>4. h \in Slots /\ Dist(a, h) \in 0 .. BufSize - 1 /\ Dist(a, t) \in 0 .. BufSize - 1
    BY <1>4, DistType DEF Slots
  <2>5. i \in Nat /\ i <= b /\ b \in Nat
    BY <2>2, <2>3
  <2>6. Dist(a, h) + i < BufSize
    BY <2>3, <2>4, <2>5
  <2>7. PICK p \in Slots : p = Wrap(h + i) /\ Dist(a, p) = Dist(a, h) + i
    BY <2>4, <2>5, <2>6, <1>4, DistAdd
  <2>8. Dist(a, g) <= Dist(a, h)
    BY <2>1, <2>2, <1>5
  <2>9. Dist(a, g) \in 0 .. BufSize - 1
    <3>1. g = Header[m] /\ m \in 0 .. e
      BY <1>1, <1>6, <1>3
    <3> QED
      BY <3>1, <1>3
  <2>10. Dist(a, g) <= Dist(a, p) /\ Dist(a, p) < Dist(a, t)
    BY <2>3, <2>4, <2>5, <2>7, <2>8, <2>9
  <2> QED
    BY <2>2, <2>7, <2>10, <1>2
<1>8. ASSUME NEW n \in m .. e - 1
      PROVE  /\ buffer'[Header[n]] = buffer[Header[n]]
             /\ Header[n] \in Slots
  <2>1. n \in 0 .. e - 1
    BY <1>6
  <2>2. PICK b \in 1 .. LineSize - 1 : b = buffer[Header[n]]
    BY <2>1, <1>3
  <2>3. 0 \in 0 .. buffer[Header[n]]
    BY <2>2
  <2>4. Header[n] \in Slots
    BY <2>1, <1>3, <1>4
  <2>5. Wrap(Header[n] + 0) = Header[n]
    BY <2>4 DEF Wrap, Slots
  <2> QED
    BY <2>3, <2>4, <2>5, <1>7
<1>9. ASSUME NEW n \in m .. e - 1, NEW h \in Slots, h = Header[n]
      PROVE  LineAt(h)' = LineAt(h)
  <2>1. n \in 0 .. e - 1
    BY <1>6
  <2>2. PICK b \in 1 .. LineSize - 1 : b = buffer[h]
    BY <2>1, <1>3, <1>9
  <2>3. buffer'[h] = b
    BY <2>2, <1>8, <1>9
  <2>4. \A i \in 1 .. b : buffer'[Wrap(h + i)] = buffer[Wrap(h + i)]
    <3> SUFFICES ASSUME NEW i \in 1 .. b PROVE buffer'[Wrap(h + i)] = buffer[Wrap(h + i)]
      OBVIOUS
    <3>1. i \in 0 .. b
      BY <2>2
    <3> QED
      BY <3>1, <2>2, <1>7, <1>9
  <2>5. LineAt(h)' = [i \in 1 .. b |-> buffer'[Wrap(h + i)]]
    BY <2>3 DEF LineAt
  <2>6. LineAt(h) = [i \in 1 .. b |-> buffer[Wrap(h + i)]]
    BY <2>2 DEF LineAt
  <2> QED
    BY <2>4, <2>5, <2>6
<1>10. \A n \in 0 .. BufSize : Header'[n] = IF n = 0 THEN g ELSE Skip'[Header'[n - 1]]
  BY <1>2, HeaderIs DEF Walk
<1>11. \A h \in Slots : Skip'[h] = IF buffer'[h] = 0 THEN h ELSE Wrap(h + buffer'[h] + 1)
  BY DEF Skip
<1>12. \A n \in 0 .. e - m : Header'[n] = Header[n + m]
  <2> DEFINE Bad == {n \in 0 .. e - m : Header'[n] # Header[n + m]}
  <2>1. SUFFICES ASSUME Bad # {} PROVE FALSE
    BY <2>1
  <2>2. Bad \subseteq Nat
    OBVIOUS
  <2>3. PICK n \in Bad : \A y \in Bad : n <= y
    BY <2>1, <2>2, LeastNat
  <2>4. n \in 0 .. e - m /\ n \in 0 .. BufSize
    BY <2>3, <1>3, <1>6
  <2>5. n # 0
    <3>1. 0 \in 0 .. BufSize /\ 0 + m = m
      BY <2>4, <1>6
    <3>2. Header'[0] = Header[0 + m]
      BY <3>1, <1>1, <1>10
    <3> QED
      BY <3>2, <2>3
  <2>6. n - 1 \in 0 .. e - m /\ ~(n <= n - 1)
    BY <2>4, <2>5, <1>3, <1>6
  <2>7. Header'[n - 1] = Header[(n - 1) + m]
    BY <2>3, <2>6
  <2>8. PICK k \in m .. e - 1 : k = (n - 1) + m /\ k + 1 = n + m /\ k \in 0 .. e - 1
    BY <2>4, <2>5, <1>3, <1>6
  <2>9. PICK h \in Slots : h = Header[k] /\ buffer'[h] = buffer[h]
    BY <1>8
  <2>10. buffer[h] \in 1 .. LineSize - 1 /\ Header[k + 1] = Wrap(h + buffer[h] + 1)
    BY <2>8, <2>9, <1>3
  <2>11. Skip'[h] = Header[k + 1]
    BY <2>9, <2>10, <1>11
  <2>12. Header'[n] = Skip'[h]
    BY <2>4, <2>5, <2>7, <2>8, <2>9, <1>10
  <2> QED
    BY <2>3, <2>8, <2>11, <2>12
<1>13. Header'[e - m] = t
  <2>1. e - m \in 0 .. e - m /\ (e - m) + m = e
    BY <1>3, <1>6
  <2> QED
    BY <2>1, <1>3, <1>12
<1>14. PICK l \in 0 .. BufSize : l = e - m + 1
  BY <1>3, <1>6
<1>15. Header'[l] = Wrap(t + size + 1)
  <2>1. l # 0 /\ l - 1 = e - m
    BY <1>14, <1>3, <1>6
  <2>2. Header'[l] = Skip'[t]
    BY <2>1, <1>10, <1>13
  <2>3. Skip'[t] = Wrap(t + size + 1)
    BY <1>2, <1>4, <1>11
  <2> QED
    BY <2>2, <2>3
<1>16. \A n \in 0 .. l - 1 : buffer'[Header'[n]] # 0
  <2> SUFFICES ASSUME NEW n \in 0 .. l - 1 PROVE buffer'[Header'[n]] # 0
    OBVIOUS
  <2>1. n \in 0 .. e - m
    BY <1>14, <1>3, <1>6
  <2>2. CASE n = e - m
    BY <2>2, <1>2, <1>13
  <2>3. CASE n # e - m
    <3>1. PICK k \in m .. e - 1 : k = n + m /\ k \in 0 .. e - 1
      BY <2>1, <2>3, <1>3, <1>6
    <3>2. Header'[n] = Header[k]
      BY <2>1, <3>1, <1>12
    <3>3. buffer'[Header[k]] = buffer[Header[k]]
      BY <1>8
    <3>4. buffer[Header[k]] \in 1 .. LineSize - 1
      BY <3>1, <1>3
    <3> QED
      BY <3>2, <3>3, <3>4
  <2> QED
    BY <2>2, <2>3
<1>17. entries' = l
  <2> DEFINE Ends == {n \in 0 .. BufSize : buffer'[Header'[n]] = 0}
  <2>1. entries' = Min(Ends)
    BY DEF entries
  <2>2. l \in Ends
    BY <1>2, <1>15
  <2>3. Min(Ends) \in Ends /\ Min(Ends) <= l
    <3>1. Ends \subseteq Nat /\ Ends # {}
      BY <2>2
    <3> HIDE DEF Ends
    <3> QED
      BY <2>2, <3>1, MinIsLeast
  <2>4. PICK k \in 0 .. BufSize : k = Min(Ends) /\ k <= l /\ buffer'[Header'[k]] = 0
    BY <2>3
  <2>5. k \notin 0 .. l - 1
    BY <2>4, <1>16
  <2>6. k = l
    BY <2>4, <2>5, <1>14
  <2> QED
    BY <2>1, <2>4, <2>6
<1>18. \A n \in m .. entries - 1 : \A h \in Slots : h = Header[n] => LineAt(h)' = LineAt(h)
  BY <1>1, <1>9
<1> QED
  BY <1>1, <1>12, <1>14, <1>17, <1>18

-----------------------------------------------------------------------------
(* The lines that are remembered are the newest that fit. *)

BytesRule(B, ls) ==
  B = [i \in 0 .. Len(ls) |-> IF i = 0 THEN 0 ELSE B[i - 1] + Len(ls[i]) + 1]

\* Fits, when P says where each line ends.
LEMMA FitsIs ==
  ASSUME NEW ls, Len(ls) \in Nat, NEW P, P = [i \in 0 .. Len(ls) |-> P[i]], P[0] = 0,
         \A i \in 1 .. Len(ls) : P[i] = P[i - 1] + Len(ls[i]) + 1,
         NEW k \in 1 .. Len(ls)
  PROVE  Editor!Fits(ls, k) <=> 1 + P[Len(ls)] - P[k - 1] <= BufSize
<1>1. PICK n \in Nat : n = Len(ls)
  OBVIOUS
<1>2. BytesRule(P, ls)
  <2>1. \A i \in 0 .. n : P[i] = IF i = 0 THEN 0 ELSE P[i - 1] + Len(ls[i]) + 1
    <3> SUFFICES ASSUME NEW i \in 0 .. n
                 PROVE  P[i] = IF i = 0 THEN 0 ELSE P[i - 1] + Len(ls[i]) + 1
      OBVIOUS
    <3>1. CASE i = 0
      BY <3>1
    <3>2. CASE i # 0
      <4>1. i \in 1 .. Len(ls)
        BY <3>2, <1>1
      <4>2. P[i] = P[i - 1] + Len(ls[i]) + 1
        BY <4>1
      <4> QED
        BY <3>2, <4>2
    <3> QED
      BY <3>1, <3>2
  <2> QED
    BY <1>1, <2>1 DEF BytesRule
<1>3. PICK B : B = CHOOSE b : BytesRule(b, ls)
  OBVIOUS
<1>4. Editor!Fits(ls, k) <=> 1 + B[n] - B[k - 1] <= BufSize
  BY <1>1, <1>3 DEF Editor!Fits, BytesRule
<1>5. \A i \in 0 .. n : B[i] = IF i = 0 THEN 0 ELSE B[i - 1] + Len(ls[i]) + 1
  <2>1. BytesRule(B, ls)
    BY <1>2, <1>3
  <2> QED
    BY <2>1, <1>1 DEF BytesRule
<1>6. \A i \in 0 .. n : B[i] = P[i]
  <2> DEFINE Bad == {i \in 0 .. n : B[i] # P[i]}
  <2>1. SUFFICES ASSUME Bad # {} PROVE FALSE
    BY <2>1
  <2>2. Bad \subseteq Nat
    OBVIOUS
  <2>3. PICK i \in Bad : \A y \in Bad : i <= y
    BY <2>1, <2>2, LeastNat
  <2>4. i # 0
    BY <2>3, <1>5
  <2>5. i \in 1 .. n /\ i - 1 \in 0 .. n /\ ~(i <= i - 1)
    BY <2>3, <2>4
  <2>6. B[i - 1] = P[i - 1]
    BY <2>3, <2>5
  <2>7. B[i] = P[i]
    BY <2>3, <2>4, <2>5, <2>6, <1>1, <1>5
  <2> QED
    BY <2>3, <2>7
<1>7. n \in 0 .. n /\ k - 1 \in 0 .. n
  BY <1>1
<1> QED
  BY <1>1, <1>4, <1>6, <1>7

LEMMA DistIsRoom ==
  ASSUME BufSize \in Nat, tail \in Slots, NEW h \in Slots, NEW size \in Nat,
         Dist(h, tail) + size + 1 < BufSize
  PROVE  RoomFor(h, size)
BY DEF Dist, Wrap, Slots, RoomFor

LEMMA LinesType ==
  ASSUME CmdLineAssumption, NEW H, Chain(H)
  PROVE  /\ Lines \in Seq(Texts) /\ Len(Lines) = entries
         /\ \A n \in 1 .. entries : Lines[n] = LineAt(Header[n - 1])
<1>1. BufSize \in Nat
  BY Numbers
<1>2. PICK e \in Nat : e = entries /\ \A n \in 0 .. e : Header[n] \in H
  BY <1>1, HeadersStep
<1>3. \A n \in 1 .. e : LineAt(Header[n - 1]) \in Texts
  <2> SUFFICES ASSUME NEW n \in 1 .. e PROVE LineAt(Header[n - 1]) \in Texts
    OBVIOUS
  <2>1. Header[n - 1] \in H
    BY <1>2
  <2> QED
    BY <2>1, LineAtType
<1>4. Lines = [n \in 1 .. e |-> LineAt(Header[n - 1])]
  BY <1>2 DEF Lines
<1>5. Lines \in [1 .. e -> Texts]
  BY <1>3, <1>4
<1>6. Lines \in Seq(Texts) /\ Len(Lines) = e
  BY <1>5
<1> QED
  BY <1>2, <1>4, <1>6

LEMMA LenOfLine ==
  ASSUME NEW h, buffer[h] \in Nat
  PROVE  Len(LineAt(h)) = buffer[h]
<1>1. PICK n \in Nat : n = buffer[h]
  OBVIOUS
<1> DEFINE s == LineAt(h)
<1>2. s = [i \in 1 .. n |-> s[i]]
  BY <1>1 DEF LineAt
<1> QED
  BY <1>1, <1>2, LenOfFunction

LEMMA AppendIs ==
  ASSUME NEW V, NEW s \in Seq(V), NEW x \in V
  PROVE  /\ Append(s, x) \in Seq(V) /\ Len(Append(s, x)) = Len(s) + 1
         /\ \A i \in 1 .. Len(s) : Append(s, x)[i] = s[i]
         /\ Append(s, x)[Len(s) + 1] = x
OBVIOUS

\* The history after save: the new line and as many of the others, from the
\* newest on, as fit.
LEMMA SaveNewest ==
  ASSUME CmdLineAssumption, NEW H, Chain(H), NEW text \in Texts, text # <<>>, Save(text)
  PROVE  Editor!Newest(Append(Lines, text), Lines')
<1>1. BufSize \in Nat /\ LineSize \in Nat /\ LineSize < BufSize
  BY Numbers
<1>2. PICK size, t, a, e : size = Len(text) /\ t = tail /\ a = head /\ e = entries
  OBVIOUS
<1>3. PICK g : g = FreeHead(size)
  OBVIOUS
<1>4. /\ size \in 1 .. LineSize - 1 /\ size + 1 < BufSize
      /\ buffer'[t] = size
      /\ \A i \in 1 .. size : buffer'[Wrap(t + i)] = text[i]
  BY <1>1, <1>2, <1>3, SaveWrites
<1>5. /\ e \in 0 .. BufSize - 1
      /\ Header[0] = a /\ Dist(a, a) = 0 /\ Header[e] = t
      /\ \A n \in 0 .. e : Header[n] \in H /\ Dist(a, Header[n]) \in 0 .. BufSize - 1
      /\ \A n \in 0 .. e - 1 :
              /\ buffer[Header[n]] \in 1 .. LineSize - 1
              /\ Dist(a, Header[n + 1]) = Dist(a, Header[n]) + buffer[Header[n]] + 1
  BY <1>1, <1>2, HeadersStep
<1>6. H \subseteq Slots /\ t \in Slots /\ a \in Slots
  BY <1>2 DEF Chain
<1>7. PICK m \in 0 .. e : /\ g = Header[m] /\ RoomFor(Header[m], size)
                          /\ \A n \in 0 .. m - 1 : ~RoomFor(Header[n], size)
  <2>1. size \in Nat /\ size <= BufSize - 2
    BY <1>1, <1>4
  <2> QED
    BY <2>1, <1>1, <1>2, <1>3, FreeHeadFirst
<1>8. /\ \A n \in 0 .. e - m : Header'[n] = Header[n + m]
      /\ entries' = e - m + 1
      /\ \A n \in m .. e - 1 : \A h \in Slots : h = Header[n] => LineAt(h)' = LineAt(h)
  <2>1. m \in 0 .. entries /\ FreeHead(Len(text)) = Header[m]
    BY <1>2, <1>3, <1>7
  <2>2. /\ \A n \in 0 .. entries - m : Header'[n] = Header[n + m]
        /\ entries' = entries - m + 1
        /\ \A n \in m .. entries - 1 : \A h \in Slots : h = Header[n] => LineAt(h)' = LineAt(h)
    BY <2>1, <1>1, SaveHeaders
  <2> QED
    BY <2>2, <1>2
<1>9. /\ Lines \in Seq(Texts) /\ Len(Lines) = e
      /\ \A n \in 1 .. e : Lines[n] = LineAt(Header[n - 1])
  BY <1>2, LinesType
<1>10. PICK all : all = Append(Lines, text)
  OBVIOUS
<1>11. /\ all \in Seq(Texts) /\ Len(all) = e + 1
       /\ \A n \in 1 .. e : all[n] = LineAt(Header[n - 1])
       /\ all[e + 1] = text
  BY <1>9, <1>10, AppendIs
<1> DEFINE P == [i \in 0 .. e + 1 |-> IF i <= e THEN Dist(a, Header[i])
                                      ELSE Dist(a, t) + size + 1]
<1>12. Dist(a, t) \in 0 .. BufSize - 1 /\ Dist(a, g) \in 0 .. BufSize - 1
  BY <1>5, <1>7
<1>13. /\ P = [i \in 0 .. e + 1 |-> P[i]] /\ P[0] = 0
       /\ P[e + 1] = Dist(a, t) + size + 1
       /\ \A i \in 0 .. e : P[i] = Dist(a, Header[i])
  <2>1. 0 \in 0 .. e + 1 /\ 0 <= e /\ e + 1 \in 0 .. e + 1 /\ ~(e + 1 <= e)
    BY <1>5
  <2>2. \A i \in 0 .. e : i \in 0 .. e + 1 /\ i <= e
    BY <1>5
  <2> QED
    BY <2>1, <2>2, <1>5
<1> HIDE DEF P
<1>14. \A i \in 1 .. e + 1 : P[i] = P[i - 1] + Len(all[i]) + 1
  <2> SUFFICES ASSUME NEW i \in 1 .. e + 1 PROVE P[i] = P[i - 1] + Len(all[i]) + 1
    OBVIOUS
  <2>1. CASE i = e + 1
    <3>1. P[i] = Dist(a, t) + size + 1 /\ Len(all[i]) = size
      BY <2>1, <1>2, <1>11, <1>13
    <3>2. P[i - 1] = Dist(a, t)
      <4>1. i - 1 = e /\ e \in 0 .. e
        <5>1. e \in Nat
          BY <1>5
        <5> QED
          BY <5>1, <2>1
      <4> QED
        BY <4>1, <1>5, <1>13
    <3> QED
      BY <3>1, <3>2
  <2>2. CASE i # e + 1
    <3>1. PICK k \in 0 .. e - 1 : k = i - 1 /\ k + 1 = i
      BY <2>2, <1>5
    <3>2. i \in 1 .. e /\ i \in 0 .. e /\ k \in 0 .. e
      BY <2>2, <3>1, <1>5
    <3>3. PICK b \in 1 .. LineSize - 1 : /\ b = buffer[Header[k]]
                                         /\ Dist(a, Header[i]) = Dist(a, Header[k]) + b + 1
      BY <3>1, <1>5
    <3>4. Len(all[i]) = b
      <4>1. all[i] = LineAt(Header[k])
        BY <3>1, <3>2, <1>11
      <4>2. b \in Nat
        BY <3>3
      <4> QED
        BY <4>1, <4>2, <3>3, LenOfLine
    <3>5. P[i] = Dist(a, Header[i]) /\ P[i - 1] = Dist(a, Header[k])
      BY <3>1, <3>2, <1>13
    <3> QED
      BY <3>3, <3>4, <3>5
  <2> QED
    BY <2>1, <2>2
<1>15. ASSUME NEW k \in 1 .. e + 1
       PROVE  Editor!Fits(all, k) <=> 1 + P[e + 1] - P[k - 1] <= BufSize
  <2>1. PICK n \in Nat : n = e + 1
    BY <1>5
  <2>2. Len(all) = n /\ k \in 1 .. n
    BY <2>1, <1>11
  <2>3. P = [i \in 0 .. n |-> P[i]] /\ P[0] = 0
    BY <2>1, <1>13
  <2>4. \A i \in 1 .. n : P[i] = P[i - 1] + Len(all[i]) + 1
    BY <2>1, <1>14
  <2> QED
    BY <2>1, <2>2, <2>3, <2>4, FitsIs
<1>16. ASSUME NEW n \in 0 .. e
       PROVE  Editor!Fits(all, n + 1) <=> RoomFor(Header[n], size)
  <2>1. n + 1 \in 1 .. e + 1 /\ (n + 1) - 1 = n
    BY <1>5
  <2>2. P[n] = Dist(a, Header[n])
    BY <1>13
  <2>3. PICK h \in Slots : h = Header[n] /\ Dist(a, h) \in 0 .. BufSize - 1
    BY <1>5, <1>6
  <2>4. Dist(h, t) = Dist(a, t) - Dist(a, h)
    <3>1. Dist(a, h) <= Dist(a, t)
      BY <1>2, <1>5, <2>3 DEF Chain
    <3> QED
      BY <3>1, <1>1, <1>6, DistFrom
  <2>5. Editor!Fits(all, n + 1) <=> 1 + (Dist(a, t) + size + 1) - Dist(a, h) <= BufSize
    BY <2>1, <2>2, <2>3, <1>13, <1>15
  <2>6. size \in Nat
    BY <1>4
  <2>7. RoomFor(h, size) <=> Dist(h, t) + size + 1 < BufSize
    BY <2>6, <1>1, <1>2, <1>6, RoomIsDist, DistIsRoom
  <2>8. 1 + (Dist(a, t) + size + 1) - Dist(a, h) <= BufSize <=> Dist(h, t) + size + 1 < BufSize
    BY <2>3, <2>4, <2>6, <1>1, <1>12
  <2> QED
    BY <2>3, <2>5, <2>7, <2>8
<1>17. Editor!Fits(all, m + 1)
  BY <1>7, <1>16
<1>18. m + 1 > 1 => ~Editor!Fits(all, m)
  <2> SUFFICES ASSUME m + 1 > 1 PROVE ~Editor!Fits(all, m)
    OBVIOUS
  <2>1. PICK n \in 0 .. m - 1 : n + 1 = m /\ n \in 0 .. e
    BY <1>5, <1>7
  <2> QED
    BY <2>1, <1>7, <1>16
<1>19. ASSUME NEW n \in 0 .. e - m
       PROVE  LineAt(Header[n])' = all[n + m + 1]
  <2>1. PICK h \in Slots : h = Header[n + m] /\ h = Header'[n]
    <3>1. n + m \in 0 .. e
      BY <1>5, <1>7
    <3> QED
      BY <3>1, <1>5, <1>6, <1>8
  <2>2. LineAt(Header[n])' = LineAt(h)'
    BY <2>1 DEF LineAt
  <2>3. CASE n = e - m
    <3>1. n + m = e /\ n + m + 1 = e + 1
      BY <2>3, <1>5, <1>7
    <3>2. h = t
      BY <3>1, <2>1, <1>5
    <3>3. LineAt(h)' = [i \in 1 .. size |-> buffer'[Wrap(t + i)]]
      BY <3>2, <1>4 DEF LineAt
    <3>4. LineAt(h)' = [i \in 1 .. size |-> text[i]]
      BY <3>3, <1>4
    <3>5. text = [i \in 1 .. size |-> text[i]]
      BY <1>2 DEF Texts
    <3> QED
      BY <2>2, <3>1, <3>4, <3>5, <1>11
  <2>4. CASE n # e - m
    <3>1. PICK k \in m .. e - 1 : k = n + m /\ k + 1 \in 1 .. e /\ k + 1 = n + m + 1 /\ (k + 1) - 1 = k
      BY <2>4, <1>5, <1>7
    <3>2. LineAt(h)' = LineAt(h)
      BY <3>1, <2>1, <1>8
    <3>3. all[k + 1] = LineAt(h)
      BY <3>1, <2>1, <1>11
    <3> QED
      BY <2>2, <3>1, <3>2, <3>3
  <2> QED
    BY <2>3, <2>4
<1>20. Lines' = SubSeq(all, m + 1, e + 1)
  <2>1. PICK l \in Nat : l = e - m + 1
    BY <1>5, <1>7
  <2>2. Lines' = [n \in 1 .. l |-> LineAt(Header[n - 1])']
    BY <2>1, <1>8 DEF Lines
  <2>3. \A n \in 1 .. l : LineAt(Header[n - 1])' = all[n + m]
    <3> SUFFICES ASSUME NEW n \in 1 .. l PROVE LineAt(Header[n - 1])' = all[n + m]
      OBVIOUS
    <3>1. PICK k \in 0 .. e - m : k = n - 1 /\ k + m + 1 = n + m
      BY <2>1, <1>5, <1>7
    <3> QED
      BY <3>1, <1>19
  <2>4. Lines' = [n \in 1 .. l |-> all[n + m]]
    BY <2>2, <2>3
  <2>5. SubSeq(all, m + 1, e + 1) = [n \in 1 .. l |-> all[n + m]]
    <3>1. (e + 1) - (m + 1) + 1 = l
      BY <2>1, <1>5, <1>7
    <3>2. \A n \in 1 .. l : n + (m + 1) - 1 = n + m
      BY <1>7
    <3> QED
      BY <3>1, <3>2, <1>7, <1>5
  <2> QED
    BY <2>4, <2>5
<1>21. m + 1 \in 1 .. Len(all)
  BY <1>5, <1>7, <1>11
<1>22. (m + 1) - 1 = m
  BY <1>7
<1> QED
  BY <1>10, <1>11, <1>17, <1>18, <1>20, <1>21, <1>22 DEF Editor!Newest

-----------------------------------------------------------------------------
(* Sequences that are cut and joined. *)

LEMMA CutIs ==
  ASSUME NEW V, NEW s \in Seq(V), NEW c \in 0 .. Len(s), NEW d \in 0 .. Len(s)
  PROVE  /\ SubSeq(s, 1, c) \in Seq(V) /\ Len(SubSeq(s, 1, c)) = c
         /\ \A i \in 1 .. c : SubSeq(s, 1, c)[i] = s[i]
         /\ SubSeq(s, d + 1, Len(s)) \in Seq(V) /\ Len(SubSeq(s, d + 1, Len(s))) = Len(s) - d
         /\ \A i \in 1 .. Len(s) - d : SubSeq(s, d + 1, Len(s))[i] = s[i + d]
OBVIOUS

LEMMA JoinIs ==
  ASSUME NEW V, NEW r \in Seq(V), NEW t \in Seq(V)
  PROVE  /\ r \o t \in Seq(V) /\ Len(r \o t) = Len(r) + Len(t)
         /\ \A i \in 1 .. Len(r) : (r \o t)[i] = r[i]
         /\ \A i \in 1 .. Len(t) : (r \o t)[Len(r) + i] = t[i]
OBVIOUS

LEMMA SameSequence ==
  ASSUME NEW V, NEW s \in Seq(V), NEW t \in Seq(V), Len(s) = Len(t),
         \A i \in 1 .. Len(s) : s[i] = t[i]
  PROVE  s = t
OBVIOUS

\* The sequence without the characters between places c and d.
LEMMA WithoutIs ==
  ASSUME NEW V, NEW s \in Seq(V), NEW c \in 0 .. Len(s), NEW d \in c .. Len(s),
         NEW t \in Seq(V), Len(t) = c + Len(s) - d,
         \A i \in 1 .. c : t[i] = s[i],
         \A i \in c + 1 .. Len(t) : t[i] = s[i - c + d]
  PROVE  t = SubSeq(s, 1, c) \o SubSeq(s, d + 1, Len(s))
<1>1. Len(s) \in Nat /\ c \in Nat /\ d \in Nat /\ c <= d /\ d <= Len(s) /\ d \in 0 .. Len(s)
  OBVIOUS
<1> DEFINE a == SubSeq(s, 1, c)
           b == SubSeq(s, d + 1, Len(s))
<1>2. /\ a \in Seq(V) /\ Len(a) = c /\ \A i \in 1 .. c : a[i] = s[i]
      /\ b \in Seq(V) /\ Len(b) = Len(s) - d
      /\ \A i \in 1 .. Len(s) - d : b[i] = s[i + d]
  BY <1>1, CutIs
<1> HIDE DEF a, b
<1> DEFINE r == a \o b
<1>3. r \in Seq(V)
  BY <1>2, JoinIs
<1>4. /\ Len(r) = Len(a) + Len(b)
      /\ \A i \in 1 .. Len(a) : r[i] = a[i]
      /\ \A i \in 1 .. Len(b) : r[Len(a) + i] = b[i]
  <2>1. a \in Seq(V) /\ b \in Seq(V)
    BY <1>2
  <2> QED
    BY <2>1, JoinIs
<1> HIDE DEF r
<1>5. Len(r) = Len(t)
  BY <1>1, <1>2, <1>4
<1>6. \A i \in 1 .. Len(t) : t[i] = r[i]
  <2> SUFFICES ASSUME NEW i \in 1 .. Len(t) PROVE t[i] = r[i]
    OBVIOUS
  <2>1. CASE i <= c
    <3>1. i \in 1 .. c /\ i \in 1 .. Len(a)
      BY <2>1, <1>1, <1>2
    <3> QED
      BY <3>1, <1>2, <1>4
  <2>2. CASE ~(i <= c)
    <3>1. PICK k \in 1 .. Len(s) - d : i = c + k
      BY <2>2, <1>1
    <3>2. k \in 1 .. Len(b) /\ i - c + d = k + d /\ i \in c + 1 .. Len(t)
      BY <2>2, <3>1, <1>1, <1>2
    <3>3. r[i] = b[k]
      BY <3>1, <3>2, <1>2, <1>4
    <3>4. b[k] = s[k + d]
      BY <3>1, <1>2
    <3> QED
      BY <3>2, <3>3, <3>4
  <2> QED
    BY <2>1, <2>2
<1>7. t = r
  BY <1>3, <1>5, <1>6, SameSequence
<1> QED
  BY <1>7 DEF a, b, r

\* The sequence with x behind place c.
LEMMA WithIs ==
  ASSUME NEW V, NEW s \in Seq(V), NEW c \in 0 .. Len(s), NEW x \in V,
         NEW t \in Seq(V), Len(t) = Len(s) + 1,
         \A i \in 1 .. c : t[i] = s[i],
         t[c + 1] = x,
         \A i \in c + 2 .. Len(t) : t[i] = s[i - 1]
  PROVE  t = SubSeq(s, 1, c) \o <<x>> \o SubSeq(s, c + 1, Len(s))
<1>1. Len(s) \in Nat /\ c \in Nat /\ c <= Len(s)
  OBVIOUS
<1> DEFINE a == SubSeq(s, 1, c)
           b == SubSeq(s, c + 1, Len(s))
<1>2. /\ a \in Seq(V) /\ Len(a) = c /\ \A i \in 1 .. c : a[i] = s[i]
      /\ b \in Seq(V) /\ Len(b) = Len(s) - c
      /\ \A i \in 1 .. Len(s) - c : b[i] = s[i + c]
  BY CutIs
<1> DEFINE u == <<x>>
<1>3. u \in Seq(V) /\ Len(u) = 1 /\ u[1] = x
  OBVIOUS
<1> HIDE DEF a, b, u
<1> DEFINE l == a \o u
<1>4. l \in Seq(V)
  BY <1>2, <1>3, JoinIs
<1>5. /\ Len(l) = Len(a) + Len(u)
      /\ \A i \in 1 .. Len(a) : l[i] = a[i]
      /\ \A i \in 1 .. Len(u) : l[Len(a) + i] = u[i]
  <2>1. a \in Seq(V) /\ u \in Seq(V)
    BY <1>2, <1>3
  <2> QED
    BY <2>1, JoinIs
<1> HIDE DEF l
<1>6. Len(l) = c + 1 /\ (\A i \in 1 .. c : l[i] = s[i]) /\ l[c + 1] = x
  <2>1. 1 \in 1 .. Len(u)
    BY <1>3
  <2> QED
    BY <2>1, <1>2, <1>3, <1>5
<1> DEFINE r == l \o b
<1>7. r \in Seq(V)
  BY <1>2, <1>4, JoinIs
<1>8. /\ Len(r) = Len(l) + Len(b)
      /\ \A i \in 1 .. Len(l) : r[i] = l[i]
      /\ \A i \in 1 .. Len(b) : r[Len(l) + i] = b[i]
  <2>1. l \in Seq(V) /\ b \in Seq(V)
    BY <1>2, <1>4
  <2> QED
    BY <2>1, JoinIs
<1> HIDE DEF r
<1>9. Len(r) = Len(t)
  BY <1>1, <1>2, <1>6, <1>8
<1>10. \A i \in 1 .. Len(t) : t[i] = r[i]
  <2> SUFFICES ASSUME NEW i \in 1 .. Len(t) PROVE t[i] = r[i]
    OBVIOUS
  <2>1. CASE i <= c + 1
    <3>1. i \in 1 .. Len(l) /\ (i = c + 1 \/ i \in 1 .. c)
      BY <2>1, <1>1, <1>6
    <3>2. r[i] = l[i]
      BY <3>1, <1>8
    <3> QED
      BY <3>1, <3>2, <1>6
  <2>2. CASE ~(i <= c + 1)
    <3>1. PICK k \in 1 .. Len(s) - c : i = c + 1 + k
      BY <2>2, <1>1
    <3>2. k \in 1 .. Len(b) /\ i - 1 = k + c /\ i \in c + 2 .. Len(t)
      BY <2>2, <3>1, <1>1, <1>2
    <3>3. r[i] = b[k]
      BY <3>1, <3>2, <1>6, <1>8
    <3>4. b[k] = s[k + c]
      BY <3>1, <1>2
    <3> QED
      BY <3>2, <3>3, <3>4
  <2> QED
    BY <2>1, <2>2
<1>11. t = r
  BY <1>7, <1>9, <1>10, SameSequence
<1> QED
  BY <1>11 DEF a, b, u, l, r

LEMMA TailOfCut ==
  ASSUME NEW V, NEW s \in Seq(V), NEW c \in Nat, c < Len(s)
  PROVE  Tail(SubSeq(s, c + 1, Len(s))) = SubSeq(s, (c + 1) + 1, Len(s))
OBVIOUS

-----------------------------------------------------------------------------
(* What the keys do to the text. *)

Bytes == {0} \cup 32 .. 126

LEMMA CellsSequence ==
  ASSUME LineSize \in Nat, NEW line \in [Cells -> Bytes], NEW k \in 0 .. LineSize - 1,
         NEW t, t = [i \in 1 .. k |-> line[i - 1]]
  PROVE  t \in Seq(Bytes) /\ Len(t) = k /\ \A i \in 1 .. k : t[i] = line[i - 1]
<1>1. \A i \in 1 .. k : i - 1 \in Cells
  BY DEF Cells
<1>2. t \in [1 .. k -> Bytes]
  BY <1>1
<1> QED
  BY <1>2

LEMMA TextIs ==
  ASSUME LineSize \in Nat, LineOK
  PROVE  /\ Text \in Seq(Bytes) /\ Len(Text) = cmdlen
         /\ \A i \in 1 .. cmdlen : Text[i] = cmdline[i - 1]
         /\ cmdlen \in 0 .. LineSize - 1 /\ curpos \in 0 .. cmdlen
         /\ cmdline \in [Cells -> Bytes]
BY ShownCells DEF LineOK, Bytes

LEMMA ClosedText ==
  ASSUME LineSize \in Nat, LineOK, NEW p \in Nat, p < cmdlen,
         cmdline' = Closed(p), cmdlen' = cmdlen - 1
  PROVE  Text' = SubSeq(Text, 1, p) \o SubSeq(Text, (p + 1) + 1, Len(Text))
<1>1. PICK n \in 0 .. LineSize - 1 : n = cmdlen
  BY DEF LineOK
<1>2. PICK s \in Seq(Bytes) : s = Text /\ Len(s) = n /\ \A i \in 1 .. n : s[i] = cmdline[i - 1]
  BY <1>1, TextIs
<1>3. PICK line : line = Closed(p)
  OBVIOUS
<1>4. /\ line \in [Cells -> Bytes]
      /\ \A i \in 0 .. p - 1 : line[i] = cmdline[i]
      /\ \A i \in p .. n - 2 : line[i] = cmdline[i + 1]
  BY <1>1, <1>3, ClosedIs DEF Bytes
<1>5. PICK k \in 0 .. LineSize - 1 : k = n - 1 /\ k \in Nat
  BY <1>1
<1>6. PICK t : t = [i \in 1 .. k |-> line[i - 1]]
  OBVIOUS
<1>7. Text' = t
  BY <1>1, <1>3, <1>5, <1>6 DEF Text
<1>8. t \in Seq(Bytes) /\ Len(t) = k /\ \A i \in 1 .. k : t[i] = line[i - 1]
  BY <1>4, <1>6, CellsSequence
<1>9. PICK d \in p .. Len(s) : d = p + 1
  BY <1>1, <1>2
<1>10. p \in 0 .. Len(s) /\ Len(t) = p + Len(s) - d
  BY <1>1, <1>2, <1>5, <1>8, <1>9
<1>11. \A i \in 1 .. p : t[i] = s[i]
  <2> SUFFICES ASSUME NEW i \in 1 .. p PROVE t[i] = s[i]
    OBVIOUS
  <2>1. i \in 1 .. k /\ i \in 1 .. n /\ i - 1 \in 0 .. p - 1
    BY <1>1, <1>5
  <2> QED
    BY <2>1, <1>2, <1>4, <1>8
<1>12. \A i \in p + 1 .. Len(t) : t[i] = s[i - p + d]
  <2> SUFFICES ASSUME NEW i \in p + 1 .. Len(t) PROVE t[i] = s[i - p + d]
    OBVIOUS
  <2>1. /\ i \in 1 .. k /\ i + 1 \in 1 .. n /\ i - 1 \in p .. n - 2
        /\ i - p + d = i + 1 /\ (i - 1) + 1 = i /\ (i + 1) - 1 = i
    BY <1>1, <1>5, <1>8, <1>9
  <2>2. t[i] = cmdline[i]
    BY <2>1, <1>4, <1>8
  <2>3. s[i + 1] = cmdline[i]
    BY <2>1, <1>2
  <2> QED
    BY <2>1, <2>2, <2>3
<1>13. t = SubSeq(s, 1, p) \o SubSeq(s, d + 1, Len(s))
  <2>1. t \in Seq(Bytes)
    BY <1>8
  <2> QED
    BY <2>1, <1>10, <1>11, <1>12, WithoutIs
<1> QED
  BY <1>2, <1>7, <1>9, <1>13

LEMMA insertText ==
  ASSUME LineSize \in Nat, LineOK, NEW ch \in 32 .. 126, inschar(ch), Fits
  PROVE  Text' = SubSeq(Text, 1, curpos) \o <<ch>> \o SubSeq(Text, curpos + 1, Len(Text))
<1>1. PICK n \in 0 .. LineSize - 1, c \in Nat : c <= n /\ n = cmdlen /\ c = curpos
  BY DEF LineOK
<1>2. PICK s \in Seq(Bytes) : s = Text /\ Len(s) = n /\ \A i \in 1 .. n : s[i] = cmdline[i - 1]
  BY <1>1, TextIs
<1>3. PICK line : line = [i \in Cells |-> IF i = c THEN ch
                               ELSE IF i > c /\ i <= n THEN cmdline[i - 1]
                               ELSE cmdline[i]]
  OBVIOUS
<1>4. cmdline' = line /\ cmdlen' = n + 1
  BY <1>1, <1>3 DEF inschar
<1>5. PICK k \in 0 .. LineSize - 1 : k = n + 1 /\ k \in Nat
  BY <1>1 DEF Fits
<1>6. \A i \in Cells : cmdline[i] \in Bytes
  BY TextIs
<1>7. line \in [Cells -> Bytes]
  <2>1. \A i \in Cells : line[i] \in Bytes
    <3> SUFFICES ASSUME NEW i \in Cells PROVE line[i] \in Bytes
      OBVIOUS
    <3>1. i > c /\ i <= n => i - 1 \in Cells
      BY <1>1 DEF Cells
    <3>2. ch \in Bytes
      BY DEF Bytes
    <3> QED
      BY <3>1, <3>2, <1>3, <1>6
  <2> QED
    BY <2>1, <1>3
<1>8. PICK t : t = [i \in 1 .. k |-> line[i - 1]]
  OBVIOUS
<1>9. Text' = t
  BY <1>4, <1>5, <1>8 DEF Text
<1>10. t \in Seq(Bytes) /\ Len(t) = k /\ \A i \in 1 .. k : t[i] = line[i - 1]
  BY <1>7, <1>8, CellsSequence
<1>11. \A i \in 1 .. k : i - 1 \in Cells
  BY <1>5 DEF Cells
<1>12. \A i \in 1 .. c : t[i] = s[i]
  <2> SUFFICES ASSUME NEW i \in 1 .. c PROVE t[i] = s[i]
    OBVIOUS
  <2>1. i \in 1 .. k /\ i \in 1 .. n /\ i - 1 # c /\ ~(i - 1 > c)
    BY <1>1, <1>5
  <2> QED
    BY <2>1, <1>2, <1>3, <1>10, <1>11
<1>13. t[c + 1] = ch
  <2>1. c + 1 \in 1 .. k /\ (c + 1) - 1 = c
    BY <1>1, <1>5
  <2> QED
    BY <2>1, <1>3, <1>10, <1>11
<1>14. \A i \in c + 2 .. Len(t) : t[i] = s[i - 1]
  <2> SUFFICES ASSUME NEW i \in c + 2 .. Len(t) PROVE t[i] = s[i - 1]
    OBVIOUS
  <2>1. i \in 1 .. k /\ i - 1 \in 1 .. n /\ i - 1 # c /\ i - 1 > c /\ i - 1 <= n
    BY <1>1, <1>5, <1>10
  <2>2. t[i] = line[i - 1] /\ i - 1 \in Cells
    BY <2>1, <1>10, <1>11
  <2>3. line[i - 1] = cmdline[(i - 1) - 1]
    BY <2>1, <2>2, <1>3
  <2> QED
    BY <2>1, <2>2, <2>3, <1>2
<1>15. c \in 0 .. Len(s) /\ Len(t) = Len(s) + 1 /\ ch \in Bytes
  BY <1>1, <1>2, <1>5, <1>10 DEF Bytes
<1>16. t = SubSeq(s, 1, c) \o <<ch>> \o SubSeq(s, c + 1, Len(s))
  <2>1. t \in Seq(Bytes)
    BY <1>10
  <2> QED
    BY <2>1, <1>12, <1>13, <1>14, <1>15, WithIs
<1> QED
  BY <1>1, <1>2, <1>9, <1>16

LEMMA transposeText ==
  ASSUME LineSize \in Nat, LineOK, transpose, 0 < curpos, curpos < cmdlen
  PROVE  Text' = [Text EXCEPT ![curpos] = Text[curpos + 1], ![curpos + 1] = Text[curpos]]
<1>1. PICK n \in 0 .. LineSize - 1, c \in Nat : c < n /\ c > 0 /\ n = cmdlen /\ c = curpos
  BY DEF LineOK
<1>2. PICK s \in Seq(Bytes) : s = Text /\ Len(s) = n /\ \A i \in 1 .. n : s[i] = cmdline[i - 1]
  BY <1>1, TextIs
<1>3. cmdline \in [Cells -> Bytes]
  BY TextIs
<1>4. PICK line : line = [cmdline EXCEPT ![c] = cmdline[c - 1], ![c - 1] = cmdline[c]]
  OBVIOUS
<1>5. cmdline' = line /\ cmdlen' = n
  <2>1. curpos # 0
    BY <1>1
  <2>2. /\ cmdline' = [cmdline EXCEPT ![curpos] = cmdline[curpos - 1],
                                      ![curpos - 1] = cmdline[curpos]]
        /\ cmdlen' = cmdlen
    BY <2>1, Zenon DEF transpose
  <2> QED
    BY <2>2, <1>1, <1>4
<1>6. c \in Cells /\ c - 1 \in Cells /\ c # c - 1
  BY <1>1 DEF Cells
<1>7. \A i \in Cells : line[i] = IF i = c THEN cmdline[c - 1]
                                 ELSE IF i = c - 1 THEN cmdline[c] ELSE cmdline[i]
  BY <1>3, <1>4, <1>6
<1>8. Text' = [i \in 1 .. n |-> line[i - 1]]
  BY <1>5 DEF Text
<1>9. c \in 1 .. n /\ c + 1 \in 1 .. n /\ c # c + 1
  BY <1>1
<1>10. s[c] = cmdline[c - 1] /\ s[c + 1] = cmdline[c]
  BY <1>1, <1>2, <1>9
<1>11. \A i \in 1 .. n : line[i - 1] = IF i = c THEN s[c + 1]
                                       ELSE IF i = c + 1 THEN s[c] ELSE s[i]
  <2> SUFFICES ASSUME NEW i \in 1 .. n
               PROVE  line[i - 1] = IF i = c THEN s[c + 1]
                                    ELSE IF i = c + 1 THEN s[c] ELSE s[i]
    OBVIOUS
  <2>1. /\ i - 1 \in Cells /\ (i - 1 = c <=> i = c + 1) /\ (i - 1 = c - 1 <=> i = c)
        /\ s[i] = cmdline[i - 1] /\ i \in Int
    BY <1>1, <1>2 DEF Cells
  <2> QED
    BY <2>1, <1>7, <1>9, <1>10
<1>12. [s EXCEPT ![c] = s[c + 1], ![c + 1] = s[c]]
          = [i \in 1 .. n |-> IF i = c THEN s[c + 1] ELSE IF i = c + 1 THEN s[c] ELSE s[i]]
  <2>1. DOMAIN s = 1 .. n /\ s = [i \in 1 .. n |-> s[i]]
    BY <1>1, <1>2
  <2> QED
    BY <2>1, <1>9
<1> QED
  BY <1>1, <1>2, <1>8, <1>11, <1>12

LEMMA GetText ==
  ASSUME LineSize \in Nat, NEW text \in Texts, Get(text)
  PROVE  Text' = text /\ curpos' = Len(text)
<1>1. PICK n \in Nat : n = Len(text) /\ n <= LineSize - 1 /\ text = [i \in 1 .. n |-> text[i]]
  BY DEF Texts
<1>2. PICK line : line = [i \in Cells |-> IF i < n THEN text[i + 1] ELSE cmdline[i]]
  OBVIOUS
<1>3. cmdline' = line /\ cmdlen' = n /\ curpos' = n
  BY <1>1, <1>2 DEF Get, At
<1>4. Text' = [i \in 1 .. n |-> line[i - 1]]
  BY <1>3 DEF Text
<1>5. \A i \in 1 .. n : line[i - 1] = text[i]
  <2> SUFFICES ASSUME NEW i \in 1 .. n PROVE line[i - 1] = text[i]
    OBVIOUS
  <2>1. i - 1 \in Cells /\ i - 1 < n /\ (i - 1) + 1 = i
    BY <1>1 DEF Cells
  <2> QED
    BY <2>1, <1>2
<1>6. Text' = [i \in 1 .. n |-> text[i]]
  BY <1>4, <1>5
<1> QED
  BY <1>1, <1>3, <1>6

LEMMA LinesSame ==
  ASSUME buffer' = buffer, head' = head, tail' = tail
  PROVE  Lines' = Lines
<1>1. Skip' = Skip
  BY DEF Skip
<1>2. Header' = Header
  BY <1>1 DEF Header
<1>3. entries' = entries
  BY EntriesSame
<1> QED
  BY <1>2, <1>3 DEF Lines, LineAt

-----------------------------------------------------------------------------
(* Every key is a step of the editor. *)

EditStep == Editor!Next \/ UNCHANGED Editor!vars

LEMMA PrintEdits ==
  ASSUME UNCHANGED <<cmdline, cmdlen, curpos, col>>, UNCHANGED histVars
  PROVE  EditStep
<1>1. buffer' = buffer /\ head' = head /\ tail' = tail /\ index' = index
  BY DEF histVars
<1>2. Text' = Text /\ curpos' = curpos
  BY DEF Text
<1>3. Lines' = Lines
  BY <1>1, LinesSame
<1> QED
  BY <1>1, <1>2, <1>3 DEF EditStep, Editor!vars

LEMMA StillEdits ==
  ASSUME Stay, UNCHANGED histVars
  PROVE  EditStep
BY PrintEdits DEF Stay, editVars

LEMMA MoveEdits ==
  ASSUME LineSize \in Nat, LineOK, cmdline' = cmdline, cmdlen' = cmdlen,
         curpos' \in 0 .. cmdlen, UNCHANGED histVars
  PROVE  EditStep
<1>1. buffer' = buffer /\ head' = head /\ tail' = tail /\ index' = index
  BY DEF histVars
<1>2. Text' = Text
  BY DEF Text
<1>3. Lines' = Lines
  BY <1>1, LinesSame
<1>4. Editor!Move
  BY <1>1, <1>2, <1>3, TextIs DEF Editor!Move
<1> QED
  BY <1>4 DEF EditStep, Editor!Next

\* The keys that change the text and not the history.
LEMMA KeyEdits ==
  ASSUME CmdLineAssumption, LineOK, UNCHANGED histVars,
         NEW ch, \/ ch \in Typed /\ inschar(ch)
                 \/ delchar \/ backspace \/ (curpos > 0 /\ Rubout)
                 \/ killEnd \/ killLine
                 \/ (0 < curpos /\ curpos < cmdlen /\ transpose)
  PROVE  EditStep
<1>1. LineSize \in Nat
  BY Numbers
<1>2. buffer' = buffer /\ head' = head /\ tail' = tail /\ index' = index
  BY DEF histVars
<1>3. Lines' = Lines /\ index' = index
  BY <1>2, LinesSame
<1>4. /\ Text \in Seq(Bytes) /\ Len(Text) = cmdlen
      /\ cmdlen \in 0 .. LineSize - 1 /\ curpos \in 0 .. cmdlen
  BY <1>1, TextIs
<1>5. CASE Stay
  BY <1>5, StillEdits
<1>6. CASE ch \in Typed /\ inschar(ch) /\ ~Stay
  <2>1. ch \in 32 .. 126
    BY <1>6 DEF CmdLineAssumption
  <2>2. Fits /\ curpos' = curpos + 1
    BY <1>6 DEF inschar, At
  <2>3. Text' = SubSeq(Text, 1, curpos) \o <<ch>> \o SubSeq(Text, curpos + 1, Len(Text))
    BY <2>1, <2>2, <1>1, <1>6, insertText
  <2>4. Len(Text) < LineSize - 1
    BY <2>2, <1>4 DEF Fits
  <2>5. Editor!Insert
    BY <2>2, <2>3, <2>4, <1>3, <1>6 DEF Editor!Insert, Editor!Before, Editor!After
  <2> QED
    BY <2>5 DEF EditStep, Editor!Next
<1>7. CASE delchar /\ ~Stay
  <2>1. /\ curpos # cmdlen /\ cmdline' = Closed(curpos) /\ cmdlen' = cmdlen - 1
        /\ curpos' = curpos
    BY <1>7 DEF delchar
  <2>2. curpos \in Nat /\ curpos < cmdlen
    BY <2>1, <1>4
  <2>3. Text' = SubSeq(Text, 1, curpos) \o SubSeq(Text, (curpos + 1) + 1, Len(Text))
    BY <2>1, <2>2, <1>1, ClosedText
  <2>4. Tail(SubSeq(Text, curpos + 1, Len(Text))) = SubSeq(Text, (curpos + 1) + 1, Len(Text))
    BY <2>2, <1>4, TailOfCut
  <2>5. Editor!Delete
    BY <2>1, <2>2, <2>3, <2>4, <1>3, <1>4 DEF Editor!Delete, Editor!Before, Editor!After
  <2> QED
    BY <2>5 DEF EditStep, Editor!Next
<1>8. CASE (backspace \/ (curpos > 0 /\ Rubout)) /\ ~Stay
  <2>1. /\ curpos > 0 /\ cmdline' = Closed(curpos - 1) /\ cmdlen' = cmdlen - 1
        /\ curpos' = curpos - 1
    BY <1>8 DEF backspace, Rubout, At
  <2>2. PICK p \in Nat : p = curpos - 1 /\ p < cmdlen /\ p + 1 = curpos
    BY <2>1, <1>4
  <2>3. Text' = SubSeq(Text, 1, p) \o SubSeq(Text, (p + 1) + 1, Len(Text))
    BY <2>1, <2>2, <1>1, ClosedText
  <2>4. Editor!Backspace
    BY <2>1, <2>2, <2>3, <1>3 DEF Editor!Backspace, Editor!After
  <2> QED
    BY <2>4 DEF EditStep, Editor!Next
<1>9. CASE killEnd
  <2>1. cmdline' = cmdline /\ cmdlen' = curpos /\ curpos' = curpos
    BY <1>9 DEF killEnd
  <2>2. Text' = [i \in 1 .. curpos |-> cmdline[i - 1]]
    BY <2>1 DEF Text
  <2>3. SubSeq(Text, 1, curpos) = [i \in 1 .. curpos |-> Text[i]]
    BY <1>4
  <2>4. \A i \in 1 .. curpos : Text[i] = cmdline[i - 1]
    BY <1>4 DEF Text
  <2>5. Editor!KillEnd
    BY <2>1, <2>2, <2>3, <2>4, <1>3 DEF Editor!KillEnd, Editor!Before
  <2> QED
    BY <2>5 DEF EditStep, Editor!Next
<1>10. CASE killLine
  <2>1. cmdlen' = 0 /\ curpos' = 0
    BY <1>10 DEF killLine, At
  <2>2. Text' = <<>>
    BY <2>1 DEF Text
  <2>3. Editor!KillLine
    BY <2>1, <2>2, <1>3 DEF Editor!KillLine
  <2> QED
    BY <2>3 DEF EditStep, Editor!Next
<1>11. CASE 0 < curpos /\ curpos < cmdlen /\ transpose
  <2>1. Text' = [Text EXCEPT ![curpos] = Text[curpos + 1], ![curpos + 1] = Text[curpos]]
    BY <1>1, <1>11, transposeText
  <2>2. curpos' = curpos
    BY <1>11 DEF transpose
  <2>3. curpos \in 1 .. Len(Text) - 1
    BY <1>4, <1>11
  <2>4. Editor!Transpose
    BY <2>1, <2>2, <2>3, <1>3 DEF Editor!Transpose
  <2> QED
    BY <2>4 DEF EditStep, Editor!Next
<1> QED
  BY <1>5, <1>6, <1>7, <1>8, <1>9, <1>10, <1>11

LEMMA OlderEdits ==
  ASSUME CmdLineAssumption, HistInv, getOlder
  PROVE  EditStep
<1>1. LineSize \in Nat /\ BufSize \in Nat
  BY Numbers
<1>2. buffer' = buffer /\ head' = head /\ tail' = tail
  BY DEF getOlder
<1>3. Lines' = Lines
  BY <1>2, LinesSame
<1>4. PICK H : Chain(H)
  BY DEF HistInv, Linked
<1>5. index \in Nat
  BY DEF HistInv, HistTypeOK
<1>6. /\ Len(Lines) = entries
      /\ \A n \in 1 .. entries : Lines[n] = LineAt(Header[n - 1])
  BY <1>4, LinesType
<1>7. PICK e \in Nat : e = entries
  BY <1>1, <1>4, EntriesType
<1>8. CASE HasOlder
  <2>1. Up \in H /\ index + 1 <= e
    BY <1>1, <1>4, <1>5, <1>7, <1>8, UpInChain
  <2>2. LineAt(Up) \in Texts
    BY <1>4, <2>1, LineAtType
  <2>3. Get(LineAt(Up)) /\ index' = index + 1
    BY <1>8 DEF getOlder, OlderIndex
  <2>4. Text' = LineAt(Up) /\ curpos' = Len(LineAt(Up))
    BY <1>1, <2>2, <2>3, GetText
  <2>5. PICK k \in 0 .. e - 1 : k = (e - 1) - index
    BY <1>5, <1>7, <2>1
  <2>6. Up = Header[k]
    BY <1>7, <2>5 DEF Up, find
  <2>7. PICK n \in 1 .. e : n = e + 1 - (index + 1) /\ n - 1 = k
    BY <1>5, <1>7, <2>1, <2>5
  <2>8. Lines[n] = LineAt(Up)
    BY <1>6, <1>7, <2>6, <2>7
  <2>9. Editor!Back(index + 1) = LineAt(Up)
    <3>1. index + 1 # 0
      BY <1>5
    <3>2. Len(Lines) + 1 - (index + 1) = n
      BY <1>6, <1>7, <2>7
    <3> QED
      BY <3>1, <3>2, <2>8 DEF Editor!Back
  <2>10. index < Len(Lines)
    BY <1>5, <1>6, <1>7, <2>1
  <2>11. Editor!Older
    BY <1>3, <2>3, <2>4, <2>9, <2>10 DEF Editor!Older, Editor!Show
  <2> QED
    BY <2>11 DEF EditStep, Editor!Next
<1>9. CASE ~HasOlder
  <2>1. Stay /\ UNCHANGED histVars
    BY <1>2, <1>9 DEF getOlder, histVars
  <2> QED
    BY <2>1, StillEdits
<1> QED
  BY <1>8, <1>9

LEMMA NewerEdits ==
  ASSUME CmdLineAssumption, HistInv, getNewer
  PROVE  EditStep
<1>1. LineSize \in Nat /\ BufSize \in Nat
  BY Numbers
<1>2. buffer' = buffer /\ head' = head /\ tail' = tail
  BY DEF getNewer
<1>3. Lines' = Lines
  BY <1>2, LinesSame
<1>4. PICK H : Chain(H)
  BY DEF HistInv, Linked
<1>5. index \in Nat /\ (index = 0 \/ index <= entries)
  BY DEF HistInv, HistTypeOK
<1>6. /\ Len(Lines) = entries
      /\ \A n \in 1 .. entries : Lines[n] = LineAt(Header[n - 1])
  BY <1>4, LinesType
<1>7. PICK e \in Nat : e = entries
  BY <1>1, <1>4, EntriesType
<1>8. Newer \in Texts
  BY <1>4, <1>5, NewerType
<1>9. /\ Text' = Newer /\ curpos' = Len(Newer)
      /\ index' = IF index > 0 THEN index - 1 ELSE index
  BY <1>1, <1>8, GetText DEF getNewer, NewerIndex
<1>10. PICK j \in Nat : j = IF index = 0 THEN 0 ELSE index - 1
  BY <1>5
<1>11. index' = j
  BY <1>5, <1>9, <1>10
<1>12. Editor!Back(j) = Newer
  <2>1. CASE index = 0
    BY <2>1, <1>5, <1>10 DEF Editor!Back, Newer
  <2>2. CASE index = 1
    <3>1. Newer = LineAt(Down)
      BY <2>2 DEF Newer
    <3>2. Down = tail
      <4>1. entries + 1 \in Int /\ index \in Int /\ (entries + 1) - index \notin 0 .. entries - 1
        BY <2>2, <1>7
      <4> QED
        BY <4>1, <1>1, <1>4, FindInChain DEF Down
    <3>3. buffer[tail] = 0
      BY <1>4 DEF Chain
    <3>4. Newer = <<>>
      BY <3>1, <3>2, <3>3 DEF LineAt
    <3> QED
      BY <3>4, <2>2, <1>10 DEF Editor!Back
  <2>3. CASE index > 1
    <3>1. Newer = LineAt(Down)
      BY <2>3, <1>5 DEF Newer
    <3>2. index <= e
      BY <2>3, <1>5, <1>7
    <3>3. PICK k \in 0 .. e - 1 : k = (e + 1) - index
      BY <2>3, <3>2, <1>5
    <3>4. Down = Header[k]
      BY <3>3, <1>7 DEF Down, find
    <3>5. PICK n \in 1 .. e : n = e + 1 - j /\ n - 1 = k /\ j # 0
      BY <2>3, <3>2, <3>3, <1>5, <1>10
    <3>6. Lines[n] = LineAt(Down)
      BY <1>6, <1>7, <3>4, <3>5
    <3>7. Len(Lines) + 1 - j = n
      BY <1>6, <1>7, <3>5
    <3> QED
      BY <3>1, <3>5, <3>6, <3>7 DEF Editor!Back
  <2> QED
    BY <2>1, <2>2, <2>3, <1>5
<1>13. Editor!Newer
  BY <1>3, <1>9, <1>10, <1>11, <1>12 DEF Editor!Newer, Editor!Show
<1> QED
  BY <1>13 DEF EditStep, Editor!Next

LEMMA EnterEdits ==
  ASSUME CmdLineAssumption, HistInv, LineOK, newline
  PROVE  EditStep
<1>1. LineSize \in Nat /\ BufSize \in Nat
  BY Numbers
<1>2. PICK H : Chain(H)
  BY DEF HistInv, Linked
<1>3. PICK text \in Texts : text = Text
  BY <1>1, TextType
<1>4. Save(text) /\ cmdlen' = 0 /\ curpos' = 0
  BY <1>3 DEF newline, At
<1>5. Text' = <<>>
  BY <1>4 DEF Text
<1>6. CASE text = <<>>
  <2>1. UNCHANGED histVars
    BY <1>4, <1>6 DEF Save
  <2>2. buffer' = buffer /\ head' = head /\ tail' = tail /\ index' = index
    BY <2>1 DEF histVars
  <2>3. Lines' = Lines
    BY <2>2, LinesSame
  <2>4. Editor!Enter
    BY <2>2, <2>3, <1>3, <1>4, <1>5, <1>6 DEF Editor!Enter
  <2> QED
    BY <2>4 DEF EditStep, Editor!Next
<1>7. CASE text # <<>>
  <2>1. Editor!Newest(Append(Lines, text), Lines')
    BY <1>2, <1>4, <1>7, SaveNewest
  <2>2. index' = 0
    <3>1. PICK size, g, t : size = Len(text) /\ g = FreeHead(size) /\ t = tail
      OBVIOUS
    <3> QED
      BY <3>1, <1>1, <1>2, <1>4, <1>7, Numbers, SaveWrites
  <2>3. Editor!Enter
    BY <2>1, <2>2, <1>3, <1>4, <1>5, <1>7 DEF Editor!Enter
  <2> QED
    BY <2>3 DEF EditStep, Editor!Next
<1> QED
  BY <1>6, <1>7

LEMMA RedrawEdits ==
  ASSUME CmdLineAssumption, LineOK, UNCHANGED histVars,
         NEW pos \in 0 .. cmdlen, MoveTo(pos) \/ redraw
  PROVE  EditStep
<1>1. LineSize \in Nat
  BY Numbers
<1>2. cmdline' = cmdline /\ cmdlen' = cmdlen /\ curpos' \in 0 .. cmdlen
  <2>1. cmdlen \in 0 .. cmdlen
    BY DEF LineOK
  <2> QED
    BY <2>1 DEF MoveTo, redraw, At
<1> QED
  BY <1>1, <1>2, MoveEdits

LEMMA ArrowEdits ==
  ASSUME CmdLineAssumption, LineOK, UNCHANGED histVars, Forward \/ Backward
  PROVE  EditStep
<1>1. curpos \in 0 .. cmdlen /\ cmdlen \in Nat
  BY DEF LineOK
<1>2. CASE Stay
  BY <1>2, StillEdits
<1>3. CASE curpos < cmdlen /\ MoveTo(curpos + 1)
  <2>1. curpos + 1 \in 0 .. cmdlen
    BY <1>1, <1>3
  <2> QED
    BY <2>1, <1>3, RedrawEdits
<1>4. CASE curpos > 0 /\ MoveTo(curpos - 1)
  <2>1. curpos - 1 \in 0 .. cmdlen
    BY <1>1, <1>4
  <2> QED
    BY <2>1, <1>4, RedrawEdits
<1> QED
  BY <1>2, <1>3, <1>4 DEF Forward, Backward

LEMMA PlainEdits ==
  ASSUME CmdLineAssumption, TransposeAnywhere = FALSE, HistInv, LineOK,
         NEW ch, Plain(ch)
  PROVE  EditStep
<1>1. 0 \in 0 .. cmdlen /\ cmdlen \in 0 .. cmdlen
  BY DEF LineOK
<1>2. CASE newline
  BY <1>2, EnterEdits
<1>3. CASE getNewer
  BY <1>3, NewerEdits
<1>4. CASE getOlder
  BY <1>4, OlderEdits
<1>5. CASE /\ TransposeAnywhere \/ (0 < curpos /\ curpos < cmdlen)
           /\ transpose
           /\ UNCHANGED histVars
  BY <1>5, KeyEdits
<1>6. CASE Stay /\ UNCHANGED histVars
  BY <1>6, StillEdits
<1>7. CASE UNCHANGED histVars /\ (MoveTo(0) \/ MoveTo(cmdlen) \/ redraw)
  BY <1>1, <1>7, RedrawEdits
<1>8. CASE UNCHANGED histVars /\ (Forward \/ Backward)
  BY <1>8, ArrowEdits
<1>9. CASE UNCHANGED histVars /\ (\/ ch \in Typed /\ inschar(ch)
                                  \/ delchar \/ backspace \/ killEnd \/ killLine)
  BY <1>9, KeyEdits
<1>10. UNCHANGED <<state, histVars>> => UNCHANGED histVars
  OBVIOUS
<1> QED
  BY <1>2, <1>3, <1>4, <1>5, <1>6, <1>7, <1>8, <1>9, <1>10, Zenon DEF Plain

LEMMA StepEdits ==
  ASSUME CmdLineAssumption, TransposeAnywhere = FALSE, IInv, [Next]_vars
  PROVE  EditStep
<1>1. HistInv /\ LineOK
  BY DEF IInv, HistInv
<1>2. 0 \in 0 .. cmdlen /\ cmdlen \in 0 .. cmdlen
  BY <1>1 DEF LineOK
<1>3. CASE Next
  <2>1. PICK ch : process(ch) \/ Printed(ch)
    BY <1>3 DEF Next
  <2>2. CASE Plain(ch)
    BY <2>2, <1>1, PlainEdits
  <2>3. CASE Escape(ch)
    BY <2>3, StillEdits DEF Escape
  <2>4. CASE Bracket(ch)
    <3>1. \/ getOlder \/ getNewer
          \/ (Forward \/ Backward) /\ UNCHANGED histVars
          \/ Stay /\ UNCHANGED histVars
      BY <2>4, Zenon DEF Bracket
    <3> QED
      BY <3>1, <1>1, OlderEdits, NewerEdits, ArrowEdits, StillEdits
  <2>5. CASE Keypad(ch)
    <3>1. /\ \/ MoveTo(0) \/ MoveTo(cmdlen) \/ Stay
             \/ UNCHANGED <<cmdline, cmdlen, curpos, col>>
          /\ UNCHANGED histVars
      BY <2>5, Zenon DEF Keypad
    <3> QED
      BY <3>1, <1>1, <1>2, RedrawEdits, StillEdits, PrintEdits
  <2>6. CASE Printed(ch)
    <3>1. /\ (curpos > 0 /\ Rubout) \/ UNCHANGED <<cmdline, cmdlen, curpos, col>>
          /\ UNCHANGED histVars
      BY <2>6 DEF Printed
    <3> QED
      BY <3>1, <1>1, KeyEdits, PrintEdits
  <2> QED
    BY <2>1, <2>2, <2>3, <2>4, <2>5, <2>6 DEF process
<1>4. CASE UNCHANGED vars
  <2>1. UNCHANGED histVars /\ Stay
    BY <1>4 DEF vars, Stay
  <2> QED
    BY <2>1, StillEdits
<1> QED
  BY <1>3, <1>4

LEMMA InitEdits ==
  ASSUME CmdLineAssumption, Init
  PROVE  Editor!Init
<1>1. BufSize \in Nat /\ LineSize \in Nat /\ LineSize < BufSize
  BY Numbers
<1>2. PICK n \in 1 .. LineSize - 1 : n = Len(BootLine) /\ n \in Nat
  BY <1>1 DEF CmdLineAssumption
<1>3. Chain({0, n + 1}) /\ tail = n + 1
  BY <1>2, InitOK DEF Init
<1>4. buffer = [p \in Slots |-> IF p = 0 THEN n ELSE IF p <= n THEN BootLine[p] ELSE 0]
  BY <1>2 DEF Init
<1>5. PICK s : s = BootLine
  OBVIOUS
<1>6. s = [i \in 1 .. n |-> s[i]] /\ s \in Seq(Range(s))
  <2>1. s \in Seq(32 .. 126) /\ Len(s) = n
    BY <1>2, <1>5 DEF CmdLineAssumption
  <2>2. s = [i \in 1 .. n |-> s[i]] /\ DOMAIN s = 1 .. n
    BY <2>1
  <2>3. \A i \in 1 .. n : s[i] \in Range(s)
    BY <2>2 DEF Range
  <2>4. s \in [1 .. n -> Range(s)]
    BY <2>2, <2>3
  <2> QED
    BY <2>2, <2>4, <1>2
<1>7. LineAt(0) = s
  <2>1. buffer[0] = n
    BY <1>1, <1>4 DEF Slots
  <2>2. \A i \in 1 .. n : buffer[Wrap(0 + i)] = s[i]
    <3> SUFFICES ASSUME NEW i \in 1 .. n PROVE buffer[Wrap(0 + i)] = s[i]
      OBVIOUS
    <3>1. Wrap(0 + i) = i /\ i \in Slots /\ i # 0 /\ i <= n
      BY <1>1 DEF Wrap, Slots
    <3> QED
      BY <3>1, <1>4, <1>5
  <2>3. LineAt(0) = [i \in 1 .. n |-> s[i]]
    BY <2>1, <2>2 DEF LineAt
  <2> QED
    BY <2>3, <1>6
<1>8. PICK e \in Nat : /\ e = entries
                       /\ \A k \in 0 .. e - 1 : Header[k] \in {0, n + 1} \ {tail}
  <2>1. PICK H : H = {0, n + 1} /\ Chain(H)
    BY <1>3
  <2>2. /\ entries \in 0 .. BufSize - 1
        /\ \A k \in 0 .. entries - 1 : Header[k] \in H \ {tail}
    BY <1>1, <2>1, HeadersStep
  <2>3. PICK e \in 0 .. BufSize - 1 : e = entries
    BY <2>2
  <2>4. \A k \in 0 .. e - 1 : Header[k] \in {0, n + 1} \ {tail}
    BY <2>1, <2>2, <2>3
  <2>5. e \in Nat
    BY <1>1, <2>3
  <2> QED
    BY <2>3, <2>4, <2>5
<1>9. \A k \in 1 .. e : LineAt(Header[k - 1]) = s
  <2> SUFFICES ASSUME NEW k \in 1 .. e PROVE LineAt(Header[k - 1]) = s
    OBVIOUS
  <2>1. k - 1 \in 0 .. e - 1
    OBVIOUS
  <2>2. Header[k - 1] = 0
    BY <2>1, <1>3, <1>8
  <2> QED
    BY <2>2, <1>7
<1>10. Lines = [k \in 1 .. e |-> s]
  BY <1>8, <1>9 DEF Lines
<1> DEFINE C == Typed \cup Range(BootLine)
<1>11. s \in Seq(C)
  <2>1. s \in [1 .. n -> Range(s)]
    <3>1. \A i \in 1 .. n : s[i] \in Range(s)
      <4>1. DOMAIN s = 1 .. n
        BY <1>6
      <4> QED
        BY <4>1 DEF Range
    <3> QED
      BY <3>1, <1>6
  <2>2. s \in [1 .. n -> C]
    BY <2>1, <1>5
  <2> QED
    BY <2>2, <1>2
<1>12. Lines \in Seq(Seq(C))
  <2> HIDE DEF C
  <2>1. Lines \in [1 .. e -> Seq(C)]
    BY <1>10, <1>11
  <2> QED
    BY <2>1
<1>13. Text = <<>> /\ curpos = 0 /\ index = 0
  BY DEF Init, Text
<1> QED
  BY <1>12, <1>13 DEF Editor!Init

\* The keys of the console edit, move, recall and enter as LineEditor promises,
\* and the circular buffer of hist.cpp, with its lengths and its wrapping
\* positions, holds the newest of the lines entered that fit into it, each of
\* them as it was entered: no line that is saved overwrites one that is kept,
\* and findfree forgets no line that could have stayed.
THEOREM ImplementsEditor ==
  ASSUME TransposeAnywhere = FALSE
  PROVE  Spec => Edits
<1>1. Init => Editor!Init
  BY CmdLineAssumption, InitEdits
<1>2. IInv /\ [Next]_vars => [Editor!Next]_(Editor!vars)
  BY CmdLineAssumption, StepEdits DEF EditStep
<1> QED
  BY <1>1, <1>2, Invariant, PTL DEF Spec, Edits, Editor!Spec

=============================================================================
