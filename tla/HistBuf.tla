------------------------------ MODULE HistBuf ------------------------------
(***************************************************************************)
(* The command history of the console (hist.cpp): lines in a circular      *)
(* buffer of bytes, each after its length; a length of zero ends the list. *)
(* Nothing but the lengths says where a line begins.                       *)
(***************************************************************************)
EXTENDS Integers, Sequences, SequencesExt

CONSTANT BufSize     \* bufsize: 128

VARIABLES buffer, head, tail, index

histVars == <<buffer, head, tail, index>>

Slots == 0 .. BufSize - 1

Wrap(i) == IF i >= BufSize THEN i - BufSize ELSE i

\* From each header to the one after it; the zero at the end stays.
Skip == [h \in Slots |-> IF buffer[h] = 0 THEN h ELSE Wrap(h + buffer[h] + 1)]

\* The headers from the oldest line on.
Header[n \in 0 .. BufSize] == IF n = 0 THEN head ELSE Skip[Header[n - 1]]

entries == Min({n \in 0 .. BufSize : buffer[Header[n]] = 0})

\* As RoomFor, but without room for the zero.
RoomNoZero(h, size) == IF tail < h THEN size < h - tail
                       ELSE size < BufSize + h - tail

\* There is room for a header, size bytes and the zero when h is the oldest.
RoomFor(h, size) == IF tail < h THEN size < h - tail - 1
                    ELSE size < BufSize + h - tail - 1

\* findfree: where the oldest line that stays begins.
FreeHead(size) ==
  Header[Min({n \in 0 .. entries : n = entries \/ RoomFor(Header[n], size)})]

\* save: the length, the characters and the zero from tail on.
Save(text) ==
  LET size == Len(text)
      h == FreeHead(size)
      Byte(p) == LET k == Wrap(p + BufSize - tail)
                 IN  IF k = 0 THEN size
                     ELSE IF k <= size THEN text[k]
                     ELSE IF k = size + 1 THEN 0
                     ELSE IF p = h /\ buffer[h] = 0 THEN size ELSE buffer[p]
  IN  IF size = 0 \/ size > BufSize - 2 THEN UNCHANGED histVars
      ELSE /\ buffer' = [p \in Slots |-> Byte(p)]
           /\ head' = h
           /\ tail' = Wrap(tail + size + 1)
           /\ index' = 0

\* find: the header num - idx lines from the oldest, or the end of the list.
find(num, idx) ==
  IF num - idx \in 0 .. entries - 1 THEN Header[num - idx] ELSE Header[entries]

\* copybuffer
LineAt(h) == [i \in 1 .. buffer[h] |-> buffer[Wrap(h + i)]]

\* recall: is there such a line, which is it, and what becomes of the index?
Up   == find(entries - 1, index)
Down == find(entries + 1, index)
HasOlder == index <= entries /\ buffer[Up] # 0
Newer == IF index > 0 THEN LineAt(Down) ELSE <<>>
OlderIndex == index + 1
NewerIndex == IF index > 0 THEN index - 1 ELSE index

\* The lines remembered, oldest first.
Lines == [n \in 1 .. entries |-> LineAt(Header[n - 1])]

HistTypeOK == /\ buffer \in [Slots -> 0 .. 255]
              /\ head \in Slots /\ tail \in Slots
              /\ index \in 0 .. BufSize
=============================================================================
