----------------------------- MODULE LineEditor -----------------------------
(***************************************************************************)
(* What the console's command line promises its user: a line of text with  *)
(* a cursor, and a list of the lines entered before, of which the oldest   *)
(* are forgotten when they do not fit into Room bytes any more.            *)
(***************************************************************************)
EXTENDS Integers, Sequences

CONSTANTS Chars,     \* the printable characters
          MaxLine,   \* the longest line
          Room       \* bytes for the lines remembered: one more than the
                     \* characters for each, and one at the end

VARIABLES line,      \* the text being edited
          cur,       \* how many characters are left of the cursor
          lines,     \* the lines remembered, oldest first
          at         \* how many lines back the user has gone

vars == <<line, cur, lines, at>>

Init == line = <<>> /\ cur = 0 /\ at = 0 /\ lines \in Seq(Seq(Chars))

Before == SubSeq(line, 1, cur)
After  == SubSeq(line, cur + 1, Len(line))

\* The lines of ls from the k-th on fit into the room that there is.
Fits(ls, k) ==
  LET Bytes[i \in 0 .. Len(ls)] ==
        IF i = 0 THEN 0 ELSE Bytes[i - 1] + Len(ls[i]) + 1
  IN  1 + Bytes[Len(ls)] - Bytes[k - 1] <= Room

\* kept is all without as few of the oldest lines as possible.
Newest(all, kept) ==
  \E k \in 1 .. Len(all) : /\ kept = SubSeq(all, k, Len(all))
                           /\ Fits(all, k)
                           /\ k > 1 => ~Fits(all, k - 1)

Move == cur' \in 0 .. Len(line) /\ UNCHANGED <<line, lines, at>>

Insert == /\ Len(line) < MaxLine
          /\ \E c \in Chars : line' = Before \o <<c>> \o After
          /\ cur' = cur + 1
          /\ UNCHANGED <<lines, at>>

Delete == /\ cur < Len(line)
          /\ line' = Before \o Tail(After)
          /\ UNCHANGED <<cur, lines, at>>

Backspace == /\ cur > 0
             /\ line' = SubSeq(line, 1, cur - 1) \o After
             /\ cur' = cur - 1
             /\ UNCHANGED <<lines, at>>

KillEnd == line' = Before /\ UNCHANGED <<cur, lines, at>>

KillLine == line' = <<>> /\ cur' = 0 /\ UNCHANGED <<lines, at>>

Transpose == /\ cur \in 1 .. Len(line) - 1
             /\ line' = [line EXCEPT ![cur] = line[cur + 1], ![cur + 1] = line[cur]]
             /\ UNCHANGED <<cur, lines, at>>

Enter == /\ line' = <<>> /\ cur' = 0
         /\ IF line = <<>> THEN UNCHANGED <<lines, at>>
            ELSE Newest(Append(lines, line), lines') /\ at' = 0

\* The line that is n lines back; none back is a line not yet typed.
Back(n) == IF n = 0 THEN <<>> ELSE lines[Len(lines) + 1 - n]

Show(n) == line' = Back(n) /\ cur' = Len(Back(n)) /\ at' = n /\ UNCHANGED lines

Older == at < Len(lines) /\ Show(at + 1)
Newer == Show(IF at = 0 THEN 0 ELSE at - 1)

Next == \/ Move \/ Insert \/ Delete \/ Backspace \/ KillEnd \/ KillLine
        \/ Transpose \/ Enter \/ Older \/ Newer

Spec == Init /\ [][Next]_vars
=============================================================================
