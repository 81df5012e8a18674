------------------------------ MODULE CmdLine ------------------------------
(***************************************************************************)
(* The command line of the console (cmdline.cpp, cursor.hpp): the keys     *)
(* that edit it, the escape sequences of the keypad, the history and what  *)
(* the terminal shows after the prompt.  One step is a key: what the       *)
(* console task prints for it (console.cpp) and process(ch).  Lines that   *)
(* are entered have run when the next key is typed.                        *)
(***************************************************************************)
EXTENDS HistBuf

CONSTANTS LineSize,          \* sizeof(cmdline): 80
          BootLine,          \* "ds unit=2;bt 1", the first line remembered
          Typed,             \* the printable characters that are typed
          TransposeAnywhere  \* ^T is typed at both ends of a line, too

ASSUME CmdLineAssumption ==
  /\ LineSize \in Nat /\ BufSize \in Nat
  /\ LineSize < BufSize /\ LineSize <= 256
  /\ Typed \subseteq 32 .. 126
  /\ BootLine \in Seq(32 .. 126) /\ Len(BootLine) \in 1 .. LineSize - 1
  /\ TransposeAnywhere \in BOOLEAN

VARIABLES state,             \* of the escape sequence
          cmdline, cmdlen,   \* the bytes of the line, and how many count
          curpos,            \* where the code believes the cursor to be
          screen, col        \* the row after the prompt, and the cursor in it,
                             \* as far as the row is known

editVars == <<cmdline, cmdlen, curpos, screen, col>>
vars == <<histVars, state, editVars>>

Cells == 0 .. LineSize - 1
Text == [i \in 1 .. cmdlen |-> cmdline[i - 1]]

\* A row that something else than the line was printed on, or that the cursor is
\* not in any more.  It is not followed: it is right again when a key repaints it.
Garbled == <<0>>

\* IGNORE stands for INS, PGUP and PGDN, which do nothing with a key.
States == {"NONE", "ESC", "ESCBRK", "PFN", "HOME", "END", "IGNORE"}

\* A state that is none of the above: process() does nothing any more.
Unknown == "unknown"

Init == /\ buffer = [p \in Slots |->
                       IF p = 0 THEN Len(BootLine)
                       ELSE IF p <= Len(BootLine) THEN BootLine[p] ELSE 0]
        /\ head = 0 /\ tail = Len(BootLine) + 1 /\ index = 0
        /\ state = "NONE"
        /\ cmdline = [i \in Cells |-> 0] /\ cmdlen = 0
        /\ curpos = 0 /\ screen = <<>> /\ col = 0

-----------------------------------------------------------------------------
(* The terminal.  s is a row, c the cursor's place in it. *)

\* What is printed where the cursor is does not make a garbled row right.
Painted(row) == screen' = IF screen = Garbled THEN Garbled ELSE row

Erased(s, c) == SubSeq(s, 1, c)

Shown(s, c, text) == [i \in 1 .. Max({Len(s), c + Len(text)}) |->
                        IF i - c \in DOMAIN text THEN text[i - c] ELSE s[i]]

\* What is printed of the line from place c up to len: no zeros.
Rest(line, c, len) ==
  LET Put[n \in 0 .. Max({0, len - c})] ==
        IF n = 0 THEN <<>>
        ELSE IF line[c + n - 1] = 0 THEN Put[n - 1]
        ELSE Append(Put[n - 1], line[c + n - 1])
  IN  Put[Max({0, len - c})]

\* update() with the cursor at c: the row that it leaves.
Updated(s, c, line, len) == Shown(Erased(s, c), c, Rest(line, c, len))

\* cursor_t::move(pos) and back(), fwd(): the cursor goes where it is said to.
At(pos) == curpos' = pos /\ col' = pos

-----------------------------------------------------------------------------
(* The operations on the line. *)

MoveTo(pos) == At(pos) /\ UNCHANGED <<cmdline, cmdlen, screen>>
Stay == UNCHANGED editVars

Forward  == IF curpos < cmdlen THEN MoveTo(curpos + 1) ELSE Stay
Backward == IF curpos > 0 THEN MoveTo(curpos - 1) ELSE Stay

\* A character fits; without room for the zero at the end, and with it.
FitsNoZero == cmdlen < LineSize
Fits == cmdlen < LineSize - 1

inschar(ch) ==
  LET line == [i \in Cells |-> IF i = curpos THEN ch
                               ELSE IF i > curpos /\ i <= cmdlen THEN cmdline[i - 1]
                               ELSE cmdline[i]]
  IN  IF Fits
      THEN /\ cmdline' = line /\ cmdlen' = cmdlen + 1
           /\ At(curpos + 1)
           /\ Painted(Updated(Shown(screen, col, <<ch>>), col + 1, line, cmdlen + 1))
      ELSE Stay

\* memmove of what follows place p by one to the left, and a zero at the end.
Closed(p) == [i \in Cells |-> IF i = cmdlen - 1 THEN 0
                              ELSE IF i >= p /\ i < cmdlen THEN cmdline[i + 1]
                              ELSE cmdline[i]]

delchar ==
  IF curpos # cmdlen
  THEN /\ cmdline' = Closed(curpos) /\ cmdlen' = cmdlen - 1
       /\ Painted(Updated(screen, col, cmdline', cmdlen - 1))
       /\ UNCHANGED <<curpos, col>>
  ELSE Stay

Rubout == cmdline' = Closed(curpos - 1) /\ cmdlen' = cmdlen - 1 /\ At(curpos - 1)

backspace == IF curpos > 0
             THEN Rubout /\ Painted(Updated(screen, col - 1, cmdline', cmdlen - 1))
             ELSE Stay

\* As killEnd, without the erasure.
killUnseen == cmdlen' = curpos /\ UNCHANGED <<cmdline, curpos, screen, col>>

killEnd == /\ cmdlen' = curpos /\ Painted(Erased(screen, col))
           /\ UNCHANGED <<cmdline, curpos, col>>

killLine == At(0) /\ cmdlen' = 0 /\ screen' = <<>> /\ UNCHANGED cmdline

redraw == /\ At(cmdlen) /\ screen' = Updated(screen, 0, cmdline, cmdlen)
          /\ UNCHANGED <<cmdline, cmdlen>>

\* The place left of the first character is the variable state.
transpose ==
  IF curpos = 0
  THEN /\ cmdline' = [cmdline EXCEPT ![0] = 0]
       /\ state' = IF cmdline[0] = 0 THEN "NONE" ELSE Unknown
       /\ Painted(<<>>)
       /\ UNCHANGED <<cmdlen, curpos, col>>
  ELSE /\ cmdline' = [cmdline EXCEPT ![curpos] = cmdline[curpos - 1],
                                     ![curpos - 1] = cmdline[curpos]]
       /\ Painted(Updated(screen, col - 1, cmdline', cmdlen))
       /\ UNCHANGED <<state, cmdlen, curpos, col>>

\* The rest of get_hist: text is in the line and on the screen.
Get(text) ==
  LET line == [i \in Cells |-> IF i < Len(text) THEN text[i + 1] ELSE cmdline[i]]
  IN  /\ cmdline' = line /\ cmdlen' = Len(text)
      /\ screen' = Updated(screen, 0, line, Len(text))
      /\ At(Len(text))

getOlder == /\ IF HasOlder THEN Get(LineAt(Up)) /\ index' = OlderIndex
               ELSE Stay /\ UNCHANGED index
            /\ UNCHANGED <<buffer, head, tail>>

getNewer == Get(Newer) /\ index' = NewerIndex /\ UNCHANGED <<buffer, head, tail>>

newline == /\ Save(Text)
           /\ cmdline' = [i \in Cells |-> 0] /\ cmdlen' = 0
           /\ At(0) /\ screen' = <<>>

-----------------------------------------------------------------------------
(* process(ch) in each state of the escape sequence. *)

Plain(ch) ==
  /\ state = "NONE"
  /\ \/ ch = 13 /\ newline /\ UNCHANGED state
     \/ ch = 14 /\ getNewer /\ UNCHANGED state
     \/ ch = 16 /\ getOlder /\ UNCHANGED state
     \/ /\ ch = 20
        /\ TransposeAnywhere \/ (0 < curpos /\ curpos < cmdlen)
        /\ transpose
        /\ UNCHANGED histVars
     \/ ch = 27 /\ state' = "ESC" /\ Stay /\ UNCHANGED histVars
     \/ /\ UNCHANGED <<state, histVars>>
        /\ \/ ch = 1 /\ MoveTo(0)
           \/ ch = 2 /\ Backward
           \/ ch \in {4, 127} /\ delchar
           \/ ch = 5 /\ MoveTo(cmdlen)
           \/ ch = 6 /\ Forward
           \/ ch = 8 /\ backspace
           \/ ch = 11 /\ killEnd
           \/ ch = 12 /\ redraw
           \/ ch = 21 /\ killLine
           \/ ch \in Typed /\ inschar(ch)

\* The characters of escape sequences: [ O A B C D P 1 2 4 ~, and another; 5 and
\* 6 are like 2.
Sequence == {91, 79, 65, 66, 67, 68, 80, 49, 50, 52, 126, 120}

Escape(ch) ==
  /\ state = "ESC"
  /\ state' = CASE ch = 91 -> "ESCBRK" [] ch = 79 -> "PFN" [] OTHER -> "NONE"
  /\ Stay /\ UNCHANGED histVars

Bracket(ch) ==
  /\ state = "ESCBRK"
  /\ state' = CASE ch = 49 -> "HOME" [] ch = 52 -> "END"
                [] ch = 50 -> "IGNORE" [] OTHER -> "NONE"
  /\ \/ ch = 65 /\ getOlder
     \/ ch = 66 /\ getNewer
     \/ ch = 67 /\ Forward /\ UNCHANGED histVars
     \/ ch = 68 /\ Backward /\ UNCHANGED histVars
     \/ ch \notin 65 .. 68 /\ Stay /\ UNCHANGED histVars

\* PF1 prints the history and leaves the cursor on a row below.
Keypad(ch) ==
  /\ state \in {"PFN", "HOME", "END", "IGNORE"}
  /\ state' = "NONE"
  /\ IF state = "HOME" /\ ch = 126 THEN MoveTo(0)
     ELSE IF state = "END" /\ ch = 126 THEN MoveTo(cmdlen)
     ELSE IF state = "PFN" /\ ch = 80
          THEN screen' = Garbled /\ UNCHANGED <<cmdline, cmdlen, curpos, col>>
     ELSE Stay
  /\ UNCHANGED histVars

process(ch) == Plain(ch) \/ (ch \in Sequence /\ (Escape(ch) \/ Bracket(ch) \/ Keypad(ch)))

\* ^C, ^Q and ^S: the console task prints them on the row, ^C with a new prompt,
\* before process() ends an escape sequence or, for ^C, takes a character away, with
\* the cursor in the prompt.
Printed(ch) ==
  /\ state' = IF state = Unknown THEN Unknown ELSE "NONE"
  /\ IF ch = 3 /\ state = "NONE" /\ curpos > 0
     THEN Rubout /\ screen' = Garbled
     ELSE /\ screen' = IF ch = 3 /\ cmdlen = 0 THEN <<>> ELSE Garbled
          /\ UNCHANGED <<cmdline, cmdlen, curpos, col>>
  /\ UNCHANGED histVars

\* The control keys that do something.
Controls == {1, 2, 4, 5, 6, 8, 11, 12, 13, 14, 16, 20, 21, 27, 127}

Next == \/ \E ch \in Typed \cup Controls \cup Sequence : process(ch)
        \/ \E ch \in {3, 17, 19} : Printed(ch)

Spec == Init /\ [][Next]_vars

-----------------------------------------------------------------------------
(* Properties. *)

\* The bytes and positions keep their ranges: in particular the cursor stays
\* in the line and the line keeps room for its final zero.
TypeOK == /\ HistTypeOK
          /\ state \in States
          /\ cmdline \in [Cells -> {0} \cup 32 .. 126]
          /\ cmdlen \in 0 .. LineSize - 1
          /\ curpos \in 0 .. cmdlen

\* What Return would execute ends at no zero byte before its length, and it is what
\* the terminal shows, with the terminal's cursor where the code believes it to be:
\* from each key that repaints the row (Return, ^L, ^U, a line recalled) to the next
\* that prints something else on it (^C, ^Q, ^S, PF1).
ShownIsRun ==
  /\ \A i \in 1 .. cmdlen : Text[i] # 0
  /\ screen # Garbled => screen = Text /\ col = curpos

\* The line and its history do what an editor promises: the bytes, lengths
\* and wrapping positions of hist.cpp are a list of the newest lines that fit,
\* and every key edits, moves, recalls or enters, and nothing else.
Editor == INSTANCE LineEditor
            WITH Chars <- Typed \cup Range(BootLine), MaxLine <- LineSize - 1, Room <- BufSize,
                 line <- Text, cur <- curpos, lines <- Lines, at <- index
Edits == Editor!Spec
=============================================================================
