-------------------------------- MODULE Silo --------------------------------
(***************************************************************************)
(* What the silo of the DZ11 promises: characters that wait in the         *)
(* receivers enter a queue, each once and in order, and leave it as they   *)
(* are read; one that comes when the queue is full is dropped.             *)
(***************************************************************************)
EXTENDS Integers, Sequences

CONSTANTS Lines, Data,
          CAP,          \* characters that the silo holds
          NoChar        \* an empty receiver

NoLine == -1        \* lines are numbers

VARIABLES uart,         \* the character in the receiver of a line
          q,            \* the characters in the silo
          got, popping  \* what was read last, and that it is being removed

Init == uart = [l \in Lines |-> NoChar] /\ q = <<>> /\ got = NoChar /\ popping = FALSE

\* The receivers: that of l is emptied, and characters arrive at others.
Receivers(l) ==
  /\ l \in Lines => uart[l] # NoChar /\ uart'[l] = NoChar
  /\ \A k \in Lines \ {l} : uart'[k] \in Data \cup {uart[k]}
  /\ DOMAIN uart' = Lines

\* The queue after the character of l has entered; a full one drops it.
Entered(l) == IF l \in Lines /\ Len(q) < CAP THEN Append(q, <<l, uart[l]>>) ELSE q

Idle(l) == q' = Entered(l) /\ UNCHANGED got /\ popping' = FALSE

\* What is read is the oldest character.
Read(l) == /\ q # <<>> /\ ~popping
           /\ got' = Head(q) /\ q' = Tail(Entered(l)) /\ popping' = TRUE

Clear == /\ uart' = [l \in Lines |-> NoChar] /\ q' = <<>>
         /\ UNCHANGED <<got, popping>>

Next == \/ \E l \in Lines \cup {NoLine} :
             /\ Receivers(l)
             /\ Idle(l) \/ Read(l)
        \/ Clear

Spec == Init /\ [][Next]_<<uart, q, got, popping>>
=============================================================================
