------------------------------ MODULE Recorder ------------------------------
(***************************************************************************)
(* What the trace unit promises, without pointers, counters and edges: a   *)
(* log of instructions that is cleared while the unit is idle, grows only  *)
(* while it records and has room, is read from its oldest entry, and is    *)
(* frozen once recording is done.                                          *)
(***************************************************************************)
EXTENDS Integers, Sequences

CONSTANTS Capacity, Insns
VARIABLES phase, log

\* Recording ends when the log is full or by a command; only a reset leaves
\* the end.
Moves == {<<"IDLE", "ARMED">>, <<"IDLE", "ACTIVE">>, <<"ARMED", "ACTIVE">>, <<"ARMED", "DONE">>,
          <<"ACTIVE", "DONE">>} \cup {<<p, "IDLE">> : p \in {"ARMED", "ACTIVE", "DONE"}}

Grow   == /\ phase = "ACTIVE" /\ Len(log) < Capacity
          /\ \E i \in Insns : log' = Append(log, i)
Shrink == log # <<>> /\ log' = Tail(log)
Clear  == phase = "IDLE" /\ log' = <<>>

Init == phase = "IDLE" /\ log = <<>>
Next == /\ Grow \/ Shrink \/ Clear \/ UNCHANGED log
        /\ <<phase, phase'>> \in Moves \/ UNCHANGED phase
Spec == Init /\ [][Next]_<<phase, log>>
=============================================================================
