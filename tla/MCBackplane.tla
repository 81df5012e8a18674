---------------------------- MODULE MCBackplane ----------------------------
(***************************************************************************)
(* Constants of the model-checking runs of Backplane: which bus cycles the *)
(* CPU's program and the console start in each run.                        *)
(***************************************************************************)
EXTENDS Backplane

IO(ops, u, what) == {[op |-> o, unit |-> u, what |-> what] : o \in ops}
Both == {"rd", "wr"}
RamCycles == {Ram("rd"), Ram("wr")}

\* The CPU: memory, a register of adapter 1, a device behind adapter 2, an
\* address of adapter 2 that nobody decodes.
CpuIO == RamCycles \cup IO(Both, 1, "REG") \cup IO({"rd"}, 2, "DEV") \cup IO({"rd"}, 2, "NXD")
\* The same with vectored interrupts; memory, a register and the console
\* instruction register.
CpuWru == CpuIO \cup {Wru}
CpuSmall == RamCycles \cup IO({"rd"}, 1, "REG") \cup IO({"rd"}, 0, "CIR")

\* The console: memory, both kinds of registers, an absent address, and the
\* memory status register.
CslIO == {Ram("wr")} \cup IO({"rd"}, 1, "REG") \cup IO(Both, 1, "DEV") \cup IO({"rd"}, 2, "NXD")
         \cup IO({"rd"}, 0, "MSR")

\* Only a write, for the runs that are about the CPU.
CslWrites == {Ram("wr")}

\* The console may be writing one of its other registers in any clock.
AnyClock == BOOLEAN
=============================================================================
