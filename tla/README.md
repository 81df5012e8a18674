# Verification of the KS10 FPGA

The KS10 FPGA project re-implements DEC's KS10 (DECSYSTEM-2020): a PDP-10
processor, its backplane bus, Unibus adapters and peripherals in Verilog
(`fpga/`), and the console microcontroller that loads, starts, stops and
examines the machine in C++ (`code/`). These TLA+ modules model the parts of it
whose correctness depends on what several parties do at the same time.

## 1. The system

### Parts, their state and how they interact

| Part | Source | State | Talks to |
|---|---|---|---|
| Arbiter | `ks10/arb/arb.v` | none: combinational, console > UBA1..4 > CPU | all bus masters, memory |
| CPU bus interface | `cpu/bus.v`, `vma.v` | VMA and its flags | microcode, arbiter |
| I/O wait states | `cpu/nxd.v` | state machine IDLE, CNT0-9, ACK.., NOACK; BUSY | microcode (CLR IO LATCH, SKIP -IO BUSY), CPU clock |
| Memory wait states | `cpu/nxm.v` | timeout counter | CPU clock |
| Microcode | `cpu/useq/ks10.mcr` | microprogram counter, SC, work registers | everything in the CPU |
| Halt/run flags | `cpu/intf.v` | RUN, CONT, EXEC, HALT | console, microcode |
| Interrupts, APR, timer | `cpu/pi.v`, `apr.v`, `timer.v` | PI levels, APR flags, counters | adapters, console, microcode |
| Pager | `cpu/pager.v` | page table, double buffered | microcode, VMA |
| Console interface | `csl/csl.v` | address, data, instruction and status registers, bus state machine, timer | EPI bus of the microcontroller, backplane |
| Memory controller | `mem/mem.v` | status register, RAM | backplane |
| Unibus adapters | `uba/*.v` | NXD state machine, status, paging RAM, interrupt state | backplane, devices |
| Devices | `dz11`, `lp20`, `lp26`, `rh11`, `dup11` | CSRs, silos, DMA state, drive state machines | adapter, console (configuration) |
| Trace and breakpoint unit | `debug/debug.v`, `utils/fifo.v` | trace and breakpoint state machines, trace memory | CPU, console |
| Console firmware | `code/*.cpp` | configuration, flags, the command task | EPI registers, two interrupt lines |
| Command line | `code/cmdlinelib` | the line, the history, the escape sequence, the terminal's row | console task, command task |
| SD card | `code/sd.cpp`, `fatfslib` | card detected, initialized, type; the FATFS object with its window | polling task, command task, the card |
| Vendored | SafeRTOS, driverlib, lwIP, FatFs | | firmware |

A *bus cycle* is a request that a master holds until it is acknowledged. Only
memory answers in the clock of the request. An adapter answers one clock later
at the earliest, and its acknowledge holds as long as a console or CPU request
is on the bus. The arbiter has no memory: a request of higher priority takes the
bus away in any clock, also in the middle of a CPU cycle, and gives it back some
clocks later. Everything that the CPU does about it (two different wait-state
machines, two kinds of timeout, the loops of the microcode, BUSY) has to work in
every alignment of these events. That is where the source is hard to test and
where this project starts.

### What is hard, part by part, and what makes it correct

* **Bus (arbiter, CPU, console, adapters, memory)**: preemption in any clock;
  timeouts that race late acknowledges; latched acknowledges that outlive their
  cycle; a register write in the clock of a capture. Correct when every access
  reads or writes the unit it addresses, exactly the absent addresses trap, and
  every cycle ends.
* **Run/halt flags and the console firmware**: status register updated by read,
  modify, write while the microcode changes the same flags; interrupt handlers
  that use the bus registers of an interrupted command; halt edges.
  Correct when the KS10 stays halted until it is told to continue, what is read
  and reported is what is there, no character is lost or left lying, and every
  command and handler ends.
* **Trace and breakpoint unit**: a buffer that is filled, emptied and cleared at
  its limits by edges of two strobes; command registers that change during their
  own strobe; wait states between the trace strobe and the instruction. Correct
  when the trace is the sequence of instructions executed, read in order.
* **Interrupts (devices, adapters, priority system, microcode)**: a request is
  granted, vectored, dispatched on and re-armed by four parties that look at it in
  different clocks. Correct when a device gives its request up only to its own
  handler, the vector is that of a device that requests at the level served, the
  levels in progress are those of the running handlers, and everything is served.
* **Command line**: bytes of a line and of a circular history, the cursor that the
  code believes in and the one on the terminal, each updated on its own by every
  key; keys that print on the row without telling the line. Correct when the keys edit
  the line that is shown, what Return runs is what is on the screen, and the history is
  the newest lines that fit.
* **SD card**: a task that polls once a second initializes a card whatever a command
  is doing to it, without a lock; FatFs learns of a change of cards only from that
  task. Correct when no card gets another card's sectors and every card comes up.
* **Adapter status, paging**: status bits set in the clock they are cleared.
* **DZ11**: a silo with simultaneous push and pop, status bits that follow the depth
  by different numbers of clocks, an alarm that counts characters and not the depth.
  Correct when a driver that looks at RDONE reads every character once, in order, and
  is woken when sixteen are there.
* **LP20/RH11/DUP11**: DMA counters at their limits, abort and clear during DMA.

## 2. Plan

| | Module | Composes | State |
|---|---|---|---|
| 1 | `Backplane` | arbiter, CPU bus cycles, console bus state machine, adapters' acknowledge, DMA, memory | done |
| 2 | `BackplaneProofs` | types, no NXM, acknowledges, absent addresses; the timing of an acknowledged cycle and its data; what the console is told and reads | done |
| 3 | `ConsoleIf` | firmware, its handlers, run/halt flags, halt loop | done |
| 4 | `Fifo`, `Debug`; abstract `Recorder` | trace unit, its buffer, the commands TR, BR, CO, instruction fetch | done |
| 5 | `DebugProofs` | types, depth, refinement of `Recorder` | done |
| 6 | `UbaIntr`, `UbaIntrProofs` | interrupt machines of four devices, `ubaintr.v`, `uba.v`, `pi.v`, the microcode that takes interrupts, handlers; types, all safety properties | done |
| 7 | `HistBuf`, `CmdLine`, `CmdLineProofs`; abstract `LineEditor` | `cmdline.cpp`, `cursor.hpp`, `hist.cpp`; types, what is shown, refinement of `LineEditor` | done |
| 8 | `SdCard`, `SdCardProofs` | `sd.cpp`, `diskio.c`, the window and the mounting of `ff.c`; types, both safety properties | done |
| 9 | `DzSilo`, `DzSiloProofs`; abstract `Silo` | `dzrbuf.v` (silo, silo alarm), `dzscan.v`, a driver; types, the alarm, refinement of `Silo` | done |
| 10 | `ConsoleIfProofs`, `ConsoleIfWords` | types, the cause of a halt, when a halt holds; the two words through which characters pass; the word that RDHSB overwrites | done |
| 11 | `UbaStatus`, `Lp20Dma`, `Rh11`, `DupFsm` | status bits set while they are cleared; devices: counters at limits, clear and abort during DMA | later |
| 12 | `Telnet`, `Apr`, `Timer`, `Pager` | two servers on one connection record; flags set while they are cleared; double-buffered page table | later |

`Fifo` is written as a clock function, so that other FIFOs of the design can use it.

## 3. The modules

### Backplane

One step is one rising edge of the CPU clock. Registers are variables, wires are
operators, and `Next` is the conjunction of what every component's registers do
in that clock:

| Conjunct | Models |
|---|---|
| `EpiWrite` | the synchronised write strobes of the console's registers: GO with the cycle to run, or (when `OtherWrites` allows) another register |
| `CslNext`, `CslRegs` | the bus state machine of `csl.v`, its timer, the data register and NXM/NXD |
| `NxdNext`, `NxmNext` | the state machines of `nxd.v` and `nxm.v` |
| `MicroNext` | the microinstructions that start, await and end bus cycles; none when `clken` is low |
| `UbaNext` | `ubanxd.v` of every adapter |
| `DmaNext` | a device that wants a word of memory, now and then |
| `RamNext` | one word of memory |

A bus cycle is `[op, unit, what]`: read or write, the adapter, and what the
address selects (memory, its status register, the console instruction register,
an adapter register, a device register, nothing, WRU, vector). Data are tagged
with who drove them, so that a property can say that the CPU reads *the
register of the unit it addressed*.

Named bounds: `NxdCount` is 9 in the source and 5 here, which is still longer
than the longest contention by one DMA and one console memory cycle;
`CslTimeout` is 511 and 7 here (in `bus_console`, where it must be `NxdCount` + 4 at least,
section 6, `NxdCount` is 3 and `IdleLoop` 3: nothing checked there depends on whether a cycle
of the CPU ends in data or in a fault); `MemTimeout` 15 and 3; `BusyLoop` 128 and 1;
`IdleLoop` 511 and 7, with `DmaGap` as the least distance between two DMA cycles
of one adapter: real devices are hundreds of clocks apart, and if they came every
five clocks the loop IOW3/IOW4 could run out of counts. The CPU starts two memory
cycles back to back and no more. `StrobeTicks` is how long a synchronised strobe
lasts. Software clears NXM/NXD and reads the data register before the next cycle
(`ks10.cpp`), so both are reset when a cycle starts. The timer wraps at twice its
limit, as a 10-bit counter with a limit of 511 does.

### ConsoleIf

The firmware is three threads: the command task (`cmd`), the handler of the
console interrupt (`cons`) and that of the halt interrupt (`halt`); the console
task, which starts commands and obeys control characters, is the actions
`typeLine`, `startNext`, `typeCtrl*`. A thread is the sequence of register
accesses it still has to make, written out per function of `ks10.cpp` (`ReadMem`,
`WriteMem`, `Execute`, `ExecuteAndGetData`, `PutChar`, `GetChar`, `HaltStatus`,
...) and per command (`CommandProgram`). One step is one access (`acc*`), one
routine of the microcode's halt loop (`cpuHalted`, `cpuSetHalt`, `cpuUnhalt`,
`cpuXct`) or one instruction of the KS10's program, which may halt, send a
character or take one.

| Variables | Code |
|---|---|
| `prog`, `cmd`, `con`, `susp` | program counters of the threads; the command task's handle, the console task's wait for it, its suspension |
| `stat`, `val`, `saved` | local variables: status read, data read, `tempData` |
| `running`, `dispatch` | `running` of `commands.cpp`, `dispatchHaltInterrupt` |
| `consPend`, `haltPend` | raw status of the two GPIO edge interrupts |
| `regADDR`, `regDATA`, `regCIR` | `csl.v` |
| `flags`, `halt`, `intr` | RUN, CONT, EXEC, HALT of `intf.v`; the console's interrupt of `apr.v` |
| `cpu`, `t1`, `mem` | microprogram, cause of the halt, words of memory that the console uses |

A write of the status register writes RUN, CONT and EXEC *as they were read*,
which is what makes every command a read-modify-write. Handlers run to completion
and exclude tasks, not the KS10.

Timing the model takes from the hardware, each of which narrows the
interleavings: the halt loop answers CONT within three clocks, before the
firmware's next access (`Urgent`); a memory cycle is over before the first poll of
GO; an interrupt is taken before the next access of the task; a write strobe of
the status register outlasts a wait state of the CPU.

An assumption about the KS10's program, which is not part of the repository: it stores a
communication word and interrupts the console (SEND), or clears its interrupt and the
word (TAKE), in one step of `cpuInstr`. These are two instructions each; a halt or a
console access between the two, after which the character waits until the program goes
on, is not explored.

Commands that are typed while one runs wait in the console task
(`startCommandTask`); while the output loop runs (`running`) what is typed goes to
the KS10 instead.

### Fifo, Recorder, Debug

`Fifo` is `fifo.v`: `FifoStep(clr, rd, wr, in)` is one clock. `Debug` adds the two
state machines of `debug.v` (`TrNext`, `BrNext`), its edge detectors (`fifo_rd` at
the end of the read strobe, `fifo_wr` at the beginning of the load strobe), the
command registers (`CslNext`, loaded *during* the strobe that makes the state
machines look at them), the firmware's commands as sequences of accesses
(`CommandAccesses`, with the loop of TR DUMP in `AfterAccess`), and of the CPU what
is traced: the microinstruction at XCTGO that waits for the instruction and loads
it, NICOND, and RUN. One step is one clock. The address comparator is reduced to
whether an instruction is `Marked`. `recorded` and `traced` are auxiliary variables,
about the instruction in HR: is it in the trace, and was its fetch without a wait state
and the trace on ever since. Nothing reads them but `OneRecord`, which says when the
trace is right (every instruction, once) and that it is wrong only after a wait state:
then the instruction before is recorded a second time (section 5).

`Recorder` is what the unit promises: a log that is cleared while idle, grows only
while recording and while there is room, is read from its oldest entry and is
frozen once done. `Debug` implements it under `phase <- trstate, log <- Words`
where `Words` is what is in the RAM between the pointers.

Assumptions. `StrobeTicks >= 3`: a strobe of the microcontroller's bus lasts
several clocks of the FPGA. With two, the first clock of a TR STOP still shows the
old command and the second may lose against an address match, so that the trace
goes ACTIVE and stays there while it is dumped. Properties and proofs leave out
`PEEK`, the commands that read one entry without having stopped the trace (TR
without argument, TR STAT, RD PC): they read and write the buffer in one clock,
which `fifo.v` (lines 11-12) says is not supported when it is empty or full.

### UbaIntr

One step is one clock: `Devices(e)` is what the devices, the adapters and `pi.v` do
in it, with at most one event `e` of the outside world, `Micro` the microinstruction.
Adapter 1 has the RH11, adapter 3 the DZ11, the LP20 and the DUP11.

| Variables | Code |
|---|---|
| `dz` | `rxstate`, `txstate`, `arbstate`, `rxVECTOR` of `dzintr.v`; RRDY; the transmitter scanner of `dzcsr.v` |
| `lp`, `dup` | the machines of `lpintr.v` and (twice) `dupintr.v`; RXDONE, TXDONE |
| `rh` | `rhIFF`, `lastRDY` of `rhintr.v`; RDY; ATA of `rpds.v` |
| `ie` | the interrupt enables of `dzcsr.v`, the LP20, the DUP11 and `rhcs1.v` |
| `devINTA` | the registered grant of `ubaintr.v` |
| `hwPi`, `hwOn`, `piINTR` | `pi.v` |
| `pi`, `upc`, `lvl`, `unit` | the microcode's PI register, its place, BRX and the unit found by VECINT |
| `bus`, `tick` | the CPU's bus cycle and how long it has lasted |
| `apr` | an enabled flag of `apr.v` is set |
| `stack`, `left`, `fitted` | the handlers started and not dismissed; events that may still come; the sources that there are |

The microinstructions are `uDone`, `uXctgo` (the fetch that fails when `piINTR` is
set), `uPfpi1`, `uPi` (the dispatch, which looks at the requests a second time),
`uPi10` and `uWru`, `uVecint`, `StartHandler` (JSR or XPCW, then PISET), `uLdpi2`.
A handler is the accesses it still has to make, and then JEN; the background enables
and disables interrupts and starts the disk.

Assumptions. A bus cycle of the CPU lasts between two and `BusTicks` clocks and is not
taken away: the composition with `Backplane` is left for later. One source, or one pair
of sources, is fitted on adapter 3 at a time, and the levels of the adapters and the
APR differ (section 5 says what happens otherwise). A handler makes the access that
re-arms its device. The program sets GO only when the operation before has
interrupted. Events, enables and disables together are at most `MaxEvents`.

### LineEditor, HistBuf, CmdLine

`LineEditor` is what the user is promised: a text, a cursor in it, a list of lines of
which the oldest are forgotten when `Room` bytes are used. `CmdLine` is the code: one
step is `process(ch)`, in the state of the escape sequence (`Plain`, `Escape`,
`Bracket`, `Keypad`), with the bytes of `cmdline[]` (those behind the length
included), `cmdlen`, the cursor of `cursor.hpp`, and the row that the terminal shows
after the prompt (`screen`, `col`), which every operation repaints for itself. ^C, ^Q and
^S are printed on the row by the console task, ^C with a new prompt, before `process`
sees them (`Printed`), and PF1 (ESC O P) prints the history: then the row is `Garbled`,
which is not followed until a key repaints it from its beginning (Return, ^L, ^U, a line
recalled), while the line goes on being edited.
`HistBuf` is `hist.cpp`: a circular buffer of bytes, each line behind its length, a
zero at the end; `FreeHead` forgets lines until there is room, `find` walks the lengths
from `head`, `Save` appends. `CmdLine` implements `LineEditor` under
`line <- Text, cur <- curpos, lines <- Lines, at <- index`.

`LineSize` is 80 in the source and 4 here, `BufSize` 128 and 5: a line of two characters makes the
history forget, and lengths, lines and final zero wrap at every place. A line that was
entered has run when the next key comes. ^T is typed between two characters
(`TransposeAnywhere` is FALSE; section 5 says what it does elsewhere).

### SdCard

| Variables | Code |
|---|---|
| `slot`, `card` | the card in the slot and its own state: off, idle, ready, about to send its OCR, sending or receiving a block |
| `lastCardDetect`, `initialized`, `typeSDSC` | `sd.cpp` |
| `fs`, `vol`, `win`, `winsect`, `wflag` | the FATFS object: registered, mounted; whose volume; the window, which sector it is said to hold, and whether it is dirty |
| `pc`, `ctx`, `tgt`, `part`, `kind` | the command: its place, what an access is for, the sector, what is written (the window, its copy in the second FAT, FSInfo), the OCR that it read |

`Poll` is one pass of `sdTask`, with `sdInitialize` and `f_mount` as a whole: the task
has the highest priority and does not block in them. The command is taken apart at
every access to the card: `chk_mounted`, its own `sdInitialize` (`clear` to `setInit`,
with the two responses of CMD58 apart, `CMD58` and `readR3`), reading and writing of a
sector in three parts each. `mount` and `mounted` are the rest of `chk_mounted`: the boot
record may be a table of partitions, whose record is read next, and FSInfo may be read.
`UseWindow` and `synced` are `move_window`, `sync_fs` and the two places that give the
window a sector without reading it (`ff.c:1172`, `ff.c:2622`). A dirty window is written
to its sector, then marked clean, and if it is in the FAT written to the second FAT too,
whatever becomes of that (`WriteFails`); FSInfo likewise. A window knows which sector of
which card it was read from or made for, and as what kind the card was addressed
(`Content`, `Made`). A card that is addressed like one of the other kind has something
else at that place, if it answers (`Legible`), and one that stops sending gives `Junk`.

Assumptions. A card stays in, or out, for longer than the second between two polls,
and out for longer than an access that was using it needs to fail: `Insert` finds the
command before its first access to the card. A suspended command (^S) could be
anywhere. ^C deletes the command anywhere but while it initializes the card or fills the
window (`KillAt`). A card that has become ready answers CMD10 and CMD9. Section 5 says
what happens otherwise. A card before version 2 is refused.

### Silo, DzSilo

`DzSilo` is one clock per step: the scanner empties the receiver of a line into the
silo (`Receive`), depth and pointers (`Pointers`), the RAM and its registered output
(`Ram`), `rbufDVAL`, the alarm counter and SA (`Alarm`), each with the delay that it
has in `dzrbuf.v`. The driver sleeps until RRDY, looks at CSR[RDONE], reads RBUF when
there is a character, and looks again. `Silo` is what it gets: a queue; a full one
drops what arrives. `DzSilo` implements it in every clock but those in which a character
arrives as another is removed (`Collides`): of these `ReadsInOrder` says nothing, and
`Stored`, what the source says of a character that is taken from its receiver, is violated
(`dz_stored`). Overrun, parity and framing bits are left out.

Bounds: two lines of eight, four characters of sixty-four, an alarm at two of sixteen,
with the counter's range twice the alarm as in the source. Assumptions: a character
takes longer to arrive than the scanner takes for all lines; a driver chooses the alarm
before it starts the scanner.

## 4. The runs

| Run | Question | Instance |
|---|---|---|
| `bus_dma` | Do memory and I/O cycles of the CPU keep their data, acknowledges and faults while the console and DMA preempt them? | two adapters, one with DMA; CPU: memory, a register of one, a device and an absent address of the other |
| `bus_wru` | Do the two cycles of a vectored interrupt find the interrupting adapter; is a device read strobed once? | two adapters, both may have the PI level served, no DMA; strobes of two clocks; other console registers are written in any clock |
| `bus_console` | Do console cycles end with the right data or the right report, against CPU and DMA, and does every cycle of every master end? | every kind of console cycle, short timeouts, fairness |
| `con_halt` | Are HA, CO, EM and RD HSB, the halt interrupt and typed characters right against a program that halts when it likes, and do they end? | four commands, TAKE and HALT, fairness |
| `con_cty` | Is every character of the KS10 announced and fetched, also when the command task is deleted (^C) or suspended (^S)? | four commands, two control characters, SEND |
| `con_rmw` (violation) | a read-modify-write of the status register restores RUN and CONT after a halt | |
| `dbg_trace` | Is the trace the log it promises to be, does TR DUMP read it in order and end, do commands take effect? | buffer of two, two instructions, one marked, eight commands, wait states, fairness |
| `intr` | Is every interrupt given to its own handler, with its own vector, nested by level, and dismissed? | levels 1 (RH11), 2 (adapter 3), 3 (APR); DZ11 receiver and transmitter, or LP20, or one side of the DUP11; five events; cycles of two or three clocks |
| `cmd_line` | Do the bytes of line and history, the cursor and the terminal implement an editor, for every sequence of keys? | one character besides the boot line's; lines of three, a history of five bytes |
| `sd_card` | Cards are changed while commands mount, read and write, and the polling task initializes cards under them: does every sector go to the card it came from, does `initialized` mean what it says, does every card come up? | three cards, one of each kind; the boot records of card and partition, FSInfo, a sector of the FAT and one that is not; fairness |
| `dz_silo` | Does the silo give a driver its characters in order, and does the alarm wake it? | two lines, a silo of four, an alarm at two |
| `dz_stored` (violation) | a character that is taken from its receiver as another is removed is not in the silo | a silo of eight |

In `bus_dma` and `bus_wru` the console only uses memory. A console cycle to
an absent adapter holds the bus for the whole console timeout, longer than the
CPU waits for an I/O acknowledge, and the CPU's cycle then faults although its
device is there: `TrapOnlyAbsent` is about operation without such cycles.

Why the bounds are enough. The bus state machines have no memory beyond one
cycle, except the latched states that the properties are about; two adapters give
every priority (console, higher and lower adapter, CPU) and both "the addressed
one" and "another one". Of the console's commands, HA, CO, EM
and RD HSB meet each other and both handlers in `con_halt`, SI, CO, ST and EX in `con_cty`;
SI, ST or EX together with HA, EM or RD HSB occur in no run. Five interrupt events make three
handlers nest and leave two for an interrupt that comes while its device is being
served or re-armed. A buffer of two entries reaches
empty, partly filled, full and wrapped pointers; the proofs cover every size.

Fairness. `bus_console`, `dbg_trace` and `intr` assume `WF_vars(Next)`: the clock does
not stop; in `intr` events are bounded, so that lower levels are not starved. In
`con_halt` the KS10's microcode (`Clock`), the firmware and the start of the next
command are weakly fair; the operator is not, and neither is a halt by
the program, so that HA has to end because RUN is clear and for no other reason.
In `sd_card` the two tasks are
weakly fair, as the scheduler runs both; the operator, who changes cards, types
commands and ^C, is not.
Deadlock is checked except in the `con_*` runs, where the system stops when the
KS10 is halted and the operator types nothing, and in `cmd_line` and `sd_card`, where
it stops when nobody types. `con_halt` has no control
characters: a command that is suspended or deleted need not end; and it leaves
out ST and EX, whose instruction the halt interrupt may replace (section 5), after
which TmpRestored does not hold.

## 5. Disagreements between code and documentation

Shown by a run: `con_rmw` and `dz_stored` (see `findings` in `PROJECT.json` for the lines).

Found while modelling, with no run of their own:

* The microcode starts the WRU cycle and reads its answer in one microinstruction
  (`ks10.mcr:8074`, "WAIT FOR DATA"). After an I/O read that DMA preempted in its last
  clock, `nxd.v` is still in ACKIO2 and does not make the CPU wait: the microcode reads
  zero. With DMA in `bus_wru`, WruReads is violated. So it is when the console takes the bus
  for memory in the first clock of a read of its instruction register (a CIR read, which
  EXECUTE makes): the acknowledge that comes late leaves `nxd.v` in ACKIO2, which nothing
  releases before the next I/O instruction.
* An adapter that was asked for an absent address counts on when the CPU has given up
  (`ubanxd.v`), and does not answer a read of its own registers meanwhile. When DMA has
  delayed its count, a register read that follows at once waits for its end and is then
  given up by `nxd.v` with BUSY set; the late acknowledge finds `nxd.v` in IDLE, nothing
  clears BUSY, and the microcode takes an IO page fault for a register that is there. With
  the source's counts and an absent address at the adapter of the register,
  TrapOnlyAbsent is violated. `bus_dma` has them at different adapters.
* A console interrupt between a command's write of the address register and its read of
  the data register leaves the handler's word there (`ks10.cpp:303`); EM prints it.
* Receiver and transmitter of the DUP11 both take the vector cycle as their acknowledge
  (`dupintr.v:104`): a character that arrives during the transmitter's takes the
  transmitter's interrupt away. With both sides fitted, NoneLost is violated.
* RBUF[DVAL] "is the FIFO Status" (`dzrbuf.v:336-338`), but is taken from the depth
  before the pop (`dzrbuf.v:247-248`, where 131-133 describe the use of the delayed
  strobe): it stays set after the last character, and a driver that reads until it is
  clear, instead of looking at RDONE, gets one character too many.
* "When the FIFO is full, the last character in the FIFO is replaced with the current
  character and the Overrun Error bit (RBUF[OVRE]) is asserted" (`dzrbuf.v:303-304`):
  the current character is written behind the last one, where nobody reads it, and
  OVRE is cleared by the pop before anything is stored with it. `Silo` drops it, as the
  code does; `Stored` is violated by it too.
* A character that arrives in the clock of a pop is taken from its receiver and not
  stored (`dz_stored`), and the pop does not happen (`dzrbuf.v:182-190`): the driver reads
  the same character again.
* ^T at the beginning of a line exchanges its first character with the byte before the
  array, which is `state` (`cmdline.cpp:181`): the console takes no key any more. At
  the end of a line it moves a zero into it, and Return runs what is before the zero.
* ^C, which deletes a running command, is also given to the command line, where it is a
  backspace (`cmdline.cpp:375`): after "ab" and ^C the row after the new prompt is empty, and
  Return runs "a". ^Q and ^S print on the row without moving the cursor that the line
  believes in (`console.cpp:253-262`), and PF1 leaves it rows below
  (`cmdline.cpp:548-556`): what is shown is not what Return runs until ^L, ^U, Return or an
  arrow key repaints the row.
* The command's own `sdInitialize` reads R3 as ones when a poll initializes the same card
  between the R1 of its CMD58 and R3 (`sd.cpp:458-474`), and takes them for those of an
  SDHC card (`sd.cpp:497-503`): an SDSC card is then `initialized` and addressed by
  sectors instead of bytes, until it is changed. `ReadyWhenInitialized` promises the
  opposite case only.
* The copies of the FAT and FSInfo are written without a look at the result, after `wflag`
  and before `fsi_flag` is cleared (`ff.c:746-751`, `ff.c:805`): a write that fails is not
  repeated, and the two FATs differ.
* `sdReadSector` "True if the read was successful" discards the CRC: when the card is
  ejected, or initialized by the polling task, after the start token, it returns ones
  and TRUE.
* A card that refuses CMD10 or CMD9 is left `initialized` although `sdInitialize` returns
  false (`sd.cpp:528`): FatFs is not told of the new card and writes the old one's
  tables to it. So does a command that was suspended with ^S while the card was
  changed.
* ^C while a window is being filled leaves half a sector in it under the number of the
  one before (`ff.c:769`); ^C while the command initializes a card may leave it idle and
  `initialized`.
* The errors of `sdWriteSector` return with the chip selected (`sd.cpp:888`).
* RD HSB and the halt interrupt wait for RDHSB to halt; after the loss of
  `con_rmw` (RUN restored by the GO of a `putchar`) it never does.
* A write of RUN that falls into a wait state of the CPU would be lost
  (`intf.v:102` is gated by `clken`) if its strobe did not outlast it.
* The acknowledge of a console cycle to an adapter outlives it by a clock
  (`ubanxd.v:183`) and answers a CPU cycle that follows at once.
* The acknowledge of a vector cycle is up for as long as the fetch of the handler takes the
  bus (`ubanxd.v:183`): a console cycle that comes then takes it for its own.
* A console read of a device register in a clock in which a device of the same adapter
  asks for DMA gets that device's data (`uba.v:314`); a page or status register wins over
  it (`uba.v:464`).
* A write of any console register in the clock in which a bus cycle is answered
  discards the data (`csl.v:554`).
* A DMA cycle of another device in the middle of a CPU read of the DZ11's RBUF
  pops the silo (`dzrbuf.v:127` pops at the trailing edge).
* The memory status register is acknowledged in the first clock, so `nxd.v:320`
  need not raise BUSY, which the microcode waits for; whether the CPU ever reads
  it with an I/O instruction is up to its program.
* `gpiodIntHandler` (`ks10.cpp:153`) clears the halt interrupt after handling it: a
  change of the HALT line during the handler is not reported.
* ST and EX load the instruction register (`commands.cpp:2645`, `:1678`) that the halt
  interrupt also uses for RDHSB. An interrupt between that and the write of CONT and EXEC
  makes the KS10 execute RDHSB once more, when the word that it overwrites has already been
  restored.
* A line typed while a command is suspended with ^S makes the console task wait
  for a command that only the console task can resume (`commands.cpp:3261`).
* TR writes back the breakpoint command that it read (`ks10.cpp:532`), which arms a
  breakpoint that had gone off.
* A fetch that waits for memory is recorded while it waits, with the instruction
  before it: `regsLOAD` is up in every clock of the wait, HR is loaded in the last
  (`regir.v:122-133`, `debug.v:187-195`). The instruction before is in the trace twice, and
  the one that was waited for is not. `OneRecord` speaks of the fetches without a wait
  state and says that nothing else records an instruction twice.
* A breakpoint that hits in a wait state goes off and does not stop the CPU: its halt
  lasts one clock (`debug.v:163`, 242), and RUN is cleared only in a clock with `clken`
  (`intf.v:102`).
* A completion of the RH11 without attention (a data transfer: `rpctrl.v` clears
  `tmpATA` for it) requests only through `rhIFF`, which the grant clears during the WRU
  cycle (`rhintr.v:113`); in the vector cycle no device of adapter 1 requests, and the
  multiplexer (`uba.v:235-292`) gives a vector of zero. With `xfer` fitted,
  VectorOfRequest is violated.
* The LP20 ignores the grant (`lpintr.v:107`): when the DZ11 requests too, the DZ11's
  vector is read and both withdraw their requests. With both fitted, NoneLost is
  violated.
* An adapter answers the WRU cycle for its level whether it interrupts or not
  (`uba.v:369`): one that shares its level with another, or with the APR, hides it.
* The DZ11's transmitter interrupt is re-armed only by a write of TDR
  (`dzintr.v:154`): after a handler that disabled the line instead there is no other.
* The fourth device of an adapter at INTR 7 gives the third one's data (`uba.v:261`), and UBA1's
  fourth request is wired to its first device (`ks10.v:603`); there is no such device.
* TR, TR STAT and RD PC take an entry out of the trace (`commands.cpp:2779`).

## 6. Proofs

What TLC checks on the instances above, TLAPS proves for every value of the
constants that satisfies the modules' assumptions.

`BackplaneProofs`, for every set of at most four adapters, every value of the
timeouts and every set of cycles:

* `TypeCorrect`: `Spec => []TypeOK`, one lemma per component.
* `NxmNever`: `Spec => []NoNXM`. The counter of `nxm.v` cannot be read off a
  single state: it is loaded in every clock in which a memory request of the CPU
  waits, and counts in the clocks after it. The inductive invariant `NxmInv`
  (`timeout # 0 => timeout = MemTimeout`, and a memory request of the CPU is
  outstanding) relates it to the request: as memory answers in the very clock in
  which the CPU gets the bus back, the counter is either reloaded or cleared and
  never counts down to one.
* `AckedAlways`: `Spec => []AckedByTarget`, if the console uses memory only
  (`ConsoleInMemory`; section 5 says what its cycles to an adapter leave behind). An
  adapter in ACK stays there for as long as the bus is not free, whoever has it.
  `MicroAt` says which cycle is on the bus at each microinstruction: between two I/O cycles
  there are two, IOCLR or CALL and STRTIO, without a request of the CPU. `AckAt` says that
  the console, which could carry an acknowledge across, does not have the bus there
  (`Between`): it has it for one clock, and while the CPU has an I/O cycle it waits.
* `AbsentAlways`: `Spec => AbsentTraps`, under the same hypothesis, with DMA on any
  adapters at any distance and with vectored interrupts. By `AckedAlways` nobody
  acknowledges an absent address; what remains is BUSY, which `nxd.v` clears in the states
  after an acknowledge. `AbsentInv` says that none of them is left over from a cycle
  before: WRU's ends at the CALL that follows (`WruAt`, `AckedAt`: the answer is taken in the
  clock in which it comes, as an adapter begins to answer only after `nxd.v` has begun to
  count), a vector's at the fetch of the handler, and one of an I/O instruction at the
  CLR IO LATCH of the next (`AbsentStart`).
* `TrapsAlways`: `Spec => []TrapOnlyAbsent`, if the system is `Timely`: the console uses
  memory only, at most one adapter does DMA and leaves six clocks between two words
  (`OneDma`; the words of another adapter would add to the wait), `nxd.v` counts to five
  or more and the loop of the microcode at least twice (`LongEnough`; the source has 9 and
  511), with DMA a program does not ask an adapter for absent addresses whose registers it
  uses or that answers WRU (`Apart`; section 5 says what an adapter that counts does
  otherwise), and does not read the memory status register with an I/O instruction
  (`NoStatus`; section 5). `bus_dma` and `bus_wru` are such instances: without DMA any
  adapter may be asked for absent addresses, as `SyncAt` says that an adapter counts such a
  cycle together with `nxd.v` or one clock behind it (`PairStep`), and has ended when the
  microcode takes the fault. The argument has two halves. First, the
  acknowledge comes in time: `AckWithin(u)` bounds the clocks until adapter u has answered by
  what is in its way (a clock of the console, a word of DMA if the device is not quiet for
  long enough, the steps of `ubanxd.v`), never exceeds six and falls in every clock
  (`AckWithinMoves`), while `nxd.v` counts one (`InTime`). Second, the microcode leaves its
  two loops by their proper end: `WaitAt` says what BUSY and `nxd.v` are at each
  microinstruction, and that the loop that waits for BUSY to come is not entered. The one
  that waits for BUSY to go (IOW3, IOW4) keeps a read on the bus while CLR IO LATCH makes
  `nxd.v` forget its acknowledge; when DMA takes the bus in such a clock, the cycle is
  counted as a new one and the loop goes round again. `ReleaseAt` bounds that: either no
  DMA has come yet and the loop is in its first round, or DMA has been served and is quiet
  for the at most six clocks (`Clocks`) and three rounds (`Passes`) that remain
  (`ClocksLess`, `PassesLess`, over the transitions listed in `Follows`).
* `ReadsAlways`: `Spec => CpuReads`, and `WritesAlways`: `Spec => CpuWrites`, for `Timely`
  systems. `CycleAt` says that in the last microinstruction the cycle of the instruction is
  on the bus, and that the vector is asked of the adapter that WRU named. What makes the
  data right is that the clock is enabled by the acknowledge only (`UnitClock`), which holds
  as long as `nxd.v` is in IDLE or CNT: `AnswerAt` says so of the reads, with ACKWRU
  as what stands between the WRU cycle and the vector's and is released by the STRTIO of
  the second. Then only the addressed adapter acknowledges (`AckAt`), and its
  multiplexer has no request of its own (`UnitData`).
* `WruAlways`: `Spec => WruReads`, for `Timely` systems without DMA and without CIR reads
  (section 5 says what either does). When `nxd.v` is in IDLE or CNT at the WRU cycle the clock
  waits for the acknowledge, which all adapters of the level give in the same clock (`PiAt`),
  and the arbiter takes the lowest. `HeldAt` says that it is: what an I/O instruction leaves
  in `nxd.v` is released within its own wait, because the adapter holds its acknowledge from
  IOW1 to the last microinstruction of a read, and the loop is gone through once.
* `PopsOnce`: `Spec => PopOnce`, for `Timely` systems without DMA, which may pop a silo
  twice (section 5). A read of a device stays on the bus through its wait, because the
  console waits for it and IOW5 is not for it, and leaves it in its last microinstruction.

For the console, with DMA on any adapters at any distance:

* `ReportsAlways`: `Spec => CslReports`, for a console that is `ConsoleAlone`: firmware that
  writes no other register during a cycle and reads the console's instruction register only
  from `regCIR` (`csl.v:554`; section 5 says what such a write discards), no
  vectored interrupts (the acknowledge of a vector cycle is still up when a console cycle
  follows at once, section 5), and a timer that outlasts the count of an adapter asked for an
  absent address (511 against 9 in the source; `CslTimeout >= NxdCount + 4`). The
  console takes the acknowledge of whoever gives one, so the invariant says of every unit
  that could. The console starts when the CPU has no I/O cycle on the bus (`cslSeesIO`). The
  acknowledge of its own cycle before may be kept up by memory cycles of the CPU that
  follow at once, but those have ended (`MicroLeft`, at most three clocks, over the cycles in
  `MemoryAt`) before the state machine has the next one on the bus (`Distance`, at least four
  clocks); `LeftAt` is the invariant. The timer starts with the cycle (`PlaceAt`), which has
  the bus before DMA and the CPU: memory answers at once, an adapter within the `Remaining`
  clocks, which include the count for an absent address that a CPU cycle before may have
  begun, and `TimerAt` says that the timer and they never exceed `NxdCount` + 3.
* `CompletesAlways`: `Spec => CslCompletes`, if also the console reads no device behind an
  adapter that does DMA (`DevicesApart`), because the request of the device takes
  the multiplexer (section 5).

`DebugProofs`, for every size of the buffer, every set of instructions, every
strobe of three clocks or more and all commands but PEEK:

* `TypeCorrect`: `Spec => []TypeOK`.
* `DepthCorrect`: `Spec => []DepthOK`. Depth and pointers part exactly when the
  buffer is read and written in one clock at a limit (lemma `FifoDepth`). That no
  such clock exists is a fact about the firmware, not the FIFO: `IInv` says that the
  accesses left are those of a command (`todo \in Todos`), that while TR DUMP's STOP
  is strobed the trace leaves ARMED with the second clock and ACTIVE with the
  third (the conjuncts about `Stopping` and `ticks`), and hence that reading happens
  only when the trace is off (`Reading => Off`, `rdLast => Off`), when nothing is
  written.
* `ImplementsRecorder`: `Spec => Records`, the refinement of `Recorder`. Lemmas
  `FifoAppend` and `FifoTail` say what a write and a read do to `Words` for pointers
  that wrap at any place.
* `ReadsCorrect`: `Spec => []ReadsOldest`, `RecordedOnce`: `Spec => []OneRecord`, and
  `CommandsCorrect`: `Spec => []CommandsTake`, from a second invariant, `CInv`, about
  the clocks of a strobe: which command the unit sees in each of them, and which edges
  have been taken, and what is in the trace of the instruction in HR (a load that is not a
  wait state's records it, if the trace is on). The strobe of three clocks is needed: the unit looks at its command
  register a clock late, and moves the pointer a clock after that.

`ConsoleIfProofs`, for all commands, all control characters and all programs unless the
theorem says otherwise:

* `TypeCorrect`: `Spec => []TypeOK`. The programs of the threads are sequences of `Accs`,
  the accesses with the arguments that their names call for: what `accAddr` puts into
  the address register is a word only because no other access is called "addr".
* `CauseCorrect`: `Spec => HaltCause`. `HandlerInv` says where in its program a
  handler is (`GetPc`, `HaltPc`) and that from its first access to its last the
  address register holds the word it has addressed: tasks do not run, and a handler is
  not interrupted. `CauseInv` adds that the KS10 stays in its halt loop while the
  handler reads the status word, because nothing in the flags that the handler writes
  back sets CONT, and that the microcode writes that word before it tells the console.
* `HaltHoldsAwaited`: `Spec => HaltHolds`, if the program of the KS10 executes no HALT and
  the operator types neither SI, EX nor ^C. `con_rmw` shows that `HaltHolds` fails when
  a KS10 that executes a HALT meets a handler's read and write of the status register; the
  theorem says what keeps it true otherwise. `ProgramInv` is the order of every program:
  a write of the status register follows the read of it, one that sets RUN sets CONT too,
  and one that clears RUN or sets CONT alone is followed by the wait for the halt
  (`Part` is closed under joining programs, `TailOrdered` under going on in one). `HoldInv`
  then says that a KS10 with RUN clear that is not in its halt loop has a thread that
  waits for it (`Awaited`), so that no thread changes RUN between the read and the write
  of another (`Agreed`), and that a handler which writes back a CONT without RUN has
  interrupted such a wait (`Stray`). No hypothesis can be dropped, TLC finds a counterexample
  without each: HALT halts a KS10 that nobody waits for, SI and EX do not wait, and ^C
  ends a wait.

`ConsoleIfWords`, on the same invariants, for the words of memory that the two sides share:

* `OutNotifiedAlways`: `Spec => []OutNotified`, and `OutFetchedAlways`:
  `Spec => OutFetched`, if the operator does not type to the program (`~Typed`). `OutInv`
  follows the character from the word to the data register and to the handler's
  variable, and says that it is nowhere else. The hypothesis is the code's: `putchar`
  writes a character through the register pair that the handler of the console interrupt
  uses, and between the two the handler leaves the address of the output word there.
* `InNotifiedAlways`: `Spec => []InNotified`, if the operator does not type ^C. `InInv`
  says of the rest of the command's program that whoever addresses the input word goes
  straight on to interrupt the KS10 (`Soon`), and that a program that has not done so
  starts no bus cycle before it has addressed a word of its own (`GoSafe`), so that the
  address which an interrupted or finished command leaves behind does no harm. ^C
  between the write and the interrupt leaves a character without one.
* `TmpRestoredAlways`: `Spec => []TmpRestored`, if the operator types
  neither ST nor EX, and no ^C where RD HSB is one of the commands: ST and EX execute what
  the handler left in the instruction register (section 5), ^C deletes RD HSB before it has
  restored the word, and TLC finds both. The property speaks of the time when nobody uses
  the word; `TmpInv` says what holds at each access of the two threads that use it. The
  handler and RD HSB make the same accesses, so they have one description (`HeldAt`): the
  KS10 stays in its halt loop until CONT and EXEC are written, the word's value goes from
  memory to `regDATA`, to the thread's variable and back, and the KS10 executes an
  instruction only between the fourteenth access and the wait for HALT. RD HSB runs in a
  task, and is right because no interrupt comes while it is elsewhere (`Undisturbed`): the
  halted KS10 sends nothing, the halt interrupt that RDHSB itself causes finds
  `dispatchHaltInterrupt` clear and does nothing, and a character sent just before the
  halt is fetched during the wait, through the registers that RD HSB has yet to load. When
  nobody is in those accesses (`Resting`) the address of the word may still be in
  `regADDR`; no other command starts a bus cycle before it has loaded its own
  (`GoSafe`) or executes an instruction (`Keeps`).

`UbaIntrProofs`, for every assignment of levels to the adapters and the processor, every set
of sources, every number of events and every length of a bus cycle, within the hypotheses
that each theorem names:

* `TypeCorrect`: `Spec => []TypeOK`, `RequestsStand`: `Spec => []RequestStands`, and
  `NestedAlways`: `Spec => []Nested`, if the processor does not interrupt at the high
  level of adapter 3 (`AprAlone`). They need each other and are one invariant, `IntrInv`.
  A request stands from the fetch that fails to the dispatch (`Stand`) because a machine
  withdraws its request only with the grant or the end of a vector cycle, or as the handler
  of its own level begins (`ArbAt`, `LinesAt`): no bus cycle runs in those clocks
  (`BusAt`), and what the beginning of a handler releases is at a level in progress, which
  does not interrupt. A level that is
  dispatched on goes before all that are in progress (`PiAt`, `Ordered`), so that each
  handler leaves room for the levels before it (`Room`) and the stack has at most
  seven. Without the hypothesis the microcode asks adapter 3 for the vector of a device
  that did not request at that level, and the DZ11's arbiter, taken on by it, withdraws a
  request for which nothing has been started. The levels may otherwise be shared.
* `NoneIsLost`: `Spec => []NoneLost`, if the adapters and the processor have levels of
  their own (`LevelsApart`) and one device, or the DZ11's pair, requests on adapter 3
  (`OneFitted`). Section 5 says what the code does otherwise: an adapter hides
  another at its level, the LP20 ignores the grant. `ReqInv` follows the request: the
  level of adapter 3 is taken for a device that requests (`Asked3`), the grant reaches
  it in the second clock of the WRU cycle and commits the DZ11's arbiter to the side that
  requests (`Commits`, `Committed`), although the other side may come up in any clock.
  `ServeInv` follows the handler: it makes the accesses of its device only (`Todo`),
  it has been started when the request goes (`Starts`), and a machine that waits for the
  access that re-arms it has a handler that will make it (`Waits`).
* `VectorsRight`: `Spec => VectorOfRequest`, if also no disk transfer completes
  (`NoTransfer`), whose request the grant clears before the vector is read (section 5).
  `RhInv` adds the RH11: while its level is taken an attention stands that only
  its handler clears.

`SdCardProofs`, for all cards of all kinds and all sectors, with a command that ^C may
delete anywhere but where `KillAssumption` says:

* `TypeCorrect`: `Spec => []TypeOK`.
* `ReadyCorrect`: `Spec => []ReadyWhenInitialized`, and `WritesCorrect`:
  `Spec => WritesBelong`. Neither is inductive, as the polling task and the command set
  the same three variables. `CardInv` says what the command knows of the card between
  two of its accesses: a card that is replaced is off, and answers nothing from CMD8 on,
  and what is read as the OCR is that of the card in the slot, or ones when a poll has used
  the card since CMD58: only then `kind` may be wrong, and it is not "SDSC".
  `InitInv` says what `initialized` means before the poll has seen the card, too. `KindInv`
  is what keeps a window from being read as of one kind and written as of the other: a
  command that has got as far as using a card which no poll has seen knows its kind, so
  that the poll, which sets `typeSDSC` once more, does not change it. `PlaceInv` says where
  the window belongs to the volume: while it is being filled from the boot record, the
  volume is unknown (`fs = "no"`). `PartInv` says of what is written that a dirty window
  is some sector's, that what goes to the second FAT is a window that has been written to
  the first, and that FSInfo was made for its own sector. `VolumeInv` says why the volume
  is that of the card in the slot: a card that comes in while the poll has not seen it
  finds `initialized` clear where it would matter, and when it is set, `f_mount` or
  `chk_mounted` has made the volume unknown.

`DzSiloProofs`, for any number of lines, any characters, any size of the silo
and any alarm level:

* `TypeCorrect`: `Spec => []TypeOK`.
* `AlarmCorrect`: `Spec => []AlarmStands`. The alarm counter is cleared by every read and
  counts what is dropped, so it is not the depth. `AlarmInv` says that it is no less than
  the depth while the driver sleeps, because a driver goes to sleep only on an
  empty silo (`ReadCsr`), and that it does not pass the alarm level unnoticed.
* `InOrder`: `Spec => ReadsInOrder`, the refinement of `Silo`. `SiloInv` relates the
  delayed registers to what they are a delay of: `rbufDVAL` may be late only in the clock
  after a write (`wr_dly`), and has caught up, as the RAM's output has, when a driver that
  saw RDONE begins to read. Lemmas `Push`, `Pop` and `Keep` say what a clock does to the
  words between the pointers; `Refines` says which step of `Silo` a clock is, but for that
  in which a character arrives as another is removed.

`CmdLineProofs`, for any line of at most 256 bytes that is shorter than the buffer, any
printable characters and any first line that fits, when ^T is typed between two characters
(`TransposeAnywhere = FALSE`; section 5 says what it does elsewhere):

* `TypeCorrect`: `Spec => []TypeOK`, and `ShownAlways`: `Spec => []ShownIsRun`. A byte
  of the line may be zero behind its end only (`LineOK`), and every `update` prints the bytes
  from its place on and leaves out zeros (`RestIs`, `UpdatedShows`); lemmas `insertOK` to
  `newlineOK` say of each operation what it leaves on a row that is known, `GarbledOK` and
  `PaintedOK` that one which is not stays so until it is repainted. A line that is recalled
  is text because of the history's invariant, which is the hard part.
* `ImplementsEditor`: `Spec => Edits`, the refinement of `LineEditor`. Nothing but the
  lengths says where a line of the history begins, so the invariant has to speak of the
  slots that are headers without walking through them: `Linked` is that some set of slots is
  a `Chain`, which has `head` and `tail` in it, and of every other member that it holds a
  length, that the slot behind its line is the next member, and that the line ends
  before `tail`. `SaveChain` shows that a chain without the lines forgotten and with the new
  one is a chain of the buffer that `save` leaves, at every place where it may wrap;
  `HeadersStep` and `HeadersUp` that `Header` numbers its members in the order of their
  distance from `head`; `SaveHeaders` that the lines kept are those that were there; and `SaveNewest` that `findfree` forgets no line that
  could have stayed, which it decides from positions and `LineEditor` from the sum of the
  lengths. `index` is 0 or no more than the number of lines, so that what the arrow keys
  find is the line that many entries back.

The headers, what `update` prints and the sum of the lengths are recursive functions. The
library's induction theorems cannot be used (they take a predicate as a parameter), and
these proofs do without them: a set of counterexamples, if it is not empty, has a
least element (`LeastNat`, from `WFMin` of the library's theory of well-founded relations),
and the definition's own equation, taken at that number, refutes it.

The types of `Backplane`, `Debug`, `SdCard` and `DzSilo` are proved only, not checked by a
run as well; those of `CmdLine`, `ConsoleIf` and `UbaIntr` both.

Only model-checked: the liveness properties, `CpuEnds` and `CslEnds` of `Backplane`, `HaEnds`
and `HandlersEnd` of `ConsoleIf`, `CommandsEnd` of `Debug`, `Settles` of `UbaIntr` and
`CardComesUp` of `SdCard`. Liveness under fairness and ENABLED are out of TLAPS's reach.
`HaltHolds` does not hold for all programs (section 5);
`HaltHoldsAwaited` says for which it does.

## 7. Not modelled

The data path, the instruction set (2048 words of microcode), the bit-serial
UARTs, vendored code, start-up and the peripherals of the plan's later modules;
`PROJECT.json` lists each part with its reason.

Most of the repository's C is vendored: driverlib (register names and drivers of the
microcontroller), lwIP with its SNMP tables, SafeRTOS, FatFs. It is modelled where the
firmware's correctness depends on it (FatFs' window and mounting, the scheduler's
priorities), and otherwise used as a service. The state machines of the machine itself
are in Verilog.
