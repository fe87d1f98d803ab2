# inmojomni in TLA+

Models, model-checking runs and machine-checked proofs for this repository: the bare-metal
Mojo SDK for the RP2040 and the RP2350 (`src/pico`), its runtime, its test and benchmark
firmwares, and the host tools that drive the boards.

- [1. The system](#1-the-system)
- [2. Modules](#2-modules)
- [3. Runs](#3-runs)
- [4. Fairness](#4-fairness)
- [5. Proofs](#5-proofs)
- [6. Findings and observations](#6-findings-and-observations)
- [7. What is not modelled](#7-what-is-not-modelled)
- [8. Plan](#8-plan)

A run is `tlc -config X.cfg M` inside this directory, a proof `tlapm M.tla`. `PROJECT.json`
lists components, runs, hazards, theorems, for each modelled definition the source lines it
stands for, and for each checked property a deviation of the model (an operator such as
`Put_PublishesEach`, defined just before the one it replaces) under which TLC finds the
property violated. The deviations are used nowhere in the specifications.

## 1. The system

The SDK is single-threaded code over memory-mapped registers. What makes it hard is not
the code of one core but who else touches the same words: the second core, interrupt
handlers, the PIO state machines, the hardware timer, a debugger that reads RAM while the
firmware runs, a host that polls, and what an earlier boot left in RAM or flash.

| Component | State | Operations | Interacts with | Hard because | Correct when |
| --- | --- | --- | --- | --- | --- |
| RTT logger, `src/pico/rtt.mojo` | control block and byte ring in RAM, WrOff/RdOff | `init`, `write`, `write_u32`, `write_hex` | debugger (`tools/rtt_rp2350.mojo`) reading and writing RAM at any time | no lock; RdOff stale while copying; RAM survives a reset | host receives whole messages in order; write never blocks; a found block is complete |
| Core 1 launch, `src/pico/multicore.mojo` | two FIFOs, power state of core 1 | `launch`, `fifo_push/pop`, `_fifo_drain`, `_reset_core1`, `halt_core1` | bootrom on core 1, its application | late echoes, stale words, wfe/sev wake-up, bounded retries | True only if core 1 runs the right entry; returns; no handshake word left |
| Spinlocks, `src/pico/sync.mojo` | claim bit | `acquire`, `release` (`try_acquire`, `is_locked`) | both cores | no queue, no owner | exclusion; no lost update; both get through |
| Time, `src/pico/time.mojo` | 32-bit counter, ALARM0, INTR | `sleep_us`, `sleep_ms`, `alarm0_arm`, `alarm0_ack` | hardware counter, handler | wrap-around, overflow, counter read before alarm stored | waits never short; alarm not missed; each alarm counted once |
| Result mailbox of the RP2350, `tools/bench_rp2350.mojo`, `runtime/crt0_rv32.S` | mailbox in SRAM, flash sector, BOOTSEL drive | copy, boot, measure, commit, reboot, read | host polls, bootrom, core 1 | no probe: the only signals are a drive that comes and goes; flash keeps old pages; XIP off during the commit | results are complete, of the right firmware and fresh; core 1 stopped; session ends |
| HIL orchestrator, `tools/run_tests.py`, `tools/hil.py` | stage, failures, mailbox in RAM | flash, reset, poll, read results and heartbeat, later stages | probe, on-target suite | RAM keeps the verdict of the last run; probe commands fail | green means this run passed; red means something went wrong; terminates |
| PIO assembler, `src/pico/pio.mojo` | words, fix-ups, labels, side-set division | one call per instruction, `future`, `bind`, `label`, `side_set` | `load` | forward labels patched later; five bits shared by delay and side-set | jumps go home; `unresolved` exact; fields decode |
| PIO state machines, `src/pico/pio.mojo` | instruction memory, PINCTRL, EXECCTRL, enable bits, PCs | `load`, pin setters, `enable`, `disable`, FIFO put/get | firmware and up to four machines of a block | one memory for all machines; nothing resets the PC | a machine runs its own program |
| Interrupt latency firmware, `bench/irq_latency.mojo`, `.c` | pins, event latch, counter, PIO, RX FIFO, mailbox | pulse, spin, pop, account; handler; PIO loop | handler and PIO run concurrently with the main loop | three unsynchronised actors share two pins | each sample belongs to its pulse; statistics are those of the samples |
| Latency host, `tools/irq_latency.mojo` | results of six variants | flash, poll, gate, recompute, report | probe, firmware | variants share a language id; mailbox survives | result of the right variant; raises only for cause; ends |
| DAP client, `tools/dap_client.py` | sequence numbers, queued events | request, wait for response, wait for event | probe-rs DAP server | events overtake responses | no stale event taken for a new one |
| GPIO and events, `gpio.mojo`, `pins.mojo` | pads, outputs, event latches | set, clear, toggle, drive, pulls, events | other core, handlers | two-register updates | aliases make single updates atomic |
| Clocks, board, reset, `clocks.mojo`, `board.mojo` | crystal, two multiplexers, PLL, resets, frequency counter | `init`, `sys_clock_125mhz`, `sys_clock_12mhz`, `measure_khz` | every peripheral | runs on the clock it switches; finds what an earlier program left | never clocked by a stopped source; the frequency asked for |
| Interrupt controllers, `irq.mojo`, `xh3irq.mojo`, `crt0_rv32.S` | enable and pending bits | enable, disable, clear_pending, dispatch | handlers | level-sensitive sources, nested claims | each interrupt dispatched once |
| UART, PWM, ADC | peripheral registers | polled | pins | full and empty FIFOs | nothing dropped |
| Second-stage bootloader, `runtime/boot2` | SSI, pads, VTOR; the flash's status registers | pads, SSI set-up, quad enable, first quad read, XIP | bootrom or caller, SSI, flash part | three clocks; a status write that a reset can cut; a FIFO that must be kept in step | flash and SSI agree on continuous quad reads after every boot; status registers written only when register 2 is not as wanted |
| RP2040 benchmark, `bench/bench.c` (and `.mojo`, `.rs`), `tools/bench.mojo` | mailbox, scratch buffers, timer; accepted results | nine kernels, three runs; flash, sleep, poll, reduce, compare | probe polls while kernels run | RAM outlives firmwares; polls inflate times; 32-bit wrap | checksums those of the mathematics; times undisturbed; complaints for cause; ends |
| Register maps, startup code, linker scripts | none | none | all | none | constants right |
| Build pipeline, `tools/build.mojo`, `retarget.mojo`, `check_elf.mojo`, ... | files | text to text | external compilers | none | output well-formed |
| Feature and peripheral suites, debug session, demos | mailbox | single-shot tests | as above | same protocol as the mailbox components | as above |

The firmware components share nothing but the hardware: `launch` uses the FIFOs that
the application uses afterwards; the contention test composes `launch`, a spinlock and
shared RAM; the commit of the result mailbox needs `halt_core1`; the latency firmware
composes GPIO events, the interrupt controller, `sleep_us` and a PIO program that the
assembler made; the orchestrator needs the RTT block that the suite leaves behind.
`PROJECT.json` lists each component with its status and every hazard at its line.

## 2. Modules

| Module | Models | Built on |
| --- | --- | --- |
| `RttChannel` | abstract: a bounded FIFO of bytes, whole messages in, single bytes out, emptied by a restart | |
| `Rtt` | `rtt.mojo` and the debugger, access by access | `RttChannel` (refinement) |
| `RttProofs` | theorems about `Rtt`, the refinement included | `Rtt` |
| `CoreLaunch` | `launch()` against the bootrom | |
| `AtomicCounter` | abstract: each core adds its share, no increment is lost | |
| `SpinCounter` | the spinlock contention test; takes from `CoreLaunch` that `launch` returning True means core 1 runs its entry, and that False may mean anything | `AtomicCounter` (refinement) |
| `MulticoreProofs` | theorems about `CoreLaunch` and about `SpinCounter` | both |
| `Timer`, `TimerProofs` | delays, FIFO timeouts of RISC-V and ALARM0 with its handler over a wrapping counter | |
| `FlashMailbox` | host, bootrom, firmware, flash commit, over several sessions | |
| `HilRun`, `HilRunProofs` | the hardware stages of `pixi run test` and the suite on the board | |
| `PioAsm` | the assembler | |
| `PioMachine` | `load`, the setters, enable/disable, and a machine that executes what the assembler made | `PioAsm` (composition), `Words` |
| `PioMachineProofs` | theorems about the assembler and the machine | `PioMachine` |
| `Words` | 32-bit words as sets of bits: shifts, sums, products, bit fields | |
| `QspiRegisters` | the registers of `hardware/regs` the bootloader writes, as layouts of bit fields with their reset values | `Words` |
| `SsiFlash` | the SSI with its FIFOs and a serial flash behind its chip select | `QspiRegisters` |
| `Boot2` | the bootloader, in steps of the register accesses that SSI and flash can tell apart | `SsiFlash` (composition) |
| `FlashProofs` | theorems about the mailbox in flash and about the bootloader | `FlashMailbox`, `Boot2` |
| `Workloads` | the nine kernels of the benchmark, bit for bit except the float sum | `Words` |
| `Checksums` | what they must return, by definitions that share nothing with their loops | `Workloads` |
| `Bench` | firmware and host of the benchmark | `Workloads` |
| `BenchProofs` | theorems about the kernels, `reduce_runs`, firmware and host | `Bench` |
| `IrqLatency` | main loop, handler and PIO program of the latency firmware | |
| `Clocks` | the clock tree and its bring-up | |
| `IrqGate` | the host of the latency measurement: one variant after the other | `IrqLatency`, `Clocks` (composition) |
| `IrqGateProofs` | theorems about clocks, firmware and host together | `IrqGate` |
| `MCRtt`, `MCFlashMailbox`, `MCPioMachine`, `MCIrqGate`, `MCBench` | instances whose constants are sequences or sets a cfg cannot write; `MCBench` also has `ChecksumsRight`, the property of `Bench` that needs `Checksums` | |

How state and actions correspond to the code:

**Rtt.** `good`, `wr`, `rd` are the control block: which words hold the value `init`
gives them, and the two offset words. `ring` is the buffer. One action per store or load
of shared memory: `InitStore` is the next of the 12 stores of `init` in its order; `Call`
reads WrOff at the head of `write`, `Admit`/`Drop` are the room check (RdOff is read
there), `Put` is `_put`, `Publish` the store of WrOff. The host finds the magic
(`HostAttach`), reads both offsets (`HostPoll`), fetches bytes (`HostRead`) and writes
RdOff back (`HostRelease`). `WarmReset` starts the program over and leaves RAM alone.
Power-up RAM is any partial magic with any offsets from `JunkOffset`.

**CoreLaunch.** `pc`, `i`, `attempts` are the locals of `launch`. `Push` and `PushSev` are
the store and the `sev` of `_fifo_push`, `Pop` and `PopTimeout` the two ways out of
`_fifo_pop`; a timeout may come at any time nothing is there, so every race between a
timeout and a late answer is in the model. `DrainOne`/`DrainDone` are `_fifo_drain`. Core 1
is modelled from what `launch` and its comments rely on (`BootDrain` .. `Reject`, external):
what they leave open is a choice: whether core 1 announces itself with a 0, and whether a
wrong word is answered. After the fifth accepted word it is the application, which uses the
same FIFOs. `Die` lets it stop answering. Core 1 may have reached its wait loop before the first word
or lose that word on the way out of reset. `late` is a history counter for liveness: how often core 0 went
on while core 1 still owed it an answer.

**SpinCounter.** One action per bus access of `_locked_increments` and of the two ends of
the test; RAM, DONE and the claim bit begin with what an earlier run left. `leftHeld` remembers whether
the bit was set then: nothing releases it, and no core ever enters.

**Timer.** `Tick` interleaves with the accesses of the processor, at most `Gap` ticks
between two of them; a pending, enabled interrupt is taken before the next access of the
program. A wait records how long it was asked to last and how long it did. Arithmetic is
modulo `Wrap` where the code's is modulo 2^32.

**FlashMailbox.** `hpc` is the position in `run_bench`, one action per poll outcome; the
firmware stages a page, commits it in the steps of `flash_commit_reboot` (XIP off, erase,
program, reboot), and the device can fail in the ways named in the module: a rejected
image, a hang, a reset at any step. A reset within the erase or the page program leaves any part of the
old or the new page (`Remains`: header words and pairs each there or erased), and `cut` remembers it until
a commit has run to its end. A page remembers which image wrote it (`of`), which the host sees only as far as the
language id.

**HilRun.** `Download`, `Reset`, the poll loop, `ReadResults` and the two heartbeat reads
are the steps of `flash` and `run_mailbox_suite`; the later stages are one step each with a
nondeterministic measurement. Each probe command may raise. The board writes the mailbox
word by word. RAM is never cleared. `truth` records what the tests of this run did.

**PioAsm.** One action per assembler call: plain instruction, jump to a known address, jump
to an unplaced future, `future`, `bind`, `side_set`. A word is its bits 12:8 and 4:0; operands other
than the jump target are left out. `asked` records what the caller wanted.

**PioMachine.** The client assembles, loads word by word, sets EXECCTRL and the side-set count as
`load` does, then calls setters in any order, and enables the machine, which executes
`mem[pc]`, wrapping where EXECCTRL says. Registers are words, so a mask that reaches too far
shows. The caller is one that loads a program of at least one word when `unresolved()` is 0, once, and may ask for
delays and side values that fit their fields or do not. A label behind the last word is not refused by `load`:
`StaysInside` says that there is none.

**Words, QspiRegisters, SsiFlash, Boot2.** A word is the set of its one bits. `QspiRegisters`
holds the layouts; `Compose` makes a register value of its fields, as the assembler
constants do. `SsiFlash` is what the code relies on of the hardware: bytes pushed into TX are
shifted out while the chip select is low, each leaves one in RX, the select rises when TX runs
dry and that executes the command; the flash has a busy bit, a write-enable latch, non-volatile
bits (QE and CMP of register 2, which a write changes, an OTP lock bit there, which none clears, and
the protection bits of register 1), and a continuous-read mode. `Boot2` follows
`boot2_w25q080.S`: `SetPads`, `Stop`, `SetupBytes`, `Start`, the read of status register 2 through
`read_flash_sreg` (`SregCommand` .. `SregRead`), `CompareSreg`, `WriteEnable`, `WriteSreg`, `PollBusy`,
`SetupRead`, `DummyRead`, `SetupXip` and `Exit`; accesses that follow each other with nobody to
observe the state between (the six pads, the set-up of a disabled SSI, the two reads of RX) are one step; `WaitReady` is `wait_ssi_ready`. `FromRom` and
`FromCaller` are its two entries. `timely` marks boots in which the processor keeps the TX
FIFO from running dry within a command (a debugger that halts it does not); `ChipReset` may come
at any step of any boot, `PowerCut` may also end a status write halfway.

**Workloads, Checksums, Bench.** Each `bm_*` takes the scratch memory and returns it with the
checksum; loop counts and buffer sizes are constants. Of the float sum only its comparison with 1 is kept, which is
all `bm_f32` returns. The kernels
of `bench.c`, compiled with the same small counts, give the same numbers. `Checksums` defines
them differently: the xorshift as parities over its paths, CRC-32 as polynomial division, the sort by ranks, the matrices by
rank-one updates, the divisions by a closed form of the divisor. In `Bench` a firmware is `Stuck`
in `board_init` or goes on; `Call` and `Return` bracket a kernel, so that a `Poll` can fall into a
measurement. RAM is what survives flashing: mailbox and buffers keep what was there.
`ReadResults` is `reduce_runs` with its insertion sort (`Sorted`: the times in ascending order), the
2 % spread check and the median.
`started` records which firmwares got past `board_init`.

**IrqLatency.** One action per register access of the main loop, the handler and each PIO
instruction that waits or moves; a sample carries the number of the pulse that opened it
and of the handler that closed it. Nothing is assumed of their relative speed, except in
behaviours marked `timely`, in which the spin limits and pauses are long enough.

**Clocks.** One action per store and per poll loop of `board_init`, `sys_clock_125mhz` and `measure_khz`;
`Hardware` is what follows at its own pace: crystal, multiplexers (which need both sources running
to let go of one), resets, PLL lock, frequency counter. `CoreClocked` guards every step of the
processor, here and in `IrqGate`: a program that stops its own clock stops.

**IrqGate.** The host around it: `Flash` (the core is held, RAM stays), `Reset` (core and
peripherals start over, the clock tree may or may not, an image may not start), `BringUp` (the clocks,
before and after the announcement), `Announce` (the head of `start`, the only
moment a mailbox changes owner; its stores are one step, since the host looks at nothing but MAGIC with status 2
or 3), the polls, the gates of `run_target` in their order and
`SampleGate`; the gates that compare N, RUNS and the words of the PIO program, built into every variant
alike, are left out. `Runs(Step)` lets a step of `IrqLatency` happen while the board is on and
copies samples of the last run to SRAM. `writer` is which variant announced itself; the
host sees its language id only. `timely` here also means that the two seconds before the
first poll and the deadline are long enough, and that image, crystal and PLL start.

## 3. Runs

| Run | Module, cfg | Shows |
| --- | --- | --- |
| `rtt` | `MCRtt`, `MCRtt.cfg` | `DescriptorBehindMagic`, `DropOnlyWhenFull`, refinement of `RttChannel`, `LogFlows` |
| `core_launch` | `CoreLaunch`, `MCCoreLaunch.cfg` | `TrueMeansStarted`, `NoStaleEcho`, `Returns`, `Succeeds` |
| `spin_counter` | `SpinCounter`, `MCSpinCounter.cfg` | `MutualExclusion`, `CompareSeesTotal`, refinement of `AtomicCounter`, `TestEnds` |
| `timer` | `Timer`, `MCTimer.cfg` | `LastsLongEnough`, `EndsInTime`, `AlarmNotMissed`, `EachAlarmCounted` |
| `flash_mailbox` | `MCFlashMailbox`, `MCFlashMailbox.cfg` | `NeverWedged`, `DoneIsComplete`, `FreshUnlessFailed`, `SessionEnds` |
| `hil_run` | `HilRun`, `MCHilRun.cfg` | `SuiteVerdictTrue`, `NoFalseAlarm`, `HostStops` |
| `pio_machine` | `MCPioMachine`, `MCPioMachine.cfg` | `PendingCounts`, `JumpsGoHome`, `RunsOwnProgram`, `FieldsDecode` |
| `irq_gate` | `MCIrqGate`, `MCIrqGate.cfg` | `SampleIsItsPulse`, `OwnResult`, `RaisedForCause`, `ClockNeverLost`, `GateEnds` |
| `boot2` | `Boot2`, `MCBoot2.cfg` | `XipReady`, `StatusKept`, `BootEnds` |
| `bench` | `MCBench`, `MCBench.cfg` | `ChecksumsRight`, `BlamedForCause`, `TimesTrue`, `BenchEnds` |
| `rtt_warm` | `MCRtt`, `MCRttWarm.cfg` | violated: `NoHalfBuiltBlock` |
| `flash_mailbox_stale` | `MCFlashMailbox`, `MCFlashMailboxStale.cfg` | violated: `FreshResult` |

The two violated properties are statements of the repository that the code does not keep
(section 6). Each module has a type invariant (`TypeOK`, in `Boot2` `BootTypes`), which its cfg may name; in the modules with
proofs the types are conjuncts of the inductive invariants of section 5.

Bounds, and why they are enough:

- **rtt**: a ring of 4 slots (3 usable; the code has 1024), two byte values, messages of 1, 2,
  3 and 4 bytes: one that always can fit, one that fills the ring exactly, one that never
  fits. Every pair of offsets, every wrap position and every fill level occurs. Junk offsets
  include one outside the ring. About 107 000 states. The theorems cover all sizes.
- **core_launch**: the real FIFO depth 8; 24 attempts instead of 64, and a core 1 that keeps core 0
  waiting up to 3 times (`Late`). Six commands, three restarts at any of them and the answers
  that lag behind by then fit in 24. 1.19 million states.
- **spin_counter**: 12 increments per core (the code makes 20 000); the theorems cover every
  N. RAM starts at 0 or 3, the lock free or claimed. 10 300 states.
- **timer**: a counter of 32 values with every start value, so that each wait meets the wrap at
  each offset; waits of 0, 1, 6, 10 and 20 ticks; hold-ups of 2 ticks against an alarm delay of
  5. 257 000 states. The theorems cover all widths, delays and hold-ups.
- **flash_mailbox**: 3 languages, 2 sessions, 3 pairs per page and 4 polls. A stale page needs
  two sessions, or two languages of one; both are there, and so is every part of a page that a cut erase or
  program can leave. Core 1 is running, as in `pio_multicore.mojo`. 71 000 states.
- **hil_run**: 3 tests (27 in the suite), 2 starts (the second sees the RAM of the first), 3
  polls, a heartbeat modulo 4, everything that can fail allowed to.
- **pio_machine**: three words and two futures are enough for two jumps to one label, before and
  after its bind, with another label in between; all twelve divisions of the five bits, with
  the least and greatest delay and side value of each width and the first that does not fit. Only
  the first word is given delay and side arguments (`FieldWords`): the fields of different
  words do not interact. The setters are exercised behind programs of one word (`SetupWords`):
  they touch nothing that depends on the length. The memory has 3 words, so the program that fills
  it and wraps is there.
- **boot2**: three entries: one that is cut, one that heals, and one that must find nothing left
  to do; every non-volatile state of the flash. 74 000 states.
- **bench**: three kernels in the suite (those that leave something in RAM) while `ChecksumsRight`
  tries all nine on every memory a suite starts with; two languages; three runs as in the code; 4 polls, which can spoil one, two or
  all runs of a kernel; a poll costs 6 % of a short kernel and 0.6 % of the long one, so both sides of
  the 2 % gate occur. Old mailboxes: none, a finished one, one of another count. 173 000 states.
- **irq_gate**: 2 variants of one language, after an earlier session or a power-up; 2 runs of 2
  pulses, counts up to 1, 2 polls, one stray edge at any moment. The second variant meets
  everything the first can leave behind, its clock tree at any step of the bring-up included.
  1.56 million states. `RaisedForCause` also covers
  the firmware's statistics: minimum, maximum and sum that were not those of the samples would
  make the host raise without cause.

`CHECK_DEADLOCK FALSE` is set where the program ends (a verdict, a finished session, a
returned call) or the bounds end it; only `Rtt` never stops and is checked for deadlock.

## 4. Fairness

Always weak, of whole actors, never of a single branch:

- `Rtt`: the firmware executes; the host polls while it is attached. Nothing makes the host
  attach or stay, so `NeverBlocks` holds without one.
- `CoreLaunch`: core 0 executes and its timeouts expire (the loops read a running timer); a
  core 1 that is alive runs the bootrom. The application need not do anything. `Succeeds`
  is about behaviours in which core 1 is late at most `Late` times, not at the last word and without
  dying, and in which a bootrom that meets a 0 among the last three words takes it for a restart (it may
  also take it for an address, `TookZero`; then `launch` may return False).
- `SpinCounter`: both cores execute. The lock has no queue, so nothing is assumed about
  who gets it; `TestEnds` holds because each core claims it only N times. Its premise is a lock
  that is free when the test begins.
- `FlashMailbox`: host and device each run. No fairness for failures, the user who recovers a
  hung board, or the restart of the tool.
- `HilRun`: host and board run. Again, none for failures. A probe command that hangs is outside the model.
- `IrqGate`: the host goes on; bring-up, announcement, main loop, handler and PIO proceed while they
  are clocked. Crystal, multiplexers and PLL follow in `timely` behaviours only. No fairness for stray edges or for failing probe commands.
- `Boot2`: processor, SSI, chip select and flash each run. Nothing makes a reset or a power cut happen or
  stop: `BootEnds` says that a boot comes to its end or is reset.
- `Bench`: the host goes on, and `board_init` either ends or hangs. A firmware need not make progress: the
  host gives up by itself.
- `Timer`, `PioAsm` and `PioMachine` state safety only.

## 5. Proofs

All proofs are checked by `tlapm`. They hold for every value of the constants that meets the
named assumptions of the modules; what a theorem assumes beyond them is said here.

| Theorem | States | For every | Argument |
| --- | --- | --- | --- |
| `RttProofs!RingIsConsistent` | types and `RingConsistent` | ring size, messages, junk; host lets the firmware boot (`HostWaits`) | inductive invariant `Inv` = `TypeOK` and `RingConsistent`: offsets inside the ring once `init` is over, writer in free slots, host cursor between RdOff and WrOff |
| `RttProofs!FittingMessageIsKept` | `DropOnlyWhenFull` | same | `_room` = Size - 1 less the unread span (`RoomIsFree`) |
| `RttProofs!UnreadBytesAreStable` | `UnreadIsStable` | same | the only store, `Put`, is behind the last unread slot |
| `RttProofs!ScanFindsDescriptor` | `DescriptorBehindMagic` | any timing of host and resets | the magic words are stored after every descriptor word, and a descriptor word once good stays so over a reset |
| `RttProofs!PowerUpScanIsSafe` | `NoHalfBuiltBlock` | any timing, no warm reset (`ColdSpec`) | at power-up a magic word is missing; `init` completes the magic with its last four stores |
| `RttProofs!RttImplementsChannel` | `Rtt` implements `RttChannel` | as `RingIsConsistent` | `CopyInv` adds `CopiedSoFar` (behind WrOff lie the bytes already put); `Publish` is `Write`, `HostRead` is `Read`, `WarmReset` is `Restart`, all else stutters |
| `MulticoreProofs!TrueMeansCore1Started`, `NoEchoIsLeft` | `TrueMeansStarted`, `NoStaleEcho` | FIFO depth, number of attempts, timing of answers and timeouts; vector, stack and entry are neither 0 nor 1 (`CommandAssumption`) | `Inv`: the words core 0 has popped for its last commands and those still in the inbox form one stream (`Got`); the last answers in it of a waiting core 1 are those of its present sequence (`EchoInv`), and the echoes of vector, stack and entry in a row are the end of a sequence that started core 1, with nothing of the handshake behind them (`TripleInv`) |
| `MulticoreProofs!SpinlockExcludes`, `NoUpdateIsLost`, `ComparedTotalIsRight` | `MutualExclusion`, `NoLostUpdate`, `CompareSeesTotal` | N, stale RAM, a lock free or left claimed | `CountInv` = `CountTypes`, `MutualExclusion`, `NoLostUpdate`, `Progress`; exclusion alone is inductive only with `Progress` (core 1 does nothing before the launch) |
| `MulticoreProofs!SpinCounterIsAtomic` | implements `AtomicCounter` | same | `Store` is `Increment` |
| `TimerProofs!WaitsLastLongEnough` | `LastsLongEnough` | width, start, hold-up; tick counts that fit the counter (`Fits`) | the modular difference never exceeds the ticks that have passed |
| `TimerProofs!AlarmIsNotMissed`, `AlarmsAreCounted` | `AlarmNotMissed`, `EachAlarmCounted` | width and delay; the hold-ups are shorter than the delay (`Ahead`) | the distance from the counter to ALARM0 is the delay less the ticks since the read |
| `TimerProofs!WaitsEndInTime` | `EndsInTime` | width, start, hold-up; asked time and one hold-up together stay below a turn of the counter (`Window`) | `LateInv`: a wait has seen all that has passed, and at its last look it was not over |
| `FlashProofs!CommitIsSafe` | `NeverWedged` | images, sessions, polls, failures | `XipInv`: core 1 is off from its halt to the reboot |
| `FlashProofs!DoneMeansComplete` | `DoneIsComplete` | same, resets within erase and page program included | `PageInv`: what a firmware commits has every pair, and a page that shows less is one whose commit was cut |
| `FlashProofs!PagesAreFresh` | `FreshUnlessFailed` | images, sessions, polls, restarts of the tool | `FreshInv`: while nothing has failed, from the copy on the device holds the wanted image, and a page it shows as done is from it |
| `FlashProofs!BootStateIsTyped` | `BootTypes` | boots, resets, power cuts, held up or not | `Types`: register values are words, FIFOs are sequences of words |
| `FlashProofs!BootIsReady` | `XipReady` | same, any pace of SSI and flash, any non-volatile state of the flash | `BootInv`: by the place of the processor, the form of the SSI (`FormInv`), the frames that are pushed, on the bus and in the RX FIFO (`LineInv`), the flash (`ChipInv`), and that the second byte read back is the status register (`ValueInv`) |
| `FlashProofs!StatusIsKept` | `StatusKept` | same, CMP, OTP and protection bits included | the frames of a write command are on the bus only at the pushes that follow a comparison that failed (`WritePlaces`, `Writing` of `ChipInv`), and register 2 does not change in between |
| `HilRunProofs!SuiteVerdictIsTrue` | `SuiteVerdictTrue` | tests, polls, starts, failures; `Timely` | `VerdictInv`: from the first DONE it reads the host faces a suite that beats, or a dead core whose heartbeat stands still |
| `HilRunProofs!RedHasACause` | `NoFalseAlarm` | same | `AlarmInv`: without trouble nothing has failed so far, the suite that was flashed runs to its verdict, every result read is a pass and the heartbeat read second is behind the first (less than a whole turn: `Wrap` > 1) |
| `PioMachineProofs!JumpsAreResolved`, `UnresolvedCounts` | `JumpsGoHome`, `PendingCounts` | memory size, labels, programs | `AsmInv`: each word is in place or waits for its own label, and `pending` is the number of those that wait |
| `PioMachineProofs!MachineAssembles`, `LoadedProgramIsResolved` | `MachineSpec` implies the assembler's `Spec`, and so its theorems | same | every step of the machine assembles or leaves the assembler's variables alone |
| `PioMachineProofs!MachineRunsItsProgram` | `RunsOwnProgram` | programs without a label behind the last word (`StaysInside`), sequences of setters; at most 32 words (`Slots <= 32`) | `RunInv`: what is loaded so far is a prefix of the program, WRAP_TOP names its last word whatever `set_jmp_pin` writes next to it, and the PC is inside |
| `PioMachineProofs!MachineDecodesItsFields` | `FieldsDecode` | the same, and all divisions of the five bits and arguments | `FieldInv`: each word carries delay and side value as packed; `RegInv`: a field that was set stays set, and divisor and enable bit of the side-set are the assembler's |
| `IrqGateProofs!ClocksAreKept` | `ClockNeverLost` | every clock tree the board can be left with, resets at any step | `ClockInv`: what of the tree each stage of the bring-up has established, and that a source in use is never touched (`UsableTree`) |
| `IrqGateProofs!SamplesAreTheirPulses` | `SampleIsItsPulse` | pulses, runs, variants, speeds of main loop, handler and PIO | `CoreInv`: where the handler and the PIO can be, given what the main loop waits for (`PulseInv`); the statistics are those of the samples so far (`StatInv`, `SramInv`) |
| `IrqGateProofs!ResultsAreOwn`, `GatesRaiseForCause` | `OwnResult`, `RaisedForCause` | same, and polls, failing probe commands | `GateInv` adds the mailbox: a finished one was written by the variant that announced itself (`MailInv`), which in timely behaviours is the one the host has flashed (`HeadInv`) |
| `BenchProofs!BlamedOnlyForCause` | `BlamedForCause` | workloads, loop counts, firmwares, runs, stolen time, contents of RAM | `KernelsIndependent`: each of the nine kernels returns the same checksum on every memory, `sort` and `mat16` by a least turn at which two executions differ; so once a firmware has started, a finished mailbox holds right checksums and times that are not too short (`SuiteInv`), and undisturbed times have no spread (`NoSpread`) |
| `BenchProofs!AcceptedTimesAreTrue` | `TimesTrue` | same | any times can be put in order (`AllOrderly`), so the sort returns the same times ascending (`SortedMeans`): an undisturbed one is the smallest, and what the spread check lets pass lies within 2 % of it (`MedianIsClose`) |
| `BenchProofs!ReportedIsComputed` | `ReportIsComputed`: a reported checksum is the kernel's own on fresh memory | same | `HostInv`: the results accepted so far are right for the firmwares that have started |

About `BootInv`. The two statements alone say nothing of the places before the last, so each of its parts says
what one actor has left for the next: `Sending` (what is on the bus followed by what is in the TX FIFO is the script of
the place, and RX holds one frame per frame sent) is what makes `wait_ssi_ready` enough to know that the flash has
executed a command and that two bytes can be read; `ChipInv` then says what the flash is at each place, and `ValueInv` that
the compare sees its register and not the dummy byte. These parts are inductive only while the boot is `timely`: a processor
that is held up within a command lets the chip select rise early. Types and pads (`PadInv`) need no such premise, and every
entry and reset starts the parts anew, so neither the number of boots nor what they left appears in them. The
constants the code writes are computed, not assumed: `BitTable` and `WrittenWords` unfold them to their bits, and
`QuadForm` and `XipForm` show that the fields decoded from them are the mode the flash needs.

Why the extra premises are needed. Without `HostWaits` a host can attach between two stores of
`init` after a warm reset and see WrOff of this boot with RdOff of the last (run `rtt_warm`).
Without `Fits` the UInt32 products wrap (section 6). Without `Ahead` a hold-up between the
read of the counter and the store of ALARM0 lets the counter pass the alarm; without `Window` one can carry
it past every value the exit test accepts. Without `CommandAssumption` the echo of an address could be
taken for that of a 0 or a 1; vector table, stack and entry lie in flash and RAM. A block of the PIO has 32 instruction words and the wrap
fields five bits, hence `Slots <= 32`; the assembler's array has the same bound. Without `Timely` the host
may read the verdict of the run before: MAGIC, DONE, results and a heartbeat that moves because
the new suite has started are all in RAM before the new suite has overwritten them.

What the premises leave out, so that no theorem is read for more than it says. `DoneMeansComplete` is silent on the
pages of a cut commit: nothing in a page tells one whose header was programmed and whose pairs were not.
`SpinlockExcludes` includes a lock left claimed, but then nobody enters. `WaitsLastLongEnough` covers the wrap
of the counter, not that of the products (`Fits`); the suite's theorems of `HilRunProofs` not a deadline that is too
short (`Timely`); `MachineRunsItsProgram` not a label behind the last word (`StaysInside`) nor a second `load`; `ResultsAreOwn`
neither a firmware that announces itself after the first poll nor the handlers a stray edge adds; `BlamedOnlyForCause` and
`AcceptedTimesAreTrue` only the firmwares that got past `board_init` (`started`).

Only model-checked: every liveness property (`LogFlows`, `Returns`, `Succeeds`, `TestEnds`,
`SessionEnds`, `HostStops`, `GateEnds`, `BootEnds`, `BenchEnds`), since neither fairness nor ENABLED is in the
prover's reach; `ChecksumsRight` of `Bench`. The induction theorems of the library cannot be used (they take an operator as a parameter),
but where one number is what the induction runs over, a least counterexample does the same:
`LeastMember` of `IrqGateProofs` and `BenchProofs` follows from the well-foundedness of the naturals, and `SumsAgree`,
that the host's recursive sum over N samples is the one the firmware accumulated, from it, as do
`AllOrderly` and the kernels' independence of the memory. *What* the kernels compute (`ChecksumsRight`)
would need many nested ones and stays with TLC.

## 6. Findings and observations

Statements of the repository that the code does not keep, each with a counterexample:

1. `rtt_warm`: "the only valid-looking block a host scan can find is a fully initialized one"
   (`src/pico/rtt.mojo:11-12`). `init` writes the magic last but does not clear the one an earlier boot
   left. After a warm reset a scan in the middle of `init` finds a valid-looking block with the new
   WrOff and the old RdOff. From a power-up the statement is proved (`PowerUpScanIsSafe`), and
   the descriptor is right in both cases (`ScanFindsDescriptor`). The tools of the repository sleep
   after a reset and are not affected.
2. `flash_mailbox_stale`: "a stale page can never masquerade as a fresh result"
   (`tools/bench_rp2350.mojo:16-17`). The language id tells the languages of one session apart,
   not two sessions: when the image is copied but not started, the page of
   the previous session is accepted. `FreshUnlessFailed` shows that this takes a failure.

Met while modelling, without a run of their own:

- `sleep_ms` multiplies in UInt32; from 4 294 968 ms on it sleeps for the remainder only
  (`src/pico/time.mojo:93`, "this is exact" at 87-88). `WaitsLastLongEnough` has the bound as a premise.
- "The board is always left running the blink demo" (`tools/run_tests.py:18`) is not kept when a probe
  command fails: the exception leaves `main` and nothing is flashed afterwards.
- The bootloader compares all of status register 2 with 0x02 (`boot2_w25q080.S:157`), although its head says "Check status
  register 2 to determine if QSPI mode is enabled, and perform an SR2 programming cycle if necessary" (11-12). On a flash
  with quad mode enabled and any other bit of it set (CMP, say, or an OTP lock bit) the comparison fails and both
  status registers are programmed: CMP and the block protection are cleared, and with an OTP bit this is
  repeated on every boot. In `Boot2` such a write is reached on the first entry. What does hold is that the registers are
  never written when register 2 has the wanted value (`StatusKept`), and that after a boot it has it, unless an
  OTP bit keeps it from that (`XipReady`).
- After the write it waits for the busy bit but does not read register 2 again: a write that did not
  take is not noticed in that boot. The next boot heals it (`XipReady` over three entries).
- The comment at `read_flash_sreg.S:24` ("combine the next two") names an earlier form of the code.
- A reset within the 256-byte page program of `flash_commit_reboot` (`crt0_rv32.S:344-351`) can leave the header,
  state 2 included, with pairs still 0xFF. If the image is then not run to its end again (the bootrom rejects it, or
  it hangs), the host accepts the page; `reduce_runs` finds most of these by checksum and spread.
- A spinlock left claimed by a soft reset is never released: `acquire` has no timeout, and the contention test hangs.
- `launch` returns False with core 1 running its application when the echo of the entry word is late (or is only
  seen by the drain): core 1 is not reset again, and nobody answers the restarted sequence.
- `load` does not refuse a label behind the last word of a program that is shorter than the memory; the machine
  would execute what an earlier program left there (`StaysInside` is the premise of `RunsOwnProgram`).
- The comment at `boot2_w25q080.S:150` says that slave 0 is selected, but SER is never written; the
  code relies on what the bootrom left there.
- The mailbox of the RP2040 benchmark has no language id (that of the RP2350 has one): a firmware that hangs
  in `board_init` has the finished page of the one before accepted as its own, with times that are not its own.
  `ChecksumsRight` and `TimesTrue` are about the firmwares that started.
- Polls that fall into the same kernel in all three runs inflate its median and leave no spread
  (`tools/bench.mojo:135-137` relies on the spread check); the premise of `TimesTrue` is one undisturbed run.
- `_fifo_drain` (`multicore.mojo:80`) has no bound. If the echo of the entry word comes after its
  timeout, the sequence restarts while core 1 already runs the application; one that pushes for
  ever keeps `launch` in the drain. `Returns` has the premise that it stops.
- A greeting 0 of core 1 that boots before core 0's first push can be taken for the echo of the first
  0; the sequence still ends right (`TrueMeansStarted`), but may use up attempts.
- The RISC-V FIFO timeout is multiplied by 16 in UInt32 (`multicore.mojo:67`); every caller stays
  far below the limit.
- `alarm0_arm` (`time.mojo:69`) misses an alarm that is due before the store reaches ALARM0; it then
  fires a whole turn of the counter later.
- The latency firmware reports the pulses it sent as "total interrupts taken"
  (`bench/irq_latency.mojo:170` against 32), so the gate "exactly N interrupts per run were taken (no
  missed or spurious IRQ)" (`tools/irq_latency.mojo:18`) does not see a stray edge after the last
  pulse; without stray edges the counts agree (`OwnResult`).
- The spread gate divides by the smallest sum of counts (`tools/irq_latency.mojo:244`), which is 0 if
  the PIO never counts; the model takes either outcome.
- The RTT stage of the orchestrator passes on a block left by an earlier run of the suite if this
  run dies before its RTT test; the suite stage is red then.
- `load` of a state machine resets neither the program counter nor the memory behind the program.

## 7. What is not modelled

Digits and wording of messages, the spread and chart of the RP2350 report, operands of PIO
instructions other than jump targets, electrical behaviour, and bus errors. Single-shot register
sequences of one actor (PWM, ADC, single GPIO writes, one NVIC write per call), constants,
linker scripts and startup code have no state to relate. The bring-up of the clocks is a straight
line with ready polls; `Clocks` has it access by access in front of the latency firmware, `Bench` as
something that hangs or ends (`Stuck`, `Announce`). `sys_clock_12mhz` and the RP2350 bring-up are
left out. The build pipeline is sequential text
processing around external compilers; the placement of the latency handler (`isr_address`) is
checked there. Of `StateMachine`, `exec`, `restart`, `set_clkdiv` and a second `load` into a running
machine are left out; no firmware of the repository does the latter. What the latency board does
after the host has stopped is left out. A probe or debugger command is one step: it returns or fails;
one that hangs (`tools/hil.py:81` sets no timeout) hangs the orchestrator, and a late event of the DAP
server (`tools/dap_client.py:138`) is not modelled. A flash that refuses a status write (SRP with /WP low) and
one that is busy when the bootloader is entered are left out: the bootrom has just read the bootloader from it. The interrupt status bits and unused fields
of the register headers have no definition; of `m0plus.h` only VTOR is used.

## 8. Plan

Done, in this order: `Rtt` with `RttChannel`; `CoreLaunch`; `SpinCounter` with `AtomicCounter`;
`Timer`; `FlashMailbox`; `HilRun`; `PioAsm`; `IrqLatency`, then `IrqGate` around it; `PioMachine` around
`PioAsm`; `Boot2` on `SsiFlash`; `Bench` on `Workloads`; `Clocks` under `IrqGate`; proofs about all
of them, `Boot2` last.

Of the safety properties the passing runs check, all but `ChecksumsRight` are theorems.

Models that would come after: the DAP client with late events, the Xh3irq dispatch loop, and pads written from two cores.
