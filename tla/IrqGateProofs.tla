--------------------------- MODULE IrqGateProofs ---------------------------
(***************************************************************************)
(* The latency gate, for any number of pulses, runs, variants and polls.    *)
(* ClockInv: the clock tree at each stage of the bring-up.  CoreInv: main    *)
(* loop, handler and PIO, which at each line of the main loop can only be at *)
(* a few of theirs, and the statistics of the samples taken so far.          *)
(* GateInv: the host with its mailbox, on top of both.                       *)
(***************************************************************************)
EXTENDS IrqGate, SequenceTheorems, WellFoundedInduction, TLAPS

-----------------------------------------------------------------------------
(* The clocks.  The bring-up goes through these stages, and what it has       *)
(* established at one holds from there on; what holds of the tree wherever    *)
(* the code was interrupted is UsableTree.                                  *)
Slow     == {"io", "io?", "tick", "announce", "pll", "release", "release?", "feedback",
             "power", "lock?", "post", "out", "aux", "fast"}
Measured == {"fc?", "measure", "done?", "up"}
Stages   == {"xosc", "xosc?", "ref", "ref?", "sys", "sys?", "fast?"} \cup Slow \cup Measured

UsableTree ==
  /\ (clk.ref = "xosc" \/ clk.refSel = "xosc") => clk.xosc = "stable"
  /\ (clk.sys = "aux" \/ clk.sysSel = "aux") => clk.pll = "out" /\ clk.div = Dividers

Reached ==
  /\ bring \notin {"xosc", "xosc?"} => clk.xosc = "stable"
  /\ bring \notin {"xosc", "xosc?", "ref"} => clk.ref = "xosc"
  /\ bring \notin {"xosc", "xosc?", "ref", "ref?"} => clk.refSel = "xosc"
  /\ bring \in Slow \cup {"sys?"} => clk.sys = "ref"
  /\ bring \in Slow => clk.sysSel = "ref"
  /\ bring \in Measured \cup {"fast?"} => clk.sys = "aux"
  /\ bring \in Measured => clk.sysSel = "aux"

Pins ==
  /\ bring = "io?" => clk.io # "reset"
  /\ bring \in (Slow \cup Measured \cup {"fast?"}) \ {"io", "io?"} => clk.io = "ready"
  /\ bring \in (Slow \cup Measured \cup {"fast?"}) \ {"io", "io?", "tick"} => clk.tick

Locks ==
  /\ bring = "release"  => clk.pll = "reset" /\ clk.div = {}
  /\ bring = "release?" => clk.pll \in {"releasing", "off"} /\ clk.div = {}
  /\ bring = "feedback" => clk.pll = "off" /\ clk.div = {}
  /\ bring = "power"    => clk.pll = "off" /\ clk.div = {"feedback"}
  /\ bring = "lock?"    => clk.pll \in {"locking", "locked"} /\ clk.div = {"feedback"}
  /\ bring = "post"     => clk.pll = "locked" /\ clk.div = {"feedback"}
  /\ bring = "out"      => clk.pll = "locked" /\ clk.div = Dividers
  /\ bring \in {"aux", "fast"} => clk.pll = "out" /\ clk.div = Dividers

Measures ==
  /\ bring = "measure" => clk.fc # "running"
  /\ bring = "done?" => clk.fc = "running" \/ (clk.fc = "done" /\ clk.result = "125 MHz")
  /\ bring = "up" => khz = "125 MHz"

ClockTypes == clk \in Tree /\ bring \in Stages /\ khz \in Khz

ClockInv == ClockTypes /\ UsableTree /\ Reached /\ Pins /\ Locks /\ Measures

LEMMA ClockInvSuffices == ClockInv => ClockNeverLost
BY DEF ClockInv, ClockTypes, UsableTree, Reached, Pins, Measures, ClockNeverLost, RefRuns,
       SysRuns, Tree, Stages, Slow, Measured

LEMMA ColdTree == Cold \in Tree
BY DEF Cold, Tree, Khz

LEMMA StartClocks ==
  ASSUME ClockTypes, UsableTree, clk' \in {Cold, clk}, bring' = "xosc", UNCHANGED khz
  PROVE  ClockInv'
<1>1. ClockTypes'
  BY ColdTree DEF ClockTypes, Stages
<1>2. UsableTree'
  BY DEF UsableTree, Cold
<1>3. QED
  BY <1>1, <1>2 DEF ClockInv, Reached, Pins, Locks, Measures, Slow, Measured

LEMMA InitClocks == clk = Cold /\ bring = "xosc" /\ khz \in Khz => ClockInv
BY ColdTree DEF ClockInv, ClockTypes, UsableTree, Cold, Reached, Pins, Locks, Measures, Slow,
   Measured, Stages

LEMMA BoardInv == ASSUME ClockInv, board_init PROVE ClockInv'
<1> USE DEF ClockInv, ClockTypes, UsableTree, Reached, Pins, Locks, Measures, Tree, Stages, Slow,
            Measured, Write, Await
<1>1. CASE EnableXosc BY <1>1 DEF EnableXosc
<1>2. CASE AwaitXosc  BY <1>2 DEF AwaitXosc
<1>3. CASE RefToXosc  BY <1>3 DEF RefToXosc
<1>4. CASE AwaitRef   BY <1>4 DEF AwaitRef
<1>5. CASE SysToRef   BY <1>5 DEF SysToRef
<1>6. CASE AwaitSys   BY <1>6 DEF AwaitSys
<1>7. CASE ReleaseIo  BY <1>7 DEF ReleaseIo
<1>8. CASE AwaitIo    BY <1>8 DEF AwaitIo
<1>9. CASE StartTick  BY <1>9 DEF StartTick
<1>10. QED
  BY <1>1, <1>2, <1>3, <1>4, <1>5, <1>6, <1>7, <1>8, <1>9 DEF board_init

LEMMA PllInv == ASSUME ClockInv, sys_clock_125mhz PROVE ClockInv'
<1> USE DEF ClockInv, ClockTypes, UsableTree, Reached, Pins, Locks, Measures, Tree, Stages, Slow,
            Measured, Write, Await, Divide, Dividers
<1>1. CASE ResetPll    BY <1>1 DEF ResetPll
<1>2. CASE ReleasePll  BY <1>2 DEF ReleasePll
<1>3. CASE AwaitPll    BY <1>3 DEF AwaitPll
<1>4. CASE SetFeedback BY <1>4 DEF SetFeedback
<1>5. CASE PowerPll    BY <1>5 DEF PowerPll
<1>6. CASE AwaitLock   BY <1>6 DEF AwaitLock
<1>7. CASE SetPost     BY <1>7 DEF SetPost
<1>8. CASE PowerPost   BY <1>8 DEF PowerPost
<1>9. CASE SelectPll   BY <1>9 DEF SelectPll
<1>10. CASE SysToAux   BY <1>10 DEF SysToAux
<1>11. CASE AwaitAux   BY <1>11 DEF AwaitAux
<1>12. QED
  BY <1>1, <1>2, <1>3, <1>4, <1>5, <1>6, <1>7, <1>8, <1>9, <1>10, <1>11 DEF sys_clock_125mhz

LEMMA MeasureInv == ASSUME ClockInv, measure_khz PROVE ClockInv'
<1> USE DEF ClockInv, ClockTypes, UsableTree, Reached, Pins, Locks, Measures, Tree, Stages, Slow,
            Measured, Write, Await
<1>1. CASE AwaitFc BY <1>1 DEF AwaitFc
<1>2. CASE Measure BY <1>2 DEF Measure
<1>3. CASE Read    BY <1>3 DEF Read
<1>4. QED
  BY <1>1, <1>2, <1>3 DEF measure_khz

(* The hardware only completes what it was asked to do, and the frequency     *)
(* counter is started when clk_sys runs from the PLL.                        *)
Follows ==
  /\ bring' = bring /\ khz' = khz
  /\ clk'.ref = clk.ref /\ clk'.sys = clk.sys /\ clk'.div = clk.div /\ clk'.tick = clk.tick
  /\ clk'.xosc = clk.xosc \/ clk'.xosc = "stable"
  /\ clk'.refSel = clk.refSel \/ (clk'.refSel = clk.ref /\ RefRuns(clk.ref))
  /\ clk'.sysSel = clk.sysSel \/ (clk'.sysSel = clk.sys /\ SysRuns(clk.sys))
  /\ clk'.io = clk.io \/ clk'.io = "ready"
  /\ \/ clk'.pll = clk.pll
     \/ clk.pll = "releasing" /\ clk'.pll = "off"
     \/ clk.pll = "locking" /\ clk'.pll = "locked"
  /\ \/ clk'.fc = clk.fc /\ clk'.result = clk.result
     \/ clk'.fc = "done" /\ clk'.result = Frequency

LEMMA HardwareFollows == ASSUME ClockTypes, Hardware PROVE clk' \in Tree /\ Follows
<1>1. Frequency \in Khz
  BY DEF Frequency, Khz
<1> USE <1>1 DEF ClockTypes, Tree, Becomes, Follows
<1>2. CASE clk.xosc = "starting" /\ Becomes([clk EXCEPT !.xosc = "stable"])
  BY <1>2
<1>3. CASE RefRuns(clk.ref) /\ Becomes([clk EXCEPT !.refSel = clk.ref])
  BY <1>3
<1>4. CASE SysRuns(clk.sys) /\ Becomes([clk EXCEPT !.sysSel = clk.sys])
  BY <1>4
<1>5. CASE Becomes([clk EXCEPT !.io = "ready"])
  BY <1>5
<1>6. CASE clk.pll = "releasing" /\ Becomes([clk EXCEPT !.pll = "off"])
  BY <1>6
<1>7. CASE clk.pll = "locking" /\ Becomes([clk EXCEPT !.pll = "locked"])
  BY <1>7
<1>8. CASE Becomes([clk EXCEPT !.fc = "done", !.result = Frequency])
  <2>1. /\ bring' = bring /\ khz' = khz /\ clk'.fc = "done" /\ clk'.result = Frequency
        /\ clk'.ref = clk.ref /\ clk'.sys = clk.sys /\ clk'.div = clk.div /\ clk'.tick = clk.tick
        /\ clk'.xosc = clk.xosc /\ clk'.refSel = clk.refSel /\ clk'.sysSel = clk.sysSel
        /\ clk'.io = clk.io /\ clk'.pll = clk.pll
    BY <1>8
  <2>2. Follows
    BY <2>1
  <2> DEFINE d == [clk EXCEPT !.fc = "done"]
  <2>3. clk' \in Tree
    <3>1. d \in Tree
      OBVIOUS
    <3>2. clk' = [d EXCEPT !.result = Frequency]
      BY <1>8
    <3> HIDE DEF d
    <3>3. QED
      BY <3>1, <3>2
  <2>4. QED
    BY <2>2, <2>3
<1>9. QED
  BY <1>2, <1>3, <1>4, <1>5, <1>6, <1>7, <1>8 DEF Hardware

LEMMA StandingClocks == ASSUME ClockInv, UNCHANGED clocks PROVE Follows
BY DEF Follows, clocks

LEMMA FollowInv == ASSUME ClockInv, Follows, clk' \in Tree PROVE ClockInv'
<1> USE DEF ClockInv, Follows
<1>1. ClockTypes'
  <2>1. bring' \in Stages /\ khz' \in Khz
    BY DEF ClockTypes
  <2>2. QED
    BY <2>1 DEF ClockTypes, Tree, Stages, Slow, Measured, Khz
<1>2. UsableTree'
  BY DEF ClockTypes, Tree, UsableTree, SysRuns, RefRuns
<1>3. Reached'
  BY DEF Reached, Slow, Measured
<1>4. Pins'
  BY DEF Pins, Slow, Measured
<1>5. Locks'
  BY DEF Locks
<1>6. Measures'
  BY DEF Measures, Reached, Frequency, UsableTree, Measured
<1>7. QED
  BY <1>1, <1>2, <1>3, <1>4, <1>5, <1>6

LEMMA ClockStep == ASSUME ClockInv, GateNext PROVE ClockInv'
<1>1. CASE UNCHANGED clocks
  <2>1. clk' \in Tree
    BY <1>1 DEF clocks, ClockInv, ClockTypes
  <2>2. QED
    BY <1>1, <2>1, StandingClocks, FollowInv
<1>2. CASE Reset
  BY <1>2, StartClocks DEF Reset, ClockInv
<1>3. CASE Announce
  <2>1. bring = "announce" /\ bring' = "pll" /\ UNCHANGED <<clk, khz>>
    BY <1>3 DEF Announce
  <2>2. ClockTypes'
    BY <2>1 DEF ClockInv, ClockTypes, Stages, Slow
  <2>3. UsableTree' /\ Reached'
    BY <2>1 DEF ClockInv, UsableTree, Reached, Slow, Measured
  <2>4. Pins' /\ Locks' /\ Measures'
    BY <2>1 DEF ClockInv, Pins, Locks, Measures, Slow, Measured
  <2>5. QED
    BY <2>2, <2>3, <2>4 DEF ClockInv
<1>4. CASE BringUp
  BY <1>4, BoardInv, PllInv, MeasureInv DEF BringUp
<1>5. CASE ClocksFollow
  BY <1>5, HardwareFollows, FollowInv DEF ClocksFollow, ClockInv
<1>6. QED
  BY <1>1, <1>2, <1>3, <1>4, <1>5 DEF GateNext, Host, Flash, PollDone, PollAgain, PollGivesUp,
     HeadGates, SampleGate, ProbeFails, Runs

(* ClockNeverLost: a multiplexer of the clock tree only ever has, and is only  *)
(* ever given, a source that runs, and a program that has been brought up has  *)
(* its pins, its tick and 125 MHz, wherever the bring-up of board_init,        *)
(* sys_clock_125mhz and measure_khz was cut short before by a reset.          *)
THEOREM ClocksAreKept == GateSpec => []ClockNeverLost
<1>1. GateInit => ClockInv
  BY InitClocks DEF GateInit, Khz
<1>2. ClockInv /\ [GateNext]_gateVars => ClockInv'
  <2> SUFFICES ASSUME ClockInv, [GateNext]_gateVars PROVE ClockInv'
    OBVIOUS
  <2>1. CASE GateNext
    BY <2>1, ClockStep
  <2>2. CASE UNCHANGED gateVars
    <3>1. UNCHANGED clocks /\ clk' \in Tree
      BY <2>2 DEF gateVars, clocks, ClockInv, ClockTypes
    <3>2. QED
      BY <3>1, StandingClocks, FollowInv
  <2>3. QED
    BY <2>1, <2>2
<1>3. QED
  BY <1>1, <1>2, ClockInvSuffices, PTL DEF GateSpec
-----------------------------------------------------------------------------
(* The firmware.  What has a type, whatever the probe did to the core.        *)
Sample   == [n : 0 .. MaxCount, pulse : Nat, handler : Nat]
Stat     == [mn : Nat, mx : Nat, sum : Nat]
Setup    == {"enable", "ack", "irq"}
Closing  == {"disable", "report", "done"}
Labels   == Setup \cup {"sleep", "pulse", "spin", "rx", "lowC", "lowA"} \cup Closing \cup {"failed"}

FirmwareTypes ==
  /\ a \in 0 .. 1 /\ c \in 0 .. 1 /\ latch \in BOOLEAN /\ nvic \in BOOLEAN
  /\ isr \in {"idle", "high", "ack", "count"} /\ taken \in Nat /\ irqCount \in Nat
  /\ pio \in {"off", "arm", "edge", "loop", "push"} /\ x \in Sample /\ rx \in Seq(Sample)
  /\ core \in Labels /\ total \in Nat /\ r \in 0 .. RUNS
  /\ samples \in Seq(Sample) /\ stat \in Stat
  /\ glitches \in Nat /\ timely \in BOOLEAN

(* The main loop sends one pulse for every sample it takes.                   *)
LoopInv ==
  /\ Len(samples) <= N
  /\ core \in Setup => r = 0 /\ total = 0 /\ samples = <<>>
  /\ core \in Closing => r = RUNS /\ Len(samples) = N
  /\ core \notin Closing => r < RUNS
  /\ core \in {"pulse", "spin", "rx"} => Len(samples) < N
  /\ core \in {"spin", "rx"} => total = Before + Len(samples) + 1
  /\ core \notin {"spin", "rx", "failed"} => total = Before + Len(samples)

(* Without stray edges the handler of a pulse runs before the next pulse, and *)
(* GPIO 16 tells how far it got.                                             *)
Served == irqCount = total /\ taken = total /\ isr = "idle" /\ ~latch

Serving ==
  /\ total = irqCount + 1
  /\ \/ isr = "idle"  /\ latch  /\ taken = irqCount /\ c = 0
     \/ isr = "high"  /\ latch  /\ taken = total    /\ c = 0
     \/ isr = "ack"   /\ latch  /\ taken = total    /\ c = 1
     \/ isr = "count" /\ ~latch /\ taken = total    /\ c = 1

HandlerInv ==
  /\ core \in {"enable", "ack"} => taken = 0 /\ irqCount = 0 /\ isr = "idle"
  /\ core \in Setup => ~nvic
  /\ core \in {"sleep", "pulse", "spin", "rx", "lowC", "lowA"} => nvic
  /\ core \notin {"enable", "ack", "spin", "failed"} => Served
  /\ core = "spin" => (Served /\ c = 1) \/ Serving
  /\ core \in {"rx", "lowC"} => c = 1
  /\ core \notin {"spin", "rx", "lowC", "failed"} => c = 0

(* The counter follows the pin, and hands over what it counted for the pulse   *)
(* before the main loop lowers the pin.                                     *)
Counted(s) == s.pulse = total /\ s.handler = total

CounterInv ==
  /\ core \in {"spin", "rx", "lowC", "lowA"} => a = 1
  /\ core \notin {"spin", "rx", "lowC", "lowA", "failed"} => a = 0
  /\ core = "enable" => rx = <<>> /\ pio = "off"
  /\ core \in {"lowC", "lowA"} => rx = <<>> /\ pio = "arm"
  /\ core \notin {"enable", "spin", "rx", "lowC", "lowA", "failed"} =>
       rx = <<>> /\ pio \in {"arm", "edge"}
  /\ core \in {"spin", "rx"} =>
       \/ rx = <<>> /\ pio \in {"arm", "edge"}
       \/ rx = <<>> /\ pio = "loop" /\ x.pulse = total
       \/ rx = <<>> /\ pio = "push" /\ Counted(x) /\ c = 1
       \/ Len(rx) = 1 /\ pio = "arm" /\ Counted(rx[1])

(* With waits as long as meant the counter is ready for every pulse, and the   *)
(* firmware does not fail.                                                  *)
ReadyInv ==
  timely => /\ core = "pulse" => pio = "edge"
            /\ core \in {"spin", "rx"} /\ pio = "arm" => rx # <<>>
            /\ core # "failed"

PulseInv == glitches = 0 => HandlerInv /\ CounterInv /\ ReadyInv /\ SampleIsItsPulse

(* The statistics are those of the samples, and the last run's are in SRAM.   *)
Sums(f) == f[0] = 0 /\ \A p \in 1 .. Len(samples) : f[p] = f[p - 1] + samples[p].n

StatInv ==
  /\ samples = <<>> => stat = NoStat
  /\ \A p \in 1 .. Len(samples) : stat.mn <= samples[p].n /\ samples[p].n <= stat.mx
  /\ samples # <<>> => /\ \E p \in 1 .. Len(samples) : stat.mn = samples[p].n
                      /\ \E p \in 1 .. Len(samples) : stat.mx = samples[p].n
  /\ \E f \in [0 .. N -> Nat] : Sums(f) /\ f[Len(samples)] = stat.sum

SramInv ==
  /\ sram \in [1 .. N -> Nat]
  /\ r >= RUNS - 1 => \A p \in 1 .. Len(samples) : sram[p] = samples[p].n

CoreInv == FirmwareTypes /\ LoopInv /\ PulseInv /\ StatInv /\ SramInv

-----------------------------------------------------------------------------
(* The mailbox of a firmware that has announced itself.                       *)
Mailbox == [status : 1 .. 3, error : 0 .. 2, irqs : Nat, runs : Seq(Stat)]

MailInv ==
  /\ power = "boot" => core = "enable" /\ r = 0
  /\ power = "on" =>
       /\ mailbox \in Mailbox /\ writer = image
       /\ core # "enable" => bring = "up"
       /\ mailbox.status = (IF core = "done" THEN 2 ELSE IF core = "failed" THEN 3 ELSE 1)
       /\ core = "done" => mailbox.irqs = N * RUNS
       /\ Len(mailbox.runs) = r
       /\ r = RUNS => mailbox.runs[RUNS] = stat

(* The host.                                                               *)
Result == [by : Nat, taken : Nat]

HostTypes ==
  /\ hpc \in {"flash", "reset", "poll", "gates", "samples", "ended", "raised"}
  /\ k \in Variant /\ polls \in 0 .. Polls - 1
  /\ results \in Seq(Result)
  /\ Len(results) = IF hpc = "ended" THEN k ELSE k - 1
  /\ hpc \in {"reset", "poll", "gates", "samples"} => image = k
  /\ image \in Nat /\ writer \in Nat /\ head.by \in Nat /\ head.taken \in Nat

(* What it has read is what the firmware of its variant has ended with.       *)
HeadInv ==
  timely /\ hpc \in {"gates", "samples"} =>
    /\ power = "on" /\ head.by = k /\ head.khz = "125 MHz"
    /\ head.mailbox.status \in {2, 3}
    /\ head.mailbox.status = 2 =>
         core = "done" /\ head.mailbox.irqs = N * RUNS /\ head.mailbox.runs[RUNS] = stat
    /\ hpc = "samples" => head.mailbox.status = 2
    /\ glitches = 0 => head.mailbox.status = 2 /\ head.taken = N * RUNS

GateInv ==
  /\ ClockInv /\ CoreInv /\ MailInv /\ HostTypes /\ HeadInv
  /\ OwnResult /\ RaisedForCause

-----------------------------------------------------------------------------
LEMMA NoSampleTyped == NoSample \in Sample /\ NoStat \in Stat
BY BoundAssumption DEF NoSample, Sample, NoStat, Stat

LEMMA AccountTyped == ASSUME NEW s \in Sample, stat \in Stat PROVE Account(s) \in Stat
BY DEF Account, Sample, Stat

(* What a nonempty FIFO is made of.                                          *)
LEMMA Popped ==
  ASSUME NEW q \in Seq(Sample), q # <<>>
  PROVE  /\ Head(q) \in Sample /\ Head(q) = q[1]
         /\ Tail(q) \in Seq(Sample) /\ Len(Tail(q)) = Len(q) - 1
BY HeadTailProperties

LEMMA MainTypes == ASSUME FirmwareTypes, LoopInv, Main PROVE FirmwareTypes'
<1> USE DEF FirmwareTypes, At, pins, handler, counter, loop
<1>1. core' \in Labels
  BY DEF Main, Labels, Setup, Closing, EnablePio, AckEvents, EnableIrq, Pulse, HandlerSeen, Pop,
     LowerC, LowerA, NextPulse, NextRun, DisableIrq, Report, GiveUp
<1>2. CASE EnablePio  BY <1>1, <1>2 DEF EnablePio
<1>3. CASE AckEvents  BY <1>1, <1>3 DEF AckEvents
<1>4. CASE EnableIrq  BY <1>1, <1>4 DEF EnableIrq
<1>5. CASE Pulse      BY <1>1, <1>5 DEF Pulse
<1>6. CASE HandlerSeen BY <1>1, <1>6 DEF HandlerSeen
<1>7. CASE Pop
  <2>1. Head(rx) \in Sample /\ Tail(rx) \in Seq(Sample)
    BY <1>7, Popped DEF Pop
  <2>2. rx' \in Seq(Sample) /\ samples' \in Seq(Sample) /\ stat' \in Stat
    BY <1>7, <2>1, AccountTyped DEF Pop
  <2>3. QED
    BY <1>1, <1>7, <2>2 DEF Pop
<1>8. CASE LowerC     BY <1>1, <1>8 DEF LowerC
<1>9. CASE LowerA     BY <1>1, <1>9 DEF LowerA
<1>10. CASE NextPulse BY <1>1, <1>10 DEF NextPulse
<1>11. CASE NextRun
  <2>1. r < RUNS /\ r' = r + 1
    BY <1>11 DEF NextRun, LoopInv, Closing
  <2>2. r' \in 0 .. RUNS
    BY <2>1, NumberAssumption
  <2>3. samples' \in Seq(Sample) /\ stat' \in Stat
    <3>1. CASE r + 1 < RUNS
      BY <1>11, <3>1, NoSampleTyped DEF NextRun, Restart
    <3>2. CASE ~(r + 1 < RUNS)
      BY <1>11, <3>2 DEF NextRun
    <3>3. QED
      BY <3>1, <3>2
  <2>4. QED
    BY <1>1, <1>11, <2>2, <2>3 DEF NextRun
<1>12. CASE DisableIrq BY <1>1, <1>12 DEF DisableIrq
<1>13. CASE Report    BY <1>1, <1>13 DEF Report
<1>14. CASE GiveUp    BY <1>1, <1>14 DEF GiveUp, Fail
<1>15. QED
  BY <1>2, <1>3, <1>4, <1>5, <1>6, <1>7, <1>8, <1>9, <1>10, <1>11, <1>12, <1>13, <1>14 DEF Main

LEMMA OtherTypes == ASSUME FirmwareTypes, Isr \/ Pio \/ Glitch PROVE FirmwareTypes'
<1> USE DEF FirmwareTypes, pins, handler, counter, loop, PioKeeps
<1>1. CASE Enter   BY <1>1 DEF Enter
<1>2. CASE RaiseC  BY <1>2 DEF RaiseC
<1>3. CASE Ack     BY <1>3 DEF Ack
<1>4. CASE Count   BY <1>4 DEF Count
<1>5. CASE WaitLow BY <1>5 DEF WaitLow
<1>6. CASE WaitHigh
  <2>1. total \in Nat /\ x' = [NoSample EXCEPT !.pulse = total]
    BY <1>6 DEF WaitHigh
  <2>2. x' \in Sample
    BY <2>1, NoSampleTyped, Zenon DEF Sample
  <2>3. QED
    BY <1>6, <2>2 DEF WaitHigh
<1>7. CASE JmpX
  <2>1. x \in Sample /\ x.n < MaxCount /\ x' = [x EXCEPT !.n = @ + 1]
    BY <1>7 DEF JmpX
  <2>2. x' \in Sample
    <3>1. x.n + 1 \in 0 .. MaxCount
      BY <2>1, BoundAssumption DEF Sample
    <3>2. QED
      BY <2>1, <3>1, Zenon DEF Sample
  <2>3. QED
    BY <1>7, <2>2 DEF JmpX
<1>8. CASE JmpPin
  <2>1. x \in Sample /\ taken \in Nat /\ x' = [x EXCEPT !.handler = taken]
    BY <1>8 DEF JmpPin
  <2>2. x' \in Sample
    BY <2>1, Zenon DEF Sample
  <2>3. QED
    BY <1>8, <2>2 DEF JmpPin
<1>9. CASE Push    BY <1>9 DEF Push
<1>10. CASE Glitch BY <1>10 DEF Glitch
<1>11. QED
  BY <1>1, <1>2, <1>3, <1>4, <1>5, <1>6, <1>7, <1>8, <1>9, <1>10 DEF Isr, Pio

(* Pulses and samples.                                                      *)
LEMMA LoopKept == ASSUME LoopInv, UNCHANGED <<core, total, r, samples>> PROVE LoopInv'
<1>1. Before' = Before
  BY DEF Before
<1>2. QED
  BY <1>1 DEF LoopInv

LEMMA StartLoop ==
  ASSUME core' = "enable", r' = 0, total' = 0, samples' = <<>> PROVE LoopInv'
<1>1. Before' = 0
  BY NumberAssumption DEF Before
<1>2. QED
  BY <1>1, NumberAssumption DEF LoopInv, Setup, Closing

LEMMA BeforeIsNat == ASSUME FirmwareTypes PROVE Before \in Nat
<1>1. PICK b \in Nat : b = IF r = RUNS THEN RUNS - 1 ELSE r
  BY NumberAssumption DEF FirmwareTypes
<1>2. QED
  BY <1>1, NumberAssumption DEF Before

LEMMA BeforeNextRun ==
  ASSUME FirmwareTypes, r < RUNS, r' = r + 1
  PROVE  Before' = IF r' < RUNS THEN Before + N ELSE Before
<1>1. r \in Nat /\ RUNS \in Nat /\ N \in Nat
  BY NumberAssumption DEF FirmwareTypes
<1>2. N * (r + 1) = N * r + N
  BY <1>1
<1>3. QED
  BY <1>1, <1>2 DEF Before

LEMMA LoopStep == ASSUME FirmwareTypes, LoopInv, Next PROVE LoopInv'
<1>1. Before \in Nat /\ N \in Nat \ {0} /\ Len(samples) \in Nat /\ total \in Nat /\ r \in Nat /\ RUNS \in Nat
  BY BeforeIsNat, NumberAssumption DEF FirmwareTypes
<1>2. CASE UNCHANGED <<core, total, r, samples>>
  BY <1>2, LoopKept
<1>3. CASE \/ EnablePio \/ AckEvents \/ EnableIrq \/ HandlerSeen \/ LowerC \/ LowerA
           \/ NextPulse \/ DisableIrq \/ Report \/ GiveUp
  <2>1. UNCHANGED <<total, r, samples>>
    BY <1>3 DEF EnablePio, AckEvents, EnableIrq, HandlerSeen, LowerC, LowerA, NextPulse,
       DisableIrq, Report, GiveUp, Fail, loop
  <2>2. Before' = Before
    BY <2>1 DEF Before
  <2> USE <1>1, <2>1, <2>2 DEF LoopInv, At, Setup, Closing
  <2>3. CASE EnablePio  BY <2>3 DEF EnablePio
  <2>4. CASE AckEvents  BY <2>4 DEF AckEvents
  <2>5. CASE EnableIrq  BY <2>5 DEF EnableIrq
  <2>6. CASE HandlerSeen BY <2>6 DEF HandlerSeen
  <2>7. CASE LowerC     BY <2>7 DEF LowerC
  <2>8. CASE LowerA     BY <2>8 DEF LowerA
  <2>9. CASE NextPulse  BY <2>9 DEF NextPulse
  <2>10. CASE DisableIrq BY <2>10 DEF DisableIrq
  <2>11. CASE Report    BY <2>11 DEF Report
  <2>12. CASE GiveUp    BY <2>12 DEF GiveUp
  <2>13. QED
    BY <1>3, <2>3, <2>4, <2>5, <2>6, <2>7, <2>8, <2>9, <2>10, <2>11, <2>12
<1>4. CASE Pulse
  <2>1. Before' = Before
    BY <1>4 DEF Before, Pulse
  <2>2. /\ core = "pulse" /\ core' = "spin" /\ total' = total + 1
        /\ samples' = samples /\ r' = r
    BY <1>4 DEF Pulse, At
  <2>3. QED
    BY <1>1, <2>1, <2>2 DEF LoopInv, Setup, Closing
<1>5. CASE Pop
  <2>1. Before' = Before
    BY <1>5 DEF Before, Pop
  <2>2. core = "rx" /\ core' = "lowC" /\ total' = total /\ r' = r
    BY <1>5 DEF Pop, At
  <2>3. Len(samples') = Len(samples) + 1
    BY <1>5 DEF Pop, FirmwareTypes
  <2>4. QED
    BY <1>1, <2>1, <2>2, <2>3 DEF LoopInv, Setup, Closing
<1>6. CASE NextRun
  <2>1. /\ core = "sleep" /\ r < RUNS /\ Len(samples) = N /\ total' = total /\ r' = r + 1
        /\ total = Before + N
    BY <1>6 DEF NextRun, At, LoopInv, Closing
  <2>2. Before' = IF r' < RUNS THEN Before + N ELSE Before
    BY <2>1, BeforeNextRun
  <2>3. CASE r + 1 < RUNS
    <3>1. core' = "pulse" /\ samples' = <<>> /\ Len(samples') = 0
      BY <1>6, <2>3 DEF NextRun, At
    <3>2. QED
      BY <1>1, <2>1, <2>2, <2>3, <3>1 DEF LoopInv, Setup, Closing
  <2>4. CASE ~(r + 1 < RUNS)
    <3>1. core' = "disable" /\ samples' = samples
      BY <1>6, <2>4 DEF NextRun, At
    <3>2. QED
      BY <1>1, <2>1, <2>2, <2>4, <3>1 DEF LoopInv, Setup, Closing
  <2>5. QED
    BY <2>3, <2>4
<1>7. QED
  BY <1>2, <1>3, <1>4, <1>5, <1>6 DEF Next, Main, Isr, Pio, Glitch, loop, PioKeeps,
     Enter, RaiseC, Ack, Count, WaitLow, WaitHigh, JmpX, JmpPin, Push

(* Without stray edges: one handler for each pulse.                           *)
LEMMA HandlerStep ==
  ASSUME FirmwareTypes, LoopInv, HandlerInv, Main \/ Isr \/ Pio PROVE HandlerInv'
<1> USE DEF FirmwareTypes, LoopInv, HandlerInv, Served, Serving, Labels, Setup, Closing, At, pins,
            handler, counter, loop, PioKeeps
<1>1. CASE EnablePio   BY <1>1 DEF EnablePio
<1>2. CASE AckEvents   BY <1>2 DEF AckEvents
<1>3. CASE EnableIrq   BY <1>3 DEF EnableIrq
<1>4. CASE Pulse       BY <1>4 DEF Pulse
<1>5. CASE HandlerSeen BY <1>5 DEF HandlerSeen
<1>6. CASE Pop         BY <1>6 DEF Pop
<1>7. CASE LowerC      BY <1>7 DEF LowerC
<1>8. CASE LowerA      BY <1>8 DEF LowerA
<1>9. CASE NextPulse   BY <1>9 DEF NextPulse
<1>10. CASE NextRun     BY <1>10 DEF NextRun
<1>11. CASE DisableIrq  BY <1>11 DEF DisableIrq
<1>12. CASE Report      BY <1>12 DEF Report
<1>13. CASE GiveUp      BY <1>13 DEF GiveUp, Fail
<1>14. CASE Enter       BY <1>14 DEF Enter
<1>15. CASE RaiseC      BY <1>15 DEF RaiseC
<1>16. CASE Ack         BY <1>16 DEF Ack
<1>17. CASE Count       BY <1>17 DEF Count
<1>18. CASE WaitLow     BY <1>18 DEF WaitLow
<1>19. CASE WaitHigh    BY <1>19 DEF WaitHigh
<1>20. CASE JmpX        BY <1>20 DEF JmpX
<1>21. CASE JmpPin      BY <1>21 DEF JmpPin
<1>22. CASE Push        BY <1>22 DEF Push
<1>23. QED
  BY <1>1, <1>2, <1>3, <1>4, <1>5, <1>6, <1>7, <1>8, <1>9, <1>10, <1>11, <1>12, <1>13, <1>14, <1>15, <1>16, <1>17, <1>18, <1>19, <1>20, <1>21, <1>22
     DEF Main, Isr, Pio

(* Without stray edges: one sample for each pulse, taken of its handler.       *)
LEMMA CounterStep ==
  ASSUME FirmwareTypes, LoopInv, HandlerInv, CounterInv, Main \/ Isr \/ Pio PROVE CounterInv'
<1> USE DEF FirmwareTypes, LoopInv, HandlerInv, CounterInv, Counted, Served, Serving, Labels,
            Setup, Closing, At, pins, handler, counter, loop, PioKeeps
<1>1. CASE EnablePio   BY <1>1 DEF EnablePio
<1>2. CASE AckEvents   BY <1>2 DEF AckEvents
<1>3. CASE EnableIrq   BY <1>3 DEF EnableIrq
<1>4. CASE Pulse       BY <1>4 DEF Pulse
<1>5. CASE HandlerSeen BY <1>5 DEF HandlerSeen
<1>6. CASE Pop
  <2>1. rx' = Tail(rx) /\ Len(rx) = 1 /\ pio = "arm"
    BY <1>6 DEF Pop
  <2>2. rx' = <<>>
    BY <2>1, Popped
  <2>3. QED
    BY <1>6, <2>1, <2>2 DEF Pop
<1>7. CASE LowerC      BY <1>7 DEF LowerC
<1>8. CASE LowerA      BY <1>8 DEF LowerA
<1>9. CASE NextPulse   BY <1>9 DEF NextPulse
<1>10. CASE NextRun     BY <1>10 DEF NextRun
<1>11. CASE DisableIrq  BY <1>11 DEF DisableIrq
<1>12. CASE Report      BY <1>12 DEF Report
<1>13. CASE GiveUp      BY <1>13 DEF GiveUp, Fail
<1>14. CASE Enter       BY <1>14 DEF Enter
<1>15. CASE RaiseC      BY <1>15 DEF RaiseC
<1>16. CASE Ack         BY <1>16 DEF Ack
<1>17. CASE Count       BY <1>17 DEF Count
<1>18. CASE WaitLow     BY <1>18 DEF WaitLow
<1>19. CASE WaitHigh    BY <1>19 DEF WaitHigh
<1>20. CASE JmpX        BY <1>20 DEF JmpX
<1>21. CASE JmpPin      BY <1>21 DEF JmpPin
<1>22. CASE Push
  <2>1. pio = "push" /\ pio' = "arm" /\ rx' = Append(rx, x) /\ UNCHANGED <<pins, core, total>>
    BY <1>22 DEF Push
  <2>2. CASE core = "failed"
    BY <2>1, <2>2
  <2>3. CASE core # "failed"
    <3>1. core \in {"spin", "rx"}
      BY <2>1, <2>3
    <3>2. rx = <<>> /\ x.pulse = total /\ x.handler = total /\ a = 1 /\ x \in Sample
      BY <2>1, <3>1
    <3>3. Len(rx') = 1 /\ rx'[1] = x
      BY <2>1, <3>2
    <3>4. QED
      BY <2>1, <3>1, <3>2, <3>3
  <2>4. QED
    BY <2>2, <2>3
<1>23. QED
  BY <1>1, <1>2, <1>3, <1>4, <1>5, <1>6, <1>7, <1>8, <1>9, <1>10, <1>11, <1>12, <1>13,
     <1>14, <1>15, <1>16, <1>17, <1>18, <1>19, <1>20, <1>21, <1>22
     DEF Main, Isr, Pio

(* Without stray edges and with waits as meant: no spin loop ends early.       *)
LEMMA ReadyStep ==
  ASSUME FirmwareTypes, LoopInv, HandlerInv, CounterInv, ReadyInv, Main \/ Isr \/ Pio
  PROVE  ReadyInv'
<1> USE DEF FirmwareTypes, LoopInv, HandlerInv, CounterInv, ReadyInv, Rested, Served, Serving,
            Labels, Setup, Closing, At, pins, handler, counter, loop, PioKeeps
<1>1. CASE EnablePio   BY <1>1 DEF EnablePio
<1>2. CASE AckEvents   BY <1>2 DEF AckEvents
<1>3. CASE EnableIrq   BY <1>3 DEF EnableIrq
<1>4. CASE Pulse       BY <1>4 DEF Pulse
<1>5. CASE HandlerSeen BY <1>5 DEF HandlerSeen
<1>6. CASE Pop         BY <1>6 DEF Pop
<1>7. CASE LowerC      BY <1>7 DEF LowerC
<1>8. CASE LowerA      BY <1>8 DEF LowerA
<1>9. CASE NextPulse   BY <1>9 DEF NextPulse
<1>10. CASE NextRun     BY <1>10 DEF NextRun
<1>11. CASE DisableIrq  BY <1>11 DEF DisableIrq
<1>12. CASE Report      BY <1>12 DEF Report
<1>13. CASE GiveUp      BY <1>13 DEF GiveUp, Fail
<1>14. CASE Enter       BY <1>14 DEF Enter
<1>15. CASE RaiseC      BY <1>15 DEF RaiseC
<1>16. CASE Ack         BY <1>16 DEF Ack
<1>17. CASE Count       BY <1>17 DEF Count
<1>18. CASE WaitLow     BY <1>18 DEF WaitLow
<1>19. CASE WaitHigh    BY <1>19 DEF WaitHigh
<1>20. CASE JmpX        BY <1>20 DEF JmpX
<1>21. CASE JmpPin      BY <1>21 DEF JmpPin
<1>22. CASE Push
  <2>1. pio = "push" /\ rx' = Append(rx, x) /\ rx' # <<>> /\ UNCHANGED <<core, timely>>
    BY <1>22 DEF Push
  <2>2. QED
    BY <2>1
<1>23. QED
  BY <1>1, <1>2, <1>3, <1>4, <1>5, <1>6, <1>7, <1>8, <1>9, <1>10, <1>11, <1>12, <1>13,
     <1>14, <1>15, <1>16, <1>17, <1>18, <1>19, <1>20, <1>21, <1>22
     DEF Main, Isr, Pio

(* Without stray edges: a sample that is popped is that of the last pulse.     *)
LEMMA SamplesStep ==
  ASSUME FirmwareTypes, LoopInv, CounterInv, SampleIsItsPulse, glitches = 0, Main \/ Isr \/ Pio
  PROVE  SampleIsItsPulse'
<1>1. CASE Pop
  <2>1. Before' = Before
    BY <1>1 DEF Before, Pop
  <2>2. /\ rx # <<>> /\ rx \in Seq(Sample) /\ samples \in Seq(Sample)
        /\ samples' = Append(samples, Head(rx)) /\ total = Before + Len(samples) + 1
    BY <1>1 DEF Pop, At, LoopInv, FirmwareTypes
  <2>3. Head(rx) \in Sample /\ Head(rx).pulse = total /\ Head(rx).handler = total
    BY <1>1, <2>2, Popped DEF Pop, At, CounterInv, Counted
  <2>4. ASSUME NEW p \in 1 .. Len(samples')
        PROVE  samples'[p].pulse = Before + p /\ samples'[p].handler = Before + p
    <3>1. CASE p \in 1 .. Len(samples)
      <4>1. samples'[p] = samples[p]
        BY <2>2, <2>3, <3>1
      <4>2. samples[p].pulse = Before + p /\ samples[p].handler = Before + p
        BY <3>1 DEF SampleIsItsPulse
      <4>3. QED
        BY <4>1, <4>2
    <3>2. CASE p = Len(samples) + 1
      <4>1. samples'[p] = Head(rx)
        BY <2>2, <2>3, <3>2
      <4>2. Before \in Nat /\ Len(samples) \in Nat
        BY <2>2, BeforeIsNat
      <4>3. Before + p = total
        BY <2>2, <3>2, <4>2
      <4>4. QED
        BY <2>3, <4>1, <4>3
    <3>3. QED
      BY <2>2, <2>3, <3>1, <3>2
  <2>5. QED
    BY <2>1, <2>4 DEF SampleIsItsPulse
<1>2. CASE NextRun
  <2>1. CASE r + 1 < RUNS
    <3>1. samples' = <<>>
      BY <1>2, <2>1 DEF NextRun
    <3>2. QED
      BY <3>1 DEF SampleIsItsPulse
  <2>2. CASE ~(r + 1 < RUNS)
    <3>1. r < RUNS /\ r' = r + 1 /\ samples' = samples
      BY <1>2, <2>2 DEF NextRun, At, LoopInv, Closing
    <3>2. Before' = Before
      BY <2>2, <3>1, BeforeNextRun
    <3>3. QED
      BY <3>1, <3>2 DEF SampleIsItsPulse
  <2>3. QED
    BY <2>1, <2>2
<1>3. CASE UNCHANGED <<r, samples>>
  <2>1. Before' = Before
    BY <1>3 DEF Before
  <2>2. QED
    BY <1>3, <2>1 DEF SampleIsItsPulse
<1>4. QED
  BY <1>1, <1>2, <1>3 DEF Main, Isr, Pio, loop, PioKeeps, EnablePio, AckEvents, EnableIrq, Pulse,
     HandlerSeen, LowerC, LowerA, NextPulse, DisableIrq, Report, GiveUp, Fail,
     Enter, RaiseC, Ack, Count, WaitLow, WaitHigh, JmpX, JmpPin, Push

LEMMA PulseStep == ASSUME FirmwareTypes, LoopInv, PulseInv, Next PROVE PulseInv'
<1>1. CASE glitches' # 0
  BY <1>1 DEF PulseInv
<1>2. CASE glitches' = 0
  <2>1. ~Glitch /\ glitches = 0
    BY <1>2 DEF Next, Main, Isr, Pio, Glitch, FirmwareTypes, PioKeeps, EnablePio, AckEvents,
       EnableIrq, Pulse, HandlerSeen, Pop, LowerC, LowerA, NextPulse, NextRun, DisableIrq, Report,
       GiveUp, Fail, Enter, RaiseC, Ack, Count, WaitLow, WaitHigh, JmpX, JmpPin, Push
  <2>2. Main \/ Isr \/ Pio
    BY <2>1 DEF Next
  <2>3. HandlerInv /\ CounterInv /\ ReadyInv /\ SampleIsItsPulse
    BY <2>1 DEF PulseInv
  <2>4. HandlerInv' /\ CounterInv' /\ ReadyInv' /\ SampleIsItsPulse'
    BY <2>1, <2>2, <2>3, HandlerStep, CounterStep, ReadyStep, SamplesStep
  <2>5. QED
    BY <2>4 DEF PulseInv
<1>3. QED
  BY <1>1, <1>2

LEMMA PulseKept ==
  ASSUME PulseInv, UNCHANGED <<pins, latch, nvic, handler, counter, core, total, r, samples,
                               glitches, timely>>
  PROVE  PulseInv'
<1> USE DEF pins, handler, counter
<1>1. Before' = Before
  BY DEF Before
<1>2. HandlerInv => HandlerInv'
  BY DEF HandlerInv, Served, Serving, Setup
<1>3. CounterInv => CounterInv'
  BY DEF CounterInv, Counted
<1>4. ReadyInv => ReadyInv'
  BY DEF ReadyInv
<1>5. SampleIsItsPulse => SampleIsItsPulse'
  BY <1>1 DEF SampleIsItsPulse
<1>6. QED
  BY <1>2, <1>3, <1>4, <1>5 DEF PulseInv

(* The statistics.                                                          *)
LEMMA AccountBounds ==
  ASSUME FirmwareTypes, StatInv, NEW s \in Sample, NEW t, t = Account(s)
  PROVE  /\ t \in Stat /\ t.sum = stat.sum + s.n
         /\ t.mn <= s.n /\ s.n <= t.mx /\ t.mn <= stat.mn /\ stat.mx <= t.mx
         /\ t.mn = s.n \/ t.mn = stat.mn
         /\ t.mx = s.n \/ t.mx = stat.mx
         /\ samples = <<>> => t.mn = s.n /\ t.mx = s.n
<1>1. /\ s.n \in 0 .. MaxCount /\ stat \in Stat /\ stat.mn \in Nat /\ stat.mx \in Nat /\ stat.sum \in Nat
  BY DEF FirmwareTypes, Stat, Sample
<1>2. /\ t.mn = (IF s.n < stat.mn THEN s.n ELSE stat.mn)
      /\ t.mx = (IF s.n > stat.mx THEN s.n ELSE stat.mx)
      /\ t.sum = stat.sum + s.n
  BY DEF Account
<1>3. samples = <<>> => stat.mn = MaxCount + 1 /\ stat.mx = 0
  BY DEF StatInv, NoStat
<1>4. t \in Stat
  BY <1>1, AccountTyped
<1>5. QED
  BY <1>1, <1>2, <1>3, <1>4, BoundAssumption

LEMMA StartStat == ASSUME samples' = <<>>, stat' = NoStat PROVE StatInv'
<1> DEFINE f == [p \in 0 .. N |-> 0]
<1>1. f \in [0 .. N -> Nat] /\ f[0] = 0 /\ NoStat.sum = 0
  BY NumberAssumption DEF NoStat
<1>2. Len(samples') = 0
  OBVIOUS
<1>3. \E g \in [0 .. N -> Nat] :
        /\ g[0] = 0 /\ g[Len(samples')] = stat'.sum
        /\ \A p \in 1 .. Len(samples') : g[p] = g[p - 1] + samples'[p].n
  <2>1. \A p \in 1 .. Len(samples') : f[p] = f[p - 1] + samples'[p].n
    BY <1>2
  <2>2. QED
    BY <1>1, <1>2, <2>1
<1>4. \E g \in [0 .. N -> Nat] : Sums(g)' /\ g[Len(samples')] = stat'.sum
  BY <1>3 DEF Sums
<1>5. \A p \in 1 .. Len(samples') : stat'.mn <= samples'[p].n /\ samples'[p].n <= stat'.mx
  BY <1>2
<1>6. QED
  BY <1>4, <1>5 DEF StatInv, NoStat

LEMMA PopStat == ASSUME FirmwareTypes, LoopInv, StatInv, Pop PROVE StatInv'
<1>1. PICK s \in Sample : samples' = Append(samples, s) /\ stat' = Account(s)
  BY Popped DEF Pop, FirmwareTypes
<1>2. PICK t : t = Account(s) /\ stat' = t
  BY <1>1
<1>3. PICK L \in Nat : L = Len(samples) /\ L < N
  BY DEF FirmwareTypes, LoopInv, Pop, At
<1>4. /\ samples \in Seq(Sample) /\ N \in Nat /\ stat \in Stat
      /\ stat.mn \in Nat /\ stat.mx \in Nat /\ stat.sum \in Nat
  BY NumberAssumption DEF FirmwareTypes, Stat
<1>5. PICK q : q = samples'
  OBVIOUS
<1>6. /\ Len(q) = L + 1 /\ q[L + 1] = s /\ q # <<>>
      /\ \A p \in 1 .. L : q[p] = samples[p]
  BY <1>1, <1>3, <1>4, <1>5
<1>7. /\ t \in Stat /\ t.sum = stat.sum + s.n
      /\ t.mn <= s.n /\ s.n <= t.mx /\ t.mn <= stat.mn /\ stat.mx <= t.mx
      /\ t.mn = s.n \/ t.mn = stat.mn
      /\ t.mx = s.n \/ t.mx = stat.mx
      /\ samples = <<>> => t.mn = s.n /\ t.mx = s.n
  BY <1>2, AccountBounds
<1>8. t.mn \in Nat /\ t.mx \in Nat /\ s.n \in Nat
  BY <1>7, BoundAssumption DEF Stat, Sample
<1>9. \A p \in 1 .. Len(q) : t.mn <= q[p].n /\ q[p].n <= t.mx
  <2> SUFFICES ASSUME NEW p \in 1 .. Len(q) PROVE t.mn <= q[p].n /\ q[p].n <= t.mx
    OBVIOUS
  <2>1. CASE p = L + 1
    BY <1>6, <1>7, <2>1
  <2>2. CASE p \in 1 .. L
    <3>1. stat.mn <= samples[p].n /\ samples[p].n <= stat.mx /\ samples[p] \in Sample
      BY <1>3, <1>4, <2>2 DEF StatInv
    <3>2. samples[p].n \in Nat /\ q[p] = samples[p]
      BY <1>6, <2>2, <3>1, BoundAssumption DEF Sample
    <3>3. QED
      BY <1>4, <1>7, <1>8, <3>1, <3>2
  <2>3. QED
    BY <1>3, <1>6, <2>1, <2>2
<1>10. (\E p \in 1 .. Len(q) : t.mn = q[p].n) /\ (\E p \in 1 .. Len(q) : t.mx = q[p].n)
  <2>1. L + 1 \in 1 .. Len(q)
    BY <1>3, <1>6
  <2>2. samples # <<>> => /\ \E p \in 1 .. L : stat.mn = q[p].n
                        /\ \E p \in 1 .. L : stat.mx = q[p].n
    BY <1>3, <1>6 DEF StatInv
  <2>3. 1 .. L \subseteq 1 .. Len(q)
    BY <1>3, <1>6
  <2>4. CASE samples = <<>>
    BY <1>6, <1>7, <2>1, <2>4
  <2>5. CASE samples # <<>>
    <3>1. \E p \in 1 .. Len(q) : t.mn = q[p].n
      BY <1>6, <1>7, <2>1, <2>2, <2>3, <2>5
    <3>2. \E p \in 1 .. Len(q) : t.mx = q[p].n
      BY <1>6, <1>7, <2>1, <2>2, <2>3, <2>5
    <3>3. QED
      BY <3>1, <3>2
  <2>6. QED
    BY <2>4, <2>5
<1>11. \E f \in [0 .. N -> Nat] :
         /\ f[0] = 0 /\ f[Len(q)] = t.sum
         /\ \A p \in 1 .. Len(q) : f[p] = f[p - 1] + q[p].n
  <2>1. PICK f \in [0 .. N -> Nat] : Sums(f) /\ f[L] = stat.sum
    BY <1>3 DEF StatInv
  <2> DEFINE g == [f EXCEPT ![L + 1] = stat.sum + s.n]
  <2>2. g \in [0 .. N -> Nat]
    <3>1. stat.sum + s.n \in Nat
      BY <1>4, <1>8
    <3>2. QED
      BY <3>1
  <2>3. \A p \in 0 .. L : g[p] = f[p]
    BY <1>3, <1>4
  <2>4. g[L + 1] = stat.sum + s.n
    BY <1>3, <1>4
  <2>5. g[0] = 0
    BY <1>3, <2>1, <2>3 DEF Sums
  <2>6. ASSUME NEW p \in 1 .. Len(q) PROVE g[p] = g[p - 1] + q[p].n
    <3>1. CASE p = L + 1
      <4>1. p - 1 = L /\ L \in 0 .. L
        BY <1>3, <3>1
      <4>2. g[p - 1] = stat.sum
        BY <2>1, <2>3, <4>1
      <4>3. QED
        BY <1>6, <2>4, <3>1, <4>2
    <3>2. CASE p \in 1 .. L
      <4>1. p \in 0 .. L /\ p - 1 \in 0 .. L
        BY <1>3, <3>2
      <4>2. g[p] = f[p] /\ g[p - 1] = f[p - 1]
        BY <2>3, <4>1
      <4>3. f[p] = f[p - 1] + samples[p].n
        BY <1>3, <2>1, <3>2 DEF Sums
      <4>4. QED
        BY <1>6, <3>2, <4>2, <4>3
    <3>3. QED
      BY <1>3, <1>6, <3>1, <3>2
  <2>7. g[Len(q)] = t.sum
    BY <1>6, <1>7, <2>4
  <2>8. QED
    BY <2>2, <2>5, <2>6, <2>7
<1>12. q # <<>>
  BY <1>6
<1>13. QED
  BY <1>2, <1>5, <1>9, <1>10, <1>11, <1>12 DEF StatInv, Sums

LEMMA StatStep == ASSUME FirmwareTypes, LoopInv, StatInv, Next PROVE StatInv'
<1>1. CASE Pop
  BY <1>1, PopStat
<1>2. CASE NextRun /\ r + 1 < RUNS
  BY <1>2, StartStat DEF NextRun, Restart
<1>3. CASE UNCHANGED <<samples, stat>>
  BY <1>3 DEF StatInv, Sums
<1>4. QED
  BY <1>1, <1>2, <1>3 DEF Next, Main, Isr, Pio, Glitch, loop, PioKeeps, EnablePio, AckEvents,
     EnableIrq, Pulse, HandlerSeen, LowerC, LowerA, NextPulse, NextRun, DisableIrq, Report, GiveUp,
     Fail, Enter, RaiseC, Ack, Count, WaitLow, WaitHigh, JmpX, JmpPin, Push

LEMMA SramStep == ASSUME FirmwareTypes, LoopInv, SramInv, Runs(Next) PROVE SramInv'
<1>1. CASE Pop
  <2>1. PICK s \in Sample : samples' = Append(samples, s)
    BY <1>1, Popped DEF Pop, FirmwareTypes
  <2>2. PICK L \in Nat : L = Len(samples) /\ L < N
    BY <1>1 DEF FirmwareTypes, LoopInv, Pop, At
  <2>3. PICK q : q = samples'
    OBVIOUS
  <2>4. /\ Len(q) = L + 1 /\ q[L + 1] = s /\ s.n \in Nat
        /\ \A p \in 1 .. L : q[p] = samples[p]
    BY <2>1, <2>2, <2>3, BoundAssumption DEF FirmwareTypes, Sample
  <2>5. r' = r /\ r \in Nat /\ RUNS \in Nat /\ r < RUNS /\ N \in Nat
    BY <1>1, NumberAssumption DEF Pop, At, LoopInv, Closing, FirmwareTypes
  <2>6. CASE r = RUNS - 1
    <3>1. sram' = [sram EXCEPT ![L + 1] = s.n]
      BY <2>2, <2>3, <2>4, <2>6 DEF Runs
    <3>2. sram \in [1 .. N -> Nat] /\ L + 1 \in 1 .. N
      BY <2>2, <2>5 DEF SramInv
    <3>3. sram' \in [1 .. N -> Nat] /\ sram'[L + 1] = s.n
      BY <2>4, <3>1, <3>2
    <3>4. ASSUME NEW p \in 1 .. L PROVE sram'[p] = q[p].n
      <4>1. sram'[p] = sram[p]
        BY <2>2, <2>5, <3>1, <3>2
      <4>2. QED
        BY <2>2, <2>4, <2>5, <2>6, <4>1 DEF SramInv
    <3>5. \A p \in 1 .. Len(q) : sram'[p] = q[p].n
      BY <2>2, <2>4, <3>3, <3>4
    <3>6. QED
      BY <2>3, <3>3, <3>5 DEF SramInv
  <2>7. CASE r # RUNS - 1
    BY <2>5, <2>7 DEF SramInv, Runs
  <2>8. QED
    BY <2>6, <2>7
<1>2. CASE NextRun
  <2>1. r \in Nat /\ RUNS \in Nat /\ r' = r + 1 /\ r < RUNS /\ Len(samples) \in Nat
    BY <1>2, NumberAssumption DEF NextRun, At, LoopInv, Closing, FirmwareTypes
  <2>2. samples' = <<>> \/ (samples' = samples /\ r = RUNS - 1)
    BY <1>2, <2>1 DEF NextRun
  <2>3. ~(Len(samples') > Len(samples))
    BY <2>1, <2>2
  <2>4. sram' = sram
    BY <2>3 DEF Runs
  <2>5. CASE samples' = <<>>
    BY <2>4, <2>5 DEF SramInv
  <2>6. CASE samples' = samples /\ r = RUNS - 1
    BY <2>1, <2>4, <2>6 DEF SramInv
  <2>7. QED
    BY <2>2, <2>5, <2>6
<1>3. CASE UNCHANGED <<r, samples>>
  <2>1. ~(Len(samples') > Len(samples))
    BY <1>3 DEF FirmwareTypes
  <2>2. sram' = sram
    BY <2>1 DEF Runs
  <2>3. QED
    BY <1>3, <2>2 DEF SramInv
<1>4. QED
  BY <1>1, <1>2, <1>3 DEF Runs, Next, Main, Isr, Pio, Glitch, loop, PioKeeps, EnablePio, AckEvents,
     EnableIrq, Pulse, HandlerSeen, LowerC, LowerA, NextPulse, DisableIrq, Report, GiveUp,
     Fail, Enter, RaiseC, Ack, Count, WaitLow, WaitHigh, JmpX, JmpPin, Push

(* A nonempty set of naturals has a least member.                             *)
LEMMA LeastMember ==
  ASSUME NEW T \in SUBSET Nat, T # {} PROVE \E m \in T : \A y \in T : m <= y
<1> DEFINE R == {ss \in Nat \X Nat : ss[1] < ss[2]}
<1>1. IsWellFoundedOn(R, Nat)
  BY NatLessThanWellFounded DEF OpToRel
<1>2. PICK m \in T : \A y \in T : ~(<<y, m>> \in R)
  BY <1>1, WFMin
<1>3. ASSUME NEW y \in T PROVE m <= y
  <2>1. ~(<<y, m>> \in R) /\ <<y, m>> \in Nat \X Nat /\ y \in Nat /\ m \in Nat
    BY <1>2
  <2>2. ~(y < m)
    BY <2>1
  <2>3. QED
    BY <2>1, <2>2
<1>4. QED
  BY <1>3

(* So two functions that add up the same samples agree: they cannot differ at   *)
(* a first place.                                                           *)
LEMMA SumsAgree ==
  ASSUME NEW n \in Nat, NEW f, NEW g, f[0] = 0, g[0] = 0,
         \A p \in 1 .. n : f[p] = f[p - 1] + sram[p],
         \A p \in 1 .. n : g[p] = g[p - 1] + sram[p]
  PROVE  f[n] = g[n]
<1> DEFINE T == {p \in 0 .. n : f[p] # g[p]}
<1>1. ASSUME T # {} PROVE FALSE
  <2>1. T \in SUBSET Nat
    OBVIOUS
  <2>2. PICK m \in T : \A y \in T : m <= y
    BY <1>1, <2>1, LeastMember
  <2>3. m \in 0 .. n /\ f[m] # g[m]
    OBVIOUS
  <2>4. m \in 1 .. n /\ m - 1 \in 0 .. n /\ ~(m <= m - 1)
    BY <2>3
  <2>5. f[m - 1] = g[m - 1]
    BY <2>2, <2>4
  <2>6. QED
    BY <2>3, <2>4, <2>5
<1>2. QED
  BY <1>1

(* At the end of the last run the host recomputes what the firmware reports.   *)
LEMMA RecomputedIsStat ==
  ASSUME FirmwareTypes, StatInv, SramInv, Len(samples) = N, r = RUNS PROVE Recomputed = stat
<1>1. N \in Nat \ {0} /\ sram \in [1 .. N -> Nat] /\ \A p \in 1 .. N : sram[p] = samples[p].n
  BY NumberAssumption DEF SramInv
<1>2. stat \in Stat /\ stat.mn \in Nat /\ stat.mx \in Nat /\ samples # <<>>
  BY <1>1 DEF FirmwareTypes, Stat
<1>3. /\ \A p \in 1 .. N : stat.mn <= sram[p] /\ sram[p] <= stat.mx
      /\ \E p \in 1 .. N : stat.mn = sram[p]
      /\ \E p \in 1 .. N : stat.mx = sram[p]
  BY <1>1, <1>2 DEF StatInv
<1> DEFINE S == {sram[n] : n \in 1 .. N}
<1>4. (CHOOSE m \in S : \A n \in 1 .. N : m <= sram[n]) = stat.mn
  <2>1. stat.mn \in S /\ \A n \in 1 .. N : stat.mn <= sram[n]
    BY <1>3
  <2>2. ASSUME NEW m \in S, \A n \in 1 .. N : m <= sram[n] PROVE m = stat.mn
    <3>1. m \in Nat /\ m <= stat.mn /\ stat.mn <= m
      BY <1>1, <1>3, <2>2
    <3>2. QED
      BY <1>2, <3>1
  <2>3. QED
    BY <2>1, <2>2
<1>5. (CHOOSE m \in S : \A n \in 1 .. N : m >= sram[n]) = stat.mx
  <2>1. stat.mx \in S /\ \A n \in 1 .. N : stat.mx >= sram[n]
    BY <1>1, <1>2, <1>3
  <2>2. ASSUME NEW m \in S, \A n \in 1 .. N : m >= sram[n] PROVE m = stat.mx
    <3>1. m \in Nat /\ m >= stat.mx /\ stat.mx >= m
      BY <1>1, <1>2, <1>3, <2>2
    <3>2. QED
      BY <1>2, <3>1
  <2>3. QED
    BY <2>1, <2>2
<1>6. PICK f \in [0 .. N -> Nat] : Sums(f) /\ f[N] = stat.sum
  BY DEF StatInv
<1>7. f[0] = 0 /\ \A n \in 1 .. N : f[n] = f[n - 1] + sram[n]
  BY <1>1, <1>6 DEF Sums
<1>8. PICK h :
        /\ h = [n \in 0 .. N |-> IF n = 0 THEN 0 ELSE h[n - 1] + sram[n]]
        /\ Recomputed = [mn  |-> CHOOSE m \in S : \A n \in 1 .. N : m <= sram[n],
                         mx  |-> CHOOSE m \in S : \A n \in 1 .. N : m >= sram[n],
                         sum |-> h[N]]
  <2> DEFINE sum[n \in 0 .. N] == IF n = 0 THEN 0 ELSE sum[n - 1] + sram[n]
  <2>1. f = [n \in 0 .. N |-> IF n = 0 THEN 0 ELSE f[n - 1] + sram[n]]
    BY <1>1, <1>7
  <2>2. sum = [n \in 0 .. N |-> IF n = 0 THEN 0 ELSE sum[n - 1] + sram[n]]
    BY <2>1
  <2>3. QED
    BY <2>2 DEF Recomputed
<1>9. h[N] = f[N]
  <2>1. PICK e : e = [n \in 0 .. N |-> IF n = 0 THEN 0 ELSE h[n - 1] + sram[n]]
    OBVIOUS
  <2>2. e[0] = 0 /\ \A n \in 1 .. N : e[n] = h[n - 1] + sram[n]
    <3>1. \A n \in 0 .. N : e[n] = IF n = 0 THEN 0 ELSE h[n - 1] + sram[n]
      BY <2>1, Zenon
    <3>2. 0 \in 0 .. N /\ \A n \in 1 .. N : n \in 0 .. N /\ n # 0
      BY <1>1
    <3>3. QED
      BY <3>1, <3>2, Zenon
  <2>3. e = h
    BY <1>8, <2>1, Zenon
  <2>4. h[0] = 0 /\ \A n \in 1 .. N : h[n] = h[n - 1] + sram[n]
    BY <2>2, <2>3
  <2>5. \A p \in 1 .. N : f[p] = f[p - 1] + sram[p]
    BY <1>7, Zenon
  <2>6. f[0] = 0 /\ h[0] = 0 /\ N \in Nat
    BY <1>1, <1>7, <2>4
  <2>7. QED
    BY <2>4, <2>5, <2>6, SumsAgree, Zenon
<1>10. Recomputed = [mn |-> stat.mn, mx |-> stat.mx, sum |-> stat.sum]
  BY <1>4, <1>5, <1>6, <1>8, <1>9
<1>11. QED
  BY <1>2, <1>10 DEF Stat

-----------------------------------------------------------------------------
(* The core behind the probe: what a reset, a step and a wait of it leave.     *)
coreVars == <<pins, latch, nvic, handler, counter, core, total, r, samples, stat, glitches, timely>>

LEMMA CoreKept == ASSUME CoreInv, UNCHANGED <<coreVars, sram>> PROVE CoreInv'
<1> USE DEF coreVars
<1>1. FirmwareTypes'
  BY DEF CoreInv, FirmwareTypes, pins, handler, counter
<1>2. LoopInv'
  BY LoopKept DEF CoreInv
<1>3. PulseInv'
  BY PulseKept DEF CoreInv
<1>4. StatInv'
  BY DEF CoreInv, StatInv, Sums
<1>5. SramInv'
  BY DEF CoreInv, SramInv
<1>6. QED
  BY <1>1, <1>2, <1>3, <1>4, <1>5 DEF CoreInv

LEMMA CoreStep == ASSUME CoreInv, Runs(Next) PROVE CoreInv'
<1>1. Next
  BY DEF Runs
<1>2. FirmwareTypes'
  BY <1>1, MainTypes, OtherTypes DEF CoreInv, Next
<1>3. LoopInv' /\ PulseInv' /\ StatInv' /\ SramInv'
  BY <1>1, LoopStep, PulseStep, StatStep, SramStep DEF CoreInv
<1>4. QED
  BY <1>2, <1>3 DEF CoreInv

LEMMA AtResetInv ==
  ASSUME AtReset, glitches \in Nat, timely \in BOOLEAN, sram \in [1 .. N -> Nat] PROVE CoreInv
<1>1. FirmwareTypes
  <2>1. <<>> \in Seq(Sample) /\ core \in Labels /\ 0 \in 0 .. RUNS
    BY NumberAssumption DEF AtReset, Labels, Setup
  <2>2. a \in 0 .. 1 /\ c \in 0 .. 1 /\ taken \in Nat /\ irqCount \in Nat /\ total \in Nat /\ r = 0
    BY DEF AtReset
  <2>3. /\ latch \in BOOLEAN /\ nvic \in BOOLEAN /\ isr = "idle" /\ pio = "off"
        /\ x = NoSample /\ rx = <<>> /\ samples = <<>> /\ stat = NoStat
    BY DEF AtReset
  <2>4. QED
    BY <2>1, <2>2, <2>3, NoSampleTyped DEF FirmwareTypes
<1>2. Before = 0 /\ Len(samples) = 0
  BY NumberAssumption DEF Before, AtReset
<1>3. LoopInv
  BY <1>2, NumberAssumption DEF AtReset, LoopInv, Setup, Closing
<1>4. PulseInv
  BY <1>2 DEF AtReset, PulseInv, HandlerInv, CounterInv, ReadyInv, SampleIsItsPulse, Setup
<1>5. StatInv
  <2> DEFINE f == [p \in 0 .. N |-> 0]
  <2>1. f \in [0 .. N -> Nat] /\ f[0] = 0
    BY NumberAssumption
  <2>2. Sums(f) /\ f[Len(samples)] = stat.sum
    BY <1>2, <2>1 DEF Sums, AtReset, NoStat
  <2>3. \E g \in [0 .. N -> Nat] : Sums(g) /\ g[Len(samples)] = stat.sum
    BY <2>1, <2>2
  <2>4. QED
    <3>1. samples = <<>> /\ stat = NoStat /\ \A p \in 1 .. Len(samples) : FALSE
      BY <1>2 DEF AtReset
    <3>2. QED
      BY <2>3, <3>1 DEF StatInv
<1>6. SramInv
  BY <1>2 DEF SramInv
<1>7. QED
  BY <1>1, <1>3, <1>4, <1>5, <1>6 DEF CoreInv

LEMMA ResetCore == ASSUME CoreInv, Reset PROVE CoreInv'
<1>1. FirmwareTypes'
  <2>1. <<>> \in Seq(Sample) /\ core' \in Labels /\ 0 \in 0 .. RUNS
    BY NumberAssumption DEF Reset, Labels, Setup
  <2>2. glitches' \in Nat /\ timely' \in BOOLEAN
    BY DEF Reset, CoreInv, FirmwareTypes
  <2>3. /\ a' \in 0 .. 1 /\ c' \in 0 .. 1 /\ taken' \in Nat /\ irqCount' \in Nat
        /\ total' \in Nat /\ r' = 0
    BY DEF Reset
  <2>4. /\ latch' \in BOOLEAN /\ nvic' \in BOOLEAN /\ isr' = "idle" /\ pio' = "off"
        /\ x' = NoSample /\ rx' = <<>> /\ samples' = <<>> /\ stat' = NoStat
    BY DEF Reset
  <2>5. QED
    BY <2>1, <2>2, <2>3, <2>4, NoSampleTyped DEF FirmwareTypes
<1>2. LoopInv'
  BY StartLoop DEF Reset
<1>3. PulseInv'
  BY DEF Reset, PulseInv, HandlerInv, CounterInv, ReadyInv, SampleIsItsPulse, Setup
<1>4. StatInv'
  BY StartStat DEF Reset
<1>5. SramInv'
  BY DEF Reset, SramInv, CoreInv
<1>6. QED
  BY <1>1, <1>2, <1>3, <1>4, <1>5 DEF CoreInv

LEMMA CoreInvStep == ASSUME CoreInv, GateNext PROVE CoreInv'
<1>1. CASE Reset
  BY <1>1, ResetCore
<1>2. CASE Runs(Next)
  BY <1>2, CoreStep
<1>3. CASE UNCHANGED <<coreVars, sram>>
  BY <1>3, CoreKept
<1>4. QED
  BY <1>1, <1>2, <1>3 DEF GateNext, Host, Flash, PollDone, PollAgain, PollGivesUp, HeadGates,
     SampleGate, ProbeFails, BringUp, ClocksFollow, Announce, firmware, loop, coreVars

(* SampleIsItsPulse: a firmware of irq_latency.c or irq_latency.mojo never     *)
(* files a sample under another pulse than the one that started the count, nor  *)
(* with another handler than the one that ended it, whatever the pace of its    *)
(* main loop, its handler and its PIO program, and across every reset.          *)
THEOREM SamplesAreTheirPulses == GateSpec => []SampleIsItsPulse
<1>1. GateInit => CoreInv
  <2> SUFFICES ASSUME GateInit PROVE CoreInv
    OBVIOUS
  <2>1. sram \in [1 .. N -> Nat]
    BY DEF GateInit
  <2>2. QED
    BY <2>1, AtResetInv DEF GateInit
<1>2. CoreInv /\ [GateNext]_gateVars => CoreInv'
  <2> SUFFICES ASSUME CoreInv, [GateNext]_gateVars PROVE CoreInv'
    OBVIOUS
  <2>1. CASE GateNext
    BY <2>1, CoreInvStep
  <2>2. CASE UNCHANGED gateVars
    BY <2>2, CoreKept DEF gateVars, firmware, loop, coreVars
  <2>3. QED
    BY <2>1, <2>2
<1>3. CoreInv => SampleIsItsPulse
  BY DEF CoreInv, PulseInv, SampleIsItsPulse
<1>4. QED
  BY <1>1, <1>2, <1>3, PTL DEF GateSpec

-----------------------------------------------------------------------------
(* The mailbox.                                                             *)
LEMMA AllPulsesSent ==
  ASSUME CoreInv, core \in Closing PROVE total = N * RUNS /\ r = RUNS /\ Len(samples) = N
<1>1. total = Before + N /\ r = RUNS /\ Len(samples) = N
  BY DEF CoreInv, LoopInv, Closing
<1>2. Before = N * (RUNS - 1)
  BY <1>1 DEF Before
<1>3. N * (RUNS - 1) + N = N * RUNS
  BY NumberAssumption
<1>4. QED
  BY <1>1, <1>2, <1>3

(* Steps of the firmware: only the main loop writes the mailbox.               *)
LEMMA MailFirmware == ASSUME CoreInv, MailInv, Runs(Next) PROVE MailInv'
<1>1. /\ power = "on" /\ power' = "on" /\ bring' = "up" /\ writer' = writer /\ image' = image
      /\ mailbox \in Mailbox /\ writer = image /\ Next
      /\ mailbox.status = (IF core = "done" THEN 2 ELSE IF core = "failed" THEN 3 ELSE 1)
      /\ core = "done" => mailbox.irqs = N * RUNS
      /\ Len(mailbox.runs) = r
      /\ r = RUNS => mailbox.runs[RUNS] = stat
  BY DEF Runs, MailInv, clocks
<1>2. core \in Labels /\ stat \in Stat /\ total \in Nat /\ r \in Nat /\ mailbox.runs \in Seq(Stat)
  BY <1>1 DEF CoreInv, FirmwareTypes, Mailbox
<1>3. CASE UNCHANGED <<core, mailbox, r, stat>>
  BY <1>1, <1>3 DEF MailInv
<1>4. CASE \/ EnablePio \/ AckEvents \/ EnableIrq \/ Pulse \/ HandlerSeen \/ Pop
           \/ LowerC \/ LowerA \/ NextPulse \/ DisableIrq
  <2>1. core \notin {"done", "failed"} /\ core' \notin {"done", "failed"}
    BY <1>4 DEF EnablePio, AckEvents, EnableIrq, Pulse, HandlerSeen, Pop, LowerC, LowerA,
       NextPulse, DisableIrq, At
  <2>2. UNCHANGED <<mailbox, r>>
    BY <1>4 DEF EnablePio, AckEvents, EnableIrq, Pulse, HandlerSeen, Pop, LowerC, LowerA,
       NextPulse, DisableIrq, loop
  <2>3. r = RUNS => stat' = stat
    BY <1>4, NumberAssumption DEF EnablePio, AckEvents, EnableIrq, Pulse, HandlerSeen, Pop, LowerC, LowerA,
       NextPulse, DisableIrq, At, loop, CoreInv, LoopInv, Closing
  <2>4. QED
    BY <1>1, <2>1, <2>2, <2>3 DEF MailInv
<1>5. CASE NextRun
  <2>1. /\ mailbox' = [mailbox EXCEPT !.runs = Append(@, stat)] /\ r' = r + 1
        /\ core = "sleep" /\ core' \in {"pulse", "disable"}
        /\ r + 1 = RUNS => stat' = stat
    BY <1>2, <1>5 DEF NextRun, At
  <2>2. Append(mailbox.runs, stat) \in Seq(Stat)
    BY <1>2
  <2>3. PICK q \in Seq(Stat) : q = Append(mailbox.runs, stat)
    BY <2>2
  <2>4. Len(q) = r + 1 /\ q[r + 1] = stat
    BY <1>1, <1>2, <2>3
  <2>5. mailbox' \in Mailbox /\ mailbox'.runs = q /\ mailbox'.status = mailbox.status
    BY <1>1, <2>1, <2>3 DEF Mailbox
  <2>6. r' = RUNS => mailbox'.runs[RUNS] = stat'
    BY <2>1, <2>4, <2>5
  <2>7. mailbox'.status = 1 /\ core' \notin {"done", "failed", "enable"}
    BY <1>1, <2>1, <2>5
  <2>8. Len(mailbox'.runs) = r'
    BY <2>1, <2>4, <2>5
  <2>9. QED
    BY <1>1, <2>5, <2>6, <2>7, <2>8 DEF MailInv
<1>6. CASE Report
  <2>1. /\ mailbox' = [mailbox EXCEPT !.irqs = total, !.status = 2]
        /\ core = "report" /\ core' = "done" /\ UNCHANGED <<r, stat>>
    BY <1>6 DEF Report, At
  <2>2. total = N * RUNS
    BY <2>1, AllPulsesSent DEF Closing
  <2>3. /\ mailbox' \in Mailbox /\ mailbox'.runs = mailbox.runs /\ mailbox'.status = 2
        /\ mailbox'.irqs = total
    <3>1. 2 \in 1 .. 3
      OBVIOUS
    <3>2. QED
      BY <1>1, <1>2, <2>1, <3>1, Zenon DEF Mailbox
  <2>4. QED
    BY <1>1, <2>1, <2>2, <2>3 DEF MailInv
<1>7. CASE GiveUp
  <2>1. PICK code \in {1, 2} : mailbox' = [mailbox EXCEPT !.error = code, !.status = 3]
    BY <1>7 DEF GiveUp, Fail
  <2>2. core' = "failed" /\ UNCHANGED <<r, stat>>
    BY <1>7 DEF GiveUp, Fail, At
  <2>3. mailbox' \in Mailbox /\ mailbox'.runs = mailbox.runs /\ mailbox'.status = 3
    <3>1. 3 \in 1 .. 3 /\ code \in 0 .. 2
      BY <2>1
    <3>2. QED
      BY <1>1, <2>1, <3>1, Zenon DEF Mailbox
  <2>4. QED
    BY <1>1, <2>2, <2>3 DEF MailInv
<1>8. QED
  BY <1>1, <1>3, <1>4, <1>5, <1>6, <1>7 DEF Next, Main, Isr, Pio, Glitch, loop, PioKeeps,
     Enter, RaiseC, Ack, Count, WaitLow, WaitHigh, JmpX, JmpPin, Push

LEMMA MailStep == ASSUME CoreInv, MailInv, GateNext PROVE MailInv'
<1>1. CASE Runs(Next)
  BY <1>1, MailFirmware
<1>2. CASE Flash
  BY <1>2 DEF Flash, MailInv
<1>3. CASE Reset
  BY <1>3 DEF Reset, MailInv
<1>4. CASE Announce
  <2>1. /\ power' = "on" /\ writer' = image /\ image' = image /\ mailbox' = Announced
        /\ core = "enable" /\ r = 0 /\ UNCHANGED <<core, r, stat>>
    BY <1>4 DEF Announce, MailInv
  <2>2. Announced \in Mailbox /\ Len(Announced.runs) = 0 /\ Announced.status = 1
    BY DEF Announced, Mailbox
  <2>3. QED
    BY <2>1, <2>2, NumberAssumption DEF MailInv
<1>5. CASE BringUp
  <2>1. power = "on" => bring # "up"
    BY <1>5 DEF BringUp, sys_clock_125mhz, measure_khz, ResetPll, ReleasePll, AwaitPll,
       SetFeedback, PowerPll, AwaitLock, SetPost, PowerPost, SelectPll, SysToAux, AwaitAux,
       AwaitFc, Measure, Read, Await, Write
  <2>2. UNCHANGED <<image, power, writer, mailbox, core, r, stat>>
    BY <1>5 DEF BringUp, firmware, loop
  <2>3. QED
    BY <2>1, <2>2 DEF MailInv
<1>6. CASE UNCHANGED <<image, power, writer, mailbox, core, r, stat, bring>>
  BY <1>6 DEF MailInv
<1>7. QED
  BY <1>1, <1>2, <1>3, <1>4, <1>5, <1>6 DEF GateNext, Host, PollDone, PollAgain, PollGivesUp,
     HeadGates, SampleGate, ProbeFails, ClocksFollow, Hardware, Becomes, firmware, loop, clocks

-----------------------------------------------------------------------------
(* The host.                                                               *)
LEMMA HostTypesStep == ASSUME FirmwareTypes, HostTypes, GateNext PROVE HostTypes'
<1> USE DEF HostTypes, Variant
<1>0. Len(Langs) \in Nat /\ Polls \in Nat \ {0}
  BY VariantAssumption
<1>1. CASE UNCHANGED <<host, image, writer>>
  BY <1>1 DEF host
<1>2. CASE Flash
  <2>1. head'.by = 0 /\ head'.taken = 0
    BY <1>2 DEF Flash, NoHead
  <2>2. hpc = "flash" /\ hpc' = "reset" /\ polls' = 0 /\ image' = k /\ UNCHANGED <<k, results, writer>>
    BY <1>2 DEF Flash
  <2>3. QED
    BY <1>0, <2>1, <2>2
<1>3. CASE Reset
  BY <1>3 DEF Reset
<1>4. CASE PollDone
  <2>1. head'.by = writer /\ head'.taken = taken /\ taken \in Nat
    BY <1>4 DEF PollDone, FirmwareTypes
  <2>2. hpc' = "gates" /\ hpc = "poll" /\ UNCHANGED <<k, polls, results, image, writer>>
    BY <1>4 DEF PollDone
  <2>3. QED
    BY <2>1, <2>2
<1>5. CASE PollAgain
  <2>1. polls' \in 0 .. Polls - 1
    BY <1>0, <1>5 DEF PollAgain
  <2>2. QED
    BY <1>5, <2>1 DEF PollAgain
<1>6. CASE ProbeFails \/ PollGivesUp
  BY <1>6 DEF ProbeFails, PollGivesUp, Raise
<1>7. CASE HeadGates
  BY <1>7 DEF HeadGates, Raise
<1>8. CASE SampleGate
  <2>1. hpc = "samples" /\ UNCHANGED <<image, writer, polls, head>>
    BY <1>8 DEF SampleGate, Raise
  <2>2. CASE Recomputed # head.mailbox.runs[RUNS]
    BY <1>8, <2>1, <2>2 DEF SampleGate, Raise
  <2>3. CASE Recomputed = head.mailbox.runs[RUNS]
    <3>1. PICK e : e = [by |-> head.by, taken |-> head.taken]
      OBVIOUS
    <3>2. e \in Result
      BY <3>1 DEF Result
    <3>3. /\ results' = Append(results, e)
          /\ IF k < Len(Langs) THEN hpc' = "flash" /\ k' = k + 1 ELSE hpc' = "ended" /\ k' = k
      BY <1>8, <2>3, <3>1 DEF SampleGate
    <3>4. PICK q \in Seq(Result) : q = results' /\ Len(q) = Len(results) + 1
      BY <3>2, <3>3
    <3>5. Len(q) = k /\ k \in Nat
      BY <1>0, <2>1, <3>4
    <3>6. /\ k' \in 1 .. Len(Langs) /\ hpc' \in {"flash", "ended"}
          /\ Len(q) = IF hpc' = "ended" THEN k' ELSE k' - 1
      BY <1>0, <3>3, <3>5
    <3>7. QED
      BY <2>1, <3>4, <3>6
  <2>4. QED
    BY <2>2, <2>3
<1>9. CASE Announce
  BY <1>9 DEF Announce, host
<1>10. QED
  BY <1>1, <1>2, <1>3, <1>4, <1>5, <1>6, <1>7, <1>8, <1>9 DEF GateNext, Host, BringUp, ClocksFollow,
     Runs

(* What the host finds when it has waited as long as meant.                    *)
LEMMA FinishedMail ==
  ASSUME ClockInv, CoreInv, MailInv, timely, power = "on", Finished
  PROVE  /\ writer = image /\ khz = "125 MHz" /\ mailbox.status \in {2, 3}
         /\ mailbox.status = 2 =>
              core = "done" /\ mailbox.irqs = N * RUNS /\ mailbox.runs[RUNS] = stat
         /\ glitches = 0 => mailbox.status = 2 /\ taken = N * RUNS
<1>1. /\ writer = image /\ mailbox.status \in {2, 3}
      /\ mailbox.status = (IF core = "done" THEN 2 ELSE IF core = "failed" THEN 3 ELSE 1)
      /\ core # "enable" => bring = "up"
      /\ core = "done" => mailbox.irqs = N * RUNS
      /\ r = RUNS => mailbox.runs[RUNS] = stat
  BY DEF MailInv, Finished
<1>2. core \in {"done", "failed"} /\ (mailbox.status = 2 => core = "done")
  BY <1>1
<1>3. khz = "125 MHz"
  BY <1>1, <1>2 DEF ClockInv, Measures
<1>4. core = "done" => r = RUNS /\ total = N * RUNS
  BY AllPulsesSent DEF Closing
<1>5. glitches = 0 => core = "done" /\ taken = total
  BY <1>2 DEF CoreInv, PulseInv, ReadyInv, HandlerInv, Served
<1>6. QED
  BY <1>1, <1>2, <1>3, <1>4, <1>5

LEMMA TimelyKept ==
  ASSUME CoreInv, GateNext PROVE timely' = timely /\ (glitches' = 0 => glitches = 0)
<1>1. CASE Runs(Next)
  BY <1>1 DEF Runs, Next, Main, Isr, Pio, Glitch, CoreInv, FirmwareTypes, PioKeeps, EnablePio,
     AckEvents, EnableIrq, Pulse, HandlerSeen, Pop, LowerC, LowerA, NextPulse, NextRun,
     DisableIrq, Report, GiveUp, Fail, Enter, RaiseC, Ack, Count, WaitLow, WaitHigh, JmpX, JmpPin,
     Push
<1>2. CASE ~Runs(Next)
  BY <1>2 DEF GateNext, Host, Flash, Reset, PollDone, PollAgain, PollGivesUp, HeadGates,
     SampleGate, ProbeFails, BringUp, ClocksFollow, Announce, firmware
<1>3. QED
  BY <1>1, <1>2

LEMMA HeadKept ==
  ASSUME HeadInv, UNCHANGED <<timely, hpc, power, head, k>>, glitches' = 0 => glitches = 0,
         core = "done" => core' = "done" /\ stat' = stat
  PROVE  HeadInv'
BY DEF HeadInv

LEMMA HeadFirmware == ASSUME CoreInv, HeadInv, Runs(Next) PROVE HeadInv'
<1>1. core = "done" => core' = "done" /\ stat' = stat
  BY DEF Runs, Next, Main, Isr, Pio, Glitch, loop, PioKeeps, At, EnablePio, AckEvents, EnableIrq,
     Pulse, HandlerSeen, Pop, LowerC, LowerA, NextPulse, NextRun, DisableIrq, Report, GiveUp,
     Enter, RaiseC, Ack, Count, WaitLow, WaitHigh, JmpX, JmpPin, Push
<1>2. (glitches' = 0 => glitches = 0) /\ timely' = timely
  BY TimelyKept DEF GateNext
<1>3. UNCHANGED <<hpc, power, head, k>>
  BY DEF Runs, host
<1>4. QED
  BY <1>1, <1>2, <1>3, HeadKept

LEMMA HeadStep ==
  ASSUME ClockInv, CoreInv, MailInv, HostTypes, HeadInv, GateNext PROVE HeadInv'
<1>1. CASE Runs(Next)
  BY <1>1, HeadFirmware
<1>2. CASE BringUp \/ ClocksFollow
  <2>1. UNCHANGED <<timely, hpc, power, head, k, glitches, core, stat>>
    BY <1>2 DEF BringUp, ClocksFollow, host, firmware, loop
  <2>2. QED
    BY <2>1, HeadKept
<1>3. CASE Announce
  BY <1>3 DEF Announce, HeadInv, host
<1>4. CASE PollDone
  <2>1. /\ hpc = "poll" /\ hpc' = "gates" /\ Waited /\ Finished
        /\ head' = [mailbox |-> mailbox, khz |-> khz, by |-> writer, taken |-> taken]
        /\ UNCHANGED <<k, image, power, core, stat, glitches, timely>>
    BY <1>4 DEF PollDone, firmware, loop
  <2>2. ASSUME timely
        PROVE  /\ power = "on" /\ image = k
               /\ writer = image /\ khz = "125 MHz" /\ mailbox.status \in {2, 3}
               /\ mailbox.status = 2 =>
                    core = "done" /\ mailbox.irqs = N * RUNS /\ mailbox.runs[RUNS] = stat
               /\ glitches = 0 => mailbox.status = 2 /\ taken = N * RUNS
    <3>1. power = "on"
      BY <2>1, <2>2 DEF Waited
    <3>2. image = k
      BY <2>1 DEF HostTypes
    <3>3. QED
      BY <2>1, <2>2, <3>1, <3>2, FinishedMail
  <2>3. /\ head'.mailbox = mailbox /\ head'.khz = khz /\ head'.by = writer /\ head'.taken = taken
    BY <2>1
  <2>4. QED
    BY <2>1, <2>2, <2>3 DEF HeadInv
<1>5. CASE HeadGates
  <2>1. hpc = "gates" /\ UNCHANGED <<k, head, power, core, stat, glitches, timely>>
    BY <1>5 DEF HeadGates, Raise, firmware, loop
  <2>2. hpc' = "raised" \/ (hpc' = "samples" /\ head.mailbox.status # 3)
    BY <1>5 DEF HeadGates, Raise
  <2>3. QED
    BY <2>1, <2>2 DEF HeadInv
<1>6. CASE Flash \/ Reset \/ PollAgain \/ PollGivesUp \/ SampleGate \/ ProbeFails
  <2>1. hpc' \notin {"gates", "samples"}
    BY <1>6 DEF Flash, Reset, PollAgain, PollGivesUp, SampleGate, ProbeFails, Raise
  <2>2. QED
    BY <2>1 DEF HeadInv
<1>7. QED
  BY <1>1, <1>2, <1>3, <1>4, <1>5, <1>6 DEF GateNext, Host

(* What is accepted.                                                        *)
LEMMA OwnStep ==
  ASSUME CoreInv, HostTypes, HeadInv, OwnResult, GateNext PROVE OwnResult'
<1>1. timely' = timely /\ (glitches' = 0 => glitches = 0)
  BY TimelyKept
<1>2. CASE UNCHANGED results
  BY <1>1, <1>2 DEF OwnResult
<1>3. CASE SampleGate
  <2>1. CASE Recomputed # head.mailbox.runs[RUNS]
    BY <1>1, <1>3, <2>1 DEF SampleGate, Raise, OwnResult
  <2>2. CASE Recomputed = head.mailbox.runs[RUNS]
    <3>1. PICK e : e = [by |-> head.by, taken |-> head.taken]
      OBVIOUS
    <3>2. e \in Result /\ hpc = "samples" /\ results' = Append(results, e)
      BY <1>3, <2>2, <3>1 DEF SampleGate, Result, HostTypes
    <3>3. PICK q : /\ q = results' /\ Len(q) = Len(results) + 1 /\ q[Len(results) + 1] = e
                   /\ \A v \in 1 .. Len(results) : q[v] = results[v]
      BY <3>2 DEF HostTypes
    <3>4. Len(results) + 1 = k /\ Len(results) \in Nat
      BY <3>2 DEF HostTypes, Variant
    <3>5. timely => e.by = k /\ (glitches = 0 => e.taken = N * RUNS)
      BY <3>1, <3>2 DEF HeadInv
    <3>6. ASSUME timely, NEW v \in 1 .. Len(q)
          PROVE  q[v].by = v /\ (glitches' = 0 => q[v].taken = N * RUNS)
      <4>1. CASE v \in 1 .. Len(results)
        BY <1>1, <3>3, <3>6, <4>1 DEF OwnResult
      <4>2. CASE v = Len(results) + 1
        BY <1>1, <3>3, <3>4, <3>5, <3>6, <4>2
      <4>3. QED
        BY <3>3, <3>4, <4>1, <4>2
    <3>7. QED
      BY <1>1, <3>3, <3>6 DEF OwnResult
  <2>3. QED
    BY <2>1, <2>2
<1>4. QED
  BY <1>2, <1>3 DEF GateNext, Host, Flash, Reset, PollDone, PollAgain, PollGivesUp, HeadGates,
     ProbeFails, Raise, BringUp, ClocksFollow, Announce, Runs, host

(* What is raised.                                                          *)
LEMMA RaisedStep ==
  ASSUME CoreInv, MailInv, HostTypes, HeadInv, RaisedForCause, GateNext PROVE RaisedForCause'
<1>1. /\ timely' = timely /\ (glitches' = 0 => glitches = 0)
      /\ (glitches > 0 <=> glitches # 0) /\ (glitches' > 0 <=> glitches' # 0)
  <2>1. glitches \in Nat /\ glitches' \in Nat
    BY CoreInvStep DEF CoreInv, FirmwareTypes
  <2>2. QED
    BY <2>1, TimelyKept
<1>2. CASE why' = why \/ why' \in {"probe", "spread"}
  BY <1>1, <1>2 DEF RaisedForCause
<1>3. CASE PollGivesUp
  <2>1. why' = "late" /\ Waited /\ ~Finished /\ polls = Polls - 1
    BY <1>3 DEF PollGivesUp, Raise
  <2>2. ASSUME timely PROVE FALSE
    <3>1. power = "on" /\ mailbox.status # 1
      BY <2>1, <2>2 DEF Waited
    <3>2. mailbox.status \in {1, 2, 3}
      BY <3>1 DEF MailInv
    <3>3. QED
      BY <2>1, <3>1, <3>2 DEF Finished
  <2>3. QED
    BY <1>1, <2>1, <2>2 DEF RaisedForCause
<1>4. CASE HeadGates
  <2>1. hpc = "gates" /\ (why' # why => Raise(why'))
    BY <1>4 DEF HeadGates, Raise
  <2>2. why' = "error" => head.mailbox.status = 3 \/ why = "error"
    BY <1>4 DEF HeadGates, Raise
  <2>3. why' = "language" => LangOf(head.by) # LangOf(k) \/ why = "language"
    BY <1>4 DEF HeadGates, Raise
  <2>4. why' = "clock" => head.khz # "125 MHz" \/ why = "clock"
    BY <1>4 DEF HeadGates, Raise
  <2>5. why' = "count" => (head.mailbox.status # 3 /\ head.mailbox.irqs # N * RUNS) \/ why = "count"
    BY <1>4 DEF HeadGates, Raise
  <2>6. why' \in {"late", "statistics"} => why' = why
    BY <1>4 DEF HeadGates, Raise
  <2>7. timely => /\ head.by = k /\ head.khz = "125 MHz" /\ head.mailbox.status \in {2, 3}
                  /\ head.mailbox.status = 2 => head.mailbox.irqs = N * RUNS
                  /\ glitches = 0 => head.mailbox.status = 2
    BY <2>1 DEF HeadInv
  <2>8. glitches' = glitches
    BY <1>4 DEF HeadGates, firmware
  <2>9. ASSUME timely, why' \in {"language", "clock", "count", "statistics"} PROVE FALSE
    <3>1. why' # why
      BY <2>9 DEF RaisedForCause
    <3>2. LangOf(head.by) = LangOf(k)
      BY <2>7, <2>9
    <3>3. why' # "language"
      BY <2>3, <3>1, <3>2
    <3>4. why' # "clock"
      BY <2>4, <2>7, <2>9, <3>1
    <3>5. why' # "count"
      BY <2>5, <2>7, <2>9, <3>1
    <3>6. QED
      BY <2>6, <2>9, <3>1, <3>3, <3>4, <3>5
  <2>10. ASSUME timely, glitches = 0, why' \in {"error", "late"} PROVE FALSE
    <3>1. why' # why
      BY <1>1, <2>10 DEF RaisedForCause
    <3>2. head.mailbox.status = 2
      BY <2>7, <2>10
    <3>3. QED
      BY <2>2, <2>6, <2>10, <3>1, <3>2
  <2>11. QED
    BY <1>1, <2>8, <2>9, <2>10 DEF RaisedForCause
<1>5. CASE SampleGate
  <2>1. hpc = "samples" /\ why' \in {why, "statistics"}
    BY <1>5 DEF SampleGate, Raise
  <2>2. ASSUME timely PROVE why' = why
    <3>1. core = "done" /\ head.mailbox.runs[RUNS] = stat
      BY <2>1, <2>2 DEF HeadInv
    <3>2. r = RUNS /\ Len(samples) = N
      BY <3>1, AllPulsesSent DEF Closing
    <3>3. Recomputed = stat
      BY <3>2, RecomputedIsStat DEF CoreInv
    <3>4. QED
      BY <1>5, <3>1, <3>3 DEF SampleGate
  <2>3. QED
    BY <1>1, <2>1, <2>2 DEF RaisedForCause
<1>6. QED
  BY <1>2, <1>3, <1>4, <1>5 DEF GateNext, Host, Flash, Reset, PollDone, PollAgain, ProbeFails,
     Raise, BringUp, ClocksFollow, Announce, Runs, host

-----------------------------------------------------------------------------
LEMMA InitGate == GateInit => GateInv
<1> SUFFICES ASSUME GateInit PROVE GateInv
  OBVIOUS
<1>1. ClockInv
  BY InitClocks DEF GateInit, Khz
<1>2. CoreInv
  <2>1. sram \in [1 .. N -> Nat]
    BY DEF GateInit
  <2>2. QED
    BY <2>1, AtResetInv DEF GateInit
<1>3. MailInv
  BY DEF GateInit, MailInv
<1>4. HostTypes
  <2>1. Len(Langs) \in Nat \ {0} /\ Polls \in Nat \ {0}
    BY VariantAssumption
  <2>2. head.by = 0 /\ head.taken = 0
    BY DEF GateInit, NoHead
  <2>3. results = <<>> /\ results \in Seq(Result) /\ Len(results) = 0
    <3>1. results = <<>>
      BY DEF GateInit
    <3>2. QED
      BY <3>1
  <2>4. hpc = "flash" /\ k = 1 /\ polls = 0 /\ image = 0 /\ writer = 0
    BY DEF GateInit
  <2>5. QED
    BY <2>1, <2>2, <2>3, <2>4 DEF HostTypes, Variant
<1>5. HeadInv /\ OwnResult /\ RaisedForCause
  <2>1. hpc = "flash" /\ why = "none" /\ results = <<>> /\ Len(results) = 0
    BY DEF GateInit
  <2>2. QED
    BY <2>1 DEF HeadInv, OwnResult, RaisedForCause
<1>6. QED
  BY <1>1, <1>2, <1>3, <1>4, <1>5 DEF GateInv

LEMMA GateStep == GateInv /\ [GateNext]_gateVars => GateInv'
<1> SUFFICES ASSUME GateInv, [GateNext]_gateVars PROVE GateInv'
  OBVIOUS
<1> USE DEF GateInv
<1>1. CASE GateNext
  <2>1. ClockInv' /\ CoreInv' /\ MailInv'
    BY <1>1, ClockStep, CoreInvStep, MailStep
  <2>2. HostTypes'
    BY <1>1, HostTypesStep DEF CoreInv
  <2>3. HeadInv' /\ OwnResult' /\ RaisedForCause'
    BY <1>1, HeadStep, OwnStep, RaisedStep
  <2>4. QED
    BY <2>1, <2>2, <2>3
<1>2. CASE UNCHANGED gateVars
  <2>1. CoreInv'
    BY <1>2, CoreKept DEF gateVars, firmware, loop, coreVars
  <2>2. clk' \in Tree /\ Follows
    BY <1>2, StandingClocks DEF gateVars, clocks, ClockInv, ClockTypes
  <2>3. ClockInv'
    BY <2>2, FollowInv
  <2>4. MailInv' /\ HostTypes'
    BY <1>2 DEF gateVars, host, firmware, loop, clocks, MailInv, HostTypes
  <2>5. HeadInv' /\ OwnResult' /\ RaisedForCause'
    BY <1>2 DEF gateVars, host, firmware, loop, HeadInv, OwnResult, RaisedForCause
  <2>6. QED
    BY <2>1, <2>3, <2>4, <2>5
<1>3. QED
  BY <1>1, <1>2

LEMMA GateIsSafe == GateSpec => []GateInv
BY InitGate, GateStep, PTL DEF GateSpec

(* OwnResult: with waits as long as meant, what run_target accepts for a        *)
(* variant was reported by the firmware of that variant, and without stray      *)
(* edges exactly N * RUNS handlers ran for it.                                *)
THEOREM ResultsAreOwn == GateSpec => []OwnResult
BY GateIsSafe, PTL DEF GateInv

(* RaisedForCause: of the gates of run_target, with waits as long as meant, the *)
(* language, the clock, the count and the statistics never raise, and without   *)
(* stray edges no firmware reports an error or is late.                        *)
THEOREM GatesRaiseForCause == GateSpec => []RaisedForCause
BY GateIsSafe, PTL DEF GateInv
=============================================================================
