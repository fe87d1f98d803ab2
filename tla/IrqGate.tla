------------------------------ MODULE IrqGate ------------------------------
(***************************************************************************)
(* The interrupt latency gate (tools/irq_latency.mojo): the host flashes    *)
(* one variant of the firmware after the other, polls the mailbox, and      *)
(* accepts a measurement or raises.  IrqLatency is the firmware that runs   *)
(* behind the probe while the host waits.                                  *)
(*                                                                         *)
(* RAM survives flash and reset: until a firmware has announced itself the  *)
(* mailbox and the samples are those of the variant before, and two         *)
(* variants may have one language id.  The clocks may also be those of the   *)
(* variant before, and are brought up before and after the announcement.     *)
(***************************************************************************)
EXTENDS IrqLatency, Clocks

CONSTANTS
  Langs,  \* the language id of each variant (main: 1, 1, 2, 2, 3, 3)
  Old,    \* the language id in a mailbox that an earlier session left
  Polls   \* polls of the mailbox (20)

ASSUME VariantAssumption == Langs \in Seq(STRING) /\ Langs # <<>> /\ Polls \in Nat \ {0}

VARIABLES
  hpc,      \* where the host is
  k,        \* the variant in hand
  polls,    \* polls made
  head,     \* what read_words(MB) returned, the measured clock in it, who wrote it and
            \* how many handlers had run
  results,  \* the last two for each accepted measurement
  why,      \* the error the host raised
  image,    \* the variant in flash, 0 before the first
  power,    \* "held" while the probe has the core, then "boot" and "on", or "dead"
  writer,   \* the variant that announced itself in the mailbox, 0: before this session
  sram      \* the samples at 0x2001_0000

host     == <<hpc, k, polls, head, results, why>>
firmware == <<pins, latch, nvic, handler, counter, core, loop, glitches, timely>>
gateVars == <<host, image, power, writer, sram, firmware, clocks>>

Variant  == 1 .. Len(Langs)
LangOf(v) == IF v = 0 THEN Old ELSE Langs[v]

(* What an earlier session leaves behind, and a board that was just powered. *)
Left  == [status |-> 2, error |-> 0, irqs |-> N * RUNS,
          runs |-> [n \in 1 .. RUNS |-> [mn |-> 1, mx |-> 1, sum |-> N]]]
Blank == [Announced EXCEPT !.status = 0]
NoHead == [mailbox |-> Blank, khz |-> "none", by |-> 0, taken |-> 0]

GateInit ==
  /\ hpc = "flash" /\ k = 1 /\ polls = 0 /\ results = <<>> /\ why = "none"
  /\ image = 0 /\ power = "held" /\ writer = 0
  /\ AtReset
  /\ clk = Cold /\ bring = "xosc"
  /\ mailbox \in {Left, Blank} /\ khz = (IF mailbox = Left THEN "125 MHz" ELSE "none")
  /\ sram = [n \in 1 .. N |-> 1]
  /\ head = NoHead
  /\ glitches = 0 /\ timely \in BOOLEAN

-----------------------------------------------------------------------------
(* main does not catch: the first error ends the session.                    *)
Raise(cause) ==
  /\ hpc' = "raised" /\ why' = cause
  /\ UNCHANGED <<k, polls, head, results>>

(* Every probe-rs command may fail; flash tries the download twice.          *)
ProbeFails ==
  /\ hpc \in {"flash", "reset", "poll", "samples"}
  /\ Raise("probe")
  /\ UNCHANGED <<image, power, writer, sram, firmware, clocks>>

(* probe-rs download: the core is halted, flash is written, RAM is not.      *)
Flash ==
  /\ hpc = "flash"
  /\ hpc' = "reset" /\ polls' = 0 /\ head' = NoHead
  /\ image' = k /\ power' = "held"
  /\ UNCHANGED <<k, results, why, writer, sram, firmware, clocks>>

(* probe-rs reset: peripherals and core start over, RAM is kept, and clocks   *)
(* may be (the second alternative).  An edge may be latched while the pin is  *)
(* configured, and an image may not start.                                 *)
Reset ==
  /\ hpc = "reset"
  /\ hpc' = "poll" /\ power' \in IF timely THEN {"boot"} ELSE {"boot", "dead"}
  /\ a' = 0 /\ c' = 0 /\ latch' \in BOOLEAN /\ nvic' = FALSE
  /\ isr' = "idle" /\ taken' = 0 /\ irqCount' = 0
  /\ pio' = "off" /\ x' = NoSample /\ rx' = <<>>
  /\ core' = "enable"
  /\ total' = 0 /\ r' = 0 /\ samples' = <<>> /\ stat' = NoStat
  /\ clk' \in {Cold, clk} /\ bring' = "xosc"
  /\ UNCHANGED <<k, polls, head, results, why, image, writer, sram, mailbox, khz, glitches, timely>>

(* Deviation: the status of the firmware before is left in place. *)
Announce_StatusKept ==
  /\ power = "boot" /\ CoreClocked /\ bring = "announce"
  /\ power' = "on" /\ writer' = image /\ bring' = "pll"
  /\ mailbox' = [Announced EXCEPT !.status = mailbox.status, !.irqs = mailbox.irqs,
                                  !.runs = mailbox.runs]
  /\ UNCHANGED <<host, image, sram, pins, latch, nvic, handler, counter, core,
                 total, r, samples, stat, clk, khz, glitches, timely>>

(* The head of start: MAGIC, status 1, the language id, no interrupts, no    *)
(* error.  The stores are one step: the host acts only on MAGIC with status   *)
(* 2 or 3, and the status, second of them, is 1 from then on.  Between the    *)
(* first two the mailbox is the old one, as before them.                    *)
Announce ==
  /\ power = "boot" /\ CoreClocked /\ bring = "announce"
  /\ power' = "on" /\ writer' = image /\ bring' = "pll"
  /\ mailbox' = Announced
  /\ UNCHANGED <<host, image, sram, pins, latch, nvic, handler, counter, core,
                 total, r, samples, stat, clk, khz, glitches, timely>>

(* Before and after: the clocks.  What happens when the host has stopped is   *)
(* left out, here and below.                                               *)
Listened == hpc \notin {"ended", "raised"}

BringUp ==
  /\ Listened
  /\ IF power = "boot" THEN board_init ELSE power = "on" /\ (sys_clock_125mhz \/ measure_khz)
  /\ UNCHANGED <<host, image, power, writer, sram, firmware>>

ClocksFollow ==
  Listened /\ Hardware /\ UNCHANGED <<host, image, power, writer, sram, firmware>>

(* The firmware runs; samples of the last run also go to SRAM. *)
Runs(Step) ==
  /\ power = "on" /\ bring = "up" /\ CoreClocked /\ Listened
  /\ Step
  /\ sram' = IF r = RUNS - 1 /\ Len(samples') > Len(samples)
             THEN [sram EXCEPT ![Len(samples')] = samples'[Len(samples')].n]
             ELSE sram
  /\ UNCHANGED <<host, image, power, writer, clocks>>

-----------------------------------------------------------------------------
(* sleep(2.0) and the 20 polls: when that is long enough the firmware has    *)
(* announced itself before the first poll, and has ended before the last.   *)
Waited ==
  timely => /\ power = "on"
            /\ polls = Polls - 1 => mailbox.status # 1

Finished == mailbox.status \in {2, 3}

PollDone ==
  /\ hpc = "poll"
  /\ Waited
  /\ Finished
  /\ head' = [mailbox |-> mailbox, khz |-> khz, by |-> writer, taken |-> taken]
  /\ hpc' = "gates"
  /\ UNCHANGED <<k, polls, results, why, image, power, writer, sram, firmware, clocks>>

PollAgain ==
  /\ hpc = "poll" /\ polls < Polls - 1
  /\ Waited
  /\ ~Finished
  /\ polls' = polls + 1
  /\ UNCHANGED <<hpc, k, head, results, why, image, power, writer, sram, firmware, clocks>>

(* Deviation: the host polls for ever. *)
PollGivesUp_Never == FALSE /\ UNCHANGED gateVars

PollGivesUp ==
  /\ hpc = "poll" /\ polls = Polls - 1
  /\ Waited
  /\ ~Finished
  /\ Raise("late")
  /\ UNCHANGED <<image, power, writer, sram, firmware, clocks>>

(* The run spread gate: 2 % of the smallest sum, which may be 0 here; then   *)
(* the quotient is undefined.                                              *)
Spread(v) ==
  LET sums == {head.mailbox.runs[n].sum : n \in 1 .. RUNS}
      lo   == CHOOSE s \in sums : \A t \in sums : s <= t
      hi   == CHOOSE s \in sums : \A t \in sums : s >= t
  IN IF lo = 0 THEN v ELSE ((hi - lo) * 100) \div lo >= 2

(* The gates on the head of the mailbox, in the order of run_target.  Two     *)
(* more compare N, RUNS and the words of the PIO program with constants every *)
(* variant is built with; nothing here changes those, and they are left out. *)
HeadGates ==
  /\ hpc = "gates"
  /\ \E v \in BOOLEAN :
       IF head.mailbox.status = 3               THEN Raise("error")
       ELSE IF LangOf(head.by) # LangOf(k)      THEN Raise("language")
       ELSE IF head.khz # "125 MHz"             THEN Raise("clock")
       ELSE IF head.mailbox.irqs # N * RUNS     THEN Raise("count")
       ELSE IF Spread(v)                        THEN Raise("spread")
       ELSE hpc' = "samples" /\ UNCHANGED <<k, polls, head, results, why>>
  /\ UNCHANGED <<image, power, writer, sram, firmware, clocks>>

(* What the host recomputes from the samples it reads. *)
Recomputed ==
  LET sum[n \in 0 .. N] == IF n = 0 THEN 0 ELSE sum[n - 1] + sram[n]
  IN [mn  |-> CHOOSE m \in {sram[n] : n \in 1 .. N} : \A n \in 1 .. N : m <= sram[n],
      mx  |-> CHOOSE m \in {sram[n] : n \in 1 .. N} : \A n \in 1 .. N : m >= sram[n],
      sum |-> sum[N]]

(* The samples of the last run are read, and the result is kept.             *)
SampleGate ==
  /\ hpc = "samples"
  /\ IF Recomputed # head.mailbox.runs[RUNS]
     THEN Raise("statistics")
     ELSE /\ results' = Append(results, [by |-> head.by, taken |-> head.taken])
          /\ IF k < Len(Langs) THEN hpc' = "flash" /\ k' = k + 1
                               ELSE hpc' = "ended" /\ k' = k
          /\ UNCHANGED <<polls, head, why>>
  /\ UNCHANGED <<image, power, writer, sram, firmware, clocks>>

Host ==
  \/ Flash \/ Reset \/ PollDone \/ PollAgain \/ PollGivesUp \/ HeadGates \/ SampleGate

GateNext == Host \/ ProbeFails \/ BringUp \/ ClocksFollow \/ Announce \/ Runs(Next)

GateSpec == GateInit /\ [][GateNext]_gateVars

(* The host goes on, a core that was reset starts, and the firmware runs on   *)
(* while it is clocked.  Crystal and PLL start when the behaviour is timely.  *)
FairGateSpec ==
  /\ GateSpec
  /\ WF_gateVars(Host) /\ WF_gateVars(BringUp) /\ WF_gateVars(Announce)
  /\ WF_gateVars(timely /\ ClocksFollow)
  /\ WF_gateVars(Runs(Main)) /\ WF_gateVars(Runs(Isr)) /\ WF_gateVars(Runs(Pio))

-----------------------------------------------------------------------------
GateTypeOK ==
  /\ hpc \in {"flash", "reset", "poll", "gates", "samples", "ended", "raised"}
  /\ k \in Variant /\ polls \in 0 .. Polls - 1
  /\ image \in 0 .. Len(Langs) /\ writer \in 0 .. image /\ head.by \in 0 .. k
  /\ power \in {"held", "boot", "on", "dead"}
  /\ Len(results) = IF hpc = "ended" THEN k ELSE k - 1
  /\ why \in {"none", "probe", "late", "error", "language", "clock", "count", "spread", "statistics"}
  /\ sram \in [1 .. N -> 0 .. MaxCount]
  /\ clk \in Tree /\ khz \in Khz
  /\ power = "on" => TypeOK

(* An accepted measurement was made by the firmware of its variant: what the *)
(* variant before left in RAM under the same language id is never taken for  *)
(* it (run_target).  "Exactly N interrupts per run were taken": without stray *)
(* edges as many handlers ran as the gate expects.                          *)
OwnResult == timely => \A v \in 1 .. Len(results) :
  /\ results[v].by = v
  /\ glitches = 0 => results[v].taken = N * RUNS

(* "Gates (any failure raises)": and nothing else does.  Without stray edges *)
(* and with waits as long as meant, no firmware reports an error or is late, *)
(* and what the host recomputes, counts and identifies is what the firmware *)
(* reported; only the probe or the spread of the latency can end the run.   *)
RaisedForCause ==
  /\ why \in {"error", "late"} => ~timely \/ glitches > 0
  /\ why \in {"language", "clock", "count", "statistics"} => ~timely

(* The gate comes to an end, whatever the firmware and the probe do.         *)
GateEnds == <>(hpc \in {"ended", "raised"})
=============================================================================
