----------------------------- MODULE IrqLatency -----------------------------
(***************************************************************************)
(* The interrupt latency firmware (bench/irq_latency.mojo and its mirror    *)
(* bench/irq_latency.c): core 0 raises GPIO 15, the interrupt handler that  *)
(* raises GPIO 16 runs on the same core, and a PIO state machine counts     *)
(* loop iterations from one edge to the other.                             *)
(*                                                                         *)
(* The three run at their own pace here: nothing is assumed of the latency, *)
(* of the PIO clock or of the 5 us pause unless timely.  A sample carries   *)
(* the pulse that opened it and the handler that closed it.                *)
(***************************************************************************)
EXTENDS Naturals, Sequences

CONSTANTS
  N,         \* pulses per run (10,000)
  RUNS,      \* runs (3)
  MaxCount,  \* bound: iterations the PIO counts
  Glitches   \* bound: edges nobody drove

ASSUME NumberAssumption == N \in Nat \ {0} /\ RUNS \in Nat \ {0}
ASSUME BoundAssumption  == MaxCount \in Nat /\ Glitches \in Nat

VARIABLES
  a, c,      \* GPIO 15 and GPIO 16
  latch,     \* EDGE_HIGH of GPIO 15 in INTR1
  nvic,      \* routed and enabled: INTE1 and NVIC_ISER
  isr,       \* the next store of the handler, or "idle"
  taken,     \* handlers entered
  irqCount,  \* IRQ_COUNT
  pio,       \* where the state machine is
  x,         \* what it has counted: [n, pulse, handler]
  rx,        \* its RX FIFO
  core,      \* where the main loop is
  total,     \* pulses sent
  r,         \* runs finished
  samples,   \* counts of this run (in SRAM for the last one)
  stat,      \* mn, mx and sum of this run
  mailbox,   \* status, error, irqs (+0x04, +0x20, +0x1C) and the runs' statistics
  glitches,  \* edges nobody drove
  timely     \* in this behaviour the spin limits and the pauses are longer than
             \* what they wait for

pins     == <<a, c>>
handler  == <<isr, taken, irqCount>>
counter  == <<pio, x, rx>>
loop     == <<total, r, samples, stat, mailbox>>
vars     == <<pins, latch, nvic, handler, counter, core, loop, glitches, timely>>

NoStat   == [mn |-> MaxCount + 1, mx |-> 0, sum |-> 0]
NoSample == [n |-> 0, pulse |-> 0, handler |-> 0]

Announced == [status |-> 1, error |-> 0, irqs |-> 0, runs |-> <<>>]

(* The pins are low; the latch may hold an edge from before. *)
AtReset ==
  /\ a = 0 /\ c = 0 /\ latch \in BOOLEAN /\ nvic = FALSE
  /\ isr = "idle" /\ taken = 0 /\ irqCount = 0
  /\ pio = "off" /\ x = NoSample /\ rx = <<>>
  /\ core = "enable"
  /\ total = 0 /\ r = 0 /\ samples = <<>> /\ stat = NoStat

Init == AtReset /\ mailbox = Announced /\ glitches = 0 /\ timely \in BOOLEAN

-----------------------------------------------------------------------------
(* The main loop runs while the handler does not. *)
At(here, there) == core = here /\ isr = "idle" /\ core' = there

EnablePio ==
  /\ At("enable", "ack")
  /\ pio' = "arm"
  /\ UNCHANGED <<pins, latch, nvic, handler, x, rx, loop, glitches, timely>>

(* Deviation: edges latched before are not acknowledged. *)
AckEvents_Forgotten ==
  /\ At("ack", "irq")
  /\ irqCount' = 0
  /\ UNCHANGED <<pins, latch, nvic, isr, taken, counter, loop, glitches, timely>>

AckEvents ==
  /\ At("ack", "irq")
  /\ irqCount' = 0 /\ latch' = FALSE
  /\ UNCHANGED <<pins, nvic, isr, taken, counter, loop, glitches, timely>>

EnableIrq ==
  /\ At("irq", "sleep")
  /\ nvic' = TRUE
  /\ UNCHANGED <<pins, latch, handler, counter, loop, glitches, timely>>

(* a.high(): the edge is the interrupt. *)
Pulse ==
  /\ At("pulse", "spin")
  /\ total' = total + 1
  /\ a' = 1 /\ latch' = TRUE
  /\ UNCHANGED <<c, nvic, handler, counter, r, samples, stat, mailbox, glitches, timely>>

HandlerSeen ==
  /\ At("spin", "rx")
  /\ irqCount = total
  /\ UNCHANGED <<pins, latch, nvic, handler, counter, loop, glitches, timely>>

(* ~sm.rx_pull(), and the sample is accounted for. *)
Account(s) ==
  [mn  |-> IF s.n < stat.mn THEN s.n ELSE stat.mn,
   mx  |-> IF s.n > stat.mx THEN s.n ELSE stat.mx,
   sum |-> stat.sum + s.n]

Pop ==
  /\ At("rx", "lowC")
  /\ rx # <<>>
  /\ rx' = Tail(rx)
  /\ samples' = Append(samples, Head(rx))
  /\ stat' = Account(Head(rx))
  /\ UNCHANGED <<pins, latch, nvic, handler, pio, x, total, r, mailbox, glitches, timely>>

(* Deviation: GPIO 16 stays high. *)
LowerC_Skipped ==
  /\ At("lowC", "lowA")
  /\ UNCHANGED <<pins, latch, nvic, handler, counter, loop, glitches, timely>>

LowerC ==
  /\ At("lowC", "lowA")
  /\ c' = 0
  /\ UNCHANGED <<a, latch, nvic, handler, counter, loop, glitches, timely>>

LowerA ==
  /\ At("lowA", "sleep")
  /\ a' = 0
  /\ UNCHANGED <<c, latch, nvic, handler, counter, loop, glitches, timely>>

(* sleep_us(10) and sleep_us(5), in which the PIO should see GPIO 15 low. *)
Rested == timely => pio = "edge" /\ ~latch

NextPulse ==
  /\ At("sleep", "pulse")
  /\ Rested
  /\ Len(samples) < N
  /\ UNCHANGED <<pins, latch, nvic, handler, counter, loop, glitches, timely>>

(* Deviation: the minimum, maximum and sum go on into the next run. *)
Restart_Kept == stat

Restart == NoStat

NextRun ==
  /\ At("sleep", IF r + 1 < RUNS THEN "pulse" ELSE "disable")
  /\ Rested
  /\ Len(samples) = N
  /\ mailbox' = [mailbox EXCEPT !.runs = Append(@, stat)]
  /\ r' = r + 1
  /\ IF r + 1 < RUNS THEN samples' = <<>> /\ stat' = Restart
                     ELSE UNCHANGED <<samples, stat>>
  /\ UNCHANGED <<pins, latch, nvic, handler, counter, total, glitches, timely>>

(* The line is disabled, and the count of pulses is reported. *)
DisableIrq ==
  /\ At("disable", "report")
  /\ nvic' = FALSE
  /\ UNCHANGED <<pins, latch, handler, counter, loop, glitches, timely>>

Report ==
  /\ At("report", "done")
  /\ mailbox' = [mailbox EXCEPT !.irqs = total, !.status = 2]
  /\ UNCHANGED <<pins, latch, nvic, handler, counter, total, r, samples, stat, glitches, timely>>

(* fail(code): a spin loop reaches its limit.  When the limit is long enough *)
(* that is only when what it waits for cannot come.                        *)
Fail(code) ==
  /\ mailbox' = [mailbox EXCEPT !.error = code, !.status = 3]
  /\ UNCHANGED <<pins, latch, nvic, handler, counter, total, r, samples, stat, glitches, timely>>

GiveUp ==
  \/ /\ At("spin", "failed")
     /\ irqCount # total
     /\ timely => ~(latch /\ nvic)
     /\ Fail(1)
  \/ /\ At("rx", "failed")
     /\ rx = <<>>
     /\ timely => pio = "arm" /\ a = 1
     /\ Fail(2)

-----------------------------------------------------------------------------
(* on_gpio_irq: GPIO 16 high, acknowledge, count. *)
Enter ==
  /\ isr = "idle" /\ latch /\ nvic
  /\ isr' = "high" /\ taken' = taken + 1
  /\ UNCHANGED <<pins, latch, nvic, irqCount, counter, core, loop, glitches, timely>>

RaiseC ==
  /\ isr = "high"
  /\ isr' = "ack" /\ c' = 1
  /\ UNCHANGED <<a, latch, nvic, taken, irqCount, counter, core, loop, glitches, timely>>

Ack ==
  /\ isr = "ack"
  /\ isr' = "count" /\ latch' = FALSE
  /\ UNCHANGED <<pins, nvic, taken, irqCount, counter, core, loop, glitches, timely>>

Count ==
  /\ isr = "count"
  /\ isr' = "idle" /\ irqCount' = irqCount + 1
  /\ UNCHANGED <<pins, latch, nvic, taken, counter, core, loop, glitches, timely>>

-----------------------------------------------------------------------------
(* The PIO program: wait 0, wait 1, mov x, jmp pin / jmp x--, in, push. *)
PioKeeps == UNCHANGED <<pins, latch, nvic, handler, core, loop, glitches, timely>>

WaitLow  == pio = "arm"  /\ a = 0 /\ pio' = "edge" /\ UNCHANGED <<x, rx>> /\ PioKeeps

WaitHigh ==
  /\ pio = "edge" /\ a = 1
  /\ pio' = "loop" /\ x' = [NoSample EXCEPT !.pulse = total]
  /\ UNCHANGED rx /\ PioKeeps

JmpX ==
  /\ pio = "loop" /\ c = 0 /\ x.n < MaxCount
  /\ x' = [x EXCEPT !.n = @ + 1]
  /\ UNCHANGED <<pio, rx>> /\ PioKeeps

JmpPin ==
  /\ pio = "loop" /\ c = 1
  /\ pio' = "push" /\ x' = [x EXCEPT !.handler = taken]
  /\ UNCHANGED rx /\ PioKeeps

Push ==
  /\ pio = "push" /\ Len(rx) < 4
  /\ pio' = "arm" /\ rx' = Append(rx, x)
  /\ UNCHANGED x /\ PioKeeps

-----------------------------------------------------------------------------
(* An edge nobody drove. *)
Glitch ==
  /\ glitches < Glitches
  /\ glitches' = glitches + 1 /\ latch' = TRUE
  /\ UNCHANGED <<pins, nvic, handler, counter, core, loop, timely>>

Main ==
  \/ EnablePio \/ AckEvents \/ EnableIrq
  \/ Pulse \/ HandlerSeen \/ Pop \/ LowerC \/ LowerA
  \/ NextPulse \/ NextRun \/ DisableIrq \/ Report \/ GiveUp
Isr  == Enter \/ RaiseC \/ Ack \/ Count
Pio  == WaitLow \/ WaitHigh \/ JmpX \/ JmpPin \/ Push
Next == Main \/ Isr \/ Pio \/ Glitch

Spec == Init /\ [][Next]_vars

-----------------------------------------------------------------------------
TypeOK ==
  /\ a \in 0 .. 1 /\ c \in 0 .. 1 /\ latch \in BOOLEAN /\ nvic \in BOOLEAN
  /\ isr \in {"idle", "high", "ack", "count"}
  /\ taken \in 0 .. N * RUNS + Glitches /\ irqCount \in 0 .. taken
  /\ pio \in {"off", "arm", "edge", "loop", "push"}
  /\ x.n \in 0 .. MaxCount
  /\ Len(rx) \in 0 .. 1
  /\ core \in {"enable", "ack", "irq", "pulse", "spin", "rx", "lowC", "lowA",
               "sleep", "disable", "report", "done", "failed"}
  /\ total \in 0 .. N * RUNS /\ r \in 0 .. RUNS /\ Len(samples) \in 0 .. N
  /\ timely \in BOOLEAN /\ glitches \in 0 .. Glitches
  /\ mailbox.status \in 1 .. 3 /\ mailbox.error \in 0 .. 2 /\ Len(mailbox.runs) = r

(* The run the samples belong to starts after this many pulses. *)
Before == N * (IF r = RUNS THEN RUNS - 1 ELSE r)

(* Sample p of a run was opened by its p-th pulse and closed by the handler  *)
(* of that pulse: without stray edges no pulse is measured twice, skipped or *)
(* measured against the handler of another, however slow the three are.     *)
SampleIsItsPulse == glitches = 0 =>
  \A p \in 1 .. Len(samples) :
    samples[p].pulse = Before + p /\ samples[p].handler = Before + p
=============================================================================
