------------------------------- MODULE Timer -------------------------------
(***************************************************************************)
(* Delays, timeouts and the alarm of src/pico/time.mojo over the wrapping   *)
(* microsecond counter: sleep_us, sleep_ms, the RISC-V FIFO timeouts of     *)
(* multicore.mojo, and ALARM0 as the on-target suite uses it with its       *)
(* handler on_alarm0 (test_timer_irq of tests/on_target/main.mojo).         *)
(*                                                                         *)
(* The counter ticks between any two accesses of the processor, at most    *)
(* Gap times: that is how long a handler, a flash stall or a bus wait may   *)
(* hold it up.  A pending, enabled interrupt is taken before the next       *)
(* access of the program.  The alarm fires when the counter reaches the     *)
(* value of ALARM0; a value the counter has passed is met a whole turn of   *)
(* the counter later.                                                      *)
(***************************************************************************)
EXTENDS Naturals

CONSTANTS
  Wrap,     \* values of the counter (2^32)
  PerMs,    \* microseconds in a millisecond (1000)
  PerUs,    \* ticks _to_ticks allows for a microsecond (16)
  Gap,      \* ticks between two accesses of the processor, at most
  SleepUs, SleepMs, FifoUs,  \* arguments of sleep_us, sleep_ms, fifo_pop
  Delay,    \* us_from_now of alarm0_arm (500)
  Patience  \* how long test_timer_irq waits for the handler (5000)

ASSUME WrapAssumption == Wrap \in Nat /\ Wrap > 1
ASSUME FactorAssumption == PerMs \in Nat /\ PerUs \in Nat /\ PerUs > 0
ASSUME GapAssumption == Gap \in Nat /\ Gap > 0
ASSUME ArgumentAssumption ==
  /\ SleepUs \subseteq 0 .. Wrap - 1
  /\ SleepMs \subseteq Nat /\ FifoUs \subseteq Nat
  /\ Delay \in 0 .. Wrap - 1 /\ Patience \in 0 .. Wrap - 1

VARIABLES
  now,      \* TIMERAWL
  held,     \* ticks since the processor's last access
  pc,       \* where the program is
  start,    \* the counter value a wait began at
  want,     \* what the wait compares the modular difference with
  asked,    \* the ticks it was asked to last
  waited,   \* the ticks it has lasted
  round,    \* 1 or 2: which alarm of the test is waited for
  alarm,    \* the word ALARM0
  armed,    \* the alarm is armed
  since,    \* ticks since alarm0_arm read the counter
  intr,     \* INTR bit 0, latched
  enabled,  \* the line is enabled in the NVIC
  count,    \* IRQ_COUNTER
  fired,    \* alarms fired since the counter was cleared
  isr       \* where the handler is

wait   == <<start, want, asked, waited>>
timer  == <<alarm, armed, since, intr>>
vars   == <<now, held, pc, wait, round, timer, enabled, count, fired, isr>>

Init ==
  /\ now \in 0 .. Wrap - 1 /\ held = 0
  /\ pc = "idle"
  /\ start = 0 /\ want = 0 /\ asked = 0 /\ waited = 0
  /\ round = 0
  /\ alarm = 0 /\ armed = FALSE /\ since = 0 /\ intr = FALSE
  /\ enabled = FALSE /\ count = 0 /\ fired = 0 /\ isr = "none"

(* UInt32 subtraction and addition of values the counter can hold. *)
Since(a, b) == IF b >= a THEN b - a ELSE b + Wrap - a
Plus(a, b)  == IF a + b < Wrap THEN a + b ELSE a + b - Wrap

(* The program runs when no handler does and none is due. *)
MayRun == isr = "none" /\ ~(intr /\ enabled)

-----------------------------------------------------------------------------
(* A wait of t ticks on a loop that leaves at a difference of w. *)
Wait(t, w) ==
  /\ pc = "idle" /\ MayRun
  /\ pc' = "sleep"
  /\ start' = now /\ want' = w /\ asked' = t /\ waited' = 0
  /\ held' = 0
  /\ UNCHANGED <<now, round, timer, enabled, count, fired, isr>>

Sleep(u) == Wait(u, u)

(* Deviation: milliseconds passed on as they are. *)
Ms_Unscaled(m) == m

(* sleep_ms multiplies in UInt32. *)
Ms(m) == (m * PerMs) % Wrap

SleepMillis(m) == Wait(m * PerMs, Ms(m))

(* _fifo_pop on RISC-V leaves when the difference exceeds the budget.      *)
Budget(t) == (t * PerUs) % Wrap

FifoTimeout(t) == Wait(t * PerUs, Budget(t) + 1)

(* Deviation: the absolute comparison of counter values. *)
Due_Absolute(t) == now >= Plus(start, t)

(* The exit test of the loops: modular difference. *)
Due(t) == Since(start, now) >= t

Poll ==
  /\ pc = "sleep" /\ MayRun
  /\ pc' = IF Due(want) THEN "idle" ELSE pc
  /\ held' = 0
  /\ UNCHANGED <<now, wait, round, timer, enabled, count, fired, isr>>

-----------------------------------------------------------------------------
(* test_timer_irq: counter to 0, pending state and mask of the line, ...   *)
ClearCount ==
  /\ pc = "idle" /\ MayRun
  /\ pc' = "enable"
  /\ count' = 0 /\ fired' = 0 /\ round' = 1
  /\ held' = 0
  /\ UNCHANGED <<now, wait, timer, enabled, isr>>

(* (clear_pending changes nothing while INTR itself is clear.)             *)
Enable ==
  /\ pc = "enable" /\ MayRun
  /\ pc' = "arm"
  /\ enabled' = TRUE
  /\ held' = 0
  /\ UNCHANGED <<now, wait, round, timer, count, fired, isr>>

(* ... alarm0_arm: the counter is read, ... *)
ArmRead ==
  /\ pc = "arm" /\ MayRun
  /\ pc' = "store"
  /\ start' = now /\ since' = 0
  /\ held' = 0
  /\ UNCHANGED <<now, want, asked, waited, round, alarm, armed, intr, enabled,
                 count, fired, isr>>

(* Deviation: the sum is not taken modulo 2^32. *)
Target_Capped == IF start + Delay < Wrap THEN start + Delay ELSE Wrap - 1

Target == Plus(start, Delay)

(* ... and the sum is stored in ALARM0, which arms it. *)
ArmStore ==
  /\ pc = "store" /\ MayRun
  /\ pc' = "t0"
  /\ alarm' = Target /\ armed' = TRUE
  /\ held' = 0
  /\ UNCHANGED <<now, wait, round, since, intr, enabled, count, fired, isr>>

ReadT0 ==
  /\ pc = "t0" /\ MayRun
  /\ pc' = "watch"
  /\ start' = now
  /\ held' = 0
  /\ UNCHANGED <<now, want, asked, waited, round, timer, enabled, count, fired, isr>>

(* The handler has counted: arm again, or the test has passed. *)
Seen ==
  /\ pc = "watch" /\ MayRun
  /\ count >= round
  /\ IF round = 1
       THEN pc' = "arm" /\ round' = 2 /\ enabled' = enabled
       ELSE pc' = "passed" /\ round' = round /\ enabled' = FALSE
  /\ held' = 0
  /\ UNCHANGED <<now, wait, timer, count, fired, isr>>

NotSeen ==
  /\ pc = "watch" /\ MayRun
  /\ count < round
  /\ IF Due(Patience + 1)
       THEN pc' = "failed" /\ enabled' = FALSE
       ELSE pc' = pc /\ enabled' = enabled
  /\ held' = 0
  /\ UNCHANGED <<now, wait, round, timer, count, fired, isr>>

-----------------------------------------------------------------------------
(* The interrupt is taken; on_alarm0 acknowledges first, then counts. *)
(* Deviation: the handler does not acknowledge. *)
Ack_Omitted ==
  /\ isr = "none" /\ intr /\ enabled
  /\ isr' = "count"
  /\ held' = 0
  /\ UNCHANGED <<now, pc, wait, round, timer, enabled, count, fired>>

Ack ==
  /\ isr = "none" /\ intr /\ enabled
  /\ isr' = "count"
  /\ intr' = FALSE
  /\ held' = 0
  /\ UNCHANGED <<now, pc, wait, round, alarm, armed, since, enabled, count, fired>>

Count ==
  /\ isr = "count"
  /\ isr' = "none"
  /\ count' = count + 1
  /\ held' = 0
  /\ UNCHANGED <<now, pc, wait, round, timer, enabled, fired>>

(* One tick of the counter; ALARM0 matches and disarms. *)
Tick ==
  /\ held < Gap
  /\ now' = Plus(now, 1)
  /\ held' = held + 1
  /\ waited' = IF pc = "sleep" THEN waited + 1 ELSE waited
  /\ since' = IF armed \/ pc = "store" THEN since + 1 ELSE since
  /\ IF armed /\ now' = alarm
       THEN armed' = FALSE /\ intr' = TRUE /\ fired' = fired + 1
       ELSE UNCHANGED <<armed, intr, fired>>
  /\ UNCHANGED <<pc, start, want, asked, round, alarm, enabled, count, isr>>

-----------------------------------------------------------------------------
Next ==
  \/ \E u \in SleepUs : Sleep(u)
  \/ \E m \in SleepMs : SleepMillis(m)
  \/ \E t \in FifoUs : FifoTimeout(t)
  \/ Poll \/ ClearCount \/ Enable \/ ArmRead \/ ArmStore \/ ReadT0
  \/ Seen \/ NotSeen
  \/ Ack \/ Count \/ Tick

Spec == Init /\ [][Next]_vars

-----------------------------------------------------------------------------
TypeOK ==
  /\ now \in 0 .. Wrap - 1 /\ start \in 0 .. Wrap - 1 /\ alarm \in 0 .. Wrap - 1
  /\ held \in 0 .. Gap
  /\ pc \in {"idle", "sleep", "enable", "arm", "store", "t0", "watch", "passed", "failed"}
  /\ want \in 0 .. Wrap /\ asked \in Nat /\ waited \in Nat /\ since \in Nat
  /\ round \in 0 .. 2
  /\ armed \in BOOLEAN /\ intr \in BOOLEAN /\ enabled \in BOOLEAN
  /\ count \in 0 .. 2 /\ fired \in 0 .. 2
  /\ isr \in {"none", "count"}

(* No delay and no timeout ends before the time it was asked to last,       *)
(* wherever the counter wraps ("Wrap-around-safe", time.mojo).             *)
LastsLongEnough ==
  [][pc = "sleep" /\ pc' = "idle" => waited >= asked]_vars

(* Nor does it last longer than it was asked to by more than one hold-up of *)
(* the processor (the program does not sleep while its alarm is armed): a   *)
(* loop that misses its exit would stay for a whole turn of the counter.    *)
EndsInTime == pc = "sleep" => waited <= asked + Gap

(* "fire TIMER IRQ 0 in `us_from_now` us": an armed alarm is not overdue.   *)
AlarmNotMissed == armed => since <= Delay

(* The handler counts each alarm once: level-sensitive interrupts that are  *)
(* not acknowledged re-enter, latched ones that are acknowledged too late   *)
(* or twice are lost.                                                      *)
EachAlarmCounted ==
  fired = count + (IF intr \/ isr = "count" THEN 1 ELSE 0)

=============================================================================
