---------------------------- MODULE TimerProofs ----------------------------
(***************************************************************************)
(* Proofs about Timer: waits last long enough wherever the counter wraps,  *)
(* for every counter width, every delay and every hold-up of the processor,*)
(* as long as the products of sleep_ms and of the RISC-V timeouts fit.      *)
(***************************************************************************)
EXTENDS Timer, Integers, TLAPS

(* The arguments whose tick count is a counter value: the others are cut   *)
(* off by the UInt32 product.                                              *)
Fits == /\ \A m \in SleepMs : Ms(m) = m * PerMs
        /\ \A t \in FifoUs : Budget(t) = t * PerUs /\ Budget(t) < Wrap

(* What a wait has seen of the counter is at most what has passed.         *)
WaitInv ==
  /\ now \in 0 .. Wrap - 1
  /\ start \in 0 .. Wrap - 1
  /\ want \in Nat /\ asked \in Nat /\ waited \in Nat
  /\ pc = "sleep" => asked <= want /\ Since(start, now) <= waited

LEMMA SinceNow == ASSUME NEW a \in 0 .. Wrap - 1 PROVE Since(a, a) = 0
  BY WrapAssumption DEF Since

(* A tick moves the difference on by one or back to 0. *)
LEMMA SinceTick ==
  ASSUME NEW a \in 0 .. Wrap - 1, NEW b \in 0 .. Wrap - 1
  PROVE  /\ Plus(b, 1) \in 0 .. Wrap - 1
         /\ Since(a, b) \in Nat
         /\ Since(a, Plus(b, 1)) <= Since(a, b) + 1
  BY WrapAssumption DEF Since, Plus

LEMMA WaitInit == Init => WaitInv
  BY WrapAssumption DEF Init, WaitInv

(* Starting a wait of t ticks on a test for w of them. *)
LEMMA WaitStarts ==
  ASSUME WaitInv, NEW t \in Nat, NEW w \in Nat, t <= w, Wait(t, w)
  PROVE  WaitInv'
<1>1. Since(now, now) = 0
  BY SinceNow DEF WaitInv
<1> QED
  BY <1>1 DEF WaitInv, Wait, Since

LEMMA WaitStep == ASSUME Fits, WaitInv, [Next]_vars PROVE WaitInv'
<1>1. ASSUME NEW u \in SleepUs, Sleep(u) PROVE WaitInv'
  BY <1>1, WaitStarts, ArgumentAssumption, WrapAssumption DEF Sleep
<1>2. ASSUME NEW m \in SleepMs, SleepMillis(m) PROVE WaitInv'
  <2>1. m * PerMs \in Nat /\ Ms(m) = m * PerMs
    BY ArgumentAssumption, FactorAssumption DEF Fits
  <2> QED
    BY <1>2, <2>1, WaitStarts DEF SleepMillis
<1>3. ASSUME NEW t \in FifoUs, FifoTimeout(t) PROVE WaitInv'
  <2>1. t * PerUs \in Nat /\ Budget(t) = t * PerUs
    BY ArgumentAssumption, FactorAssumption DEF Fits
  <2>2. Budget(t) + 1 \in Nat /\ t * PerUs <= Budget(t) + 1
    BY <2>1
  <2> QED
    BY <1>3, <2>1, <2>2, WaitStarts DEF FifoTimeout
<1>4. CASE Poll
  BY <1>4 DEF WaitInv, Poll, wait
<1>5. CASE ClearCount \/ Enable \/ ArmStore \/ Seen \/ NotSeen \/ Ack \/ Count
  BY <1>5 DEF WaitInv, ClearCount, Enable, ArmStore, Seen, NotSeen, Ack, Count, wait
<1>6. CASE ArmRead \/ ReadT0
  BY <1>6 DEF WaitInv, ArmRead, ReadT0
<1>7. CASE Tick
  <2>1. /\ Plus(now, 1) \in 0 .. Wrap - 1
        /\ Since(start, now) \in Nat
        /\ Since(start, Plus(now, 1)) <= Since(start, now) + 1
    BY SinceTick DEF WaitInv
  <2>2. Since(start, now)' = Since(start, Plus(now, 1))
    BY <1>7 DEF Tick, Since
  <2>3. /\ now' \in 0 .. Wrap - 1 /\ start' \in 0 .. Wrap - 1
        /\ want' \in Nat /\ asked' \in Nat /\ waited' \in Nat
    BY <1>7, <2>1 DEF WaitInv, Tick
  <2>4. Since(start, now)' \in Nat
    BY <2>2, SinceTick, <2>1 DEF WaitInv
  <2>5. pc' = "sleep" => asked' <= want' /\ Since(start, now)' <= waited'
    BY <1>7, <2>1, <2>2, <2>4 DEF WaitInv, Tick
  <2> QED
    BY <2>3, <2>5 DEF WaitInv
<1>8. CASE UNCHANGED vars
  BY <1>8 DEF WaitInv, vars, wait, Since
<1> QED
  BY <1>1, <1>2, <1>3, <1>4, <1>5, <1>6, <1>7, <1>8 DEF Next

(* sleep_us, sleep_ms and the timeouts never end early, wherever the wait   *)
(* straddles the wrap of the counter, while their tick counts fit.         *)
THEOREM WaitsLastLongEnough == ASSUME Fits PROVE Spec => LastsLongEnough
<1>1. ASSUME WaitInv, [Next]_vars
      PROVE  [pc = "sleep" /\ pc' = "idle" => waited >= asked]_vars
  <2> SUFFICES ASSUME pc = "sleep", pc' = "idle" PROVE waited >= asked
    OBVIOUS
  <2>1. Poll
    BY <1>1 DEF Next, Sleep, SleepMillis, FifoTimeout, Wait, ClearCount, Enable,
                ArmRead, ArmStore, ReadT0, Seen, NotSeen, Ack, Count, Tick, vars
  <2>2. Since(start, now) >= want
    BY <2>1 DEF Poll, Due
  <2>3. Since(start, now) \in Nat
    BY <1>1, SinceTick DEF WaitInv
  <2> QED
    BY <1>1, <2>2, <2>3 DEF WaitInv
<1> QED
  BY <1>1, WaitInit, WaitStep, PTL DEF Spec, LastsLongEnough

-----------------------------------------------------------------------------
(* The alarm. *)

(* The program goes from reading the counter to storing ALARM0 faster than   *)
(* the delay it asks for.                                                  *)
Ahead == Gap < Delay

Pending == IF armed THEN 1 ELSE 0

Ranges ==
  /\ now \in 0 .. Wrap - 1 /\ start \in 0 .. Wrap - 1 /\ alarm \in 0 .. Wrap - 1
  /\ held \in 0 .. Gap
  /\ count \in Nat /\ fired \in Nat /\ round \in Nat /\ since \in Nat
  /\ armed \in BOOLEAN /\ intr \in BOOLEAN /\ isr \in {"none", "count"}

(* How many alarms have fired and whether one is to come, by the place the  *)
(* program has reached.                                                    *)
Fired ==
  /\ pc \in {"idle", "sleep", "enable", "arm", "store"} =>
       ~armed /\ ~intr /\ isr = "none"
  /\ armed => ~intr /\ isr = "none"
  /\ ~(intr /\ isr = "count")
  /\ pc = "enable" => fired = 0 /\ round = 1
  /\ pc \in {"arm", "store"} => fired + 1 = round
  /\ pc \in {"t0", "watch"} => fired + Pending = round

(* The distance to the alarm and the time since the counter was read.       *)
Distance ==
  /\ pc = "store" => since <= held /\ Since(start, now) = since
  /\ armed => since < Delay /\ Since(now, alarm) + since = Delay

AlarmInv == Ranges /\ EachAlarmCounted /\ Fired /\ Distance

LEMMA Stored ==
  ASSUME NEW s \in 0 .. Wrap - 1, NEW n \in 0 .. Wrap - 1, Since(s, n) < Delay
  PROVE  /\ Plus(s, Delay) \in 0 .. Wrap - 1
         /\ Since(n, Plus(s, Delay)) + Since(s, n) = Delay
  BY WrapAssumption, ArgumentAssumption DEF Since, Plus

LEMMA Nearer ==
  ASSUME NEW n \in 0 .. Wrap - 1, NEW a \in 0 .. Wrap - 1, Since(n, a) > 0
  PROVE  /\ Plus(n, 1) = a => Since(n, a) = 1
         /\ Plus(n, 1) # a => Since(n, a) > 1
         /\ Since(Plus(n, 1), a) = Since(n, a) - 1
  BY WrapAssumption DEF Since, Plus

LEMMA Further ==
  ASSUME NEW s \in 0 .. Wrap - 1, NEW n \in 0 .. Wrap - 1, Since(s, n) + 1 < Wrap
  PROVE  Since(s, Plus(n, 1)) = Since(s, n) + 1
  BY WrapAssumption DEF Since, Plus

LEMMA AlarmInit == Init => AlarmInv
<1> SUFFICES ASSUME Init PROVE AlarmInv
  OBVIOUS
<1>1. armed \in BOOLEAN /\ intr \in BOOLEAN /\ ~armed /\ ~intr
  BY DEF Init
<1>2. Ranges
  BY <1>1, WrapAssumption, GapAssumption DEF Init, Ranges
<1>3. EachAlarmCounted /\ Fired /\ Distance
  BY <1>1 DEF Init, EachAlarmCounted, Fired, Distance
<1> QED
  BY <1>2, <1>3 DEF AlarmInv

(* Steps that leave the alarm, the handler and the test alone.             *)
LEMMA WaitsDoNotTouch ==
  ASSUME AlarmInv, NEW t, NEW w, Wait(t, w)
  PROVE  AlarmInv'
  BY GapAssumption
     DEF Wait, AlarmInv, Ranges, EachAlarmCounted, Fired, Distance, Pending, timer

LEMMA AlarmStep == ASSUME Ahead, AlarmInv, [Next]_vars PROVE AlarmInv'
<1> USE GapAssumption
<1>1. ASSUME NEW u \in SleepUs, Sleep(u) PROVE AlarmInv'
  BY <1>1, WaitsDoNotTouch DEF Sleep
<1>2. ASSUME NEW m \in SleepMs, SleepMillis(m) PROVE AlarmInv'
  BY <1>2, WaitsDoNotTouch DEF SleepMillis
<1>3. ASSUME NEW t \in FifoUs, FifoTimeout(t) PROVE AlarmInv'
  BY <1>3, WaitsDoNotTouch DEF FifoTimeout
<1>4. CASE Poll
  BY <1>4 DEF Poll, AlarmInv, Ranges, EachAlarmCounted, Fired, Distance, Pending, timer, wait
<1>5. CASE ClearCount
  BY <1>5 DEF ClearCount, AlarmInv, Ranges, EachAlarmCounted, Fired, Distance, Pending, timer, wait
<1>6. CASE Enable
  BY <1>6 DEF Enable, AlarmInv, Ranges, EachAlarmCounted, Fired, Distance, Pending, timer, wait
<1>7. CASE ArmRead
  <2>1. Since(now, now) = 0
    BY SinceNow DEF AlarmInv, Ranges
  <2>2. Since(start, now)' = Since(now, now)
    BY <1>7 DEF ArmRead, Since
  <2> QED
    BY <1>7, <2>1, <2>2 DEF ArmRead, AlarmInv, Ranges, EachAlarmCounted, Fired, Distance, Pending
<1>8. CASE ArmStore
  <2>1. Since(start, now) = since /\ since < Delay
    BY <1>8, ArgumentAssumption DEF ArmStore, AlarmInv, Ranges, Distance, Ahead
  <2>2. Target \in 0 .. Wrap - 1 /\ Since(now, Target) + since = Delay
    BY <2>1, Stored DEF Target, AlarmInv, Ranges
  <2>3. Since(now, alarm)' = Since(now, Target)
    BY <1>8 DEF ArmStore, Since
  <2>4. Ranges' /\ EachAlarmCounted'
    BY <1>8, <2>2 DEF ArmStore, AlarmInv, Ranges, EachAlarmCounted, wait
  <2>5. Fired'
    BY <1>8 DEF ArmStore, AlarmInv, Ranges, Fired, Pending
  <2>6. Distance'
    BY <1>8, <2>1, <2>2, <2>3 DEF ArmStore, Distance
  <2> QED
    BY <2>4, <2>5, <2>6 DEF AlarmInv
<1>9. CASE ReadT0
  BY <1>9 DEF ReadT0, AlarmInv, Ranges, EachAlarmCounted, Fired, Distance, Pending, timer
<1>10. CASE Seen
  <2>1. fired = round /\ ~armed /\ ~intr
    BY <1>10 DEF Seen, MayRun, AlarmInv, Ranges, EachAlarmCounted, Fired, Pending
  <2> QED
    BY <1>10, <2>1 DEF Seen, MayRun, AlarmInv, Ranges, EachAlarmCounted, Fired, Distance, Pending, timer, wait
<1>11. CASE NotSeen
  BY <1>11 DEF NotSeen, AlarmInv, Ranges, EachAlarmCounted, Fired, Distance, Pending, timer, wait
<1>12. CASE Ack
  <2>1. ~intr' /\ intr' \in BOOLEAN /\ isr' = "count" /\ intr /\ isr = "none" /\ ~armed
    BY <1>12 DEF Ack, AlarmInv, Fired
  <2>2. UNCHANGED <<now, pc, start, round, alarm, armed, since, count, fired>> /\ held' = 0
    BY <1>12 DEF Ack, wait
  <2> QED
    BY <2>1, <2>2 DEF AlarmInv, Ranges, EachAlarmCounted, Fired, Distance, Pending
<1>13. CASE Count
  BY <1>13 DEF Count, AlarmInv, Ranges, EachAlarmCounted, Fired, Distance, Pending, timer, wait
<1>14. CASE Tick
  <2>1. Plus(now, 1) \in 0 .. Wrap - 1
    BY SinceTick DEF AlarmInv, Ranges
  <2>2. Ranges'
    <3>1. armed' \in BOOLEAN /\ intr' \in BOOLEAN
      BY <1>14 DEF Tick, AlarmInv, Ranges
    <3>2. /\ now' \in 0 .. Wrap - 1 /\ start' \in 0 .. Wrap - 1 /\ alarm' \in 0 .. Wrap - 1
          /\ held' \in 0 .. Gap
          /\ count' \in Nat /\ fired' \in Nat /\ round' \in Nat /\ since' \in Nat
          /\ isr' \in {"none", "count"}
      BY <1>14, <2>1 DEF Tick, AlarmInv, Ranges
    <3> QED
      BY <3>1, <3>2 DEF Ranges
  <2>3. armed => Since(now, alarm) \in Nat /\ Since(now, alarm) > 0
    <3>1. Since(now, alarm) \in Nat
      BY SinceTick DEF AlarmInv, Ranges
    <3> QED
      BY <3>1, ArgumentAssumption DEF AlarmInv, Ranges, Distance
  <2>4. EachAlarmCounted' /\ Fired'
    <3>1. CASE armed /\ Plus(now, 1) = alarm
      BY <1>14, <3>1 DEF Tick, AlarmInv, Ranges, EachAlarmCounted, Fired, Pending
    <3>2. CASE ~(armed /\ Plus(now, 1) = alarm)
      BY <1>14, <3>2 DEF Tick, AlarmInv, Ranges, EachAlarmCounted, Fired, Pending
    <3> QED
      BY <3>1, <3>2
  <2>5. Distance'
    <3>1. pc = "store" => since' <= held' /\ Since(start, now)' = since'
      <4> SUFFICES ASSUME pc = "store" PROVE since' <= held' /\ Since(start, now)' = since'
        OBVIOUS
      <4>1. since < Delay /\ Since(start, now) = since /\ since + 1 < Wrap
        BY <1>14, ArgumentAssumption, WrapAssumption DEF Tick, AlarmInv, Ranges, Distance, Ahead
      <4>2. Since(start, now)' = Since(start, Plus(now, 1))
        BY <1>14 DEF Tick, Since
      <4>3. Since(start, Plus(now, 1)) = since + 1
        BY <4>1, Further DEF AlarmInv, Ranges
      <4> QED
        BY <1>14, <4>2, <4>3 DEF Tick, AlarmInv, Ranges, Distance
    <3>2. armed' => since' < Delay /\ Since(now, alarm)' + since' = Delay
      <4> SUFFICES ASSUME armed' PROVE since' < Delay /\ Since(now, alarm)' + since' = Delay
        OBVIOUS
      <4>1. armed /\ Plus(now, 1) # alarm
        BY <1>14 DEF Tick
      <4>2. Since(now, alarm)' = Since(Plus(now, 1), alarm)
        BY <1>14 DEF Tick, Since
      <4>3. Since(now, alarm) > 1 /\ Since(Plus(now, 1), alarm) = Since(now, alarm) - 1
        BY <2>3, <4>1, Nearer DEF AlarmInv, Ranges
      <4> QED
        BY <1>14, <2>3, <4>1, <4>2, <4>3, ArgumentAssumption DEF Tick, AlarmInv, Ranges, Distance
    <3> QED
      BY <1>14, <3>1, <3>2 DEF Tick, Distance
  <2> QED
    BY <2>2, <2>4, <2>5 DEF AlarmInv
<1>15. CASE UNCHANGED vars
  BY <1>15 DEF vars, AlarmInv, Ranges, EachAlarmCounted, Fired, Distance, Pending, timer, wait, Since
<1> QED
  BY <1>1, <1>2, <1>3, <1>4, <1>5, <1>6, <1>7, <1>8, <1>9, <1>10, <1>11, <1>12, <1>13,
     <1>14, <1>15 DEF Next

(* An armed alarm is never overdue: alarm0_arm has stored its target before *)
(* the counter gets there.                                                 *)
THEOREM AlarmIsNotMissed == ASSUME Ahead PROVE Spec => []AlarmNotMissed
<1>1. AlarmInv => AlarmNotMissed
  BY ArgumentAssumption DEF AlarmInv, Ranges, Distance, AlarmNotMissed
<1> QED
  BY <1>1, AlarmInit, AlarmStep, PTL DEF Spec

(* on_alarm0 counts each alarm that has fired exactly once.                 *)
THEOREM AlarmsAreCounted == ASSUME Ahead PROVE Spec => []EachAlarmCounted
<1>1. AlarmInv => EachAlarmCounted
  BY DEF AlarmInv
<1> QED
  BY <1>1, AlarmInit, AlarmStep, PTL DEF Spec
-----------------------------------------------------------------------------
(* How late a wait may end. *)

(* No wait asks for so much that one hold-up could carry the counter past   *)
(* the values the exit test accepts.                                       *)
Window ==
  /\ Gap < Wrap
  /\ \A u \in SleepUs : u + Gap <= Wrap
  /\ \A m \in SleepMs : Ms(m) + Gap <= Wrap
  /\ \A t \in FifoUs : Budget(t) + 1 + Gap <= Wrap

(* A wait sees all that has passed, and at its last look too little had;    *)
(* no handler runs meanwhile.                                              *)
LateInv ==
  /\ now \in 0 .. Wrap - 1 /\ start \in 0 .. Wrap - 1
  /\ want \in Nat /\ asked \in Nat /\ waited \in Nat
  /\ held \in 0 .. Gap
  /\ pc \in {"idle", "sleep"} => ~armed /\ ~intr /\ isr = "none"
  /\ pc = "sleep" =>
       /\ want <= asked + 1 /\ want + Gap <= Wrap
       /\ Since(start, now) = waited
       /\ waited <= held \/ waited < want + held

LEMMA LateInit == Init => LateInv
  BY WrapAssumption, GapAssumption DEF Init, LateInv

LEMMA LateStarts ==
  ASSUME LateInv, NEW t \in Nat, NEW w \in Nat, w <= t + 1, w + Gap <= Wrap, Wait(t, w)
  PROVE  LateInv'
<1>1. Since(now, now) = 0
  BY SinceNow DEF LateInv
<1> QED
  BY <1>1, GapAssumption DEF LateInv, Wait, Since, timer

(* The UInt32 product is at most the product. *)
LEMMA Truncated == ASSUME NEW x \in Nat PROVE x % Wrap \in Nat /\ x % Wrap <= x
  BY WrapAssumption

LEMMA LateTick == ASSUME Window, LateInv, Tick PROVE LateInv'
<1>1. Plus(now, 1) \in 0 .. Wrap - 1
  BY SinceTick DEF LateInv
<1>2. /\ now' \in 0 .. Wrap - 1 /\ start' \in 0 .. Wrap - 1
      /\ want' \in Nat /\ asked' \in Nat /\ waited' \in Nat
      /\ held' = held + 1 /\ held' \in 0 .. Gap
  BY <1>1, GapAssumption DEF LateInv, Tick
<1>3. pc' \in {"idle", "sleep"} => ~armed' /\ ~intr' /\ isr' = "none"
  BY DEF LateInv, Tick
<1>4. ASSUME pc' = "sleep"
      PROVE  /\ want' <= asked' + 1 /\ want' + Gap <= Wrap
             /\ Since(start, now)' = waited'
             /\ waited' <= held' \/ waited' < want' + held'
  <2>1. /\ pc = "sleep" /\ waited' = waited + 1
        /\ start' = start /\ now' = Plus(now, 1) /\ want' = want /\ asked' = asked
    BY <1>4 DEF Tick
  <2>2. waited' <= held' \/ waited' < want + held'
    BY <1>2, <2>1 DEF LateInv
  <2>3. waited + 1 < Wrap
    BY <1>2, <2>1, <2>2, WrapAssumption, GapAssumption DEF LateInv, Window
  <2>4. Since(start, Plus(now, 1)) = waited + 1
    BY <2>1, <2>3, Further DEF LateInv
  <2>5. Since(start, now)' = Since(start, Plus(now, 1))
    BY <2>1 DEF Since
  <2> QED
    BY <2>1, <2>2, <2>4, <2>5 DEF LateInv
<1> QED
  BY <1>2, <1>3, <1>4 DEF LateInv

LEMMA LateStep == ASSUME Window, LateInv, [Next]_vars PROVE LateInv'
<1> USE GapAssumption
<1>1. ASSUME NEW u \in SleepUs, Sleep(u) PROVE LateInv'
  BY <1>1, LateStarts, ArgumentAssumption, WrapAssumption DEF Sleep, Window
<1>2. ASSUME NEW m \in SleepMs, SleepMillis(m) PROVE LateInv'
  <2>1. m * PerMs \in Nat
    BY ArgumentAssumption, FactorAssumption
  <2>2. Ms(m) \in Nat /\ Ms(m) <= m * PerMs
    BY <2>1, Truncated DEF Ms
  <2>3. Ms(m) <= m * PerMs + 1 /\ Ms(m) + Gap <= Wrap
    BY <2>1, <2>2 DEF Window
  <2> QED
    BY <1>2, <2>1, <2>2, <2>3, LateStarts DEF SleepMillis
<1>3. ASSUME NEW t \in FifoUs, FifoTimeout(t) PROVE LateInv'
  <2>1. t * PerUs \in Nat
    BY ArgumentAssumption, FactorAssumption
  <2>2. Budget(t) \in Nat /\ Budget(t) <= t * PerUs
    BY <2>1, Truncated DEF Budget
  <2>3. Budget(t) + 1 \in Nat /\ Budget(t) + 1 <= t * PerUs + 1 /\ Budget(t) + 1 + Gap <= Wrap
    BY <2>1, <2>2 DEF Window
  <2> QED
    BY <1>3, <2>1, <2>3, LateStarts DEF FifoTimeout
<1>4. CASE Poll
  BY <1>4 DEF LateInv, Poll, Due, Since, wait, timer
<1>5. CASE ClearCount \/ Enable \/ ArmStore
  BY <1>5 DEF LateInv, ClearCount, Enable, ArmStore, wait, timer
<1>6. CASE ArmRead \/ ReadT0
  BY <1>6 DEF LateInv, ArmRead, ReadT0, timer
<1>7. CASE Seen \/ NotSeen
  BY <1>7 DEF LateInv, Seen, NotSeen, wait, timer
<1>8. CASE Ack \/ Count
  BY <1>8 DEF LateInv, Ack, Count, wait, timer
<1>9. CASE Tick
  BY <1>9, LateTick
<1>10. CASE UNCHANGED vars
  BY <1>10 DEF LateInv, vars, wait, timer, Since
<1> QED
  BY <1>1, <1>2, <1>3, <1>4, <1>5, <1>6, <1>7, <1>8, <1>9, <1>10 DEF Next

(* A wait overruns by at most one hold-up of the processor, wherever it      *)
(* straddles the wrap, as long as its exit window is wider than a hold-up.  *)
THEOREM WaitsEndInTime == ASSUME Window PROVE Spec => []EndsInTime
<1>1. LateInv => EndsInTime
  BY GapAssumption DEF LateInv, EndsInTime
<1> QED
  BY <1>1, LateInit, LateStep, PTL DEF Spec
=============================================================================
