------------------------- MODULE MulticoreProofs -------------------------
(***************************************************************************)
(* Theorems about both cores: launch() of multicore.mojo, for FIFOs of any   *)
(* depth, any number of attempts and any words, and the spinlock of          *)
(* sync.mojo under contention, for any number of increments.                *)
(*                                                                         *)
(* launch(): core 0 believes the echoes it pops; what makes them            *)
(* believable is that the answers form one stream (those it has popped and   *)
(* matched, then those still in its inbox), of which it only ever drops a    *)
(* prefix, and whose end tells how far core 1 has got.                      *)
(***************************************************************************)
EXTENDS CoreLaunch, SpinCounter, Integers, SequenceTheorems, TLAPS

(* The stream of answers: position k > 0 is in the inbox, 0 is the last one    *)
(* popped, -1 the one before.  Known from the echo of the vector on: after a   *)
(* 0 the inbox has been drained.                                           *)
Known(k) == k \in Int /\ k <= Len(inbox) /\ (k > 0 \/ i + k > 3)
Got(k)   == IF k > 0 THEN inbox[k] ELSE Cmd(i - 1 + k)

(* The answer with which core 1 came to stage s. *)
Echo(s) == IF s = 1 THEN "0" ELSE IF s = 2 THEN "1" ELSE args[s - 2]

Args == IF stage > 2 THEN stage - 2 ELSE 0

CoreTypes ==
  /\ pc \in {"off", "on", "next", "drain", "push", "sev", "pop", "true", "false"}
  /\ i \in 0 .. 6 /\ attempts \in Nat
  /\ inbox \in Seq(Words) /\ outbox \in Seq(Words)
  /\ core1 \in {"off", "boot", "greet", "wait", "run", "lost", "dead"}
  /\ stage \in 0 .. 5 /\ args \in Seq(Words)

(* Before the first drain the inbox holds anything. *)
Early == \/ pc \in {"off", "on", "false"}
         \/ attempts = 0
         \/ attempts = 1 /\ pc = "drain"

Core0Inv ==
  /\ pc \in {"off", "on"} => attempts = 0
  /\ attempts = 0 => i = 0 /\ pc \in {"off", "on", "next"}
  /\ pc = "drain" => i \in {0, 1}
  /\ pc \in {"push", "sev", "pop"} => i < 6
  /\ pc = "true" => i = 6

Core1Inv ==
  /\ pc = "on" => core1 = "off" /\ stage = 0 /\ args = <<>>
  /\ core1 \in {"boot", "greet"} => stage = 0 /\ args = <<>>
  /\ core1 = "wait" => stage < 5 /\ Len(args) = Args
  /\ core1 = "run" => pc = "off" \/ (stage = 5 /\ args = RightArgs)

(* The last answers of a waiting core 1 are those of its present sequence. *)
EchoInv ==
  core1 = "wait" => \A j \in 0 .. stage - 1 :
                      Known(Len(inbox) - j) => Got(Len(inbox) - j) = Echo(stage - j)

(* The echoes of vector, stack and entry in a row are the end of a sequence     *)
(* that started core 1, and of its answers.                                *)
Started == core1 \in {"run", "dead"} /\ stage = 5 /\ args = RightArgs

Triple(k) == /\ Known(k - 2) /\ Known(k - 1) /\ Known(k)
             /\ Got(k - 2) = Vector /\ Got(k - 1) = Stack /\ Got(k) = Entry

TripleInv ==
  ~Early => \A k \in Int : Triple(k) =>
              Started /\ \A m \in 1 .. Len(inbox) : m > k => inbox[m] = AppWord

Inv == CoreTypes /\ Core0Inv /\ Core1Inv /\ EchoInv /\ TripleInv

-----------------------------------------------------------------------------
LEMMA WordsOfCmd ==
  ASSUME NEW n \in 0 .. 5
  PROVE  /\ Cmd(n) \in Words
         /\ Cmd(n) = IF n < 2 THEN "0" ELSE IF n = 2 THEN "1" ELSE
                     IF n = 3 THEN Vector ELSE IF n = 4 THEN Stack ELSE Entry
         /\ Cmd(n) = "0" => n \in {0, 1}
<1>1. Vector # "0" /\ Stack # "0" /\ Entry # "0"
  BY CommandAssumption
<1>2. /\ Cmd(0) = "0" /\ Cmd(1) = "0" /\ Cmd(2) = "1"
      /\ Cmd(3) = Vector /\ Cmd(4) = Stack /\ Cmd(5) = Entry
  BY DEF Cmd
<1>3. n \in {0, 1, 2, 3, 4, 5}
  OBVIOUS
<1> QED
  BY <1>1, <1>2, <1>3 DEF Words

LEMMA NoWords == <<>> \in Seq(Words) /\ Len(<<>>) = 0
  BY EmptySeq

LEMMA MoreWords ==
  ASSUME NEW s, s \in Seq(Words), NEW w, w \in Words
  PROVE  /\ Append(s, w) \in Seq(Words) /\ Len(Append(s, w)) = Len(s) + 1
         /\ \A k \in 1 .. Len(s) : Append(s, w)[k] = s[k]
         /\ Append(s, w)[Len(s) + 1] = w
  BY AppendProperties

LEMMA FewerWords ==
  ASSUME NEW s, s \in Seq(Words), s # <<>>
  PROVE  /\ Head(s) \in Words /\ Head(s) = s[1] /\ Len(s) \in Nat /\ Len(s) > 0
         /\ Tail(s) \in Seq(Words) /\ Len(Tail(s)) = Len(s) - 1
         /\ \A k \in 1 .. Len(s) - 1 : Tail(s)[k] = s[k + 1]
  BY HeadTailProperties, EmptySeq

LEMMA BasicInit == Init => CoreTypes /\ Core0Inv /\ Core1Inv
<1> SUFFICES ASSUME Init PROVE CoreTypes /\ Core0Inv /\ Core1Inv
  OBVIOUS
<1>1. \A s \in Leftovers : s \in Seq(Words)
  <2>1. "0" \in Words /\ AppWord \in Words
    BY DEF Words
  <2>2. <<"0">> \in Seq(Words) /\ <<AppWord>> \in Seq(Words) /\ <<AppWord, "0">> \in Seq(Words)
    BY <2>1
  <2> QED
    BY <2>2, NoWords DEF Leftovers
<1> QED
  BY <1>1, NoWords DEF Init, CoreTypes, Core0Inv, Core1Inv, Args

LEMMA TypesStep == ASSUME CoreTypes, Core0Inv, Core1Inv, [Next]_vars PROVE CoreTypes'
<1>0. "0" \in Words /\ AppWord \in Words
  BY DEF Words
<1>1. CASE Core0Step
  <2>1. ASSUME pc \in {"push", "pop"} PROVE Cmd(i) \in Words
    BY <2>1, WordsOfCmd DEF CoreTypes, Core0Inv
  <2>2. CASE ForceOff
    BY <2>2, NoWords DEF ForceOff, CoreTypes
  <2>7. CASE PowerOn \/ Finish
    BY <2>7 DEF PowerOn, Finish, CoreTypes, core1Vars
  <2>6. CASE GiveUp \/ Try
    BY <2>6 DEF GiveUp, Try, CoreTypes, core1Vars
  <2>3. CASE DrainOne \/ DrainDone \/ Pop \/ PopTimeout
    <3>1. inbox # <<>> => Tail(inbox) \in Seq(Words)
      BY FewerWords DEF CoreTypes
    <3>2. pc = "pop" => i + 1 \in 0 .. 6
      BY DEF Core0Inv, CoreTypes
    <3>3. CASE DrainOne
      BY <3>1, <3>3 DEF DrainOne, CoreTypes, core0Vars, core1Vars
    <3>4. CASE DrainDone
      BY <3>4 DEF DrainDone, CoreTypes
    <3>5. CASE Pop
      BY <3>1, <3>2, <3>5 DEF Pop, CoreTypes, core1Vars
    <3>6. CASE PopTimeout
      BY <3>6 DEF PopTimeout, CoreTypes, core1Vars
    <3> QED
      BY <2>3, <3>3, <3>4, <3>5, <3>6
  <2>4. CASE Push
    <3>1. outbox' \in Seq(Words)
      BY <2>1, <2>4, MoreWords DEF Push, CoreTypes
    <3> QED
      BY <2>4, <3>1 DEF Push, CoreTypes, core1Vars
  <2>5. CASE PushSev \/ PushTimeout
    BY <2>5 DEF PushSev, PushTimeout, CoreTypes, core1Vars
  <2> QED
    BY <1>1, <2>2, <2>3, <2>4, <2>5, <2>6, <2>7 DEF Core0Step
<1>2. CASE BootDrain \/ BootGreet \/ Wfe \/ AppPush \/ AppPop \/ Die
  <2>1. outbox # <<>> => Tail(outbox) \in Seq(Words)
    BY FewerWords DEF CoreTypes
  <2>2. Append(inbox, "0") \in Seq(Words) /\ Append(inbox, AppWord) \in Seq(Words)
    BY <1>0, MoreWords DEF CoreTypes
  <2> QED
    BY <1>2, <2>1, <2>2, NoWords
    DEF BootDrain, BootGreet, Wfe, AppPush, AppPop, Die, CoreTypes, core0Vars, core1Vars
<1>3. ASSUME Accept \/ Resync \/ Reject PROVE CoreTypes'
  <2>2. Head(outbox) \in Words /\ Tail(outbox) \in Seq(Words)
    BY <1>3, FewerWords DEF Accept, Resync, Reject, CoreTypes
  <2>3. core1 = "wait" /\ stage < 5 /\ stage \in 0 .. 5
    BY <1>3 DEF Accept, Resync, Reject, Core1Inv, CoreTypes
  <2>4. /\ Append(inbox, Head(outbox)) \in Seq(Words) /\ Append(inbox, "0") \in Seq(Words)
        /\ Append(args, Head(outbox)) \in Seq(Words)
    BY <1>0, <2>2, MoreWords DEF CoreTypes
  <2>5. inbox' \in Seq(Words) /\ outbox' \in Seq(Words) /\ args' \in Seq(Words)
    BY <1>3, <2>2, <2>4, NoWords DEF Accept, Resync, Reject, CoreTypes
  <2>6. stage' \in 0 .. 5 /\ core1' \in {"wait", "run", "lost"}
    BY <1>3, <2>3 DEF Accept, Resync, Reject
  <2> QED
    BY <1>3, <2>5, <2>6 DEF Accept, Resync, Reject, CoreTypes, core0Vars
<1>4. CASE UNCHANGED vars
  BY <1>4 DEF vars, core0Vars, core1Vars, CoreTypes
<1> QED
  BY <1>1, <1>2, <1>3, <1>4 DEF Next, Core0Step

LEMMA Core0InvStep == ASSUME CoreTypes, Core0Inv, [Next]_vars PROVE Core0Inv'
<1>1. CASE ForceOff \/ PowerOn \/ Finish \/ GiveUp
  BY <1>1 DEF ForceOff, PowerOn, Finish, GiveUp, Core0Inv, CoreTypes
<1>2. CASE Try
  BY <1>2, WordsOfCmd DEF Try, Core0Inv, CoreTypes
<1>3. CASE DrainOne \/ DrainDone \/ Push \/ PushSev \/ PushTimeout \/ Pop \/ PopTimeout
  BY <1>3 DEF DrainOne, DrainDone, Push, PushSev, PushTimeout, Pop, PopTimeout, Core0Inv, CoreTypes, core0Vars
<1>4. CASE UNCHANGED core0Vars
  BY <1>4 DEF core0Vars, Core0Inv
<1> QED
  BY <1>1, <1>2, <1>3, <1>4
  DEF Next, BootDrain, BootGreet, Wfe, Accept, Resync, Reject, AppPush, AppPop, Die, vars

LEMMA Core1InvStep == ASSUME CoreTypes, Core0Inv, Core1Inv, [Next]_vars PROVE Core1Inv'
<1>1. CASE ForceOff \/ PowerOn
  BY <1>1 DEF ForceOff, PowerOn, Core1Inv
<1>2. CASE Core0Step /\ ~(ForceOff \/ PowerOn)
  <2>1. UNCHANGED <<core1, stage, args>> /\ pc # "off"
    BY <1>2 DEF Core0Step, Finish, GiveUp, Try, DrainOne, DrainDone, Push, PushSev, PushTimeout, Pop, PopTimeout, core1Vars
  <2>2. pc' # "on"
    BY <1>2 DEF Core0Step, Finish, GiveUp, Try, DrainOne, DrainDone, Push, PushSev, PushTimeout, Pop, PopTimeout, core0Vars
  <2> QED
    BY <2>1, <2>2 DEF Core1Inv, Args
<1>3. CASE BootDrain \/ BootGreet \/ Wfe \/ AppPush \/ AppPop \/ Die \/ UNCHANGED vars
  BY <1>3, NoWords DEF BootDrain, BootGreet, Wfe, AppPush, AppPop, Die, vars, core0Vars, core1Vars, Core1Inv, Args
<1>4. CASE Accept
  <2>1. stage \in 0 .. 4 /\ stage' = stage + 1 /\ core1 = "wait" /\ pc' = pc
    BY <1>4 DEF Accept, Core1Inv, CoreTypes, core0Vars
  <2>2. Head(outbox) \in Words
    BY <1>4, HeadTailProperties DEF Accept, CoreTypes
  <2>3. stage < 4 => Len(args') = Args'
    BY <1>4, <2>1, <2>2, AppendProperties DEF Accept, Args, CoreTypes, Core1Inv
  <2> QED
    BY <1>4, <2>1, <2>3 DEF Accept, Core1Inv, CoreTypes
<1>5. CASE Resync \/ Reject
  BY <1>5, NoWords DEF Resync, Reject, Core1Inv, Args, core0Vars
<1> QED
  BY <1>1, <1>2, <1>3, <1>4, <1>5 DEF Next, Core0Step

-----------------------------------------------------------------------------
(* The stream of answers only loses a prefix, ... *)
Shifted(d) == /\ Len(inbox') = Len(inbox) - d
              /\ \A k \in Int : Known(k)' => Known(k + d) /\ Got(k)' = Got(k + d)

LEMMA ShiftNone ==
  ASSUME CoreTypes, UNCHANGED <<i, inbox>>
  PROVE  Shifted(0)
<1>1. Len(inbox) \in Nat
  BY LenProperties DEF CoreTypes
<1> QED
  BY <1>1 DEF Shifted, Known, Got, Cmd

LEMMA ShiftOne ==
  ASSUME CoreTypes, inbox # <<>>, inbox' = Tail(inbox),
         (i' = i /\ i < 3) \/ (i' = i + 1 /\ i < 6 /\ Head(inbox) = Cmd(i)) \/ i' = 0
  PROVE  Shifted(1)
<1>1. /\ Len(inbox) \in Nat /\ Len(inbox) > 0 /\ Len(inbox') = Len(inbox) - 1 /\ Head(inbox) = inbox[1]
      /\ \A k \in 1 .. Len(inbox) - 1 : inbox'[k] = inbox[k + 1]
  BY FewerWords DEF CoreTypes
<1>2. i \in Int
  BY DEF CoreTypes
<1>3. ASSUME NEW k \in Int, Known(k)' PROVE Known(k + 1) /\ Got(k)' = Got(k + 1)
  <2>1. k <= Len(inbox) - 1 /\ (k > 0 \/ i' + k > 3)
    BY <1>1, <1>3 DEF Known
  <2>2. CASE k > 0
    <3>1. Got(k)' = inbox[k + 1]
      BY <1>1, <2>1, <2>2 DEF Got
    <3> QED
      BY <1>1, <2>1, <2>2, <3>1 DEF Known, Got
  <2>3. CASE k <= 0
    <3>1. i' = i + 1 /\ Head(inbox) = Cmd(i) /\ i + 1 + k > 3
      BY <1>2, <2>1, <2>3
    <3>2. Known(k + 1)
      BY <1>1, <1>2, <2>3, <3>1 DEF Known
    <3>3. Got(k)' = Cmd(i + k)
      <4>1. Got(k)' = Cmd(i' - 1 + k)
        BY <2>3 DEF Got, Cmd
      <4>2. i' - 1 + k = i + k
        BY <1>2, <3>1
      <4> QED
        BY <4>1, <4>2
    <3>4. Got(k + 1) = Cmd(i + k)
      <4>1. CASE k = 0
        BY <1>1, <1>2, <3>1, <4>1 DEF Got
      <4>2. CASE k < 0
        <5>1. Got(k + 1) = Cmd(i - 1 + (k + 1))
          BY <4>2 DEF Got
        <5>2. i - 1 + (k + 1) = i + k
          BY <1>2
        <5> QED
          BY <5>1, <5>2
      <4> QED
        BY <2>3, <4>1, <4>2
    <3> QED
      BY <3>2, <3>3, <3>4
  <2> QED
    BY <2>2, <2>3
<1> QED
  BY <1>1, <1>3 DEF Shifted

LEMMA ShiftKeepsEcho ==
  ASSUME CoreTypes, EchoInv, NEW d \in {0, 1}, Shifted(d),
         core1' = "wait" => stage' = 0 \/ (core1 = "wait" /\ UNCHANGED <<stage, args>>)
  PROVE  EchoInv'
<1>1. Len(inbox) \in Nat /\ stage \in 0 .. 5
  BY LenProperties DEF CoreTypes
<1>2. ASSUME NEW n, n = Len(inbox'), NEW s, s = stage', core1' = "wait",
             NEW j \in 0 .. s - 1, Known(n - j)'
      PROVE  Got(n - j)' = Echo(s - j)'
  <2>1. core1 = "wait" /\ s = stage /\ args' = args
    BY <1>2
  <2>2. n - j \in Int /\ n - j + d = Len(inbox) - j
    BY <1>1, <1>2, <2>1 DEF Shifted
  <2>3. Known(Len(inbox) - j) /\ Got(n - j)' = Got(Len(inbox) - j)
    <3>1. Known(n - j + d) /\ Got(n - j)' = Got(n - j + d)
      BY <1>2, <2>2 DEF Shifted
    <3> QED
      BY <2>2, <3>1
  <2>4. Got(Len(inbox) - j) = Echo(s - j)
    BY <1>2, <2>1, <2>3 DEF EchoInv
  <2>5. Echo(s - j)' = Echo(s - j)
    BY <2>1 DEF Echo
  <2> QED
    BY <2>3, <2>4, <2>5
<1> QED
  BY <1>2 DEF EchoInv

LEMMA ShiftKeepsTriples ==
  ASSUME CoreTypes, TripleInv, NEW d \in {0, 1}, Shifted(d), Early' \/ ~Early,
         Started => Started'
  PROVE  TripleInv'
<1> SUFFICES ASSUME ~Early', NEW k \in Int, Triple(k)'
             PROVE  Started' /\ \A m \in 1 .. Len(inbox') : m > k => inbox'[m] = AppWord
  BY DEF TripleInv
<1>0. Len(inbox) \in Nat /\ Len(inbox') = Len(inbox) - d
  BY LenProperties DEF CoreTypes, Shifted
<1>1. /\ Known(k + d) /\ Got(k)' = Got(k + d)
      /\ Known(k - 2 + d) /\ Got(k - 2)' = Got(k - 2 + d)
  BY DEF Triple, Shifted
<1>2. Known(k - 1 + d) /\ Got(k - 1)' = Got(k - 1 + d)
  BY DEF Triple, Shifted
<1>3. k + d - 2 = k - 2 + d /\ k + d - 1 = k - 1 + d /\ k + d \in Int
  OBVIOUS
<1>4. Triple(k + d)
  BY <1>1, <1>2, <1>3 DEF Triple
<1>5. Started /\ \A m \in 1 .. Len(inbox) : m > k + d => inbox[m] = AppWord
  BY <1>3, <1>4 DEF TripleInv
<1>6. ASSUME NEW m \in 1 .. Len(inbox'), m > k PROVE inbox'[m] = AppWord
  <2>1. Known(m)' /\ Got(m)' = inbox'[m]
    <3>1. m \in Int /\ m > 0 /\ m <= Len(inbox')
      BY <1>0
    <3> QED
      BY <3>1 DEF Known, Got
  <2>2. Got(m)' = Got(m + d) /\ Got(m + d) = inbox[m + d]
    BY <2>1 DEF Shifted, Got
  <2>3. m + d \in 1 .. Len(inbox) /\ m + d > k + d
    BY <1>0, <1>6
  <2> QED
    BY <1>5, <2>1, <2>2, <2>3
<1> QED
  BY <1>5, <1>6

-----------------------------------------------------------------------------
(* ... and gains one answer at a time. *)
LEMMA Answer ==
  ASSUME CoreTypes, NEW w, w \in Words, inbox' = Append(inbox, w), UNCHANGED core0Vars,
         NEW n, n = Len(inbox)
  PROVE  /\ n \in Nat /\ Len(inbox') = n + 1
         /\ \A k \in Int : k <= n /\ Known(k)' => Known(k) /\ Got(k)' = Got(k)
         /\ \A k \in Int : Known(k)' => k <= n + 1
         /\ Got(n + 1)' = w
<1>1. /\ n \in Nat /\ Len(inbox') = n + 1 /\ inbox'[n + 1] = w
      /\ \A k \in 1 .. n : inbox'[k] = inbox[k]
  BY MoreWords, LenProperties DEF CoreTypes
<1>2. i' = i /\ i \in Int
  BY DEF core0Vars, CoreTypes
<1>3. \A k : Cmd(k)' = Cmd(k)
  BY DEF Cmd
<1>4. ASSUME NEW k \in Int, k <= n, Known(k)' PROVE Known(k) /\ Got(k)' = Got(k)
  <2>1. Known(k)
    BY <1>2, <1>4 DEF Known
  <2>2. CASE k > 0
    BY <1>1, <1>4, <2>1, <2>2 DEF Got
  <2>3. CASE ~(k > 0)
    BY <1>2, <1>3, <2>1, <2>3 DEF Got
  <2> QED
    BY <2>1, <2>2, <2>3
<1>5. \A k \in Int : Known(k)' => k <= n + 1
  BY <1>1 DEF Known
<1>6. Got(n + 1)' = w
  <2>1. n + 1 > 0
    BY <1>1
  <2> QED
    BY <1>1, <2>1 DEF Got
<1> QED
  BY <1>1, <1>4, <1>5, <1>6

LEMMA AnswerTriples ==
  ASSUME CoreTypes, TripleInv, ~Started,
         NEW w, w \in Words, inbox' = Append(inbox, w), UNCHANGED core0Vars,
         NEW n, n = Len(inbox),
         Known(n - 1) /\ Got(n - 1) = Vector /\ Known(n) /\ Got(n) = Stack /\ w = Entry => Started'
  PROVE  TripleInv'
<1> SUFFICES ASSUME ~Early', NEW k \in Int, Triple(k)'
             PROVE  Started' /\ \A m \in 1 .. Len(inbox') : m > k => inbox'[m] = AppWord
  BY DEF TripleInv
<1>1. ~Early
  BY DEF Early, core0Vars
<1>2. /\ n \in Nat /\ Len(inbox') = n + 1
      /\ \A j \in Int : j <= n /\ Known(j)' => Known(j) /\ Got(j)' = Got(j)
      /\ \A j \in Int : Known(j)' => j <= n + 1
      /\ Got(n + 1)' = w
  BY Answer
<1>3. /\ Known(k - 2)' /\ Known(k - 1)' /\ Known(k)'
      /\ Got(k - 2)' = Vector /\ Got(k - 1)' = Stack /\ Got(k)' = Entry
  BY DEF Triple
<1>4. k - 2 \in Int /\ k - 1 \in Int /\ k <= n + 1
  BY <1>2, <1>3
<1>5. ~(k <= n)
  <2> SUFFICES ASSUME k <= n PROVE Triple(k)
    BY <1>1 DEF TripleInv
  <2>1. k - 2 <= n /\ k - 1 <= n
    BY <1>2
  <2> QED
    BY <1>2, <1>3, <1>4, <2>1 DEF Triple
<1>6. k = n + 1 /\ k - 2 = n - 1 /\ k - 1 = n /\ n - 1 \in Int /\ n - 1 <= n
  BY <1>2, <1>4, <1>5
<1>7. Known(n - 1) /\ Got(n - 1) = Vector /\ Known(n) /\ Got(n) = Stack /\ w = Entry
  BY <1>2, <1>3, <1>6
<1>8. \A m \in 1 .. Len(inbox') : ~(m > k)
  BY <1>2, <1>6
<1> QED
  BY <1>7, <1>8

(* An answer "0" ends no sequence. *)
LEMMA ZeroTriples ==
  ASSUME CoreTypes, TripleInv, core1 \in {"greet", "wait"},
         inbox' = Append(inbox, "0"), UNCHANGED core0Vars
  PROVE  TripleInv'
<1>1. "0" \in Words /\ "0" # Entry /\ ~Started
  BY CommandAssumption DEF Words, Started
<1>2. PICK n : n = Len(inbox)
  OBVIOUS
<1> QED
  BY <1>1, <1>2, AnswerTriples

LEMMA AcceptStep ==
  ASSUME CoreTypes, Core1Inv, EchoInv, TripleInv, Accept
  PROVE  EchoInv' /\ TripleInv'
<1> DEFINE w == Head(outbox)
<1>1. PICK n : n = Len(inbox)
  OBVIOUS
<1>2. /\ w \in Words /\ inbox' = Append(inbox, w) /\ UNCHANGED core0Vars
      /\ core1 = "wait" /\ Continues(w) /\ stage' = stage + 1
      /\ args' = (IF stage > 1 THEN Append(args, w) ELSE args)
      /\ core1' = IF stage < 4 THEN "wait" ELSE IF args' = RightArgs THEN "run" ELSE "lost"
  BY FewerWords DEF Accept, CoreTypes
<1> HIDE DEF w
<1>3. stage \in {0, 1, 2, 3, 4} /\ args \in Seq(Words) /\ Len(args) = Args
  BY <1>2 DEF CoreTypes, Core1Inv
<1>4. /\ n \in Nat /\ Len(inbox') = n + 1
      /\ \A k \in Int : k <= n /\ Known(k)' => Known(k) /\ Got(k)' = Got(k)
      /\ Got(n + 1)' = w
  BY <1>1, <1>2, Answer
<1>5. /\ stage > 1 => Len(args') = stage - 1 /\ args'[stage - 1] = w
      /\ \A m \in 3 .. stage : args'[m - 2] = args[m - 2]
  <2>1. CASE stage > 1
    <3>1. Len(args) = stage - 2
      BY <1>3, <2>1 DEF Args
    <3>2. /\ Len(args') = stage - 1 /\ args'[stage - 1] = w
          /\ \A m \in 1 .. Len(args) : args'[m] = args[m]
      BY <1>2, <1>3, <2>1, <3>1, MoreWords
    <3> QED
      BY <1>3, <3>1, <3>2
  <2>2. CASE ~(stage > 1)
    BY <1>3, <2>2
  <2> QED
    BY <2>1, <2>2
<1>6. \A j \in 0 .. stage - 1 : Known(n - j) => Got(n - j) = Echo(stage - j)
  BY <1>1, <1>2 DEF EchoInv
<1>7. EchoInv'
  <2> SUFFICES ASSUME NEW s, s = stage', NEW l, l = Len(inbox'), NEW j \in 0 .. s - 1, Known(l - j)'
               PROVE  Got(l - j)' = Echo(s - j)'
    BY DEF EchoInv
  <2>1. l = n + 1 /\ s = stage + 1 /\ s \in 1 .. 5
    BY <1>2, <1>3, <1>4
  <2>2. CASE j = 0
    <3>1. Got(l - j)' = w
      <4>1. l - j = n + 1
        BY <1>4, <2>1, <2>2
      <4> QED
        BY <1>4, <4>1
    <3>2. s - j = s
      BY <2>1, <2>2
    <3>3. Echo(s)' = w
      BY <1>2, <1>3, <1>5, <2>1 DEF Echo, Continues
    <3> QED
      BY <3>1, <3>2, <3>3
  <2>3. CASE j # 0
    <3>1. /\ l - j = n - (j - 1) /\ n - (j - 1) \in Int /\ n - (j - 1) <= n
          /\ j - 1 \in 0 .. stage - 1 /\ s - j = stage - (j - 1) /\ s - j \in 1 .. stage
      BY <1>3, <1>4, <2>1, <2>3
    <3>2. Got(l - j)' = Echo(s - j)
      BY <1>4, <1>6, <3>1
    <3>3. Echo(s - j)' = Echo(s - j)
      BY <1>5, <3>1 DEF Echo
    <3> QED
      BY <3>2, <3>3
  <2> QED
    BY <2>2, <2>3
<1>8. TripleInv'
  <2>1. ~Started
    BY <1>2 DEF Started
  <2>2. ASSUME Known(n - 1), Got(n - 1) = Vector, Known(n), Got(n) = Stack, w = Entry
        PROVE  Started'
    <3>1. Stack # "1" /\ Vector # "1" /\ Entry # "0" /\ Entry # "1"
      BY CommandAssumption
    <3>2. stage > 1
      BY <1>2, <1>3, <2>2, <3>1 DEF Continues
    <3>3. Got(n) = Echo(stage) /\ Got(n - 1) = Echo(stage - 1)
      <4>1. 0 \in 0 .. stage - 1 /\ 1 \in 0 .. stage - 1 /\ n - 0 = n /\ stage - 0 = stage
        BY <1>3, <1>4, <3>2
      <4> QED
        BY <1>6, <2>2, <4>1
    <3>4. stage # 2 /\ stage # 3
      BY <2>2, <3>1, <3>3 DEF Echo
    <3>5. stage = 4 /\ args[2] = Stack /\ args[1] = Vector
      BY <1>3, <2>2, <3>2, <3>3, <3>4 DEF Echo
    <3>6. args' = RightArgs
      <4>1. Len(args') = 3 /\ args'[1] = Vector /\ args'[2] = Stack /\ args'[3] = Entry
        BY <1>5, <2>2, <3>5
      <4>2. args' \in Seq(Words) /\ RightArgs \in Seq(Words) /\ Len(RightArgs) = 3
        BY <1>2, <1>3, <3>2, MoreWords DEF RightArgs, Words
      <4>3. RightArgs[1] = Vector /\ RightArgs[2] = Stack /\ RightArgs[3] = Entry
        BY DEF RightArgs
      <4>4. \A m \in 1 .. 3 : args'[m] = RightArgs[m]
        BY <4>1, <4>3
      <4> QED
        BY <4>1, <4>2, <4>4, SeqEqual
    <3> QED
      BY <1>2, <3>5, <3>6 DEF Started
  <2> QED
    BY <1>1, <1>2, <2>1, <2>2, AnswerTriples
<1> QED
  BY <1>7, <1>8

-----------------------------------------------------------------------------
LEMMA EchoInit == Init => EchoInv /\ TripleInv
<1> SUFFICES ASSUME Init PROVE EchoInv /\ TripleInv
  OBVIOUS
<1>1. stage = 0 /\ 0 .. stage - 1 = {}
  BY DEF Init
<1> QED
  BY <1>1 DEF Init, EchoInv, TripleInv, Early

(* No answer is known yet. *)
LEMMA NothingKnown ==
  ASSUME CoreTypes, inbox' = <<>>, i' \in {0, 1}
  PROVE  EchoInv' /\ TripleInv'
<1>1. ASSUME NEW k \in Int PROVE ~Known(k)'
  <2>1. PICK c \in {0, 1} : i' = c
    OBVIOUS
  <2>2. Len(inbox') = 0
    BY NoWords
  <2>3. ~(k <= 0 /\ c + k > 3)
    BY <2>1
  <2> QED
    BY <2>1, <2>2, <2>3 DEF Known
<1>2. \A k : Known(k)' => k \in Int
  BY DEF Known
<1>3. \A k : ~Known(k)'
  BY <1>1, <1>2
<1>4. EchoInv'
  BY <1>3 DEF EchoInv
<1>5. TripleInv'
  BY <1>3 DEF TripleInv, Triple
<1> QED
  BY <1>4, <1>5

LEMMA Core0Keeps ==
  ASSUME CoreTypes, Core0Inv, EchoInv, TripleInv, Core0Step
  PROVE  EchoInv' /\ TripleInv'
<1>0. i \in 0 .. 6 /\ attempts \in Nat
  BY DEF CoreTypes
<1>1. CASE ForceOff \/ PowerOn \/ GiveUp \/ PushTimeout
  <2>1. Early'
    BY <1>1 DEF ForceOff, PowerOn, GiveUp, PushTimeout, Core0Inv, Early
  <2>2. UNCHANGED <<i, inbox>>
    BY <1>1 DEF ForceOff, PowerOn, GiveUp, PushTimeout
  <2>3. core1' = "wait" => core1 = "wait" /\ UNCHANGED <<stage, args>>
    BY <1>1 DEF ForceOff, PowerOn, GiveUp, PushTimeout, core1Vars
  <2> QED
    BY <2>1, <2>2, <2>3, ShiftNone, ShiftKeepsEcho DEF TripleInv
<1>2. CASE Finish \/ Try \/ Push \/ PushSev
  <2>1. UNCHANGED <<i, inbox, core1, stage, args>>
    BY <1>2 DEF Finish, Try, Push, PushSev, core1Vars
  <2>2. Early' \/ ~Early
    <3>1. CASE Finish \/ Push \/ PushSev
      BY <3>1 DEF Finish, Push, PushSev, Core0Inv, Early
    <3>2. CASE Try
      <4>1. CASE attempts = 0
        BY <3>2, <4>1, WordsOfCmd DEF Try, Core0Inv, Early, Cmd
      <4>2. CASE attempts # 0
        BY <3>2, <4>2 DEF Try, Early
      <4> QED
        BY <4>1, <4>2
    <3> QED
      BY <1>2, <3>1, <3>2
  <2> QED
    BY <2>1, <2>2, ShiftNone, ShiftKeepsEcho, ShiftKeepsTriples DEF Started
<1>3. CASE DrainOne \/ Pop
  <2>1. inbox # <<>> /\ inbox' = Tail(inbox) /\ UNCHANGED <<core1, stage, args>>
    BY <1>3 DEF DrainOne, Pop, core1Vars
  <2>2. (i' = i /\ i < 3) \/ (i' = i + 1 /\ i < 6 /\ Head(inbox) = Cmd(i)) \/ i' = 0
    BY <1>0, <1>3 DEF DrainOne, Pop, Core0Inv, core0Vars
  <2>3. Early' \/ ~Early
    BY <1>3 DEF DrainOne, Pop, Core0Inv, Early, core0Vars
  <2> QED
    BY <2>1, <2>2, <2>3, ShiftOne, ShiftKeepsEcho, ShiftKeepsTriples DEF Started
<1>4. CASE DrainDone \/ PopTimeout
  <2>1. inbox' = <<>> /\ i' \in {0, 1}
    BY <1>4 DEF DrainDone, PopTimeout, Core0Inv
  <2> QED
    BY <2>1, NothingKnown
<1> QED
  BY <1>1, <1>2, <1>3, <1>4 DEF Core0Step

LEMMA Core1Keeps ==
  ASSUME CoreTypes, Core1Inv, EchoInv, TripleInv,
         BootromStep \/ AppPush \/ AppPop \/ Die \/ UNCHANGED vars
  PROVE  EchoInv' /\ TripleInv'
<1>1. CASE BootDrain \/ Wfe \/ AppPop \/ Die \/ UNCHANGED vars
  <2>1. UNCHANGED <<i, inbox>> /\ (Early' \/ ~Early)
    BY <1>1 DEF BootDrain, Wfe, AppPop, Die, vars, core0Vars, Early
  <2>2. core1' = "wait" => stage' = 0 \/ (core1 = "wait" /\ UNCHANGED <<stage, args>>)
    BY <1>1 DEF BootDrain, Wfe, AppPop, Die, vars, core1Vars, Core1Inv
  <2>3. Started => Started'
    BY <1>1 DEF BootDrain, Wfe, AppPop, Die, vars, core1Vars, Started
  <2> QED
    BY <2>1, <2>2, <2>3, ShiftNone, ShiftKeepsEcho, ShiftKeepsTriples
<1>2. CASE BootGreet
  <2>1. TripleInv'
    BY <1>2, ZeroTriples DEF BootGreet
  <2>2. stage' = 0 /\ 0 .. stage' - 1 = {}
    BY <1>2 DEF BootGreet, Core1Inv
  <2> QED
    BY <2>1, <2>2 DEF EchoInv
<1>3. CASE Accept
  BY <1>3, AcceptStep
<1>4. CASE Resync
  <2>1. TripleInv'
    BY <1>4, ZeroTriples DEF Resync
  <2>2. PICK n : n = Len(inbox)
    OBVIOUS
  <2>3. n \in Nat /\ Len(inbox') = n + 1 /\ Got(n + 1)' = "0"
    BY <1>4, <2>2, Answer DEF Resync, Words
  <2>4. stage' = 1
    BY <1>4 DEF Resync
  <2>5. ASSUME NEW j \in 0 .. stage' - 1 PROVE j = 0 /\ Len(inbox') - j = n + 1
    BY <2>3, <2>4
  <2>6. EchoInv'
    <3> SUFFICES ASSUME NEW l, l = Len(inbox'), NEW s, s = stage', NEW j \in 0 .. s - 1
                 PROVE  Got(l - j)' = Echo(s - j)'
      BY DEF EchoInv
    <3>1. j = 0 /\ l - j = n + 1 /\ s - j = 1
      BY <2>3, <2>4
    <3>2. Echo(1)' = "0"
      BY DEF Echo
    <3> QED
      BY <2>3, <3>1, <3>2
  <2> QED
    BY <2>1, <2>6
<1>5. CASE Reject
  <2>1. stage' = 0 /\ 0 .. stage' - 1 = {} /\ core1 = "wait" /\ UNCHANGED core0Vars
    BY <1>5 DEF Reject
  <2>2. CASE inbox' = Append(inbox, "0")
    BY <2>1, <2>2, ZeroTriples DEF EchoInv
  <2>3. CASE inbox' = inbox
    <3>1. UNCHANGED <<i, inbox>> /\ (Early' \/ ~Early) /\ ~Started
      BY <2>1, <2>3 DEF core0Vars, Early, Started
    <3> QED
      BY <2>1, <3>1, ShiftNone, ShiftKeepsTriples DEF EchoInv
  <2> QED
    BY <1>5, <2>2, <2>3 DEF Reject
<1>6. CASE AppPush
  <2>1. EchoInv'
    BY <1>6 DEF AppPush, core1Vars, EchoInv
  <2>2. ASSUME ~Early' PROVE Started'
    BY <1>6, <2>2 DEF AppPush, core0Vars, core1Vars, Core1Inv, Early, Started
  <2>3. PICK n : n = Len(inbox)
    OBVIOUS
  <2>4. /\ AppWord \in Words /\ inbox' = Append(inbox, AppWord) /\ UNCHANGED core0Vars
        /\ inbox \in Seq(Words)
    BY <1>6 DEF AppPush, Words, CoreTypes
  <2>5. /\ n \in Nat /\ Len(inbox') = n + 1
        /\ \A k \in Int : k <= n /\ Known(k)' => Known(k) /\ Got(k)' = Got(k)
        /\ \A k \in Int : Known(k)' => k <= n + 1
    BY <2>3, <2>4, Answer
  <2>6. inbox'[n + 1] = AppWord /\ \A m \in 1 .. n : inbox'[m] = inbox[m]
    BY <2>3, <2>4, MoreWords
  <2>7. ASSUME ~Early', NEW k \in Int, Triple(k)', NEW m \in 1 .. Len(inbox'), m > k
        PROVE  inbox'[m] = AppWord
    <3>1. CASE m = n + 1
      BY <2>6, <3>1
    <3>2. CASE m # n + 1
      <4>1. m \in 1 .. n /\ k <= n /\ k - 1 <= n /\ k - 2 <= n /\ k - 1 \in Int /\ k - 2 \in Int
        BY <2>5, <2>7, <3>2
      <4>2. /\ Known(k - 2)' /\ Known(k - 1)' /\ Known(k)'
            /\ Got(k - 2)' = Vector /\ Got(k - 1)' = Stack /\ Got(k)' = Entry
        BY <2>7 DEF Triple
      <4>3. Triple(k)
        BY <2>5, <4>1, <4>2 DEF Triple
      <4>4. ~Early
        BY <2>4, <2>7 DEF Early, core0Vars
      <4>5. inbox[m] = AppWord
        BY <2>3, <2>7, <4>1, <4>3, <4>4 DEF TripleInv
      <4> QED
        BY <2>6, <4>1, <4>5
    <3> QED
      BY <3>1, <3>2
  <2>8. TripleInv'
    BY <2>2, <2>7 DEF TripleInv
  <2> QED
    BY <2>1, <2>8
<1> QED
  BY <1>1, <1>2, <1>3, <1>4, <1>5, <1>6 DEF BootromStep

LEMMA InvStep == ASSUME Inv, [Next]_vars PROVE Inv'
<1>1. Core0Step \/ BootromStep \/ AppPush \/ AppPop \/ Die \/ UNCHANGED vars
  BY DEF Next, Core0Step, BootromStep
<1>2. EchoInv' /\ TripleInv'
  BY <1>1, Core0Keeps, Core1Keeps DEF Inv
<1> QED
  BY <1>2, TypesStep, Core0InvStep, Core1InvStep DEF Inv

LEMMA InvHolds == Spec => []Inv
<1>1. Init => Inv
  BY BasicInit, EchoInit DEF Inv
<1> QED
  BY <1>1, InvStep, PTL DEF Spec

(* All six echoes popped: the last three are a triple. *)
LEMMA AllEchoed ==
  ASSUME Inv, pc = "true"
  PROVE  Started /\ \A m \in 1 .. Len(inbox) : inbox[m] = AppWord
<1>1. i = 6 /\ attempts # 0 /\ Len(inbox) \in Nat
  BY LenProperties DEF Inv, Core0Inv, CoreTypes
<1>2. Known(0) /\ Known(0 - 1) /\ Known(0 - 2)
  BY <1>1 DEF Known
<1>3. Got(0) = Cmd(5) /\ Got(0 - 1) = Cmd(4) /\ Got(0 - 2) = Cmd(3)
  BY <1>1 DEF Got
<1>4. Triple(0)
  BY <1>2, <1>3 DEF Triple, Cmd
<1>5. ~Early
  BY <1>1 DEF Early
<1>6. Started /\ \A m \in 1 .. Len(inbox) : m > 0 => inbox[m] = AppWord
  BY <1>4, <1>5 DEF Inv, TripleInv
<1> QED
  BY <1>1, <1>6

(* launch() returns True only when core 1 runs, or has run, the application     *)
(* with the vector table, stack and entry point it was sent: for any FIFO      *)
(* depth, any number of restarts and whatever was left in the FIFOs.         *)
THEOREM TrueMeansCore1Started == Spec => []TrueMeansStarted
<1>1. Inv => TrueMeansStarted
  BY AllEchoed DEF TrueMeansStarted, Started
<1> QED
  BY InvHolds, <1>1, PTL

(* ... and then no answer of the handshake is left for fifo_pop to mistake     *)
(* for data.                                                               *)
THEOREM NoEchoIsLeft == Spec => []NoStaleEcho
<1>1. Inv => NoStaleEcho
  BY AllEchoed DEF NoStaleEcho
<1> QED
  BY InvHolds, <1>1, PTL

-----------------------------------------------------------------------------
(* The spinlock.  MutualExclusion alone is inductive (the claim bit tells    *)
(* whether someone is inside); that no update is lost needs it, because a    *)
(* core about to store must still hold the current value; that the test     *)
(* compares the full total needs both and the handshake over DONE           *)
(* (Progress).                                                             *)
CountInv == CountTypes /\ MutualExclusion /\ NoLostUpdate /\ Progress

LEMMA CountInitInv == CountInit => CountInv
<1> SUFFICES ASSUME CountInit PROVE CountInv
  OBVIOUS
<1>1. CountTypes
  <2>1. ctr \in Nat
    BY StaleAssumption DEF CountInit
  <2>2. at \in [Cores -> CountLabels]
    BY DEF CountInit, CountLabels
  <2>3. made \in [Cores -> 0 .. N] /\ tmp \in [Cores -> Nat]
    BY NAssumption DEF CountInit
  <2>4. QED
    BY <2>1, <2>2, <2>3 DEF CountInit, CountTypes
<1>2. MutualExclusion
  BY DEF CountInit, MutualExclusion, InCritical, Cores
<1>3. NoLostUpdate
  BY DEF CountInit, NoLostUpdate, Cleared, Cores
<1>4. Progress
  BY DEF CountInit, Progress, Cores
<1>5. QED
  BY <1>1, <1>2, <1>3, <1>4 DEF CountInv

LEMMA AcquireInv == ASSUME CountInv, NEW c \in Cores, Acquire(c) PROVE CountInv'
BY NAssumption DEF CountInv, CountTypes, MutualExclusion, NoLostUpdate, Progress, Cleared,
   CountLabels, Cores, InCritical, Stored, Acquire, Goto

LEMMA LoadInv == ASSUME CountInv, NEW c \in Cores, Load(c) PROVE CountInv'
BY NAssumption DEF CountInv, CountTypes, MutualExclusion, NoLostUpdate, Progress, Cleared,
   CountLabels, Cores, InCritical, Stored, Load, Goto

(* The store adds one to the current value because nobody else is inside.  *)
LEMMA StoreInv == ASSUME CountInv, NEW c \in Cores, Store(c) PROVE CountInv'
BY NAssumption DEF CountInv, CountTypes, MutualExclusion, NoLostUpdate, Progress, Cleared,
   CountLabels, Cores, InCritical, Stored, Store, Goto

LEMMA ReleaseInv == ASSUME CountInv, NEW c \in Cores, Release(c) PROVE CountInv'
<1> USE NAssumption DEF CountInv, CountTypes, Cores, CountLabels, Release, Goto, LoopHead
<1>1. made[c] < N /\ made[c] \in 0 .. N
  BY DEF Progress
<1>2. CountTypes'
  <2>1. made' \in [Cores -> 0 .. N]
    BY <1>1
  <2>2. at' \in [Cores -> CountLabels]
    OBVIOUS
  <2>3. QED
    BY <2>1, <2>2
<1>3. MutualExclusion'
  BY DEF MutualExclusion, InCritical
<1>4. NoLostUpdate'
  BY DEF NoLostUpdate, MutualExclusion, InCritical, Cleared, Stored
<1>5. Progress'
  BY <1>1 DEF Progress
<1>6. QED
  BY <1>2, <1>3, <1>4, <1>5

LEMMA ReportInv == ASSUME CountInv, Report PROVE CountInv'
BY NAssumption DEF CountInv, CountTypes, MutualExclusion, NoLostUpdate, Progress, Cleared,
   CountLabels, Cores, InCritical, Stored, Report, Goto

LEMMA ClearDoneInv == ASSUME CountInv, ClearDone PROVE CountInv'
BY NAssumption DEF CountInv, CountTypes, MutualExclusion, NoLostUpdate, Progress, Cleared,
   CountLabels, Cores, InCritical, Stored, ClearDone, Goto

LEMMA ClearCtrInv == ASSUME CountInv, ClearCtr PROVE CountInv'
BY NAssumption DEF CountInv, CountTypes, MutualExclusion, NoLostUpdate, Progress, Cleared,
   CountLabels, Cores, InCritical, Stored, ClearCtr, Goto

LEMMA LaunchInv == ASSUME CountInv, Launch \/ LaunchFails PROVE CountInv'
BY NAssumption DEF CountInv, CountTypes, MutualExclusion, NoLostUpdate, Progress, Cleared,
   CountLabels, Cores, InCritical, Stored, Launch, LaunchFails, LoopHead

LEMMA FinishInv == ASSUME CountInv, SeeDone \/ WaitTimeout \/ Compare PROVE CountInv'
BY NAssumption DEF CountInv, CountTypes, MutualExclusion, NoLostUpdate, Progress, Cleared,
   CountLabels, Cores, InCritical, Stored, SeeDone, WaitTimeout, Compare, Goto

LEMMA CountStepInv == CountInv /\ [CountNext]_countVars => CountInv'
<1> SUFFICES ASSUME CountInv, [CountNext]_countVars PROVE CountInv'
  OBVIOUS
<1>1. CASE CountNext
  BY <1>1, AcquireInv, LoadInv, StoreInv, ReleaseInv, ReportInv, ClearDoneInv,
     ClearCtrInv, LaunchInv, FinishInv DEF CountNext
<1>2. CASE UNCHANGED countVars
  BY <1>2 DEF countVars, CountInv, CountTypes, MutualExclusion, NoLostUpdate, Progress, Cleared,
     InCritical, Stored
<1>3. QED
  BY <1>1, <1>2

LEMMA CountInvariance == CountSpec => []CountInv
BY CountInitInv, CountStepInv, PTL DEF CountSpec

(* At most one core is between claim and release of spinlock 0, and the     *)
(* claim bit says so (sync.mojo, acquire and release).                     *)
THEOREM SpinlockExcludes == CountSpec => []MutualExclusion
BY CountInvariance, PTL DEF CountInv

(* No read-modify-write of the shared word is lost.                        *)
THEOREM NoUpdateIsLost == CountSpec => []NoLostUpdate
BY CountInvariance, PTL DEF CountInv

(* When core 0 compares, the counter is the total of both cores.           *)
THEOREM ComparedTotalIsRight == CountSpec => []CompareSeesTotal
<1>1. CountInv => CompareSeesTotal
  BY NAssumption DEF CountInv, CountTypes, NoLostUpdate, Progress, CompareSeesTotal, Cleared,
     Stored, Cores
<1>2. QED
  BY <1>1, CountInvariance, PTL

(* Each critical section is one atomic increment of the counter.           *)
LEMMA StepRefines ==
  ASSUME CountInv, [CountNext]_countVars
  PROVE  [Counter!Next]_(Counter!vars)
<1> USE NAssumption DEF Counter!vars, Counter!Next, Counter!Increment, Cores
<1>1. ASSUME NEW c \in Cores, Store(c) PROVE Counter!Increment(c)
  <2> USE <1>1 DEF Store, Goto
  <2>1. /\ at[c] = "store" /\ made[c] \in 0 .. N /\ made[c] < N /\ at' = [at EXCEPT ![c] = "release"]
        /\ made' = made /\ at \in [Cores -> CountLabels]
    BY DEF CountInv, CountTypes, Progress
  <2>2. Cleared /\ Cleared'
    BY <2>1 DEF Cleared, CountInv, Progress, CountTypes
  <2>3. ctr' = ctr + 1
    BY <2>1, <2>2 DEF CountInv, NoLostUpdate
  <2>4. Stored(c) = made[c] /\ Stored(c)' = made[c] + 1
    BY <2>1 DEF Stored
  <2>5. \A d \in Cores : d # c => Stored(d)' = Stored(d)
    BY <2>1 DEF Stored
  <2>6. [d \in Cores |-> N - Stored(d)]' = [[d \in Cores |-> N - Stored(d)] EXCEPT ![c] = @ - 1]
    <3>1. \A d \in Cores : Stored(d) \in Nat
      BY DEF Stored, CountInv, CountTypes
    <3> DEFINE f == [d \in Cores |-> N - Stored(d)]
    <3>2. f' = [d \in Cores |-> N - Stored(d)'] /\ [f EXCEPT ![c] = @ - 1] \in [Cores -> Int]
      BY <2>1, <3>1
    <3>3. \A d \in Cores : N - Stored(d)' = [f EXCEPT ![c] = @ - 1][d]
      BY <2>1, <2>4, <2>5, <3>1
    <3>4. QED
      BY <3>2, <3>3
  <2>7. [d \in Cores |-> N - Stored(d)][c] > 0
    BY <2>1, <2>4
  <2>8. QED
    BY <2>2, <2>3, <2>6, <2>7
<1>2. ASSUME NEW c \in Cores, Acquire(c) \/ Load(c) \/ Release(c) PROVE UNCHANGED Counter!vars
  BY <1>2 DEF CountInv, CountTypes, Progress, Cleared, Stored, Acquire, Load, Release, Goto, LoopHead, CountLabels
<1>3. CASE Report \/ ClearDone \/ ClearCtr \/ SeeDone \/ WaitTimeout \/ Compare
  BY <1>3 DEF CountInv, CountTypes, Progress, Cleared, Stored, Report, ClearDone, ClearCtr,
     SeeDone, WaitTimeout, Compare, Goto, CountLabels
<1>4. CASE Launch \/ LaunchFails
  BY <1>4 DEF CountInv, CountTypes, Progress, Cleared, Stored, Launch, LaunchFails, LoopHead, CountLabels
<1>5. CASE UNCHANGED countVars
  BY <1>5 DEF countVars, Cleared, Stored
<1>6. QED
  BY <1>1, <1>2, <1>3, <1>4, <1>5 DEF CountNext

(* Under the spinlock the shared word is an atomic counter.                *)
THEOREM SpinCounterIsAtomic == CountSpec => ImplementsCounter
<1>1. CountInit => Counter!Init
  BY NAssumption DEF CountInit, Counter!Init, Cleared, Stored, Cores
<1>2. CountInv /\ [CountNext]_countVars => [Counter!Next]_(Counter!vars)
  BY StepRefines
<1>3. QED
  BY <1>1, <1>2, CountInitInv, CountStepInv, PTL DEF CountSpec, ImplementsCounter, Counter!Spec
=============================================================================
