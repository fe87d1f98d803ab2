----------------------------- MODULE CoreLaunch -----------------------------
(***************************************************************************)
(* multicore.launch() of src/pico/multicore.mojo: core 0 resets core 1     *)
(* through the power-on state machine and walks it through the bootrom's   *)
(* wake-up handshake over the two inter-core FIFOs, restarting the command *)
(* sequence on a wrong or missing echo.                                    *)
(*                                                                         *)
(* Core 0 is modelled access by access.  Core 1 up to the application is   *)
(* the bootrom, which is not in the repository: it is modelled from what   *)
(* launch() and the comments around it rely on, and what they leave open   *)
(* (whether core 1 announces itself with a 0, whether a 0 among the last   *)
(* three words restarts the sequence, how a wrong word is answered) is a   *)
(* nondeterministic choice.                                                *)
(***************************************************************************)
EXTENDS Naturals, Sequences

CONSTANTS
  Depth,        \* words in each inter-core FIFO (8)
  MaxAttempts,  \* commands launch() sends before it gives up (64)
  Late,         \* bound of the history counter late
  Vector, Stack, Entry,  \* what core1_meta / .core1_meta hold
  AppWord       \* a word the application pushes

ASSUME DepthAssumption == Depth \in Nat \ {0}
ASSUME AttemptsAssumption == MaxAttempts \in Nat
ASSUME LateAssumption == Late \in Nat

(* What the application is started with are addresses, never the two words   *)
(* of the protocol.                                                        *)
ASSUME CommandAssumption == {Vector, Stack, Entry} \cap {"0", "1"} = {}

VARIABLES
  pc,        \* where core 0 is in launch()
  i,         \* next command of the sequence, 0 .. 6
  attempts,  \* commands tried
  inbox,     \* FIFO core 1 -> core 0
  outbox,    \* FIFO core 0 -> core 1
  core1,     \* "off", "boot", "greet", "wait", "run", "lost" or "dead"
  stage,     \* words of 0, 1, vector, stack, entry the bootrom has accepted
  args,      \* vector, stack and entry as far as it has got them
  event,     \* core 1's event register, set by sev
  asleep,    \* core 1 is in wfe
  late       \* history: times core 0 went on while core 1 still owed it an
             \* answer, up to Late + 1; a core 1 that died is too late for ever

core0Vars == <<pc, i, attempts>>
core1Vars == <<core1, stage, args, asleep>>
vars == <<core0Vars, core1Vars, inbox, outbox, event, late>>

(* Deviation: stack and vector in the wrong order. *)
Cmd_Swapped(n) == <<"0", "0", "1", Stack, Vector, Entry>>[n + 1]

(* _cmd(i). *)
Cmd(n) == <<"0", "0", "1", Vector, Stack, Entry>>[n + 1]

RightArgs == <<Vector, Stack, Entry>>
Words == {"0", "1", Vector, Stack, Entry, AppWord}

(* sev: wakes core 1 if it sleeps, else its next wfe falls through.        *)
Sev == /\ event' = ~asleep
       /\ asleep' = FALSE

-----------------------------------------------------------------------------
(* launch() may find core 1 in the bootrom (first launch) or in the        *)
(* application (a launch before), and words left over in both FIFOs.       *)
Leftovers == {<<>>, <<"0">>, <<AppWord>>, <<AppWord, "0">>}

Init ==
  /\ pc = "off" /\ i = 0 /\ attempts = 0
  /\ inbox \in Leftovers
  /\ outbox \in Leftovers
  /\ core1 \in {"wait", "run", "dead"}
  /\ stage = 0 /\ args = <<>>
  /\ event \in BOOLEAN /\ asleep = FALSE
  /\ late = 0

-----------------------------------------------------------------------------
(* _reset_core1: force off, wait for the bit to read back, release.        *)
ForceOff ==
  /\ pc = "off"
  /\ core1' = "off"
  /\ stage' = 0 /\ args' = <<>> /\ asleep' = FALSE
  /\ pc' = "on"
  /\ UNCHANGED <<i, attempts, inbox, outbox, event, late>>

PowerOn ==
  /\ pc = "on"
  /\ core1' = "boot"
  /\ pc' = "next"
  /\ UNCHANGED <<i, attempts, inbox, outbox, stage, args, event, asleep, late>>

(* The head of the loop: all six echoed, attempts used up, or one more try, *)
(* with a drain and a sev before a 0.                                      *)
Finish ==
  /\ pc = "next"
  /\ i = 6
  /\ pc' = "true"
  /\ UNCHANGED <<i, attempts, core1Vars, inbox, outbox, event, late>>

GiveUp ==
  /\ pc = "next"
  /\ i < 6
  /\ attempts >= MaxAttempts
  /\ pc' = "false"
  /\ attempts' = attempts + 1
  /\ UNCHANGED <<i, core1Vars, inbox, outbox, event, late>>

(* Deviation: attempts are not counted. *)
Try_Unbounded ==
  /\ pc = "next"
  /\ i < 6
  /\ pc' = IF Cmd(i) = "0" THEN "drain" ELSE "push"
  /\ UNCHANGED <<i, attempts, core1Vars, inbox, outbox, event, late>>

(* Deviation: no drain (and no sev) before a 0. *)
Try_NoDrain ==
  /\ pc = "next"
  /\ i < 6
  /\ attempts < MaxAttempts
  /\ attempts' = attempts + 1
  /\ pc' = "push"
  /\ UNCHANGED <<i, core1Vars, inbox, outbox, event, late>>

Try ==
  /\ pc = "next"
  /\ i < 6
  /\ attempts < MaxAttempts
  /\ attempts' = attempts + 1
  /\ pc' = IF Cmd(i) = "0" THEN "drain" ELSE "push"
  /\ UNCHANGED <<i, core1Vars, inbox, outbox, event, late>>

(* Core 1 has a word of core 0 to answer, or is not yet in its wait loop.  *)
Answering == core1 = "wait" /\ ~asleep /\ outbox # <<>>
Booting == core1 \in {"boot", "greet"}

(* One more wait in vain.  The last word is not forgiven: core 1 is about to *)
(* leave the bootrom, and launch() does not reset it again.                *)
Later == IF stage = 4 \/ late > Late THEN Late + 1 ELSE late + 1

(* _fifo_drain pops until VLD reads 0, then launch() issues the sev. *)
DrainOne ==
  /\ pc = "drain"
  /\ inbox # <<>>
  /\ inbox' = Tail(inbox)
  /\ UNCHANGED <<core0Vars, core1Vars, outbox, event, late>>

DrainDone ==
  /\ pc = "drain"
  /\ inbox = <<>>
  /\ Sev
  /\ pc' = "push"
  /\ late' = IF Answering THEN Later ELSE late
  /\ UNCHANGED <<i, attempts, core1, stage, args, inbox, outbox>>

(* Deviations: no sev after the store; no wait for the echo of the last word. *)
PushSev_Omitted ==
  /\ pc = "sev"
  /\ pc' = "pop"
  /\ UNCHANGED <<i, attempts, core1Vars, inbox, outbox, event, late>>

PushSev_SkipsLastEcho ==
  /\ pc = "sev"
  /\ Sev
  /\ pc' = IF i = 5 THEN "next" ELSE "pop"
  /\ i' = IF i = 5 THEN 6 ELSE i
  /\ UNCHANGED <<attempts, core1, stage, args, inbox, outbox, late>>

(* _fifo_push: the store, then the sev; False after 1000 us without room.  *)
Push ==
  /\ pc = "push"
  /\ Len(outbox) < Depth
  /\ outbox' = Append(outbox, Cmd(i))
  /\ pc' = "sev"
  /\ UNCHANGED <<i, attempts, core1Vars, inbox, event, late>>

PushSev ==
  /\ pc = "sev"
  /\ Sev
  /\ pc' = "pop"
  /\ UNCHANGED <<i, attempts, core1, stage, args, inbox, outbox, late>>

PushTimeout ==
  /\ pc = "push"
  /\ Len(outbox) >= Depth
  /\ pc' = "false"
  /\ late' = IF Answering \/ Booting THEN Late + 1 ELSE late
  /\ UNCHANGED <<i, attempts, core1Vars, inbox, outbox, event>>

(* Deviation: any answer counts as the echo. *)
Pop_AnyAnswer ==
  /\ pc = "pop"
  /\ inbox # <<>>
  /\ inbox' = Tail(inbox)
  /\ i' = i + 1
  /\ pc' = "next"
  /\ UNCHANGED <<attempts, core1Vars, outbox, event, late>>

(* _fifo_pop: an echo moves the sequence on, anything else restarts it, ... *)
Pop ==
  /\ pc = "pop"
  /\ inbox # <<>>
  /\ inbox' = Tail(inbox)
  /\ i' = IF Head(inbox) = Cmd(i) THEN i + 1 ELSE 0
  /\ pc' = "next"
  /\ UNCHANGED <<attempts, core1Vars, outbox, event, late>>

(* ... and so does 1000 us of silence. *)
PopTimeout ==
  /\ pc = "pop"
  /\ inbox = <<>>
  /\ i' = 0
  /\ pc' = "next"
  /\ late' = IF Answering \/ Booting THEN Later ELSE late
  /\ UNCHANGED <<attempts, core1Vars, inbox, outbox, event>>

-----------------------------------------------------------------------------
(* Core 1 out of reset drains its inbox, ... *)
BootDrain ==
  /\ core1 = "boot"
  /\ outbox' = <<>>
  /\ core1' \in {"greet", "wait"}
  /\ UNCHANGED <<core0Vars, inbox, stage, args, event, asleep, late>>

(* ... and may report that it has. *)
BootGreet ==
  /\ core1 = "greet"
  /\ Len(inbox) < Depth
  /\ inbox' = Append(inbox, "0")
  /\ core1' = "wait"
  /\ UNCHANGED <<core0Vars, outbox, stage, args, event, asleep, late>>

(* The bootrom's wait loop: wfe while the inbox is empty. *)
Wfe ==
  /\ core1 = "wait" /\ ~asleep
  /\ outbox = <<>>
  /\ IF event THEN event' = FALSE /\ asleep' = FALSE
              ELSE event' = FALSE /\ asleep' = TRUE
  /\ UNCHANGED <<core0Vars, core1, stage, args, inbox, outbox, late>>

(* The word continues the sequence 0, 1, vector, stack, entry; the entry   *)
(* is echoed before core 1 jumps to it.                                    *)
Continues(w) ==
  \/ stage = 0 /\ w = "0"
  \/ stage = 1 /\ w = "1"
  \/ stage > 1

Accept ==
  /\ core1 = "wait" /\ ~asleep
  /\ outbox # <<>> /\ Len(inbox) < Depth
  /\ Continues(Head(outbox))
  /\ inbox' = Append(inbox, Head(outbox))
  /\ outbox' = Tail(outbox)
  /\ stage' = stage + 1
  /\ args' = IF stage > 1 THEN Append(args, Head(outbox)) ELSE args
  /\ core1' = IF stage < 4 THEN "wait"
              ELSE IF args' = RightArgs THEN "run" ELSE "lost"
  /\ UNCHANGED <<core0Vars, event, asleep, late>>

(* A 0 after the first is the second 0 of the sequence, or a restart.      *)
Resync ==
  /\ core1 = "wait" /\ ~asleep
  /\ outbox # <<>> /\ Len(inbox) < Depth
  /\ stage > 0
  /\ Head(outbox) = "0"
  /\ inbox' = Append(inbox, "0")
  /\ outbox' = Tail(outbox)
  /\ stage' = 1 /\ args' = <<>>
  /\ UNCHANGED <<core0Vars, core1, event, asleep, late>>

(* Any other word sends core 1 back to the start, with an answer that is    *)
(* not an echo or with none.                                               *)
Reject ==
  /\ core1 = "wait" /\ ~asleep
  /\ outbox # <<>> /\ Len(inbox) < Depth
  /\ ~Continues(Head(outbox))
  /\ Head(outbox) # "0"
  /\ inbox' \in {inbox, Append(inbox, "0")}
  /\ outbox' = Tail(outbox)
  /\ stage' = 0 /\ args' = <<>>
  /\ UNCHANGED <<core0Vars, core1, event, asleep, late>>

(* The application on core 1 uses the same FIFOs. *)
AppPush ==
  /\ core1 = "run"
  /\ Len(inbox) < Depth
  /\ inbox' = Append(inbox, AppWord)
  /\ UNCHANGED <<core0Vars, core1Vars, outbox, event, late>>

AppPop ==
  /\ core1 = "run"
  /\ outbox # <<>>
  /\ outbox' = Tail(outbox)
  /\ UNCHANGED <<core0Vars, core1Vars, inbox, event, late>>

(* Core 1 stops answering: it faults or hangs. *)
Die ==
  /\ core1 \in {"boot", "greet", "wait", "run"}
  /\ core1' = "dead"
  /\ late' = Late + 1
  /\ UNCHANGED <<core0Vars, stage, args, asleep, inbox, outbox, event>>

-----------------------------------------------------------------------------
Core0Step ==
  \/ ForceOff \/ PowerOn
  \/ Finish \/ GiveUp \/ Try
  \/ DrainOne \/ DrainDone
  \/ Push \/ PushSev \/ PushTimeout
  \/ Pop \/ PopTimeout

BootromStep ==
  BootDrain \/ BootGreet \/ Wfe \/ Accept \/ Resync \/ Reject

Next ==
  \/ ForceOff \/ PowerOn
  \/ Finish \/ GiveUp \/ Try
  \/ DrainOne \/ DrainDone
  \/ Push \/ PushSev \/ PushTimeout
  \/ Pop \/ PopTimeout
  \/ BootDrain \/ BootGreet \/ Wfe \/ Accept \/ Resync \/ Reject
  \/ AppPush \/ AppPop \/ Die

Spec == Init /\ [][Next]_vars

(* Core 0 executes and its timeouts expire; a core 1 that has not died runs *)
(* the bootrom.                                                            *)
FairSpec == Spec /\ WF_vars(Core0Step) /\ WF_vars(BootromStep)

-----------------------------------------------------------------------------
TypeOK ==
  /\ pc \in {"off", "on", "next", "drain", "push", "sev", "pop", "true", "false"}
  /\ i \in 0 .. 6
  /\ attempts \in 0 .. MaxAttempts + 1
  /\ inbox \in Seq(Words) /\ Len(inbox) <= Depth
  /\ outbox \in Seq(Words) /\ Len(outbox) <= Depth
  /\ core1 \in {"off", "boot", "greet", "wait", "run", "lost", "dead"}
  /\ stage \in 0 .. 5
  /\ args \in Seq(Words) /\ Len(args) <= 3
  /\ event \in BOOLEAN /\ asleep \in BOOLEAN /\ late \in 0 .. Late + 1

(* launch() returns True only when core 1 was started with the vector,     *)
(* stack and entry it was sent, whatever was left in the FIFOs, however     *)
(* late the answers came and wherever the sequence was restarted.          *)
TrueMeansStarted ==
  pc = "true" => core1 \in {"run", "dead"} /\ stage = 5 /\ args = RightArgs

(* When launch() returns True the next word core 0 pops is one the          *)
(* application pushed, never an answer of the handshake: fifo_pop of        *)
(* tests/on_target/main.mojo (test_fifo_pingpong) relies on it.            *)
NoStaleEcho ==
  pc = "true" => \A k \in 1 .. Len(inbox) : inbox[k] = AppWord

(* "Returns False instead of hanging if core 1 stops answering": launch()   *)
(* returns, unless the application on core 1 pushes for ever while          *)
(* _fifo_drain, which has no timeout, drains.                              *)
Returns == <>[][~AppPush]_vars => <>(pc \in {"true", "false"})

(* A core 1 that keeps core 0 waiting at most Late times, and to which a 0  *)
(* is a restart at any word, is started at the right entry point: wherever  *)
(* launch() restarts the sequence, whether core 1 reaches its wait loop     *)
(* before the first word or loses that word on the way out of reset, and    *)
(* however the late answers then mix with the echoes.                      *)
TookZero == \E k \in DOMAIN args : args[k] = "0"
Succeeds == <>(late > Late \/ TookZero \/ pc = "true")
=============================================================================
