---------------------------- MODULE SpinCounter ----------------------------
(***************************************************************************)
(* Hardware spinlock 0 of src/pico/sync.mojo under contention, as the      *)
(* on-target suite uses it (test_spinlock_contention and core1_main of     *)
(* tests/on_target/main.mojo): core 0 clears the shared words, launches    *)
(* core 1, and both make N read-modify-write increments of one RAM word.   *)
(*                                                                         *)
(* A load and a store of RAM are separate steps; a read of the lock        *)
(* register claims the lock if it is free, in one step.  The lock has no   *)
(* owner: a release frees it whoever holds it.  launch() is CoreLaunch's   *)
(* promise in one step: core 1 is reset and, if it returns True, running.  *)
(***************************************************************************)
EXTENDS Naturals

CONSTANTS
  N,          \* LOCKED_INCS, increments of each core
  Stale       \* what CTR and DONE may hold from an earlier run

ASSUME NAssumption == N \in Nat
ASSUME StaleAssumption == Stale \subseteq Nat

Cores == {0, 1}

VARIABLES
  at,      \* where each core is
  locked,  \* the claim bit of SPINLOCK0
  ctr,     \* the word SHARED_CTR
  done,    \* the word CORE1_DONE holds its final value
  tmp,     \* the value each core has loaded
  made,    \* increments each core has made
  result,  \* what test_spinlock_contention has returned
  leftHeld \* history: the claim bit was set before the test began

countVars == <<leftHeld, at, locked, ctr, done, tmp, made, result>>

(* Nothing clears RAM or frees the locks on a warm reset: a program that    *)
(* was stopped between claim and release leaves the lock claimed.          *)
CountInit ==
  /\ at = [c \in Cores |-> IF c = 0 THEN "clearDone" ELSE "idle"]
  /\ locked \in BOOLEAN
  /\ leftHeld = locked
  /\ ctr \in Stale
  /\ done \in BOOLEAN
  /\ tmp = [c \in Cores |-> 0]
  /\ made = [c \in Cores |-> 0]
  /\ result = "none"

Goto(c, l) == at' = [at EXCEPT ![c] = l]

-----------------------------------------------------------------------------
(* The loop of _locked_increments: claim, load, store, release, N times.   *)
LoopHead(k) == IF k < N THEN "acquire" ELSE "counted"

(* Deviation: the value read from the lock register is ignored. *)
Acquire_IgnoresClaim(c) ==
  /\ at[c] = "acquire"
  /\ locked' = TRUE
  /\ Goto(c, "load")
  /\ UNCHANGED <<leftHeld, ctr, done, tmp, made, result>>

Acquire(c) ==
  /\ at[c] = "acquire"
  /\ ~locked
  /\ locked' = TRUE
  /\ Goto(c, "load")
  /\ UNCHANGED <<leftHeld, ctr, done, tmp, made, result>>

(* Deviation: the lock is given up after the load. *)
Load_Releases(c) ==
  /\ at[c] = "load"
  /\ tmp' = [tmp EXCEPT ![c] = ctr]
  /\ locked' = FALSE
  /\ Goto(c, "store")
  /\ UNCHANGED <<leftHeld, ctr, done, made, result>>

Load(c) ==
  /\ at[c] = "load"
  /\ tmp' = [tmp EXCEPT ![c] = ctr]
  /\ Goto(c, "store")
  /\ UNCHANGED <<leftHeld, locked, ctr, done, made, result>>

Store(c) ==
  /\ at[c] = "store"
  /\ ctr' = tmp[c] + 1
  /\ Goto(c, "release")
  /\ UNCHANGED <<leftHeld, locked, done, tmp, made, result>>

(* Deviation: the release is forgotten. *)
Release_Forgotten(c) ==
  /\ at[c] = "release"
  /\ made' = [made EXCEPT ![c] = @ + 1]
  /\ Goto(c, LoopHead(made[c] + 1))
  /\ UNCHANGED <<leftHeld, locked, ctr, done, tmp, result>>

Release(c) ==
  /\ at[c] = "release"
  /\ locked' = FALSE
  /\ made' = [made EXCEPT ![c] = @ + 1]
  /\ Goto(c, LoopHead(made[c] + 1))
  /\ UNCHANGED <<leftHeld, ctr, done, tmp, result>>

(* Core 1 reports and spins for ever (core1_main, job 2). *)
Report ==
  /\ at[1] = "counted"
  /\ done' = TRUE
  /\ Goto(1, "idle")
  /\ UNCHANGED <<leftHeld, locked, ctr, tmp, made, result>>

-----------------------------------------------------------------------------
(* Core 0: clear DONE, clear the counter, launch core 1. *)
(* Deviation: DONE keeps what an earlier run left. *)
ClearDone_Skipped ==
  /\ at[0] = "clearDone"
  /\ Goto(0, "clearCtr")
  /\ UNCHANGED <<leftHeld, locked, ctr, done, tmp, made, result>>

ClearDone ==
  /\ at[0] = "clearDone"
  /\ done' = FALSE
  /\ Goto(0, "clearCtr")
  /\ UNCHANGED <<leftHeld, locked, ctr, tmp, made, result>>

ClearCtr ==
  /\ at[0] = "clearCtr"
  /\ ctr' = 0
  /\ Goto(0, "launch")
  /\ UNCHANGED <<leftHeld, locked, done, tmp, made, result>>

Launch ==
  /\ at[0] = "launch"
  /\ at' = [c \in Cores |-> LoopHead(0)]
  /\ UNCHANGED <<leftHeld, locked, ctr, done, tmp, made, result>>

(* launch() gave up; core 1 may have been started all the same. *)
LaunchFails ==
  /\ at[0] = "launch"
  /\ \E l \in {"idle", LoopHead(0)} : at' = [at EXCEPT ![0] = "end", ![1] = l]
  /\ result' = "false"
  /\ UNCHANGED <<leftHeld, locked, ctr, done, tmp, made>>

(* Core 0 has made its increments and waits for DONE, at most 500 ms. *)
SeeDone ==
  /\ at[0] = "counted"
  /\ done
  /\ Goto(0, "compare")
  /\ UNCHANGED <<leftHeld, locked, ctr, done, tmp, made, result>>

WaitTimeout ==
  /\ at[0] = "counted"
  /\ ~done
  /\ Goto(0, "end")
  /\ result' = "false"
  /\ UNCHANGED <<leftHeld, locked, ctr, done, tmp, made>>

Compare ==
  /\ at[0] = "compare"
  /\ result' = IF ctr = 2 * N THEN "true" ELSE "false"
  /\ Goto(0, "end")
  /\ UNCHANGED <<leftHeld, locked, ctr, done, tmp, made>>

-----------------------------------------------------------------------------
CoreStep(c) == Acquire(c) \/ Load(c) \/ Store(c) \/ Release(c)

Core0Counts == CoreStep(0) \/ ClearDone \/ ClearCtr \/ Launch \/ SeeDone \/ Compare

Core1Counts == CoreStep(1) \/ Report

CountNext ==
  \/ \E c \in Cores : Acquire(c) \/ Load(c) \/ Store(c) \/ Release(c)
  \/ Report
  \/ ClearDone \/ ClearCtr \/ Launch \/ LaunchFails
  \/ SeeDone \/ WaitTimeout \/ Compare

CountSpec == CountInit /\ [][CountNext]_countVars

(* Both cores execute.  The hardware arbitrates the lock without any queue, *)
(* so nothing is assumed about who gets it: weak fairness only.            *)
FairCountSpec == CountSpec /\ WF_countVars(Core0Counts) /\ WF_countVars(Core1Counts)

-----------------------------------------------------------------------------
CountLabels == {"idle", "clearDone", "clearCtr", "launch", "acquire", "load",
           "store", "release", "counted", "compare", "end"}

CountTypes ==
  /\ at \in [Cores -> CountLabels]
  /\ locked \in BOOLEAN /\ leftHeld \in BOOLEAN
  /\ ctr \in Nat
  /\ done \in BOOLEAN
  /\ tmp \in [Cores -> Nat]
  /\ made \in [Cores -> 0 .. N]
  /\ result \in {"none", "true", "false"}

InCritical(c) == at[c] \in {"load", "store", "release"}

(* Whoever is between claim and release holds the lock, and is alone; a     *)
(* lock left claimed lets nobody in.                                       *)
MutualExclusion ==
  /\ ~(InCritical(0) /\ InCritical(1))
  /\ locked <=> leftHeld \/ \E c \in Cores : InCritical(c)
  /\ leftHeld => \A c \in Cores : ~InCritical(c)

(* The stores a core has made, counting the one not yet released.          *)
Stored(c) == IF at[c] = "release" THEN made[c] + 1 ELSE made[c]

Cleared == at[0] \notin {"clearDone", "clearCtr"}

(* No update is lost: the counter is the number of stores made, and a core *)
(* about to store holds the current value.                                 *)
NoLostUpdate ==
  Cleared => /\ ctr = Stored(0) + Stored(1)
             /\ \A c \in Cores : at[c] = "store" => tmp[c] = ctr

(* Before the launch core 1 does nothing and nothing has been counted; core *)
(* 1 sets DONE only after its last increment, and core 0 waits for that.    *)
Progress ==
  /\ at[1] \in {"idle", "acquire", "load", "store", "release", "counted"}
  /\ at[0] \in {"clearDone", "clearCtr", "launch"} =>
       at[1] = "idle" /\ made[0] = 0 /\ made[1] = 0
  /\ \A c \in Cores :
       /\ at[c] \in {"acquire", "load", "store", "release"} => made[c] < N
       /\ at[c] = "counted" => made[c] = N
  /\ at[0] = "compare" => done /\ made[0] = N
  /\ at[0] # "clearDone" /\ done => at[1] = "idle" /\ made[1] = N /\ at[0] # "clearCtr" /\ at[0] # "launch"

(* The comparison at the end of the test is made only after both cores have *)
(* made all their increments, so the test passes: a wrong total can only    *)
(* come from a lost update ("any mutual-exclusion failure loses updates and *)
(* the total comes up short", tests/on_target/main.mojo).                  *)
CompareSeesTotal == at[0] = "compare" => ctr = 2 * N

(* Each store is one atomic increment.                                     *)
Counter == INSTANCE AtomicCounter
             WITH value <- IF Cleared THEN ctr ELSE 0,
                  left <- [c \in Cores |-> N - Stored(c)]
ImplementsCounter == Counter!Spec

(* The test ends although acquire() spins without a timeout and the lock   *)
(* has no queue: neither core is locked out for ever, because the other     *)
(* one's loop is finite and gives the lock up each time.  A lock left       *)
(* claimed by an earlier program is the exception: then nothing ends it.    *)
TestEnds == leftHeld \/ <>(at[0] = "end")
=============================================================================
