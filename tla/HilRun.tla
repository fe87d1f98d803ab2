------------------------------- MODULE HilRun -------------------------------
(***************************************************************************)
(* The hardware stages of the test orchestrator (main of                    *)
(* tools/run_tests.py, tools/hil.py) against the board running the          *)
(* on-target suite (start of tests/on_target/main.mojo).                    *)
(*                                                                         *)
(* The host flashes the suite over SWD, polls a mailbox in RAM until the     *)
(* suite is done, reads the results and two heartbeats, checks the RTT      *)
(* block the suite left, measures the timer, runs a debug session on        *)
(* firmware-debug and ends by flashing and watching the blink demo.  RAM     *)
(* survives resets and flashing: what an earlier run left in it is there    *)
(* until the new firmware overwrites it.                                    *)
(***************************************************************************)
EXTENDS Naturals

CONSTANTS
  N,        \* tests of the suite (NUM_TESTS, TEST_NAMES)
  RttTest,  \* the one that leaves the RTT block
  Polls,    \* polls of the mailbox before the deadline
  Wrap,     \* the heartbeat counts modulo Wrap
  Starts,   \* how often the orchestrator is started
  Flaky,    \* commands of the probe may fail
  Buggy,    \* tests may fail, firmwares may crash, measurements may be off
  Timely    \* the host's waits are as long as they are meant to be

Attempts == 2  \* downloads before flash gives up

ASSUME SuiteAssumption == N \in Nat \ {0} /\ RttTest \in 1 .. N
ASSUME BoundAssumption == Polls \in Nat \ {0} /\ Starts \in Nat \ {0} /\ Wrap \in Nat \ {0, 1}
ASSUME FlagAssumption  == Flaky \in BOOLEAN /\ Buggy \in BOOLEAN /\ Timely \in BOOLEAN

VARIABLES
  starts,  \* how often the orchestrator has been started
  stage,   \* the stage that is running
  hpc,     \* where in it the host is
  tries,   \* downloads or polls so far
  hb1,     \* the first heartbeat read
  bad,     \* the suite stage has something to complain about
  fails,   \* the stages that have failed
  fw,      \* the image in flash
  pc,      \* where core 0 is
  t,       \* the test that is next
  ram,     \* the mailbox and the RTT block in RAM
  truth,   \* what the tests of this run of the suite really did
  beats,   \* the counter of the heartbeat loop
  since,   \* heartbeats since the host last looked
  trouble  \* history: since this start a command, a test or a measurement failed
           \* or a firmware crashed

host  == <<starts, stage, hpc, tries, hb1, bad, fails>>
board == <<fw, pc, t, ram, truth, beats>>
vars  == <<host, board, since, trouble>>

Stages   == {"suite", "rtt", "timer", "dap", "blink"}
Test     == 1 .. N
Outcomes == {"none", "pass", "fail"}  \* of a test_* of the suite
NotRun   == [i \in Test |-> "none"]
Ram      == [magic : BOOLEAN, status : {"none", "running", "done"}, num : 0 .. N,
             results : [Test -> Outcomes], beat : 0 .. Wrap - 1, rtt : BOOLEAN]

Init ==
  /\ starts = 1 /\ stage = "suite" /\ hpc = "download" /\ tries = 0
  /\ hb1 = 0 /\ bad = FALSE /\ fails = {}
  /\ fw = "none" /\ pc = "halted" /\ t = 1
  /\ ram = [magic |-> FALSE, status |-> "none", num |-> 0, results |-> NotRun,
            beat |-> 0, rtt |-> FALSE]
  /\ truth = NotRun
  /\ beats = 0 /\ since = 0 /\ trouble = FALSE

-----------------------------------------------------------------------------
(* The image a stage flashes, and what the host does when it is running.     *)
Image == CASE stage = "suite" -> "suite" [] stage = "dap" -> "debug" [] OTHER -> "blink"

NextStage ==
  CASE stage = "suite" -> "rtt"   [] stage = "rtt" -> "timer"
    [] stage = "timer" -> "dap"   [] stage = "dap" -> "blink"
    [] OTHER -> "blink"

(* The stage returns its failures; stage() records them. *)
Finish(ok) ==
  /\ fails' = IF ok THEN fails ELSE fails \cup {stage}
  /\ stage' = NextStage
  /\ hpc' = CASE stage = "blink" -> "ended"
              [] stage \in {"timer", "dap"} -> "download"
              [] OTHER -> "check"
  /\ tries' = 0 /\ bad' = FALSE
  /\ UNCHANGED <<starts, hb1>>

(* A command of the probe failed and nobody catches the exception. *)
Raise ==
  /\ hpc' = "raised"
  /\ UNCHANGED <<starts, stage, tries, hb1, bad, fails>>

(* probe-rs download --verify; the core is halted. *)
Download ==
  /\ hpc = "download"
  /\ fw' = Image /\ pc' = "halted"
  /\ hpc' = "reset"
  /\ UNCHANGED <<starts, stage, tries, hb1, bad, fails, t, ram, truth, beats, since, trouble>>

(* A download that fails leaves a torn image, or (when it fails before the   *)
(* first block) the old one; flash tries again once, run_debug_session not.  *)
DownloadFails ==
  /\ Flaky
  /\ hpc = "download"
  /\ fw' \in {fw, "torn"} /\ pc' = "halted"
  /\ tries' = tries + 1
  /\ hpc' = IF stage = "dap" \/ tries' = Attempts THEN "raised" ELSE "download"
  /\ trouble' = TRUE
  /\ UNCHANGED <<starts, stage, hb1, bad, fails, t, ram, truth, beats, since>>

(* probe-rs reset: the core starts from flash. *)
Reset ==
  /\ hpc = "reset"
  /\ pc' = IF fw \in {"none", "torn"} THEN "dead" ELSE "boot"
  /\ t' = 1 /\ truth' = NotRun
  /\ hpc' = IF stage = "suite" THEN "poll" ELSE "check"
  /\ tries' = 0
  /\ UNCHANGED <<starts, stage, hb1, bad, fails, fw, ram, beats, since, trouble>>

(* Some other command of the probe fails. *)
ProbeFails ==
  /\ Flaky
  /\ \/ hpc \in {"reset", "poll", "results", "hb1", "hb2"}
     \/ hpc = "check" /\ stage # "dap"
  /\ Raise
  /\ trouble' = TRUE
  /\ UNCHANGED <<board, since>>

-----------------------------------------------------------------------------
(* The poll loop of run_mailbox_suite.  Timely: the suite has announced     *)
(* itself when the first poll reads the mailbox, and the deadline is beyond  *)
(* its last test.                                                          *)
Booting  == pc \in {"boot", "magic", "status"}
ShowsDone == ram.magic /\ ram.status = "done"

PollDone ==
  /\ hpc = "poll"
  /\ Timely => ~Booting
  /\ ShowsDone
  /\ hpc' = "results"
  /\ UNCHANGED <<starts, stage, tries, hb1, bad, fails, board, since, trouble>>

(* Deviation: no deadline. *)
PollAgain_NoDeadline ==
  /\ hpc = "poll"
  /\ ~ShowsDone
  /\ UNCHANGED vars

PollAgain ==
  /\ hpc = "poll"
  /\ Timely => ~Booting
  /\ ~ShowsDone
  /\ tries + 1 < Polls
  /\ tries' = tries + 1
  /\ UNCHANGED <<starts, stage, hpc, hb1, bad, fails, board, since, trouble>>

(* "magic never appeared", "suite never finished" *)
PollGivesUp ==
  /\ hpc = "poll"
  /\ Timely => pc = "dead"
  /\ ~ShowsDone
  /\ tries + 1 = Polls
  /\ Finish(FALSE)
  /\ UNCHANGED <<board, since, trouble>>

ReadResults ==
  /\ hpc = "results"
  /\ bad' = (ram.num # N \/ \E i \in Test : ram.results[i] # "pass")
  /\ hpc' = "hb1"
  /\ UNCHANGED <<starts, stage, tries, hb1, fails, board, since, trouble>>

(* The two heartbeats.  Timely: a beat falls into every wait of the host.    *)
BeatSeen == Timely /\ pc \in {"done", "beat"} => since > 0

ReadBeat ==
  /\ hpc = "hb1"
  /\ BeatSeen
  /\ hb1' = ram.beat
  /\ since' = 0
  /\ hpc' = "hb2"
  /\ UNCHANGED <<starts, stage, tries, bad, fails, board, trouble>>

(* Deviation: the heartbeat is not compared. *)
ReadBeatAgain_NoCompare ==
  /\ hpc = "hb2"
  /\ Finish(~bad)
  /\ UNCHANGED <<board, since, trouble>>

ReadBeatAgain ==
  /\ hpc = "hb2"
  /\ BeatSeen
  /\ Finish(~bad /\ ram.beat # hb1)
  /\ UNCHANGED <<board, since, trouble>>

(* check_rtt reads the block, check_timer_rate the counter, the debug        *)
(* session attaches and leaves the core running or halted, observe_blink    *)
(* samples the LED.                                                        *)
CheckRtt ==
  /\ stage = "rtt" /\ hpc = "check"
  /\ Finish(ram.rtt)
  /\ UNCHANGED <<board, since, trouble>>

CheckTimer ==
  /\ stage = "timer" /\ hpc = "check"
  /\ \E off \in BOOLEAN :
       /\ off => Buggy
       /\ Finish(~off)
       /\ trouble' = (trouble \/ off)
  /\ UNCHANGED <<board, since>>

DebugSession ==
  /\ stage = "dap" /\ hpc = "check"
  /\ \E off \in BOOLEAN :
       /\ off => Buggy \/ Flaky
       /\ Finish(~off)
       /\ trouble' = (trouble \/ off)
  /\ pc' \in {pc, "halted"}
  /\ UNCHANGED <<fw, t, ram, truth, beats, since>>

ObserveBlink ==
  /\ stage = "blink" /\ hpc = "check"
  /\ Timely => pc # "boot"
  /\ Finish(pc = "app")
  /\ UNCHANGED <<board, since, trouble>>

(* pixi run test, once more. *)
Again ==
  /\ hpc \in {"ended", "raised"}
  /\ starts < Starts
  /\ starts' = starts + 1
  /\ stage' = "suite" /\ hpc' = "download" /\ tries' = 0 /\ bad' = FALSE /\ fails' = {}
  /\ trouble' = FALSE
  /\ UNCHANGED <<hb1, board, since>>

-----------------------------------------------------------------------------
(* The board: the bootrom, crt0 and pico.init, then the firmware.            *)
Boot ==
  /\ pc = "boot"
  /\ pc' = IF fw = "suite" THEN "magic" ELSE "app"
  /\ UNCHANGED <<host, fw, t, ram, truth, beats, since, trouble>>

WriteMagic ==
  /\ pc = "magic"
  /\ ram' = [ram EXCEPT !.magic = TRUE]
  /\ pc' = "status"
  /\ UNCHANGED <<host, fw, t, truth, beats, since, trouble>>

WriteStatus ==
  /\ pc = "status"
  /\ ram' = [ram EXCEPT !.status = "running"]
  /\ pc' = "num"
  /\ UNCHANGED <<host, fw, t, truth, beats, since, trouble>>

(* Deviation: a test was added and NUM_TESTS was not. *)
WriteNum_OneLess ==
  /\ pc = "num"
  /\ ram' = [ram EXCEPT !.num = N - 1]
  /\ pc' = "tests"
  /\ UNCHANGED <<host, fw, t, truth, beats, since, trouble>>

WriteNum ==
  /\ pc = "num"
  /\ ram' = [ram EXCEPT !.num = N]
  /\ pc' = "tests"
  /\ UNCHANGED <<host, fw, t, truth, beats, since, trouble>>

(* Deviation: a failing test leaves its result word alone. *)
Report_OnlyPass(i, outcome) ==
  IF outcome = "pass" THEN [ram.results EXCEPT ![i] = outcome] ELSE ram.results

(* report(i, ok) *)
Report(i, outcome) == [ram.results EXCEPT ![i] = outcome]

(* One test; the RTT test leaves its block behind when it passes. *)
RunTest ==
  /\ pc = "tests"
  /\ \E outcome \in {"pass", "fail"} :
       /\ outcome = "fail" => Buggy
       /\ trouble' = (trouble \/ outcome = "fail")
       /\ truth' = [truth EXCEPT ![t] = outcome]
       /\ ram' = [ram EXCEPT !.results = Report(t, outcome),
                             !.rtt = IF t = RttTest THEN outcome = "pass" ELSE @]
  /\ t' = IF t < N THEN t + 1 ELSE t
  /\ pc' = IF t < N THEN "tests" ELSE "done"
  /\ UNCHANGED <<host, fw, beats, since>>

WriteDone ==
  /\ pc = "done"
  /\ ram' = [ram EXCEPT !.status = "done"]
  /\ pc' = "beat"
  /\ beats' = 0 /\ since' = 0
  /\ UNCHANGED <<host, fw, t, truth, trouble>>

(* One round of the heartbeat loop. *)
Beat ==
  /\ pc = "beat"
  /\ since < Wrap - 1
  /\ ram' = [ram EXCEPT !.beat = beats]
  /\ beats' = IF beats + 1 = Wrap THEN 0 ELSE beats + 1
  /\ since' = since + 1
  /\ UNCHANGED <<host, fw, pc, t, truth, trouble>>

(* A fault or an endless loop anywhere before the heartbeat. *)
Crash ==
  /\ Buggy
  /\ pc \in {"boot", "magic", "status", "num", "tests", "done"}
  /\ pc' = "dead"
  /\ trouble' = TRUE
  /\ UNCHANGED <<host, fw, t, ram, truth, beats, since>>

-----------------------------------------------------------------------------
HostStep ==
  \/ Download \/ Reset \/ PollDone \/ PollAgain \/ PollGivesUp
  \/ ReadResults \/ ReadBeat \/ ReadBeatAgain
  \/ CheckRtt \/ CheckTimer \/ DebugSession \/ ObserveBlink

BoardStep ==
  Boot \/ WriteMagic \/ WriteStatus \/ WriteNum \/ RunTest \/ WriteDone \/ Beat

Next ==
  \/ Download \/ DownloadFails \/ Reset \/ ProbeFails
  \/ PollDone \/ PollAgain \/ PollGivesUp
  \/ ReadResults \/ ReadBeat \/ ReadBeatAgain
  \/ CheckRtt \/ CheckTimer \/ DebugSession \/ ObserveBlink \/ Again
  \/ Boot \/ WriteMagic \/ WriteStatus \/ WriteNum \/ RunTest \/ WriteDone \/ Beat
  \/ Crash

Spec == Init /\ [][Next]_vars

(* The host and the processor run on. *)
FairSpec == Spec /\ WF_vars(HostStep) /\ WF_vars(BoardStep)

-----------------------------------------------------------------------------
TypeOK ==
  /\ starts \in 1 .. Starts /\ stage \in Stages
  /\ hpc \in {"download", "reset", "poll", "results", "hb1", "hb2", "check", "ended", "raised"}
  /\ tries \in 0 .. Polls + Attempts /\ hb1 \in 0 .. Wrap - 1 /\ bad \in BOOLEAN
  /\ fails \subseteq Stages
  /\ fw \in {"none", "torn", "suite", "debug", "blink"}
  /\ pc \in {"halted", "dead", "boot", "app", "magic", "status", "num", "tests", "done", "beat"}
  /\ t \in Test
  /\ ram \in Ram
  /\ truth \in [Test -> Outcomes]
  /\ beats \in 0 .. Wrap - 1 /\ since \in 0 .. Wrap - 1 /\ trouble \in BOOLEAN

(* The suite stage passes only if every test of this very run passed: what  *)
(* an earlier run left in RAM is never taken for it, since the heartbeat     *)
(* would stand still (run_mailbox_suite).                                   *)
SuiteVerdictTrue ==
  [][stage = "suite" /\ stage' = "rtt" /\ "suite" \notin fails'
       => \A i \in Test : truth[i] = "pass"]_vars

(* No false alarm: the orchestrator that ends red has seen a command, a test *)
(* or a measurement fail or a firmware crash since it was started; neither  *)
(* the length of the suite nor what an earlier run left turns it red.       *)
NoFalseAlarm == hpc = "ended" /\ fails # {} => trouble

(* Whatever fails, the orchestrator comes to an end. *)
HostStops == []<>(hpc \in {"ended", "raised"})
=============================================================================
