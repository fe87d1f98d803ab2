---------------------------- MODULE HilRunProofs ----------------------------
(***************************************************************************)
(* Proofs that the orchestrator's verdicts are true, for any number of tests,*)
(* polls and starts and whatever fails, when the host's waits are as long   *)
(* as they are meant to be (Timely): a suite stage that passes means that   *)
(* every test of this run passed, and a red end means that something went   *)
(* wrong since the start.                                                  *)
(***************************************************************************)
EXTENDS HilRun, Integers, TLAPS

Watching == {"poll", "results", "hb1", "hb2"}

Types == ram \in Ram /\ truth \in [Test -> Outcomes] /\ t \in Test
         /\ beats \in 0 .. Wrap - 1
         /\ pc \in {"halted", "dead", "boot", "app", "magic", "status", "num", "tests",
                    "done", "beat"}

(* What core 0 has written so far. *)
BoardInv ==
  /\ pc \in {"num", "tests", "done"} => ram.status = "running"
  /\ pc \in {"boot", "magic", "status", "num"} => t = 1
  /\ pc = "tests" => \A i \in Test : i < t => ram.results[i] = truth[i]
  /\ pc \in {"done", "beat"} => ram.results = truth

(* What the host may conclude: from the first DONE it reads on, the suite    *)
(* beats or is dead, and if it is dead the heartbeat stands still.          *)
HostInv ==
  /\ hpc \in Watching => stage = "suite" /\ (pc = "dead" \/ fw = "suite")
                         /\ pc \notin {"halted", "app"}
  /\ hpc = "reset" /\ stage = "suite" => fw = "suite"
  /\ hpc \in {"results", "hb1", "hb2"} => pc \in {"beat", "dead"}
  /\ hpc \in {"hb1", "hb2"} /\ pc = "beat" /\ ~bad
       => \A i \in Test : ram.results[i] = "pass"
  /\ hpc = "hb2" /\ pc = "dead" => ram.beat = hb1

VerdictInv == Types /\ BoardInv /\ HostInv

LEMMA VerdictInit == Init => VerdictInv
  BY SuiteAssumption, BoundAssumption
  DEF Init, VerdictInv, Types, BoardInv, HostInv, Ram, Test, Outcomes, NotRun, Watching

(* The host leaves the RAM and the core alone. *)
LEMMA HostKeepsBoard == ASSUME Types, BoardInv, UNCHANGED board PROVE Types' /\ BoardInv'
  BY DEF Types, BoardInv, board

LEMMA FinishLeaves == ASSUME NEW ok, Finish(ok) PROVE hpc' \notin Watching \cup {"reset"}
  BY DEF Finish, Watching

LEMMA FlashingStep ==
  ASSUME VerdictInv, Download \/ DownloadFails \/ Reset \/ ProbeFails \/ Again
  PROVE  VerdictInv'
<1>1. CASE Download
  BY <1>1 DEF VerdictInv, Types, BoardInv, HostInv, Download, Image, Watching
<1>2. CASE DownloadFails
  BY <1>2 DEF VerdictInv, Types, BoardInv, HostInv, DownloadFails, Watching
<1>3. CASE Reset
  <2>1. truth' \in [Test -> Outcomes] /\ t' \in Test
    BY <1>3, SuiteAssumption DEF Reset, NotRun, Outcomes, Test
  <2> QED
    BY <1>3, <2>1 DEF VerdictInv, Types, BoardInv, HostInv, Reset, Watching
<1>4. CASE ProbeFails
  BY <1>4, HostKeepsBoard DEF VerdictInv, HostInv, ProbeFails, Raise, Watching
<1>5. CASE Again
  BY <1>5, HostKeepsBoard DEF VerdictInv, HostInv, Again, Watching
<1> QED
  BY <1>1, <1>2, <1>3, <1>4, <1>5

LEMMA WatchingStep ==
  ASSUME VerdictInv, Timely,
         PollDone \/ PollAgain \/ PollGivesUp \/ ReadResults \/ ReadBeat \/ ReadBeatAgain
  PROVE  VerdictInv'
<1>1. Types' /\ BoardInv'
  <2>1. UNCHANGED board
    BY DEF PollDone, PollAgain, PollGivesUp, ReadResults, ReadBeat, ReadBeatAgain
  <2> QED
    BY <2>1, HostKeepsBoard DEF VerdictInv
<1>2. CASE PollDone
  <2>1. pc \in {"beat", "dead"}
    BY <1>2 DEF VerdictInv, Types, BoardInv, HostInv, PollDone, ShowsDone, Booting, Watching
  <2> QED
    BY <1>1, <1>2, <2>1 DEF VerdictInv, Types, HostInv, PollDone, board, Watching
<1>3. CASE PollAgain
  BY <1>1, <1>3 DEF VerdictInv, HostInv, PollAgain, board, Watching
<1>4. CASE PollGivesUp \/ ReadBeatAgain
  BY <1>1, <1>4, FinishLeaves DEF VerdictInv, HostInv, PollGivesUp, ReadBeatAgain, Watching
<1>5. CASE ReadResults
  BY <1>1, <1>5 DEF VerdictInv, HostInv, ReadResults, board, Watching
<1>6. CASE ReadBeat
  BY <1>1, <1>6 DEF VerdictInv, HostInv, ReadBeat, board, Watching
<1> QED
  BY <1>2, <1>3, <1>4, <1>5, <1>6

LEMMA CheckStep ==
  ASSUME VerdictInv, CheckRtt \/ CheckTimer \/ DebugSession \/ ObserveBlink
  PROVE  VerdictInv'
<1>1. hpc' \notin Watching \cup {"reset"}
  BY FinishLeaves DEF CheckRtt, CheckTimer, DebugSession, ObserveBlink
<1>2. Types' /\ BoardInv'
  BY DEF VerdictInv, Types, BoardInv, CheckRtt, CheckTimer, DebugSession, ObserveBlink, board
<1> QED
  BY <1>1, <1>2 DEF VerdictInv, HostInv, Watching

LEMMA SuiteStep ==
  ASSUME VerdictInv, Boot \/ WriteMagic \/ WriteStatus \/ WriteNum \/ RunTest \/ WriteDone
                       \/ Beat \/ Crash
  PROVE  VerdictInv'
<1>1. CASE Boot
  BY <1>1 DEF VerdictInv, Types, BoardInv, HostInv, Boot, host, Watching
<1>2. CASE WriteMagic
  <2>1. ram' = [ram EXCEPT !.magic = TRUE]
    BY <1>2 DEF WriteMagic
  <2>2. ram' \in Ram /\ ram'.results = ram.results /\ ram'.beat = ram.beat
    BY <2>1, SuiteAssumption DEF VerdictInv, Types, Ram
  <2>3. ram'.status = ram.status
    BY <2>1 DEF VerdictInv, Types, Ram
  <2> QED
    BY <1>2, <2>2, <2>3 DEF VerdictInv, Types, BoardInv, HostInv, WriteMagic, host, Watching, Test
<1>7. CASE WriteStatus
  <2>1. ram' = [ram EXCEPT !.status = "running"]
    BY <1>7 DEF WriteStatus
  <2>2. ram' \in Ram /\ ram'.results = ram.results /\ ram'.beat = ram.beat
    BY <2>1, SuiteAssumption DEF VerdictInv, Types, Ram
  <2>3. ram'.status = "running"
    BY <2>1 DEF VerdictInv, Types, Ram
  <2> QED
    BY <1>7, <2>2, <2>3 DEF VerdictInv, Types, BoardInv, HostInv, WriteStatus, host, Watching, Test
<1>8. CASE WriteNum
  <2>1. ram' = [ram EXCEPT !.num = N]
    BY <1>8 DEF WriteNum
  <2>2. ram' \in Ram /\ ram'.results = ram.results /\ ram'.beat = ram.beat
    BY <2>1, SuiteAssumption DEF VerdictInv, Types, Ram
  <2>3. ram'.status = ram.status
    BY <2>1 DEF VerdictInv, Types, Ram
  <2> QED
    BY <1>8, <2>2, <2>3 DEF VerdictInv, Types, BoardInv, HostInv, WriteNum, host, Watching, Test
<1>3. CASE RunTest
  <2>1. PICK outcome \in {"pass", "fail"} :
          /\ truth' = [truth EXCEPT ![t] = outcome]
          /\ ram' = [ram EXCEPT !.results = Report(t, outcome),
                                !.rtt = IF t = RttTest THEN outcome = "pass" ELSE ram.rtt]
    BY <1>3 DEF RunTest
  <2>2. ram' \in Ram /\ truth' \in [Test -> Outcomes]
    BY <2>1 DEF VerdictInv, Types, Ram, Report, Outcomes
  <2>3. /\ ram'.results = [ram.results EXCEPT ![t] = outcome]
        /\ ram'.status = ram.status /\ ram'.beat = ram.beat
    BY <2>1 DEF VerdictInv, Types, Ram, Report
  <2>4. \A i \in Test : i <= t => ram'.results[i] = truth'[i]
    <3> SUFFICES ASSUME NEW i \in Test, i <= t PROVE ram'.results[i] = truth'[i]
      OBVIOUS
    <3>1. ram.results \in [Test -> Outcomes] /\ truth \in [Test -> Outcomes] /\ t \in Test
      BY DEF VerdictInv, Types, Ram
    <3>2. i < t => ram.results[i] = truth[i]
      BY <1>3 DEF VerdictInv, BoardInv, RunTest
    <3>3. i < t \/ i = t
      BY <3>1 DEF Test
    <3>4. [ram.results EXCEPT ![t] = outcome][i] = [truth EXCEPT ![t] = outcome][i]
      BY <3>1, <3>2, <3>3
    <3> QED
      BY <3>4, <2>1, <2>3
  <2>5. CASE t < N
    BY <1>3, <2>2, <2>3, <2>4, <2>5, SuiteAssumption
    DEF VerdictInv, Types, BoardInv, HostInv, RunTest, host, Watching, Test
  <2>6. CASE ~(t < N)
    <3>1. ram'.results = truth'
      BY <2>2, <2>4, <2>6, SuiteAssumption DEF VerdictInv, Types, Ram, Test
    <3> QED
      BY <1>3, <2>2, <2>3, <2>6, <3>1
      DEF VerdictInv, Types, BoardInv, HostInv, RunTest, host, Watching
  <2> QED
    BY <2>5, <2>6
<1>4. CASE WriteDone
  BY <1>4, BoundAssumption DEF VerdictInv, Types, BoardInv, HostInv, WriteDone, host, Watching, Ram
<1>5. CASE Beat
  BY <1>5, BoundAssumption DEF VerdictInv, Types, BoardInv, HostInv, Beat, host, Watching, Ram
<1>6. CASE Crash
  BY <1>6 DEF VerdictInv, Types, BoardInv, HostInv, Crash, host, Watching
<1> QED
  BY <1>1, <1>2, <1>3, <1>4, <1>5, <1>6, <1>7, <1>8

LEMMA VerdictStep == ASSUME Timely, VerdictInv, [Next]_vars PROVE VerdictInv'
<1>1. CASE UNCHANGED vars
  BY <1>1 DEF VerdictInv, Types, BoardInv, HostInv, vars, host, board
<1> QED
  BY <1>1, FlashingStep, WatchingStep, CheckStep, SuiteStep DEF Next

(* A suite stage without failures means that every test of this very run     *)
(* passed: DONE and the results may be those of an earlier run only if the  *)
(* suite is dead, and then the heartbeat stands still.                      *)
THEOREM SuiteVerdictIsTrue == ASSUME Timely PROVE Spec => SuiteVerdictTrue
<1>1. VerdictInv /\ [Next]_vars => VerdictInv'
  BY VerdictStep
<1>2. VerdictInv /\ [Next]_vars
        => [stage = "suite" /\ stage' = "rtt" /\ "suite" \notin fails'
              => \A i \in Test : truth[i] = "pass"]_vars
  <2> SUFFICES ASSUME VerdictInv, [Next]_vars, stage = "suite", stage' = "rtt",
                      "suite" \notin fails', NEW i \in Test
               PROVE  truth[i] = "pass"
    OBVIOUS
  <2>1. ~PollGivesUp
    BY DEF PollGivesUp, Finish
  <2>2. CASE Download \/ DownloadFails \/ Reset \/ ProbeFails \/ Again
    BY <2>2 DEF Download, DownloadFails, Reset, ProbeFails, Raise, Again
  <2>3. CASE PollDone \/ PollAgain \/ ReadResults \/ ReadBeat
    BY <2>3 DEF PollDone, PollAgain, ReadResults, ReadBeat
  <2>4. CASE CheckRtt \/ CheckTimer \/ DebugSession \/ ObserveBlink
    BY <2>4 DEF CheckRtt, CheckTimer, DebugSession, ObserveBlink, Finish, NextStage
  <2>5. CASE Boot \/ WriteMagic \/ WriteStatus \/ WriteNum \/ RunTest \/ WriteDone \/ Beat \/ Crash
    BY <2>5 DEF Boot, WriteMagic, WriteStatus, WriteNum, RunTest, WriteDone, Beat, Crash, host
  <2>6. CASE UNCHANGED vars
    BY <2>6 DEF vars, host
  <2>7. CASE ReadBeatAgain
    BY <2>7 DEF VerdictInv, HostInv, BoardInv, ReadBeatAgain, Finish, Watching
  <2> QED
    BY <2>1, <2>2, <2>3, <2>4, <2>5, <2>6, <2>7 DEF Next
<1> QED
  BY VerdictInit, <1>1, <1>2, PTL DEF Spec, SuiteVerdictTrue
-----------------------------------------------------------------------------
(* The other direction: no red verdict without a cause. *)

HostTypes ==
  /\ hpc \in {"download", "reset", "poll", "results", "hb1", "hb2", "check", "ended", "raised"}
  /\ stage \in Stages /\ hb1 \in 0 .. Wrap - 1 /\ bad \in BOOLEAN
  /\ since \in 0 .. Wrap - 1 /\ trouble \in BOOLEAN
  /\ hpc \in {"download", "reset"} => stage \in {"suite", "dap", "blink"}
  /\ hpc = "check" => stage # "suite"

(* Addition modulo Wrap, as the heartbeat loop counts. *)
Turn(a, b) == IF a + b < Wrap THEN a + b ELSE a + b - Wrap

(* Complaints have a cause: a stage has failed, results look bad or a core   *)
(* is dead only after something went wrong since this start, the core an    *)
(* earlier start left dead excepted until it is flashed anew.              *)
CauseInv ==
  /\ fails # {} => trouble
  /\ bad => trouble
  /\ pc = "dead" => trouble \/ (stage = "suite" /\ hpc = "download")

(* What is flashed is what the stage wants. *)
FlashInv ==
  /\ hpc = "reset" => fw = Image
  /\ hpc = "check" /\ stage = "blink" => fw = "blink" /\ (trouble \/ pc \in {"boot", "app"})

(* While the host watches a suite to which nothing has happened, all tests   *)
(* so far have passed, the RTT test has left its block, and the block stays *)
(* for check_rtt.                                                          *)
PassInv ==
  /\ hpc \in Watching /\ ~trouble =>
       /\ pc \in {"tests", "done", "beat"} => ram.num = N
       /\ pc = "tests" => (\A i \in Test : i < t => truth[i] = "pass") /\ (RttTest < t => ram.rtt)
       /\ pc \in {"done", "beat"} => (\A i \in Test : truth[i] = "pass") /\ ram.rtt
  /\ stage = "rtt" => trouble \/ (pc = "beat" /\ ram.rtt)

(* The heartbeat: since the host looked it has moved on by as many beats,    *)
(* fewer than a turn.                                                      *)
BeatInv ==
  /\ hpc \in Watching /\ pc = "beat" /\ since > 0 => beats = Turn(ram.beat, 1)
  /\ hpc = "hb2" /\ pc = "beat" => beats = Turn(ram.beat, 1) /\ ram.beat = Turn(hb1, since)

AlarmInv == HostTypes /\ CauseInv /\ FlashInv /\ PassInv /\ BeatInv

LEMMA TurnFacts ==
  /\ \A a \in 0 .. Wrap - 1 : Turn(a, 0) = a /\ Turn(a, 1) \in 0 .. Wrap - 1
  /\ \A a, b \in 0 .. Wrap - 1 : b # 0 => Turn(a, b) # a
  /\ \A a, b \in 0 .. Wrap - 1 : b < Wrap - 1 => Turn(Turn(a, b), 1) = Turn(a, b + 1)
  BY BoundAssumption DEF Turn

LEMMA AlarmInit == Init => AlarmInv
<1> SUFFICES ASSUME Init PROVE AlarmInv
  OBVIOUS
<1>1. bad \in BOOLEAN /\ trouble \in BOOLEAN /\ ~bad
  BY DEF Init
<1>2. HostTypes
  BY <1>1, BoundAssumption DEF Init, HostTypes, Stages
<1>3. CauseInv /\ FlashInv /\ PassInv /\ BeatInv
  BY <1>1 DEF Init, CauseInv, FlashInv, PassInv, BeatInv, Watching
<1> QED
  BY <1>2, <1>3 DEF AlarmInv

(* A stage that ends, ends without fresh complaints, or something went       *)
(* wrong; what the next stage finds is as this one leaves it.              *)
LEMMA StageEnds ==
  ASSUME VerdictInv, AlarmInv, NEW ok \in BOOLEAN, Finish(ok), ~ok => trouble',
         trouble => trouble', trouble' \in BOOLEAN, UNCHANGED <<fw, ram, since>>,
         stage # "dap" => UNCHANGED pc,
         pc' = "dead" => trouble' \/ pc = "dead",
         stage = "suite" /\ ok => trouble' \/ (pc = "beat" /\ ram.rtt)
  PROVE  AlarmInv'
<1>1. HostTypes'
  BY DEF AlarmInv, HostTypes, Finish, NextStage, Stages
<1>2. CauseInv' /\ FlashInv'
  BY DEF AlarmInv, HostTypes, CauseInv, FlashInv, Finish, NextStage, Stages
<1>3. PassInv' /\ BeatInv'
  BY DEF AlarmInv, HostTypes, PassInv, BeatInv, Finish, NextStage, Stages, Watching
<1> QED
  BY <1>1, <1>2, <1>3 DEF AlarmInv

LEMMA AlarmFlashingStep ==
  ASSUME VerdictInv, AlarmInv, Download \/ DownloadFails \/ Reset \/ ProbeFails \/ Again
  PROVE  AlarmInv'
<1>1. CASE Download
  BY <1>1 DEF AlarmInv, HostTypes, CauseInv, FlashInv, PassInv, BeatInv, Download, Image, Watching
<1>2. CASE DownloadFails
  BY <1>2 DEF AlarmInv, HostTypes, CauseInv, FlashInv, PassInv, BeatInv, DownloadFails, Watching
<1>3. CASE Reset
  BY <1>3 DEF AlarmInv, HostTypes, CauseInv, FlashInv, PassInv, BeatInv, Reset, Image, Watching
<1>4. CASE ProbeFails
  BY <1>4 DEF AlarmInv, HostTypes, CauseInv, FlashInv, PassInv, BeatInv, ProbeFails, Raise,
     board, Watching
<1>5. CASE Again
  BY <1>5 DEF AlarmInv, HostTypes, CauseInv, FlashInv, PassInv, BeatInv, Again, Stages,
     board, Watching
<1> QED
  BY <1>1, <1>2, <1>3, <1>4, <1>5

LEMMA AlarmWatchingStep ==
  ASSUME VerdictInv, AlarmInv, Timely,
         PollDone \/ PollAgain \/ PollGivesUp \/ ReadResults \/ ReadBeat \/ ReadBeatAgain
  PROVE  AlarmInv'
<1>1. CASE PollDone \/ PollAgain
  BY <1>1 DEF AlarmInv, HostTypes, CauseInv, FlashInv, PassInv, BeatInv, PollDone, PollAgain,
     board, Watching
<1>2. CASE PollGivesUp
  <2>1. stage = "suite" /\ pc = "dead" /\ trouble
    BY <1>2 DEF AlarmInv, CauseInv, VerdictInv, HostInv, PollGivesUp, Watching
  <2> QED
    BY <1>2, <2>1, StageEnds DEF AlarmInv, HostTypes, PollGivesUp, board
<1>3. CASE ReadResults
  <2>1. (pc = "beat" /\ ram.results = truth) \/ pc = "dead"
    BY <1>3 DEF VerdictInv, HostInv, BoardInv, ReadResults
  <2>2. pc = "beat" /\ ~trouble => ram.num = N /\ \A i \in Test : ram.results[i] = "pass"
    BY <1>3, <2>1 DEF AlarmInv, PassInv, ReadResults, Watching
  <2>3. pc = "dead" => trouble
    BY <1>3 DEF AlarmInv, CauseInv, ReadResults
  <2>4. bad' \in BOOLEAN /\ (bad' => trouble)
    BY <1>3, <2>1, <2>2, <2>3 DEF ReadResults
  <2> QED
    BY <1>3, <2>4 DEF AlarmInv, HostTypes, CauseInv, FlashInv, PassInv, BeatInv, ReadResults,
       board, Watching
<1>4. CASE ReadBeat
  <2>1. hb1' = ram.beat /\ ram.beat \in 0 .. Wrap - 1 /\ since' = 0
    BY <1>4 DEF ReadBeat, VerdictInv, Types, Ram
  <2>2. pc = "beat" => beats = Turn(ram.beat, 1)
    BY <1>4 DEF ReadBeat, BeatSeen, AlarmInv, HostTypes, BeatInv, Watching
  <2>3. BeatInv'
    BY <1>4, <2>1, <2>2, TurnFacts DEF ReadBeat, BeatInv, board, Turn
  <2> QED
    BY <1>4, <2>1, <2>3, BoundAssumption DEF AlarmInv, HostTypes, CauseInv, FlashInv, PassInv, ReadBeat,
       board, Watching
<1>5. CASE ReadBeatAgain
  <2>1. stage = "suite" /\ pc \in {"beat", "dead"} /\ ram.beat \in 0 .. Wrap - 1
    BY <1>5 DEF ReadBeatAgain, VerdictInv, Types, HostInv, Ram, Watching
  <2>2. pc = "beat" => ram.beat # hb1
    BY <1>5, <2>1, TurnFacts DEF ReadBeatAgain, BeatSeen, AlarmInv, HostTypes, BeatInv
  <2>3. trouble \/ (pc = "beat" /\ ram.rtt /\ ~bad)
    BY <1>5, <2>1 DEF ReadBeatAgain, AlarmInv, CauseInv, PassInv, Watching
  <2>4. trouble \/ (~bad /\ ram.beat # hb1)
    BY <2>2, <2>3
  <2> QED
    BY <1>5, <2>1, <2>3, <2>4, StageEnds DEF AlarmInv, HostTypes, ReadBeatAgain, board
<1> QED
  BY <1>1, <1>2, <1>3, <1>4, <1>5

LEMMA AlarmCheckStep ==
  ASSUME VerdictInv, AlarmInv, Timely, CheckRtt \/ CheckTimer \/ DebugSession \/ ObserveBlink
  PROVE  AlarmInv'
<1>1. CASE CheckRtt
  <2>1. ram.rtt \in BOOLEAN
    BY DEF VerdictInv, Types, Ram
  <2>2. ram.rtt \/ trouble
    BY <1>1 DEF CheckRtt, AlarmInv, PassInv
  <2> QED
    BY <1>1, <2>1, <2>2, StageEnds DEF CheckRtt, AlarmInv, HostTypes, board
<1>2. CASE CheckTimer
  <2>1. PICK off \in BOOLEAN : Finish(~off) /\ trouble' = (trouble \/ off)
    BY <1>2 DEF CheckTimer
  <2> QED
    BY <1>2, <2>1, StageEnds DEF CheckTimer, AlarmInv, HostTypes, board
<1>3. CASE DebugSession
  <2>1. PICK off \in BOOLEAN : Finish(~off) /\ trouble' = (trouble \/ off)
    BY <1>3 DEF DebugSession
  <2> QED
    BY <1>3, <2>1, StageEnds DEF DebugSession, AlarmInv, HostTypes
<1>4. CASE ObserveBlink
  <2>1. pc = "app" \/ trouble
    BY <1>4 DEF ObserveBlink, AlarmInv, FlashInv
  <2> QED
    BY <1>4, <2>1, StageEnds DEF ObserveBlink, AlarmInv, HostTypes, board
<1> QED
  BY <1>1, <1>2, <1>3, <1>4

(* A word the suite stores before its tests run. *)
LEMMA AlarmStoreStep ==
  ASSUME VerdictInv, AlarmInv, Boot \/ WriteMagic \/ WriteStatus \/ WriteNum \/ WriteDone \/ Crash
  PROVE  AlarmInv'
<1>1. CASE Boot
  <2>1. hpc \in Watching => fw = "suite"
    BY <1>1 DEF Boot, VerdictInv, HostInv
  <2> QED
    BY <1>1, <2>1 DEF Boot, AlarmInv, HostTypes, CauseInv, FlashInv, PassInv, BeatInv, Image,
       host, Watching
<1>2. CASE WriteMagic \/ WriteStatus
  <2>1. ram'.rtt = ram.rtt
    BY <1>2 DEF WriteMagic, WriteStatus, VerdictInv, Types, Ram
  <2> QED
    BY <1>2, <2>1 DEF WriteMagic, WriteStatus, AlarmInv, HostTypes, CauseInv, FlashInv, PassInv,
       BeatInv, Image, host
<1>3. CASE WriteNum
  <2>1. ram'.rtt = ram.rtt /\ ram'.num = N
    BY <1>3 DEF WriteNum, VerdictInv, Types, Ram
  <2>2. t = 1 /\ t' = 1 /\ RttTest >= 1 /\ \A i \in Test : i >= 1
    BY <1>3, SuiteAssumption DEF WriteNum, VerdictInv, BoardInv, Test
  <2> QED
    BY <1>3, <2>1, <2>2, SuiteAssumption DEF WriteNum, AlarmInv, HostTypes, CauseInv, FlashInv, PassInv,
       BeatInv, Image, host, Test
<1>4. CASE WriteDone
  <2>1. ram'.rtt = ram.rtt /\ ram'.num = ram.num
    BY <1>4 DEF WriteDone, VerdictInv, Types, Ram
  <2>2. hpc # "hb2"
    BY <1>4 DEF WriteDone, VerdictInv, HostInv
  <2> QED
    BY <1>4, <2>1, <2>2, BoundAssumption DEF WriteDone, AlarmInv, HostTypes, CauseInv, FlashInv, PassInv,
       BeatInv, Image, host
<1>5. CASE Crash
  BY <1>5 DEF Crash, AlarmInv, HostTypes, CauseInv, FlashInv, PassInv, BeatInv, Image, host
<1> QED
  BY <1>1, <1>2, <1>3, <1>4, <1>5

LEMMA AlarmTestStep == ASSUME VerdictInv, AlarmInv, RunTest PROVE AlarmInv'
<1>1. PICK outcome \in {"pass", "fail"} :
        /\ trouble' = (trouble \/ outcome = "fail")
        /\ truth' = [truth EXCEPT ![t] = outcome]
        /\ ram' = [ram EXCEPT !.results = Report(t, outcome),
                              !.rtt = IF t = RttTest THEN outcome = "pass" ELSE ram.rtt]
  BY DEF RunTest
<1>2. /\ ram'.num = ram.num
      /\ t = RttTest => (ram'.rtt <=> outcome = "pass")
      /\ t # RttTest => ram'.rtt = ram.rtt
  BY <1>1 DEF VerdictInv, Types, Ram
<1>3. t \in Test /\ truth \in [Test -> Outcomes] /\ pc = "tests"
  BY DEF RunTest, VerdictInv, Types
<1>4. ASSUME hpc \in Watching, ~trouble'
      PROVE  /\ \A i \in Test : i <= t => truth'[i] = "pass"
             /\ RttTest <= t => ram'.rtt
             /\ ram'.num = N
  <2>1. outcome = "pass" /\ ~trouble
    BY <1>1, <1>4
  <2>2. \A i \in Test : i <= t => truth'[i] = "pass"
    <3> SUFFICES ASSUME NEW i \in Test, i <= t PROVE truth'[i] = "pass"
      OBVIOUS
    <3>1. i < t => truth[i] = "pass"
      BY <1>3, <1>4, <2>1 DEF AlarmInv, PassInv
    <3>2. i < t \/ i = t
      BY <1>3 DEF Test
    <3> QED
      BY <1>1, <1>3, <2>1, <3>1, <3>2
  <2>3. RttTest <= t => ram'.rtt
    <3>1. RttTest < t => ram.rtt
      BY <1>3, <1>4, <2>1 DEF AlarmInv, PassInv
    <3>2. RttTest <= t => RttTest < t \/ RttTest = t
      BY <1>3, SuiteAssumption DEF Test
    <3> QED
      BY <1>2, <2>1, <3>1, <3>2
  <2> QED
    BY <1>2, <1>3, <1>4, <2>1, <2>2, <2>3 DEF AlarmInv, PassInv
<1>5. HostTypes' /\ CauseInv' /\ FlashInv'
  BY <1>1, <1>3 DEF RunTest, AlarmInv, HostTypes, CauseInv, FlashInv, Image, host
<1>6. BeatInv'
  BY <1>3 DEF RunTest, VerdictInv, HostInv, BeatInv, host
<1>7. PassInv'
  <2>1. trouble => trouble'
    BY <1>1
  <2>2. stage' = "rtt" => trouble'
    BY <1>3, <2>1 DEF RunTest, AlarmInv, PassInv, host
  <2>3. CASE t < N
    BY <1>3, <1>4, <2>2, <2>3, SuiteAssumption DEF RunTest, PassInv, host, Test
  <2>4. CASE ~(t < N)
    BY <1>3, <1>4, <2>2, <2>4, SuiteAssumption DEF RunTest, PassInv, host, Test
  <2> QED
    BY <2>3, <2>4
<1> QED
  BY <1>5, <1>6, <1>7 DEF AlarmInv

LEMMA AlarmBeatStep == ASSUME VerdictInv, AlarmInv, Beat PROVE AlarmInv'
<1>1. /\ ram'.beat = beats /\ ram'.rtt = ram.rtt /\ ram'.num = ram.num
      /\ beats \in 0 .. Wrap - 1 /\ ram.beat \in 0 .. Wrap - 1
      /\ beats' = Turn(beats, 1)
  BY BoundAssumption DEF Beat, VerdictInv, Types, Ram, Turn
<1>2. since' = since + 1 /\ since < Wrap - 1 /\ since' \in 0 .. Wrap - 1
  BY BoundAssumption DEF Beat, AlarmInv, HostTypes
<1>3. HostTypes' /\ CauseInv' /\ FlashInv' /\ PassInv'
  BY <1>1, <1>2 DEF Beat, AlarmInv, HostTypes, CauseInv, FlashInv, PassInv, Image, host
<1>4. hpc = "hb2" => beats = Turn(hb1, since + 1)
  BY <1>2, TurnFacts DEF Beat, AlarmInv, HostTypes, BeatInv
<1>5. beats' = Turn(ram.beat, 1)' /\ Turn(hb1, since)' = Turn(hb1, since + 1)
  BY <1>1, <1>2 DEF Turn, Beat, host
<1>6. BeatInv'
  BY <1>1, <1>4, <1>5 DEF Beat, BeatInv, host
<1> QED
  BY <1>3, <1>6 DEF AlarmInv

LEMMA AlarmStep == ASSUME Timely, VerdictInv, AlarmInv, [Next]_vars PROVE AlarmInv'
<1>1. CASE UNCHANGED vars
  BY <1>1 DEF AlarmInv, HostTypes, CauseInv, FlashInv, PassInv, BeatInv, Turn, Image, vars, host, board
<1> QED
  BY <1>1, AlarmFlashingStep, AlarmWatchingStep, AlarmCheckStep, AlarmStoreStep, AlarmTestStep,
     AlarmBeatStep DEF Next

(* An orchestrator that ends red has seen something go wrong since it was    *)
(* started: a slow suite, what an earlier run left in RAM, a core left dead *)
(* by it or a heartbeat that wraps do not make stage() record a failure.    *)
THEOREM RedHasACause == ASSUME Timely PROVE Spec => []NoFalseAlarm
<1>1. VerdictInv /\ AlarmInv /\ [Next]_vars => (VerdictInv /\ AlarmInv)'
  BY VerdictStep, AlarmStep
<1>2. AlarmInv => NoFalseAlarm
  BY DEF AlarmInv, CauseInv, NoFalseAlarm
<1> QED
  BY VerdictInit, AlarmInit, <1>1, <1>2, PTL DEF Spec
=============================================================================
