------------------------------- MODULE Bench -------------------------------
(***************************************************************************)
(* The RP2040 benchmark: tools/bench.mojo flashes one firmware per language   *)
(* (bench/bench.c is two of them), waits, polls the mailbox and compares.    *)
(*                                                                         *)
(* Mailbox and scratch buffers are RAM at fixed addresses, which survives     *)
(* reset and flashing.  A poll stops the core's bus accesses for a while: if   *)
(* it falls into a measurement, the measured time grows.                     *)
(***************************************************************************)
EXTENDS Workloads

CONSTANTS
  Langs,    \* the firmwares, in the order of main
  Table,    \* bound: the workloads the firmwares run, BMS or a part of it
  RUNS,     \* runs of the suite per firmware
  Duration, \* time of each workload when nothing disturbs it
  Steal,    \* time a poll takes from the core
  Polls     \* polls of the mailbox before the host gives up (30)

(* main benchmarks each firmware once. *)
ASSUME LangAssumption == Langs \in Seq(STRING) /\ Langs # <<>> /\ IsInjective(Langs)

ASSUME BenchAssumption ==
  /\ RUNS \in Nat \ {0} /\ Steal \in Nat /\ Polls \in Nat \ {0}
  /\ Table \in Seq(Range(BMS)) /\ Duration \in [1 .. Len(Table) -> Nat \ {0}]

COUNT == Len(Table)

VARIABLES
  fw,      \* where the firmware is: "off", "reset", "stuck", "between", "measuring", "done"
  k,       \* index of the pair of the current workload
  steals,  \* polls that fell into the current measurement
  mb, mem, \* RAM: the mailbox and the scratch buffers
  host,    \* where the host is
  lang,    \* the firmware it is at
  polls,   \* polls left
  got,     \* times and checksums it has accepted, per firmware
  started  \* history: the firmwares that have got past board_init

board == <<fw, k, steals, mb, mem>>
pc    == <<host, lang, polls, got>>
vars  == <<board, pc, started>>

Pairs == 0 .. (RUNS * COUNT - 1)
Index(run, i) == run * COUNT + i - 1

-----------------------------------------------------------------------------
(* The firmware.  board_init waits for crystal, clocks and resets and may     *)
(* wait for ever; the mailbox is written after it.                          *)
Stuck ==
  /\ fw = "reset" /\ fw' = "stuck"
  /\ UNCHANGED <<k, steals, mb, mem, pc, started>>

(* The stores before the first run are one step: the host accepts a mailbox   *)
(* with MAGIC and status 2 only, and has slept until the firmware is past     *)
(* board_init or hangs there.                                               *)
Announce ==
  /\ fw = "reset" /\ fw' = "between"
  /\ mb' = [mb EXCEPT !.magic = "BENC", !.status = 1, !.count = COUNT, !.runs = RUNS]
  /\ mem' = [mem EXCEPT !.FIB_N = FibArg]
  /\ started' = started \cup {Langs[lang]}
  /\ UNCHANGED <<k, steals, pc>>

(* One call through BMS, its time and its checksum. *)
Call ==
  /\ fw = "between" /\ k \in Pairs
  /\ fw' = "measuring"
  /\ UNCHANGED <<k, steals, mb, mem, pc, started>>

Return ==
  /\ fw = "measuring" /\ fw' = "between" /\ steals' = 0
  /\ LET i == (k % COUNT) + 1
         r == Bm(Table[i], mem)
     IN /\ mem' = r.mem
        /\ mb' = [mb EXCEPT !.pairs[k] = [us |-> Duration[i] + Steal * steals, ck |-> r.ck]]
  /\ k' = k + 1
  /\ UNCHANGED <<pc, started>>

Done ==
  /\ fw = "between" /\ k \notin Pairs /\ fw' = "done"
  /\ mb' = [mb EXCEPT !.status = 2]
  /\ UNCHANGED <<k, steals, mem, pc, started>>

-----------------------------------------------------------------------------
(* The host. *)
At(here, there) == host = here /\ host' = there

BoardKeeps == UNCHANGED <<board, started>>

(* run_bench: download and reset, then sleep past the expected duration: the   *)
(* firmware has long left board_init, unless it never will.                  *)
Flash ==
  /\ At("flash", "sleep")
  /\ fw' = "reset" /\ polls' = Polls /\ k' = 0 /\ steals' = 0
  /\ UNCHANGED <<mb, mem, lang, got, started>>

Wake ==
  /\ At("sleep", "poll") /\ fw # "reset"
  /\ UNCHANGED <<lang, polls, got>> /\ BoardKeeps

(* Every read of the mailbox steals time from the core. *)
Poll(there) ==
  /\ At("poll", there) /\ polls > 0 /\ polls' = polls - 1
  /\ steals' = IF fw = "measuring" THEN steals + 1 ELSE steals
  /\ UNCHANGED <<fw, k, mb, mem, lang, got, started>>

Shown == mb.magic = "BENC" /\ mb.status = 2

PollDone  == Shown /\ Poll(IF mb.count = COUNT /\ mb.runs = RUNS THEN "read" ELSE "stale")

(* Deviation: a poll that finds nothing is not counted. *)
PollAgain_Uncounted ==
  /\ ~Shown /\ At("poll", "poll") /\ polls > 0
  /\ UNCHANGED <<polls, lang, got>> /\ BoardKeeps

PollAgain == ~Shown /\ Poll("poll")

PollGivesUp ==
  /\ At("poll", "never finished") /\ polls = 0
  /\ UNCHANGED <<lang, polls, got>> /\ BoardKeeps

(* A command of the probe fails: its exception ends the program. *)
ProbeFails ==
  /\ host \in {"flash", "poll", "read"} /\ host' = "probe"
  /\ UNCHANGED <<lang, polls, got>> /\ BoardKeeps

(* reduce_runs: the times of a workload, and what its insertion sort makes of  *)
(* them.                                                                   *)
Deviating(pairs, i) == \E run \in 1 .. (RUNS - 1) : pairs[Index(run, i)].ck # pairs[Index(0, i)].ck

Measured(pairs, i) == [run \in 1 .. RUNS |-> pairs[Index(run - 1, i)].us]

Ascending(t) == \A r, q \in DOMAIN t : r < q => t[r] <= t[q]

Sorted(t) ==
  LET order == CHOOSE p \in Bijection(DOMAIN t, DOMAIN t) : Ascending([r \in DOMAIN t |-> t[p[r]]])
  IN [r \in DOMAIN t |-> t[order[r]]]

(* Deviation: the times are taken in the order of the runs. *)
Times_Unsorted(pairs, i) == Measured(pairs, i)

Times(pairs, i) == Sorted(Measured(pairs, i))

Spread(t) == t[1] > 0 /\ ((t[RUNS] - t[1]) * 100) \div t[1] >= 2

Median(t) == t[(RUNS \div 2) + 1]

Reduced(pairs) == [i \in 1 .. COUNT |-> [med |-> Median(Times(pairs, i)), ck |-> pairs[Index(0, i)].ck]]

(* The first workload with deviating checksums or too much spread decides. *)
ReadResults ==
  /\ host = "read"
  /\ LET bad == {i \in 1 .. COUNT : Deviating(mb.pairs, i) \/ Spread(Times(mb.pairs, i))}
     IN IF bad # {}
          THEN /\ host' = IF Deviating(mb.pairs, Min(bad)) THEN "checksum varies" ELSE "spread"
               /\ UNCHANGED <<lang, got>>
          ELSE /\ got' = [got EXCEPT ![Langs[lang]] = Reduced(mb.pairs)]
               /\ IF lang < Len(Langs) THEN host' = "flash" /\ lang' = lang + 1
                                      ELSE host' = "compare" /\ UNCHANGED lang
  /\ UNCHANGED polls /\ BoardKeeps

Agree == \A l \in Range(Langs), i \in 1 .. COUNT : got[l][i].ck = got[Langs[1]][i].ck

CrossCheck ==
  /\ At("compare", IF Agree THEN "report" ELSE "checksum mismatch")
  /\ UNCHANGED <<lang, polls, got>> /\ BoardKeeps

-----------------------------------------------------------------------------
(* RAM before: as after power-up, or with the mailbox of an earlier session   *)
(* (of this suite or of one with fewer workloads), and any buffers.          *)
Junk == <<{0, 31}, {5}>>
Old  == [p \in Pairs |-> [us |-> 100, ck |-> {31}]]

Init ==
  /\ fw = "off" /\ k = 0 /\ steals = 0
  /\ mb \in {[magic |-> "none", status |-> 0, count |-> 0, runs |-> 0, pairs |-> Old],
             [magic |-> "BENC", status |-> 2, count |-> COUNT, runs |-> RUNS, pairs |-> Old],
             [magic |-> "BENC", status |-> 2, count |-> COUNT - 1, runs |-> RUNS, pairs |-> Old]}
  /\ mem = [CRC_BUF |-> Junk, SORT_BUF |-> Junk, MAT_A |-> Junk, MAT_B |-> Junk, MAT_C |-> Junk,
            FIB_N |-> 0]
  /\ host = "flash" /\ lang = 1 /\ polls = 0
  /\ got = [l \in Range(Langs) |-> <<>>]
  /\ started = {}

Suite == Announce \/ Call \/ Return \/ Done
Host  == Flash \/ Wake \/ PollDone \/ PollAgain \/ PollGivesUp \/ ReadResults \/ CrossCheck

Next == Suite \/ Stuck \/ Host \/ ProbeFails

Spec == Init /\ [][Next]_vars

(* The program on the host goes on, and so does board_init or the time it     *)
(* would take; no more is assumed of the firmware.                           *)
FairSpec == Spec /\ WF_vars(Host) /\ WF_vars(Announce \/ Stuck)

-----------------------------------------------------------------------------
Wrong == {"stale", "never finished", "checksum varies", "spread", "checksum mismatch"}

(* The accepted time of a workload is within 2 % of its undisturbed time      *)
(* unless polls have disturbed it in every run: "the 3-run spread check is    *)
(* what catches this".                                                     *)
TimesTrue ==
  [][\A l \in started : got'[l] # got[l] =>
       \A i \in 1 .. COUNT :
         (\E run \in 0 .. (RUNS - 1) : mb.pairs[Index(run, i)].us = Duration[i])
           => 100 * got'[l][i].med < 102 * Duration[i]]_vars

(* The host blames checksums, spread or a stale mailbox only if a firmware     *)
(* never got past board_init or, for spread, if a poll fell into a measurement. *)
BlamedForCause ==
  host \in Wrong \ {"never finished"} =>
    \/ Range(SubSeq(Langs, 1, lang)) \ started # {}
    \/ host = "spread" /\ \E p \in Pairs : mb.pairs[p].us > Duration[(p % COUNT) + 1]

(* The host comes to an end. *)
BenchEnds == <>(host \in Wrong \cup {"report", "probe"})
=============================================================================
