------------------------------- MODULE Clocks -------------------------------
(***************************************************************************)
(* The clock tree of the RP2040 and the code that brings it up: board_init,   *)
(* sys_clock_125mhz and measure_khz of bench/irq_latency.c, which repeat      *)
(* pico/board.mojo and pico/clocks.mojo access by access.                    *)
(*                                                                         *)
(* Crystal, multiplexers, PLL and frequency counter follow at their own pace. *)
(* The code runs on the clock it switches: when the source of clk_sys stops,  *)
(* so does the processor.  It may find the tree as power-up leaves it or as   *)
(* an earlier program left it ("also stops a PLL left running").             *)
(***************************************************************************)
VARIABLES
  clk,   \* the tree, see Tree
  bring, \* the next access of the bring-up, or "announce", then "up"
  khz    \* MB + 0x14, the measured clk_sys

clocks == <<clk, bring, khz>>

Khz      == {"none", "125 MHz", "12 MHz", "other"}
Dividers == {"feedback", "post"}

(* ref and sys are what the control registers ask for, refSel and sysSel what *)
(* SELECTED shows; div are the dividers written since the PLL left reset.     *)
Tree ==
  [xosc : {"off", "starting", "stable"}, ref : {"rosc", "xosc"}, refSel : {"rosc", "xosc"},
   sys : {"ref", "aux"}, sysSel : {"ref", "aux"},
   pll : {"reset", "releasing", "off", "locking", "locked", "out"}, div : SUBSET Dividers,
   io : {"reset", "releasing", "ready"}, tick : BOOLEAN,
   fc : {"idle", "running", "done"}, result : Khz]

Cold ==
  [xosc |-> "off", ref |-> "rosc", refSel |-> "rosc", sys |-> "ref", sysSel |-> "ref",
   pll |-> "reset", div |-> {}, io |-> "reset", tick |-> FALSE, fc |-> "idle", result |-> "none"]

RefRuns(source) == source = "rosc" \/ clk.xosc = "stable"
SysRuns(source) == IF source = "aux" THEN clk.pll = "out" ELSE RefRuns(clk.refSel)

CoreClocked == SysRuns(clk.sysSel)

-----------------------------------------------------------------------------
(* One access of the processor: a store, or the end of a loop that polls.     *)
Write(here, there, tree) ==
  CoreClocked /\ bring = here /\ bring' = there /\ clk' = tree /\ UNCHANGED khz

Await(here, there, condition) == condition /\ Write(here, there, clk)

(* board_init *)
EnableXosc ==
  Write("xosc", "xosc?", [clk EXCEPT !.xosc = IF @ = "off" THEN "starting" ELSE @])
AwaitXosc == Await("xosc?", "ref", clk.xosc = "stable")
RefToXosc == Write("ref", "ref?", [clk EXCEPT !.ref = "xosc"])
AwaitRef  == Await("ref?", "sys", clk.refSel = "xosc")
SysToRef  == Write("sys", "sys?", [clk EXCEPT !.sys = "ref"])

(* Deviation: the switch is not waited for. *)
AwaitSys_Skipped == Await("sys?", "io", TRUE)

AwaitSys  == Await("sys?", "io", clk.sysSel = "ref")
ReleaseIo == Write("io", "io?", [clk EXCEPT !.io = IF @ = "reset" THEN "releasing" ELSE @])
AwaitIo   == Await("io?", "tick", clk.io = "ready")
StartTick == Write("tick", "announce", [clk EXCEPT !.tick = TRUE])

board_init ==
  \/ EnableXosc \/ AwaitXosc \/ RefToXosc \/ AwaitRef \/ SysToRef \/ AwaitSys
  \/ ReleaseIo \/ AwaitIo \/ StartTick

(* sys_clock_125mhz: a store to a PLL that is not out of reset is lost. *)
ResetPll    == Write("pll", "release", [clk EXCEPT !.pll = "reset", !.div = {}])
ReleasePll  == Write("release", "release?", [clk EXCEPT !.pll = "releasing"])
AwaitPll    == Await("release?", "feedback", clk.pll # "releasing")
Divide(d)   == IF clk.pll \in {"reset", "releasing"} THEN clk ELSE [clk EXCEPT !.div = @ \cup {d}]
SetFeedback == Write("feedback", "power", Divide("feedback"))
PowerPll    == Write("power", "lock?", [clk EXCEPT !.pll = IF @ = "off" THEN "locking" ELSE @])
AwaitLock   == Await("lock?", "post", clk.pll = "locked")
SetPost     == Write("post", "out", Divide("post"))
PowerPost   == Write("out", "aux", [clk EXCEPT !.pll = IF @ = "locked" THEN "out" ELSE @])
SelectPll   == Write("aux", "fast", [clk EXCEPT !.sys = "ref"])
SysToAux    == Write("fast", "fast?", [clk EXCEPT !.sys = "aux"])
AwaitAux    == Await("fast?", "fc?", clk.sysSel = "aux")

sys_clock_125mhz ==
  \/ ResetPll \/ ReleasePll \/ AwaitPll \/ SetFeedback \/ PowerPll \/ AwaitLock
  \/ SetPost \/ PowerPost \/ SelectPll \/ SysToAux \/ AwaitAux

(* measure_khz: a measurement under way is waited for, then clk_sys measured. *)
AwaitFc == Await("fc?", "measure", clk.fc # "running")
Measure == Write("measure", "done?", [clk EXCEPT !.fc = "running"])
Read    ==
  /\ CoreClocked /\ bring = "done?" /\ clk.fc = "done"
  /\ bring' = "up" /\ khz' = clk.result /\ UNCHANGED clk

measure_khz == AwaitFc \/ Measure \/ Read

-----------------------------------------------------------------------------
(* The hardware: a multiplexer lets go of one source and takes another only   *)
(* while both run.                                                         *)
Becomes(tree) == clk' = tree /\ UNCHANGED <<bring, khz>>

Frequency ==
  IF clk.refSel # "xosc" THEN "other"
  ELSE IF clk.sysSel = "ref" THEN "12 MHz"
  ELSE IF clk.div = Dividers THEN "125 MHz" ELSE "other"

Hardware ==
  \/ clk.xosc = "starting" /\ Becomes([clk EXCEPT !.xosc = "stable"])
  \/ /\ clk.refSel # clk.ref /\ RefRuns(clk.refSel) /\ RefRuns(clk.ref)
     /\ Becomes([clk EXCEPT !.refSel = clk.ref])
  \/ /\ clk.sysSel # clk.sys /\ SysRuns(clk.sysSel) /\ SysRuns(clk.sys)
     /\ Becomes([clk EXCEPT !.sysSel = clk.sys])
  \/ clk.io = "releasing" /\ Becomes([clk EXCEPT !.io = "ready"])
  \/ clk.pll = "releasing" /\ Becomes([clk EXCEPT !.pll = "off"])
  \/ clk.pll = "locking" /\ clk.xosc = "stable" /\ Becomes([clk EXCEPT !.pll = "locked"])
  \/ clk.fc = "running" /\ Becomes([clk EXCEPT !.fc = "done", !.result = Frequency])

-----------------------------------------------------------------------------
(* No clock is lost and none has a wrong frequency: whatever program ran      *)
(* before and wherever it was reset, a multiplexer has and is given only      *)
(* sources that run ("Glitchless switch"), clk_sys is not driven by a PLL      *)
(* without its dividers, and the program gets its pins, its 1 us tick and the  *)
(* 125 MHz it has asked for.                                                *)
ClockNeverLost ==
  /\ RefRuns(clk.ref) /\ RefRuns(clk.refSel)
  /\ SysRuns(clk.sys) /\ SysRuns(clk.sysSel)
  /\ clk.sysSel = "aux" => clk.div = Dividers
  /\ bring = "up" => clk.io = "ready" /\ clk.tick /\ clk.refSel = "xosc" /\ khz = "125 MHz"
=============================================================================
