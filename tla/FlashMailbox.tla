---------------------------- MODULE FlashMailbox ----------------------------
(***************************************************************************)
(* The probe-less result loop of the RP2350: the host copies a firmware to  *)
(* the BOOTSEL drive (run_bench of tools/bench_rp2350.mojo), the firmware   *)
(* stages its results in SRAM, commits them to a flash sector and reboots   *)
(* to BOOTSEL (flash_commit_reboot of runtime/crt0_rv32.S), and the host    *)
(* reads the sector back over PICOBOOT.                                    *)
(*                                                                         *)
(* The tool is started Sessions times; each time it runs one firmware per   *)
(* member of Langs, in order.  An image is known by the session and the     *)
(* language it was built for; the page itself shows the language only.      *)
(* What can go wrong: the bootrom does not start the image and offers the   *)
(* drive again, the board is reset in the middle of a run, or the firmware  *)
(* hangs and the user goes back to BOOTSEL by hand (failed); the device is   *)
(* away for less than a poll or longer than all of them (mistimed).         *)
(***************************************************************************)
EXTENDS Naturals, Sequences

CONSTANTS
  Langs,      \* the languages of a session, in order
  Sessions,   \* how often the tool is started
  Pairs,      \* (cycles, checksum) pairs a firmware reports (RUNS * COUNT)
  Polls,      \* polls of the mount point before the host gives up (30, 60)
  UsesCore1   \* the firmware has started core 1 (pio_multicore.mojo)

ASSUME LangAssumption ==
  /\ Len(Langs) \in Nat \ {0}
  /\ \A a, b \in 1 .. Len(Langs) : a # b => Langs[a] # Langs[b]
ASSUME BoundAssumption ==
  Sessions \in Nat \ {0} /\ Pairs \in Nat /\ Polls \in Nat \ {0}
ASSUME FlagAssumption == UsesCore1 \in BOOLEAN

VARIABLES
  session,  \* the session that is running
  k,        \* the firmware of it that is being run
  hpc,      \* where run_bench is
  polls,    \* polls made in the present loop
  took,     \* the page this run_bench has accepted, or NoPage
  mode,     \* what the device does
  image,    \* the firmware in flash
  fpc,      \* where the firmware is
  staged,   \* the page in SRAM at MB
  page,     \* the mailbox sector
  xip,      \* flash can be executed from
  core1,    \* "off", or "xip" while core 1 fetches from flash
  failed,   \* history: an image was not started or did not run to its end
  mistimed, \* history: the device was away too briefly or too long for the polls
  cut       \* history: a commit was cut while it erased or programmed, and no
            \* image has run to its end since

host     == <<session, k, hpc, polls, took>>
device   == <<mode, image>>
firmware == <<fpc, staged, core1>>
history  == <<failed, mistimed, cut>>
vars     == <<host, device, firmware, page, xip, history>>

NoImage == [session |-> 0, lang |-> "none"]
Erased  == [of |-> NoImage, magic |-> FALSE, state |-> 0, pairs |-> 0]
NoPage  == Erased
Lang    == {Langs[n] : n \in 1 .. Len(Langs)}
Images  == [session : 0 .. Sessions, lang : Lang \cup {"none"}]
Pages   == [of : Images, magic : BOOLEAN, state : 0 .. 2, pairs : 0 .. Pairs]

(* What the host is about to flash. *)
Wanted == [session |-> session, lang |-> Langs[k]]

Init ==
  /\ session = 1 /\ k = 1
  /\ hpc = "mount" /\ polls = 0 /\ took = NoPage
  /\ mode = "bootsel" /\ image = NoImage
  /\ fpc = "off" /\ staged = Erased /\ core1 = "off"
  /\ page = Erased
  /\ xip = TRUE
  /\ failed = FALSE /\ mistimed = FALSE /\ cut = FALSE

-----------------------------------------------------------------------------
(* The host.  It sees the drive when the device sits in BOOTSEL. *)
Mounted == mode = "bootsel"

SeeDrive ==
  /\ hpc = "mount"
  /\ Mounted
  /\ hpc' = "copy" /\ polls' = 0
  /\ took' = NoPage
  /\ UNCHANGED <<session, k, device, firmware, page, xip, history>>

NoDrive ==
  /\ hpc = "mount"
  /\ ~Mounted
  /\ polls' = polls + 1
  /\ hpc' = IF polls' > Polls THEN "error" ELSE hpc
  /\ UNCHANGED <<session, k, took, device, firmware, page, xip, history>>

(* cp and sync: the bootrom programs the image and leaves BOOTSEL. *)
Copy ==
  /\ hpc = "copy"
  /\ Mounted
  /\ hpc' = "gone" /\ polls' = 0
  /\ image' = Wanted
  /\ mode' = "boot"
  /\ UNCHANGED <<session, k, took, firmware, page, xip, history>>

(* The wait for the drive to go, ... *)
SeeGone ==
  /\ hpc = "gone"
  /\ ~Mounted
  /\ hpc' = "back" /\ polls' = 0
  /\ UNCHANGED <<session, k, took, device, firmware, page, xip, history>>

StillThere ==
  /\ hpc = "gone"
  /\ Mounted
  /\ polls' = polls + 1
  /\ hpc' = IF polls' = Polls THEN "error" ELSE hpc
  /\ UNCHANGED <<session, k, took, device, firmware, page, xip, history>>

(* ... and for it to come back (one last look after the loop). *)
SeeBack ==
  /\ hpc = "back"
  /\ Mounted
  /\ hpc' = "read" /\ polls' = 0
  /\ UNCHANGED <<session, k, took, device, firmware, page, xip, history>>

(* Deviation: the wait has no bound. *)
StillAway_Uncounted ==
  /\ hpc = "back"
  /\ ~Mounted
  /\ UNCHANGED vars

StillAway ==
  /\ hpc = "back"
  /\ ~Mounted
  /\ polls' = polls + 1
  /\ hpc' = IF polls' > Polls THEN "error" ELSE hpc
  /\ mistimed' = (mistimed \/ polls + 1 >= Polls)
  /\ UNCHANGED <<failed, cut>>
  /\ UNCHANGED <<session, k, took, device, firmware, page, xip>>

(* The gates on the page: magic, state, language (count and runs are those  *)
(* of every benchmark firmware).                                           *)
Accepts(p) == p.magic /\ p.state = 2 /\ p.of.lang = Langs[k]

(* The PICOBOOT read of the sector; the next firmware, or the tool ends.    *)
ReadPage ==
  /\ hpc = "read"
  /\ Mounted
  /\ Accepts(page)
  /\ took' = page
  /\ IF k < Len(Langs)
       THEN k' = k + 1 /\ hpc' = "mount"
       ELSE k' = k /\ hpc' = "finished"
  /\ UNCHANGED <<session, polls, device, firmware, page, xip, history>>

RejectPage ==
  /\ hpc = "read"
  /\ ~(Mounted /\ Accepts(page))
  /\ hpc' = "error"
  /\ UNCHANGED <<session, k, polls, took, device, firmware, page, xip, history>>

(* The tool is started again, whatever the board is doing. *)
Restart ==
  /\ hpc \in {"finished", "error"}
  /\ session < Sessions
  /\ session' = session + 1 /\ k' = 1
  /\ hpc' = "mount" /\ polls' = 0 /\ took' = NoPage
  /\ UNCHANGED <<device, firmware, page, xip, history>>

-----------------------------------------------------------------------------
(* The device: the bootrom starts the image, ... *)
Boot ==
  /\ mode = "boot"
  /\ mode' = "run"
  /\ fpc' = "header"
  /\ UNCHANGED <<host, image, staged, core1, page, xip, history>>

(* ... or does not and offers the drive again. *)
BootRejected ==
  /\ mode = "boot"
  /\ mode' = "bootsel"
  /\ failed' = TRUE
  /\ UNCHANGED <<mistimed, cut>>
  /\ UNCHANGED <<host, image, firmware, page, xip>>

(* Deviation: state 2 is set before the pairs are reported. *)
Header_DoneFirst ==
  /\ fpc = "header"
  /\ staged' = [of |-> image, magic |-> TRUE, state |-> 2, pairs |-> 0]
  /\ fpc' = "exit_xip"
  /\ core1' = core1
  /\ UNCHANGED <<host, device, page, xip, history>>

(* start(): magic, state 1, counts and language; pio_multicore.mojo starts  *)
(* core 1, which spins in a loop in flash when it has its result.           *)
Header ==
  /\ fpc = "header"
  /\ staged' = [of |-> image, magic |-> TRUE, state |-> 1, pairs |-> 0]
  /\ fpc' = "measure"
  /\ core1' = IF UsesCore1 THEN "xip" ELSE core1
  /\ UNCHANGED <<host, device, page, xip, history>>

(* A workload runs, and _report stores its cycles and its checksum. *)
Report ==
  /\ fpc = "measure"
  /\ staged.pairs < Pairs
  /\ staged' = [staged EXCEPT !.pairs = @ + 1]
  /\ UNCHANGED <<host, device, fpc, core1, page, xip, history>>

(* Deviation: core 1 is left running. *)
Halt_Omitted ==
  /\ fpc = "measure"
  /\ staged.pairs = Pairs
  /\ fpc' = "state"
  /\ UNCHANGED <<host, device, staged, core1, page, xip, history>>

(* halt_core1 before the commit. *)
Halt ==
  /\ fpc = "measure"
  /\ staged.pairs = Pairs
  /\ fpc' = "state"
  /\ core1' = "off"
  /\ UNCHANGED <<host, device, staged, page, xip, history>>

(* State 2, ... *)
Done ==
  /\ fpc = "state"
  /\ staged' = [staged EXCEPT !.state = 2]
  /\ fpc' = "exit_xip"
  /\ UNCHANGED <<host, device, core1, page, xip, history>>

(* ... then flash_commit_reboot: XIP off, erase, program, cache, reboot.    *)
(* Erase and Program stand for the return of the ROM routine: nobody reads   *)
(* the sector before, and what a reset in the middle leaves is in Reset.    *)
ExitXip ==
  /\ fpc = "exit_xip"
  /\ xip' = FALSE
  /\ fpc' = "erase"
  /\ UNCHANGED <<host, device, staged, core1, page, history>>

(* Deviation: a sector that holds a page is left alone. *)
Erase_WrittenOnce ==
  /\ fpc = "erase"
  /\ page' = page
  /\ fpc' = IF page.magic THEN "reboot" ELSE "program"
  /\ UNCHANGED <<host, device, staged, core1, xip, history>>

Erase ==
  /\ fpc = "erase"
  /\ page' = Erased
  /\ fpc' = "program"
  /\ UNCHANGED <<host, device, staged, core1, xip, history>>

Program ==
  /\ fpc = "program"
  /\ page' = staged
  /\ fpc' = "reboot"
  /\ UNCHANGED <<host, device, staged, core1, xip, history>>

(* The reboot fires: the bootrom clears SRAM and offers the drive.  The     *)
(* host polls every two seconds, and may miss that the device was away.     *)
Reboot ==
  /\ fpc = "reboot"
  /\ fpc' = "off" /\ mode' = "bootsel"
  /\ staged' = Erased
  /\ xip' = TRUE
  /\ core1' = "off"
  /\ mistimed' = (mistimed \/ hpc # "back")
  /\ cut' = FALSE
  /\ UNCHANGED failed
  /\ UNCHANGED <<host, image, page>>

(* The firmware hangs somewhere in a workload. *)
Hang ==
  /\ fpc = "measure"
  /\ fpc' = "off" /\ mode' = "hung"
  /\ failed' = TRUE
  /\ UNCHANGED <<mistimed, cut>>
  /\ UNCHANGED <<host, image, staged, core1, page, xip>>

(* A reset or a power cycle in the middle of a run: the image in flash is    *)
(* started again.  In the middle of the erase or of the page program it      *)
(* leaves any part of the page behind, each word as a whole.               *)
Remains(p) ==
  [of : {p.of, NoImage}, magic : {p.magic, FALSE}, state : {p.state, 0}, pairs : 0 .. p.pairs]

Reset ==
  /\ mode = "run"
  /\ mode' = "boot" /\ fpc' = "off"
  /\ staged' = Erased /\ xip' = TRUE /\ core1' = "off"
  /\ CASE fpc = "erase"   -> page' \in Remains(page)
       [] fpc = "program" -> page' \in Remains(staged)
       [] OTHER           -> page' = page
  /\ cut' = (cut \/ fpc \in {"erase", "program"})
  /\ failed' = TRUE
  /\ UNCHANGED mistimed
  /\ UNCHANGED <<host, image>>

(* The user holds BOOTSEL and resets the board. *)
UserRecovers ==
  /\ mode = "hung"
  /\ mode' = "bootsel" /\ fpc' = "off"
  /\ staged' = Erased /\ xip' = TRUE /\ core1' = "off"
  /\ UNCHANGED <<host, image, page, history>>

-----------------------------------------------------------------------------
HostStep ==
  \/ SeeDrive \/ NoDrive \/ Copy
  \/ SeeGone \/ StillThere \/ SeeBack \/ StillAway
  \/ ReadPage \/ RejectPage

DeviceStep ==
  Boot \/ Header \/ Report \/ Halt \/ Done \/ ExitXip \/ Erase \/ Program \/ Reboot

Next ==
  \/ SeeDrive \/ NoDrive \/ Copy
  \/ SeeGone \/ StillThere \/ SeeBack \/ StillAway
  \/ ReadPage \/ RejectPage \/ Restart
  \/ Boot \/ BootRejected \/ Header \/ Report \/ Halt \/ Done
  \/ ExitXip \/ Erase \/ Program \/ Reboot
  \/ Hang \/ Reset \/ UserRecovers

Spec == Init /\ [][Next]_vars

(* The host and the device run; nobody has to press a button. *)
FairSpec == Spec /\ WF_vars(HostStep) /\ WF_vars(DeviceStep)

-----------------------------------------------------------------------------
TypeOK ==
  /\ session \in 1 .. Sessions /\ k \in 1 .. Len(Langs)
  /\ hpc \in {"mount", "copy", "gone", "back", "read", "finished", "error"}
  /\ polls \in 0 .. Polls + 1
  /\ took \in Pages /\ staged \in Pages /\ page \in Pages
  /\ mode \in {"bootsel", "boot", "run", "hung"}
  /\ image \in Images
  /\ fpc \in {"off", "header", "measure", "state", "exit_xip", "erase", "program", "reboot"}
  /\ xip \in BOOLEAN /\ core1 \in {"off", "xip"}
  /\ failed \in BOOLEAN /\ mistimed \in BOOLEAN /\ cut \in BOOLEAN

(* The commit never wedges the chip: core 1 fetches nothing from flash      *)
(* while flash cannot be read (halt_core1 "Mandatory before any flash       *)
(* programming (XIP off)", multicore.mojo).                                *)
NeverWedged == ~xip => core1 # "xip"

(* A page run_bench takes as done is complete, in spite of resets anywhere   *)
(* in a run: state 2 is set after the last pair, and the next run of the     *)
(* image wipes whatever a cut commit has left.  Until that run has ended the *)
(* header of such a page may be there without its pairs, and be accepted.   *)
DoneIsComplete ==
  [][took' \notin {took, NoPage} /\ ~cut => took'.pairs = Pairs]_vars

(* As long as every image has been started and has run to its end, what the *)
(* host takes is the result of the firmware it has just copied, over all    *)
(* sessions and wherever the tool was started again.                       *)
FreshUnlessFailed ==
  [][took' \notin {took, NoPage} /\ ~failed => took'.of = Wanted]_vars

(* "Each firmware stamps a language id so a stale page can never masquerade *)
(* as a fresh result." (bench_rp2350.mojo)                                 *)
FreshResult == [][took' \notin {took, NoPage} => took'.of = Wanted]_vars

(* The host never waits for ever: every session comes to an end, and when    *)
(* all images worked on a device that is neither too quick nor too slow for *)
(* the polls, with every result read.                                      *)
SessionEnds ==
  []<>(hpc = "finished" \/ (hpc = "error" /\ (failed \/ mistimed)))
=============================================================================
