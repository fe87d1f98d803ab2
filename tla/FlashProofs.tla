------------------------- MODULE FlashProofs --------------------------------
(***************************************************************************)
(* Proofs about the two programs that handle the flash.                    *)
(*                                                                         *)
(* FlashMailbox, for any number of sessions, languages, pairs and polls    *)
(* and whatever fails: no core fetches from flash during the commit, a page *)
(* taken as done is complete unless a commit was cut and not repeated, and   *)
(* a page is of the firmware just copied unless an image has failed.        *)
(*                                                                         *)
(* Boot2, for any number of boots, whatever the state a chip is left in     *)
(* and wherever a reset or a power cut comes: a boot that is not held up    *)
(* leaves SSI and flash in one continuous quad read mode, and writes the    *)
(* status registers only where register 2 is not exactly quad enable.       *)
(***************************************************************************)
EXTENDS FlashMailbox, Boot2, SequenceTheorems, FiniteSetTheorems, TLAPS

(* From the halt of core 1 to the reboot. *)
Committing == {"state", "exit_xip", "erase", "program", "reboot"}

(* Core 1 is off from its halt on, flash is readable outside the commit, and *)
(* an image is started with no firmware running.                           *)
XipInv ==
  /\ mode # "run" => fpc = "off"
  /\ fpc \in Committing => core1 = "off"
  /\ ~xip => fpc \in {"erase", "program", "reboot"}

(* What is staged has as many pairs as have been reported, and all of them  *)
(* when it is committed.  What a cut commit has left is gone at the reboot   *)
(* at the latest.                                                          *)
Complete(p) == p.state = 2 => p.pairs = Pairs
PageInv ==
  /\ staged \in Pages /\ page \in Pages /\ took \in Pages /\ image \in Images
  /\ fpc = "measure" => staged.state # 2
  /\ fpc \in Committing => staged.pairs = Pairs
  /\ Complete(staged)
  /\ ~cut \/ fpc = "reboot" => Complete(page)

LEMMA XipInit == Init => XipInv
  BY DEF Init, XipInv, Committing

LEMMA XipStep == ASSUME XipInv, [Next]_vars PROVE XipInv'
<1>1. CASE SeeDrive \/ NoDrive \/ Copy
  BY <1>1 DEF XipInv, device, SeeDrive, NoDrive, Copy, Mounted, firmware
<1>2. CASE SeeGone \/ StillThere \/ SeeBack \/ StillAway
  BY <1>2 DEF XipInv, device, SeeGone, StillThere, SeeBack, StillAway, firmware
<1>3. CASE ReadPage \/ RejectPage \/ Restart \/ BootRejected
  BY <1>3 DEF XipInv, device, ReadPage, RejectPage, Restart, BootRejected, firmware
<1>4. CASE Boot \/ Header \/ Report
  BY <1>4 DEF XipInv, device, Boot, Header, Report, Committing
<1>5. CASE Halt \/ Done
  BY <1>5 DEF XipInv, device, Halt, Done, Committing
<1>6. CASE ExitXip \/ Erase \/ Program
  BY <1>6 DEF XipInv, device, ExitXip, Erase, Program, Committing
<1>7. CASE Reboot \/ Hang \/ Reset \/ UserRecovers
  BY <1>7 DEF XipInv, device, Reboot, Hang, Reset, UserRecovers, Committing
<1>8. CASE UNCHANGED vars
  BY <1>8 DEF XipInv, device, vars, firmware
<1> QED
  BY <1>1, <1>2, <1>3, <1>4, <1>5, <1>6, <1>7, <1>8 DEF Next

(* The commit never wedges the chip: core 1 is halted (halt_core1) before   *)
(* flash_commit_reboot turns XIP off.                                      *)
THEOREM CommitIsSafe == Spec => []NeverWedged
<1>1. XipInv => NeverWedged
  BY DEF XipInv, NeverWedged, Committing
<1> QED
  BY XipInit, XipStep, <1>1, PTL DEF Spec

-----------------------------------------------------------------------------
LEMMA ErasedIsPage == Erased \in Pages /\ Complete(Erased) /\ NoImage \in Images
  BY BoundAssumption DEF Erased, NoImage, Pages, Images, Complete

(* A part of a page is a page. *)
LEMMA RemainsArePages == ASSUME NEW p \in Pages, NEW q \in Remains(p) PROVE q \in Pages
<1>1. p.of \in Images /\ p.magic \in BOOLEAN /\ p.state \in 0 .. 2 /\ p.pairs \in 0 .. Pairs
  BY DEF Pages
<1>2. 0 .. p.pairs \subseteq 0 .. Pairs
  BY <1>1, BoundAssumption
<1>3. /\ {p.of, NoImage} \subseteq Images /\ {p.magic, FALSE} \subseteq BOOLEAN
      /\ {p.state, 0} \subseteq 0 .. 2
  BY <1>1, ErasedIsPage
<1> QED
  BY <1>2, <1>3 DEF Remains, Pages

LEMMA PageInit == Init => PageInv
  BY ErasedIsPage DEF Init, PageInv, NoPage, Committing

LEMMA PageStep == ASSUME k \in 1 .. Len(Langs), session \in 1 .. Sessions,
                         PageInv, [Next]_vars
                  PROVE  PageInv'
<1>1. CASE SeeDrive \/ Restart
  BY <1>1, ErasedIsPage DEF PageInv, SeeDrive, Restart, NoPage, device, firmware, history, Complete
<1>2. CASE NoDrive \/ SeeGone \/ StillThere \/ SeeBack \/ StillAway \/ RejectPage
  BY <1>2 DEF PageInv, NoDrive, SeeGone, StillThere, SeeBack, StillAway, RejectPage,
     device, firmware, history, Complete
<1>3. CASE Copy
  <2>1. Wanted \in Images
    BY BoundAssumption DEF Wanted, Images, Lang
  <2> QED
    BY <1>3, <2>1 DEF PageInv, Copy, firmware, history, Complete
<1>4. CASE ReadPage
  BY <1>4 DEF PageInv, ReadPage, device, firmware, history, Complete
<1>5. CASE Boot \/ BootRejected
  BY <1>5 DEF PageInv, Boot, BootRejected, host, firmware, history, Complete, Committing
<1>6. CASE Header
  <2>1. staged' = [of |-> image, magic |-> TRUE, state |-> 1, pairs |-> 0]
    BY <1>6 DEF Header
  <2>2. staged' \in Pages /\ Complete(staged') /\ staged'.state # 2
    BY <2>1, BoundAssumption DEF PageInv, Pages, Complete
  <2> QED
    BY <1>6, <2>2 DEF PageInv, Header, host, device, history, Complete, Committing
<1>7. CASE Report
  <2>1. staged' = [staged EXCEPT !.pairs = staged.pairs + 1] /\ staged.pairs < Pairs
    BY <1>7 DEF Report
  <2>2. staged' \in Pages /\ staged'.state # 2
    BY <1>7, <2>1, BoundAssumption DEF PageInv, Pages, Report
  <2> QED
    BY <1>7, <2>2 DEF PageInv, Report, host, device, history, Complete, Committing
<1>8. CASE Halt
  BY <1>8 DEF PageInv, Halt, host, device, history, Complete, Committing
<1>9. CASE Done
  <2>1. staged' = [staged EXCEPT !.state = 2] /\ staged.pairs = Pairs
    BY <1>9 DEF PageInv, Done, Committing
  <2>2. staged' \in Pages /\ staged'.pairs = Pairs
    BY <2>1 DEF PageInv, Pages
  <2> QED
    BY <1>9, <2>2 DEF PageInv, Done, host, device, history, Complete, Committing
<1>10. CASE ExitXip \/ Program
  BY <1>10 DEF PageInv, ExitXip, Program, host, device, history, Complete, Committing
<1>11. CASE Erase
  BY <1>11, ErasedIsPage DEF PageInv, Erase, host, device, history, Complete, Committing
<1>12. CASE Reboot \/ UserRecovers
  BY <1>12, ErasedIsPage DEF PageInv, Reboot, UserRecovers, host, history, Complete, Committing
<1>13. CASE Reset
  <2>1. page' \in Pages
    BY <1>13, RemainsArePages DEF PageInv, Reset
  <2>2. ~cut' => ~cut /\ page' = page
    BY <1>13 DEF Reset
  <2> QED
    BY <1>13, <2>1, <2>2, ErasedIsPage DEF PageInv, Reset, host, Complete, Committing
<1>14. CASE Hang
  BY <1>14 DEF PageInv, Hang, host, Complete, Committing
<1>15. CASE UNCHANGED vars
  BY <1>15 DEF PageInv, vars, host, device, firmware, history, Complete
<1> QED
  BY <1>1, <1>2, <1>3, <1>4, <1>5, <1>6, <1>7, <1>8, <1>9, <1>10, <1>11, <1>12, <1>13,
     <1>14, <1>15 DEF Next

(* Where the host is among the sessions and languages. *)
HostInv == k \in 1 .. Len(Langs) /\ session \in 1 .. Sessions

LEMMA HostInit == Init => HostInv
  BY LangAssumption, BoundAssumption DEF Init, HostInv

LEMMA HostStepInv == ASSUME HostInv, [Next]_vars PROVE HostInv'
<1>1. CASE SeeDrive \/ NoDrive \/ Copy \/ SeeGone \/ StillThere \/ SeeBack \/ StillAway \/ RejectPage
  BY <1>1 DEF HostInv, SeeDrive, NoDrive, Copy, SeeGone, StillThere, SeeBack, StillAway, RejectPage
<1>2. CASE ReadPage
  BY <1>2, LangAssumption DEF HostInv, ReadPage
<1>3. CASE Restart
  BY <1>3, LangAssumption, BoundAssumption DEF HostInv, Restart
<1>4. CASE Boot \/ BootRejected \/ Header \/ Report \/ Halt \/ Done
  BY <1>4 DEF HostInv, Boot, BootRejected, Header, Report, Halt, Done, host
<1>5. CASE ExitXip \/ Erase \/ Program \/ Reboot \/ Hang \/ Reset \/ UserRecovers
  BY <1>5 DEF HostInv, ExitXip, Erase, Program, Reboot, Hang, Reset, UserRecovers, host
<1>6. CASE UNCHANGED vars
  BY <1>6 DEF HostInv, vars, host
<1> QED
  BY <1>1, <1>2, <1>3, <1>4, <1>5, <1>6 DEF Next

THEOREM Inductive == Spec => [](HostInv /\ PageInv)
<1>1. HostInv /\ PageInv /\ [Next]_vars => (HostInv /\ PageInv)'
  BY HostStepInv, PageStep DEF HostInv
<1> QED
  BY HostInit, PageInit, <1>1, PTL DEF Spec

(* run_bench takes a page in one place only. *)
LEMMA OnlyReadTakes ==
  ASSUME [Next]_vars, took' \notin {took, NoPage} PROVE ReadPage
<1>1. CASE SeeDrive \/ Restart
  BY <1>1 DEF SeeDrive, Restart
<1>2. CASE NoDrive \/ Copy \/ SeeGone \/ StillThere \/ SeeBack \/ StillAway \/ RejectPage
  BY <1>2 DEF NoDrive, Copy, SeeGone, StillThere, SeeBack, StillAway, RejectPage
<1>3. CASE Boot \/ BootRejected \/ Header \/ Report \/ Halt \/ Done
  BY <1>3 DEF Boot, BootRejected, Header, Report, Halt, Done, host
<1>4. CASE ExitXip \/ Erase \/ Program \/ Reboot \/ Hang \/ Reset \/ UserRecovers
  BY <1>4 DEF ExitXip, Erase, Program, Reboot, Hang, Reset, UserRecovers, host
<1>5. CASE UNCHANGED vars
  BY <1>5 DEF vars, host
<1> QED
  BY <1>1, <1>2, <1>3, <1>4, <1>5 DEF Next

(* What run_bench takes as done has every pair, wherever resets have come:    *)
(* the state word is set after the last _report, and a commit that was cut   *)
(* while it erased or programmed is wiped by the next run of the image.      *)
THEOREM DoneMeansComplete == Spec => DoneIsComplete
<1>1. ASSUME PageInv, [Next]_vars, took' \notin {took, NoPage}, ~cut
      PROVE  took'.pairs = Pairs
  <2>1. ReadPage
    BY <1>1, OnlyReadTakes
  <2>2. took' = page /\ page.state = 2
    BY <2>1 DEF ReadPage, Accepts
  <2> QED
    BY <1>1, <2>2 DEF PageInv, Complete
<1>2. PageInv /\ [Next]_vars
        => [took' \notin {took, NoPage} /\ ~cut => took'.pairs = Pairs]_vars
  BY <1>1
<1> QED
  BY Inductive, <1>2, PTL DEF Spec, DoneIsComplete
-----------------------------------------------------------------------------
(* While every image has been started and has run to its end: what is in    *)
(* flash is the image the host waits for, what is staged was written by it, *)
(* and a device that offers its drive has committed its page.              *)
FreshInv ==
  ~failed =>
    /\ mode # "hung"
    /\ mode = "bootsel" => page.of = image
    /\ fpc \in {"measure"} \cup Committing => staged.of = image
    /\ fpc = "reboot" => page.of = image
    /\ hpc \in {"gone", "back", "read"} => image = Wanted

LEMMA FreshInit == Init => FreshInv
  BY DEF Init, FreshInv, Committing, Erased

(* The host's steps: only Copy changes the image, and only ReadPage and      *)
(* Restart what is wanted, both away from the waits.                        *)
LEMMA FreshHostStep ==
  ASSUME FreshInv, XipInv,
         \/ SeeDrive \/ NoDrive \/ Copy \/ SeeGone \/ StillThere
         \/ SeeBack \/ StillAway \/ ReadPage \/ RejectPage \/ Restart
  PROVE  FreshInv'
<1>1. CASE SeeDrive \/ NoDrive
  BY <1>1 DEF FreshInv, SeeDrive, NoDrive, Wanted, device, firmware, history, Committing
<1>2. CASE Copy
  BY <1>2 DEF FreshInv, XipInv, Copy, Mounted, Wanted, firmware, history, Committing
<1>3. CASE SeeGone \/ StillThere \/ SeeBack
  BY <1>3 DEF FreshInv, SeeGone, StillThere, SeeBack, Wanted, device, firmware, history, Committing
<1>4. CASE StillAway
  BY <1>4 DEF FreshInv, StillAway, Wanted, device, firmware, Committing
<1>5. CASE ReadPage
  BY <1>5 DEF FreshInv, ReadPage, device, firmware, history, Committing
<1>6. CASE RejectPage \/ Restart
  BY <1>6 DEF FreshInv, RejectPage, Restart, device, firmware, history, Committing
<1> QED
  BY <1>1, <1>2, <1>3, <1>4, <1>5, <1>6

LEMMA FreshDeviceStep ==
  ASSUME FreshInv, XipInv, PageInv,
         \/ Boot \/ BootRejected \/ Header \/ Report \/ Halt \/ Done
         \/ ExitXip \/ Erase \/ Program \/ Reboot \/ Hang \/ Reset \/ UserRecovers
  PROVE  FreshInv'
<1>1. CASE Boot \/ BootRejected \/ Hang \/ Reset
  BY <1>1 DEF FreshInv, Boot, BootRejected, Hang, Reset, Wanted, host, history, Committing
<1>2. CASE Header
  BY <1>2 DEF FreshInv, XipInv, Header, Wanted, host, device, history, Committing
<1>3. CASE Report \/ Done
  <2>1. staged'.of = staged.of
    BY <1>3 DEF PageInv, Pages, Report, Done
  <2> QED
    BY <1>3, <2>1 DEF FreshInv, XipInv, Report, Done, Wanted, host, device, history, Committing
<1>4. CASE Halt \/ ExitXip
  BY <1>4 DEF FreshInv, XipInv, Halt, ExitXip, Wanted, host, device, history, Committing
<1>5. CASE Erase \/ Program
  BY <1>5 DEF FreshInv, XipInv, Erase, Program, Wanted, host, device, history, Committing
<1>6. CASE Reboot \/ UserRecovers
  BY <1>6 DEF FreshInv, Reboot, UserRecovers, Wanted, host, history, Committing
<1> QED
  BY <1>1, <1>2, <1>3, <1>4, <1>5, <1>6

(* As long as no image was rejected, reset or hung, the page run_bench      *)
(* takes is the result of the very firmware it has copied, in whatever      *)
(* session an earlier page of the same language was written.               *)
THEOREM PagesAreFresh == Spec => FreshUnlessFailed
<1>1. FreshInv /\ XipInv /\ PageInv /\ [Next]_vars => FreshInv'
  <2>1. FreshInv /\ UNCHANGED vars => FreshInv'
    BY DEF FreshInv, vars, host, device, firmware, history, Wanted
  <2> QED
    BY <2>1, FreshHostStep, FreshDeviceStep DEF Next
<1>2. ASSUME FreshInv, [Next]_vars, took' \notin {took, NoPage}, ~failed
      PROVE  took'.of = Wanted
  <2>1. ReadPage
    BY <1>2, OnlyReadTakes
  <2> QED
    BY <1>2, <2>1 DEF FreshInv, ReadPage, Mounted
<1>3. FreshInv /\ [Next]_vars
        => [took' \notin {took, NoPage} /\ ~failed => took'.of = Wanted]_vars
  BY <1>2
<1> QED
  BY XipInit, XipStep, FreshInit, Inductive, <1>1, <1>3, PTL DEF Spec, FreshUnlessFailed

-----------------------------------------------------------------------------
(* Words: the bits of a byte.  A power of two is known by its number of        *)
(* subsets; tlapm evaluates the small ones.                                *)
LEMMA PowerGrows == ASSUME NEW b \in Nat, 8 <= b PROVE 2^b \in Nat /\ 256 <= 2^b
<1>1. ASSUME NEW n \in Nat
      PROVE  IsFiniteSet(SUBSET (1 .. n)) /\ Cardinality(SUBSET (1 .. n)) = 2^n
  <2>1. IsFiniteSet(1 .. n) /\ Cardinality(1 .. n) = n
    BY FS_Interval
  <2> QED
    BY <2>1, FS_SUBSET
<1>2. SUBSET (1 .. 8) \in SUBSET (SUBSET (1 .. b))
  OBVIOUS
<1>3. Cardinality(SUBSET (1 .. 8)) <= Cardinality(SUBSET (1 .. b))
  BY <1>1, <1>2, FS_Subset
<1>4. Cardinality(SUBSET (1 .. b)) \in Nat
  BY <1>1, FS_CardinalityType
<1>5. 2^8 = 256
  BY SMT
<1> QED
  BY <1>1, <1>3, <1>4, <1>5

(* Bit b of a number below 256. *)
BitOf(b, n) == \/ b = 0 /\ n % 2 = 1
               \/ b = 1 /\ (n \div 2) % 2 = 1
               \/ b = 2 /\ (n \div 4) % 2 = 1
               \/ b = 3 /\ (n \div 8) % 2 = 1
               \/ b = 4 /\ (n \div 16) % 2 = 1
               \/ b = 5 /\ (n \div 32) % 2 = 1
               \/ b = 6 /\ (n \div 64) % 2 = 1
               \/ b = 7 /\ (n \div 128) % 2 = 1

LEMMA LowBit ==
  ASSUME NEW b \in 0 .. 7, NEW n \in Nat
  PROVE  (n \div 2^b) % 2 = 1 <=> BitOf(b, n)
<1>1. /\ 2^0 = 1 /\ 2^1 = 2 /\ 2^2 = 4 /\ 2^3 = 8 /\ 2^4 = 16 /\ 2^5 = 32 /\ 2^6 = 64 /\ 2^7 = 128
  BY SMT
<1>2. n \div 1 = n
  OBVIOUS
<1>3. CASE b = 0
  BY <1>1, <1>2, <1>3 DEF BitOf
<1>4. CASE b = 1
  BY <1>1, <1>4 DEF BitOf
<1>5. CASE b = 2
  BY <1>1, <1>5 DEF BitOf
<1>6. CASE b = 3
  BY <1>1, <1>6 DEF BitOf
<1>7. CASE b = 4
  BY <1>1, <1>7 DEF BitOf
<1>8. CASE b = 5
  BY <1>1, <1>8 DEF BitOf
<1>9. CASE b = 6
  BY <1>1, <1>9 DEF BitOf
<1>10. CASE b = 7
  BY <1>1, <1>10 DEF BitOf
<1> QED
  BY <1>3, <1>4, <1>5, <1>6, <1>7, <1>8, <1>9, <1>10

LEMMA HighBit ==
  ASSUME NEW n \in 0 .. 255, NEW p \in Nat, 256 <= p PROVE ~((n \div p) % 2 = 1)
<1>1. n \div p = 0
  OBVIOUS
<1> QED
  BY <1>1

LEMMA ByteBits == ASSUME NEW n \in 0 .. 255 PROVE \A b : b \in Bits(n) <=> BitOf(b, n)
<1>1. ASSUME NEW b \in 0 .. 30 PROVE (n \div 2^b) % 2 = 1 <=> BitOf(b, n)
  <2>1. CASE b \in 0 .. 7
    <3>1. n \in Nat
      OBVIOUS
    <3> QED
      BY <2>1, <3>1, LowBit, Zenon
  <2>2. CASE b \in 8 .. 30
    <3>1. ~BitOf(b, n)
      BY <2>2 DEF BitOf
    <3>2. b \in Nat /\ 8 <= b
      BY <2>2
    <3> DEFINE p == 2^b
    <3>3. p \in Nat /\ 256 <= p
      BY <3>2, PowerGrows, Zenon
    <3> HIDE DEF p
    <3>4. ~((n \div p) % 2 = 1)
      BY <3>3, HighBit
    <3>5. ~((n \div 2^b) % 2 = 1)
      BY <3>4, Zenon DEF p
    <3> QED
      BY <3>1, <3>5
  <2> QED
    BY <2>1, <2>2
<1>2. ASSUME NEW b, BitOf(b, n) PROVE b \in 0 .. 30
  BY <1>2 DEF BitOf
<1> QED
  BY <1>1, <1>2, Zenon DEF Bits

LEMMA BitTable ==
  /\ Bits(0) = {} /\ Bits(1) = {0} /\ Bits(2) = {1} /\ Bits(3) = {0, 1} /\ Bits(4) = {2}
  /\ Bits(5) = {0, 2} /\ Bits(6) = {1, 2} /\ Bits(7) = 0 .. 2 /\ Bits(8) = {3}
  /\ Bits(31) = 0 .. 4 /\ Bits(53) = {0, 2, 4, 5} /\ Bits(160) = {5, 7}
  /\ Bits(235) = {0, 1, 3, 5, 6, 7}
<1>1. Bits(0) = {} /\ Bits(1) = {0} /\ Bits(2) = {1} 
  BY ByteBits DEF BitOf
<1>2. Bits(3) = {0, 1} /\ Bits(4) = {2} /\ Bits(5) = {0, 2}
  BY ByteBits DEF BitOf
<1>3. Bits(6) = {1, 2} /\ Bits(7) = 0 .. 2 /\ Bits(8) = {3}
  BY ByteBits DEF BitOf
<1>4. Bits(31) = 0 .. 4
  BY ByteBits DEF BitOf
<1>5. Bits(53) = {0, 2, 4, 5}
  BY ByteBits DEF BitOf
<1>6. Bits(160) = {5, 7}
  BY ByteBits DEF BitOf
<1>7. Bits(235) = {0, 1, 3, 5, 6, 7}
  BY ByteBits DEF BitOf
<1> QED
  BY <1>1, <1>2, <1>3, <1>4, <1>5, <1>6, <1>7

(* The words the bootloader writes, and what the fields of a register are then. *)
LEMMA WrittenWords ==
  /\ CTRL0_SPI_TXRX = 16 .. 18
  /\ CTRLR0_ENTER_XIP = {8, 9, 16, 17, 18, 19, 20, 22}
  /\ SPI_CTRLR0_XIP = {1, 5, 13, 29, 31}
<1>1. CTRL0_SPI_TXRX = 16 .. 18
  BY BitTable DEF CTRL0_SPI_TXRX, Compose, CTRLR0, Shl, Span, TMOD_TX_AND_RX, Bit
<1>2. CTRLR0_ENTER_XIP = {8, 9, 16, 17, 18, 19, 20, 22}
  BY BitTable DEF CTRLR0_ENTER_XIP, Compose, CTRLR0, Shl, Span, SPI_FRF_QUAD, TMOD_EEPROM_READ, Bit
<1>3. SPI_CTRLR0_XIP = {1, 5, 13, 29, 31}
  BY BitTable DEF SPI_CTRLR0_XIP, Compose, SPI_CTRLR0, Shl, Span, MODE_CONTINUOUS_READ, INST_L_NONE,
     TRANS_TYPE_2C2A, Bit
<1> QED
  BY <1>1, <1>2, <1>3

LEMMA QuadFields ==
  ASSUME NEW w, w = {8, 9, 16, 17, 18, 19, 20, 22}
  PROVE  /\ Get(w, CTRLR0.SSTE) = {} /\ Get(w, CTRLR0.SPI_FRF) = {1} /\ Get(w, CTRLR0.DFS_32) = 0 .. 4
         /\ Get(w, CTRLR0.CFS) = {} /\ Get(w, CTRLR0.SRL) = {} /\ Get(w, CTRLR0.SLV_OE) = {}
         /\ Get(w, CTRLR0.TMOD) = {0, 1} /\ Get(w, CTRLR0.SCPOL) = {} /\ Get(w, CTRLR0.SCPH) = {}
         /\ Get(w, CTRLR0.FRF) = {} /\ Get(w, CTRLR0.DFS) = {}
  BY DEF Get, Shr, Span, CTRLR0

LEMMA XipFields ==
  ASSUME NEW w, w = {1, 5, 13, 29, 31}
  PROVE  /\ Get(w, SPI_CTRLR0.XIP_CMD) = {5, 7} /\ Get(w, SPI_CTRLR0.SPI_RXDS_EN) = {}
         /\ Get(w, SPI_CTRLR0.INST_DDR_EN) = {} /\ Get(w, SPI_CTRLR0.SPI_DDR_EN) = {}
         /\ Get(w, SPI_CTRLR0.WAIT_CYCLES) = {2} /\ Get(w, SPI_CTRLR0.INST_L) = {}
         /\ Get(w, SPI_CTRLR0.ADDR_L) = {3} /\ Get(w, SPI_CTRLR0.TRANS_TYPE) = {1}
  BY DEF Get, Shr, Span, SPI_CTRLR0

LEMMA QuadForm ==
  ASSUME ssi.ctrlr0 = CTRLR0_ENTER_XIP PROVE QuadMode /\ ~ByteMode
<1> DEFINE w == ssi.ctrlr0
           d == Decode(CTRLR0, w)
           q == [Zero(CTRLR0) EXCEPT !.SPI_FRF = Bits(SPI_FRF_QUAD), !.DFS_32 = Bits(31),
                                     !.TMOD = Bits(TMOD_EEPROM_READ)]
<1>1. w = {8, 9, 16, 17, 18, 19, 20, 22}
  BY WrittenWords
<1> HIDE DEF w
<1>2. \A f \in DOMAIN CTRLR0 : d[f] = Get(w, CTRLR0[f])
  BY DEF Decode
<1> DEFINE v(f) == IF f = "SPI_FRF" THEN {1} ELSE IF f = "DFS_32" THEN 0 .. 4
                   ELSE IF f = "TMOD" THEN {0, 1} ELSE {}
<1>3. \A f \in DOMAIN CTRLR0 : Get(w, CTRLR0[f]) = v(f)
  <2>1. /\ Get(w, CTRLR0.SSTE) = {} /\ Get(w, CTRLR0.SPI_FRF) = {1} /\ Get(w, CTRLR0.DFS_32) = 0 .. 4
        /\ Get(w, CTRLR0.CFS) = {} /\ Get(w, CTRLR0.SRL) = {} /\ Get(w, CTRLR0.SLV_OE) = {}
        /\ Get(w, CTRLR0.TMOD) = {0, 1} /\ Get(w, CTRLR0.SCPOL) = {} /\ Get(w, CTRLR0.SCPH) = {}
        /\ Get(w, CTRLR0.FRF) = {} /\ Get(w, CTRLR0.DFS) = {}
    BY <1>1, QuadFields
  <2>2. DOMAIN CTRLR0 = {"SSTE", "SPI_FRF", "DFS_32", "CFS", "SRL", "SLV_OE", "TMOD", "SCPOL", "SCPH",
                         "FRF", "DFS"}
    BY DEF CTRLR0
  <2> QED
    BY <2>1, <2>2
<1>4. \A f \in DOMAIN CTRLR0 : q[f] = v(f)
  BY BitTable DEF Zero, SPI_FRF_QUAD, TMOD_EEPROM_READ
<1>5. \A f \in DOMAIN CTRLR0 : q[f] = d[f]
  <2> HIDE DEF d, q, v
  <2> QED
    BY <1>2, <1>3, <1>4
<1>6. q = d
  BY <1>5 DEF Zero, Decode
<1>7. d.TMOD # {}
  BY <1>1, <1>2, QuadFields DEF CTRLR0
<1>8. [Zero(CTRLR0) EXCEPT !.DFS_32 = Bits(7), !.TMOD = Bits(TMOD_TX_AND_RX)].TMOD = {}
  BY BitTable DEF Zero, CTRLR0, TMOD_TX_AND_RX
<1> QED
  BY <1>6, <1>7, <1>8 DEF QuadMode, ByteMode, w

LEMMA ByteForm == ASSUME ssi.ctrlr0 = CTRL0_SPI_TXRX PROVE ~QuadMode
<1>1. Get(ssi.ctrlr0, CTRLR0.TMOD) = {}
  BY WrittenWords DEF Get, Shr, Span, CTRLR0
<1>2. Decode(CTRLR0, ssi.ctrlr0).TMOD = {}
  BY <1>1 DEF Decode, CTRLR0
<1>3. [Zero(CTRLR0) EXCEPT !.SPI_FRF = Bits(SPI_FRF_QUAD), !.DFS_32 = Bits(31),
                           !.TMOD = Bits(TMOD_EEPROM_READ)].TMOD = {0, 1}
  BY BitTable DEF Zero, CTRLR0, TMOD_EEPROM_READ
<1> QED
  BY <1>2, <1>3 DEF QuadMode

LEMMA XipForm ==
  ASSUME ssi.ctrlr0 = CTRLR0_ENTER_XIP, ssi.spi_ctrlr0 = SPI_CTRLR0_XIP
  PROVE  XipRead
<1> DEFINE w == ssi.spi_ctrlr0
           f == Decode(SPI_CTRLR0, w)
           d == [f EXCEPT !.XIP_CMD = {}]
           q == [Zero(SPI_CTRLR0) EXCEPT !.ADDR_L = Bits(8), !.WAIT_CYCLES = Bits(4),
                               !.INST_L = Bits(INST_L_NONE), !.TRANS_TYPE = Bits(TRANS_TYPE_2C2A)]
<1>1. w = {1, 5, 13, 29, 31}
  BY WrittenWords
<1> HIDE DEF w
<1>2. \A n \in DOMAIN SPI_CTRLR0 : d[n] = IF n = "XIP_CMD" THEN {} ELSE Get(w, SPI_CTRLR0[n])
  BY DEF Decode
<1> DEFINE v(n) == IF n = "WAIT_CYCLES" THEN {2} ELSE IF n = "ADDR_L" THEN {3}
                   ELSE IF n = "TRANS_TYPE" THEN {1} ELSE {}
<1>3. \A n \in DOMAIN SPI_CTRLR0 : Get(w, SPI_CTRLR0[n]) = IF n = "XIP_CMD" THEN {5, 7} ELSE v(n)
  <2>1. /\ Get(w, SPI_CTRLR0.XIP_CMD) = {5, 7} /\ Get(w, SPI_CTRLR0.SPI_RXDS_EN) = {}
        /\ Get(w, SPI_CTRLR0.INST_DDR_EN) = {} /\ Get(w, SPI_CTRLR0.SPI_DDR_EN) = {}
        /\ Get(w, SPI_CTRLR0.WAIT_CYCLES) = {2} /\ Get(w, SPI_CTRLR0.INST_L) = {}
        /\ Get(w, SPI_CTRLR0.ADDR_L) = {3} /\ Get(w, SPI_CTRLR0.TRANS_TYPE) = {1}
    BY <1>1, XipFields
  <2>2. DOMAIN SPI_CTRLR0 = {"XIP_CMD", "SPI_RXDS_EN", "INST_DDR_EN", "SPI_DDR_EN", "WAIT_CYCLES",
                             "INST_L", "ADDR_L", "TRANS_TYPE"}
    BY DEF SPI_CTRLR0
  <2> QED
    BY <2>1, <2>2
<1>4. \A n \in DOMAIN SPI_CTRLR0 : d[n] = v(n)
  <2> SUFFICES ASSUME NEW n \in DOMAIN SPI_CTRLR0 PROVE d[n] = v(n)
    OBVIOUS
  <2> HIDE DEF f, d, q
  <2>1. CASE n = "XIP_CMD"
    BY <1>2, <2>1
  <2>2. CASE n # "XIP_CMD"
    <3> HIDE DEF v
    <3> QED
      BY <1>2, <1>3, <2>2
  <2> QED
    BY <2>1, <2>2
<1>5. \A n \in DOMAIN SPI_CTRLR0 : q[n] = v(n)
  BY BitTable DEF Zero, INST_L_NONE, TRANS_TYPE_2C2A
<1>6. \A n \in DOMAIN SPI_CTRLR0 : q[n] = d[n]
  <2> HIDE DEF f, d, q, v
  <2> QED
    BY <1>4, <1>5
<1>7. q = d
  BY <1>6 DEF Zero, Decode
<1>8. Get(w, SPI_CTRLR0.XIP_CMD) = MODE_CONTINUOUS_READ
  BY <1>1, XipFields, BitTable DEF MODE_CONTINUOUS_READ
<1> QED
  BY <1>7, <1>8, QuadForm DEF XipRead, Addressing, w

LEMMA ReadyIsQuiet == ASSUME Ready PROVE bus = <<>> /\ tx = <<>>
<1>1. tx # <<>> => 2 \notin Status
  BY BitTable DEF Status, Compose, SR, Shl, Span, Bit
<1>2. bus # <<>> => 0 \in Status
  BY BitTable DEF Status, Compose, SR, Shl, Span, Bit
<1> QED
  BY <1>1, <1>2 DEF Ready

LEMMA StatusBits ==
  /\ Status2 = SREG_DATA <=> flash.qe /\ ~flash.otp /\ ~flash.cmp
  /\ 0 \notin Status1 => ~Busy
  BY BitTable DEF Status1, Status2, SREG_DATA

LEMMA Commands ==
  /\ CMD_WRITE_STATUS \notin {CMD_READ_STATUS, CMD_READ_STATUS2, CMD_WRITE_ENABLE, CMD_READ}
  /\ CMD_READ \notin {CMD_READ_STATUS, CMD_READ_STATUS2, CMD_WRITE_ENABLE}
  /\ CMD_READ_STATUS # CMD_READ_STATUS2
  BY BitTable DEF CMD_WRITE_STATUS, CMD_READ_STATUS, CMD_READ_STATUS2, CMD_WRITE_ENABLE, CMD_READ

LEMMA PadFields ==
  /\ Compose(PAD, [SCHMITT |-> Bits(1)]) = {1}
  /\ \A w : w = Compose(PAD, [DRIVE |-> Bits(DRIVE_8MA), SLEWFAST |-> Bits(1)])
        => Get(w, PAD.DRIVE) = Bits(DRIVE_8MA) /\ Get(w, PAD.SLEWFAST) = Bits(1)
<1>1. Compose(PAD, [SCHMITT |-> Bits(1)]) = {1}
  BY BitTable DEF Compose, PAD, Shl, Span, Bit
<1>2. Compose(PAD, [DRIVE |-> Bits(DRIVE_8MA), SLEWFAST |-> Bits(1)]) = {0, 5}
  BY BitTable DEF Compose, PAD, Shl, Span, Bit, DRIVE_8MA
<1>3. \A w : w = {0, 5} => Get(w, PAD.DRIVE) = {1} /\ Get(w, PAD.SLEWFAST) = {0}
  BY DEF Get, Shr, Span, PAD
<1> QED
  BY <1>1, <1>2, <1>3, BitTable DEF DRIVE_8MA
-----------------------------------------------------------------------------
(* The bootloader: types.  The registers are records of words. *)
SsiTypes ==
  ssi \in [ssienr : Word, ctrlr0 : Word, ctrlr1 : Word, baudr : Word,
           rx_sample_dly : Word, spi_ctrlr0 : Word]

PinTypes ==
  pads \in [SCLK : Word, SD0 : Word, SD1 : Word, SD2 : Word, SD3 : Word, SS : Word]

FifoTypes == tx \in Seq(Word) /\ rx \in Seq(Word) /\ bus \in Seq(Word)

CpuTypes == /\ pc \in Labels /\ lr \in {"bootrom", "caller"} /\ r0 \in Word /\ vtor \in Word
            /\ timely \in BOOLEAN /\ boots \in 0 .. MaxBoots

Types == CpuTypes /\ SsiTypes /\ FifoTypes /\ PinTypes /\ flash \in Flash

LEMMA TypesAreBootTypes == Types => BootTypes
  BY DEF Types, CpuTypes, SsiTypes, FifoTypes, PinTypes, BootTypes

LEMMA AreWords ==
  /\ {} \in Word /\ \A n : Bits(n) \in Word
  /\ \A layout, values : Compose(layout, values) \in Word
  /\ \A v \in Word, w \in Word : Xor(v, w) \in Word /\ v \ w \in Word
<1>1. \A n : Bits(n) \in Word
  BY DEF Bits, Word, Bit
<1>2. \A layout, values : Compose(layout, values) \in Word
  BY DEF Compose, Shl, Word, Bit
<1> QED
  BY <1>1, <1>2 DEF Xor, Word

LEMMA ConstantWords ==
  /\ CMD_WRITE_ENABLE \in Word /\ CMD_READ_STATUS \in Word /\ CMD_READ_STATUS2 \in Word
  /\ CMD_WRITE_STATUS \in Word /\ CMD_READ \in Word /\ MODE_CONTINUOUS_READ \in Word
  /\ SREG_DATA \in Word /\ CTRL0_SPI_TXRX \in Word /\ CTRLR0_ENTER_XIP \in Word
  /\ SPI_CTRLR0_ENTER_XIP \in Word /\ SPI_CTRLR0_XIP \in Word
  /\ Noise \subseteq Word /\ Status1 \in Word /\ Status2 \in Word /\ XIP_BASE \in Word
<1>1. Noise \subseteq Word /\ Status1 \in Word /\ Status2 \in Word /\ XIP_BASE \in Word
  BY DEF Noise, Status1, Status2, XIP_BASE, Word, Bit
<1> QED
  BY <1>1, AreWords
     DEF CMD_WRITE_ENABLE, CMD_READ_STATUS, CMD_READ_STATUS2, CMD_WRITE_STATUS, CMD_READ,
         MODE_CONTINUOUS_READ, SREG_DATA, CTRL0_SPI_TXRX, CTRLR0_ENTER_XIP, SPI_CTRLR0_ENTER_XIP,
         SPI_CTRLR0_XIP

LEMMA ReplyTypes == ASSUME NEW sent PROVE Reply(sent) \subseteq Word
  BY ConstantWords DEF Reply

LEMMA PoppedTypes == ASSUME FifoTypes, NEW n \in Nat \ {0} PROVE Popped(n) \subseteq Word
  BY ConstantWords DEF Popped, FifoTypes

(* Reads of DR0 shorten the RX FIFO. *)
LEMMA Dropped ==
  ASSUME FifoTypes, NEW n \in Nat, Drop(n)
  PROVE  rx' \in Seq(Word) /\ (Len(rx) <= n => rx' = <<>>)
<1>1. CASE n >= Len(rx)
  BY <1>1 DEF Drop, FifoTypes
<1>2. CASE ~(n >= Len(rx))
  <2>1. n + 1 \in 1 .. Len(rx) + 1 /\ Len(rx) \in 0 .. Len(rx)
    BY <1>2 DEF FifoTypes
  <2>2. SubSeq(rx, n + 1, Len(rx)) \in Seq(Word)
    BY <2>1, SubSeqProperties DEF FifoTypes
  <2> QED
    BY <1>2, <2>2 DEF Drop, FifoTypes
<1> QED
  BY <1>1, <1>2

(* What the flash makes of a command, and of the end of a status write. *)
LEMMA FlashTypes ==
  ASSUME flash \in Flash
  PROVE  /\ \A sent : Execute(sent) \in Flash
         /\ \A keep \in BOOLEAN : Written(keep) \in Flash
<1>1. ASSUME NEW sent PROVE Execute(sent) \in Flash
  <2>1. [flash EXCEPT !.wel = TRUE] \in Flash /\ [flash EXCEPT !.cont = TRUE] \in Flash
    BY DEF Flash
  <2>2. [flash EXCEPT !.writing = "first"] \in Flash /\ [flash EXCEPT !.writing = "both"] \in Flash
    BY DEF Flash
  <2> QED
    BY <2>1, <2>2 DEF Execute
<1>2. ASSUME NEW keep \in BOOLEAN PROVE Written(keep) \in Flash
  BY <1>2 DEF Flash, Written
<1> QED
  BY <1>1, <1>2

LEMMA SsiWords ==
  /\ SsiReset \in [ssienr : Word, ctrlr0 : Word, ctrlr1 : Word, baudr : Word,
                   rx_sample_dly : Word, spi_ctrlr0 : Word]
  /\ RomSsi \in [ssienr : Word, ctrlr0 : Word, ctrlr1 : Word, baudr : Word,
                 rx_sample_dly : Word, spi_ctrlr0 : Word]
  BY AreWords, ConstantWords DEF SsiReset, RomSsi

LEMMA PadWords ==
  PadReset \in [SCLK : Word, SD0 : Word, SD1 : Word, SD2 : Word, SD3 : Word, SS : Word]
  BY AreWords DEF PadReset, SCLK_RESET, SD0_RESET, SD1_RESET, SD2_RESET, SD3_RESET, SS_RESET

LEMMA TypesInit == BootInit => Types
<1> SUFFICES ASSUME BootInit PROVE Types
  OBVIOUS
<1>1. CpuTypes
  BY AreWords, BootAssumption DEF BootInit, CpuTypes, Labels
<1>2. SsiTypes /\ FifoTypes /\ PinTypes
  BY SsiWords, PadWords DEF BootInit, SsiTypes, FifoTypes, PinTypes
<1>3. flash \in Flash
  BY DEF BootInit
<1> QED
  BY <1>1, <1>2, <1>3 DEF Types

(* A step of the processor keeps the types; its accesses to the SSI first. *)
LEMMA AccessTypes ==
  ASSUME SsiTypes, FifoTypes, flash \in Flash
  PROVE  /\ Disable => SsiTypes' /\ FifoTypes' /\ flash' \in Flash
         /\ Enable => SsiTypes' /\ FifoTypes' /\ flash' \in Flash
         /\ \A word \in Word : Push(word) => SsiTypes' /\ FifoTypes' /\ flash' \in Flash
<1>1. ASSUME Disable PROVE SsiTypes' /\ FifoTypes' /\ flash' \in Flash
  <2>1. SsiTypes'
    BY <1>1, AreWords DEF Disable, SsiTypes
  <2>2. FifoTypes'
    BY <1>1 DEF Disable, FifoTypes
  <2>3. flash' \in Flash
    BY <1>1, FlashTypes DEF Disable
  <2> QED
    BY <2>1, <2>2, <2>3
<1>2. ASSUME Enable PROVE SsiTypes' /\ FifoTypes' /\ flash' \in Flash
  BY <1>2, AreWords DEF Enable, SsiTypes, FifoTypes
<1>3. ASSUME NEW word \in Word, Push(word) PROVE SsiTypes' /\ FifoTypes' /\ flash' \in Flash
  BY <1>3 DEF Push, SsiTypes, FifoTypes
<1> QED
  BY <1>1, <1>2, <1>3

LEMMA SetupTypes ==
  ASSUME SsiTypes, SetupBytes \/ SetupRead \/ SetupXip PROVE SsiTypes'
<1>1. CASE SetupBytes
  BY <1>1, AreWords, ConstantWords DEF SetupBytes, Configure, SsiTypes
<1>2. CASE SetupRead
  BY <1>2, AreWords, ConstantWords DEF SetupRead, Configure, SsiTypes
<1>3. CASE SetupXip
  BY <1>3, AreWords, ConstantWords DEF SetupXip, Configure, SsiTypes
<1> QED
  BY <1>1, <1>2, <1>3

LEMMA PadStep == ASSUME PinTypes, SetPads PROVE PinTypes'
<1>1. pads.SD0 \ Compose(PAD, [SCHMITT |-> Bits(1)]) \in Word
  BY AreWords DEF PinTypes
<1> QED
  BY <1>1, AreWords DEF SetPads, PinTypes


LEMMA CpuTypesStep == ASSUME Types, Cpu PROVE Types'
<1> USE DEF Types
<1>1. ASSUME NEW here, NEW there \in Labels, At(here, there), CpuKeeps PROVE CpuTypes'
  BY <1>1 DEF At, CpuKeeps, CpuTypes
<1>2. CASE SetPads
  <2>1. CpuTypes'
    BY <1>2, <1>1 DEF SetPads, Labels
  <2> QED
    BY <1>2, <2>1, PadStep DEF SetPads, SsiTypes, FifoTypes, serial
<1>3. ASSUME NEW here, NEW there \in Labels, Stop(here, there) \/ Start(here, there) PROVE Types'
  BY <1>3, <1>1, AccessTypes DEF Stop, Start, PinTypes
<1>4. CASE SetupBytes \/ SetupRead \/ SetupXip
  <2>1. CpuTypes'
    BY <1>4, <1>1 DEF SetupBytes, SetupRead, SetupXip, Labels
  <2> QED
    BY <1>4, <2>1, SetupTypes DEF SetupBytes, SetupRead, SetupXip, Configure, FifoTypes, PinTypes
<1>5. ASSUME NEW here, NEW there \in Labels, NEW word \in Word, Send(here, there, word) PROVE Types'
  BY <1>5, <1>1, AccessTypes DEF Send, PinTypes
<1>6. ASSUME NEW here, NEW there \in Labels, WaitReady(here, there) PROVE Types'
  BY <1>6, <1>1 DEF WaitReady, SsiTypes, FifoTypes, PinTypes, serial
<1>7. ASSUME NEW here, NEW there \in Labels, NEW n \in Nat, Discard(here, there, n) PROVE Types'
  BY <1>7, <1>1, Dropped DEF Discard, SsiTypes, FifoTypes, PinTypes
<1>8. CASE ReadSreg
  <2>1. PICK s \in {"sr2", "sr1"} : SregCommand(s) \/ SregDummy(s) \/ SregWait(s) \/ SregRead(s)
    BY <1>8 DEF ReadSreg
  <2>2. /\ Sreg[s].command \in Word /\ Sreg[s].dummy \in Labels /\ Sreg[s].wait \in Labels
        /\ Sreg[s].read \in Labels /\ Sreg[s].test \in Labels
    BY <2>1, ConstantWords DEF Sreg, Labels
  <2>3. CASE SregRead(s)
    <3>1. r0' \in Word /\ rx' \in Seq(Word)
      BY <2>3, PoppedTypes, Dropped DEF SregRead
    <3> QED
      BY <2>2, <2>3, <3>1 DEF SregRead, At, CpuTypes, SsiTypes, FifoTypes, PinTypes
  <2> QED
    BY <2>1, <2>2, <2>3, <1>5, <1>6 DEF SregCommand, SregDummy, SregWait
<1>9. CASE CompareSreg \/ PollBusy
  BY <1>9 DEF CompareSreg, PollBusy, CpuKeeps, CpuTypes, SsiTypes, FifoTypes, PinTypes, serial, Labels
<1>10. CASE WriteEnable \/ WriteSreg \/ DummyRead
  BY <1>10, <1>5, <1>6, <1>7, ConstantWords, AreWords DEF WriteEnable, WriteSreg, DummyRead, Labels
<1>11. CASE Exit
  <2>1. Xor(XIP_BASE, Bits(256)) \in Word
    BY AreWords, ConstantWords
  <2>2. vtor' = vtor \/ vtor' = Xor(XIP_BASE, Bits(256))
    BY <1>11 DEF Exit
  <2>3. vtor' \in Word
    BY <2>1, <2>2 DEF CpuTypes
  <2> QED
    BY <1>11, <2>3 DEF Exit, CpuTypes, SsiTypes, FifoTypes, PinTypes, serial, Labels
<1> QED
  BY <1>2, <1>3, <1>4, <1>8, <1>9, <1>10, <1>11 DEF Cpu, Labels

LEMMA LineTypesStep ==
  ASSUME Types, ShiftByte \/ ShiftQuad \/ Deselect PROVE SsiTypes' /\ FifoTypes' /\ flash' \in Flash
<1>1. CASE ShiftByte
  <2>1. PICK in \in Reply(bus) : rx' = Append(rx, in)
    BY <1>1 DEF ShiftByte
  <2>2. in \in Word
    BY <2>1, ReplyTypes
  <2> QED
    BY <1>1, <2>1, <2>2 DEF ShiftByte, Types, SsiTypes, FifoTypes
<1>2. CASE ShiftQuad
  <2>1. PICK in \in Noise : rx' = Append(rx, in)
    BY <1>2 DEF ShiftQuad
  <2>2. in \in Word
    BY <2>1, ConstantWords
  <2> QED
    BY <1>2, <2>1, <2>2 DEF ShiftQuad, Types, SsiTypes, FifoTypes
<1>3. CASE Deselect
  BY <1>3, FlashTypes DEF Deselect, Types, SsiTypes, FifoTypes
<1> QED
  BY <1>1, <1>2, <1>3

LEMMA ResetTypes == ASSUME Types, NEW f \in Flash, ResetTo(f) PROVE Types'
<1>1. CpuTypes'
  BY AreWords DEF ResetTo, Types, CpuTypes, Labels
<1> QED
  BY <1>1, SsiWords, PadWords DEF ResetTo, Types, SsiTypes, FifoTypes, PinTypes

LEMMA ChipResetIsReset == ASSUME flash \in Flash, ChipReset PROVE \E f \in Flash : ResetTo(f)
  BY FlashTypes DEF ChipReset

LEMMA PowerCutIsReset == ASSUME flash \in Flash, PowerCut PROVE \E f \in Flash : ResetTo(f)
<1>1. PICK qe \in BOOLEAN, cmp \in BOOLEAN, prot \in BOOLEAN :
        ResetTo([flash EXCEPT !.qe = qe, !.cmp = cmp, !.prot = prot, !.wel = FALSE,
                              !.writing = "no", !.cont = FALSE])
  BY DEF PowerCut, Flash
<1>2. [flash EXCEPT !.qe = qe, !.cmp = cmp, !.prot = prot, !.wel = FALSE,
                    !.writing = "no", !.cont = FALSE] \in Flash
  BY DEF Flash
<1> QED
  BY <1>1, <1>2

LEMMA EnterTypes == ASSUME Types, NEW from \in {"bootrom", "caller"}, Enter(from) PROVE Types'
<1>1. CpuTypes'
  BY BootAssumption DEF Enter, Types, CpuTypes, Labels
<1>2. FifoTypes'
  <2>1. <<{}>> \in Seq(Word)
    BY AreWords
  <2>2. (rx' = <<>> \/ rx' = <<{}>>) /\ tx' = <<>> /\ bus' = <<>>
    BY DEF Enter
  <2>3. <<>> \in Seq(Word)
    OBVIOUS
  <2> QED
    BY <2>1, <2>2, <2>3, Zenon DEF FifoTypes
<1>3. flash' \in Flash
  BY DEF Enter, Types, Flash
<1> QED
  BY <1>1, <1>2, <1>3, SsiWords DEF Enter, Types, SsiTypes, PinTypes

LEMMA TypesStep == ASSUME Types, [BootNext]_bootVars PROVE Types'
<1>1. CASE Cpu
  BY <1>1, CpuTypesStep
<1>2. CASE Shift \/ Select
  BY <1>2, LineTypesStep DEF Shift, Select, cpu, Types, CpuTypes, PinTypes
<1>3. CASE Settle
  <2>1. flash' \in Flash
    <3>1. PICK keep \in BOOLEAN : flash' = Written(keep)
      BY <1>3 DEF Settle, FlashDone
    <3> QED
      BY <3>1, FlashTypes DEF Types
  <2> QED
    BY <1>3, <2>1 DEF Settle, FlashDone, serial, cpu, Types, CpuTypes, SsiTypes, FifoTypes, PinTypes
<1>4. CASE FromRom \/ FromCaller
  BY <1>4, EnterTypes DEF FromRom, FromCaller
<1>5. CASE ChipReset \/ PowerCut
  BY <1>5, ResetTypes, ChipResetIsReset, PowerCutIsReset DEF Types
<1>6. CASE UNCHANGED bootVars
  BY <1>6 DEF bootVars, serial, cpu, Types, CpuTypes, SsiTypes, FifoTypes, PinTypes
<1> QED
  BY <1>1, <1>2, <1>3, <1>4, <1>5, <1>6 DEF BootNext

(* The registers, FIFOs and pads hold words and the flash is a flash.        *)
THEOREM BootStateIsTyped == BootSpec => []BootTypes
  BY TypesInit, TypesStep, TypesAreBootTypes, PTL DEF BootSpec

-----------------------------------------------------------------------------
(* The pads: as after a reset until the bootloader has set them. *)
PadInv ==
  /\ pads.SS = SS_RESET /\ pads.SD0 \in {SD0_RESET, SD0_RESET \ {1}}
  /\ pc \notin {"off", "pads"} => PadsSet

LEMMA ResetPads == PadReset.SS = SS_RESET /\ PadReset.SD0 = SD0_RESET
  BY DEF PadReset

LEMMA SetPadsSets == ASSUME PinTypes, PadInv, SetPads PROVE PadInv'
<1> DEFINE sd == pads.SD0 \ Compose(PAD, [SCHMITT |-> Bits(1)])
           clk == Compose(PAD, [DRIVE |-> Bits(DRIVE_8MA), SLEWFAST |-> Bits(1)])
<1>1. sd = SD0_RESET \ {1}
  BY PadFields DEF PadInv
<1>2. Get(clk, PAD.DRIVE) = Bits(DRIVE_8MA) /\ Get(clk, PAD.SLEWFAST) = Bits(1)
  BY PadFields
<1> HIDE DEF sd, clk
<1>3. pads' = [pads EXCEPT !.SCLK = clk, !.SD0 = sd, !.SD1 = sd, !.SD2 = sd, !.SD3 = sd]
  BY DEF SetPads, sd, clk
<1>4. /\ pads'.SCLK = clk /\ pads'.SS = SS_RESET
      /\ pads'.SD0 = sd /\ pads'.SD1 = sd /\ pads'.SD2 = sd /\ pads'.SD3 = sd
  BY <1>3 DEF PinTypes, PadInv
<1>5. /\ PadReset.SS = SS_RESET /\ PadReset.SD0 = SD0_RESET /\ PadReset.SD1 = SD0_RESET
      /\ PadReset.SD2 = SD0_RESET /\ PadReset.SD3 = SD0_RESET
  BY DEF PadReset, SD0_RESET, SD1_RESET, SD2_RESET, SD3_RESET
<1>6. \A p \in {"SD0", "SD1", "SD2", "SD3", "SS"} :
        pads'[p] = PadReset[p] \ (IF p = "SS" THEN {} ELSE {1})
  BY <1>1, <1>4, <1>5
<1>7. PadsSet'
  BY <1>2, <1>4, <1>6 DEF PadsSet
<1> QED
  BY <1>1, <1>4, <1>7 DEF PadInv

LEMMA OthersKeepPads == ASSUME Cpu PROVE SetPads \/ (UNCHANGED pads /\ pc \notin {"off", "pads"})
<1>1. CASE ReadSreg
  BY <1>1 DEF ReadSreg, SregCommand, SregDummy, SregWait, SregRead, Send, WaitReady, At, Sreg
<1>2. CASE ~ReadSreg
  BY <1>2 DEF Cpu, Stop, Start, SetupBytes, CompareSreg, WriteEnable, WriteSreg, PollBusy, SetupRead,
              DummyRead, SetupXip, Exit, Send, WaitReady, Discard, At
<1> QED
  BY <1>1, <1>2

LEMMA PadStepInv == ASSUME Types, PadInv, [BootNext]_bootVars PROVE PadInv'
<1>1. CASE Cpu
  BY <1>1, OthersKeepPads, SetPadsSets DEF PadInv, PadsSet, Types
<1>2. CASE Shift \/ Select \/ Settle \/ UNCHANGED bootVars
  BY <1>2 DEF Shift, Select, Settle, bootVars, cpu, PadInv, PadsSet
<1>3. CASE FromRom \/ FromCaller
  BY <1>3 DEF FromRom, FromCaller, Enter, PadInv
<1>4. CASE ChipReset \/ PowerCut
  <2>1. pads' = PadReset /\ pc' = "off"
    BY <1>4 DEF ChipReset, PowerCut, ResetTo
  <2> QED
    BY <2>1, ResetPads DEF PadInv
<1> QED
  BY <1>1, <1>2, <1>3, <1>4 DEF BootNext

-----------------------------------------------------------------------------
(* The form of the SSI by place, in a boot that is not held up. *)
BytePlaces == {"sr2", "sr2.dummy", "sr2.wait", "sr2.read", "sr2.test", "wren", "wren.wait",
               "wren.drop", "wrsr", "wrsr.1", "wrsr.2", "wrsr.wait", "wrsr.drop",
               "sr1", "sr1.dummy", "sr1.wait", "sr1.read", "sr1.test", "stop"}
QuadPlaces == {"eb", "a0", "eb.wait", "eb.stop"}
XipPlaces  == {"exit", "run", "returned"}

FormInv ==
  /\ pc \in {"off", "bytes", "enable", "read", "read.enable", "xip", "xip.enable"} => ~Enabled
  /\ pc \in BytePlaces \cup QuadPlaces \cup XipPlaces => Enabled
  /\ pc \in BytePlaces \cup {"enable"} => ssi.ctrlr0 = CTRL0_SPI_TXRX
  /\ pc \in QuadPlaces \cup XipPlaces \cup {"read.enable", "xip", "xip.enable"} =>
       ssi.ctrlr0 = CTRLR0_ENTER_XIP
  /\ pc \in XipPlaces \cup {"xip.enable"} => ssi.spi_ctrlr0 = SPI_CTRLR0_XIP

LEMMA Configured ==
  ASSUME SsiTypes, FormInv, SetupBytes \/ SetupRead \/ SetupXip PROVE FormInv'
<1> USE DEF FormInv, Enabled, BytePlaces, QuadPlaces, XipPlaces, At, Configure, SsiTypes
<1>1. CASE SetupBytes
  BY <1>1 DEF SetupBytes
<1>2. CASE SetupRead
  BY <1>2 DEF SetupRead
<1>3. CASE SetupXip
  BY <1>3 DEF SetupXip
<1> QED
  BY <1>1, <1>2, <1>3

LEMMA Switched ==
  ASSUME SsiTypes, FormInv,
         \/ Stop("disable", "bytes") \/ Stop("stop", "read") \/ Stop("eb.stop", "xip")
         \/ Start("enable", "sr2") \/ Start("read.enable", "eb") \/ Start("xip.enable", "exit")
  PROVE  FormInv'
<1> USE BitTable DEF FormInv, Enabled, BytePlaces, QuadPlaces, XipPlaces, At, Stop, Start, Disable, Enable, SsiTypes
<1>1. CASE Stop("disable", "bytes")
  BY <1>1
<1>2. CASE Stop("stop", "read")
  BY <1>2
<1>3. CASE Stop("eb.stop", "xip")
  BY <1>3
<1>4. CASE Start("enable", "sr2")
  BY <1>4
<1>5. CASE Start("read.enable", "eb")
  BY <1>5
<1>6. CASE Start("xip.enable", "exit")
  BY <1>6
<1> QED
  BY <1>1, <1>2, <1>3, <1>4, <1>5, <1>6

(* All other steps of the processor leave the SSI as it is and stay where it   *)
(* has this form.                                                          *)
LEMMA FormKept ==
  ASSUME FormInv, UNCHANGED ssi,
         \/ pc = "pads" /\ pc' = "disable"
         \/ pc \in BytePlaces /\ pc' \in BytePlaces
         \/ pc \in QuadPlaces /\ pc' \in QuadPlaces
         \/ pc \in XipPlaces /\ pc' \in XipPlaces
         \/ UNCHANGED pc
  PROVE  FormInv'
  BY DEF FormInv, Enabled, BytePlaces, QuadPlaces, XipPlaces

LEMMA FormCpuStep == ASSUME SsiTypes, FormInv, Cpu PROVE FormInv'
<1>1. CASE SetPads
  BY <1>1, FormKept DEF SetPads, At, serial
<1>2. CASE ReadSreg
  <2>1. PICK s \in {"sr2", "sr1"} : SregCommand(s) \/ SregDummy(s) \/ SregWait(s) \/ SregRead(s)
    BY <1>2 DEF ReadSreg
  <2>2. /\ s \in BytePlaces /\ Sreg[s].dummy \in BytePlaces /\ Sreg[s].wait \in BytePlaces
        /\ Sreg[s].read \in BytePlaces /\ Sreg[s].test \in BytePlaces
    BY <2>1 DEF Sreg, BytePlaces
  <2>3. UNCHANGED ssi
    BY <2>1 DEF SregCommand, SregDummy, SregWait, SregRead, Send, Push, WaitReady, serial
  <2>4. pc \in BytePlaces /\ pc' \in BytePlaces
    BY <2>1, <2>2 DEF SregCommand, SregDummy, SregWait, SregRead, Send, WaitReady, At
  <2> QED
    BY <2>3, <2>4, FormKept
<1>3. CASE CompareSreg \/ PollBusy
  <2>1. UNCHANGED ssi /\ pc \in BytePlaces /\ pc' \in BytePlaces
    BY <1>3 DEF CompareSreg, PollBusy, serial, BytePlaces
  <2> QED
    BY <2>1, FormKept
<1>4. CASE WriteEnable \/ WriteSreg
  <2>1. UNCHANGED ssi /\ pc \in BytePlaces /\ pc' \in BytePlaces
    BY <1>4 DEF WriteEnable, WriteSreg, Send, Push, WaitReady, Discard, At, serial, BytePlaces
  <2> QED
    BY <2>1, FormKept
<1>5. CASE DummyRead
  <2>1. UNCHANGED ssi /\ pc \in QuadPlaces /\ pc' \in QuadPlaces
    BY <1>5 DEF DummyRead, Send, Push, WaitReady, At, serial, QuadPlaces
  <2> QED
    BY <2>1, FormKept
<1>6. CASE Exit
  <2>1. UNCHANGED ssi /\ pc \in XipPlaces /\ pc' \in XipPlaces
    BY <1>6 DEF Exit, serial, XipPlaces
  <2> QED
    BY <2>1, FormKept
<1> QED
  BY <1>1, <1>2, <1>3, <1>4, <1>5, <1>6, Configured, Switched DEF Cpu

(* Steps that begin a boot, or end one early. *)
Restarts == FromRom \/ FromCaller \/ ChipReset \/ PowerCut

LEMMA OthersKeepTimely ==
  ASSUME [BootNext]_bootVars PROVE Restarts \/ UNCHANGED timely
<1>1. CASE Cpu
  <2>1. CASE ReadSreg
    BY <2>1 DEF ReadSreg, SregCommand, SregDummy, SregWait, SregRead, Send, WaitReady, CpuKeeps
  <2>2. CASE ~ReadSreg
    BY <1>1, <2>2 DEF Cpu, SetPads, Stop, Start, SetupBytes, CompareSreg, WriteEnable, WriteSreg, PollBusy,
                SetupRead, DummyRead, SetupXip, Exit, Send, WaitReady, Discard, CpuKeeps
  <2> QED
    BY <2>1, <2>2
<1> QED
  BY <1>1 DEF BootNext, Restarts, Shift, Select, Settle, cpu, bootVars

(* After a reset, and on entry. *)
LEMMA Restarted ==
  ASSUME Restarts
  PROVE  /\ pc' = "pads" \/ (pc' = "off" /\ ssi' = SsiReset /\ rx' = <<>>)
         /\ tx' = <<>> /\ bus' = <<>>
  BY DEF Restarts, FromRom, FromCaller, Enter, ChipReset, PowerCut, ResetTo

LEMMA FormRestarts == ASSUME Restarts PROVE FormInv'
  BY Restarted DEF FormInv, Enabled, SsiReset, BytePlaces, QuadPlaces, XipPlaces

LEMMA LineKeepsForm ==
  ASSUME FormInv, Shift \/ Select \/ Settle \/ UNCHANGED bootVars PROVE FormInv'
<1>1. UNCHANGED <<ssi, pc>>
  BY DEF Shift, ShiftByte, ShiftQuad, Select, Deselect, Settle, FlashDone, bootVars, serial, cpu
<1> QED
  BY <1>1, FormKept

-----------------------------------------------------------------------------
(* What is on its way, in a boot that is not held up.  From one deselected     *)
(* chip to the next: the frames pushed at a place.                          *)
Script(p) ==
  IF p = "sr2.dummy" THEN <<CMD_READ_STATUS2>>
  ELSE IF p = "sr2.wait" THEN <<CMD_READ_STATUS2, CMD_READ_STATUS2>>
  ELSE IF p = "sr1.dummy" THEN <<CMD_READ_STATUS>>
  ELSE IF p = "sr1.wait" THEN <<CMD_READ_STATUS, CMD_READ_STATUS>>
  ELSE IF p = "wren.wait" THEN <<CMD_WRITE_ENABLE>>
  ELSE IF p = "wrsr.1" THEN <<CMD_WRITE_STATUS>>
  ELSE IF p = "wrsr.2" THEN <<CMD_WRITE_STATUS, {}>>
  ELSE IF p = "wrsr.wait" THEN <<CMD_WRITE_STATUS, {}, SREG_DATA>>
  ELSE <<>>

DummyFrames == <<CMD_READ, MODE_CONTINUOUS_READ>>

Pushed  == {"sr2.dummy", "sr1.dummy", "wrsr.1", "wrsr.2"}
Waiting == {"sr2.wait", "sr1.wait", "wren.wait", "wrsr.wait"}

(* The SSI sends what has been pushed; for every frame out one came in. *)
Sending == bus \o tx = Script(pc) /\ Len(rx) = Len(bus)
Quiet   == bus = <<>> /\ tx = <<>>

(* How many frames a place finds in the RX FIFO of a deselected chip. *)
Left(p) ==
  IF p \in {"sr2.wait", "sr2.read", "sr1.wait", "sr1.read"} THEN 2
  ELSE IF p \in {"wren.wait", "wren.drop"} THEN 1
  ELSE IF p \in {"wrsr.wait", "wrsr.drop"} THEN 3
  ELSE 0

LineInv ==
  /\ pc \in Pushed => Sending
  /\ pc \in Waiting => Sending \/ (Quiet /\ Len(rx) = Left(pc))
  /\ pc = "a0" => bus = <<>> /\ tx = <<CMD_READ>>
  /\ pc = "eb.wait" => \/ bus = <<>> /\ tx = DummyFrames
                       \/ bus = DummyFrames /\ tx = <<>>
                       \/ Quiet
  /\ pc \notin Pushed \cup Waiting \cup {"a0", "eb.wait"} => Quiet
  /\ pc \notin Pushed \cup Waiting \cup QuadPlaces \cup XipPlaces \cup {"pads", "disable"} =>
       Len(rx) = Left(pc)

LEMMA Scripts ==
  /\ Script("sr2.dummy") = <<CMD_READ_STATUS2>>
  /\ Script("sr2.wait") = <<CMD_READ_STATUS2, CMD_READ_STATUS2>>
  /\ Script("sr1.dummy") = <<CMD_READ_STATUS>>
  /\ Script("sr1.wait") = <<CMD_READ_STATUS, CMD_READ_STATUS>>
  /\ Script("wren.wait") = <<CMD_WRITE_ENABLE>>
  /\ Script("wrsr.1") = <<CMD_WRITE_STATUS>>
  /\ Script("wrsr.2") = <<CMD_WRITE_STATUS, {}>>
  /\ Script("wrsr.wait") = <<CMD_WRITE_STATUS, {}, SREG_DATA>>
  BY DEF Script

LEMMA Tuples ==
  ASSUME NEW S, NEW a \in S, NEW b \in S, NEW c \in S
  PROVE  /\ Append(<<>>, a) = <<a>> /\ Append(<<a>>, b) = <<a, b>>
         /\ Append(<<a, b>>, c) = <<a, b, c>>
<1>1. /\ <<>> \in Seq(S) /\ <<a>> \in Seq(S) /\ <<a, b>> \in Seq(S) /\ <<a, b, c>> \in Seq(S)
      /\ Len(<<>>) = 0 /\ Len(<<a>>) = 1 /\ Len(<<a, b>>) = 2 /\ Len(<<a, b, c>>) = 3
  OBVIOUS
<1>2. Append(<<>>, a) = <<a>>
  BY <1>1
<1>3. Append(<<a>>, b) = <<a, b>>
  <2> DEFINE s == Append(<<a>>, b)
             t == <<a, b>>
  <2>1. s \in Seq(S) /\ Len(s) = 2 /\ s[1] = a /\ s[2] = b
    BY <1>1, AppendProperties
  <2>2. t \in Seq(S) /\ Len(t) = 2 /\ t[1] = a /\ t[2] = b
    BY <1>1
  <2> HIDE DEF s, t
  <2>3. \A i \in 1 .. Len(s) : s[i] = t[i]
    BY <2>1, <2>2
  <2>4. s = t
    BY <2>1, <2>2, <2>3, SeqEqual
  <2> QED
    BY <2>4, Zenon DEF s, t
<1>4. Append(<<a, b>>, c) = <<a, b, c>>
  <2> DEFINE s == Append(<<a, b>>, c)
             t == <<a, b, c>>
  <2>1. s \in Seq(S) /\ Len(s) = 3 /\ s[1] = a /\ s[2] = b /\ s[3] = c
    BY <1>1, AppendProperties
  <2>2. t \in Seq(S) /\ Len(t) = 3 /\ t[1] = a /\ t[2] = b /\ t[3] = c
    BY <1>1
  <2> HIDE DEF s, t
  <2>3. \A i \in 1 .. Len(s) : s[i] = t[i]
    BY <2>1, <2>2
  <2>4. s = t
    BY <2>1, <2>2, <2>3, SeqEqual
  <2> QED
    BY <2>4, Zenon DEF s, t
<1> QED
  BY <1>2, <1>3, <1>4

LEMMA ScriptGrows ==
  /\ Script("sr2.dummy") = Append(<<>>, CMD_READ_STATUS2)
  /\ Script("sr2.wait") = Append(Script("sr2.dummy"), CMD_READ_STATUS2)
  /\ Script("sr1.dummy") = Append(<<>>, CMD_READ_STATUS)
  /\ Script("sr1.wait") = Append(Script("sr1.dummy"), CMD_READ_STATUS)
  /\ Script("wren.wait") = Append(<<>>, CMD_WRITE_ENABLE)
  /\ Script("wrsr.1") = Append(<<>>, CMD_WRITE_STATUS)
  /\ Script("wrsr.2") = Append(Script("wrsr.1"), {})
  /\ Script("wrsr.wait") = Append(Script("wrsr.2"), SREG_DATA)
<1> DEFINE One(a) == Append(<<>>, a) = <<a>>
           Two(a, b) == Append(<<a>>, b) = <<a, b>>
           Three(a, b, c) == Append(<<a, b>>, c) = <<a, b, c>>
<1>1. \A a, b, c \in Word : One(a) /\ Two(a, b) /\ Three(a, b, c)
  BY Tuples
<1>2. /\ One(CMD_READ_STATUS2) /\ Two(CMD_READ_STATUS2, CMD_READ_STATUS2)
      /\ One(CMD_READ_STATUS) /\ Two(CMD_READ_STATUS, CMD_READ_STATUS)
      /\ One(CMD_WRITE_ENABLE)
      /\ One(CMD_WRITE_STATUS) /\ Two(CMD_WRITE_STATUS, {}) /\ Three(CMD_WRITE_STATUS, {}, SREG_DATA)
  <2> HIDE DEF One, Two, Three
  <2> QED
    BY <1>1, ConstantWords, AreWords
<1> QED
  BY <1>2, Scripts

(* A full script has as many frames as it leaves in the RX FIFO. *)
LEMMA ScriptLengths ==
  ASSUME NEW p \in Waiting PROVE Script(p) # <<>> /\ Len(Script(p)) = Left(p) /\ Left(p) > 0
  BY Scripts DEF Waiting, Left

LEMMA Nothing == ASSUME FifoTypes PROVE /\ bus = <<>> => bus \o tx = tx
                                        /\ tx = <<>> => bus \o tx = bus
                                        /\ Len(rx) \in Nat /\ Len(bus) \in Nat
                                        /\ (Len(rx) = 0 <=> rx = <<>>)
  BY ConcatEmptySeq, EmptySeq DEF FifoTypes

(* A push adds to what is on its way, a shift leaves it as it is. *)
LEMMA PushSends ==
  ASSUME FifoTypes, Enabled, NEW word \in Word, Push(word)
  PROVE  bus' \o tx' = Append(bus \o tx, word) /\ UNCHANGED <<ssi, rx, bus, flash>>
<1>1. bus \in Seq(Word) /\ tx \in Seq(Word) /\ tx' = Append(tx, word) /\ bus' = bus
  BY DEF FifoTypes, Push
<1>2. bus \o Append(tx, word) = Append(bus \o tx, word)
  BY <1>1
<1> QED
  BY <1>1, <1>2 DEF Push

LEMMA ShiftSends ==
  ASSUME FifoTypes, ShiftByte
  PROVE  /\ bus' \o tx' = bus \o tx /\ Len(bus') = Len(bus) + 1 /\ Len(rx') = Len(rx) + 1
         /\ bus' # <<>>
<1>1. /\ bus \in Seq(Word) /\ tx \in Seq(Word) /\ tx # <<>>
      /\ bus' = Append(bus, Head(tx)) /\ tx' = Tail(tx)
  BY DEF FifoTypes, ShiftByte
<1>2. Append(bus, Head(tx)) \o Tail(tx) = bus \o tx
  BY <1>1
<1>3. Len(rx') = Len(rx) + 1
  BY DEF FifoTypes, ShiftByte
<1> QED
  BY <1>1, <1>2, <1>3

LEMMA StartSending ==
  ASSUME FifoTypes, Enabled, Quiet, Len(rx) = 0, NEW word \in Word, Push(word),
         Script(pc') = Append(<<>>, word)
  PROVE  Sending'
<1>1. bus \o tx = <<>> /\ bus = <<>>
  BY Nothing DEF Quiet
<1> QED
  BY <1>1, PushSends DEF Sending

LEMMA GoOnSending ==
  ASSUME FifoTypes, Enabled, Sending, NEW word \in Word, Push(word),
         Script(pc') = Append(Script(pc), word)
  PROVE  Sending'
  BY PushSends DEF Sending

(* The processor pushes, ... *)
LEMMA FirstFrame ==
  ASSUME FifoTypes, FormInv, LineInv, NEW here \in {"sr2", "sr1", "wren", "wrsr"},
         NEW there \in Pushed \cup Waiting, NEW word \in Word,
         Script(there) = Append(<<>>, word), Send(here, there, word)
  PROVE  LineInv' /\ Sending'
<1>1. pc = here /\ pc' = there /\ Push(word)
  BY DEF Send, At
<1>2. Enabled /\ Quiet /\ Len(rx) = 0
  BY <1>1 DEF FormInv, BytePlaces, LineInv, Pushed, Waiting, QuadPlaces, XipPlaces, Left
<1>3. Sending'
  BY <1>1, <1>2, StartSending
<1> QED
  BY <1>1, <1>3 DEF LineInv, Pushed, Waiting, QuadPlaces, XipPlaces

LEMMA NextFrame ==
  ASSUME FifoTypes, FormInv, LineInv, NEW here \in Pushed,
         NEW there \in Pushed \cup Waiting, NEW word \in Word,
         Script(there) = Append(Script(here), word), Send(here, there, word)
  PROVE  LineInv' /\ Sending'
<1>1. pc = here /\ pc' = there /\ Push(word)
  BY DEF Send, At
<1>2. Enabled /\ Sending
  BY <1>1 DEF FormInv, BytePlaces, LineInv, Pushed
<1>3. Sending'
  BY <1>1, <1>2, GoOnSending
<1> QED
  BY <1>1, <1>3 DEF LineInv, Pushed, Waiting, QuadPlaces, XipPlaces

LEMMA DummyFramesPushed ==
  ASSUME FifoTypes, FormInv, LineInv,
         Send("eb", "a0", CMD_READ) \/ Send("a0", "eb.wait", MODE_CONTINUOUS_READ)
  PROVE  LineInv' /\ ~Quiet'
<1>1. /\ Append(<<>>, CMD_READ) = <<CMD_READ>>
      /\ Append(<<CMD_READ>>, MODE_CONTINUOUS_READ) = DummyFrames
  BY Tuples, ConstantWords DEF DummyFrames
<1>2. <<CMD_READ>> # <<>> /\ DummyFrames # <<>>
  BY DEF DummyFrames
<1>3. CASE Send("eb", "a0", CMD_READ)
  <2>1. pc = "eb" /\ pc' = "a0" /\ Push(CMD_READ)
    BY <1>3 DEF Send, At
  <2>2. Enabled /\ bus = <<>> /\ tx = <<>>
    BY <2>1 DEF FormInv, QuadPlaces, LineInv, Quiet, Pushed, Waiting
  <2>3. bus' = <<>> /\ tx' = <<CMD_READ>>
    BY <1>1, <2>1, <2>2 DEF Push
  <2> QED
    BY <1>2, <2>1, <2>3 DEF LineInv, Quiet, Pushed, Waiting, QuadPlaces
<1>4. CASE Send("a0", "eb.wait", MODE_CONTINUOUS_READ)
  <2>1. pc = "a0" /\ pc' = "eb.wait" /\ Push(MODE_CONTINUOUS_READ)
    BY <1>4 DEF Send, At
  <2>2. Enabled /\ bus = <<>> /\ tx = <<CMD_READ>>
    BY <2>1 DEF FormInv, QuadPlaces, LineInv
  <2>3. bus' = <<>> /\ tx' = DummyFrames
    BY <1>1, <2>1, <2>2 DEF Push
  <2> QED
    BY <1>2, <2>1, <2>3 DEF LineInv, Quiet, Pushed, Waiting, QuadPlaces
<1> QED
  BY <1>3, <1>4

(* ... waits for the chip select to rise, ... *)
LEMMA NotSending ==
  ASSUME FifoTypes, NEW p \in Waiting, pc = p, Quiet PROVE ~Sending
  BY Nothing, ScriptLengths DEF Sending, Quiet

LEMMA WaitEnds ==
  ASSUME FifoTypes, LineInv, NEW here \in Waiting,
         NEW there \in {"sr2.read", "sr1.read", "wren.drop", "wrsr.drop"},
         Left(there) = Left(here), WaitReady(here, there)
  PROVE  LineInv' /\ Quiet /\ Len(rx) = Left(here)
<1>1. pc = here /\ pc' = there /\ Quiet /\ UNCHANGED <<tx, rx, bus>>
  BY ReadyIsQuiet DEF WaitReady, At, serial, Quiet
<1>2. Len(rx) = Left(here)
  BY <1>1, NotSending DEF LineInv
<1> QED
  BY <1>1, <1>2 DEF LineInv, Quiet, Pushed, Waiting, QuadPlaces, XipPlaces

(* ... and takes what has come in. *)
LEMMA FramesTaken ==
  ASSUME FifoTypes, LineInv, NEW here \in {"sr2.read", "sr1.read", "wren.drop", "wrsr.drop"},
         NEW there \in {"sr2.test", "sr1.test", "wrsr", "sr1"},
         At(here, there), Drop(Left(here)), UNCHANGED <<tx, bus>>
  PROVE  LineInv' /\ Len(rx) = Left(here)
<1>1. pc = here /\ pc' = there /\ Quiet /\ Len(rx) = Left(here) /\ Left(there) = 0
  BY DEF At, LineInv, Pushed, Waiting, QuadPlaces, XipPlaces, Left
<1>2. Left(here) \in Nat
  BY DEF Left
<1>3. rx' = <<>> /\ Len(rx') = 0
  BY <1>1, <1>2, Dropped
<1> QED
  BY <1>1, <1>3 DEF LineInv, Quiet, Pushed, Waiting, QuadPlaces, XipPlaces

LEMMA LineReadSreg == ASSUME Types, FormInv, LineInv, ReadSreg PROVE LineInv'
<1> USE ConstantWords, ScriptGrows DEF Types
<1>1. /\ Sreg["sr2"].command = CMD_READ_STATUS2 /\ Sreg["sr1"].command = CMD_READ_STATUS
      /\ Sreg["sr2"].dummy = "sr2.dummy" /\ Sreg["sr1"].dummy = "sr1.dummy"
      /\ Sreg["sr2"].wait = "sr2.wait" /\ Sreg["sr1"].wait = "sr1.wait"
      /\ Sreg["sr2"].read = "sr2.read" /\ Sreg["sr1"].read = "sr1.read"
      /\ Sreg["sr2"].test = "sr2.test" /\ Sreg["sr1"].test = "sr1.test"
  BY DEF Sreg
<1>2. PICK s \in {"sr2", "sr1"} : SregCommand(s) \/ SregDummy(s) \/ SregWait(s) \/ SregRead(s)
  BY DEF ReadSreg
<1>3. CASE SregCommand(s)
  BY <1>1, <1>2, <1>3, FirstFrame DEF SregCommand, Pushed
<1>4. CASE SregDummy(s)
  BY <1>1, <1>2, <1>4, NextFrame DEF SregDummy, Pushed, Waiting
<1>5. CASE SregWait(s)
  BY <1>1, <1>2, <1>5, WaitEnds DEF SregWait, Waiting, Left
<1>6. CASE SregRead(s)
  BY <1>1, <1>2, <1>6, FramesTaken DEF SregRead, Left
<1> QED
  BY <1>2, <1>3, <1>4, <1>5, <1>6

LEMMA LineWrites == ASSUME Types, FormInv, LineInv, WriteEnable \/ WriteSreg PROVE LineInv'
<1> USE ConstantWords, AreWords, ScriptGrows DEF Types
<1>1. CASE Send("wren", "wren.wait", CMD_WRITE_ENABLE)
  BY <1>1, FirstFrame DEF Waiting
<1>2. CASE WaitReady("wren.wait", "wren.drop")
  BY <1>2, WaitEnds DEF Waiting, Left
<1>3. CASE Discard("wren.drop", "wrsr", 1)
  BY <1>3, FramesTaken DEF Discard, Left
<1>4. CASE Send("wrsr", "wrsr.1", CMD_WRITE_STATUS)
  BY <1>4, FirstFrame DEF Pushed
<1>5. CASE Send("wrsr.1", "wrsr.2", {})
  BY <1>5, NextFrame DEF Pushed
<1>6. CASE Send("wrsr.2", "wrsr.wait", SREG_DATA)
  BY <1>6, NextFrame DEF Pushed, Waiting
<1>7. CASE WaitReady("wrsr.wait", "wrsr.drop")
  BY <1>7, WaitEnds DEF Waiting, Left
<1>8. CASE Discard("wrsr.drop", "sr1", 3)
  BY <1>8, FramesTaken DEF Discard, Left
<1> QED
  BY <1>1, <1>2, <1>3, <1>4, <1>5, <1>6, <1>7, <1>8 DEF WriteEnable, WriteSreg

LEMMA LineCpuStep == ASSUME Types, FormInv, LineInv, Cpu PROVE LineInv'
<1>1. CASE SetPads \/ SetupBytes \/ Start("enable", "sr2") \/ CompareSreg \/ PollBusy
  BY <1>1 DEF SetPads, SetupBytes, Start, Configure, Enable, CompareSreg, PollBusy, At, serial,
              LineInv, Quiet, Left, Pushed, Waiting, QuadPlaces, XipPlaces
<1>2. CASE SetupRead \/ Start("read.enable", "eb") \/ SetupXip \/ Start("xip.enable", "exit") \/ Exit
  BY <1>2 DEF SetupRead, SetupXip, Start, Configure, Enable, Exit, At, serial,
              LineInv, Quiet, Left, Pushed, Waiting, QuadPlaces, XipPlaces
<1>3. CASE Stop("disable", "bytes") \/ Stop("stop", "read") \/ Stop("eb.stop", "xip")
  BY <1>3 DEF Stop, Disable, At, LineInv, Quiet, Left, Pushed, Waiting, QuadPlaces, XipPlaces
<1>4. CASE DummyRead
  <2>1. CASE WaitReady("eb.wait", "eb.stop")
    BY <2>1, ReadyIsQuiet
       DEF WaitReady, At, serial, LineInv, Quiet, Pushed, Waiting, QuadPlaces
  <2> QED
    BY <1>4, <2>1, DummyFramesPushed DEF DummyRead, Types
<1> QED
  BY <1>1, <1>2, <1>3, <1>4, LineReadSreg, LineWrites DEF Cpu

(* Frames go out where some have been pushed; the SSI has the form for them.  *)
LEMMA SendingPlaces ==
  ASSUME LineInv, tx # <<>> \/ bus # <<>>
  PROVE  (pc \in Pushed \cup Waiting /\ Sending) \/ pc \in {"a0", "eb.wait"}
  BY DEF LineInv, Quiet

LEMMA ByteSent ==
  ASSUME Types, FormInv, LineInv, ShiftByte, UNCHANGED pc
  PROVE  pc \in Pushed \cup Waiting /\ Sending /\ Sending' /\ LineInv'
<1>1. ByteMode /\ tx # <<>> /\ UNCHANGED <<ssi, flash>>
  BY DEF ShiftByte
<1>2. pc \notin {"a0", "eb.wait"}
  BY <1>1, QuadForm DEF FormInv, QuadPlaces
<1>3. pc \in Pushed \cup Waiting /\ Sending
  BY <1>1, <1>2, SendingPlaces
<1>4. Sending'
  BY <1>3, ShiftSends DEF Sending, Types
<1> QED
  BY <1>3, <1>4 DEF LineInv, Pushed, Waiting, QuadPlaces, XipPlaces

LEMMA AddressSent ==
  ASSUME Types, FormInv, LineInv, ShiftQuad, UNCHANGED pc
  PROVE  pc = "eb.wait" /\ ~Quiet /\ ~Quiet' /\ LineInv'
<1>1. QuadMode /\ Len(tx) = 2 /\ tx # <<>> /\ bus' = tx /\ tx' = <<>>
  BY DEF ShiftQuad, InstructionRead
<1>2. pc \notin Pushed \cup Waiting
  BY <1>1, ByteForm DEF FormInv, BytePlaces, Pushed, Waiting
<1>3. pc \in {"a0", "eb.wait"}
  BY <1>1, <1>2, SendingPlaces
<1>4. pc # "a0"
  BY <1>1 DEF LineInv
<1>5. tx = DummyFrames /\ DummyFrames # <<>>
  BY <1>1, <1>3, <1>4 DEF LineInv, Quiet, DummyFrames
<1> QED
  BY <1>1, <1>3, <1>4, <1>5 DEF LineInv, Quiet, Pushed, Waiting, QuadPlaces, XipPlaces

LEMMA ChipDeselected ==
  ASSUME Types, timely, LineInv, Select
  PROVE  /\ \/ pc \in Waiting /\ bus = Script(pc)
            \/ pc = "eb.wait" /\ bus = DummyFrames
         /\ Quiet' /\ ~Quiet /\ LineInv' /\ UNCHANGED <<pc, rx>>
<1>1. /\ bus # <<>> /\ tx = <<>> /\ bus' = <<>> /\ tx' = <<>>
      /\ UNCHANGED <<pc, rx>> /\ pc \notin Pushed
  BY DEF Select, Deselect, Pushing, Pushed, cpu
<1>2. CASE pc \in Waiting
  <2>1. Sending /\ bus = Script(pc) /\ Len(rx) = Left(pc)
    BY <1>1, <1>2, SendingPlaces, Nothing, ScriptLengths DEF Sending, Waiting, Types
  <2> QED
    BY <1>1, <1>2, <2>1 DEF LineInv, Quiet, Pushed, Waiting, QuadPlaces, XipPlaces
<1>3. CASE pc = "eb.wait"
  BY <1>1, <1>3 DEF LineInv, Quiet, DummyFrames, Pushed, Waiting, QuadPlaces
<1>4. pc # "a0"
  BY <1>1 DEF LineInv
<1> QED
  BY <1>1, <1>2, <1>3, <1>4, SendingPlaces

LEMMA LineRestarts == ASSUME Restarts PROVE LineInv' /\ Quiet'
  BY Restarted DEF LineInv, Quiet, Pushed, Waiting, QuadPlaces, XipPlaces, Left

LEMMA LineKept ==
  ASSUME LineInv, UNCHANGED <<pc, tx, rx, bus>> PROVE LineInv'
  BY DEF LineInv, Sending, Quiet

LEMMA LineStep ==
  ASSUME Types, timely, FormInv, LineInv, [BootNext]_bootVars PROVE LineInv'
<1>1. CASE Shift
  BY <1>1, ByteSent, AddressSent DEF Shift, cpu
<1>2. CASE Select
  BY <1>2, ChipDeselected
<1>3. CASE Settle \/ UNCHANGED bootVars
  BY <1>3, LineKept DEF Settle, FlashDone, serial, cpu, bootVars
<1> QED
  BY <1>1, <1>2, <1>3, LineCpuStep, LineRestarts DEF BootNext, Restarts

LEMMA FormStep ==
  ASSUME Types, FormInv, [BootNext]_bootVars PROVE FormInv'
  BY FormCpuStep, FormRestarts, LineKeepsForm DEF BootNext, Restarts, Types

-----------------------------------------------------------------------------
(* The flash, in a boot that is not held up: idle and out of continuous read   *)
(* mode until its status has been checked; only written if it must be; busy   *)
(* with a write of both registers, or in quad mode, from then on; in          *)
(* continuous read mode from the dummy read on.                            *)
Checking == {"pads", "disable", "bytes", "enable", "sr2", "sr2.dummy", "sr2.wait",
             "sr2.read", "sr2.test"}
Writing  == {"wren", "wren.wait", "wren.drop", "wrsr", "wrsr.1", "wrsr.2"}
Polling  == {"wrsr.drop", "sr1", "sr1.dummy", "sr1.wait", "sr1.read", "sr1.test"}
Entering == {"stop", "read", "read.enable", "eb", "a0"}
Reading  == {"eb.stop", "xip", "xip.enable", "exit", "run", "returned"}

Idle      == ~Busy /\ ~flash.cont
MustWrite == ~flash.qe \/ flash.otp \/ flash.cmp
QuadOnly  == flash.qe /\ ~flash.cmp
Begun     == ~flash.cont /\ (flash.writing = "both" \/ (~Busy /\ QuadOnly))

ChipInv ==
  /\ pc \in Checking => Idle
  /\ pc \in Writing => Idle /\ MustWrite
  /\ pc \in {"wren.drop", "wrsr", "wrsr.1", "wrsr.2"} => flash.wel
  /\ pc = "wren.wait" /\ Quiet => flash.wel
  /\ pc = "wrsr.wait" => IF Quiet THEN Begun ELSE Idle /\ MustWrite /\ flash.wel
  /\ pc \in Polling => Begun
  /\ pc \in Entering => Idle /\ QuadOnly
  /\ pc = "eb.wait" => ~Busy /\ QuadOnly /\ (flash.cont <=> Quiet)
  /\ pc \in Reading => ~Busy /\ QuadOnly /\ flash.cont

(* What the status value read says of the flash. *)
ValueInv ==
  /\ pc \in {"sr2.wait", "sr2.read"} /\ Len(rx) = 2 => rx[2] = Status2
  /\ pc = "sr2.test" => r0 = Status2
  /\ pc \in {"sr1.wait", "sr1.read"} /\ Len(rx) = 2 => 0 \in rx[2] \/ ~Busy
  /\ pc = "sr1.test" => 0 \in r0 \/ ~Busy

(* What each command does to a flash that is idle. *)
LEMMA Executed ==
  ASSUME flash \in Flash, Idle
  PROVE  /\ Execute(<<CMD_READ_STATUS2, CMD_READ_STATUS2>>) = flash
         /\ Execute(<<CMD_READ_STATUS, CMD_READ_STATUS>>) = flash
         /\ Execute(<<CMD_WRITE_ENABLE>>) = [flash EXCEPT !.wel = TRUE]
         /\ flash.wel => Execute(<<CMD_WRITE_STATUS, {}, SREG_DATA>>) = [flash EXCEPT !.writing = "both"]
         /\ flash.qe => Execute(DummyFrames) = [flash EXCEPT !.cont = TRUE]
<1> USE Commands DEF Execute, Idle
<1>1. Execute(<<CMD_READ_STATUS2, CMD_READ_STATUS2>>) = flash
  OBVIOUS
<1>2. Execute(<<CMD_READ_STATUS, CMD_READ_STATUS>>) = flash
  OBVIOUS
<1>3. Execute(<<CMD_WRITE_ENABLE>>) = [flash EXCEPT !.wel = TRUE]
  OBVIOUS
<1>4. flash.wel => Execute(<<CMD_WRITE_STATUS, {}, SREG_DATA>>) = [flash EXCEPT !.writing = "both"]
  OBVIOUS
<1>5. flash.qe => Execute(DummyFrames) = [flash EXCEPT !.cont = TRUE]
  BY DEF DummyFrames
<1> QED
  BY <1>1, <1>2, <1>3, <1>4, <1>5

(* A flash that polls is busy or as before when it is asked for its status.  *)
LEMMA ExecutedPolling ==
  ASSUME flash \in Flash, ~flash.cont
  PROVE  Execute(<<CMD_READ_STATUS, CMD_READ_STATUS>>) = flash
  BY Executed DEF Execute, Idle

LEMMA PushedNotQuiet ==
  ASSUME FifoTypes, Enabled, NEW word \in Word, Push(word) PROVE ~Quiet'
<1>1. tx \in Seq(Word) /\ tx' = Append(tx, word)
  BY DEF FifoTypes, Push
<1>2. tx' # <<>>
  BY <1>1, AppendProperties, EmptySeq
<1> QED
  BY <1>2 DEF Quiet

(* Steps that leave the flash alone. *)
LEMMA ChipKept ==
  ASSUME ChipInv, UNCHANGED flash,
         \/ pc \in Checking /\ pc' \in Checking
         \/ pc \in Polling /\ pc' \in Polling
         \/ pc \in Entering /\ pc' \in Entering
         \/ pc \in Entering /\ pc' = "eb.wait" /\ ~Quiet'
         \/ pc \in Reading /\ pc' \in Reading
         \/ UNCHANGED pc /\ pc \notin {"wren.wait", "wrsr.wait", "eb.wait"}
         \/ UNCHANGED pc /\ (Quiet' <=> Quiet)
  PROVE  ChipInv'
<1>1. /\ (Busy' <=> Busy) /\ (Idle' <=> Idle) /\ (MustWrite' <=> MustWrite) /\ (Begun' <=> Begun)
      /\ (flash'.wel <=> flash.wel) /\ (flash'.cont <=> flash.cont) /\ (QuadOnly' <=> QuadOnly)
  BY DEF Busy, Idle, MustWrite, Begun, QuadOnly
<1> HIDE DEF Busy, Idle, MustWrite, Begun, QuadOnly
<1> USE DEF ChipInv
<1>2. CASE (pc \in Checking /\ pc' \in Checking) \/ (pc \in Polling /\ pc' \in Polling)
  BY <1>1, <1>2 DEF Checking, Writing, Polling, Entering, Reading
<1>3. CASE (pc \in Entering /\ pc' \in Entering) \/ (pc \in Reading /\ pc' \in Reading)
  BY <1>1, <1>3 DEF Checking, Writing, Polling, Entering, Reading
<1>4. CASE pc \in Entering /\ pc' = "eb.wait" /\ ~Quiet'
  BY <1>1, <1>4 DEF Checking, Writing, Polling, Entering, Reading, Idle
<1>5. CASE UNCHANGED pc /\ pc \notin {"wren.wait", "wrsr.wait", "eb.wait"}
  BY <1>1, <1>5
<1>6. CASE UNCHANGED pc /\ (Quiet' <=> Quiet)
  BY <1>1, <1>6
<1> QED
  BY <1>2, <1>3, <1>4, <1>5, <1>6

LEMMA ChipReadSreg == ASSUME ChipInv, ReadSreg PROVE ChipInv'
<1>1. PICK s \in {"sr2", "sr1"} : SregCommand(s) \/ SregDummy(s) \/ SregWait(s) \/ SregRead(s)
  BY DEF ReadSreg
<1>2. UNCHANGED flash
  BY <1>1 DEF SregCommand, SregDummy, SregWait, SregRead, Send, Push, WaitReady
<1>3. CASE s = "sr2"
  <2>1. pc \in Checking /\ pc' \in Checking
    BY <1>1, <1>3 DEF SregCommand, SregDummy, SregWait, SregRead, Send, WaitReady, At, Sreg, Checking
  <2> QED
    BY <1>2, <2>1, ChipKept
<1>4. CASE s = "sr1"
  <2>1. pc \in Polling /\ pc' \in Polling
    BY <1>1, <1>4 DEF SregCommand, SregDummy, SregWait, SregRead, Send, WaitReady, At, Sreg, Polling
  <2> QED
    BY <1>2, <2>1, ChipKept
<1> QED
  BY <1>1, <1>3, <1>4

(* The two decisions on a status value. *)
LEMMA Compared == ASSUME ChipInv, ValueInv, CompareSreg PROVE ChipInv'
<1>1. pc = "sr2.test" /\ Idle /\ r0 = Status2 /\ UNCHANGED flash
  BY DEF CompareSreg, ChipInv, ValueInv, Checking
<1>2. Idle'
  BY <1>1 DEF Idle, Busy
<1>3. CASE r0 = SREG_DATA
  <2>1. pc' = "stop" /\ QuadOnly'
    BY <1>1, <1>3, StatusBits DEF CompareSreg, QuadOnly
  <2> QED
    BY <1>2, <2>1 DEF ChipInv, Checking, Writing, Polling, Entering, Reading
<1>4. CASE r0 # SREG_DATA
  <2>1. pc' = "wren" /\ MustWrite'
    BY <1>1, <1>4, StatusBits DEF CompareSreg, MustWrite
  <2> QED
    BY <1>2, <2>1 DEF ChipInv, Checking, Writing, Polling, Entering, Reading
<1> QED
  BY <1>3, <1>4

LEMMA Polled == ASSUME ChipInv, ValueInv, PollBusy PROVE ChipInv'
<1>1. pc = "sr1.test" /\ Begun /\ (0 \in r0 \/ ~Busy) /\ UNCHANGED flash
  BY DEF PollBusy, ChipInv, ValueInv, Polling
<1>2. CASE 0 \in r0
  <2>1. pc \in Polling /\ pc' \in Polling
    BY <1>1, <1>2 DEF PollBusy, Polling
  <2> QED
    BY <1>1, <2>1, ChipKept
<1>3. CASE 0 \notin r0
  <2>1. pc' = "stop" /\ Idle' /\ QuadOnly'
    BY <1>1, <1>3 DEF PollBusy, Begun, Idle, Busy, QuadOnly
  <2> QED
    BY <2>1 DEF ChipInv, Checking, Writing, Polling, Entering, Reading
<1> QED
  BY <1>2, <1>3

LEMMA ChipWrites ==
  ASSUME Types, FormInv, LineInv, ChipInv, WriteEnable \/ WriteSreg PROVE ChipInv'
<1> DEFINE Same == UNCHANGED flash
<1>1. Same
  BY DEF WriteEnable, WriteSreg, Send, Push, WaitReady, Discard
<1>2. /\ (Idle' <=> Idle) /\ (MustWrite' <=> MustWrite) /\ (Begun' <=> Begun)
      /\ (flash'.wel <=> flash.wel)
  BY <1>1 DEF Busy, Idle, MustWrite, Begun, QuadOnly
<1> USE DEF ChipInv, Checking, Writing, Polling, Entering, Reading
<1>3. CASE Send("wren", "wren.wait", CMD_WRITE_ENABLE)
  <2>1. pc = "wren" /\ pc' = "wren.wait" /\ ~Quiet'
    BY <1>3, PushedNotQuiet, ConstantWords DEF Send, At, FormInv, BytePlaces, Types
  <2> QED
    BY <1>2, <2>1
<1>4. CASE WaitReady("wren.wait", "wren.drop")
  BY <1>2, <1>4, ReadyIsQuiet DEF WaitReady, At, Quiet
<1>5. CASE Discard("wren.drop", "wrsr", 1)
  BY <1>2, <1>5 DEF Discard, At
<1>6. CASE Send("wrsr", "wrsr.1", CMD_WRITE_STATUS)
  BY <1>2, <1>6 DEF Send, At
<1>7. CASE Send("wrsr.1", "wrsr.2", {})
  BY <1>2, <1>7 DEF Send, At
<1>8. CASE Send("wrsr.2", "wrsr.wait", SREG_DATA)
  <2>1. pc = "wrsr.2" /\ pc' = "wrsr.wait" /\ ~Quiet'
    BY <1>8, PushedNotQuiet, ConstantWords DEF Send, At, FormInv, BytePlaces, Types
  <2> QED
    BY <1>2, <2>1
<1>9. CASE WaitReady("wrsr.wait", "wrsr.drop")
  BY <1>2, <1>9, ReadyIsQuiet DEF WaitReady, At, Quiet
<1>10. CASE Discard("wrsr.drop", "sr1", 3)
  BY <1>2, <1>10 DEF Discard, At
<1> QED
  BY <1>3, <1>4, <1>5, <1>6, <1>7, <1>8, <1>9, <1>10 DEF WriteEnable, WriteSreg

(* The bootloader never disables the SSI in a transaction. *)
LEMMA StopsQuiet ==
  ASSUME LineInv, Stop("disable", "bytes") \/ Stop("stop", "read") \/ Stop("eb.stop", "xip")
  PROVE  bus = <<>> /\ UNCHANGED flash
<1>1. bus = <<>>
  BY DEF Stop, At, LineInv, Quiet, Pushed, Waiting
<1> QED
  BY <1>1 DEF Stop, Disable

LEMMA ChipCpuStep ==
  ASSUME Types, FormInv, LineInv, ChipInv, ValueInv, Cpu PROVE ChipInv'
<1>1. CASE SetPads \/ SetupBytes \/ Start("enable", "sr2")
  <2>1. UNCHANGED flash /\ pc \in Checking /\ pc' \in Checking
    BY <1>1 DEF SetPads, SetupBytes, Start, Configure, Enable, At, Checking
  <2> QED
    BY <2>1, ChipKept
<1>2. CASE Stop("disable", "bytes") \/ Stop("stop", "read") \/ Stop("eb.stop", "xip")
  <2>1. UNCHANGED flash
    BY <1>2, StopsQuiet
  <2>2. \/ pc \in Checking /\ pc' \in Checking
        \/ pc \in Entering /\ pc' \in Entering
        \/ pc \in Reading /\ pc' \in Reading
    BY <1>2 DEF Stop, At, Checking, Entering, Reading
  <2> QED
    BY <2>1, <2>2, ChipKept
<1>3. CASE SetupRead \/ Start("read.enable", "eb")
  <2>1. UNCHANGED flash /\ pc \in Entering /\ pc' \in Entering
    BY <1>3 DEF SetupRead, Start, Configure, Enable, At, Entering
  <2> QED
    BY <2>1, ChipKept
<1>4. CASE DummyRead
  <2>1. CASE Send("eb", "a0", CMD_READ)
    <3>1. UNCHANGED flash /\ pc \in Entering /\ pc' \in Entering
      BY <2>1 DEF Send, Push, At, Entering
    <3> QED
      BY <3>1, ChipKept
  <2>2. CASE Send("a0", "eb.wait", MODE_CONTINUOUS_READ)
    <3>1. UNCHANGED flash /\ pc \in Entering /\ pc' = "eb.wait" /\ ~Quiet'
      BY <2>2, DummyFramesPushed DEF Send, Push, At, Entering, Types
    <3> QED
      BY <3>1, ChipKept
  <2>3. CASE WaitReady("eb.wait", "eb.stop")
    <3>1. pc = "eb.wait" /\ pc' = "eb.stop" /\ Quiet /\ UNCHANGED flash
      BY <2>3, ReadyIsQuiet DEF WaitReady, At, Quiet
    <3> QED
      BY <3>1 DEF ChipInv, Busy, QuadOnly, Checking, Writing, Polling, Entering, Reading
  <2> QED
    BY <1>4, <2>1, <2>2, <2>3 DEF DummyRead
<1>5. CASE SetupXip \/ Start("xip.enable", "exit") \/ Exit
  <2>1. UNCHANGED flash /\ pc \in Reading /\ pc' \in Reading
    BY <1>5 DEF SetupXip, Start, Configure, Enable, Exit, At, Reading
  <2> QED
    BY <2>1, ChipKept
<1> QED
  BY <1>1, <1>2, <1>3, <1>4, <1>5, ChipReadSreg, Compared, Polled, ChipWrites DEF Cpu

LEMMA ChipShift == ASSUME Types, FormInv, LineInv, ChipInv, Shift PROVE ChipInv'
<1>1. UNCHANGED <<pc, flash>>
  BY DEF Shift, ShiftByte, ShiftQuad, cpu
<1>2. CASE ShiftByte
  <2>1. ~Quiet /\ ~Quiet'
    BY <1>2, ShiftSends DEF ShiftByte, Quiet, Types
  <2> QED
    BY <1>1, <2>1, ChipKept
<1>3. CASE ShiftQuad
  <2>1. ~Quiet /\ ~Quiet'
    BY <1>1, <1>3, AddressSent
  <2> QED
    BY <1>1, <2>1, ChipKept
<1> QED
  BY <1>2, <1>3 DEF Shift

(* A command takes effect. *)
LEMMA ChipSelect == ASSUME Types, timely, LineInv, ChipInv, Select PROVE ChipInv'
<1>1. UNCHANGED pc /\ Quiet' /\ ~Quiet /\ flash' = Execute(bus) /\ flash \in Flash
  BY ChipDeselected DEF Select, Deselect, Types
<1>2. CASE pc = "sr2.wait"
  <2>1. flash' = flash
    BY <1>1, <1>2, ChipDeselected, Scripts, Executed DEF ChipInv, Checking, Waiting
  <2> QED
    BY <1>1, <1>2, <2>1, ChipKept
<1>3. CASE pc = "sr1.wait"
  <2>1. flash' = flash
    BY <1>1, <1>3, ChipDeselected, Scripts, ExecutedPolling DEF ChipInv, Polling, Begun, Waiting
  <2> QED
    BY <1>1, <1>3, <2>1, ChipKept
<1>4. CASE pc = "wren.wait"
  <2>1. Idle /\ MustWrite
    BY <1>4 DEF ChipInv, Writing
  <2>2. flash' = [flash EXCEPT !.wel = TRUE]
    BY <1>1, <1>4, <2>1, ChipDeselected, Scripts, Executed
  <2>3. Idle' /\ MustWrite' /\ flash'.wel
    BY <1>1, <2>1, <2>2 DEF Idle, MustWrite, Busy, Flash
  <2> QED
    BY <1>1, <1>4, <2>3 DEF ChipInv, Checking, Writing, Polling, Entering, Reading
<1>5. CASE pc = "wrsr.wait"
  <2>1. Idle /\ flash.wel
    BY <1>1, <1>5 DEF ChipInv
  <2>2. flash' = [flash EXCEPT !.writing = "both"]
    BY <1>1, <1>5, <2>1, ChipDeselected, Scripts, Executed
  <2>3. Begun'
    BY <1>1, <2>1, <2>2 DEF Idle, Begun, Flash
  <2> QED
    BY <1>1, <1>5, <2>3 DEF ChipInv, Checking, Writing, Polling, Entering, Reading
<1>6. CASE pc = "eb.wait"
  <2>1. Idle /\ QuadOnly
    BY <1>1, <1>6 DEF ChipInv, Idle
  <2>2. flash' = [flash EXCEPT !.cont = TRUE]
    BY <1>1, <1>6, <2>1, ChipDeselected, Executed DEF Waiting, QuadOnly
  <2>3. ~Busy' /\ QuadOnly' /\ flash'.cont
    BY <1>1, <2>1, <2>2 DEF Idle, Busy, Flash, QuadOnly
  <2> QED
    BY <1>1, <1>6, <2>3 DEF ChipInv, Checking, Writing, Polling, Entering, Reading
<1> QED
  BY <1>2, <1>3, <1>4, <1>5, <1>6, ChipDeselected DEF Waiting

(* A status write ends: both registers have been written. *)
LEMMA ChipSettle == ASSUME Types, ChipInv, Settle PROVE ChipInv'
<1>1. Busy /\ UNCHANGED <<pc, tx, bus>> /\ flash \in Flash
  BY DEF Settle, FlashDone, cpu, serial, Types
<1>2. CASE Begun
  <2>1. flash.writing = "both" /\ flash' = Written(FALSE)
    BY <1>1, <1>2 DEF Begun, Settle, FlashDone
  <2>2. Begun'
    BY <1>1, <1>2, <2>1 DEF Begun, Busy, QuadOnly, Written, Flash
  <2>3. pc \in Polling \cup {"off", "wrsr.wait"} \/ pc \notin Labels
    BY <1>1, <1>2 DEF ChipInv, Idle, Checking, Writing, Polling, Entering, Reading, Labels
  <2>4. (pc = "wrsr.wait" => Quiet) /\ pc \in Labels
    BY <1>1 DEF ChipInv, Idle, Types, CpuTypes
  <2>5. pc = "wrsr.wait" => Quiet'
    BY <1>1, <2>4 DEF Quiet
  <2> QED
    BY <1>1, <2>2, <2>3, <2>4, <2>5 DEF ChipInv, Checking, Writing, Polling, Entering, Reading
<1>3. CASE ~Begun
  <2>1. pc = "off"
    BY <1>1, <1>3 DEF ChipInv, Idle, Checking, Writing, Polling, Entering, Reading, Types, CpuTypes, Labels
  <2> QED
    BY <1>1, <2>1 DEF ChipInv, Checking, Writing, Polling, Entering, Reading
<1> QED
  BY <1>2, <1>3

LEMMA ChipRestarts == ASSUME flash \in Flash, Restarts PROVE ChipInv'
<1>1. CASE FromRom \/ FromCaller
  <2>1. pc' = "pads" /\ ~Busy /\ flash' = [flash EXCEPT !.cont = FALSE]
    BY <1>1 DEF FromRom, FromCaller, Enter
  <2>2. Idle'
    BY <2>1 DEF Idle, Busy, Flash
  <2> QED
    BY <2>1, <2>2 DEF ChipInv, Checking, Writing, Polling, Entering, Reading
<1>2. CASE ChipReset \/ PowerCut
  <2>1. pc' = "off"
    BY <1>2 DEF ChipReset, PowerCut, ResetTo
  <2> QED
    BY <2>1 DEF ChipInv, Checking, Writing, Polling, Entering, Reading
<1> QED
  BY <1>1, <1>2 DEF Restarts

LEMMA ChipStep ==
  ASSUME Types, timely, FormInv, LineInv, ChipInv, ValueInv, [BootNext]_bootVars PROVE ChipInv'
<1>1. CASE UNCHANGED bootVars
  <2>1. UNCHANGED <<pc, flash>> /\ (Quiet' <=> Quiet)
    BY <1>1 DEF bootVars, cpu, serial, Quiet
  <2> QED
    BY <2>1, ChipKept
<1> QED
  BY <1>1, ChipCpuStep, ChipShift, ChipSelect, ChipSettle, ChipRestarts DEF BootNext, Restarts, Types

-----------------------------------------------------------------------------
(* The status values: the second byte is the one that counts. *)
LEMMA SentSoFar ==
  ASSUME FifoTypes, Sending
  PROVE  /\ Len(bus) + Len(tx) = Len(Script(pc)) /\ Len(rx) = Len(bus)
         /\ bus # <<>> => bus[1] = Script(pc)[1]
  BY ConcatProperties, EmptySeq DEF FifoTypes, Sending

LEMMA ValueReadSreg ==
  ASSUME Types, LineInv, ChipInv, ValueInv, ReadSreg PROVE ValueInv'
<1>1. PICK s \in {"sr2", "sr1"} : SregCommand(s) \/ SregDummy(s) \/ SregWait(s) \/ SregRead(s)
  BY DEF ReadSreg
<1>2. /\ UNCHANGED flash /\ Status2' = Status2 /\ (Busy' <=> Busy)
      /\ s = "sr2" => Sreg[s].dummy = "sr2.dummy" /\ Sreg[s].wait = "sr2.wait"
                      /\ Sreg[s].read = "sr2.read" /\ Sreg[s].test = "sr2.test"
      /\ s = "sr1" => Sreg[s].dummy = "sr1.dummy" /\ Sreg[s].wait = "sr1.wait"
                      /\ Sreg[s].read = "sr1.read" /\ Sreg[s].test = "sr1.test"
  BY <1>1 DEF SregCommand, SregDummy, SregWait, SregRead, Send, Push, WaitReady, Status2, Busy, Sreg
<1>3. CASE SregCommand(s)
  BY <1>2, <1>3 DEF SregCommand, Send, At, ValueInv
<1>4. CASE SregDummy(s)
  <2>1. pc \in Pushed /\ pc \in {"sr2.dummy", "sr1.dummy"} /\ UNCHANGED rx
    BY <1>1, <1>2, <1>4 DEF SregDummy, Send, Push, At, Pushed
  <2>2. Len(Script(pc)) = 1
    BY <2>1, Scripts
  <2>3. Sending /\ FifoTypes
    BY <2>1 DEF LineInv, Types
  <2>4. Len(bus) \in Nat /\ Len(tx) \in Nat
    BY <2>3, LenProperties DEF FifoTypes
  <2>5. Len(bus) + Len(tx) = Len(Script(pc)) /\ Len(rx) = Len(bus)
    BY <2>3, SentSoFar
  <2>6. Len(rx) # 2
    BY <2>2, <2>4, <2>5
  <2> QED
    BY <1>1, <1>2, <1>4, <2>1, <2>6 DEF SregDummy, Send, At, ValueInv
<1>5. CASE SregWait(s)
  <2>1. UNCHANGED rx
    BY <1>5 DEF SregWait, WaitReady, serial
  <2> QED
    BY <1>1, <1>2, <1>5, <2>1 DEF SregWait, WaitReady, At, ValueInv
<1>6. CASE SregRead(s)
  <2>1. Len(rx) = 2
    BY <1>1, <1>2, <1>6 DEF SregRead, At, LineInv, Left, Pushed, Waiting, QuadPlaces, XipPlaces
  <2>2. r0' = rx[2]
    BY <1>6, <2>1 DEF SregRead, Popped
  <2> QED
    BY <1>1, <1>2, <1>6, <2>1, <2>2 DEF SregRead, At, ValueInv
<1> QED
  BY <1>1, <1>3, <1>4, <1>5, <1>6

LEMMA ValueCpuStep ==
  ASSUME Types, LineInv, ChipInv, ValueInv, Cpu PROVE ValueInv'
<1>1. CASE ~ReadSreg
  <2>1. pc' \notin {"sr2.wait", "sr2.read", "sr2.test", "sr1.wait", "sr1.read", "sr1.test"}
    BY <1>1 DEF Cpu, SetPads, Stop, Start, SetupBytes, CompareSreg, WriteEnable, WriteSreg, PollBusy, SetupRead,
                DummyRead, SetupXip, Exit, Send, WaitReady, Discard, At
  <2> QED
    BY <2>1 DEF ValueInv
<1> QED
  BY <1>1, ValueReadSreg

(* The flash answers a status command from the second byte on. *)
LEMMA Answered ==
  ASSUME flash \in Flash, ~flash.cont, bus # <<>>
  PROVE  /\ bus[1] = CMD_READ_STATUS2 => Reply(bus) = {Status2}
         /\ bus[1] = CMD_READ_STATUS => Reply(bus) = {Status1}
  BY Commands DEF Reply, Flash

LEMMA ValueShift ==
  ASSUME Types, FormInv, LineInv, ChipInv, ValueInv, Shift PROVE ValueInv'
<1>1. UNCHANGED <<pc, flash, r0>> /\ Status2' = Status2 /\ (Busy' <=> Busy)
  BY DEF Shift, ShiftByte, ShiftQuad, cpu, Status2, Busy
<1>2. CASE ShiftByte
  <2>1. PICK in \in Reply(bus) : rx' = Append(rx, in)
    BY <1>2 DEF ShiftByte
  <2>2. pc \in Pushed \cup Waiting /\ Sending
    BY <1>1, <1>2, ByteSent
  <2>3. Len(rx') = Len(rx) + 1 /\ rx'[Len(rx) + 1] = in /\ Len(rx) \in Nat
    BY <2>1 DEF Types, FifoTypes
  <2>4. Len(rx') = 2 => bus # <<>> /\ bus[1] = Script(pc)[1] /\ rx'[2] = in
    <3>1. FifoTypes
      BY DEF Types
    <3>2. Len(rx) = Len(bus) /\ (bus # <<>> => bus[1] = Script(pc)[1])
      BY <2>2, <3>1, SentSoFar
    <3>3. bus = <<>> => Len(bus) = 0
      BY EmptySeq
    <3>4. \A n \in Nat : n + 1 = 2 => n = 1
      OBVIOUS
    <3>5. Len(rx') = 2 => Len(rx) = 1 /\ rx'[2] = in
      BY <2>3, <3>4, Zenon
    <3> QED
      BY <3>2, <3>3, <3>5
  <2>5. CASE pc = "sr2.wait"
    <3>1. ~flash.cont /\ Script(pc)[1] = CMD_READ_STATUS2
      BY <2>5, Scripts DEF ChipInv, Checking, Idle
    <3>2. Len(rx') = 2 => rx'[2] = Status2
      BY <2>1, <2>4, <3>1, Answered DEF Types
    <3> QED
      BY <1>1, <2>5, <3>2 DEF ValueInv
  <2>6. CASE pc = "sr1.wait"
    <3>1. ~flash.cont /\ Script(pc)[1] = CMD_READ_STATUS
      BY <2>6, Scripts DEF ChipInv, Polling, Begun
    <3>2. Len(rx') = 2 => rx'[2] = Status1
      BY <2>1, <2>4, <3>1, Answered DEF Types
    <3>3. Len(rx') = 2 => 0 \in rx'[2] \/ ~Busy
      BY <3>2, StatusBits
    <3> QED
      BY <1>1, <2>6, <3>3 DEF ValueInv
  <2>7. CASE pc \notin {"sr2.wait", "sr1.wait"}
    BY <1>1, <2>2, <2>7 DEF ValueInv, Pushed, Waiting
  <2> QED
    BY <2>5, <2>6, <2>7
<1>3. CASE ShiftQuad
  <2>1. pc = "eb.wait"
    BY <1>1, <1>3, AddressSent
  <2> QED
    BY <1>1, <2>1 DEF ValueInv
<1> QED
  BY <1>2, <1>3 DEF Shift

LEMMA ValueSelect ==
  ASSUME Types, timely, LineInv, ChipInv, ValueInv, Select PROVE ValueInv'
<1>1. UNCHANGED <<pc, rx, r0>> /\ flash' = Execute(bus) /\ flash \in Flash
  BY DEF Select, Deselect, cpu, Types
<1>2. CASE pc \in {"sr2.wait", "sr1.wait"}
  <2>1. CASE pc = "sr2.wait"
    BY <1>1, <2>1, ChipDeselected, Scripts, Executed DEF ChipInv, Checking, Waiting, ValueInv, Status2
  <2>2. CASE pc = "sr1.wait"
    BY <1>1, <2>2, ChipDeselected, Scripts, ExecutedPolling
       DEF ChipInv, Polling, Begun, Waiting, ValueInv, Busy
  <2> QED
    BY <1>2, <2>1, <2>2
<1>3. CASE pc \notin {"sr2.wait", "sr1.wait"}
  <2>1. pc \in {"wren.wait", "wrsr.wait", "eb.wait"}
    BY <1>3, ChipDeselected DEF Waiting
  <2> QED
    BY <1>1, <2>1 DEF ValueInv
<1> QED
  BY <1>2, <1>3

LEMMA ValueSettle == ASSUME Types, ChipInv, ValueInv, Settle PROVE ValueInv'
<1>1. UNCHANGED <<pc, rx, r0>> /\ Busy /\ \E keep : flash' = Written(keep)
  BY DEF Settle, FlashDone, cpu, serial
<1>2. ~Busy'
  BY <1>1 DEF Busy, Written, Types, Flash
<1>3. pc \notin Checking
  BY <1>1 DEF ChipInv, Idle
<1> QED
  BY <1>1, <1>2, <1>3 DEF ValueInv, Checking

LEMMA ValueStep ==
  ASSUME Types, timely, FormInv, LineInv, ChipInv, ValueInv, [BootNext]_bootVars PROVE ValueInv'
<1>1. CASE Restarts
  <2>1. pc' \in {"pads", "off"}
    BY <1>1, Restarted
  <2> QED
    BY <2>1 DEF ValueInv
<1>2. CASE UNCHANGED bootVars
  BY <1>2 DEF bootVars, cpu, serial, ValueInv, Status2, Busy
<1> QED
  BY <1>1, <1>2, ValueCpuStep, ValueShift, ValueSelect, ValueSettle DEF BootNext, Restarts

-----------------------------------------------------------------------------
(* A boot that is not held up. *)
TimelyInv == FormInv /\ LineInv /\ ChipInv /\ ValueInv

BootInv == Types /\ PadInv /\ (timely => TimelyInv)

LEMMA BootInitInv == BootInit => BootInv
<1> SUFFICES ASSUME BootInit PROVE BootInv
  OBVIOUS
<1>1. pc = "off" /\ ssi = SsiReset /\ tx = <<>> /\ rx = <<>> /\ bus = <<>> /\ pads = PadReset
  BY DEF BootInit
<1>2. FormInv
  BY <1>1 DEF FormInv, Enabled, SsiReset, BytePlaces, QuadPlaces, XipPlaces
<1>3. LineInv
  BY <1>1 DEF LineInv, Quiet, Pushed, Waiting, QuadPlaces, XipPlaces, Left
<1>4. ChipInv
  BY <1>1 DEF ChipInv, Checking, Writing, Polling, Entering, Reading
<1>5. ValueInv
  BY <1>1 DEF ValueInv
<1>6. PadInv
  BY <1>1, ResetPads DEF PadInv
<1> QED
  BY <1>2, <1>3, <1>4, <1>5, <1>6, TypesInit DEF BootInv, TimelyInv

LEMMA BootStepInv == BootInv /\ [BootNext]_bootVars => BootInv'
<1> SUFFICES ASSUME BootInv, [BootNext]_bootVars PROVE BootInv'
  OBVIOUS
<1>1. Types' /\ PadInv'
  BY TypesStep, PadStepInv DEF BootInv
<1>2. CASE Restarts
  <2>1. FormInv' /\ LineInv' /\ ChipInv'
    BY <1>2, FormRestarts, LineRestarts, ChipRestarts DEF BootInv, Types
  <2>2. ValueInv'
    BY <1>2, Restarted DEF ValueInv
  <2> QED
    BY <1>1, <2>1, <2>2 DEF BootInv, TimelyInv
<1>3. CASE UNCHANGED timely
  <2>1. timely => FormInv' /\ LineInv' /\ ChipInv' /\ ValueInv'
    BY FormStep, LineStep, ChipStep, ValueStep DEF BootInv, TimelyInv
  <2> QED
    BY <1>1, <1>3, <2>1 DEF BootInv, TimelyInv
<1> QED
  BY <1>2, <1>3, OthersKeepTimely

(* Whatever has gone before, a boot that is not held up goes on only with SSI  *)
(* and flash in one continuous quad read mode, and the pads set for it.       *)
THEOREM BootIsReady == BootSpec => []XipReady
<1>1. BootInv => XipReady
  <2> SUFFICES ASSUME BootInv, pc \in {"exit", "run", "returned"}, timely
               PROVE  XipWorks /\ PadsSet /\ (flash.otp \/ Status2 = SREG_DATA)
    BY DEF XipReady
  <2>1. Enabled /\ XipRead
    BY XipForm DEF BootInv, TimelyInv, FormInv, XipPlaces
  <2>2. flash.cont /\ QuadOnly /\ ~Busy
    BY DEF BootInv, TimelyInv, ChipInv, Reading
  <2>3. PadsSet
    BY DEF BootInv, PadInv
  <2> QED
    BY <2>1, <2>2, <2>3, StatusBits DEF XipWorks, QuadOnly
<1> QED
  BY <1>1, BootInitInv, BootStepInv, PTL DEF BootSpec

(* A write of the status registers begins where its command is executed. *)
LEMMA CommandBegins ==
  ASSUME flash \in Flash, [BootNext]_bootVars, WriteBegins
  PROVE  bus # <<>> /\ flash' = Execute(bus)
<1> USE DEF WriteBegins
<1>1. CASE Cpu
  <2>1. CASE ReadSreg
    BY <2>1 DEF ReadSreg, SregCommand, SregDummy, SregWait, SregRead, Send, Push, WaitReady
  <2>2. CASE ~ReadSreg
    BY <1>1, <2>2 DEF Cpu, SetPads, Stop, Disable, Start, Enable, SetupBytes, Configure, CompareSreg,
                      WriteEnable, WriteSreg, PollBusy, SetupRead, DummyRead, SetupXip, Exit, Send, Push,
                      WaitReady, Discard
  <2> QED
    BY <2>1, <2>2
<1>2. CASE Shift \/ Select \/ UNCHANGED bootVars
  BY <1>2 DEF Shift, ShiftByte, ShiftQuad, Select, Deselect, bootVars
<1>3. CASE Settle
  BY <1>3 DEF Settle, FlashDone, Written, Flash
<1>4. CASE FromRom \/ FromCaller
  BY <1>4 DEF FromRom, FromCaller, Enter, Flash
<1>5. CASE ChipReset
  BY <1>5 DEF ChipReset, ResetTo
<1>6. CASE PowerCut
  BY <1>6 DEF PowerCut, ResetTo, Flash
<1> QED
  BY <1>1, <1>2, <1>3, <1>4, <1>5, <1>6 DEF BootNext

LEMMA OnlyWriteCommandWrites ==
  ASSUME flash \in Flash, Execute(bus).writing # flash.writing, bus # <<>>
  PROVE  bus[1] = CMD_WRITE_STATUS /\ Idle
  BY DEF Execute, Flash, Idle

LEMMA WritePlaces ==
  ASSUME FifoTypes, LineInv, bus # <<>>, bus[1] = CMD_WRITE_STATUS
  PROVE  pc \in {"wrsr.1", "wrsr.2", "wrsr.wait"} /\ ~Quiet
<1>1. CASE pc \in Pushed \cup Waiting /\ Sending
  <2>1. Script(pc)[1] = CMD_WRITE_STATUS
    BY <1>1, SentSoFar
  <2> QED
    BY <1>1, <2>1, Scripts, Commands DEF Pushed, Waiting, Quiet
<1>2. CASE pc \in {"a0", "eb.wait"}
  <2>1. bus[1] = CMD_READ
    BY <1>2 DEF LineInv, Quiet, DummyFrames
  <2> QED
    BY <2>1, Commands
<1> QED
  BY <1>1, <1>2, SendingPlaces

(* A boot that is not held up writes the status registers only where          *)
(* register 2 is not exactly quad enable, even when a reset cuts the command   *)
(* short.                                                                  *)
THEOREM StatusIsKept == BootSpec => StatusKept
<1>1. ASSUME BootInv, [BootNext]_bootVars, timely, WriteBegins
      PROVE  Status2 # SREG_DATA
  <2>1. bus # <<>> /\ bus[1] = CMD_WRITE_STATUS
    BY <1>1, CommandBegins, OnlyWriteCommandWrites DEF BootInv, Types, WriteBegins
  <2>2. pc \in {"wrsr.1", "wrsr.2", "wrsr.wait"} /\ ~Quiet
    BY <1>1, <2>1, WritePlaces DEF BootInv, Types, TimelyInv
  <2> QED
    BY <1>1, <2>2, StatusBits DEF BootInv, TimelyInv, ChipInv, Writing, MustWrite
<1>2. BootInv /\ [BootNext]_bootVars => [timely /\ WriteBegins => Status2 # SREG_DATA]_bootVars
  BY <1>1
<1> QED
  BY <1>2, BootInitInv, BootStepInv, PTL DEF BootSpec, StatusKept
=============================================================================
