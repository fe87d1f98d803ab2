------------------------------- MODULE Boot2 -------------------------------
(***************************************************************************)
(* The second-stage bootloader, runtime/boot2/boot2_w25q080.S with its       *)
(* helpers: first in flash, copied to SRAM and entered by the bootrom after  *)
(* every reset (or by code that has done the same).  It brings flash and SSI *)
(* together into continuous quad reads and goes on to the vector table, or   *)
(* back to its caller.                                                     *)
(*                                                                         *)
(* Processor, SSI and flash run at their own pace.  In a timely boot the     *)
(* processor pushes the bytes of a command before the SSI has sent the ones  *)
(* before; in another (a debugger halts it, say) commands may be cut short.  *)
(* A reset or a power cut may come at any step and leaves the flash as it is. *)
(***************************************************************************)
EXTENDS SsiFlash

CONSTANT MaxBoots   \* bound: entries of the bootloader

ASSUME BootAssumption == MaxBoots \in Nat \ {0}

VARIABLES
  pc,     \* where the processor is: "off", in the bootloader, "run" or "returned"
  lr,     \* who entered the bootloader: the "bootrom" (0) or a "caller"
  r0,     \* the status value read
  pads,   \* the pad registers of the flash pins
  vtor,   \* the vector table offset register
  timely, \* this boot pushes its commands in time
  boots   \* entries so far

cpu  == <<pc, lr, r0, vtor, timely, boots>>
bootVars == <<serial, flash, cpu, pads>>

PadReset ==
  [SCLK |-> SCLK_RESET, SD0 |-> SD0_RESET, SD1 |-> SD1_RESET, SD2 |-> SD2_RESET,
   SD3 |-> SD3_RESET, SS |-> SS_RESET]

SsiReset ==
  [ssienr |-> {}, ctrlr0 |-> {}, ctrlr1 |-> {}, baudr |-> {}, rx_sample_dly |-> {},
   spi_ctrlr0 |-> Compose(SPI_CTRLR0, [XIP_CMD |-> Bits(3)])]

CLKDIV == 2

-----------------------------------------------------------------------------
(* CTRLR0 and SPI_CTRLR0 as the three phases write them. *)
CTRL0_SPI_TXRX == Compose(CTRLR0, [DFS_32 |-> Bits(7), TMOD |-> Bits(TMOD_TX_AND_RX)])

CTRLR0_ENTER_XIP ==
  Compose(CTRLR0, [SPI_FRF |-> Bits(SPI_FRF_QUAD), DFS_32 |-> Bits(31),
                   TMOD |-> Bits(TMOD_EEPROM_READ)])

SPI_CTRLR0_ENTER_XIP ==
  Compose(SPI_CTRLR0, [ADDR_L |-> Bits(8), WAIT_CYCLES |-> Bits(4), INST_L |-> Bits(INST_L_8B),
                       TRANS_TYPE |-> Bits(TRANS_TYPE_1C2A)])

SPI_CTRLR0_XIP ==
  Compose(SPI_CTRLR0, [XIP_CMD |-> MODE_CONTINUOUS_READ, ADDR_L |-> Bits(8),
                       WAIT_CYCLES |-> Bits(4), INST_L |-> Bits(INST_L_NONE),
                       TRANS_TYPE |-> Bits(TRANS_TYPE_2C2A)])

-----------------------------------------------------------------------------
At(here, there) == pc = here /\ pc' = there

CpuKeeps == UNCHANGED <<lr, r0, vtor, timely, boots>>

(* Pads: SCLK 8 mA and fast; SD0 to SD3 take over SD0's word without its       *)
(* Schmitt trigger.                                                        *)
SetPads ==
  /\ At("pads", "disable")
  /\ LET sd == pads.SD0 \ Compose(PAD, [SCHMITT |-> Bits(1)])
     IN pads' = [pads EXCEPT
          !.SCLK = Compose(PAD, [DRIVE |-> Bits(DRIVE_8MA), SLEWFAST |-> Bits(1)]),
          !.SD0 = sd, !.SD1 = sd, !.SD2 = sd, !.SD3 = sd]
  /\ CpuKeeps /\ UNCHANGED <<serial, flash>>

(* The SSI is disabled and set up for single bytes. *)
Stop(here, there) == At(here, there) /\ Disable /\ CpuKeeps /\ UNCHANGED pads
Start(here, there) == At(here, there) /\ Enable /\ CpuKeeps /\ UNCHANGED pads

SetupBytes ==
  /\ At("bytes", "enable")
  /\ Configure([baudr |-> Bits(CLKDIV), rx_sample_dly |-> Bits(1), ctrlr0 |-> CTRL0_SPI_TXRX])
  /\ CpuKeeps /\ UNCHANGED pads

Send(here, there, word) == At(here, there) /\ Push(word) /\ CpuKeeps /\ UNCHANGED pads

(* wait_ssi_ready: nothing left to send, chip select high. *)
Ready == 2 \in Status /\ 0 \notin Status

(* Deviation: the loop looks at the FIFO only. *)
WaitReady_FifoOnly(here, there) ==
  /\ At(here, there)
  /\ 2 \in Status
  /\ CpuKeeps /\ UNCHANGED <<serial, flash, pads>>

WaitReady(here, there) ==
  /\ At(here, there)
  /\ Ready
  /\ CpuKeeps /\ UNCHANGED <<serial, flash, pads>>

(* read_flash_sreg, called for status register 2 (at "sr2") and 1 (at "sr1"): *)
(* command, dummy, wait, and the second of two reads counts.                *)
Sreg ==
  [sr2 |-> [command |-> CMD_READ_STATUS2, dummy |-> "sr2.dummy", wait |-> "sr2.wait",
            read |-> "sr2.read", test |-> "sr2.test"],
   sr1 |-> [command |-> CMD_READ_STATUS, dummy |-> "sr1.dummy", wait |-> "sr1.wait",
            read |-> "sr1.read", test |-> "sr1.test"]]

SregCommand(s) == Send(s, Sreg[s].dummy, Sreg[s].command)
SregDummy(s)   == Send(Sreg[s].dummy, Sreg[s].wait, Sreg[s].command)
SregWait(s)    == WaitReady(Sreg[s].wait, Sreg[s].read)

(* Deviation: the byte received with the command is taken. *)
SregRead_First(s) ==
  /\ At(Sreg[s].read, Sreg[s].test)
  /\ Drop(1) /\ r0' \in Popped(1)
  /\ UNCHANGED <<lr, vtor, timely, boots, ssi, tx, bus, flash, pads>>

SregRead(s) ==
  /\ At(Sreg[s].read, Sreg[s].test)
  /\ Drop(2) /\ r0' \in Popped(2)
  /\ UNCHANGED <<lr, vtor, timely, boots, ssi, tx, bus, flash, pads>>

ReadSreg == \E s \in {"sr2", "sr1"} : SregCommand(s) \/ SregDummy(s) \/ SregWait(s) \/ SregRead(s)

(* Status register 2 must be exactly SREG_DATA, or it is written. *)
CompareSreg ==
  /\ pc = "sr2.test"
  /\ pc' = IF r0 = SREG_DATA THEN "stop" ELSE "wren"
  /\ CpuKeeps /\ UNCHANGED <<serial, flash, pads>>

(* Write enable, then status registers 1 (0) and 2 (SREG_DATA). *)
Discard(here, there, n) ==
  At(here, there) /\ Drop(n) /\ CpuKeeps /\ UNCHANGED <<ssi, tx, bus, flash, pads>>

WriteEnable == \/ Send("wren", "wren.wait", CMD_WRITE_ENABLE)
               \/ WaitReady("wren.wait", "wren.drop")
               \/ Discard("wren.drop", "wrsr", 1)

WriteSreg == \/ Send("wrsr", "wrsr.1", CMD_WRITE_STATUS)
             \/ Send("wrsr.1", "wrsr.2", {})
             \/ Send("wrsr.2", "wrsr.wait", SREG_DATA)
             \/ WaitReady("wrsr.wait", "wrsr.drop")
             \/ Discard("wrsr.drop", "sr1", 3)

(* Deviation: the loop goes on while the flash is idle. *)
PollBusy_Inverted ==
  /\ pc = "sr1.test"
  /\ pc' = IF 0 \in r0 THEN "stop" ELSE "sr1"
  /\ CpuKeeps /\ UNCHANGED <<serial, flash, pads>>

(* Until the write is over. *)
PollBusy ==
  /\ pc = "sr1.test"
  /\ pc' = IF 0 \in r0 THEN "sr1" ELSE "stop"
  /\ CpuKeeps /\ UNCHANGED <<serial, flash, pads>>

(* The dummy read that puts the flash into continuous read mode. *)
SetupRead ==
  /\ At("read", "read.enable")
  /\ Configure([ctrlr0 |-> CTRLR0_ENTER_XIP, ctrlr1 |-> {}, spi_ctrlr0 |-> SPI_CTRLR0_ENTER_XIP])
  /\ CpuKeeps /\ UNCHANGED pads

DummyRead == \/ Send("eb", "a0", CMD_READ)
             \/ Send("a0", "eb.wait", MODE_CONTINUOUS_READ)
             \/ WaitReady("eb.wait", "eb.stop")

(* The SSI takes over the form of the reads that follow. *)
SetupXip ==
  /\ At("xip", "xip.enable")
  /\ Configure([spi_ctrlr0 |-> SPI_CTRLR0_XIP])
  /\ CpuKeeps /\ UNCHANGED pads

(* check_return: back to the caller, or through the vector table in flash. *)
Exit ==
  /\ pc = "exit"
  /\ IF lr = "bootrom"
       THEN pc' = "run" /\ vtor' = Xor(XIP_BASE, Bits(256))
       ELSE pc' = "returned" /\ UNCHANGED vtor
  /\ UNCHANGED <<lr, r0, timely, boots, serial, flash, pads>>

-----------------------------------------------------------------------------
(* A command is being pushed. *)
Pushing == pc \in {"sr2.dummy", "sr1.dummy", "wrsr.1", "wrsr.2"}

Shift  == (ShiftByte \/ ShiftQuad) /\ UNCHANGED <<cpu, pads>>
Select == Deselect /\ (timely => ~Pushing) /\ UNCHANGED <<cpu, pads>>
Settle == FlashDone /\ UNCHANGED <<cpu, pads>>

Booting == pc \notin {"off", "run", "returned"}

(* What a successful boot promises: SSI and flash agree on continuous quad    *)
(* reads, at speed, with pads that are otherwise as they were after reset.    *)
XipWorks == Enabled /\ XipRead /\ flash.cont /\ flash.qe /\ ~Busy
PadsSet  ==
  /\ Get(pads.SCLK, PAD.DRIVE) = Bits(DRIVE_8MA) /\ Get(pads.SCLK, PAD.SLEWFAST) = Bits(1)
  /\ \A p \in {"SD0", "SD1", "SD2", "SD3", "SS"} :
       pads[p] = PadReset[p] \ (IF p = "SS" THEN {} ELSE {1})

(* The bootrom has ended continuous reads, read the bootloader out of a flash *)
(* that answers, checked it and calls it; the SSI is as the bootrom used it.  *)
RomSsi ==
  [SsiReset EXCEPT !.ssienr = Bits(1), !.baudr = Bits(6), !.ctrlr0 = CTRL0_SPI_TXRX,
                   !.ctrlr1 = Bits(63)]

Enter(from) ==
  /\ boots < MaxBoots /\ ~Busy
  /\ pc' = "pads" /\ lr' = from /\ boots' = boots + 1 /\ timely' \in BOOLEAN
  /\ ssi' = RomSsi /\ tx' = <<>> /\ rx' \in {<<>>, <<{}>>} /\ bus' = <<>>
  /\ flash' = [flash EXCEPT !.cont = FALSE]
  /\ UNCHANGED <<r0, vtor, pads>>

FromRom    == pc = "off" /\ Enter("bootrom")
FromCaller == pc \in {"run", "returned"} /\ XipWorks /\ Enter("caller")

(* A reset of the chip: an open transaction ends, the flash goes on. *)
ResetTo(f) ==
  /\ pc # "off" /\ pc' = "off"
  /\ lr' = "bootrom" /\ r0' = {} /\ vtor' = {} /\ timely' = TRUE /\ UNCHANGED boots
  /\ ssi' = SsiReset /\ tx' = <<>> /\ rx' = <<>> /\ bus' = <<>>
  /\ pads' = PadReset
  /\ flash' = f

ChipReset == \E f \in (IF bus = <<>> THEN {flash} ELSE {flash, Execute(bus)}) : ResetTo(f)

(* A power cut also takes the volatile state, and a status write may be half   *)
(* done.                                                                   *)
PowerCut ==
  \E qe, cmp, prot \in BOOLEAN :
    /\ Busy \/ <<qe, cmp, prot>> = <<flash.qe, flash.cmp, flash.prot>>
    /\ ResetTo([flash EXCEPT !.qe = qe, !.cmp = cmp, !.prot = prot, !.wel = FALSE,
                             !.writing = "no", !.cont = FALSE])

-----------------------------------------------------------------------------
Cpu ==
  \/ SetPads \/ Stop("disable", "bytes") \/ SetupBytes \/ Start("enable", "sr2")
  \/ ReadSreg \/ CompareSreg \/ WriteEnable \/ WriteSreg \/ PollBusy
  \/ Stop("stop", "read") \/ SetupRead \/ Start("read.enable", "eb")
  \/ DummyRead \/ Stop("eb.stop", "xip") \/ SetupXip \/ Start("xip.enable", "exit") \/ Exit

BootInit ==
  /\ pc = "off" /\ lr = "bootrom" /\ r0 = {} /\ vtor = {} /\ timely = TRUE /\ boots = 0
  /\ ssi = SsiReset /\ tx = <<>> /\ rx = <<>> /\ bus = <<>>
  /\ pads = PadReset
  /\ flash \in {f \in Flash : ~f.wel /\ f.writing = "no" /\ ~f.cont}

BootNext ==
  \/ Cpu \/ Shift \/ Select \/ Settle
  \/ FromRom \/ FromCaller \/ ChipReset \/ PowerCut

BootSpec == BootInit /\ [][BootNext]_bootVars

FairBootSpec ==
  BootSpec /\ WF_bootVars(Cpu) /\ WF_bootVars(Shift) /\ WF_bootVars(Select) /\ WF_bootVars(Settle)

-----------------------------------------------------------------------------
Labels ==
  {"off", "pads", "disable", "bytes", "enable", "sr2", "sr2.dummy", "sr2.wait", "sr2.read",
   "sr2.test", "wren", "wren.wait", "wren.drop", "wrsr", "wrsr.1", "wrsr.2", "wrsr.wait",
   "wrsr.drop", "sr1", "sr1.dummy", "sr1.wait", "sr1.read", "sr1.test", "stop", "read",
   "read.enable", "eb", "a0", "eb.wait", "eb.stop", "xip", "xip.enable", "exit", "run", "returned"}

BootTypes ==
  /\ pc \in Labels /\ lr \in {"bootrom", "caller"} /\ r0 \in Word /\ vtor \in Word
  /\ timely \in BOOLEAN /\ boots \in 0 .. MaxBoots
  /\ \A r \in DOMAIN ssi : ssi[r] \in Word
  /\ \A p \in DOMAIN pads : pads[p] \in Word
  /\ tx \in Seq(Word) /\ rx \in Seq(Word) /\ bus \in Seq(Word)
  /\ flash \in Flash

(* Whatever earlier boots, resets and power cuts have left, a boot that is    *)
(* not held up goes on only when reads of the XIP window work: "SSI + flash   *)
(* are now jointly in a state where continuous reads can take place".  The    *)
(* next boot need not write the status registers then, unless bits are locked. *)
XipReady ==
  pc \in {"exit", "run", "returned"} /\ timely
    => XipWorks /\ PadsSet /\ (flash.otp \/ Status2 = SREG_DATA)

(* A write of the non-volatile status registers begins. *)
WriteBegins == flash'.writing \notin {flash.writing, "no"}

(* The status registers wear, and writing them lifts the block protection: a   *)
(* boot that is not held up writes them only when register 2 is not SREG_DATA, *)
(* whatever value it reads on the way and wherever a reset cuts a command.    *)
(* (Quad mode may be enabled then: another bit of register 2 is enough.)       *)
StatusKept == [][timely /\ WriteBegins => Status2 # SREG_DATA]_bootVars

(* A boot that is not held up and not reset comes to its end. *)
BootEnds == (Booting /\ timely) ~> ~Booting
=============================================================================
