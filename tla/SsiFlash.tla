------------------------------ MODULE SsiFlash ------------------------------
(***************************************************************************)
(* What the second-stage bootloader talks to: the SSI with its two FIFOs    *)
(* (registers: QspiRegisters), and behind its chip select the serial flash, *)
(* a Winbond W25Q or one of the parts boot2_w25q080.S lists.  The flash is   *)
(* modelled by the commands the bootloader gives it.                       *)
(***************************************************************************)
EXTENDS QspiRegisters, Sequences

VARIABLES
  ssi,    \* the registers of the SSI, as words
  tx, rx, \* its FIFOs
  bus,    \* the frames sent since the chip select fell; none while it is high
  flash   \* the flash chip

serial == <<ssi, tx, rx, bus>>

(* Command bytes and data (boot2_w25q080.S, configuration section). *)
CMD_WRITE_ENABLE     == Bits(6)
CMD_READ_STATUS      == Bits(5)
CMD_READ_STATUS2     == Bits(53)
CMD_WRITE_STATUS     == Bits(1)
CMD_READ             == Bits(235)
MODE_CONTINUOUS_READ == Bits(160)
SREG_DATA            == Bits(2)

(* What is shifted in while nobody drives the data line. *)
Noise == {{}, 0 .. 7}

-----------------------------------------------------------------------------
(* The flash.  Non-volatile are prot (the block protection of register 1)     *)
(* and in register 2 qe, cmp (a bit beside it that a write clears: the        *)
(* complement of the protection) and otp (security lock bits, which nothing   *)
(* clears); a status write in progress ("both" registers, or the "first"     *)
(* only) keeps the chip busy.                                              *)
Flash == [qe : BOOLEAN, cmp : BOOLEAN, otp : BOOLEAN, prot : BOOLEAN, wel : BOOLEAN,
          writing : {"no", "first", "both"}, cont : BOOLEAN]

Busy == flash.writing # "no"

Status1 == (IF Busy THEN {0} ELSE {}) \cup (IF flash.wel THEN {1} ELSE {})
             \cup (IF flash.prot THEN {2, 3, 4} ELSE {})
Status2 == (IF flash.qe THEN {1} ELSE {}) \cup (IF flash.otp THEN {3} ELSE {})
             \cup (IF flash.cmp THEN {6} ELSE {})

(* What it shifts out after the frames sent. *)
Reply(sent) ==
  IF sent = <<>> \/ flash.cont THEN Noise
  ELSE IF sent[1] = CMD_READ_STATUS THEN {Status1}
  ELSE IF sent[1] = CMD_READ_STATUS2 THEN {Status2}
  ELSE Noise

(* A command takes effect when the chip select rises; a busy chip ignores it, *)
(* one in continuous read mode takes it for an address.                    *)
Execute(sent) ==
  IF Busy \/ flash.cont THEN flash
  ELSE IF sent = <<CMD_WRITE_ENABLE>> THEN [flash EXCEPT !.wel = TRUE]
  ELSE IF flash.wel /\ sent = <<CMD_WRITE_STATUS, {}>>
    THEN [flash EXCEPT !.writing = "first"]
  ELSE IF flash.wel /\ sent = <<CMD_WRITE_STATUS, {}, SREG_DATA>>
    THEN [flash EXCEPT !.writing = "both"]
  ELSE IF flash.qe /\ sent = <<CMD_READ, MODE_CONTINUOUS_READ>>
    THEN [flash EXCEPT !.cont = TRUE]
  ELSE flash

(* The status write ends: both registers have the bytes sent, or register 1   *)
(* has, and register 2 is cleared on some of the parts and kept on others.   *)
Written(keep) ==
  [flash EXCEPT !.writing = "no", !.wel = FALSE, !.prot = FALSE,
                !.qe = flash.writing = "both" \/ (keep /\ flash.qe),
                !.cmp = keep /\ flash.cmp]

FlashDone ==
  /\ Busy
  /\ \E keep \in (IF flash.writing = "both" THEN {FALSE} ELSE BOOLEAN) : flash' = Written(keep)
  /\ UNCHANGED serial

-----------------------------------------------------------------------------
(* The SSI. *)
Enabled == 0 \in ssi.ssienr

Zero(layout) == [f \in DOMAIN layout |-> {}]

(* 8-bit frames, transmit and receive, standard format. *)
ByteMode ==
  Decode(CTRLR0, ssi.ctrlr0) =
    [Zero(CTRLR0) EXCEPT !.DFS_32 = Bits(7), !.TMOD = Bits(TMOD_TX_AND_RX)]

(* Quad read: instruction, address and mode bits out, then a 32-bit frame in. *)
QuadMode ==
  Decode(CTRLR0, ssi.ctrlr0) =
    [Zero(CTRLR0) EXCEPT !.SPI_FRF = Bits(SPI_FRF_QUAD), !.DFS_32 = Bits(31),
                         !.TMOD = Bits(TMOD_EEPROM_READ)]

(* 32 bits of address and mode, four wait cycles ... *)
Addressing(inst, type) ==
  LET f == Decode(SPI_CTRLR0, ssi.spi_ctrlr0)
  IN [f EXCEPT !.XIP_CMD = {}] =
       [Zero(SPI_CTRLR0) EXCEPT !.ADDR_L = Bits(8), !.WAIT_CYCLES = Bits(4),
                                !.INST_L = Bits(inst), !.TRANS_TYPE = Bits(type)]

(* ... behind a serial instruction, or without one (execute in place). *)
InstructionRead == QuadMode /\ Addressing(INST_L_8B, TRANS_TYPE_1C2A)
XipRead ==
  /\ QuadMode /\ Addressing(INST_L_NONE, TRANS_TYPE_2C2A)
  /\ Get(ssi.spi_ctrlr0, SPI_CTRLR0.XIP_CMD) = MODE_CONTINUOUS_READ

(* The status register. *)
Status ==
  Compose(SR, [BUSY |-> IF bus # <<>> THEN Bits(1) ELSE {},
               TFE  |-> IF tx = <<>> THEN Bits(1) ELSE {},
               TFNF |-> IF Len(tx) < FifoDepth THEN Bits(1) ELSE {},
               RFNE |-> IF rx # <<>> THEN Bits(1) ELSE {},
               RFF  |-> IF Len(rx) = FifoDepth THEN Bits(1) ELSE {}])

(* A byte goes out and another comes in. *)
ShiftByte ==
  /\ Enabled /\ ByteMode /\ tx # <<>>
  /\ \E in \in Reply(bus) : rx' = Append(rx, in)
  /\ bus' = Append(bus, Head(tx)) /\ tx' = Tail(tx)
  /\ UNCHANGED <<ssi, flash>>

(* The address starts the transaction; the frames received are noise. *)
ShiftQuad ==
  /\ Enabled /\ InstructionRead /\ Len(tx) = 2
  /\ bus' = tx /\ tx' = <<>>
  /\ \E in \in Noise : rx' = Append(rx, in)
  /\ UNCHANGED <<ssi, flash>>

(* With nothing left to send the chip select rises. *)
Deselect ==
  /\ bus # <<>> /\ tx = <<>>
  /\ bus' = <<>> /\ flash' = Execute(bus)
  /\ UNCHANGED <<ssi, tx, rx>>

-----------------------------------------------------------------------------
(* Accesses of the processor.  Configuration is ignored while the SSI is      *)
(* enabled; disabling it empties the FIFOs and ends the transaction.         *)
Configure(values) ==
  /\ ssi' = IF Enabled THEN ssi ELSE [r \in DOMAIN ssi |-> IF r \in DOMAIN values THEN values[r] ELSE ssi[r]]
  /\ UNCHANGED <<tx, rx, bus, flash>>

Disable ==
  /\ ssi' = [ssi EXCEPT !.ssienr = {}]
  /\ tx' = <<>> /\ rx' = <<>> /\ bus' = <<>>
  /\ flash' \in IF bus = <<>> THEN {flash} ELSE {flash, Execute(bus)}

Enable ==
  /\ ssi' = [ssi EXCEPT !.ssienr = Bits(1)]
  /\ UNCHANGED <<tx, rx, bus, flash>>

Push(word) ==
  /\ Len(tx) < FifoDepth
  /\ tx' = IF Enabled THEN Append(tx, word) ELSE tx
  /\ UNCHANGED <<ssi, rx, bus, flash>>

(* n reads of DR0: the last one counts; an empty FIFO gives noise. *)
Drop(n) == rx' = IF n >= Len(rx) THEN <<>> ELSE SubSeq(rx, n + 1, Len(rx))

Popped(n) == IF n <= Len(rx) THEN {rx[n]} ELSE Noise
=============================================================================
