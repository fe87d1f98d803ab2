--------------------------- MODULE QspiRegisters ---------------------------
(***************************************************************************)
(* The registers of the RP2040 that the second-stage bootloader uses, as    *)
(* its headers lay them out (runtime/boot2/hardware/regs): the flash serial *)
(* interface (ssi.h), the pads of the flash pins (pads_qspi.h) and the      *)
(* vector table offset (m0plus.h).                                         *)
(***************************************************************************)
EXTENDS Words

(* ssi.h *)
CTRLR0 ==
  [SSTE  |-> Span(24, 24), SPI_FRF |-> Span(22, 21), DFS_32 |-> Span(20, 16),
   CFS   |-> Span(15, 12), SRL     |-> Span(11, 11), SLV_OE |-> Span(10, 10),
   TMOD  |-> Span(9, 8),   SCPOL   |-> Span(7, 7),   SCPH   |-> Span(6, 6),
   FRF   |-> Span(5, 4),   DFS     |-> Span(3, 0)]

SPI_FRF_QUAD     == 2
TMOD_TX_AND_RX   == 0
TMOD_EEPROM_READ == 3

CTRLR1 == [NDF |-> Span(15, 0)]

SSIENR == [SSI_EN |-> Span(0, 0)]

BAUDR == [SCKDV |-> Span(15, 0)]

SR ==
  [DCOL |-> Span(6, 6), TXE |-> Span(5, 5), RFF  |-> Span(4, 4), RFNE |-> Span(3, 3),
   TFE  |-> Span(2, 2), TFNF |-> Span(1, 1), BUSY |-> Span(0, 0)]

FifoDepth == 16

RX_SAMPLE_DLY == [RSD |-> Span(7, 0)]

SPI_CTRLR0 ==
  [XIP_CMD     |-> Span(31, 24), SPI_RXDS_EN |-> Span(18, 18), INST_DDR_EN |-> Span(17, 17),
   SPI_DDR_EN  |-> Span(16, 16), WAIT_CYCLES |-> Span(15, 11), INST_L      |-> Span(9, 8),
   ADDR_L      |-> Span(5, 2),   TRANS_TYPE  |-> Span(1, 0)]

INST_L_NONE     == 0
INST_L_8B       == 2
TRANS_TYPE_1C2A == 1
TRANS_TYPE_2C2A == 2

(* pads_qspi.h: one layout, reset values per pin. *)
PAD ==
  [OD  |-> Span(7, 7), IE  |-> Span(6, 6), DRIVE   |-> Span(5, 4), PUE |-> Span(3, 3),
   PDE |-> Span(2, 2), SCHMITT |-> Span(1, 1), SLEWFAST |-> Span(0, 0)]

DRIVE_8MA == 2

SCLK_RESET == Compose(PAD, [IE |-> Bits(1), DRIVE |-> Bits(1), PDE |-> Bits(1), SCHMITT |-> Bits(1)])
SD0_RESET  == Compose(PAD, [IE |-> Bits(1), DRIVE |-> Bits(1), SCHMITT |-> Bits(1)])
SD1_RESET  == Compose(PAD, [IE |-> Bits(1), DRIVE |-> Bits(1), SCHMITT |-> Bits(1)])
SD2_RESET  == Compose(PAD, [IE |-> Bits(1), DRIVE |-> Bits(1), SCHMITT |-> Bits(1)])
SD3_RESET  == Compose(PAD, [IE |-> Bits(1), DRIVE |-> Bits(1), SCHMITT |-> Bits(1)])
SS_RESET   == Compose(PAD, [IE |-> Bits(1), DRIVE |-> Bits(1), PUE |-> Bits(1), SCHMITT |-> Bits(1)])

(* m0plus.h: the vector table is aligned to 256 bytes. *)
VTOR == [TBLOFF |-> Span(31, 8)]

(* addressmap.h *)
XIP_BASE == {28}
=============================================================================
