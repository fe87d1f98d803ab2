-------------------------------- MODULE Rtt --------------------------------
(***************************************************************************)
(* The RTT log of src/pico/rtt.mojo: a control block and a byte ring at a  *)
(* fixed RAM address, written by the firmware and drained by a debugger    *)
(* that reads and writes target memory while the firmware runs.            *)
(*                                                                         *)
(* Every access to shared memory is a step of its own, so the host may     *)
(* look at the block between any two of the firmware's stores.  `write`,   *)
(* `write_u32` and `write_hex` differ only in the bytes they produce: a    *)
(* message here is that sequence of bytes.                                 *)
(*                                                                         *)
(* RAM keeps its contents over a warm reset (WarmReset); at power-up it    *)
(* holds anything but a complete magic.                                    *)
(***************************************************************************)
EXTENDS Naturals, Sequences

CONSTANTS
  Size,       \* BUF_SIZE, bytes in the ring
  Byte,       \* the bytes messages are made of
  Messages,   \* the messages the program logs
  JunkOffset, \* what the two offset words may hold at power-up
  HostWaits,  \* the host lets the firmware boot before it scans
  None        \* the host has read no byte yet

ASSUME SizeAssumption == Size \in Nat /\ Size > 1
ASSUME MessageAssumption == Messages \subseteq Seq(Byte)
ASSUME JunkAssumption == JunkOffset \subseteq Nat
ASSUME HostAssumption == HostWaits \in BOOLEAN

VARIABLES
  good,   \* the control block words, offsets aside, that hold init's value
  wr,     \* the word _UP_WROFF
  rd,     \* the word _UP_RDOFF
  ring,   \* the bytes at BUF
  pc,     \* where the firmware is: "init", "idle", "room" or "copy"
  step,   \* the next store of init
  msg,    \* the message being written
  put,    \* how many of its bytes are in the ring
  pos,    \* the local `wr` of write
  hpc,    \* where the host is: "scan", "idle" or "copy"
  hw,     \* the WrOff it has read
  hpos,   \* the ring position it reads next
  out     \* the byte it read last

block    == <<good, wr, rd>>
firmware == <<pc, step, msg, put, pos>>
host     == <<hpc, hw, hpos, out>>
vars     == <<block, ring, firmware, host>>

Slots == 0 .. Size - 1

(* Deviation: the magic first. *)
InitOrder_MagicFirst ==
  <<"ID12", "ID8", "ID4", "ID0", "MAX_UP", "MAX_DOWN", "UP_NAME", "UP_BUF",
    "UP_SIZE", "UP_WROFF", "UP_RDOFF", "UP_FLAGS">>

(* The stores of init(), in its order; ID12 .. ID0 are the four magic words. *)
InitOrder == <<"MAX_UP", "MAX_DOWN", "UP_NAME", "UP_BUF", "UP_SIZE",
               "UP_WROFF", "UP_RDOFF", "UP_FLAGS", "ID12", "ID8", "ID4", "ID0">>

Magic      == {"ID12", "ID8", "ID4", "ID0"}
Descriptor == {"MAX_UP", "MAX_DOWN", "UP_NAME", "UP_BUF", "UP_SIZE", "UP_FLAGS"}

(* A host scan of RAM takes the block for an RTT control block. *)
LooksValid == Magic \subseteq good

(* The position after p, as _put computes it. *)
After(p) == IF p + 1 = Size THEN 0 ELSE p + 1

(* Deviations: the slot that tells full from empty is handed out; equal     *)
(* offsets are taken for a full ring.                                      *)
Room_OneTooMany(w, r)  == IF r > w THEN r - w ELSE Size - w + r
Room_EqualIsFull(w, r) == IF r >= w THEN r - w - 1 ELSE Size - 1 - w + r

(* _room: the free bytes, seen from write position w and read offset r. *)
Room(w, r) == IF r > w THEN r - w - 1 ELSE Size - 1 - w + r

-----------------------------------------------------------------------------
(* Power-up: the four magic words are not all there by chance. *)
Init ==
  /\ good \in (SUBSET Magic) \ {Magic}
  /\ wr \in JunkOffset
  /\ rd \in JunkOffset
  /\ ring \in [Slots -> Byte]
  /\ pc = "init" /\ step = 1
  /\ msg = <<>> /\ put = 0 /\ pos = 0
  /\ hpc = "scan" /\ hw = 0 /\ hpos = 0 /\ out = None

(* One store of rtt.init(). *)
InitStore ==
  /\ pc = "init"
  /\ LET word == InitOrder[step] IN
       /\ wr' = IF word = "UP_WROFF" THEN 0 ELSE wr
       /\ rd' = IF word = "UP_RDOFF" THEN 0 ELSE rd
       /\ good' = IF word \in Magic \cup Descriptor THEN good \cup {word} ELSE good
  /\ IF step = Len(InitOrder)
       THEN pc' = "idle" /\ step' = 1
       ELSE pc' = pc /\ step' = step + 1
  /\ UNCHANGED <<ring, msg, put, pos, host>>

(* write(s): the firmware reads WrOff and starts on message m. *)
Call(m) ==
  /\ pc = "idle"
  /\ pc' = "room"
  /\ msg' = m
  /\ put' = 0
  /\ pos' = wr
  /\ UNCHANGED <<block, ring, step, host>>

(* Deviation: no free-slot check. *)
Admit_Unchecked ==
  /\ pc = "room"
  /\ pc' = "copy"
  /\ UNCHANGED <<block, ring, step, msg, put, pos, host>>

(* _room reads RdOff: the message goes in whole or not at all. *)
Admit ==
  /\ pc = "room"
  /\ Len(msg) <= Room(pos, rd)
  /\ pc' = "copy"
  /\ UNCHANGED <<block, ring, step, msg, put, pos, host>>

(* Deviation: wait for room instead of dropping. *)
Drop_Waits ==
  /\ pc = "room"
  /\ Len(msg) > Room(pos, rd)
  /\ UNCHANGED vars

Drop ==
  /\ pc = "room"
  /\ Len(msg) > Room(pos, rd)
  /\ pc' = "idle"
  /\ UNCHANGED <<block, ring, step, msg, put, pos, host>>

(* Deviations: the position moves before the store; WrOff is published with *)
(* every byte.                                                             *)
Put_MovesFirst ==
  /\ pc = "copy"
  /\ put < Len(msg)
  /\ ring' = [ring EXCEPT ![After(pos)] = msg[put + 1]]
  /\ pos' = After(pos)
  /\ put' = put + 1
  /\ UNCHANGED <<block, pc, step, msg, host>>

Put_PublishesEach ==
  /\ pc = "copy"
  /\ put < Len(msg)
  /\ ring' = [ring EXCEPT ![pos] = msg[put + 1]]
  /\ pos' = After(pos)
  /\ wr' = pos'
  /\ put' = put + 1
  /\ UNCHANGED <<good, rd, pc, step, msg, host>>

(* _put: one byte into the ring. *)
Put ==
  /\ pc = "copy"
  /\ put < Len(msg)
  /\ ring' = [ring EXCEPT ![pos] = msg[put + 1]]
  /\ pos' = After(pos)
  /\ put' = put + 1
  /\ UNCHANGED <<block, pc, step, msg, host>>

(* WrOff is published once, after the data. *)
Publish ==
  /\ pc = "copy"
  /\ put = Len(msg)
  /\ wr' = pos
  /\ pc' = "idle"
  /\ UNCHANGED <<good, rd, ring, step, msg, put, pos, host>>

(* A soft or watchdog reset: the program starts over, RAM stays.  The host *)
(* is between sessions: the tools reset the board, then start a debugger.  *)
WarmReset ==
  /\ hpc = "scan"
  /\ pc' = "init"
  /\ step' = 1
  /\ UNCHANGED <<block, ring, msg, put, pos, host>>

-----------------------------------------------------------------------------
(* The host finds the magic and attaches.  The tools sleep after the reset *)
(* (HostWaits); a debugger left scanning does not.                         *)
HostAttach ==
  /\ hpc = "scan"
  /\ LooksValid
  /\ HostWaits => pc # "init"
  /\ hpc' = "idle"
  /\ UNCHANGED <<block, ring, firmware, hw, hpos, out>>

(* It reads the offsets. *)
HostPoll ==
  /\ hpc = "idle"
  /\ hw' = wr
  /\ hpos' = rd
  /\ hpc' = "copy"
  /\ UNCHANGED <<block, ring, firmware, out>>

(* It fetches the bytes up to the WrOff it has read, ... *)
HostRead ==
  /\ hpc = "copy"
  /\ hpos # hw
  /\ out' = ring[hpos]
  /\ hpos' = After(hpos)
  /\ UNCHANGED <<block, ring, firmware, hpc, hw>>

(* Deviation: RdOff is not written back. *)
HostRelease_Forgets ==
  /\ hpc = "copy"
  /\ hpos = hw
  /\ hpc' = "idle"
  /\ UNCHANGED <<block, ring, firmware, hw, hpos, out>>

(* ... and gives the room back by writing RdOff. *)
HostRelease ==
  /\ hpc = "copy"
  /\ hpos = hw
  /\ rd' = hw
  /\ hpc' = "idle"
  /\ UNCHANGED <<good, wr, ring, firmware, hw, hpos, out>>

(* The session ends between two polls. *)
HostDetach ==
  /\ hpc = "idle"
  /\ hpc' = "scan"
  /\ UNCHANGED <<block, ring, firmware, hw, hpos, out>>

-----------------------------------------------------------------------------
FirmwareStep ==
  \/ InitStore
  \/ \E m \in Messages : Call(m)
  \/ Admit \/ Drop \/ Put \/ Publish

HostStep == HostPoll \/ HostRead \/ HostRelease

Next ==
  \/ InitStore
  \/ \E m \in Messages : Call(m)
  \/ Admit \/ Drop \/ Put \/ Publish
  \/ WarmReset
  \/ HostAttach \/ HostPoll \/ HostRead \/ HostRelease \/ HostDetach

Spec == Init /\ [][Next]_vars

(* A board that is powered up once and never reset. *)
ColdSpec == Init /\ [][Next /\ ~WarmReset]_vars

(* The processor keeps executing, and a debugger keeps polling as long as   *)
(* it is attached; it need not come, and may leave for ever.                *)
FairSpec == Spec /\ WF_vars(FirmwareStep) /\ WF_vars(HostStep)

-----------------------------------------------------------------------------
(* Reading the block: how far b is ahead of a, and the position n after p. *)
Ahead(a, b)   == IF b >= a THEN b - a ELSE Size - a + b
Advance(p, n) == IF p + n < Size THEN p + n ELSE p + n - Size

(* The slots the block declares unread: from RdOff up to WrOff. *)
Pending == {p \in Slots : Ahead(rd, p) < Ahead(rd, wr)}

(* The bytes in memory `mem` from position f up to position w.              *)
Bytes(mem, f, w) == [i \in 1 .. Ahead(f, w) |-> mem[Advance(f, i - 1)]]

(* The bytes the host has still to fetch, oldest first.  A poll fetches     *)
(* from where it has got to, the next poll from RdOff.                      *)
From   == IF hpc = "copy" THEN hpos ELSE rd
Unread == IF pc = "init" THEN <<>> ELSE Bytes(ring, From, wr)

TypeOK ==
  /\ good \subseteq Magic \cup Descriptor
  /\ wr \in JunkOffset \cup Slots
  /\ rd \in JunkOffset \cup Slots
  /\ ring \in [Slots -> Byte]
  /\ pc \in {"init", "idle", "room", "copy"}
  /\ step \in 1 .. Len(InitOrder)
  /\ msg \in Messages \cup {<<>>}
  /\ put \in 0 .. Len(msg)
  /\ pos \in Slots
  /\ hpc \in {"scan", "idle", "copy"}
  /\ hw \in Slots
  /\ hpos \in Slots
  /\ out \in Byte \cup {None}

(* Once init is over both offsets are positions of the ring, ... *)
OffsetsInRing == pc # "init" => wr \in Slots /\ rd \in Slots

(* ... and zero as soon as init has stored them. *)
OffsetsCleared ==
  pc = "init" => (step > 6 => wr = 0) /\ (step > 7 => rd = 0)

(* A message is copied into free slots right behind WrOff: with the unread  *)
(* bytes it leaves the ring at most Size - 1 full.                          *)
WriterInFreeSlots ==
  /\ pc = "room" => put = 0 /\ pos = wr
  /\ pc = "copy" => /\ Ahead(rd, wr) + Len(msg) < Size
                    /\ pos = Advance(wr, put)

(* The host attaches to a running program, and its cursor lies between the  *)
(* RdOff and the WrOff of the block, whatever the firmware has done since.  *)
HostInUnread ==
  /\ hpc # "scan" => pc # "init"
  /\ hpc = "copy" => /\ Ahead(rd, hpos) <= Ahead(rd, hw)
                     /\ Ahead(rd, hw) <= Ahead(rd, wr)

(* The ring is consistent at every moment the two sides can see it: this is *)
(* what the free-slot computation of _room, the wrap of _put and the single *)
(* store of WrOff per message have to keep (rtt.mojo, _put, _room, write).  *)
RingConsistent ==
  OffsetsInRing /\ OffsetsCleared /\ WriterInFreeSlots /\ HostInUnread

(* Right behind WrOff lie the bytes of the message already put: publishing   *)
(* WrOff after the last of them hands over exactly the message (write).     *)
CopiedSoFar ==
  pc = "copy" => \A j \in 1 .. put : ring[Advance(wr, j - 1)] = msg[j]

(* No store of the firmware changes a byte that was unread before and is    *)
(* unread after it: "drop (never block)" never costs a byte already logged. *)
UnreadIsStable ==
  [][pc # "init" => \A p \in Pending : p \in Pending' => ring'[p] = ring[p]]_vars

(* A message is dropped only when it does not fit beside the unread bytes;  *)
(* one slot stays empty so that full and empty differ (write, _room).       *)
DropOnlyWhenFull ==
  [][pc = "room" /\ pc' = "idle" => Ahead(rd, wr) + Len(msg) > Size - 1]_vars

(* The host gets whole messages, in order, byte for byte; a warm restart of *)
(* the program empties the channel and nothing else is ever lost.           *)
Channel == INSTANCE RttChannel
             WITH unread <- Unread, Capacity <- Size - 1
ImplementsChannel == Channel!Spec

(* write never waits for the host: the program is back in its own code      *)
(* whether or not anybody drains the ring (overflow policy of rtt.mojo).    *)
NeverBlocks == pc = "room" ~> pc \in {"idle", "init"}

(* While a host is attached every slot that holds an unread byte is given   *)
(* back to the firmware: RdOff catches up with each WrOff published.        *)
RingIsDrained ==
  \A p \in Slots :
    (hpc # "scan" /\ p \in Pending) ~> (hpc = "scan" \/ p \notin Pending)

(* The log flows: no call waits, and a polling host gets every byte. *)
LogFlows == NeverBlocks /\ RingIsDrained

(* "magic last, so a host scan never sees a half-built block" (init): where  *)
(* a scan finds the magic the descriptor is complete, in the first boot or   *)
(* after any number of warm resets, at whatever store init stands.          *)
DescriptorBehindMagic == LooksValid => Descriptor \subseteq good

(* Part of the block is missing, or WrOff is the one of this boot and RdOff *)
(* still the one of the boot before.                                        *)
HalfBuilt ==
  \/ ~(Descriptor \subseteq good)
  \/ pc = "init" /\ step = 7 /\ rd # 0

(* "the only valid-looking block a host scan can find is a fully            *)
(* initialized one" (the header and init of rtt.mojo).                      *)
NoHalfBuiltBlock == LooksValid => ~HalfBuilt

=============================================================================
