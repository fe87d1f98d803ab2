----------------------------- MODULE RttProofs -----------------------------
(***************************************************************************)
(* Theorems about Rtt for every ring size, byte set and message set.       *)
(* TypeOK and RingConsistent are inductive together: a step keeps the two  *)
(* offsets inside the ring only because the copy position is where the     *)
(* free-slot check left it, and the free-slot check stays right while the  *)
(* copy is under way only because the host's cursor never passes WrOff.    *)
(***************************************************************************)
EXTENDS Rtt, SequenceTheorems, TLAPS

Inv == TypeOK /\ RingConsistent

(* Every message is a sequence of bytes, and so is the initial empty one. *)
LEMMA MessageIsSequence ==
  ASSUME TypeOK
  PROVE  msg \in Seq(Byte) /\ Len(msg) \in Nat
<1>1. CASE msg \in Messages
  <2>1. msg \in Seq(Byte)
    BY <1>1, MessageAssumption, Zenon
  <2>2. QED
    BY <2>1
<1>2. CASE msg = <<>>
  BY <1>2
<1>3. QED
  BY <1>1, <1>2 DEF TypeOK

(* Facts on ring positions: After moves one on, Advance composes with it.  *)
LEMMA AfterInSlots ==
  ASSUME NEW p \in Slots
  PROVE  After(p) \in Slots
BY SizeAssumption DEF Slots, After

LEMMA AheadInSlots ==
  ASSUME NEW p \in Slots, NEW q \in Slots
  PROVE  Ahead(p, q) \in Slots
BY SizeAssumption DEF Slots, Ahead

LEMMA AfterAdvance ==
  ASSUME NEW p \in Slots, NEW n \in Nat, n + 1 < Size
  PROVE  After(Advance(p, n)) = Advance(p, n + 1)
BY SizeAssumption DEF Slots, After, Advance

(* _room computes what is left of Size - 1 beside the unread bytes.        *)
LEMMA RoomIsFree ==
  ASSUME NEW w \in Slots, NEW r \in Slots
  PROVE  Room(w, r) = Size - 1 - Ahead(r, w)
BY SizeAssumption DEF Slots, Room, Ahead

(* The 12 stores of init end with the offsets at zero and in that order.   *)
LEMMA InitOrderFacts ==
  /\ Len(InitOrder) = 12
  /\ \A i \in 1 .. 12 : /\ InitOrder[i] = "UP_WROFF" <=> i = 6
                        /\ InitOrder[i] = "UP_RDOFF" <=> i = 7
BY DEF InitOrder

(* Moving WrOff n on lengthens the unread span by n, as long as it fits.   *)
LEMMA AheadAdvance ==
  ASSUME NEW r \in Slots, NEW w \in Slots, NEW n \in Nat, Ahead(r, w) + n < Size
  PROVE  /\ Advance(w, n) \in Slots
         /\ Ahead(r, Advance(w, n)) = Ahead(r, w) + n
BY SizeAssumption DEF Slots, Ahead, Advance

(* Moving a cursor one on inside a span.                                   *)
LEMMA AheadAfter ==
  ASSUME NEW r \in Slots, NEW p \in Slots, NEW w \in Slots,
         p # w, Ahead(r, p) <= Ahead(r, w)
  PROVE  /\ Ahead(r, After(p)) = Ahead(r, p) + 1
         /\ Ahead(r, p) + 1 <= Ahead(r, w)
BY SizeAssumption DEF Slots, Ahead, After

(* Splitting a span at a cursor inside it.                                 *)
LEMMA AheadSplit ==
  ASSUME NEW r \in Slots, NEW h \in Slots, NEW w \in Slots,
         Ahead(r, h) <= Ahead(r, w)
  PROVE  Ahead(h, w) = Ahead(r, w) - Ahead(r, h)
BY SizeAssumption DEF Slots, Ahead

LEMMA AheadSelf ==
  ASSUME NEW r \in Slots
  PROVE  Ahead(r, r) = 0
BY SizeAssumption DEF Slots, Ahead

(* Power-up establishes the invariant: nothing is read before init is over. *)
LEMMA InitInv == Init => Inv
<1> SUFFICES ASSUME Init PROVE Inv
  OBVIOUS
<1>1. TypeOK
  BY SizeAssumption, InitOrderFacts DEF Init, TypeOK, Slots
<1>2. RingConsistent
  BY DEF Init, RingConsistent, OffsetsInRing, OffsetsCleared, WriterInFreeSlots, HostInUnread
<1>3. QED
  BY <1>1, <1>2 DEF Inv

(* The stores of init leave the offsets at zero before the program runs.   *)
LEMMA InitStoreInv ==
  ASSUME Inv, InitStore PROVE Inv'
<1> USE DEF Inv, RingConsistent
<1>1. 0 \in Slots
  BY SizeAssumption DEF Slots
<1>2. TypeOK'
  <2>1. good' \subseteq Magic \cup Descriptor
    BY DEF TypeOK, InitStore
  <2>2. wr' \in JunkOffset \cup Slots /\ rd' \in JunkOffset \cup Slots
    BY <1>1 DEF TypeOK, InitStore
  <2>3. step' \in 1 .. Len(InitOrder) /\ pc' \in {"init", "idle"}
    BY InitOrderFacts DEF TypeOK, InitStore
  <2>4. QED
    BY <2>1, <2>2, <2>3 DEF TypeOK, InitStore, host
<1>3. OffsetsCleared'
  BY InitOrderFacts DEF TypeOK, InitStore, OffsetsCleared
<1>4. OffsetsInRing'
  BY <1>1, InitOrderFacts DEF TypeOK, InitStore, OffsetsCleared, OffsetsInRing
<1>5. WriterInFreeSlots'
  BY DEF InitStore, WriterInFreeSlots
<1>6. HostInUnread'
  BY DEF InitStore, HostInUnread, TypeOK, host
<1>7. QED
  BY <1>2, <1>3, <1>4, <1>5, <1>6

LEMMA CallInv ==
  ASSUME Inv, NEW m \in Messages, Call(m) PROVE Inv'
<1> USE DEF Inv, RingConsistent, Call, block, host
<1>1. m \in Seq(Byte) /\ 0 \in 0 .. Len(m)
  BY MessageAssumption
<1>2. TypeOK'
  BY <1>1 DEF TypeOK, OffsetsInRing
<1>3. RingConsistent'
  BY DEF OffsetsInRing, OffsetsCleared, WriterInFreeSlots, HostInUnread, Ahead
<1>4. QED
  BY <1>2, <1>3

(* Admit: the free-slot check is what makes room for the whole message.     *)
LEMMA AdmitInv ==
  ASSUME Inv, Admit PROVE Inv'
<1> USE DEF Inv, RingConsistent, Admit, block, host
<1>1. TypeOK'
  BY DEF TypeOK
<1>2. wr \in Slots /\ rd \in Slots
  BY DEF OffsetsInRing
<1>3. Ahead(rd, wr) + Len(msg) < Size
  <2>1. pos = wr
    BY DEF WriterInFreeSlots
  <2>2. Len(msg) <= Size - 1 - Ahead(rd, wr)
    BY <1>2, <2>1, RoomIsFree
  <2>3. Ahead(rd, wr) \in Nat /\ Len(msg) \in Nat
    BY <1>2, AheadInSlots, MessageIsSequence DEF Slots
  <2>4. QED
    BY <2>2, <2>3, SizeAssumption
<1>4. pos = Advance(wr, put)
  BY <1>2, SizeAssumption DEF WriterInFreeSlots, Advance, Slots
<1>5. WriterInFreeSlots'
  BY <1>3, <1>4 DEF WriterInFreeSlots, Ahead, Advance
<1>6. QED
  BY <1>1, <1>5 DEF OffsetsInRing, OffsetsCleared, HostInUnread, Ahead

LEMMA PutInv ==
  ASSUME Inv, Put PROVE Inv'
<1> USE DEF Inv, RingConsistent, Put, block, host
<1>1. /\ wr \in Slots /\ rd \in Slots /\ pos \in Slots
      /\ put \in Nat /\ Len(msg) \in Nat
  BY MessageIsSequence DEF OffsetsInRing, TypeOK
<1>2. Ahead(rd, wr) + Len(msg) < Size /\ pos = Advance(wr, put)
  BY DEF WriterInFreeSlots
<1>3. put + 1 < Size
  <2>1. Ahead(rd, wr) \in Nat
    BY <1>1, AheadInSlots DEF Slots
  <2>2. QED
    BY <1>1, <1>2, <2>1, SizeAssumption
<1>4. pos' = Advance(wr, put + 1)
  BY <1>1, <1>2, <1>3, AfterAdvance
<1>5. pos' \in Slots
  BY <1>1, AfterInSlots
<1>6. ring' \in [Slots -> Byte]
  <2>1. msg[put + 1] \in Byte
    BY <1>1, MessageIsSequence
  <2>2. QED
    BY <2>1 DEF TypeOK
<1>7. TypeOK'
  BY <1>1, <1>5, <1>6 DEF TypeOK
<1>8. WriterInFreeSlots'
  BY <1>2, <1>4 DEF WriterInFreeSlots, Ahead, Advance
<1>9. QED
  BY <1>7, <1>8 DEF OffsetsInRing, OffsetsCleared, HostInUnread, Ahead

(* Publish: the host's cursor stays behind the new WrOff.                  *)
LEMMA PublishInv ==
  ASSUME Inv, Publish PROVE Inv'
<1> USE DEF Inv, RingConsistent, Publish, host
<1>1. wr \in Slots /\ rd \in Slots /\ Len(msg) \in Nat
  BY MessageIsSequence DEF OffsetsInRing
<1>2. wr' \in Slots /\ Ahead(rd, wr') = Ahead(rd, wr) + Len(msg)
  BY <1>1, AheadAdvance DEF WriterInFreeSlots
<1>3. TypeOK'
  BY <1>2 DEF TypeOK
<1>4. HostInUnread'
  <2>1. CASE hpc = "copy"
    <3>1. Ahead(rd, hw) <= Ahead(rd, wr')
      <4>1. hw \in Slots /\ Ahead(rd, hw) <= Ahead(rd, wr)
        BY <2>1 DEF HostInUnread, TypeOK
      <4>2. Ahead(rd, hw) \in Nat /\ Ahead(rd, wr) \in Nat
        BY <1>1, <4>1, AheadInSlots DEF Slots
      <4>3. QED
        BY <1>1, <1>2, <4>1, <4>2
    <3>2. QED
      BY <2>1, <3>1 DEF HostInUnread, Ahead
  <2>2. CASE hpc # "copy"
    BY <2>2 DEF HostInUnread
  <2>3. QED
    BY <2>1, <2>2
<1>5. QED
  BY <1>1, <1>2, <1>3, <1>4 DEF OffsetsInRing, OffsetsCleared, WriterInFreeSlots

(* Drop, WarmReset, HostAttach and HostDetach move no offset.  The host is  *)
(* not attached when the board restarts, and waits for it to boot.         *)
LEMMA ControlStepInv ==
  ASSUME Inv, HostWaits, Drop \/ WarmReset \/ HostAttach \/ HostDetach PROVE Inv'
<1> USE DEF Inv, RingConsistent, Drop, WarmReset, HostAttach, HostDetach,
            block, firmware, host
<1>1. TypeOK'
  BY InitOrderFacts DEF TypeOK
<1>2. OffsetsInRing' /\ OffsetsCleared'
  BY InitOrderFacts DEF OffsetsInRing, OffsetsCleared
<1>3. WriterInFreeSlots'
  BY DEF WriterInFreeSlots, Ahead, Advance
<1>4. HostInUnread'
  BY DEF HostInUnread, Ahead
<1>5. QED
  BY <1>1, <1>2, <1>3, <1>4

LEMMA HostPollInv ==
  ASSUME Inv, HostPoll PROVE Inv'
<1> USE DEF Inv, RingConsistent, HostPoll, block, firmware
<1>1. wr \in Slots /\ rd \in Slots
  BY DEF OffsetsInRing, HostInUnread
<1>2. TypeOK'
  BY <1>1 DEF TypeOK
<1>3. Ahead(rd, rd) <= Ahead(rd, wr) /\ Ahead(rd, wr) <= Ahead(rd, wr)
  BY <1>1, AheadSelf, AheadInSlots DEF Slots
<1>4. HostInUnread'
  BY <1>3 DEF HostInUnread, Ahead
<1>5. QED
  BY <1>2, <1>4 DEF OffsetsInRing, OffsetsCleared, WriterInFreeSlots, Ahead, Advance

LEMMA HostReadInv ==
  ASSUME Inv, HostRead PROVE Inv'
<1> USE DEF Inv, RingConsistent, HostRead, block, firmware
<1>1. /\ wr \in Slots /\ rd \in Slots /\ hpos \in Slots /\ hw \in Slots
      /\ Ahead(rd, hpos) <= Ahead(rd, hw)
  BY DEF OffsetsInRing, HostInUnread, TypeOK
<1>2. Ahead(rd, After(hpos)) <= Ahead(rd, hw)
  BY <1>1, AheadAfter
<1>3. hpos' \in Slots
  BY <1>1, AfterInSlots
<1>4. TypeOK'
  BY <1>1, <1>3 DEF TypeOK
<1>5. HostInUnread'
  BY <1>2 DEF HostInUnread, Ahead
<1>6. QED
  BY <1>4, <1>5 DEF OffsetsInRing, OffsetsCleared, WriterInFreeSlots, Ahead, Advance

(* HostRelease: giving slots back shortens the unread span from its start, *)
(* so a copy under way only gains room.                                    *)
LEMMA HostReleaseInv ==
  ASSUME Inv, HostRelease PROVE Inv'
<1> USE DEF Inv, RingConsistent, HostRelease, firmware
<1>1. /\ wr \in Slots /\ rd \in Slots /\ hw \in Slots /\ Len(msg) \in Nat
      /\ Ahead(rd, hw) <= Ahead(rd, wr) /\ pc # "init"
  BY MessageIsSequence DEF OffsetsInRing, HostInUnread, TypeOK
<1>2. TypeOK'
  BY <1>1 DEF TypeOK
<1>3. Ahead(hw, wr) <= Ahead(rd, wr)
  BY <1>1, AheadSplit, AheadInSlots DEF Slots
<1>4. pc = "copy" => Ahead(hw, wr) + Len(msg) < Size
  <2> SUFFICES ASSUME pc = "copy" PROVE Ahead(hw, wr) + Len(msg) < Size
    OBVIOUS
  <2>1. Ahead(rd, wr) + Len(msg) < Size
    BY DEF WriterInFreeSlots
  <2>2. Ahead(hw, wr) \in Nat /\ Ahead(rd, wr) \in Nat
    BY <1>1, AheadInSlots DEF Slots
  <2>3. QED
    BY <1>1, <1>3, <2>1, <2>2, SizeAssumption
<1>5. WriterInFreeSlots'
  BY <1>4 DEF WriterInFreeSlots, Advance, Ahead
<1>6. QED
  BY <1>1, <1>2, <1>5 DEF OffsetsInRing, OffsetsCleared, HostInUnread

LEMMA StepInv == HostWaits /\ Inv /\ [Next]_vars => Inv'
<1> SUFFICES ASSUME HostWaits, Inv, [Next]_vars PROVE Inv'
  OBVIOUS
<1>1. CASE Next
  BY <1>1, InitStoreInv, CallInv, AdmitInv, PutInv, PublishInv, ControlStepInv,
     HostPollInv, HostReadInv, HostReleaseInv DEF Next
<1>2. CASE UNCHANGED vars
  BY <1>2 DEF vars, block, firmware, host, Inv, RingConsistent, TypeOK,
     OffsetsInRing, OffsetsCleared, WriterInFreeSlots, HostInUnread, Ahead, Advance
<1>3. QED
  BY <1>1, <1>2

(* The ring of rtt.mojo is consistent at every moment, provided the host    *)
(* attaches to a firmware that has finished init().                         *)
THEOREM RingIsConsistent ==
  ASSUME HostWaits
  PROVE  Spec => [](TypeOK /\ RingConsistent)
<1>1. Init => Inv
  BY InitInv
<1>2. Inv /\ [Next]_vars => Inv'
  BY StepInv
<1>3. QED
  BY <1>1, <1>2, PTL DEF Spec, Inv

(* Only Put stores into the ring, and it does so past the last unread byte. *)
LEMMA StepKeepsUnread ==
  ASSUME Inv, [Next]_vars, pc # "init", NEW p \in Pending
  PROVE  ring'[p] = ring[p]
<1> USE DEF Inv, RingConsistent
<1>1. CASE Put
  <2>1. /\ wr \in Slots /\ rd \in Slots /\ put \in Nat /\ Len(msg) \in Nat
        /\ put < Len(msg) /\ ring \in [Slots -> Byte]
    BY <1>1, MessageIsSequence DEF OffsetsInRing, TypeOK, Put
  <2>2. Ahead(rd, wr) + Len(msg) < Size /\ pos = Advance(wr, put)
    BY <1>1 DEF WriterInFreeSlots, Put
  <2>3. Ahead(rd, wr) \in Nat
    BY <2>1, AheadInSlots DEF Slots
  <2>4. Ahead(rd, pos) = Ahead(rd, wr) + put
    <3>1. Ahead(rd, wr) + put < Size
      BY <2>1, <2>2, <2>3, SizeAssumption
    <3>2. QED
      BY <2>1, <2>2, <3>1, AheadAdvance
  <2>5. Ahead(rd, p) < Ahead(rd, wr) /\ p \in Slots
    BY DEF Pending
  <2>6. p # pos
    BY <2>1, <2>3, <2>4, <2>5
  <2>7. QED
    BY <1>1, <2>1, <2>5, <2>6 DEF Put
<1>2. CASE UNCHANGED ring
  BY <1>2
<1>3. CASE ~Put /\ ~UNCHANGED ring
  BY <1>3 DEF Next, vars, InitStore, Call, Admit, Drop, Publish, WarmReset,
     HostAttach, HostPoll, HostRead, HostRelease, HostDetach
<1>4. QED
  BY <1>1, <1>2, <1>3

(* A byte that is logged and not yet read keeps its value: "drop (never     *)
(* block)" never overwrites (rtt.mojo, write and _room).                    *)
THEOREM UnreadBytesAreStable ==
  ASSUME HostWaits
  PROVE  Spec => UnreadIsStable
<1>1. Inv /\ [Next]_vars
        => [pc # "init" => \A p \in Pending : p \in Pending' => ring'[p] = ring[p]]_vars
  BY StepKeepsUnread
<1>2. QED
  BY <1>1, InitInv, StepInv, PTL DEF Spec, UnreadIsStable

(* A message that fits beside the unread bytes is never dropped.            *)
THEOREM FittingMessageIsKept ==
  ASSUME HostWaits
  PROVE  Spec => DropOnlyWhenFull
<1>1. Inv /\ [Next]_vars
        => [pc = "room" /\ pc' = "idle" => Ahead(rd, wr) + Len(msg) > Size - 1]_vars
  <2> SUFFICES ASSUME Inv, Next, pc = "room", pc' = "idle"
               PROVE  Ahead(rd, wr) + Len(msg) > Size - 1
    OBVIOUS
  <2> USE DEF Inv, RingConsistent
  <2>1. Drop
    BY DEF Next, InitStore, Call, Admit, Put, Publish, WarmReset, HostAttach,
       HostPoll, HostRead, HostRelease, HostDetach, firmware
  <2>2. wr \in Slots /\ rd \in Slots /\ pos = wr
    BY DEF OffsetsInRing, WriterInFreeSlots
  <2>3. Len(msg) > Size - 1 - Ahead(rd, wr)
    BY <2>1, <2>2, RoomIsFree DEF Drop
  <2>4. Ahead(rd, wr) \in Nat /\ Len(msg) \in Nat
    BY <2>2, AheadInSlots, MessageIsSequence DEF Slots
  <2>5. QED
    BY <2>3, <2>4, SizeAssumption
<1>2. QED
  BY <1>1, InitInv, StepInv, PTL DEF Spec, DropOnlyWhenFull

-----------------------------------------------------------------------------
(* The order of init's stores: the descriptor words come in stores 1 to 8,  *)
(* the first magic word in store 9.                                         *)
ColdInv ==
  /\ good \subseteq Magic \cup Descriptor
  /\ step \in 1 .. 12
  /\ pc = "init" =>
       /\ step <= 9 => ~(Magic \subseteq good)
       /\ \A i \in 1 .. step - 1 : InitOrder[i] \in Descriptor => InitOrder[i] \in good
  /\ pc # "init" => Descriptor \subseteq good

LEMMA DescriptorStores ==
  \A w \in Descriptor : \E i \in 1 .. 8 : InitOrder[i] = w
BY DEF Descriptor, InitOrder

LEMMA MagicStores ==
  \A i \in 1 .. 8 : InitOrder[i] \notin Magic
BY DEF Magic, InitOrder

LEMMA ColdStepInv == ColdInv /\ [Next /\ ~WarmReset]_vars => ColdInv'
<1> SUFFICES ASSUME ColdInv, [Next /\ ~WarmReset]_vars PROVE ColdInv'
  OBVIOUS
<1> USE DEF ColdInv
<1>1. CASE InitStore
  <2> USE <1>1 DEF InitStore
  <2>1. good' \subseteq Magic \cup Descriptor /\ step' \in 1 .. 12 /\ pc = "init"
    BY InitOrderFacts
  <2>2. \A i \in 1 .. step : InitOrder[i] \in Descriptor => InitOrder[i] \in good'
    BY InitOrderFacts
  <2>3. CASE step = 12
    <3>1. Descriptor \subseteq good'
      BY <2>2, <2>3, DescriptorStores
    <3>2. QED
      BY <2>1, <2>3, <3>1, InitOrderFacts
  <2>4. CASE step # 12
    <3>1. pc' = "init" /\ step' = step + 1
      BY <2>4, InitOrderFacts
    <3>2. step' <= 9 => ~(Magic \subseteq good')
      <4> SUFFICES ASSUME step \in 1 .. 8, Magic \subseteq good' PROVE FALSE
        BY <2>1, <3>1
      <4>1. InitOrder[step] \notin Magic
        BY MagicStores
      <4>2. Magic \subseteq good
        BY <4>1
      <4>3. QED
        BY <2>1, <4>2
    <3>3. QED
      BY <2>1, <2>2, <3>1, <3>2
  <2>5. QED
    BY <2>3, <2>4
<1>2. CASE UNCHANGED <<good, pc, step>>
  BY <1>2
<1>3. CASE UNCHANGED <<good, step>> /\ pc # "init" /\ pc' # "init"
  BY <1>3
<1>4. [Next /\ ~WarmReset]_vars =>
        \/ InitStore
        \/ UNCHANGED <<good, pc, step>>
        \/ UNCHANGED <<good, step>> /\ pc # "init" /\ pc' # "init"
  BY DEF Next, vars, block, firmware, Call, Admit, Drop, Put, Publish,
     HostAttach, HostPoll, HostRead, HostRelease, HostDetach
<1>5. QED
  BY <1>1, <1>2, <1>3, <1>4

(* After power-up, whatever RAM then holds, a host scan finds no half-built *)
(* block: the claim in the header of rtt.mojo, for a board that is not      *)
(* reset with the old block still in RAM.                                   *)
THEOREM PowerUpScanIsSafe == ColdSpec => []NoHalfBuiltBlock
<1>1. Init => ColdInv
  <2> SUFFICES ASSUME Init PROVE ColdInv
    OBVIOUS
  <2>1. good \subseteq Magic /\ ~(Magic \subseteq good)
    BY DEF Init
  <2>2. step = 1 /\ pc = "init"
    BY DEF Init
  <2>3. QED
    BY <2>1, <2>2 DEF ColdInv
<1>2. ColdInv => NoHalfBuiltBlock
  <2> SUFFICES ASSUME ColdInv, LooksValid PROVE ~HalfBuilt
    BY DEF NoHalfBuiltBlock
  <2>1. CASE pc = "init"
    <3>1. step \in 1 .. 12 /\ step > 9
      BY <2>1 DEF ColdInv, LooksValid
    <3>2. Descriptor \subseteq good
      BY <2>1, <3>1, DescriptorStores DEF ColdInv
    <3>3. QED
      BY <3>1, <3>2 DEF HalfBuilt
  <2>2. CASE pc # "init"
    BY <2>2 DEF ColdInv, HalfBuilt
  <2>3. QED
    BY <2>1, <2>2
<1>3. QED
  BY <1>1, <1>2, ColdStepInv, PTL DEF ColdSpec

-----------------------------------------------------------------------------
(* Over warm resets the magic may be there from the start, but then so is   *)
(* the descriptor, and init stores the magic only behind it.                *)
ScanInv ==
  /\ good \subseteq Magic \cup Descriptor
  /\ step \in 1 .. 12
  /\ pc = "init" =>
       \A i \in 1 .. step - 1 : InitOrder[i] \in Descriptor => InitOrder[i] \in good
  /\ pc # "init" => Descriptor \subseteq good
  /\ DescriptorBehindMagic

LEMMA ScanStepInv == ScanInv /\ [Next]_vars => ScanInv'
<1> SUFFICES ASSUME ScanInv, [Next]_vars PROVE ScanInv'
  OBVIOUS
<1> USE DEF ScanInv, DescriptorBehindMagic, LooksValid
<1>1. CASE InitStore
  <2> USE <1>1 DEF InitStore
  <2>1. good' \subseteq Magic \cup Descriptor /\ step' \in 1 .. 12 /\ pc = "init"
    BY InitOrderFacts
  <2>2. \A i \in 1 .. step : InitOrder[i] \in Descriptor => InitOrder[i] \in good'
    BY InitOrderFacts
  <2>3. step > 8 => Descriptor \subseteq good'
    BY <2>2, DescriptorStores
  <2>4. DescriptorBehindMagic'
    <3>1. CASE step > 8
      BY <2>3, <3>1
    <3>2. CASE step \in 1 .. 8
      <4>1. InitOrder[step] \notin Magic
        BY <3>2, MagicStores
      <4>2. good \subseteq good' /\ (Magic \subseteq good' => Magic \subseteq good)
        BY <4>1
      <4>3. QED
        BY <4>2
    <3>3. QED
      BY <2>1, <3>1, <3>2
  <2>5. CASE step = 12
    BY <2>1, <2>3, <2>4, <2>5, InitOrderFacts
  <2>6. CASE step # 12
    <3>1. pc' = "init" /\ step' = step + 1
      BY <2>6, InitOrderFacts
    <3>2. QED
      BY <2>1, <2>2, <2>4, <3>1
  <2>7. QED
    BY <2>5, <2>6
<1>2. CASE UNCHANGED <<good, pc, step>>
  BY <1>2
<1>3. CASE UNCHANGED <<good, step>> /\ pc # "init" /\ pc' # "init"
  BY <1>3
<1>4. CASE WarmReset
  BY <1>4 DEF WarmReset, block
<1>5. [Next]_vars =>
        \/ InitStore
        \/ UNCHANGED <<good, pc, step>>
        \/ UNCHANGED <<good, step>> /\ pc # "init" /\ pc' # "init"
        \/ WarmReset
  BY DEF Next, vars, block, firmware, Call, Admit, Drop, Put, Publish,
     HostAttach, HostPoll, HostRead, HostRelease, HostDetach
<1>6. QED
  BY <1>1, <1>2, <1>3, <1>4, <1>5

(* A scan that finds the magic finds the whole descriptor, over any number  *)
(* of warm resets: init stores the magic last (rtt.mojo, init).             *)
THEOREM ScanFindsDescriptor == Spec => []DescriptorBehindMagic
<1>1. Init => ScanInv
  <2> SUFFICES ASSUME Init PROVE ScanInv
    OBVIOUS
  <2>1. good \subseteq Magic /\ ~(Magic \subseteq good)
    BY DEF Init
  <2>2. step = 1 /\ pc = "init"
    BY DEF Init
  <2>3. QED
    BY <2>1, <2>2 DEF ScanInv, DescriptorBehindMagic, LooksValid
<1>2. ScanInv => DescriptorBehindMagic
  BY DEF ScanInv
<1>3. QED
  BY <1>1, <1>2, ScanStepInv, PTL DEF Spec


-----------------------------------------------------------------------------
(***************************************************************************)
(* Rtt implements RttChannel: seen through the bytes between the host's    *)
(* cursor and WrOff, the ring with its two offsets is a bounded FIFO of    *)
(* bytes to which whole messages are appended.  Every step of Rtt maps to  *)
(* a write, a read, a restart or a stutter of the channel.                 *)
(***************************************************************************)


(* Bytes is a sequence, whatever its two ends.                             *)
LEMMA BytesIsSeq ==
  ASSUME NEW mem \in [Slots -> Byte], NEW f \in Slots, NEW w \in Slots
  PROVE  /\ Ahead(f, w) \in Nat
         /\ Bytes(mem, f, w) \in Seq(Byte)
         /\ Len(Bytes(mem, f, w)) = Ahead(f, w)
         /\ \A i \in 1 .. Ahead(f, w) :
              /\ Advance(f, i - 1) \in Slots
              /\ Bytes(mem, f, w)[i] = mem[Advance(f, i - 1)]
<1>1. Ahead(f, w) \in Nat /\ Ahead(f, w) < Size
  BY AheadInSlots, SizeAssumption DEF Slots
<1>2. \A i \in 1 .. Ahead(f, w) : Advance(f, i - 1) \in Slots
  BY <1>1, SizeAssumption DEF Slots, Advance
<1>3. Bytes(mem, f, w) \in [1 .. Ahead(f, w) -> Byte]
  BY <1>1, <1>2 DEF Bytes
<1>4. Bytes(mem, f, w) \in Seq(Byte) /\ Len(Bytes(mem, f, w)) = Ahead(f, w)
  BY <1>1, <1>3, SeqDef
<1>5. QED
  BY <1>1, <1>2, <1>4 DEF Bytes

LEMMA BytesEmpty ==
  ASSUME NEW mem \in [Slots -> Byte], NEW f \in Slots
  PROVE  Bytes(mem, f, f) = <<>>
<1>1. Bytes(mem, f, f) \in Seq(Byte) /\ Len(Bytes(mem, f, f)) = 0
  BY BytesIsSeq, AheadSelf
<1>2. QED
  BY <1>1, EmptySeq

(* Storing outside the span does not change it.                            *)
LEMMA BytesStable ==
  ASSUME NEW mem \in [Slots -> Byte], NEW new \in [Slots -> Byte],
         NEW f \in Slots, NEW w \in Slots,
         \A i \in 1 .. Ahead(f, w) : new[Advance(f, i - 1)] = mem[Advance(f, i - 1)]
  PROVE  Bytes(new, f, w) = Bytes(mem, f, w)
BY BytesIsSeq DEF Bytes

(* Taking a byte at the cursor takes the head of the span.                 *)
LEMMA BytesTail ==
  ASSUME NEW mem \in [Slots -> Byte], NEW f \in Slots, NEW w \in Slots, f # w
  PROVE  /\ Bytes(mem, f, w) # <<>>
         /\ Head(Bytes(mem, f, w)) = mem[f]
         /\ Tail(Bytes(mem, f, w)) = Bytes(mem, After(f), w)
<1> DEFINE s == Bytes(mem, f, w)
           t == Bytes(mem, After(f), w)
<1>1. After(f) \in Slots
  BY AfterInSlots
<1>2. /\ Ahead(f, w) > 0 /\ Ahead(f, w) < Size
      /\ Ahead(After(f), w) = Ahead(f, w) - 1
  BY SizeAssumption DEF Slots, Ahead, After
<1>3. s \in Seq(Byte) /\ Len(s) = Ahead(f, w) /\ Ahead(f, w) \in Nat
  BY BytesIsSeq
<1>4. t \in Seq(Byte) /\ Len(t) = Ahead(f, w) - 1
  BY <1>1, <1>2, BytesIsSeq
<1>5. s # <<>>
  BY <1>2, <1>3, EmptySeq
<1>6. Head(s) = mem[f]
  <2>1. Advance(f, 0) = f
    BY SizeAssumption DEF Slots, Advance
  <2>2. s[1] = mem[Advance(f, 0)]
    BY <1>2, <1>3, BytesIsSeq DEF Bytes
  <2>3. Head(s) = s[1]
    BY <1>3, <1>5
  <2>4. QED
    BY <2>1, <2>2, <2>3
<1>7. Tail(s) = t
  <2>1. Tail(s) \in Seq(Byte) /\ Len(Tail(s)) = Len(t)
    BY <1>3, <1>4, <1>5, HeadTailProperties
  <2>2. ASSUME NEW i \in 1 .. Len(t) PROVE Tail(s)[i] = t[i]
    <3>1. i \in Nat /\ i >= 1 /\ i <= Ahead(f, w) - 1
      BY <1>3, <1>4
    <3>2. Tail(s)[i] = s[i + 1]
      BY <1>3, <1>5, <2>1, HeadTailProperties
    <3>3. s[i + 1] = mem[Advance(f, i)]
      BY <1>3, <3>1 DEF Bytes
    <3>4. t[i] = mem[Advance(After(f), i - 1)]
      BY <1>2, <1>3, <3>1 DEF Bytes
    <3>5. Advance(After(f), i - 1) = Advance(f, i)
      BY <1>2, <1>3, <3>1, SizeAssumption DEF Slots, Advance, After
    <3>6. QED
      BY <3>2, <3>3, <3>4, <3>5
  <2>3. QED
    BY <1>4, <2>1, <2>2, SeqEqual
<1>8. QED
  BY <1>5, <1>6, <1>7

(* Moving WrOff over a message that lies behind the span appends it.       *)
LEMMA BytesConcat ==
  ASSUME NEW mem \in [Slots -> Byte], NEW f \in Slots, NEW w \in Slots,
         NEW m \in Seq(Byte), Ahead(f, w) + Len(m) < Size,
         \A j \in 1 .. Len(m) : mem[Advance(w, j - 1)] = m[j]
  PROVE  Bytes(mem, f, Advance(w, Len(m))) = Bytes(mem, f, w) \o m
<1> DEFINE e == Advance(w, Len(m))
           s == Bytes(mem, f, w)
           t == Bytes(mem, f, e)
<1>1. Len(m) \in Nat /\ e \in Slots /\ Ahead(f, e) = Ahead(f, w) + Len(m)
  BY AheadAdvance
<1>2. s \in Seq(Byte) /\ Len(s) = Ahead(f, w) /\ Ahead(f, w) \in Nat
  BY BytesIsSeq
<1>3. t \in Seq(Byte) /\ Len(t) = Len(s) + Len(m)
  BY <1>1, <1>2, BytesIsSeq
<1>4. s \o m \in Seq(Byte) /\ Len(s \o m) = Len(t)
  BY <1>2, <1>3, ConcatProperties
<1>5. ASSUME NEW i \in 1 .. Len(t) PROVE t[i] = (s \o m)[i]
  <2>1. i \in Nat /\ i >= 1 /\ i <= Len(s) + Len(m) /\ i \in 1 .. Ahead(f, e)
    BY <1>1, <1>2, <1>3
  <2>2. t[i] = mem[Advance(f, i - 1)]
    BY <2>1 DEF Bytes
  <2>3. CASE i <= Len(s)
    <3>1. s[i] = mem[Advance(f, i - 1)]
      BY <1>2, <2>1, <2>3 DEF Bytes
    <3>2. (s \o m)[i] = s[i]
      BY <1>2, <2>1, <2>3, ConcatProperties
    <3>3. QED
      BY <2>2, <3>1, <3>2
  <2>4. CASE i > Len(s)
    <3> DEFINE j == i - Len(s)
    <3>1. j \in 1 .. Len(m)
      BY <1>1, <1>2, <2>1, <2>4
    <3>2. Advance(f, i - 1) = Advance(w, j - 1)
      BY <1>1, <1>2, <2>1, <3>1, SizeAssumption DEF Slots, Advance, Ahead
    <3>3. mem[Advance(w, j - 1)] = m[j]
      BY <3>1
    <3>4. (s \o m)[i] = m[j]
      BY <1>1, <1>2, <2>1, <2>4, ConcatProperties
    <3>5. QED
      BY <2>2, <3>2, <3>3, <3>4
  <2>5. QED
    BY <1>2, <2>1, <2>3, <2>4
<1>6. QED
  BY <1>3, <1>4, <1>5, SeqEqual

-----------------------------------------------------------------------------
CopyInv == Inv /\ CopiedSoFar

(* The copy loop leaves the first `put` bytes of the message behind WrOff.  *)
LEMMA CopyStepInv == HostWaits /\ CopyInv /\ [Next]_vars => CopyInv'
<1> SUFFICES ASSUME HostWaits, CopyInv, [Next]_vars PROVE CopyInv'
  OBVIOUS
<1>1. Inv /\ Inv'
  BY StepInv DEF CopyInv
<1>2. CASE Put
  <2> USE <1>2 DEF Put
  <2>1. /\ wr \in Slots /\ put \in Nat /\ Len(msg) \in Nat /\ put < Len(msg)
        /\ ring \in [Slots -> Byte] /\ pos \in Slots /\ pos = Advance(wr, put)
        /\ rd \in Slots /\ Ahead(rd, wr) + Len(msg) < Size
    BY <1>1, MessageIsSequence DEF Inv, RingConsistent, OffsetsInRing, WriterInFreeSlots, TypeOK
  <2>2. Len(msg) < Size
    <3>1. Ahead(rd, wr) \in Nat
      BY <2>1, AheadInSlots DEF Slots
    <3>2. QED
      BY <2>1, <3>1, SizeAssumption
  <2>3. ASSUME NEW j \in 1 .. put + 1 PROVE ring'[Advance(wr, j - 1)] = msg[j]
    <3>1. CASE j = put + 1
      BY <2>1, <3>1
    <3>2. CASE j # put + 1
      <4>1. j \in 1 .. put
        BY <2>1, <3>2
      <4>2. Advance(wr, j - 1) # Advance(wr, put) /\ Advance(wr, j - 1) \in Slots
        BY <2>1, <2>2, <4>1, SizeAssumption DEF Advance, Slots
      <4>3. ring[Advance(wr, j - 1)] = msg[j]
        BY <4>1 DEF CopyInv, CopiedSoFar
      <4>4. QED
        BY <2>1, <4>2, <4>3
    <3>3. QED
      BY <3>1, <3>2
  <2>4. Advance(wr, 0)' = Advance(wr, 0) /\ wr' = wr
    BY DEF block, Advance
  <2>5. CopiedSoFar'
    BY <2>3, <2>4 DEF CopiedSoFar, Advance
  <2>6. QED
    BY <1>1, <2>5 DEF CopyInv
<1>3. CASE Admit
  BY <1>1, <1>3 DEF CopyInv, CopiedSoFar, Admit, Inv, RingConsistent, WriterInFreeSlots
<1>4. CASE pc' # "copy"
  BY <1>1, <1>4 DEF CopyInv, CopiedSoFar
<1>5. CASE UNCHANGED <<pc, ring, wr, msg, put>>
  BY <1>1, <1>5 DEF CopyInv, CopiedSoFar, Advance
<1>6. Put \/ Admit \/ pc' # "copy" \/ UNCHANGED <<pc, ring, wr, msg, put>>
  BY DEF Next, vars, block, firmware, InitStore, Call, Drop, Publish, WarmReset,
     HostAttach, HostPoll, HostRead, HostRelease, HostDetach
<1>7. QED
  BY <1>2, <1>3, <1>4, <1>5, <1>6

LEMMA InitCopyInv == Init => CopyInv
BY InitInv DEF Init, CopyInv, CopiedSoFar

(* The cursor of the host is a position of the ring within the unread span. *)
LEMMA CursorFacts ==
  ASSUME Inv, pc # "init"
  PROVE  /\ ring \in [Slots -> Byte] /\ wr \in Slots /\ rd \in Slots
         /\ From \in Slots
         /\ Ahead(rd, From) <= Ahead(rd, wr)
         /\ Ahead(From, wr) <= Ahead(rd, wr)
<1>1. ring \in [Slots -> Byte] /\ wr \in Slots /\ rd \in Slots /\ From \in Slots
  BY DEF Inv, TypeOK, RingConsistent, OffsetsInRing, From
<1>2. /\ Ahead(rd, wr) \in Nat /\ Ahead(rd, From) \in Nat /\ Ahead(From, wr) \in Nat
      /\ Ahead(rd, hw) \in Nat
  BY <1>1, AheadInSlots DEF Slots, Inv, TypeOK
<1>3. Ahead(rd, From) <= Ahead(rd, wr)
  BY <1>1, <1>2, AheadSelf DEF From, Inv, RingConsistent, HostInUnread
<1>4. Ahead(From, wr) <= Ahead(rd, wr)
  BY <1>1, <1>2, <1>3, AheadSplit
<1>5. QED
  BY <1>1, <1>3, <1>4

-----------------------------------------------------------------------------
(* One lemma per kind of step of the channel.                              *)

(* Publish is the channel's Write of the message that was copied.          *)
LEMMA PublishWrites ==
  ASSUME CopyInv, Publish
  PROVE  /\ msg \in Messages \cup {<<>>}
         /\ Unread' = Unread \o msg
         /\ Len(Unread) + Len(msg) <= Size - 1
         /\ out' = out
<1>1. Inv /\ pc = "copy" /\ put = Len(msg)
  BY DEF CopyInv, Publish
<1>2. /\ ring \in [Slots -> Byte] /\ wr \in Slots /\ From \in Slots
      /\ Ahead(From, wr) <= Ahead(rd, wr) /\ rd \in Slots
  BY <1>1, CursorFacts
<1>3. msg \in Seq(Byte) /\ Len(msg) \in Nat
  BY <1>1, MessageIsSequence DEF Inv
<1>4. Ahead(rd, wr) + Len(msg) < Size /\ pos = Advance(wr, Len(msg))
  BY <1>1 DEF Inv, RingConsistent, WriterInFreeSlots
<1>5. Ahead(From, wr) + Len(msg) < Size
  <2>1. Ahead(From, wr) \in Nat /\ Ahead(rd, wr) \in Nat
    BY <1>2, AheadInSlots DEF Slots
  <2>2. QED
    BY <1>2, <1>3, <1>4, <2>1, SizeAssumption
<1>6. \A j \in 1 .. Len(msg) : ring[Advance(wr, j - 1)] = msg[j]
  BY <1>1 DEF CopyInv, CopiedSoFar
<1>7. Bytes(ring, From, Advance(wr, Len(msg))) = Bytes(ring, From, wr) \o msg
  BY <1>2, <1>3, <1>5, <1>6, BytesConcat
<1>8. Unread' = Bytes(ring, From, pos)
  BY <1>1 DEF Unread, From, Publish, host, Bytes, Ahead, Advance
<1>9. Unread = Bytes(ring, From, wr) /\ Len(Unread) = Ahead(From, wr)
  BY <1>1, <1>2, BytesIsSeq DEF Unread
<1>10. out' = out /\ msg \in Messages \cup {<<>>}
  BY <1>1 DEF Publish, host, Inv, TypeOK
<1>11. Len(Unread) + Len(msg) <= Size - 1
  BY <1>2, <1>3, <1>5, <1>9, AheadInSlots, SizeAssumption DEF Slots
<1>12. QED
  BY <1>4, <1>7, <1>8, <1>9, <1>10, <1>11

(* HostRead is the channel's Read.                                         *)
LEMMA HostReadReads ==
  ASSUME Inv, HostRead
  PROVE  /\ Unread # <<>>
         /\ out' = Head(Unread)
         /\ Unread' = Tail(Unread)
<1>1. pc # "init" /\ hpc = "copy" /\ From = hpos
  BY DEF Inv, RingConsistent, HostInUnread, HostRead, From
<1>2. ring \in [Slots -> Byte] /\ wr \in Slots /\ hpos \in Slots /\ rd \in Slots /\ hw \in Slots
  BY <1>1, CursorFacts DEF Inv, TypeOK
<1>3. hpos # wr
  <2>1. Ahead(rd, hpos) < Ahead(rd, hw)
    <3>1. hpos # hw /\ Ahead(rd, hpos) <= Ahead(rd, hw)
      BY <1>1 DEF HostRead, Inv, RingConsistent, HostInUnread
    <3>2. QED
      BY <1>2, <3>1, SizeAssumption DEF Ahead, Slots
  <2>2. Ahead(rd, hw) <= Ahead(rd, wr)
    BY <1>1 DEF Inv, RingConsistent, HostInUnread
  <2>3. Ahead(rd, hw) \in Nat /\ Ahead(rd, hpos) \in Nat
    BY <1>2, AheadInSlots DEF Slots
  <2>4. QED
    BY <1>2, <2>1, <2>2, <2>3, AheadInSlots DEF Slots
<1>4. /\ Bytes(ring, hpos, wr) # <<>>
      /\ Head(Bytes(ring, hpos, wr)) = ring[hpos]
      /\ Tail(Bytes(ring, hpos, wr)) = Bytes(ring, After(hpos), wr)
  BY <1>2, <1>3, BytesTail
<1>5. Unread = Bytes(ring, hpos, wr)
  BY <1>1 DEF Unread
<1>6. Unread' = Bytes(ring, After(hpos), wr)
  BY <1>1 DEF Unread, From, HostRead, block, firmware, Bytes, Ahead, Advance
<1>7. QED
  BY <1>4, <1>5, <1>6 DEF HostRead

(* Putting bytes that are not published yet does not show in the channel.   *)
LEMMA PutStutters ==
  ASSUME Inv, Inv', Put
  PROVE  Unread' = Unread /\ out' = out
<1>1. pc = "copy" /\ pc' = "copy" /\ From' = From /\ wr' = wr /\ rd' = rd /\ out' = out
  BY DEF Put, From, block, host
<1>2. /\ ring \in [Slots -> Byte] /\ wr \in Slots /\ rd \in Slots /\ From \in Slots
      /\ Ahead(From, wr) <= Ahead(rd, wr) /\ ring' \in [Slots -> Byte]
      /\ Ahead(rd, From) <= Ahead(rd, wr)
  BY <1>1, CursorFacts DEF Inv, TypeOK
<1>3. /\ Ahead(rd, wr) + Len(msg) < Size /\ pos = Advance(wr, put)
      /\ put \in Nat /\ Len(msg) \in Nat /\ put < Len(msg)
  BY <1>1, MessageIsSequence DEF Inv, RingConsistent, WriterInFreeSlots, TypeOK, Put
<1>4. ASSUME NEW i \in 1 .. Ahead(From, wr)
      PROVE  ring'[Advance(From, i - 1)] = ring[Advance(From, i - 1)]
  <2>1. Advance(From, i - 1) \in Slots
    BY <1>2, BytesIsSeq
  <2>2. Ahead(From, wr) + put < Size /\ Ahead(From, wr) \in Nat
    <3>1. Ahead(From, wr) \in Nat /\ Ahead(rd, wr) \in Nat
      BY <1>2, AheadInSlots DEF Slots
    <3>2. QED
      BY <1>2, <1>3, <3>1, SizeAssumption
  <2>3. Advance(From, i - 1) # Advance(wr, put)
    BY <1>2, <1>3, <2>2, SizeAssumption DEF Advance, Ahead, Slots
  <2>4. QED
    BY <1>2, <1>3, <2>1, <2>3 DEF Put
<1>5. Bytes(ring', From, wr) = Bytes(ring, From, wr)
  BY <1>2, <1>4, BytesStable
<1>6. Unread' = Bytes(ring', From, wr)
  BY <1>1 DEF Unread, Bytes, Ahead, Advance
<1>7. QED
  BY <1>1, <1>5, <1>6 DEF Unread

(* The last store of init opens an empty channel; the others show nothing.  *)
LEMMA InitStoreStutters ==
  ASSUME Inv, Inv', InitStore
  PROVE  Unread' = Unread /\ out' = out
<1>1. pc = "init" /\ out' = out /\ hpc = "scan" /\ hpc' = "scan"
  BY DEF InitStore, host, Inv, RingConsistent, HostInUnread, TypeOK
<1>2. CASE pc' = "init"
  BY <1>1, <1>2 DEF Unread
<1>3. CASE pc' # "init"
  <2>1. step = 12
    BY <1>3, InitOrderFacts DEF InitStore
  <2>2. wr' = 0 /\ rd' = 0
    BY <1>1, <2>1, InitOrderFacts DEF InitStore, Inv, RingConsistent, OffsetsCleared
  <2>3. From' = 0
    BY <1>1, <2>2 DEF From
  <2>4. Bytes(ring', 0, 0) = <<>>
    <3>1. ring' \in [Slots -> Byte] /\ 0 \in Slots
      BY SizeAssumption DEF Inv, TypeOK, Slots
    <3>2. QED
      BY <3>1, BytesEmpty
  <2>5. Unread' = Bytes(ring', 0, 0)
    BY <1>3, <2>2, <2>3 DEF Unread, Bytes, Ahead, Advance
  <2>6. QED
    BY <1>1, <2>4, <2>5 DEF Unread
<1>4. QED
  BY <1>2, <1>3

(* A poll starts at RdOff, a release moves RdOff to where the poll ended:   *)
(* the cursor does not move.                                               *)
LEMMA PollAndReleaseStutter ==
  ASSUME Inv, HostPoll \/ HostRelease
  PROVE  Unread' = Unread /\ out' = out
<1>1. From' = From /\ wr' = wr /\ ring' = ring /\ pc' = pc /\ out' = out
  BY DEF HostPoll, HostRelease, From, block, firmware
<1>2. QED
  BY <1>1 DEF Unread, Bytes, Ahead, Advance

LEMMA ControlStutters ==
  ASSUME Inv, Drop \/ Admit \/ HostAttach \/ HostDetach \/ \E m \in Messages : Call(m)
  PROVE  Unread' = Unread /\ out' = out
<1>1. /\ From' = From /\ wr' = wr /\ ring' = ring /\ out' = out
      /\ pc' = "init" <=> pc = "init"
  BY DEF Drop, Admit, HostAttach, HostDetach, Call, From, block, firmware, host
<1>2. QED
  BY <1>1 DEF Unread, Bytes, Ahead, Advance

LEMMA WarmResetRestarts ==
  ASSUME WarmReset
  PROVE  Unread' = <<>> /\ out' = out
BY DEF WarmReset, Unread, host

LEMMA StepRefines ==
  ASSUME HostWaits, CopyInv, [Next]_vars
  PROVE  [Channel!Next]_(Channel!vars)
<1>1. Inv /\ Inv'
  BY StepInv DEF CopyInv
<1>2. CASE Publish
  <2>1. CASE msg \in Messages
    BY <1>2, <2>1, PublishWrites DEF Channel!Next, Channel!Write
  <2>2. CASE msg = <<>>
    <3>1. Unread' = Unread \o <<>> /\ out' = out
      BY <1>2, <2>2, PublishWrites
    <3>2. Unread \in Seq(Byte)
      BY <1>1, <1>2, CursorFacts, BytesIsSeq DEF Unread, Publish
    <3>3. QED
      BY <3>1, <3>2, ConcatEmptySeq DEF Channel!vars
  <2>3. QED
    BY <1>2, <2>1, <2>2, PublishWrites
<1>3. CASE HostRead
  BY <1>1, <1>3, HostReadReads DEF Channel!Next, Channel!Read
<1>4. CASE WarmReset
  BY <1>4, WarmResetRestarts DEF Channel!Next, Channel!Restart
<1>5. CASE Put \/ InitStore \/ HostPoll \/ HostRelease \/ Drop \/ Admit
           \/ HostAttach \/ HostDetach \/ \E m \in Messages : Call(m)
  BY <1>1, <1>5, PutStutters, InitStoreStutters, PollAndReleaseStutter, ControlStutters
     DEF Channel!vars
<1>6. CASE UNCHANGED vars
  BY <1>6 DEF vars, block, firmware, host, Channel!vars, Unread, From, Bytes, Ahead, Advance
<1>7. QED
  BY <1>2, <1>3, <1>4, <1>5, <1>6 DEF Next

(* The ring of rtt.mojo with its host is the bounded channel of whole       *)
(* messages, for every ring size and every set of messages.                *)
THEOREM RttImplementsChannel ==
  ASSUME HostWaits
  PROVE  Spec => ImplementsChannel
<1>1. Init => Channel!Init
  BY DEF Init, Channel!Init, Unread
<1>2. CopyInv /\ [Next]_vars => [Channel!Next]_(Channel!vars)
  BY StepRefines
<1>3. QED
  BY <1>1, <1>2, InitCopyInv, CopyStepInv, PTL DEF Spec, ImplementsChannel, Channel!Spec

=============================================================================
