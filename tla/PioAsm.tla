------------------------------- MODULE PioAsm -------------------------------
(***************************************************************************)
(* The PIO assembler (struct Asm of src/pico/pio.mojo): a program is built  *)
(* by calls, one instruction each, with labels that are placed later and    *)
(* patched into the jumps that already name them, and with five bits of     *)
(* each word shared by the delay and the side-set value.                    *)
(*                                                                         *)
(* A word is known by its bits 12:8 (field) and 4:0 (arg); the rest is the  *)
(* operation.  asked records what the caller wanted of each instruction.    *)
(* The caller keeps to the docstrings: side_set comes before the first      *)
(* instruction, a future is bound once, at most Slots instructions and      *)
(* Futures labels are used.                                                *)
(***************************************************************************)
EXTENDS Integers, Sequences, FiniteSets

CONSTANTS
  Slots,     \* instruction words (32); addresses are taken modulo Slots
  Futures,   \* forward labels (_MAX_FUTURES)
  Delays,    \* delay arguments, by the number of bits left to the delay
  Sides,     \* side arguments, by side_count; -1 is "none"
  SideCounts, \* arguments of side_set
  FieldWords \* bound: words that are given a delay or a side-set value

ASSUME SlotAssumption == Slots \in Nat \ {0} /\ Futures \in Nat /\ FieldWords \in Nat
ASSUME ArgumentAssumption ==
  /\ SideCounts \subseteq 0 .. 5
  /\ \A w \in 0 .. 5 : Delays[w] \subseteq Nat /\ Sides[w] \subseteq Nat \cup {-1}

VARIABLES
  field,    \* bits 12:8 of the words emitted
  arg,      \* their bits 4:0
  fixup,    \* per word: the handle index + 1 it waits for, or 0
  fw,       \* per future: its address, or -1
  pending,  \* words that wait
  side,     \* side_count and side_opt
  asked     \* per word: what the caller asked for

vars == <<field, arg, fixup, fw, pending, side, asked>>

Length == Len(arg)

Init ==
  /\ field = <<>> /\ arg = <<>> /\ fixup = <<>> /\ asked = <<>>
  /\ fw = <<>> /\ pending = 0
  /\ side = [count |-> 0, opt |-> FALSE]

-----------------------------------------------------------------------------
SideBits == side.count + (IF side.opt THEN 1 ELSE 0)

(* Deviation: the delay is cut to the bits side_set leaves without the      *)
(* enable bit.                                                             *)
DelayBits_NoEnable == 5 - side.count

(* The bits side_set leaves to the delay. *)
DelayBits == 5 - SideBits

(* _emit: the delay in the low bits, the side-set value above it, and bit 4  *)
(* as the enable bit when side-set is optional.                             *)
Field(delay, value) ==
  LET d == delay % (2 ^ DelayBits)
      v == value % (2 ^ side.count)
  IN IF side.count = 0 \/ value < 0 THEN d
     ELSE d + v * 2 ^ (5 - SideBits) + (IF side.opt THEN 16 ELSE 0)

Emit(op, a, fix, target, delay, value) ==
  /\ Length < Slots
  /\ field' = Append(field, Field(delay, value))
  /\ arg' = Append(arg, a)
  /\ fixup' = Append(fixup, fix)
  /\ asked' = Append(asked, [op |-> op, target |-> target, delay |-> delay, side |-> value])
  /\ UNCHANGED <<fw, side>>

(* side_set *)
SideSet(count, opt) ==
  /\ arg = <<>>
  /\ opt => count < 5
  /\ side' = [count |-> count, opt |-> opt]
  /\ UNCHANGED <<field, arg, fixup, fw, pending, asked>>

(* future: its handle is minus its place. *)
Future ==
  /\ Len(fw) < Futures
  /\ fw' = Append(fw, -1)
  /\ UNCHANGED <<field, arg, fixup, pending, side, asked>>

(* set_*, mov_*, in_*, out_*, push_*, pull_*, wait_gpio, nop *)
Plain(delay, value) ==
  /\ Emit("plain", 0, 0, 0, delay, value)
  /\ UNCHANGED pending

(* jmp and its conditions with label() or with a future that is placed ... *)
JumpTo(target, delay, value) ==
  LET t == IF target < 0 THEN fw[-target] ELSE target IN
  /\ t >= 0
  /\ Emit("jmp", t % Slots, 0, target, delay, value)
  /\ UNCHANGED pending

(* ... and with one that is not: the word waits for bind. *)
JumpAhead(h, delay, value) ==
  /\ fw[h] < 0
  /\ Emit("jmp", 0, h, -h, delay, value)
  /\ pending' = pending + 1

(* bind: the label h is placed at address a, the words of W are patched, and  *)
(* n fewer wait.                                                           *)
Waiting(h) == {i \in 1 .. Length : fixup[i] = h}

Place(h, W, a, n) ==
  /\ fw[h] < 0
  /\ fw' = [fw EXCEPT ![h] = Length]
  /\ arg' = [i \in 1 .. Length |-> IF i \in W THEN a ELSE arg[i]]
  /\ fixup' = [i \in 1 .. Length |-> IF i \in W THEN 0 ELSE fixup[i]]
  /\ pending' = pending - n
  /\ UNCHANGED <<field, side, asked>>

(* Deviation: only the first jump to the label is patched. *)
Bind_FirstOnly(h) ==
  LET first == {i \in Waiting(h) : \A j \in Waiting(h) : i <= j}
  IN Place(h, first, Length % Slots, Cardinality(first))

(* Deviation: bind counts itself, not the jumps it patches. *)
Bind_CountsOnce(h) ==
  Place(h, Waiting(h), Length % Slots, IF Waiting(h) = {} THEN 0 ELSE 1)

(* bind places the label here and patches every jump that waits for it.      *)
Bind(h) == Place(h, Waiting(h), Length % Slots, Cardinality(Waiting(h)))

(* The delay and side arguments of the next word. *)
DelayArgs == IF Length < FieldWords THEN Delays[DelayBits] ELSE {0}
SideArgs  == IF Length < FieldWords THEN Sides[side.count] ELSE {-1}

Next ==
  \/ \E count \in SideCounts, opt \in BOOLEAN : SideSet(count, opt)
  \/ Future
  \/ \E d \in DelayArgs, v \in SideArgs : Plain(d, v)
  \/ \E d \in DelayArgs, v \in SideArgs, t \in 0 .. Length : JumpTo(t, d, v)
  \/ \E d \in DelayArgs, v \in SideArgs, h \in 1 .. Len(fw) : JumpTo(-h, d, v)
  \/ \E d \in DelayArgs, v \in SideArgs, h \in 1 .. Len(fw) : JumpAhead(h, d, v)
  \/ \E h \in 1 .. Len(fw) : Bind(h)

Spec == Init /\ [][Next]_vars

-----------------------------------------------------------------------------
TypeOK ==
  /\ Length <= Slots /\ Len(field) = Length /\ Len(fixup) = Length /\ Len(asked) = Length
  /\ \A i \in 1 .. Length : /\ field[i] \in 0 .. 31 /\ arg[i] \in 0 .. Slots - 1
                           /\ fixup[i] \in 0 .. Len(fw)
  /\ \A h \in 1 .. Len(fw) : fw[h] \in -1 .. Slots
  /\ pending \in 0 .. Slots
  /\ side.count \in SideCounts \cup {0} /\ side.opt \in BOOLEAN

(* unresolved() counts the jumps that still wait for a bind, exactly: a      *)
(* program with none of them may be loaded ("comptime assert                *)
(* PROG.unresolved() == 0", test_pio_comptime).                             *)
PendingCounts ==
  pending = Cardinality({i \in 1 .. Length :
                           asked[i].target < 0 /\ fw[-asked[i].target] < 0})

(* Every jump whose label has been placed goes there, whether the label was  *)
(* placed before or after the jump was emitted, and whatever was emitted or  *)
(* bound in between; a jump to an address keeps it.                         *)
JumpsGoHome ==
  \A i \in 1 .. Length : asked[i].op = "jmp" =>
    LET t == asked[i].target
        a == IF t < 0 THEN fw[-t] ELSE t
    IN a >= 0 => arg[i] = a % Slots
=============================================================================
