----------------------------- MODULE PioMachine -----------------------------
(***************************************************************************)
(* A state machine and the program it runs (struct StateMachine of           *)
(* src/pico/pio.mojo): what the assembler has built is loaded, the registers  *)
(* are set up field by field, and the machine executes beside the client.    *)
(* The machine has just left reset; it is loaded once.                      *)
(***************************************************************************)
EXTENDS PioAsm, Words

CONSTANT SetupWords  \* bound: setters are called for programs of up to this many words

ASSUME SetterAssumption == SetupWords \in Nat

VARIABLES
  at,       \* where the client is
  n,        \* words copied
  mem,      \* instruction memory: field and arg of each word, or nothing known
  execctrl, \* the registers of the machine, as words
  pinctrl,
  enabled,  \* its bit in CTRL.SM_ENABLE
  pc,       \* its program counter (ADDR)
  set       \* the fields the setters have been asked to write

hw     == <<at, n, mem, execctrl, pinctrl, enabled, pc, set>>
vars_m == <<vars, hw>>

Unknown == <<>>

MachineInit ==
  /\ Init
  /\ at = "assemble" /\ n = 0 /\ mem = [a \in 0 .. Slots - 1 |-> Unknown]
  /\ execctrl = Shl(Bits(Slots - 1), 12) /\ pinctrl = Shl(Bits(5), 26)
  /\ enabled = FALSE /\ pc = 0 /\ set = {}

At(here, there) == at = here /\ at' = there

-----------------------------------------------------------------------------
Assemble == at = "assemble" /\ Next /\ UNCHANGED hw

(* load, of a program that is not empty and in which unresolved() finds no     *)
(* open label (the caller's part): word by word, ...                        *)
Load ==
  /\ At("assemble", "copy") /\ Length > 0 /\ pending = 0
  /\ UNCHANGED <<vars, n, mem, execctrl, pinctrl, enabled, pc, set>>

CopyWord ==
  /\ at = "copy" /\ n < Length
  /\ mem' = [mem EXCEPT ![n] = <<field[n + 1], arg[n + 1], asked[n + 1].op>>]
  /\ n' = n + 1
  /\ UNCHANGED <<vars, at, execctrl, pinctrl, enabled, pc, set>>

(* Deviation: the wrap is behind the last word. *)
WrapTop_Length == Length

WrapTop == Length - 1

(* ... then all of EXECCTRL: WRAP_TOP, SIDE_EN, ... *)
WriteExecctrl ==
  /\ At("copy", "side") /\ n = Length
  /\ execctrl' = Shl(Bits(WrapTop % 32), 12) \cup (IF side.opt THEN {30} ELSE {})
  /\ UNCHANGED <<vars, n, mem, pinctrl, enabled, pc, set>>

(* ... and SIDESET_COUNT. *)
WriteSideCount ==
  /\ At("side", "setup")
  /\ pinctrl' = (pinctrl \ (29 .. 31)) \cup Shl(Bits(SideBits), 29)
  /\ UNCHANGED <<vars, n, mem, execctrl, enabled, pc, set>>

(* The setters, in any order: each clears its mask and sets its fields, here   *)
(* to all ones.                                                            *)
Fields ==
  [SET_COUNT |-> Span(28, 26), SET_BASE |-> Span(9, 5), OUT_COUNT |-> Span(25, 20),
   OUT_BASE  |-> Span(4, 0),   SIDESET_BASE |-> Span(14, 10), JMP_PIN |-> Span(28, 24)]

Mask(fields) == UNION {Fields[f].lsb .. Fields[f].msb : f \in fields}

SetFields(mask, fields) ==
  /\ at = "setup" /\ Length <= SetupWords
  /\ pinctrl' = (pinctrl \ mask) \cup Mask(fields)
  /\ set' = set \cup fields
  /\ UNCHANGED <<vars, at, n, mem, execctrl, enabled, pc>>

set_out_pins     == SetFields((20 .. 25) \cup (0 .. 4), {"OUT_COUNT", "OUT_BASE"})
set_set_pins     == SetFields((26 .. 28) \cup (5 .. 9), {"SET_COUNT", "SET_BASE"})
set_sideset_pins == SetFields(10 .. 14, {"SIDESET_BASE"})

set_jmp_pin ==
  /\ at = "setup" /\ Length <= SetupWords
  /\ execctrl' = (execctrl \ (24 .. 28)) \cup Mask({"JMP_PIN"})
  /\ set' = set \cup {"JMP_PIN"}
  /\ UNCHANGED <<vars, at, n, mem, pinctrl, enabled, pc>>

(* enable and disable *)
Enable ==
  /\ At("setup", "run") /\ enabled' = TRUE
  /\ UNCHANGED <<vars, n, mem, execctrl, pinctrl, pc, set>>

Disable ==
  /\ At("run", "over") /\ enabled' = FALSE
  /\ UNCHANGED <<vars, n, mem, execctrl, pinctrl, pc, set>>

(* The machine executes the word at its counter: a jump may be taken; after    *)
(* WRAP_TOP, or the last word of the memory, comes word 0.  A word nobody has  *)
(* loaded may be any instruction.                                           *)
Execute ==
  /\ enabled
  /\ LET following == IF Get(execctrl, Span(16, 12)) = Bits(pc) THEN 0 ELSE (pc + 1) % Slots
         word == mem[pc]
     IN \/ pc' = following
        \/ word # Unknown /\ word[3] = "jmp" /\ pc' = word[2]
        \/ word = Unknown /\ pc' \in 0 .. Slots - 1
  /\ UNCHANGED <<vars, at, n, mem, execctrl, pinctrl, enabled, set>>

Setup == set_set_pins \/ set_out_pins \/ set_sideset_pins \/ set_jmp_pin

MachineNext ==
  \/ Assemble \/ Load \/ CopyWord \/ WriteExecctrl \/ WriteSideCount
  \/ Setup \/ Enable \/ Disable \/ Execute

MachineSpec == MachineInit /\ [][MachineNext]_vars_m

-----------------------------------------------------------------------------
(* No jump goes to a label behind the last word, which load does not refuse   *)
(* (behind the end of the memory such a label is word 0).                     *)
StaysInside == \A i \in 1 .. Length : arg[i] < Length

(* A machine that runs executes the words of its program and nothing else:     *)
(* all labels placed, it neither leaves by a jump nor goes on behind the last  *)
(* word (load: "Copy the program into instruction memory, wrap around it").   *)
RunsOwnProgram ==
  enabled /\ StaysInside
    => pc < Length /\ mem[pc] = <<field[pc + 1], arg[pc + 1], asked[pc + 1].op>>

(* How the machine takes bits 12:8 of a word apart, as its registers say. *)
SideWidth == CHOOSE w \in 0 .. 7 : Bits(w) = Get(pinctrl, Span(31, 29))
SideEn    == 30 \in execctrl
DecodedDelay(f) == f % (2 ^ (5 - SideWidth))
SideDriven(f)   == SideWidth > 0 /\ (SideEn => f >= 16)
DecodedSide(f)  == (f % (IF SideEn THEN 16 ELSE 32)) \div 2 ^ (5 - SideWidth)

(* It waits and drives the pins as the caller asked, for every division of the *)
(* five bits, as long as the arguments fit; without side= it drives 0, or      *)
(* nothing when side-set is optional.  The setters, which share the two        *)
(* registers with load and with one another, leave each other's fields alone.  *)
FieldsDecode ==
  /\ enabled =>
       /\ SideWidth <= 5
       /\ \A i \in 1 .. Length :
            LET f == field[i] IN
            /\ asked[i].delay < 2 ^ (5 - SideWidth) => DecodedDelay(f) = asked[i].delay
            /\ side.count > 0 /\ asked[i].side >= 0 /\ asked[i].side < 2 ^ side.count
                 => SideDriven(f) /\ DecodedSide(f) = asked[i].side
            /\ side.count > 0 /\ asked[i].side < 0
                 => IF side.opt THEN ~SideDriven(f) ELSE DecodedSide(f) = 0
  /\ \A f \in set : Mask({f}) \subseteq IF f = "JMP_PIN" THEN execctrl ELSE pinctrl
=============================================================================
