-------------------------- MODULE PioMachineProofs --------------------------
(***************************************************************************)
(* Proofs about PioAsm and PioMachine, for programs of any length, up to the *)
(* 32 words the wrap fields can name, with any number of labels: a jump goes *)
(* where its label is placed, in whatever order jumps and binds come; the    *)
(* machine executes what was assembled, takes its fields apart as they were  *)
(* put together, and never leaves the program.                              *)
(***************************************************************************)
EXTENDS PioMachine, FiniteSetTheorems, SequenceTheorems, TLAPS

Asks == [op : {"plain", "jmp"}, target : Int, delay : Nat, side : Nat \cup {-1}]

Shape ==
  /\ arg \in Seq(Nat) /\ fixup \in Seq(Nat) /\ fw \in Seq(Int) /\ asked \in Seq(Asks)
  /\ Len(fixup) = Length /\ Len(asked) = Length

(* What a word holds, by what was asked for: an address is in place; a        *)
(* label's word waits for it until the label is placed.                     *)
WordOK(i) ==
  LET q == asked[i].target IN
  /\ asked[i].op = "jmp" /\ q >= 0 => arg[i] = q % Slots
  /\ q >= 0 => fixup[i] = 0
  /\ q < 0 => /\ -q \in 1 .. Len(fw)
              /\ fw[-q] < 0 => fixup[i] = -q
              /\ fw[-q] >= 0 => fixup[i] = 0 /\ arg[i] = fw[-q] % Slots

Unplaced == {i \in 1 .. Length : asked[i].target < 0 /\ fw[-asked[i].target] < 0}

(* How side_set divides the five bits. *)
SideOK == /\ side.count \in 0 .. 5 /\ side.opt \in BOOLEAN
          /\ side.opt => side.count < 5

AsmInv ==
  /\ Shape /\ SideOK
  /\ \A i \in 1 .. Length : WordOK(i)
  /\ pending = Cardinality(Unplaced)

LEMMA Cut == ASSUME NEW a \in Nat PROVE a % Slots \in Nat
  BY SlotAssumption

LEMMA ArgumentsTyped ==
  ASSUME SideOK PROVE DelayArgs \subseteq Nat /\ SideArgs \subseteq Nat \cup {-1}
<1>1. DelayBits \in 0 .. 5 /\ side.count \in 0 .. 5
  BY DEF DelayBits, SideBits, SideOK
<1> QED
  BY <1>1, ArgumentAssumption DEF DelayArgs, SideArgs

LEMMA FunctionIsSeq ==
  ASSUME NEW S, NEW m \in Nat, NEW f \in [1 .. m -> S]
  PROVE  f \in Seq(S) /\ Len(f) = m
<1>1. f \in Seq(S)
  OBVIOUS
<1> QED
  BY <1>1, LenProperties

LEMMA UnplacedFinite == ASSUME Shape PROVE IsFiniteSet(Unplaced) /\ Cardinality(Unplaced) \in Nat
<1>1. Length \in Nat
  BY LenProperties DEF Shape, Length
<1>2. IsFiniteSet(1 .. Length)
  BY <1>1, FS_Interval
<1> QED
  BY <1>2, FS_Subset, FS_CardinalityType DEF Unplaced

LEMMA AsmInit == Init => AsmInv
<1> SUFFICES ASSUME Init PROVE AsmInv
  OBVIOUS
<1>1. Shape /\ Length = 0
  BY EmptySeq DEF Init, Shape, Length
<1>2. Unplaced = {}
  BY <1>1 DEF Unplaced
<1>3. SideOK
  BY DEF Init, SideOK
<1> QED
  BY <1>1, <1>2, <1>3, FS_EmptySet DEF AsmInv, Init

LEMMA AppendStep ==
  ASSUME NEW S, NEW s \in Seq(S), NEW e \in S, NEW t, t = Append(s, e), NEW m, Len(s) = m
  PROVE  /\ t \in Seq(S) /\ Len(t) = m + 1 /\ t[m + 1] = e
         /\ \A i \in 1 .. m : t[i] = s[i]
  BY AppendProperties

(* One more word: the others stay as they are. *)
Grown(op, a, fix, target) ==
  /\ Shape' /\ fw' = fw /\ Length' = Length + 1 /\ Length \in Nat
  /\ \A i \in 1 .. Length :
       arg'[i] = arg[i] /\ fixup'[i] = fixup[i] /\ asked'[i] = asked[i]
  /\ arg'[Length + 1] = a /\ fixup'[Length + 1] = fix
  /\ asked'[Length + 1].op = op /\ asked'[Length + 1].target = target

LEMMA EmitGrows ==
  ASSUME Shape, NEW op \in {"plain", "jmp"}, NEW a \in Nat, NEW fix \in Nat, NEW target \in Int,
         NEW d \in Nat, NEW v \in Nat \cup {-1}, Emit(op, a, fix, target, d, v)
  PROVE  Grown(op, a, fix, target)
<1> DEFINE new == [op |-> op, target |-> target, delay |-> d, side |-> v]
<1>1. new \in Asks
  BY DEF Asks
<1>2. arg' = Append(arg, a) /\ fixup' = Append(fixup, fix) /\ asked' = Append(asked, new) /\ fw' = fw
  BY DEF Emit
<1>3. Length \in Nat /\ Len(fixup) = Length /\ Len(asked) = Length
  BY LenProperties DEF Shape, Length
<1>4. /\ arg' \in Seq(Nat) /\ Len(arg') = Length + 1 /\ arg'[Length + 1] = a
      /\ \A i \in 1 .. Length : arg'[i] = arg[i]
  <2>1. arg \in Seq(Nat) /\ Len(arg) = Length
    BY DEF Shape, Length
  <2> QED
    BY <1>2, <2>1, AppendStep
<1>5. /\ fixup' \in Seq(Nat) /\ Len(fixup') = Length + 1 /\ fixup'[Length + 1] = fix
      /\ \A i \in 1 .. Length : fixup'[i] = fixup[i]
  <2>1. fixup \in Seq(Nat)
    BY DEF Shape
  <2> QED
    BY <1>2, <1>3, <2>1, AppendStep
<1>6. /\ asked' \in Seq(Asks) /\ Len(asked') = Length + 1 /\ asked'[Length + 1] = new
      /\ \A i \in 1 .. Length : asked'[i] = asked[i]
  <2>1. asked \in Seq(Asks)
    BY DEF Shape
  <2> QED
    BY <1>1, <1>2, <1>3, <2>1, AppendStep
<1> QED
  BY <1>2, <1>3, <1>4, <1>5, <1>6 DEF Grown, Shape, Length

LEMMA EmitKeepsSide ==
  ASSUME SideOK, NEW op, NEW a, NEW fix, NEW target, NEW d, NEW v, Emit(op, a, fix, target, d, v)
  PROVE  SideOK'
  BY DEF Emit, SideOK

(* A word whose label, if it has one, is placed. *)
LEMMA PlacedWordStep ==
  ASSUME AsmInv, NEW op \in {"plain", "jmp"}, NEW target \in Int, NEW a \in Nat,
         NEW d \in Nat, NEW v \in Nat \cup {-1}, Emit(op, a, 0, target, d, v), UNCHANGED pending,
         target < 0 => -target \in 1 .. Len(fw) /\ fw[-target] >= 0 /\ a = fw[-target] % Slots,
         target >= 0 /\ op = "jmp" => a = target % Slots
  PROVE  AsmInv'
<1>1. /\ Shape' /\ fw' = fw /\ Length' = Length + 1 /\ Length \in Nat
      /\ \A i \in 1 .. Length :
           arg'[i] = arg[i] /\ fixup'[i] = fixup[i] /\ asked'[i] = asked[i]
      /\ arg'[Length + 1] = a /\ fixup'[Length + 1] = 0
      /\ asked'[Length + 1].op = op /\ asked'[Length + 1].target = target
  <2>1. Shape /\ 0 \in Nat
    BY DEF AsmInv
  <2>2. Grown(op, a, 0, target)
    BY <2>1, EmitGrows
  <2> QED
    BY <2>2, Zenon DEF Grown
<1>2. ASSUME NEW i \in 1 .. Length PROVE WordOK(i)'
  <2>1. WordOK(i)
    BY DEF AsmInv
  <2>2. asked'[i] = asked[i] /\ fixup'[i] = fixup[i] /\ arg'[i] = arg[i] /\ fw' = fw
    BY <1>1
  <2> QED
    BY <2>1, <2>2, Zenon DEF WordOK
<1>3. ASSUME NEW i \in Nat, i = Length + 1 PROVE WordOK(i)'
  <2>1. /\ asked'[i].op = op /\ asked'[i].target = target
        /\ fixup'[i] = 0 /\ arg'[i] = a /\ fw' = fw
    BY <1>1, <1>3
  <2>2. target < 0 => -target \in 1 .. Len(fw) /\ ~(fw[-target] < 0)
    <3>1. fw \in Seq(Int)
      BY DEF AsmInv, Shape
    <3> QED
      BY <3>1
  <2>3. ~(target < 0 /\ target >= 0)
    OBVIOUS
  <2> QED
    BY <2>1, <2>2, <2>3 DEF WordOK
<1>4. ASSUME NEW i \in 1 .. Length' PROVE WordOK(i)'
  <2>1. CASE i \in 1 .. Length
    BY <1>2, <2>1
  <2>2. CASE i = Length + 1
    BY <1>1, <1>3, <2>2
  <2> QED
    BY <1>1, <2>1, <2>2
<1>5. Unplaced' = Unplaced
  <2>1. ~(asked'[Length + 1].target < 0 /\ fw'[-asked'[Length + 1].target] < 0)
    BY <1>1 DEF AsmInv, Shape
  <2> QED
    BY <1>1, <2>1 DEF Unplaced
<1> QED
  BY <1>1, <1>4, <1>5, EmitKeepsSide DEF AsmInv

(* A jump to a label that is not placed yet. *)
LEMMA AheadStep ==
  ASSUME AsmInv, NEW d \in Nat, NEW v \in Nat \cup {-1}, NEW h \in 1 .. Len(fw), JumpAhead(h, d, v)
  PROVE  AsmInv'
<1>0. Len(fw) \in Nat /\ -h \in Int /\ h \in Nat /\ -h < 0 /\ -(-h) = h
  BY LenProperties DEF AsmInv, Shape
<1>1. /\ Shape' /\ fw' = fw /\ Length' = Length + 1 /\ Length \in Nat
      /\ \A i \in 1 .. Length :
           arg'[i] = arg[i] /\ fixup'[i] = fixup[i] /\ asked'[i] = asked[i]
      /\ arg'[Length + 1] = 0 /\ fixup'[Length + 1] = h
      /\ asked'[Length + 1].op = "jmp" /\ asked'[Length + 1].target = -h
  BY <1>0, EmitGrows DEF AsmInv, JumpAhead, Grown
<1>2. ASSUME NEW i \in 1 .. Length PROVE WordOK(i)'
  BY <1>1, <1>2 DEF AsmInv, WordOK
<1>3. fw[h] < 0
  BY DEF JumpAhead
<1>4. ASSUME NEW i \in 1 .. Length' PROVE WordOK(i)'
  <2>1. CASE i \in 1 .. Length
    BY <1>2, <2>1
  <2>2. CASE i = Length + 1
    <3>1. asked'[i].target = -h /\ fixup'[i] = h /\ fw' = fw
      BY <1>1, <2>2
    <3>2. fw[h] \in Int
      BY ElementOfSeq DEF AsmInv, Shape
    <3> QED
      BY <1>0, <1>3, <3>1, <3>2 DEF WordOK
  <2> QED
    BY <1>1, <2>1, <2>2
<1>5. Unplaced' = Unplaced \cup {Length + 1}
  <2>1. asked'[Length + 1].target < 0 /\ fw'[-asked'[Length + 1].target] < 0
    BY <1>0, <1>1, <1>3
  <2> QED
    BY <1>1, <2>1 DEF Unplaced
<1>6. Length + 1 \notin Unplaced
  BY <1>1 DEF Unplaced
<1>7. Cardinality(Unplaced \cup {Length + 1}) = Cardinality(Unplaced) + 1
  BY <1>6, UnplacedFinite, FS_AddElement DEF AsmInv
<1>8. pending' = pending + 1
  BY DEF JumpAhead
<1>9. SideOK'
  BY EmitKeepsSide DEF AsmInv, JumpAhead
<1> QED
  BY <1>1, <1>4, <1>5, <1>7, <1>8, <1>9 DEF AsmInv

(* bind patches the words that wait for it, and only those. *)
LEMMA BindStep == ASSUME AsmInv, NEW h \in 1 .. Len(fw), Bind(h) PROVE AsmInv'
<1> DEFINE W == Waiting(h)
<1>0. /\ Length \in Nat /\ Len(fw) \in Nat /\ h \in Nat \ {0}
      /\ Len(fixup) = Length /\ Len(asked) = Length
      /\ \A i \in 1 .. Length : arg[i] \in Nat /\ fixup[i] \in Nat /\ asked[i].target \in Int
      /\ \A g \in 1 .. Len(fw) : fw[g] \in Int
  <2>1. Length \in Nat /\ Len(fw) \in Nat /\ Len(fixup) = Length /\ Len(asked) = Length
    BY LenProperties DEF AsmInv, Shape, Length
  <2>2. \A i \in 1 .. Length : arg[i] \in Nat /\ fixup[i] \in Nat
    BY <2>1, ElementOfSeq DEF AsmInv, Shape, Length
  <2>3. \A i \in 1 .. Length : asked[i] \in Asks
    BY <2>1, ElementOfSeq DEF AsmInv, Shape
  <2>4. \A g \in 1 .. Len(fw) : fw[g] \in Int
    BY ElementOfSeq DEF AsmInv, Shape
  <2> QED
    BY <2>1, <2>2, <2>3, <2>4 DEF Asks
<1>1. /\ fw[h] < 0 /\ fw' = [fw EXCEPT ![h] = Length] /\ asked' = asked
      /\ arg' = [i \in 1 .. Length |-> IF i \in W THEN Length % Slots ELSE arg[i]]
      /\ fixup' = [i \in 1 .. Length |-> IF i \in W THEN 0 ELSE fixup[i]]
      /\ pending' = pending - Cardinality(W)
  BY DEF Bind, Place
<1>2. Length % Slots \in Nat
  BY <1>0, Cut
<1>3. arg' \in [1 .. Length -> Nat] /\ fixup' \in [1 .. Length -> Nat]
  BY <1>0, <1>1, <1>2
<1>4. arg' \in Seq(Nat) /\ fixup' \in Seq(Nat) /\ Length' = Length /\ Len(fixup') = Length
  BY <1>0, <1>3, FunctionIsSeq DEF Length
<1>5. /\ fw' \in Seq(Int) /\ Len(fw') = Len(fw) /\ fw'[h] = Length
      /\ \A g \in 1 .. Len(fw) : g # h => fw'[g] = fw[g]
  BY <1>0, <1>1, ExceptSeq DEF AsmInv, Shape
<1>6. Shape'
  BY <1>0, <1>1, <1>4, <1>5 DEF AsmInv, Shape
<1>7. ASSUME NEW i \in 1 .. Length PROVE i \in W <=> asked[i].target = -h
  <2>1. WordOK(i)
    BY DEF AsmInv
  <2>2. i \in W <=> fixup[i] = h
    BY DEF Waiting
  <2>3. asked[i].target \in Int /\ h \in Nat \ {0} /\ fw[h] < 0
    BY <1>0, <1>1
  <2>4. CASE asked[i].target >= 0
    BY <2>1, <2>2, <2>3, <2>4 DEF WordOK
  <2>5. CASE asked[i].target < 0
    <3> DEFINE g == -asked[i].target
    <3>1. g \in 1 .. Len(fw) /\ fw[g] \in Int
      BY <1>0, <2>1, <2>5 DEF WordOK
    <3>2. fw[g] < 0 => fixup[i] = g
      BY <2>1, <2>5 DEF WordOK
    <3>3. fw[g] >= 0 => fixup[i] = 0
      BY <2>1, <2>5 DEF WordOK
    <3>4. i \in W <=> g = h
      BY <2>2, <2>3, <3>1, <3>2, <3>3
    <3> QED
      BY <2>3, <2>5, <3>4
  <2> QED
    BY <2>3, <2>4, <2>5
<1>8. ASSUME NEW i \in 1 .. Length PROVE WordOK(i)'
  <2>1. WordOK(i)
    BY DEF AsmInv
  <2>2. CASE i \in W
    <3>1. asked[i].target = -h /\ arg'[i] = Length % Slots /\ fixup'[i] = 0
      BY <1>1, <1>7, <2>2
    <3> QED
      BY <1>0, <1>1, <1>5, <3>1 DEF WordOK
  <2>3. CASE i \notin W
    <3>1. asked[i].target # -h /\ arg'[i] = arg[i] /\ fixup'[i] = fixup[i]
      BY <1>1, <1>7, <2>3
    <3>2. asked[i].target < 0 => -asked[i].target \in 1 .. Len(fw) /\ -asked[i].target # h
      BY <1>0, <2>1, <3>1 DEF WordOK
    <3> QED
      BY <1>0, <1>1, <1>5, <2>1, <3>1, <3>2 DEF WordOK
  <2> QED
    BY <2>2, <2>3
<1>9. Unplaced' = Unplaced \ W
  <2> SUFFICES ASSUME NEW i \in 1 .. Length
               PROVE  (asked'[i].target < 0 /\ fw'[-asked'[i].target] < 0)
                        <=> (asked[i].target < 0 /\ fw[-asked[i].target] < 0 /\ i \notin W)
    BY <1>4 DEF Unplaced
  <2>1. WordOK(i)
    BY DEF AsmInv
  <2>2. asked[i].target < 0 => -asked[i].target \in 1 .. Len(fw)
    BY <2>1 DEF WordOK
  <2>3. asked[i].target = -h => -asked[i].target = h
    BY <1>0
  <2>4. i \in W <=> asked[i].target = -h
    BY <1>7
  <2>5. asked' = asked
    BY <1>1
  <2>6. CASE asked[i].target < 0
    <3> DEFINE g == -asked[i].target
    <3>1. g \in 1 .. Len(fw)
      BY <2>2, <2>6
    <3>2. CASE i \in W
      <4>1. g = h /\ fw'[g] = Length
        BY <1>5, <2>3, <2>4, <3>2
      <4>2. ~(fw'[g] < 0)
        BY <1>0, <4>1
      <4> QED
        BY <2>5, <3>2, <4>2
    <3>3. CASE i \notin W
      <4>1. g # h
        BY <1>0, <2>4, <2>6, <3>3
      <4>2. fw'[g] = fw[g]
        BY <1>5, <3>1, <4>1
      <4> QED
        BY <2>5, <3>3, <4>2
    <3> QED
      BY <3>2, <3>3
  <2>7. CASE ~(asked[i].target < 0)
    BY <2>5, <2>7
  <2> QED
    BY <2>6, <2>7
<1>10. W \subseteq Unplaced
  <2> SUFFICES ASSUME NEW i \in W PROVE i \in Unplaced
    OBVIOUS
  <2>1. i \in 1 .. Length
    BY DEF Waiting
  <2>2. asked[i].target = -h
    BY <1>7, <2>1
  <2> QED
    BY <1>0, <1>1, <2>1, <2>2 DEF Unplaced
<1>11. Cardinality(Unplaced \ W) = Cardinality(Unplaced) - Cardinality(W)
  <2>1. Unplaced \cap W = W
    BY <1>10
  <2> QED
    BY <2>1, UnplacedFinite, FS_Difference DEF AsmInv
<1>12. SideOK'
  BY DEF AsmInv, SideOK, Bind, Place
<1> QED
  BY <1>1, <1>4, <1>6, <1>8, <1>9, <1>11, <1>12 DEF AsmInv

LEMMA AsmStep == ASSUME AsmInv, [Next]_vars PROVE AsmInv'
<1>0. Length \in Nat /\ Len(fw) \in Nat /\ \A g \in 1 .. Len(fw) : fw[g] \in Int
  BY LenProperties, ElementOfSeq DEF AsmInv, Shape, Length
<1>01. DelayArgs \subseteq Nat /\ SideArgs \subseteq Nat \cup {-1}
  BY ArgumentsTyped DEF AsmInv
<1>1. ASSUME NEW count \in SideCounts, NEW opt \in BOOLEAN, SideSet(count, opt) PROVE AsmInv'
  <2>1. SideOK'
    <3>1. side' = [count |-> count, opt |-> opt] /\ (opt => count < 5) /\ count \in 0 .. 5
      BY <1>1, ArgumentAssumption DEF SideSet
    <3> QED
      BY <3>1 DEF SideOK
  <2> QED
    BY <1>1, <2>1 DEF AsmInv, Shape, WordOK, Unplaced, SideSet, Length
<1>2. CASE Future
  <2>1. /\ fw' \in Seq(Int) /\ Len(fw') = Len(fw) + 1
        /\ \A g \in 1 .. Len(fw) : fw'[g] = fw[g]
    BY <1>2, AppendProperties DEF AsmInv, Shape, Future
  <2>2. UNCHANGED <<arg, fixup, asked, pending>>
    BY <1>2 DEF Future
  <2>3. ASSUME NEW i \in 1 .. Length
        PROVE  WordOK(i)' /\ (asked[i].target < 0 => -asked[i].target \in 1 .. Len(fw))
    BY <1>0, <2>1, <2>2 DEF AsmInv, WordOK
  <2>4. Unplaced' = Unplaced
    BY <2>1, <2>2, <2>3 DEF Unplaced, Length
  <2>5. SideOK'
    BY <1>2 DEF Future, AsmInv, SideOK
  <2> QED
    BY <2>1, <2>2, <2>3, <2>4, <2>5 DEF AsmInv, Shape, Length
<1>3. ASSUME NEW d \in Nat, NEW v \in Nat \cup {-1}, Plain(d, v) PROVE AsmInv'
  BY <1>3, PlacedWordStep DEF Plain
<1>4. ASSUME NEW d \in Nat, NEW v \in Nat \cup {-1}, NEW t \in 0 .. Length, JumpTo(t, d, v)
      PROVE AsmInv'
  <2>1. t \in Nat /\ t \in Int /\ ~(t < 0) /\ t % Slots \in Nat
    BY <1>0, Cut
  <2>2. Emit("jmp", t % Slots, 0, t, d, v) /\ UNCHANGED pending
    BY <1>4, <2>1 DEF JumpTo
  <2> QED
    BY <2>1, <2>2, PlacedWordStep
<1>5. ASSUME NEW d \in Nat, NEW v \in Nat \cup {-1}, NEW h \in 1 .. Len(fw), JumpTo(-h, d, v)
      PROVE AsmInv'
  <2>1. -h \in Int /\ -h < 0 /\ -(-h) = h
    BY <1>0
  <2>2. fw[h] \in Nat /\ fw[h] >= 0
    BY <1>0, <1>5, <2>1 DEF JumpTo
  <2>3. fw[h] % Slots \in Nat
    BY <2>2, Cut
  <2>4. Emit("jmp", fw[h] % Slots, 0, -h, d, v) /\ UNCHANGED pending
    BY <1>5, <2>1 DEF JumpTo
  <2> QED
    BY <2>1, <2>2, <2>3, <2>4, PlacedWordStep
<1>6. CASE UNCHANGED vars
  BY <1>6 DEF AsmInv, Shape, SideOK, WordOK, Unplaced, vars, Length
<1> QED
  BY <1>01, <1>1, <1>2, <1>3, <1>4, <1>5, <1>6, AheadStep, BindStep DEF Next

THEOREM Inductive == Spec => []AsmInv
  BY AsmInit, AsmStep, PTL DEF Spec

(* Every jump whose label has been placed goes there (bind, _jmp_target). *)
THEOREM JumpsAreResolved == Spec => []JumpsGoHome
<1>1. AsmInv => JumpsGoHome
  BY DEF AsmInv, WordOK, JumpsGoHome
<1> QED
  BY Inductive, <1>1, PTL

(* unresolved() is the number of jumps that wait for a label. *)
THEOREM UnresolvedCounts == Spec => []PendingCounts
<1>1. AsmInv => PendingCounts
  BY DEF AsmInv, Unplaced, PendingCounts
<1> QED
  BY Inductive, <1>1, PTL

-----------------------------------------------------------------------------

(* The client only assembles with the assembler's own operations, and stops   *)
(* when it loads.                                                          *)
LEMMA MachineStepAssembles == ASSUME [MachineNext]_vars_m PROVE [Next]_vars
<1>1. CASE Assemble
  BY <1>1 DEF Assemble
<1>2. CASE Load \/ CopyWord \/ WriteExecctrl \/ WriteSideCount
  BY <1>2 DEF Load, CopyWord, WriteExecctrl, WriteSideCount
<1>3. CASE Setup
  BY <1>3 DEF Setup, set_out_pins, set_set_pins, set_sideset_pins, set_jmp_pin, SetFields
<1>4. CASE Enable \/ Disable \/ Execute
  BY <1>4 DEF Enable, Disable, Execute
<1>5. CASE UNCHANGED vars_m
  BY <1>5 DEF vars_m
<1> QED
  BY <1>1, <1>2, <1>3, <1>4, <1>5 DEF MachineNext

THEOREM MachineAssembles == MachineSpec => Spec
<1>1. MachineInit => Init
  BY DEF MachineInit
<1> QED
  BY <1>1, MachineStepAssembles, PTL DEF MachineSpec, Spec

-----------------------------------------------------------------------------
(* Powers of two: tlapm evaluates 2^5 but knows nothing of 2^b, except that   *)
(* a set of b elements has as many subsets.                                *)
LEMMA PowerGrows ==
  ASSUME NEW a \in Nat, NEW b \in Nat, a <= b
  PROVE  2^a \in Nat /\ 2^b \in Nat /\ 2^a <= 2^b
<1>1. ASSUME NEW k \in Nat
      PROVE  IsFiniteSet(SUBSET (1 .. k)) /\ Cardinality(SUBSET (1 .. k)) = 2^k
  <2>1. IsFiniteSet(1 .. k) /\ Cardinality(1 .. k) = k
    BY FS_Interval
  <2> QED
    BY <2>1, FS_SUBSET
<1>2. SUBSET (1 .. a) \in SUBSET (SUBSET (1 .. b))
  OBVIOUS
<1>3. Cardinality(SUBSET (1 .. a)) <= Cardinality(SUBSET (1 .. b))
  BY <1>1, <1>2, FS_Subset
<1>4. Cardinality(SUBSET (1 .. a)) \in Nat /\ Cardinality(SUBSET (1 .. b)) \in Nat
  BY <1>1, FS_CardinalityType
<1> QED
  BY <1>1, <1>3, <1>4

LEMMA DivideByMore == ASSUME NEW k \in Nat, NEW p \in Nat, k < p PROVE ~((k \div p) % 2 = 1)
<1>1. k \div p = 0
  OBVIOUS
<1> QED
  BY <1>1

(* A number below 2^m has its bits in the lowest m places. *)
LEMMA BitsFit == ASSUME NEW m \in Nat, NEW k \in Nat, k < 2^m PROVE Bits(k) \subseteq 0 .. m - 1
<1>1. ASSUME NEW b \in 0 .. 30, b \notin 0 .. m - 1 PROVE ~((k \div 2^b) % 2 = 1)
  <2>1. b \in Nat /\ m <= b
    BY <1>1
  <2> DEFINE p == 2^b
             q == 2^m
  <2>2. p \in Nat /\ q \in Nat /\ q <= p /\ k < q
    BY <2>1, PowerGrows, Zenon
  <2> HIDE DEF p, q
  <2>3. ~((k \div p) % 2 = 1)
    BY <2>2, DivideByMore
  <2> QED
    BY <2>3, Zenon DEF p
<1> QED
  BY <1>1, Zenon DEF Bits

LEMMA FiveBits == ASSUME NEW k \in 0 .. 31 PROVE Bits(k) \subseteq 0 .. 4
<1>1. 2^5 = 32
  BY SMT
<1>2. k \in Nat /\ k < 32 /\ 5 - 1 = 4
  OBVIOUS
<1> QED
  BY <1>1, <1>2, BitsFit, Zenon

LEMMA ThreeBits == ASSUME NEW k \in 0 .. 7 PROVE Bits(k) \subseteq 0 .. 2
<1>1. 2^3 = 8
  BY SMT
<1>2. k \in Nat /\ k < 8 /\ 3 - 1 = 2
  OBVIOUS
<1> QED
  BY <1>1, <1>2, BitsFit, Zenon

(* What is put in a field can be read back from it. *)
LEMMA FieldReadsBack ==
  ASSUME NEW msb \in Nat, NEW lsb \in Nat, NEW w, NEW v, v \subseteq 0 .. msb - lsb,
         \A b \in lsb .. msb : b \in w <=> b - lsb \in v
  PROVE  Get(w, Span(msb, lsb)) = v
<1>1. Get(w, Span(msb, lsb)) = {b - lsb : b \in {c \in w \cap (lsb .. msb) : c >= lsb}}
  BY DEF Get, Shr, Span
<1>2. ASSUME NEW x \in v PROVE x \in {b - lsb : b \in {c \in w \cap (lsb .. msb) : c >= lsb}}
  <2>1. x + lsb \in lsb .. msb /\ (x + lsb) - lsb = x
    OBVIOUS
  <2>2. x + lsb \in {c \in w \cap (lsb .. msb) : c >= lsb}
    BY <2>1
  <2> QED
    BY <2>1, <2>2
<1>3. ASSUME NEW x \in {b - lsb : b \in {c \in w \cap (lsb .. msb) : c >= lsb}} PROVE x \in v
  OBVIOUS
<1> QED
  BY <1>1, <1>2, <1>3

-----------------------------------------------------------------------------
(* The program counter and what has been loaded.  The memory holds the words   *)
(* copied so far; WRAP_TOP names the last one, whatever set_jmp_pin writes   *)
(* next to it; the counter stays among them.                               *)
Loaded  == {"side", "setup", "run", "over"}
WordAt(a) == <<field[a + 1], arg[a + 1], asked[a + 1].op>>

RunInv ==
  /\ at \in {"assemble", "copy"} \cup Loaded
  /\ Length <= Slots
  /\ n \in Nat /\ n <= Length /\ (at = "assemble" => n = 0) /\ (at \in Loaded => n = Length)
  /\ at # "assemble" => Length > 0
  /\ DOMAIN mem = 0 .. Slots - 1
  /\ \A a \in 0 .. n - 1 : mem[a] = WordAt(a)
  /\ at \in Loaded => \A b \in 12 .. 16 : b \in execctrl <=> b - 12 \in Bits((Length - 1) % 32)
  /\ enabled \in BOOLEAN /\ (enabled => at = "run")
  /\ at \notin {"run", "over"} => pc = 0
  /\ at = "run" /\ StaysInside => pc \in Nat /\ pc < Length

LEMMA EmitSize ==
  ASSUME Shape, NEW op, NEW a, NEW fix, NEW target, NEW d, NEW v, Emit(op, a, fix, target, d, v)
  PROVE  Length' = Length + 1 /\ Length < Slots
<1>0. \A k \in 1 .. Len(arg) : arg[k] \in Nat \cup {a}
  BY ElementOfSeq DEF Shape
<1>1. arg \in Seq(Nat \cup {a}) /\ a \in Nat \cup {a}
  BY <1>0, LenProperties, FunctionIsSeq DEF Shape
<1> QED
  BY <1>1, AppendProperties DEF Emit, Length

(* The memory is large enough for what the assembler makes. *)
LEMMA AsmFits == ASSUME AsmInv, Length <= Slots, [Next]_vars PROVE Length' <= Slots
<1>0. Length \in Nat /\ Slots \in Nat
  BY LenProperties, SlotAssumption DEF AsmInv, Shape, Length
<1>1. ASSUME NEW op, NEW a, NEW fix, NEW target, NEW d, NEW v, Emit(op, a, fix, target, d, v)
      PROVE  Length' <= Slots
  BY <1>0, <1>1, EmitSize DEF AsmInv
<1>2. ASSUME NEW h \in 1 .. Len(fw), Bind(h) PROVE Length' <= Slots
  <2>1. Shape' /\ asked' = asked
    BY <1>2, BindStep DEF AsmInv, Bind, Place
  <2> QED
    BY <2>1 DEF AsmInv, Shape, Length
<1>3. ASSUME NEW count, NEW opt, SideSet(count, opt) PROVE Length' <= Slots
  BY <1>3 DEF SideSet, Length
<1>4. CASE Future \/ UNCHANGED vars
  BY <1>4 DEF Future, vars, Length
<1> QED
  BY <1>1, <1>2, <1>3, <1>4 DEF Next, Plain, JumpTo, JumpAhead

(* set_jmp_pin leaves WRAP_TOP alone. *)
LEMMA JmpPinApart == ASSUME NEW b \in 12 .. 16 PROVE b \notin Mask({"JMP_PIN"})
<1>1. Mask({"JMP_PIN"}) = Fields["JMP_PIN"].lsb .. Fields["JMP_PIN"].msb
  BY DEF Mask
<1>2. Fields["JMP_PIN"].lsb = 24
  BY DEF Fields, Span
<1> QED
  BY <1>1, <1>2

LEMMA RunInit == MachineInit => RunInv
<1> SUFFICES ASSUME MachineInit PROVE RunInv
  OBVIOUS
<1>1. Length = 0 /\ n = 0 /\ at = "assemble" /\ pc = 0 /\ ~enabled /\ enabled \in BOOLEAN
  BY EmptySeq DEF MachineInit, Init, Length
<1>2. DOMAIN mem = 0 .. Slots - 1
  BY DEF MachineInit
<1> QED
  BY <1>1, <1>2, SlotAssumption DEF RunInv, Loaded

LEMMA LoadStep ==
  ASSUME AsmInv, RunInv, Load \/ CopyWord \/ WriteExecctrl \/ WriteSideCount PROVE RunInv'
<1>0. Length \in Nat /\ Slots \in Nat /\ Length' = Length /\ UNCHANGED vars
  BY LenProperties, SlotAssumption
  DEF AsmInv, Shape, Length, Load, CopyWord, WriteExecctrl, WriteSideCount, vars
<1>1. CASE Load
  BY <1>0, <1>1 DEF Load, At, RunInv, Loaded, WordAt, StaysInside, vars
<1>2. CASE CopyWord
  <2>1. n \in DOMAIN mem /\ mem' = [mem EXCEPT ![n] = WordAt(n)] /\ n' = n + 1 /\ n < Length
    BY <1>0, <1>2 DEF CopyWord, RunInv, WordAt
  <2>2. DOMAIN mem' = DOMAIN mem
    BY <2>1
  <2>3. \A a \in 0 .. n' - 1 : mem'[a] = WordAt(a)
    <3> SUFFICES ASSUME NEW a \in 0 .. n PROVE mem'[a] = WordAt(a)
      BY <2>1 DEF RunInv
    <3>1. CASE a = n
      BY <2>1, <3>1
    <3>2. CASE a # n
      <4>1. a \in 0 .. n - 1 /\ a \in DOMAIN mem
        BY <1>0, <2>1, <3>2 DEF RunInv
      <4> QED
        BY <2>1, <3>2, <4>1 DEF RunInv
    <3> QED
      BY <3>1, <3>2
  <2>4. \A a : WordAt(a)' = WordAt(a)
    BY <1>0 DEF WordAt, vars
  <2> QED
    BY <1>0, <1>2, <2>1, <2>2, <2>3, <2>4 DEF CopyWord, RunInv, Loaded, StaysInside, vars
<1>3. CASE WriteExecctrl
  <2> DEFINE v == Bits((Length - 1) % 32)
  <2>1. v \subseteq Int
    BY DEF Bits
  <2>2. execctrl' = Shl(v, 12) \cup (IF side.opt THEN {30} ELSE {})
    BY <1>3 DEF WriteExecctrl, WrapTop
  <2> HIDE DEF v
  <2>3. ASSUME NEW b \in 12 .. 16 PROVE b \in execctrl' <=> b - 12 \in v
    <3>1. b \in Shl(v, 12) <=> b - 12 \in v
      BY <2>1 DEF Shl, Bit
    <3> QED
      BY <2>2, <3>1
  <2>4. \A b \in 12 .. 16 : b \in execctrl' <=> b - 12 \in Bits((Length' - 1) % 32)
    BY <1>0, <2>3 DEF v
  <2>5. \A a : WordAt(a)' = WordAt(a)
    BY <1>0 DEF WordAt, vars
  <2> QED
    BY <1>0, <1>3, <2>4, <2>5 DEF WriteExecctrl, At, RunInv, Loaded, StaysInside, vars
<1>4. CASE WriteSideCount
  BY <1>0, <1>4 DEF WriteSideCount, At, RunInv, Loaded, WordAt, StaysInside, vars
<1> QED
  BY <1>1, <1>2, <1>3, <1>4

LEMMA SetupStep == ASSUME RunInv, Setup PROVE RunInv'
<1>1. UNCHANGED <<vars, at, n, mem, enabled, pc>> /\ at = "setup"
  BY DEF Setup, set_out_pins, set_set_pins, set_sideset_pins, set_jmp_pin, SetFields
<1>2. \A b \in 12 .. 16 : b \in execctrl' <=> b \in execctrl
  <2>1. CASE set_jmp_pin
    BY <2>1, JmpPinApart DEF set_jmp_pin
  <2>2. CASE set_out_pins \/ set_set_pins \/ set_sideset_pins
    BY <2>2 DEF set_out_pins, set_set_pins, set_sideset_pins, SetFields
  <2> QED
    BY <2>1, <2>2 DEF Setup
<1> QED
  BY <1>1, <1>2 DEF RunInv, Loaded, WordAt, StaysInside, Length, vars

(* After the last word comes the first, and a jump stays inside. *)
LEMMA ExecuteStep == ASSUME Slots <= 32, AsmInv, RunInv, Execute PROVE RunInv'
<1>0. /\ Length \in Nat /\ Slots \in Nat /\ UNCHANGED <<vars, at, n, mem, execctrl, enabled>>
      /\ at = "run" /\ n = Length /\ Length > 0 /\ Length <= Slots
      /\ StaysInside => pc \in Nat /\ pc < Length
  BY LenProperties, SlotAssumption DEF AsmInv, Shape, Length, Execute, RunInv, Loaded
<1>1. ASSUME StaysInside PROVE pc' \in Nat /\ pc' < Length
  <2> DEFINE following == IF Get(execctrl, Span(16, 12)) = Bits(pc) THEN 0 ELSE (pc + 1) % Slots
  <2>0. pc \in Nat /\ pc < Length
    BY <1>0, <1>1
  <2>1. pc' = following \/ mem[pc] = Unknown \/ (mem[pc][3] = "jmp" /\ pc' = mem[pc][2])
    BY DEF Execute
  <2>2. following \in Nat /\ following < Length
    <3>1. CASE pc = Length - 1
      <4>1. (Length - 1) % 32 = pc /\ pc \in 0 .. 31
        BY <1>0, <2>0, <3>1
      <4>2. \A b \in 12 .. 16 : b \in execctrl <=> b - 12 \in Bits(pc)
        BY <1>0, <4>1 DEF RunInv, Loaded
      <4>3. 16 \in Nat /\ 12 \in Nat /\ Bits(pc) \subseteq 0 .. 16 - 12
        BY <4>1, FiveBits
      <4>4. Get(execctrl, Span(16, 12)) = Bits(pc)
        BY <4>2, <4>3, FieldReadsBack, Zenon
      <4> QED
        BY <1>0, <2>0, <4>4
    <3>2. CASE pc # Length - 1
      <4>1. (pc + 1) % Slots = pc + 1 /\ pc + 1 < Length
        BY <1>0, <2>0, <3>2
      <4> QED
        BY <1>0, <2>0, <4>1
    <3> QED
      BY <3>1, <3>2
  <2>3. mem[pc] # Unknown /\ mem[pc][2] \in Nat /\ mem[pc][2] < Length
    <3>1. mem[pc] = <<field[pc + 1], arg[pc + 1], asked[pc + 1].op>>
      <4>1. pc \in 0 .. n - 1
        BY <1>0, <2>0
      <4>2. mem[pc] = WordAt(pc)
        BY <4>1, Zenon DEF RunInv
      <4> QED
        BY <4>2, Zenon DEF WordAt
    <3>2. pc + 1 \in 1 .. Length
      BY <1>0, <2>0
    <3>3. arg[pc + 1] \in Nat /\ arg[pc + 1] < Length
      BY <1>1, <3>2, ElementOfSeq DEF StaysInside, AsmInv, Shape, Length
    <3> QED
      BY <3>1, <3>3 DEF Unknown
  <2> QED
    BY <2>1, <2>2, <2>3
<1> QED
  BY <1>0, <1>1 DEF RunInv, Loaded, WordAt, StaysInside, Length, vars

LEMMA RunStep == ASSUME Slots <= 32, AsmInv, RunInv, [MachineNext]_vars_m PROVE RunInv'
<1>1. CASE Assemble
  <2>1. Length' <= Slots
    BY <1>1, AsmFits DEF Assemble, RunInv
  <2>2. Length' \in Nat
    BY <1>1, AsmStep, LenProperties DEF Assemble, AsmInv, Shape, Length
  <2> QED
    BY <1>1, <2>1, <2>2 DEF Assemble, RunInv, Loaded, hw
<1>2. CASE Enable
  <2>1. enabled' \in BOOLEAN /\ at' = "run" /\ at = "setup"
    BY <1>2 DEF Enable, At
  <2>2. Length \in Nat
    BY LenProperties DEF AsmInv, Shape, Length
  <2> QED
    BY <1>2, <2>1, <2>2 DEF Enable, RunInv, Loaded, WordAt, StaysInside, Length, vars
<1>3. CASE Disable
  <2>1. enabled' \in BOOLEAN /\ ~enabled' /\ at' = "over" /\ at = "run"
    BY <1>3 DEF Disable, At
  <2> QED
    BY <1>3, <2>1 DEF Disable, RunInv, Loaded, WordAt, StaysInside, Length, vars
<1>4. CASE UNCHANGED vars_m
  BY <1>4 DEF RunInv, Loaded, WordAt, StaysInside, Length, vars_m, vars, hw
<1> QED
  BY <1>1, <1>2, <1>3, <1>4, LoadStep, SetupStep, ExecuteStep DEF MachineNext

(* A running machine whose program has no label behind its last word executes *)
(* the words its client assembled and nothing else: load has copied all of    *)
(* them and set WRAP_TOP to the last one, no jump was left open, and the      *)
(* setters do not touch the wrap.                                          *)
THEOREM MachineRunsItsProgram == ASSUME Slots <= 32 PROVE MachineSpec => []RunsOwnProgram
<1>1. AsmInv /\ RunInv /\ [MachineNext]_vars_m => RunInv'
  BY RunStep
<1>2. RunInv => RunsOwnProgram
  <2> SUFFICES ASSUME RunInv, enabled, StaysInside
               PROVE  pc < Length /\ mem[pc] = WordAt(pc)
    BY Zenon DEF RunsOwnProgram, WordAt
  <2>1. at = "run" /\ n = Length /\ n \in Nat /\ (\A a \in 0 .. n - 1 : mem[a] = WordAt(a))
    BY DEF RunInv, Loaded
  <2>2. pc \in Nat /\ pc < Length
    BY <2>1 DEF RunInv
  <2> QED
    BY <2>1, <2>2
<1> QED
  BY MachineAssembles, Inductive, RunInit, <1>1, <1>2, PTL DEF MachineSpec

(* What is proved of the assembler holds of the program a machine runs.      *)
THEOREM LoadedProgramIsResolved == MachineSpec => [](JumpsGoHome /\ PendingCounts)
  BY MachineAssembles, JumpsAreResolved, UnresolvedCounts, PTL

-----------------------------------------------------------------------------
(* The five bits of delay and side-set. *)

LEMMA PowerTable ==
  /\ 2^0 = 1 /\ 2^1 = 2 /\ 2^2 = 4 /\ 2^3 = 8 /\ 2^4 = 16 /\ 2^5 = 32
  BY SMT

Weights == {1, 2, 4, 8, 16, 32}

(* The weights: what side_set divides is four bits with the enable bit and    *)
(* five without.                                                           *)
LEMMA Division ==
  ASSUME SideOK
  PROVE  /\ 2^DelayBits \in Weights /\ 2^side.count \in Nat
         /\ 2^DelayBits * 2^side.count = IF side.opt THEN 16 ELSE 32
         /\ SideBits \in 0 .. 5 /\ (side.count = 0 /\ ~side.opt <=> SideBits = 0)
<1>1. DelayBits = 5 - SideBits /\ SideBits = side.count + (IF side.opt THEN 1 ELSE 0)
  BY DEF DelayBits, SideBits
<1>2. CASE side.opt
  <2>1. side.count \in 0 .. 4 /\ DelayBits = 4 - side.count
    BY <1>1, <1>2 DEF SideOK
  <2>2. CASE side.count = 0
    BY <1>1, <1>2, <2>1, <2>2, PowerTable DEF Weights
  <2>3. CASE side.count = 1
    BY <1>1, <1>2, <2>1, <2>3, PowerTable DEF Weights
  <2>4. CASE side.count = 2
    BY <1>1, <1>2, <2>1, <2>4, PowerTable DEF Weights
  <2>5. CASE side.count = 3
    BY <1>1, <1>2, <2>1, <2>5, PowerTable DEF Weights
  <2>6. CASE side.count = 4
    BY <1>1, <1>2, <2>1, <2>6, PowerTable DEF Weights
  <2> QED
    BY <2>1, <2>2, <2>3, <2>4, <2>5, <2>6
<1>3. CASE ~side.opt
  <2>1. side.count \in 0 .. 5 /\ DelayBits = 5 - side.count
    BY <1>1, <1>3 DEF SideOK
  <2>2. CASE side.count = 0
    BY <1>1, <1>3, <2>1, <2>2, PowerTable DEF Weights
  <2>3. CASE side.count = 1
    BY <1>1, <1>3, <2>1, <2>3, PowerTable DEF Weights
  <2>4. CASE side.count = 2
    BY <1>1, <1>3, <2>1, <2>4, PowerTable DEF Weights
  <2>5. CASE side.count = 3
    BY <1>1, <1>3, <2>1, <2>5, PowerTable DEF Weights
  <2>6. CASE side.count = 4
    BY <1>1, <1>3, <2>1, <2>6, PowerTable DEF Weights
  <2>7. CASE side.count = 5
    BY <1>1, <1>3, <2>1, <2>7, PowerTable DEF Weights
  <2> QED
    BY <2>1, <2>2, <2>3, <2>4, <2>5, <2>6, <2>7
<1> QED
  BY <1>2, <1>3

(* Two digits side by side can be told apart, ... *)
LEMMA Digits ==
  ASSUME NEW p \in Weights, NEW q \in Nat, p * q = 32,
         NEW a \in 0 .. p - 1, NEW b \in 0 .. q - 1, NEW f, f = a + b * p
  PROVE  f \in 0 .. 31 /\ f % p = a /\ (f % 32) \div p = b
<1>1. CASE p = 1
  <2>1. q = 32 /\ b \in 0 .. 31 /\ a \in 0 .. 0
    BY <1>1
  <2> QED
    BY <1>1, <2>1
<1>2. CASE p = 2
  <2>1. q = 16 /\ b \in 0 .. 15 /\ a \in 0 .. 1
    BY <1>2
  <2> QED
    BY <1>2, <2>1
<1>3. CASE p = 4
  <2>1. q = 8 /\ b \in 0 .. 7 /\ a \in 0 .. 3
    BY <1>3
  <2> QED
    BY <1>3, <2>1
<1>4. CASE p = 8
  <2>1. q = 4 /\ b \in 0 .. 3 /\ a \in 0 .. 7
    BY <1>4
  <2> QED
    BY <1>4, <2>1
<1>5. CASE p = 16
  <2>1. q = 2 /\ b \in 0 .. 1 /\ a \in 0 .. 15
    BY <1>5
  <2> QED
    BY <1>5, <2>1
<1>6. CASE p = 32
  <2>1. q = 1 /\ b \in 0 .. 0 /\ a \in 0 .. 31
    BY <1>6
  <2> QED
    BY <1>6, <2>1
<1> QED
  BY <1>1, <1>2, <1>3, <1>4, <1>5, <1>6 DEF Weights

(* ... also below the enable bit. *)
LEMMA DigitsBelow ==
  ASSUME NEW p \in Weights, NEW q \in Nat, p * q = 16,
         NEW a \in 0 .. p - 1, NEW b \in 0 .. q - 1, NEW f, f = a + b * p + 16
  PROVE  f \in 16 .. 31 /\ f % p = a /\ (f % 16) \div p = b
<1>1. CASE p = 1
  <2>1. q = 16 /\ b \in 0 .. 15 /\ a \in 0 .. 0
    BY <1>1
  <2> QED
    BY <1>1, <2>1
<1>2. CASE p = 2
  <2>1. q = 8 /\ b \in 0 .. 7 /\ a \in 0 .. 1
    BY <1>2
  <2> QED
    BY <1>2, <2>1
<1>3. CASE p = 4
  <2>1. q = 4 /\ b \in 0 .. 3 /\ a \in 0 .. 3
    BY <1>3
  <2> QED
    BY <1>3, <2>1
<1>4. CASE p = 8
  <2>1. q = 2 /\ b \in 0 .. 1 /\ a \in 0 .. 7
    BY <1>4
  <2> QED
    BY <1>4, <2>1
<1>5. CASE p = 16
  <2>1. q = 1 /\ b \in 0 .. 0 /\ a \in 0 .. 15
    BY <1>5
  <2> QED
    BY <1>5, <2>1
<1>6. p # 32
  OBVIOUS
<1> QED
  BY <1>1, <1>2, <1>3, <1>4, <1>5, <1>6 DEF Weights

(* What _emit packs, taken apart with the divisor and the modulus of the       *)
(* registers.                                                              *)
Weight  == 2 ^ DelayBits
SideValues == 2 ^ side.count

LEMMA FieldUnpacks ==
  ASSUME SideOK, NEW d \in Nat, NEW v \in Nat \cup {-1}
  PROVE  /\ Field(d, v) \in Nat /\ Field(d, v) % Weight = d % Weight
         /\ side.count > 0 /\ v >= 0 =>
              /\ side.opt => Field(d, v) >= 16
              /\ (Field(d, v) % (IF side.opt THEN 16 ELSE 32)) \div Weight = v % SideValues
         /\ side.count > 0 /\ v < 0 =>
              IF side.opt THEN Field(d, v) < 16 ELSE (Field(d, v) % 32) \div Weight = 0
<1> DEFINE f == Field(d, v)
           p == Weight
           q == SideValues
<1>1. p \in Weights /\ q \in Nat /\ p * q = IF side.opt THEN 16 ELSE 32
  BY Division DEF Weight, SideValues
<1>2. f = IF side.count = 0 \/ v < 0 THEN d % p
          ELSE (d % p) + (v % q) * p + (IF side.opt THEN 16 ELSE 0)
  BY DEF Field, DelayBits, Weight, SideValues
<1> SUFFICES
      /\ f \in Nat /\ f % p = d % p
      /\ side.count > 0 /\ v >= 0 =>
           /\ side.opt => f >= 16
           /\ (f % (IF side.opt THEN 16 ELSE 32)) \div p = v % q
      /\ side.count > 0 /\ v < 0 => IF side.opt THEN f < 16 ELSE (f % 32) \div p = 0
  BY Zenon
<1> HIDE DEF f, p, q
<1>3. side.count \in Nat /\ side.opt \in BOOLEAN /\ p \in Nat /\ p > 0 /\ q > 0
  BY <1>1 DEF SideOK, Weights
<1>4. d % p \in 0 .. p - 1 /\ v % q \in 0 .. q - 1
  BY <1>1, <1>3
<1> DEFINE a == d % p
           b == v % q
<1>5. a \in 0 .. p - 1 /\ b \in 0 .. q - 1
  BY <1>4
<1>6. f = IF side.count = 0 \/ v < 0 THEN a ELSE a + b * p + (IF side.opt THEN 16 ELSE 0)
  BY <1>2
<1> HIDE DEF a, b
<1>7. CASE side.count = 0 \/ v < 0
  <2>1. f = a /\ a \in Nat /\ a < p /\ a % p = a
    BY <1>3, <1>5, <1>6, <1>7
  <2>2. side.opt => p <= 16
    BY <1>1, <1>3 DEF Weights
  <2>3. (a % 32) \div p = 0
    <3>1. p <= 32 /\ a % 32 = a
      BY <1>1, <2>1 DEF Weights
    <3>2. a \div p = 0
      BY <1>3, <2>1
    <3> QED
      BY <3>1, <3>2
  <2> QED
    BY <1>3, <1>7, <2>1, <2>2, <2>3 DEF a
<1>8. CASE ~(side.count = 0 \/ v < 0)
  <2>1. CASE side.opt
    <3>1. f = a + b * p + 16 /\ p * q = 16
      BY <1>1, <1>6, <1>8, <2>1
    <3>2. p \in Weights /\ q \in Nat
      BY <1>1
    <3>3. f \in 16 .. 31 /\ f % p = a /\ (f % 16) \div p = b
      BY <1>5, <3>1, <3>2, DigitsBelow
    <3> QED
      BY <1>8, <2>1, <3>3 DEF a, b
  <2>2. CASE ~side.opt
    <3>1. f = a + b * p /\ p * q = 32
      BY <1>1, <1>3, <1>5, <1>6, <1>8, <2>2
    <3>2. p \in Weights /\ q \in Nat
      BY <1>1
    <3>3. f \in 0 .. 31 /\ f % p = a /\ (f % 32) \div p = b
      BY <1>5, <3>1, <3>2, Digits
    <3> QED
      BY <1>8, <2>2, <3>3 DEF a, b
  <2> QED
    BY <1>3, <2>1, <2>2
<1> QED
  BY <1>7, <1>8

-----------------------------------------------------------------------------
(* The words hold the fields they were asked for under the division that is    *)
(* in force: side_set comes before the first of them.                       *)
FieldInv ==
  /\ SideOK
  /\ field \in Seq(Nat) /\ Len(field) = Length
  /\ \A i \in 1 .. Length : field[i] = Field(asked[i].delay, asked[i].side)

LEMMA FieldInit == Init => FieldInv
<1> SUFFICES ASSUME Init PROVE FieldInv
  OBVIOUS
<1>1. side.count = 0 /\ ~side.opt /\ side.opt \in BOOLEAN
  BY DEF Init
<1> QED
  BY <1>1, EmptySeq DEF Init, FieldInv, SideOK, Length

LEMMA FieldEmit ==
  ASSUME AsmInv, FieldInv, NEW op \in {"plain", "jmp"}, NEW a, NEW fix, NEW target \in Int,
         NEW d \in Nat, NEW v \in Nat \cup {-1}, Emit(op, a, fix, target, d, v)
  PROVE  FieldInv'
<1> DEFINE new == [op |-> op, target |-> target, delay |-> d, side |-> v]
           f   == Field(d, v)
<1>1. d \in Nat /\ v \in Nat \cup {-1} /\ f \in Nat
  BY ArgumentAssumption, FieldUnpacks DEF FieldInv
<1>2. field' = Append(field, f) /\ asked' = Append(asked, new) /\ side' = side
  BY DEF Emit
<1> HIDE DEF f
<1>3. /\ field' \in Seq(Nat) /\ Len(field') = Length + 1 /\ field'[Length + 1] = f
      /\ \A i \in 1 .. Length : field'[i] = field[i]
  BY <1>1, <1>2, AppendProperties DEF FieldInv
<1>4. new \in Asks
  BY DEF Asks
<1>5. /\ asked'[Length + 1] = new /\ \A i \in 1 .. Length : asked'[i] = asked[i]
  BY <1>2, <1>4, AppendProperties DEF AsmInv, Shape
<1>6. Length' = Length + 1 /\ Length \in Nat
  BY EmitSize, LenProperties DEF AsmInv, Shape, Length
<1>7. \A x, y : Field(x, y)' = Field(x, y)
  BY <1>2 DEF Field, DelayBits, SideBits
<1>8. ASSUME NEW i \in 1 .. Length' PROVE field'[i] = Field(asked'[i].delay, asked'[i].side)
  <2>1. CASE i = Length + 1
    BY <1>3, <1>5, <2>1 DEF f
  <2>2. CASE i \in 1 .. Length
    BY <1>3, <1>5, <2>2 DEF FieldInv
  <2> QED
    BY <1>6, <2>1, <2>2
<1> QED
  BY <1>2, <1>3, <1>6, <1>7, <1>8 DEF FieldInv, SideOK

LEMMA FieldStep == ASSUME AsmInv, FieldInv, [Next]_vars PROVE FieldInv'
<1>1. ASSUME NEW count \in SideCounts, NEW opt \in BOOLEAN, SideSet(count, opt) PROVE FieldInv'
  <2>1. Length = 0 /\ Length' = 0 /\ field' = field
    BY <1>1, EmptySeq DEF SideSet, Length
  <2>2. side'.count = count /\ side'.opt = opt /\ (opt => count < 5) /\ count \in 0 .. 5
    BY <1>1, ArgumentAssumption DEF SideSet
  <2> QED
    BY <2>1, <2>2 DEF FieldInv, SideOK
<1>2. CASE Future \/ UNCHANGED vars
  BY <1>2 DEF Future, vars, FieldInv, SideOK, Field, DelayBits, SideBits, Length
<1>3. DelayArgs \subseteq Nat /\ SideArgs \subseteq Nat \cup {-1}
  BY ArgumentsTyped DEF FieldInv
<1>4. ASSUME NEW d \in Nat, NEW v \in Nat \cup {-1}, Plain(d, v) PROVE FieldInv'
  BY <1>4, FieldEmit DEF Plain
<1>5. ASSUME NEW d \in Nat, NEW v \in Nat \cup {-1}, NEW t \in Int, JumpTo(t, d, v) PROVE FieldInv'
  BY <1>5, FieldEmit DEF JumpTo
<1>6. ASSUME NEW d \in Nat, NEW v \in Nat \cup {-1}, NEW h \in 1 .. Len(fw), JumpAhead(h, d, v)
      PROVE  FieldInv'
  <2>1. -h \in Int
    BY LenProperties DEF AsmInv, Shape
  <2> QED
    BY <1>6, <2>1, FieldEmit DEF JumpAhead
<1>7. ASSUME NEW h \in 1 .. Len(fw), Bind(h) PROVE FieldInv'
  <2>1. Shape' /\ UNCHANGED <<field, side, asked>>
    BY <1>7, BindStep DEF AsmInv, Bind, Place
  <2>2. Length' = Length
    BY <2>1 DEF AsmInv, Shape, Length
  <2> QED
    BY <2>1, <2>2 DEF FieldInv, SideOK, Field, DelayBits, SideBits
<1>8. \A t \in 0 .. Length : t \in Int
  OBVIOUS
<1>9. \A h \in 1 .. Len(fw) : -h \in Int
  BY LenProperties DEF AsmInv, Shape
<1> QED
  BY <1>1, <1>2, <1>3, <1>4, <1>5, <1>6, <1>7, <1>8, <1>9 DEF Next

-----------------------------------------------------------------------------
(* The registers: the divisor and the enable bit are those of the assembler,   *)
(* and a field that was set stays set.                                     *)
PinFields == {"SET_COUNT", "SET_BASE", "OUT_COUNT", "OUT_BASE", "SIDESET_BASE"}
Ready     == {"setup", "run", "over"}

RegInv ==
  /\ at \in Loaded => (30 \in execctrl <=> side.opt)
  /\ at \in Ready => \A b \in 29 .. 31 : b \in pinctrl <=> b - 29 \in Bits(SideBits)
  /\ at \notin Ready => set = {}
  /\ set \subseteq PinFields \cup {"JMP_PIN"}
  /\ \A f \in set \cap PinFields : Mask({f}) \subseteq pinctrl
  /\ "JMP_PIN" \in set => Mask({"JMP_PIN"}) \subseteq execctrl

LEMMA MaskOf == ASSUME NEW f PROVE Mask({f}) = Fields[f].lsb .. Fields[f].msb
  BY DEF Mask

LEMMA FieldMasks ==
  /\ Mask({"SET_COUNT"}) = 26 .. 28 /\ Mask({"SET_BASE"}) = 5 .. 9
  /\ Mask({"OUT_COUNT"}) = 20 .. 25 /\ Mask({"OUT_BASE"}) = 0 .. 4
  /\ Mask({"SIDESET_BASE"}) = 10 .. 14 /\ Mask({"JMP_PIN"}) = 24 .. 28
<1>1. /\ Fields["SET_COUNT"].lsb = 26 /\ Fields["SET_COUNT"].msb = 28
      /\ Fields["SET_BASE"].lsb = 5 /\ Fields["SET_BASE"].msb = 9
      /\ Fields["OUT_COUNT"].lsb = 20 /\ Fields["OUT_COUNT"].msb = 25
      /\ Fields["OUT_BASE"].lsb = 0 /\ Fields["OUT_BASE"].msb = 4
      /\ Fields["SIDESET_BASE"].lsb = 10 /\ Fields["SIDESET_BASE"].msb = 14
      /\ Fields["JMP_PIN"].lsb = 24 /\ Fields["JMP_PIN"].msb = 28
  BY DEF Fields, Span
<1> DEFINE M(f) == Mask({f}) = Fields[f].lsb .. Fields[f].msb
<1>2. \A f : M(f)
  BY MaskOf
<1>3. /\ M("SET_COUNT") /\ M("SET_BASE") /\ M("OUT_COUNT") /\ M("OUT_BASE") /\ M("SIDESET_BASE") /\ M("JMP_PIN")
  <2> HIDE DEF M
  <2> QED
    BY <1>2
<1> QED
  BY <1>1, <1>3

LEMMA MaskOfTwo == ASSUME NEW f, NEW g PROVE Mask({f, g}) = Mask({f}) \cup Mask({g})
  BY DEF Mask

(* A setter disturbs neither the count above its fields nor a field of another   *)
(* setter, which lies entirely outside its mask.                            *)
LEMMA SetterStep ==
  ASSUME RegInv, NEW mask, NEW fields, fields \subseteq PinFields, SetFields(mask, fields),
         \A b \in 29 .. 31 : b \notin mask /\ b \notin Mask(fields),
         \A f \in fields : Mask({f}) \subseteq Mask(fields),
         \A f \in PinFields \ fields : Mask({f}) \cap mask = {}
  PROVE  RegInv'
<1>1. /\ pinctrl' = (pinctrl \ mask) \cup Mask(fields) /\ set' = set \cup fields
      /\ UNCHANGED <<vars, at, execctrl>> /\ at = "setup"
  BY DEF SetFields
<1>2. SideBits' = SideBits /\ side' = side
  BY <1>1 DEF vars, SideBits
<1>3. \A b \in 29 .. 31 : b \in pinctrl' <=> b \in pinctrl
  BY <1>1
<1>4. ASSUME NEW f \in set' \cap PinFields PROVE Mask({f}) \subseteq pinctrl'
  <2>1. CASE f \in fields
    BY <1>1, <2>1
  <2>2. CASE f \notin fields
    <3>1. Mask({f}) \subseteq pinctrl /\ Mask({f}) \cap mask = {}
      BY <1>1, <1>4, <2>2 DEF RegInv
    <3> QED
      BY <1>1, <3>1
  <2> QED
    BY <2>1, <2>2
<1>5. "JMP_PIN" \in set' => Mask({"JMP_PIN"}) \subseteq execctrl'
  BY <1>1 DEF RegInv, PinFields
<1> QED
  BY <1>1, <1>2, <1>3, <1>4, <1>5 DEF RegInv, Loaded, Ready

LEMMA RegSetup == ASSUME RegInv, Setup PROVE RegInv'
<1>1. CASE set_out_pins
  <2> DEFINE F == {"OUT_COUNT", "OUT_BASE"}
             m == (20 .. 25) \cup (0 .. 4)
  <2>1. Mask(F) = m
    <3>1. Mask(F) = Mask({"OUT_COUNT"}) \cup Mask({"OUT_BASE"})
      BY MaskOfTwo, Zenon
    <3> QED
      BY <3>1, FieldMasks
  <2>2. F \subseteq PinFields /\ \A f \in PinFields \ F : Mask({f}) \cap m = {}
    BY FieldMasks DEF PinFields
  <2>3. \A f \in F : Mask({f}) \subseteq Mask(F)
    BY MaskOfTwo
  <2>4. \A b \in 29 .. 31 : b \notin m
    OBVIOUS
  <2>5. SetFields(m, F)
    BY <1>1 DEF set_out_pins
  <2> HIDE DEF F, m
  <2> QED
    BY <2>1, <2>2, <2>3, <2>4, <2>5, SetterStep
<1>2. CASE set_set_pins
  <2> DEFINE F == {"SET_COUNT", "SET_BASE"}
             m == (26 .. 28) \cup (5 .. 9)
  <2>1. Mask(F) = m
    <3>1. Mask(F) = Mask({"SET_COUNT"}) \cup Mask({"SET_BASE"})
      BY MaskOfTwo, Zenon
    <3> QED
      BY <3>1, FieldMasks
  <2>2. F \subseteq PinFields /\ \A f \in PinFields \ F : Mask({f}) \cap m = {}
    <3>1. PinFields \ F = {"OUT_COUNT", "OUT_BASE", "SIDESET_BASE"} /\ F \subseteq PinFields
      BY DEF PinFields
    <3>2. /\ (20 .. 25) \cap m = {} /\ (0 .. 4) \cap m = {} /\ (10 .. 14) \cap m = {}
      OBVIOUS
    <3> HIDE DEF F, m
    <3> QED
      BY <3>1, <3>2, FieldMasks
  <2>3. \A f \in F : Mask({f}) \subseteq Mask(F)
    BY MaskOfTwo
  <2>4. \A b \in 29 .. 31 : b \notin m
    OBVIOUS
  <2>5. SetFields(m, F)
    BY <1>2 DEF set_set_pins
  <2> HIDE DEF F, m
  <2> QED
    BY <2>1, <2>2, <2>3, <2>4, <2>5, SetterStep
<1>3. CASE set_sideset_pins
  <2> DEFINE F == {"SIDESET_BASE"}
             m == 10 .. 14
  <2>1. Mask(F) = m
    BY FieldMasks
  <2>2. F \subseteq PinFields /\ \A f \in PinFields \ F : Mask({f}) \cap m = {}
    BY FieldMasks DEF PinFields
  <2>3. \A f \in F : Mask({f}) \subseteq Mask(F)
    OBVIOUS
  <2>4. \A b \in 29 .. 31 : b \notin m
    OBVIOUS
  <2>5. SetFields(m, F)
    BY <1>3 DEF set_sideset_pins
  <2> HIDE DEF F, m
  <2> QED
    BY <2>1, <2>2, <2>3, <2>4, <2>5, SetterStep
<1>4. CASE set_jmp_pin
  <2>1. /\ UNCHANGED <<vars, at, pinctrl>> /\ set' = set \cup {"JMP_PIN"} /\ at = "setup"
        /\ execctrl' = (execctrl \ (24 .. 28)) \cup (24 .. 28)
    BY <1>4, FieldMasks DEF set_jmp_pin
  <2>2. (30 \in execctrl' <=> 30 \in execctrl) /\ Mask({"JMP_PIN"}) \subseteq execctrl'
    BY <2>1, FieldMasks
  <2>3. set' \cap PinFields = set \cap PinFields
    BY <2>1 DEF PinFields
  <2>4. SideBits' = SideBits /\ side' = side
    BY <2>1 DEF vars, SideBits
  <2> QED
    BY <2>1, <2>2, <2>3, <2>4 DEF RegInv, Loaded, Ready
<1> QED
  BY <1>1, <1>2, <1>3, <1>4 DEF Setup

LEMMA RegInit == MachineInit => RegInv
  BY DEF MachineInit, RegInv, Loaded, Ready

LEMMA RegStep == ASSUME FieldInv, RegInv, [MachineNext]_vars_m PROVE RegInv'
<1>1. CASE Assemble
  BY <1>1 DEF Assemble, hw, RegInv, Loaded, Ready
<1>2. CASE Load \/ CopyWord
  BY <1>2 DEF Load, CopyWord, At, RegInv, Loaded, Ready
<1>3. CASE WriteExecctrl
  <2> DEFINE v == Bits(WrapTop % 32)
  <2>1. v \subseteq 0 .. 4
    <3>1. WrapTop % 32 \in 0 .. 31
      <4>1. Length \in Nat /\ WrapTop = Length - 1
        BY LenProperties DEF FieldInv, WrapTop
      <4> QED
        BY <4>1
    <3> QED
      BY <3>1, FiveBits, Zenon
  <2>2. execctrl' = Shl(v, 12) \cup (IF side.opt THEN {30} ELSE {})
    BY <1>3 DEF WriteExecctrl
  <2> HIDE DEF v
  <2>3. 30 \notin Shl(v, 12)
    BY <2>1 DEF Shl
  <2>4. 30 \in execctrl' <=> side.opt
    BY <2>2, <2>3
  <2> QED
    BY <1>3, <2>4 DEF WriteExecctrl, At, RegInv, Loaded, Ready, vars
<1>4. CASE WriteSideCount
  <2> DEFINE v == Bits(SideBits)
  <2>1. v \subseteq Int
    BY DEF Bits
  <2>2. pinctrl' = (pinctrl \ (29 .. 31)) \cup Shl(v, 29)
    BY <1>4 DEF WriteSideCount
  <2>3. v' = v
    BY <1>4 DEF WriteSideCount, vars, SideBits
  <2> HIDE DEF v
  <2>4. ASSUME NEW b \in 29 .. 31 PROVE b \in pinctrl' <=> b - 29 \in v
    <3>1. b \in Shl(v, 29) <=> b - 29 \in v
      BY <2>1 DEF Shl, Bit
    <3> QED
      BY <2>2, <3>1
  <2>5. \A b \in 29 .. 31 : b \in pinctrl' <=> b - 29 \in Bits(SideBits)'
    BY <2>3, <2>4 DEF v
  <2> QED
    BY <1>4, <2>5 DEF WriteSideCount, At, RegInv, Loaded, Ready, vars
<1>5. CASE Setup
  BY <1>5, RegSetup
<1>6. CASE Enable \/ Disable \/ Execute \/ UNCHANGED vars_m
  BY <1>6 DEF Enable, Disable, Execute, At, RegInv, Loaded, Ready, SideBits, vars_m, vars, hw
<1> QED
  BY <1>1, <1>2, <1>3, <1>4, <1>5, <1>6 DEF MachineNext

-----------------------------------------------------------------------------
(* The three bits of SIDESET_COUNT name one number. *)
LEMMA ThreeBitsTell ==
  ASSUME NEW k \in 0 .. 7, NEW j \in 0 .. 7, Bits(k) = Bits(j) PROVE k = j
<1>1. ASSUME NEW x \in 0 .. 7
      PROVE  /\ 0 \in Bits(x) <=> x % 2 = 1
             /\ 1 \in Bits(x) <=> (x \div 2) % 2 = 1
             /\ 2 \in Bits(x) <=> (x \div 4) % 2 = 1
  <2>1. \A b \in 0 .. 30 : b \in Bits(x) <=> (x \div 2^b) % 2 = 1
    BY Zenon DEF Bits
  <2>2. 0 \in 0 .. 30 /\ 1 \in 0 .. 30 /\ 2 \in 0 .. 30 /\ x \div 1 = x
    OBVIOUS
  <2> QED
    BY <2>1, <2>2, PowerTable, Zenon
<1> QED
  BY <1>1

LEMMA WidthReadsBack == ASSUME SideOK, RegInv, at \in Ready PROVE SideWidth = SideBits
<1>1. SideBits \in 0 .. 7
  BY Division
<1>2. Bits(SideBits) \subseteq 0 .. 31 - 29
  BY <1>1, ThreeBits
<1>3. \A b \in 29 .. 31 : b \in pinctrl <=> b - 29 \in Bits(SideBits)
  BY DEF RegInv
<1>4. 31 \in Nat /\ 29 \in Nat
  OBVIOUS
<1>5. Get(pinctrl, Span(31, 29)) = Bits(SideBits)
  BY <1>2, <1>3, <1>4, FieldReadsBack, Zenon
<1>6. Bits(SideWidth) = Bits(SideBits) /\ SideWidth \in 0 .. 7
  BY <1>1, <1>5, Zenon DEF SideWidth
<1> QED
  BY <1>1, <1>6, ThreeBitsTell

(* The word of any call is taken apart as the caller meant it.                 *)
LEMMA WordDecodes ==
  ASSUME SideOK, SideWidth = SideBits, SideEn <=> side.opt,
         NEW d \in Nat, NEW v \in Nat \cup {-1}, NEW f, f = Field(d, v)
  PROVE  /\ d < 2 ^ (5 - SideWidth) => DecodedDelay(f) = d
         /\ side.count > 0 /\ v >= 0 /\ v < 2 ^ side.count => SideDriven(f) /\ DecodedSide(f) = v
         /\ side.count > 0 /\ v < 0 => IF side.opt THEN ~SideDriven(f) ELSE DecodedSide(f) = 0
<1> DEFINE p == Weight
           q == SideValues
<1>1. 2 ^ (5 - SideWidth) = p /\ 2 ^ side.count = q
  BY Zenon DEF DelayBits, Weight, SideValues
<1>2. p \in Weights /\ q \in Nat /\ SideBits \in 0 .. 5
      /\ (side.count = 0 /\ ~side.opt <=> SideBits = 0) /\ side.count \in 0 .. 5
  BY Division DEF SideOK, Weight, SideValues
<1>3. /\ f \in Nat /\ f % p = d % p
      /\ side.count > 0 /\ v >= 0 =>
           /\ side.opt => f >= 16
           /\ (f % (IF side.opt THEN 16 ELSE 32)) \div p = v % q
      /\ side.count > 0 /\ v < 0 =>
           IF side.opt THEN f < 16 ELSE (f % 32) \div p = 0
  BY FieldUnpacks
<1>4. DecodedDelay(f) = f % p
  BY <1>1, Zenon DEF DecodedDelay
<1>5. DecodedSide(f) = (f % (IF side.opt THEN 16 ELSE 32)) \div p
  BY <1>1, Zenon DEF DecodedSide
<1>6. SideDriven(f) <=> SideBits > 0 /\ (side.opt => f >= 16)
  BY DEF SideDriven
<1> HIDE DEF p, q
<1>7. ASSUME d < p PROVE DecodedDelay(f) = d
  BY <1>2, <1>3, <1>4, <1>7 DEF Weights
<1>8. ASSUME side.count > 0, v >= 0, v < q PROVE SideDriven(f) /\ DecodedSide(f) = v
  <2>1. v % q = v
    BY <1>2, <1>8
  <2> QED
    BY <1>2, <1>3, <1>5, <1>6, <1>8, <2>1
<1>9. ASSUME side.count > 0, v < 0
      PROVE  IF side.opt THEN ~SideDriven(f) ELSE DecodedSide(f) = 0
  BY <1>2, <1>3, <1>5, <1>6, <1>9
<1> QED
  BY <1>1, <1>7, <1>8, <1>9, Zenon

LEMMA FieldsAreDecoded == ASSUME AsmInv, RunInv, FieldInv, RegInv PROVE FieldsDecode
<1>1. ASSUME enabled
      PROVE  /\ SideWidth <= 5
             /\ \A i \in 1 .. Length :
                  LET f == field[i] IN
                  /\ asked[i].delay < 2 ^ (5 - SideWidth) => DecodedDelay(f) = asked[i].delay
                  /\ side.count > 0 /\ asked[i].side >= 0 /\ asked[i].side < 2 ^ side.count
                       => SideDriven(f) /\ DecodedSide(f) = asked[i].side
                  /\ side.count > 0 /\ asked[i].side < 0
                       => IF side.opt THEN ~SideDriven(f) ELSE DecodedSide(f) = 0
  <2>1. at \in Loaded /\ at \in Ready /\ SideOK
    BY <1>1 DEF RunInv, Loaded, Ready, FieldInv
  <2>2. SideWidth = SideBits /\ (SideEn <=> side.opt)
    BY <2>1, WidthReadsBack DEF RegInv, SideEn
  <2>3. SideWidth <= 5
    BY <2>1, <2>2, Division
  <2>4. ASSUME NEW i \in 1 .. Length
        PROVE  asked[i].delay \in Nat /\ asked[i].side \in Nat \cup {-1}
               /\ field[i] = Field(asked[i].delay, asked[i].side)
    <3>1. asked[i] \in Asks
      BY ElementOfSeq DEF AsmInv, Shape, Length
    <3> QED
      BY <3>1, ArgumentAssumption DEF Asks, FieldInv
  <2> DEFINE Decodes(f, dly, v) ==
               /\ dly < 2 ^ (5 - SideWidth) => DecodedDelay(f) = dly
               /\ side.count > 0 /\ v >= 0 /\ v < 2 ^ side.count
                    => SideDriven(f) /\ DecodedSide(f) = v
               /\ side.count > 0 /\ v < 0
                    => IF side.opt THEN ~SideDriven(f) ELSE DecodedSide(f) = 0
  <2>5. \A f, dly, v : dly \in Nat /\ v \in Nat \cup {-1} /\ f = Field(dly, v) => Decodes(f, dly, v)
    BY <2>1, <2>2, WordDecodes, Zenon
  <2>6. ASSUME NEW i \in 1 .. Length PROVE Decodes(field[i], asked[i].delay, asked[i].side)
    <3> HIDE DEF Decodes
    <3> QED
      BY <2>4, <2>5, Zenon
  <2> QED
    BY <2>3, <2>6, Zenon
<1>2. ASSUME NEW f \in set PROVE Mask({f}) \subseteq IF f = "JMP_PIN" THEN execctrl ELSE pinctrl
  BY DEF RegInv, PinFields
<1> QED
  BY <1>1, <1>2, Zenon DEF FieldsDecode

LEMMA FieldMachineStep ==
  ASSUME AsmInv, FieldInv, [MachineNext]_vars_m PROVE FieldInv'
  BY MachineStepAssembles, FieldStep

(* A running machine waits and drives its side-set pins as every call of the   *)
(* assembler asked: the division of the five bits that side_set chose is the   *)
(* one load has written to the registers, and the setters, which read, mask    *)
(* and write the same two registers, have neither moved it nor lost a field   *)
(* of each other.                                                          *)
THEOREM MachineDecodesItsFields == ASSUME Slots <= 32 PROVE MachineSpec => []FieldsDecode
<1>1. AsmInv /\ RunInv /\ FieldInv /\ RegInv /\ [MachineNext]_vars_m
        => RunInv' /\ FieldInv' /\ RegInv'
  BY RunStep, FieldMachineStep, RegStep
<1>2. MachineInit => RunInv /\ FieldInv /\ RegInv
  BY RunInit, FieldInit, RegInit DEF MachineInit
<1>3. AsmInv /\ RunInv /\ FieldInv /\ RegInv => FieldsDecode
  BY FieldsAreDecoded
<1> QED
  BY MachineAssembles, Inductive, <1>1, <1>2, <1>3, PTL DEF MachineSpec
=============================================================================
