--------------------------- MODULE AtomicCounter ---------------------------
(***************************************************************************)
(* What the spinlock-protected counter promises: every core adds its share *)
(* of increments and no increment is lost.  SpinCounter implements it.     *)
(***************************************************************************)
EXTENDS Naturals

CONSTANTS Cores, N

VARIABLES
  value,  \* the counter
  left    \* increments each core has still to make

vars == <<value, left>>

Init ==
  /\ value = 0
  /\ left = [c \in Cores |-> N]

Increment(c) ==
  /\ left[c] > 0
  /\ value' = value + 1
  /\ left' = [left EXCEPT ![c] = @ - 1]

Next == \E c \in Cores : Increment(c)

Spec == Init /\ [][Next]_vars
=============================================================================
