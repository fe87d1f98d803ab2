------------------------------- MODULE Words -------------------------------
(***************************************************************************)
(* 32-bit words as the sets of their one bits.  Registers, masks and the    *)
(* unsigned arithmetic of the firmwares stay exact at full width this way,  *)
(* and a field of a register is a word again.                              *)
(***************************************************************************)
EXTENDS Naturals, FiniteSetsExt

Bit  == 0 .. 31
Word == SUBSET Bit
Ones == Bit

(* The word of a small number (below 2^31). *)
Bits(n) == {b \in 0 .. 30 : (n \div 2^b) % 2 = 1}

Xor(v, w)  == (v \cup w) \ (v \cap w)
Not(w)     == Bit \ w
Shl(w, n)  == {b + n : b \in w} \cap Bit
Shr(w, n)  == {b - n : b \in {c \in w : c >= n}}

(* Addition modulo 2^32: the carries are added until there are none. *)
Add(v, w) ==
  LET sum[s \in Word, carries \in Word] ==
        IF carries = {} THEN s ELSE sum[Xor(s, carries), Shl(s \cap carries, 1)]
  IN sum[v, w]

(* Subtraction and multiplication modulo 2^32. *)
Sub(v, w) == Add(v, Add(Not(w), {0}))
Mul(v, w) == FoldSet(Add, {}, {Shl(v, b) : b \in w})

(* Unsigned comparison: the highest bit in which they differ decides. *)
Less(v, w) == \E b \in w \ v : \A c \in Xor(v, w) : c <= b

-----------------------------------------------------------------------------
(* Register fields: a layout gives the bits of each field. *)
Span(msb, lsb) == [msb |-> msb, lsb |-> lsb]

Get(w, f) == Shr(w \cap (f.lsb .. f.msb), f.lsb)

Decode(layout, w) == [f \in DOMAIN layout |-> Get(w, layout[f])]

Compose(layout, values) == UNION {Shl(values[f], layout[f].lsb) : f \in DOMAIN values}
=============================================================================
