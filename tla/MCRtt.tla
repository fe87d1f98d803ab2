------------------------------- MODULE MCRtt -------------------------------
(***************************************************************************)
(* Instances of Rtt for TLC: a ring of four slots (three usable), messages *)
(* that are shorter than, as long as and longer than what it can hold.     *)
(***************************************************************************)
EXTENDS Rtt

CONSTANTS a, b

MCByte       == {a, b}
MCMessages   == {<<a>>, <<b, a>>, <<a, b, b>>, <<a, a, b, b>>}
MCJunkOffset == {0, 3, Size + 1}
=============================================================================
