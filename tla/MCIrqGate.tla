----------------------------- MODULE MCIrqGate -----------------------------
(* Two variants of one language, and what a third left in RAM. *)
EXTENDS IrqGate

MCLangs == <<"mojo", "mojo">>
=============================================================================
