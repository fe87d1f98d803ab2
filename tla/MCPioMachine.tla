------------------------------ MODULE MCPioMachine ------------------------------
(* The instance of PioMachine for TLC: all divisions of the five bits, and for   *)
(* every width of the delay and of the side-set value the least and the      *)
(* greatest that fits, and the first that does not.                         *)
EXTENDS PioMachine

MCDelays == [w \in 0 .. 5 |-> {0, 2 ^ w - 1, 2 ^ w}]
MCSides  == [w \in 0 .. 5 |-> {-1, 0, 2 ^ w - 1, 2 ^ w}]
MCCounts == 0 .. 5
=============================================================================
