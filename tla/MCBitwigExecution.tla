------------------------- MODULE MCBitwigExecution -------------------------
(* The execution in Bitwig, for TLC. *)
EXTENDS BitwigExecution
=============================================================================
