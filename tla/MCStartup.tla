----------------------------- MODULE MCStartup ------------------------------
(***************************************************************************)
(* Startup for TLC.  Two seats are interchangeable, and two outputs: they  *)
(* are only compared with each other.                                      *)
(***************************************************************************)
EXTENDS Startup, TLC

Alike == Permutations(Seats) \cup Permutations(Outputs)
=============================================================================
