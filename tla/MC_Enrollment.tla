---------------------------- MODULE MC_Enrollment ----------------------------
(***************************************************************************)
(* Enrollment of three leaves, with and without room for all of them.      *)
(***************************************************************************)
EXTENDS Enrollment, TLC

CONSTANTS a, b, c
=============================================================================
