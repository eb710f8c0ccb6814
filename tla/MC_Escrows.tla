----------------------------- MODULE MC_Escrows -----------------------------
(***************************************************************************)
(* Escrows on a small instance.                                            *)
(***************************************************************************)
EXTENDS Escrows

CONSTANTS alice, b1, n1, n2, o1, o2
=============================================================================
