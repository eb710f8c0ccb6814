---------------------------- MODULE MC_VayylPool ----------------------------
(***************************************************************************)
(* VayylPool on a small instance.  Owners are interchangeable.             *)
(***************************************************************************)
EXTENDS VayylPool, TLC

CONSTANTS alice, bob, b1

MCSymmetry == Permutations({alice, bob})
=============================================================================
