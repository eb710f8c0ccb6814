------------------------------ MODULE MC_Indexer -----------------------------
(***************************************************************************)
(* Indexer on small instances.                                             *)
(***************************************************************************)
EXTENDS Indexer, TLC

CONSTANTS p1
=============================================================================
