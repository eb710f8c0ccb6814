------------------------------ MODULE MC_Relayer -----------------------------
(***************************************************************************)
(* Relayer on small instances.  Requests 1 and 2 spend the same note, as a *)
(* second tab or a retry does; 3 has a bad proof, and may come in either   *)
(* way; 4 names a contract that is not allowed; 5 is submitted straight    *)
(* through, or is the client's own transaction.                            *)
(***************************************************************************)
EXTENDS Relayer, TLC

MCNullifierOf == (1 :> 1) @@ (2 :> 1) @@ (3 :> 2) @@ (4 :> 3) @@ (5 :> 4)
MCPoolOf == [r \in 1 .. 5 |-> IF r = 4 THEN 2 ELSE 1]
=============================================================================
