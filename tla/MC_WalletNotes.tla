---------------------------- MODULE MC_WalletNotes ----------------------------
(***************************************************************************)
(* WalletNotes on small instances: a wallet in use, with a deposit of its   *)
(* own, and a note of the superseded key in that key's store.              *)
(***************************************************************************)
EXTENDS WalletNotes

MCStartLeaves == <<Leaf("me", "v3", "deposit", 2, 0), Leaf("old", "v3", "deposit", 2, 0)>>
=============================================================================
