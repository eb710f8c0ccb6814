------------------------------ MODULE MC_Calls ------------------------------
(* Two wallets with two notes each, and room for four leaves more. *)
EXTENDS Calls

CONSTANTS alice, bob

MC_Preloaded == << <<alice, "v3", 110>>, <<alice, "v3", 20>>, <<bob, "v2", 10>>, <<bob, "v3", 510>> >>
=============================================================================
