----------------------------- MODULE MC_PriceFeed -----------------------------
(***************************************************************************)
(* An interval is two units of time and the contract's limit three         *)
(* intervals; a market of three prices, one of which rebases to nothing.   *)
(***************************************************************************)
EXTENDS PriceFeed

MCMarketPrice == {1, 6, 8}
=============================================================================
