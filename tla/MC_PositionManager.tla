------------------------- MODULE MC_PositionManager -------------------------
(***************************************************************************)
(* PositionManager on small instances.  The tier has margin 2, size 1 and  *)
(* a cap of 4, so that the prices reach a total loss, a part loss, break-  *)
(* even, a part profit, the cap exactly and beyond it.                     *)
(***************************************************************************)
EXTENDS PositionManager, TLC

CONSTANTS lp1, lp2, p1, p2, k1, k2, s1

MCTierReserve == [t \in Tier |-> 2]
MCTierMargin == [t \in Tier |-> 2]
MCTierSize == [t \in Tier |-> 1]
MCTierMaxPayout == [t \in Tier |-> 4]

MCSymmetry == Permutations({lp1, lp2})
=============================================================================
