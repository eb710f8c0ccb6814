-------------------------- MODULE MC_KeeperService --------------------------
(***************************************************************************)
(* KeeperService with one rival, two ticks that overlap, and durations in  *)
(* units of fifteen seconds.                                               *)
(***************************************************************************)
EXTENDS KeeperService, TLC

CONSTANTS p1, me, rival, s1, s2, s3, t1, t2
=============================================================================
