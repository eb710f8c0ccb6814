-------------------------- MODULE LiquidationEngine -------------------------
(***************************************************************************)
(* The liquidation engine (contracts/liquidation-engine).  Only time       *)
(* differences are ever compared, so a timestamp is modelled by how long   *)
(* ago it was, saturating one past the last value a comparison tells       *)
(* apart; a heartbeat that was never registered reads as timestamp 0,      *)
(* which is long ago.  A keeper's commitment is the secret it hides.       *)
(***************************************************************************)
EXTENDS Naturals

CONSTANTS
    PositionId, Keeper,
    Secret,             \* what a keeper commits to
    GracePeriod,        \* DataKey::GracePeriod
    ESCROW_TTL

VARIABLES
    silence,            \* time since DataKey::Heartbeat
    escrow,             \* DataKey::KeeperEscrow: {} or a set of one claim
    liquidated          \* DataKey::Liquidated

engineVars == <<silence, escrow, liquidated>>

Claim == [keeper : Keeper, commitment : Secret, age : 0 .. ESCROW_TTL]

EngineTypeOK ==
    /\ silence \in [PositionId -> 0 .. GracePeriod + 1]
    /\ escrow \in [PositionId -> {{}} \cup {{c} : c \in Claim}]
    /\ liquidated \subseteq PositionId

EngineInit ==
    /\ silence = [id \in PositionId |-> GracePeriod + 1]
    /\ escrow = [id \in PositionId |-> {}]
    /\ liquidated = {}

\* now > last_heartbeat + grace.
IsStale(id) == silence[id] > GracePeriod

\* Zero from the second before is_stale says so on.
SecondsUntilStale(id) == IF silence[id] >= GracePeriod THEN 0 ELSE GracePeriod - silence[id]

RegisterHeartbeat(id) == silence' = [silence EXCEPT ![id] = 0]

\* A mutant of MayClaim: a claim never expires.
MayClaimUnheld(keeper, id) == \A c \in escrow[id] : c.keeper = keeper

\* Another keeper's claim stands until it expires; one's own never does.
MayClaim(keeper, id) ==
    \A c \in escrow[id] : c.keeper = keeper \/ c.age >= ESCROW_TTL

InitiateLiquidation(keeper, id, commitment) ==
    /\ id \notin liquidated /\ IsStale(id)
    /\ MayClaim(keeper, id)
    /\ escrow' = [escrow EXCEPT ![id] =
                     {[keeper |-> keeper, commitment |-> commitment, age |-> 0]}]
    /\ UNCHANGED <<silence, liquidated>>

\* A mutant of RedeemClaim: staleness was checked when the claim was made.
RedeemClaimUnchecked(keeper, id, secret) ==
    /\ id \notin liquidated
    /\ \E c \in escrow[id] : c.keeper = keeper /\ c.commitment = secret
    /\ liquidated' = liquidated \cup {id}
    /\ escrow' = [escrow EXCEPT ![id] = {}]
    /\ UNCHANGED silence

\* The engine's own half of reveal_and_seize.
RedeemClaim(keeper, id, secret) ==
    /\ id \notin liquidated
    /\ \E c \in escrow[id] : c.keeper = keeper /\ c.commitment = secret
    /\ IsStale(id)
    /\ liquidated' = liquidated \cup {id}
    /\ escrow' = [escrow EXCEPT ![id] = {}]
    /\ UNCHANGED silence

Sooner(a, b) == IF a <= b THEN a ELSE b

\* One unit of ledger time.
EngineTick ==
    /\ silence' = [id \in PositionId |-> Sooner(silence[id] + 1, GracePeriod + 1)]
    /\ escrow' = [id \in PositionId |->
                     {[c EXCEPT !.age = Sooner(@ + 1, ESCROW_TTL)] : c \in escrow[id]}]
    /\ UNCHANGED liquidated
=============================================================================
