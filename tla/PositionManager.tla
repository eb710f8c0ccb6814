--------------------------- MODULE PositionManager --------------------------
(***************************************************************************)
(* The position manager (contracts/position-manager) with the vault, the   *)
(* liquidation engine, the oracle and the pool's custody, as one           *)
(* transaction of it moves them.  Of the pool only the amounts matter      *)
(* here: what it holds and what its unspent notes are owed; VayylPool says *)
(* which note is spent.  The owner's client derives a position's blindness *)
(* from its id, so the id, the tier, the direction and the entry price     *)
(* determine the commitment and the position nullifier.                    *)
(***************************************************************************)
EXTENDS CounterpartyVault

CONSTANTS
    Keeper, Secret, GracePeriod, ESCROW_TTL,
    TIER_MARGIN, TIER_SIZE, TIER_MAX_PAYOUT,
    Price,              \* the prices the oracle reports
    MAX_ORACLE_AGE,
    HEALTH_THRESHOLD,
    KEEPER_BOUNTY_BPS,
    NoPosition,
    Fee,                \* bound: relayer fees an owner asks for
    ReuseIds,           \* is an id opened again after it was seized?
    RenewClaims         \* does a keeper claim again what it has claimed?

VARIABLES
    positions,          \* DataKey::Position
    positionNullifiers, \* DataKey::Nullifier, of positions
    price, priceAge,    \* the oracle's lastprice
    custody,            \* the pool's balance in the token contract
    owed,               \* the value of the pool's unspent notes
    feesKept,           \* ghost: fees withheld from payout notes
    silence, escrow, liquidated     \* liquidation-engine

pmVars == <<positions, positionNullifiers>>
oracleVars == <<price, priceAge>>
poolVars == <<custody, owed, feesKept>>
vars == <<vaultVars, pmVars, oracleVars, poolVars, silence, escrow, liquidated>>

Engine == INSTANCE LiquidationEngine

PositionState ==
    [tier : Tier, direction : {0, 1}, entry : Price, healthAge : 0 .. GracePeriod + 1]
Commitment == [id : PositionId, tier : Tier, direction : {0, 1}, entry : Price]

\* What the health threshold and the keeper's bounty are fractions of.
HEALTH_SCALE == 10000

ASSUME PositionConstants ==
    /\ GracePeriod \in Nat /\ ESCROW_TTL \in Nat \ {0} /\ MAX_ORACLE_AGE \in Nat
    /\ TIER_MARGIN \in [Tier -> Nat \ {0}] /\ TIER_SIZE \in [Tier -> Nat \ {0}]
    /\ TIER_MAX_PAYOUT \in [Tier -> Nat]
    /\ \A t \in Tier : TIER_MAX_PAYOUT[t] = TIER_MARGIN[t] + TierReserve[t]
    /\ Price \in SUBSET (Nat \ {0}) /\ Fee \in SUBSET Nat
    /\ HEALTH_THRESHOLD \in 0 .. HEALTH_SCALE /\ KEEPER_BOUNTY_BPS \in 0 .. HEALTH_SCALE
    /\ NoPosition \notin PositionState
    /\ ReuseIds \in BOOLEAN /\ RenewClaims \in BOOLEAN

Open == {id \in PositionId : positions[id] # NoPosition}

TypeOK ==
    /\ VaultTypeOK /\ Engine!EngineTypeOK
    /\ positions \in [PositionId -> PositionState \cup {NoPosition}]
    /\ positionNullifiers \subseteq Commitment
    /\ price \in Price /\ priceAge \in 0 .. MAX_ORACLE_AGE + 1
    /\ custody \in Nat /\ owed \in Nat /\ feesKept \in Nat

\* The oracle has never published: no price can be read.
Init ==
    /\ VaultInit /\ Engine!EngineInit
    /\ positions = [id \in PositionId |-> NoPosition]
    /\ positionNullifiers = {}
    /\ price \in Price /\ priceAge = MAX_ORACLE_AGE + 1
    /\ custody = 0 /\ owed = 0 /\ feesKept = 0

-----------------------------------------------------------------------------
(* Helpers.                                                                *)

\* A mutant of SettlementPayout: the cap is missing.
SettlementPayoutUncapped(tier, direction, entry, close) ==
    LET raw == TIER_MARGIN[tier]
               + TIER_SIZE[tier] * (IF direction = 1 THEN close - entry ELSE entry - close)
    IN  IF raw < 0 THEN 0 ELSE raw

\* settlement_payout: margin plus profit, floored at 0 and capped at the tier.
SettlementPayout(tier, direction, entry, close) ==
    LET raw == TIER_MARGIN[tier]
               + TIER_SIZE[tier] * (IF direction = 1 THEN close - entry ELSE entry - close)
    IN  IF raw < 0 THEN 0
        ELSE IF raw > TIER_MAX_PAYOUT[tier] THEN TIER_MAX_PAYOUT[tier]
        ELSE raw

PayoutAt(id, close) ==
    SettlementPayout(positions[id].tier, positions[id].direction, positions[id].entry, close)

\* read_price succeeds.
PriceIsFresh == priceAge <= MAX_ORACLE_AGE

\* The health circuit: equity covers the maintenance margin at this price.
IsHealthy(state) ==
    LET gain == IF state.direction = 1 THEN price - state.entry ELSE state.entry - price
    IN  HEALTH_SCALE * (TIER_MARGIN[state.tier] + TIER_SIZE[state.tier] * gain)
            >= TIER_SIZE[state.tier] * price * HEALTH_THRESHOLD

CommitmentOf(id, state) ==
    [id |-> id, tier |-> state.tier, direction |-> state.direction, entry |-> state.entry]

-----------------------------------------------------------------------------
(* The position manager.                                                   *)

\* A mutant of OpenPosition: the circuit does not range-check the change.
OpenPositionOverdrawn(id, tier, direction) ==
    /\ positions[id] = NoPosition
    /\ ReuseIds \/ id \notin liquidated
    /\ PriceIsFresh
    /\ Reserve(id, tier)
    /\ owed' = owed - TIER_MARGIN[tier]
    /\ positions' = [positions EXCEPT ![id] =
           [tier |-> tier, direction |-> direction, entry |-> price, healthAge |-> 0]]
    /\ Engine!RegisterHeartbeat(id)
    /\ UNCHANGED <<positionNullifiers, oracleVars, custody, feesKept, escrow, liquidated>>

\* A mutant of OpenPosition: the margin stays with the owner's change note.
OpenPositionUnpaid(id, tier, direction) ==
    /\ positions[id] = NoPosition
    /\ ReuseIds \/ id \notin liquidated
    /\ PriceIsFresh
    /\ Reserve(id, tier)
    /\ owed >= TIER_MARGIN[tier]
    /\ UNCHANGED owed
    /\ positions' = [positions EXCEPT ![id] =
           [tier |-> tier, direction |-> direction, entry |-> price, healthAge |-> 0]]
    /\ Engine!RegisterHeartbeat(id)
    /\ UNCHANGED <<positionNullifiers, oracleVars, custody, feesKept, escrow, liquidated>>

OpenPosition(id, tier, direction) ==
    /\ positions[id] = NoPosition
    /\ ReuseIds \/ id \notin liquidated
    /\ PriceIsFresh
    /\ Reserve(id, tier)
    /\ owed >= TIER_MARGIN[tier]
    /\ owed' = owed - TIER_MARGIN[tier]
    /\ positions' = [positions EXCEPT ![id] =
           [tier |-> tier, direction |-> direction, entry |-> price, healthAge |-> 0]]
    /\ Engine!RegisterHeartbeat(id)
    /\ UNCHANGED <<positionNullifiers, oracleVars, custody, feesKept, escrow, liquidated>>

\* A mutant of AttestHealth: the engine is not told.
AttestHealthSilently(id) ==
    /\ positions[id] # NoPosition
    /\ PriceIsFresh /\ IsHealthy(positions[id])
    /\ positions' = [positions EXCEPT ![id].healthAge = 0]
    /\ UNCHANGED <<vaultVars, positionNullifiers, oracleVars, poolVars, silence, escrow,
                   liquidated>>

AttestHealth(id) ==
    /\ positions[id] # NoPosition
    /\ PriceIsFresh /\ IsHealthy(positions[id])
    /\ positions' = [positions EXCEPT ![id].healthAge = 0]
    /\ Engine!RegisterHeartbeat(id)
    /\ UNCHANGED <<vaultVars, positionNullifiers, oracleVars, poolVars, escrow, liquidated>>

\* A mutant of PayWinner: the vault pays the payout, margin included.
PayWinnerTwice(id, payout, margin) ==
    /\ payout > margin
    /\ FreeReservation(id)
    /\ balance >= payout
    /\ balance' = balance - payout
    /\ custody' = custody + payout
    /\ UNCHANGED <<shares, totalShares>>

\* In profit the vault pays the pool the part beyond the margin.
PayWinner(id, payout, margin) ==
    /\ payout > margin
    /\ Release(id, payout - margin)
    /\ custody' = custody + (payout - margin)

\* At a loss the pool pays the vault the part of the margin that is lost.
CollectFromLoser(id, payout, margin) ==
    /\ payout <= margin
    /\ custody >= margin - payout
    /\ ReleaseAndReceive(id, margin - payout)
    /\ custody' = custody - (margin - payout)

ClosePosition(id, fee) ==
    /\ positions[id] # NoPosition
    /\ PriceIsFresh
    /\ CommitmentOf(id, positions[id]) \notin positionNullifiers
    /\ LET payout == PayoutAt(id, price)
           margin == TIER_MARGIN[positions[id].tier]
       IN  /\ fee <= payout
           /\ PayWinner(id, payout, margin) \/ CollectFromLoser(id, payout, margin)
           /\ owed' = owed + (payout - fee)
    /\ feesKept' = feesKept + fee
    /\ positionNullifiers' = positionNullifiers \cup {CommitmentOf(id, positions[id])}
    /\ positions' = [positions EXCEPT ![id] = NoPosition]
    /\ UNCHANGED <<oracleVars, silence, escrow, liquidated>>

-----------------------------------------------------------------------------
(* The liquidation engine's calls.                                         *)

InitiateLiquidation(keeper, id, commitment) ==
    /\ RenewClaims \/ \A c \in escrow[id] : c.keeper # keeper
    /\ Engine!InitiateLiquidation(keeper, id, commitment)
    /\ UNCHANGED <<vaultVars, pmVars, oracleVars, poolVars>>

\* The record is removed; the nullifier of its commitment stays unspent.
MarkPositionSeized(id) ==
    /\ positions[id] # NoPosition
    /\ positions' = [positions EXCEPT ![id] = NoPosition]
    /\ UNCHANGED positionNullifiers

\* A mutant of RevealAndSeize: release_seized_reservation is swallowed.
RevealAndSeizeStranded(keeper, id, secret) ==
    LET collateral == TIER_MARGIN[positions[id].tier]
        bounty     == (collateral * KEEPER_BOUNTY_BPS) \div HEALTH_SCALE
    IN  /\ Engine!RedeemClaim(keeper, id, secret)
        /\ MarkPositionSeized(id)
        /\ custody >= collateral
        /\ custody' = custody - collateral
        /\ balance' = balance + (collateral - bounty)
        /\ UNCHANGED <<reservation, totalReserved, shares, totalShares, oracleVars, owed, feesKept>>

\* The bounty to the keeper, the rest of the collateral to the vault, the
\* reservation freed and the record removed.
RevealAndSeize(keeper, id, secret) ==
    LET collateral == TIER_MARGIN[positions[id].tier]
        bounty     == (collateral * KEEPER_BOUNTY_BPS) \div HEALTH_SCALE
    IN  /\ Engine!RedeemClaim(keeper, id, secret)
        /\ MarkPositionSeized(id)
        /\ custody >= collateral
        /\ custody' = custody - collateral
        /\ ReleaseAndReceive(id, collateral - bounty)
        /\ UNCHANGED <<oracleVars, owed, feesKept>>

-----------------------------------------------------------------------------
(* The rest of the system.                                                 *)

\* A deposit into, and a withdrawal from, the pool.
Shield(amount) ==
    /\ custody + balance + amount <= MaxBalance
    /\ custody' = custody + amount /\ owed' = owed + amount
    /\ UNCHANGED <<vaultVars, pmVars, oracleVars, feesKept, silence, escrow, liquidated>>

Unshield(amount) ==
    /\ owed >= amount /\ custody >= amount
    /\ custody' = custody - amount /\ owed' = owed - amount
    /\ UNCHANGED <<vaultVars, pmVars, oracleVars, feesKept, silence, escrow, liquidated>>

Liquidity ==
    /\ \/ \E lp \in Lp, amount \in Amounts :
             custody + balance + amount <= MaxBalance /\ DepositLiquidity(lp, amount)
       \/ \E lp \in Lp : \E n \in 1 .. shares[lp] : WithdrawLiquidity(lp, n)
    /\ UNCHANGED <<pmVars, oracleVars, poolVars, silence, escrow, liquidated>>

\* The oracle publishes a price of some age (set_price, set_price_at).
Publish(p, age) ==
    /\ price' = p /\ priceAge' = age
    /\ UNCHANGED <<vaultVars, pmVars, poolVars, silence, escrow, liquidated>>

Tick ==
    /\ priceAge' = Engine!Sooner(priceAge + 1, MAX_ORACLE_AGE + 1)
    /\ positions' = [id \in PositionId |->
           IF positions[id] = NoPosition THEN NoPosition
           ELSE [positions[id] EXCEPT !.healthAge = Engine!Sooner(@ + 1, GracePeriod + 1)]]
    /\ Engine!EngineTick
    /\ UNCHANGED <<vaultVars, positionNullifiers, price, poolVars>>

Next ==
    \/ \E id \in PositionId, tier \in Tier, direction \in {0, 1} :
          OpenPosition(id, tier, direction)
    \/ \E id \in PositionId : AttestHealth(id)
    \/ \E id \in PositionId, fee \in Fee : ClosePosition(id, fee)
    \/ \E keeper \in Keeper, id \in PositionId, s \in Secret :
          InitiateLiquidation(keeper, id, s) \/ RevealAndSeize(keeper, id, s)
    \/ \E amount \in Amounts : Shield(amount) \/ Unshield(amount)
    \/ Liquidity
    \/ \E p \in Price, age \in 0 .. MAX_ORACLE_AGE : Publish(p, age)
    \/ Tick

Spec == Init /\ [][Next]_vars

-----------------------------------------------------------------------------
(* Properties.                                                             *)

\* What open positions have pledged, by id.
Margins ==
    [id \in PositionId |->
        IF positions[id] = NoPosition THEN 0 ELSE TIER_MARGIN[positions[id].tier]]

\* The vault has set aside exactly the reserve of every position that is open
\* and of no other: opening, closing and seizing never strand or lose one.
ReservationsMatch ==
    \A id \in PositionId :
        reservation[id] = IF positions[id] = NoPosition
                          THEN 0 ELSE TierReserve[positions[id].tier]

\* The pool holds what its notes are owed, the margin of every open position
\* and the fees withheld, to the token: what VayylPool trusts a settlement
\* authority for.
MarginHeld == custody = owed + Total(Margins) + feesKept

\* Whatever price the oracle reports next, an open position can be settled:
\* a profit fits its own reserve and the vault has it, a loss fits its margin
\* and the pool has it.
Settleable ==
    \A id \in Open, p \in Price :
        LET payout == PayoutAt(id, p)
            margin == TIER_MARGIN[positions[id].tier]
        IN  /\ payout - margin <= reservation[id] /\ payout - margin <= balance
            /\ margin - payout <= custody - owed

\* The engine's clock for an open position is the manager's last attestation:
\* the two contracts' records never part.
HeartbeatAgrees == \A id \in Open : silence[id] = positions[id].healthAge

\* What manager, vault and engine each keep of a position agrees in every state,
\* and is of its type.
BooksAgree == TypeOK /\ TotalsAgree /\ ReservationsMatch /\ HeartbeatAgrees

\* A step may seize a position only if its owner has been silent past the
\* grace period and a claim on it was made in an earlier step; an owner who
\* attests between a keeper's claim and its reveal keeps the position.
SeizedOnlyInSilence ==
    [][\A id \in liquidated' \ liquidated :
          positions[id].healthAge > GracePeriod /\ escrow[id] # {}]_vars

\* Every step of the whole system is a step of the vault by itself, so all
\* that is true of the vault holds here.
ImplementsVault == VaultSpec
=============================================================================
