------------------------------- MODULE Trading ------------------------------
(***************************************************************************)
(* The arithmetic of a position, which the contract settles with, the      *)
(* wallet quotes with and the circuits constrain with, each from a tier    *)
(* table of its own.  Amounts and prices are in units of StroopsPerUnit;   *)
(* sizes and ratios have no unit.                                          *)
(***************************************************************************)
EXTENDS Integers

CONSTANT StroopsPerUnit

\* The smallest amount, the fixed denomination, is worth a unit or more.
ASSUME UnitAssumption == StroopsPerUnit \in Nat \ {0} /\ StroopsPerUnit <= 10000000

Stroops(n) == n \div StroopsPerUnit

Long  == 1
Short == 0

HEALTH_SCALE == 10000

CeilDiv(a, b) == (a + b - 1) \div b

-----------------------------------------------------------------------------
(* The contract (vayyl-types and position-manager).                       *)

TIER_COUNT == 2
HEALTH_THRESHOLD == 500

TierMargin(id)    == IF id = 0 THEN Stroops(100000000) ELSE Stroops(500000000)
TierSize(id)      == IF id = 0 THEN 30 ELSE 150
TierMaxPayout(id) == IF id = 0 THEN Stroops(300000000) ELSE Stroops(1500000000)

\* What the vault sets aside for a position beyond the trader's own margin.
TierReserve(id) == TierMaxPayout(id) - TierMargin(id)

\* settlement_payout: what a position is worth at closePrice.
ContractPayout(id, direction, entryPrice, closePrice) ==
    LET delta == IF direction = Long THEN closePrice - entryPrice
                                     ELSE entryPrice - closePrice
        raw   == TierMargin(id) + TierSize(id) * delta
    IN  IF raw < 0 THEN 0
        ELSE IF raw > TierMaxPayout(id) THEN TierMaxPayout(id) ELSE raw

-----------------------------------------------------------------------------
(* The circuits: TierConstants and position_health.                        *)

\* A mutant of TierConstants: the size of the first tier for both.
TierConstantsOneSize(id) ==
    [margin    |-> Stroops(100000000 + id * (500000000 - 100000000)),
     size      |-> 30,
     maxPayout |-> Stroops(300000000 + id * (1500000000 - 300000000))]

TierConstants(id) ==
    [margin    |-> Stroops(100000000 + id * (500000000 - 100000000)),
     size      |-> 30 + id * (150 - 30),
     maxPayout |-> Stroops(300000000 + id * (1500000000 - 300000000))]

\* The health circuit's inequality, which never divides.
AboveMaintenance(collateral, size, direction, entryPrice, price, threshold) ==
    LET up        == price >= entryPrice
        magnitude == size * (IF up THEN price - entryPrice ELSE entryPrice - price)
        gain      == IF up <=> (direction = Long) THEN magnitude ELSE 0
        loss      == magnitude - gain
    IN  HEALTH_SCALE * (collateral + gain)
            >= HEALTH_SCALE * loss + size * price * threshold

-----------------------------------------------------------------------------
(* The wallet: lib/tiers.ts and lib/liquidation.ts.                        *)

GetTier(id) ==
    IF id = 0 THEN [margin |-> Stroops(100000000), size |-> 30,
                    maxPayout |-> Stroops(300000000)]
              ELSE [margin |-> Stroops(500000000), size |-> 150,
                    maxPayout |-> Stroops(1500000000)]

\* A mutant of SettlementPayout: no knock-out.
SettlementPayoutUncapped(tier, direction, entryPrice, closePrice) ==
    LET delta == IF direction = Long THEN closePrice - entryPrice
                                     ELSE entryPrice - closePrice
        raw   == tier.margin + tier.size * delta
    IN  IF raw < 0 THEN 0 ELSE raw

SettlementPayout(tier, direction, entryPrice, closePrice) ==
    LET delta == IF direction = Long THEN closePrice - entryPrice
                                     ELSE entryPrice - closePrice
        raw   == tier.margin + tier.size * delta
    IN  IF raw < 0 THEN 0
        ELSE IF raw > tier.maxPayout THEN tier.maxPayout ELSE raw

\* priceBounds: where the payout reaches its cap and where it reaches 0.
PriceBounds(tier, direction, entryPrice) ==
    LET upside   == CeilDiv(tier.maxPayout - tier.margin, tier.size)
        downside == CeilDiv(tier.margin, tier.size)
    IN  IF direction = Long
        THEN [knockOut |-> entryPrice + upside, wipeOut |-> entryPrice - downside]
        ELSE [knockOut |-> entryPrice - upside, wipeOut |-> entryPrice + downside]

EquityAt(tier, direction, entryPrice, price) ==
    tier.margin + tier.size * (IF direction = Long THEN price - entryPrice
                                                   ELSE entryPrice - price)

NoPrice == -1

\* A mutant of LiquidationPrice: the long side is rounded down as well.
LiquidationPriceFloor(tier, direction, entryPrice) ==
    LET H == HEALTH_SCALE
        T == HEALTH_THRESHOLD
        numerator == H * tier.size * entryPrice
                     + (IF direction = Long THEN -1 ELSE 1) * H * tier.margin
    IN  IF direction = Long
        THEN IF numerator <= 0 THEN NoPrice
             ELSE numerator \div ((H - T) * tier.size)
        ELSE numerator \div ((H + T) * tier.size)

\* liquidationPrice: the last price at which solvency can still be proved,
\* rounded to the side of the position.
LiquidationPrice(tier, direction, entryPrice) ==
    LET H == HEALTH_SCALE
        T == HEALTH_THRESHOLD
        numerator == H * tier.size * entryPrice
                     + (IF direction = Long THEN -1 ELSE 1) * H * tier.margin
    IN  IF direction = Long
        THEN IF numerator <= 0 THEN NoPrice
             ELSE CeilDiv(numerator, (H - T) * tier.size)
        ELSE numerator \div ((H + T) * tier.size)

\* marginHealth(...).healthy
Healthy(tier, direction, entryPrice, price) ==
    HEALTH_SCALE * EquityAt(tier, direction, entryPrice, price)
        >= tier.size * price * HEALTH_THRESHOLD

\* tierTableMatches, before a position is opened.
TierTableMatches ==
    \A id \in 0 .. TIER_COUNT - 1 :
        GetTier(id) = [margin |-> TierMargin(id), size |-> TierSize(id),
                       maxPayout |-> TierMaxPayout(id)]

-----------------------------------------------------------------------------
(* What the wallet's figures promise.                                      *)

\* The price is on the side of bound where a position loses.
Beyond(direction, price, bound) ==
    IF direction = Long THEN price < bound ELSE price > bound

\* The payout a close makes, which the tier's reserve covers.
PayoutIsQuoted(id, direction, entryPrice, price) ==
    LET payout == ContractPayout(id, direction, entryPrice, price)
    IN  /\ SettlementPayout(GetTier(id), direction, entryPrice, price) = payout
        /\ payout \in 0 .. TierMargin(id) + TierReserve(id)

\* Whether health can be proved, and the last price at which it can be.
HealthIsQuoted(id, direction, entryPrice, price) ==
    LET tier == GetTier(id)
        last == LiquidationPrice(tier, direction, entryPrice)
        healthy == Healthy(tier, direction, entryPrice, price)
    IN  /\ healthy <=> AboveMaintenance(tier.margin, tier.size, direction,
                                        entryPrice, price, HEALTH_THRESHOLD)
        /\ healthy <=> last = NoPrice \/ ~Beyond(direction, price, last)

\* Where the payout stops to grow and where it stops to fall.
BoundsAreQuoted(id, direction, entryPrice, price) ==
    LET payout == ContractPayout(id, direction, entryPrice, price)
        bounds == PriceBounds(GetTier(id), direction, entryPrice)
    IN  /\ payout = TierMaxPayout(id)
              <=> price = bounds.knockOut \/ Beyond(1 - direction, price, bounds.knockOut)
        /\ payout = 0
              <=> price = bounds.wipeOut \/ Beyond(direction, price, bounds.wipeOut)
=============================================================================
