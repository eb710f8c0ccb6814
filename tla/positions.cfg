SPECIFICATION Spec
SYMMETRY MCSymmetry
CONSTANTS
    lp1 = lp1
    lp2 = lp2
    p1 = p1
    p2 = p2
    k1 = k1
    k2 = k2
    s1 = s1
    Lp = {lp1, lp2}
    PositionId = {p1}
    Tier = {0}
    Amounts = {2}
    MaxBalance = 5
    MaxShares = 4
    Keeper = {k1}
    Secret = {s1}
    GracePeriod = 1
    ESCROW_TTL = 1
    Price = {2, 3, 5}
    MAX_ORACLE_AGE = 0
    HEALTH_THRESHOLD = 3000
    KEEPER_BOUNTY_BPS = 5000
    NoPosition = NoPosition
    Fee = {0, 1}
    ReuseIds = TRUE
    RenewClaims = TRUE
    TierReserve <- MCTierReserve
    TIER_MARGIN <- MCTierMargin
    TIER_SIZE <- MCTierSize
    TIER_MAX_PAYOUT <- MCTierMaxPayout
INVARIANT BooksAgree
INVARIANT Solvent
INVARIANT MarginHeld
INVARIANT Settleable
PROPERTY SeizedOnlyInSilence
PROPERTY ImplementsVault
PROPERTY SharePriceHolds
CHECK_DEADLOCK FALSE
