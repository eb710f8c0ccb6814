SPECIFICATION Spec
CONSTANTS
    p1 = p1
    me = me
    rival = rival
    s1 = s1
    s2 = s2
    s3 = s3
    t1 = t1
    t2 = t2
    PositionId = {p1}
    Keeper = {me, rival}
    Secret = {s1, s2, s3}
    GracePeriod = 2
    ESCROW_TTL = 1
    Self = me
    RivalSecret = s3
    Tick = {t1, t2}
    TICK_SECONDS = 1
    FLOOR = 1
    CEILING = 2
    None = None
    MaxFaults = 1
    MaxRivalClaims = 1
INVARIANT RedeemableClaims
INVARIANT NeverOversleeps
PROPERTY GivenUpIsSeized
