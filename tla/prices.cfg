SPECIFICATION Spec
CONSTANTS
    t1 = t1
    t2 = t2
    MarketPrice <- MCMarketPrice
    START_PRICE = 4
    SCALE = 1000
    STEP_BPS = 5000
    BPS = 10000
    SANE_MAX = 1000
    FIELD_64_LIMIT = 2000
    Fixed = 5
    PRICE_INTERVAL = 2
    MAX_ORACLE_AGE = 6
    Tick = {t1, t2}
    MaxFaults = 4
    None = None
INVARIANT StaleOnlyInSilence
INVARIANT MarkKeepsAnchor
