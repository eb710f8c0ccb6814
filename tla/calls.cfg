CONSTANTS
    alice = alice
    bob = bob
    Wallet = {alice, bob}
    Preloaded <- MC_Preloaded
    TREE_DEPTH = 3
    ROOT_HISTORY_SIZE = 2
    DepositAmounts = {100}
    PayAmounts = {10, 130}
    Prices = {7, 17}
    StartPrice = 10
    MaxCalls = 2
    MaxPrices = 2
    StroopsPerUnit = 1000000
    MAX64 = 2000000000
    MaxIndex = 4
    FeedInHex = FALSE
SPECIFICATION Spec
CHECK_DEADLOCK FALSE
INVARIANT HonestCallsAccepted
INVARIANT ArgumentsAreBound
INVARIANT OutputsAreDerivable
INVARIANT QuotesAgree
