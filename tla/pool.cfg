SPECIFICATION UsersSpec
SYMMETRY MCSymmetry
CONSTANTS
    alice = alice
    bob = bob
    b1 = b1
    Owner = {alice, bob}
    Blinding = {b1}
    MaxAmount = 2
    Denomination = 1
    TREE_CAPACITY = 4
    ROOT_HISTORY_SIZE = 2
    MAX_WITHDRAW_BATCH = 2
    Contract = {}
    ASP_CAPACITY = 1
    ASP_ROOT_HISTORY = 1
    MaxBlocked = 1
    Floors = {0, 2}
    SyncSlack = 1
    MaxFund = 0
INVARIANT TypeOK
INVARIANT FullyBacked
INVARIANT HistoryIsWindow
INVARIANT RageQuitOpen
CHECK_DEADLOCK FALSE
