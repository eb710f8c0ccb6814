SPECIFICATION EscrowSpec
CONSTANTS
    alice = alice
    b1 = b1
    n1 = n1
    n2 = n2
    o1 = o1
    o2 = o2
    Owner = {alice}
    Blinding = {b1}
    MaxAmount = 2
    Denomination = 1
    TREE_CAPACITY = 3
    ROOT_HISTORY_SIZE = 2
    MAX_WITHDRAW_BATCH = 2
    Registry = Registry
    Hub = Hub
    Manager = Manager
    Contract = {Registry, Hub, Manager}
    ASP_CAPACITY = 1
    ASP_ROOT_HISTORY = 1
    MaxBlocked = 1
    Floors = {2}
    SyncSlack = 0
    MaxFund = 2
    OrderId = {o1, o2}
    QuestId = {"q1"}
    Depositor = {alice}
    Price = {1, 2}
    AgentNullifier = {n1, n2}
    None = None
INVARIANT Backed
INVARIANT EscrowsHeld
INVARIANT EscrowReturnable
PROPERTY RefinesLedger
PROPERTY ControlsHold
CHECK_DEADLOCK FALSE
