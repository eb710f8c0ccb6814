SPECIFICATION Spec
CONSTANTS
    Request = {1, 2, 3, 4, 5}
    Batched = {1, 2, 3, 4}
    Signed = {3, 5}
    allowedContracts = {1}
    Nullifier = {1, 2, 3, 4}
    NullifierOf <- MCNullifierOf
    Pool = {1, 2}
    PoolOf <- MCPoolOf
    Sound = {1, 2, 4, 5}
    BATCH_MAX = 2
    Flight = {1, 2}
    MaxFaults = 1
INVARIANT AnswersHold
INVARIANT BadProofsStayOut
PROPERTY AcceptedIsAnswered
CHECK_DEADLOCK FALSE
