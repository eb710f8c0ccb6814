SPECIFICATION Spec
CONSTANTS
    a = a
    b = b
    c = c
    Leaf = {a, b, c}
    maxEnrollments = 2
    MaxFaults = 3
INVARIANT MirrorAgrees
PROPERTY ServedOnPrefix
PROPERTY HolesHeal
CHECK_DEADLOCK FALSE
