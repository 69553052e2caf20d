SPECIFICATION Spec
CONSTANTS
    u1 = u1
    u2 = u2
    w1 = w1
    w2 = w2
    Users = {u1, u2}
    Workflows = {w1, w2}
    Keys = {k1, k2}
    Requests = {r1, r2}
    None = None
    Owner <- OneEach
    Shared <- WithAll
    Habits <- DirectOnly
SYMMETRY Interchangeable
INVARIANTS MutualExclusion
CHECK_DEADLOCK FALSE
