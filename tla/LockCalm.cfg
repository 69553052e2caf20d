SPECIFICATION Spec
CONSTANTS
    u1 = u1
    u2 = u2
    w1 = w1
    w2 = w2
    Users = {u1, u2}
    Workflows = {w1, w2}
    Keys = {k1, k2, k3}
    Requests = {r1, r2}
    None = None
    Owner <- OneEach
    Shared <- WithAll
    Habits <- SequentialCrash
SYMMETRY Interchangeable
INVARIANTS TypeOK MutualExclusion SessionHoldsItsLock
PROPERTIES RefusalIsCurrent LockIsKept KeepsPromise
CHECK_DEADLOCK FALSE
