SPECIFICATION FairSpec
CONSTANTS
    i1 = i1
    i2 = i2
    a1 = a1
    a2 = a2
    w1 = w1
    w2 = w2
    Items = {i1, i2}
    Actions = {a1, a2}
    ActionOf <- OwnAction
    Workers = {w1}
    MaxVersion = 2
    ByShared <- NoJob
    SendingFails = FALSE
PROPERTIES OnlyUsersSchedule
CHECK_DEADLOCK FALSE
