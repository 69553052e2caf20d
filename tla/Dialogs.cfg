SPECIFICATION DialogSpec
CONSTANTS
    i1 = i1
    i2 = i2
    a1 = a1
    a2 = a2
    w1 = w1
    Items = {i1, i2}
    Actions = {a1, a2}
    ActionOf <- OwnAction
    Workers = {w1}
    MaxVersion = 2
    ByShared <- SecondJobs
    SendingFails = TRUE
    Tabs = {t1}
    Canvas = {a2}
    Texts = {x1, x2}
    Careful = TRUE
    None = None
INVARIANTS TypeOK AtMostOnce StatusIsTrue DialogTypes DoesWhatItShows
PROPERTIES KeepsTheBook
CHECK_DEADLOCK FALSE
