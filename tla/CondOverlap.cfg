SPECIFICATION Spec
CONSTANTS
    f = f
    c1 = c1
    c2 = c2
    Values = {v1, v2}
    Rows = {r1, r2}
    Conds = {f, c1, c2}
    Filter = f
    Learners = {l1}
    HabitSets <- Overlapping
    None = None
SYMMETRY Interchangeable
PROPERTIES OnlyHolderEdits
CHECK_DEADLOCK FALSE
