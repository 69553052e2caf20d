SPECIFICATION Spec
CONSTANTS
    f = f
    c1 = c1
    c2 = c2
    Values = {v1, v2, v3}
    Rows = {r1, r2}
    Conds = {f, c1, c2}
    Filter = f
    Learners = {l1}
    HabitSets <- OneHabit
    None = None
SYMMETRY Interchangeable
INVARIANTS TypeOK CountsCurrent 
CHECK_DEADLOCK FALSE
