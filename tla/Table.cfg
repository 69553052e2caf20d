SPECIFICATION Spec
CONSTANTS
    Names = {n1, n2, n3}
    Conditions = {c1}
    Views = {v1}
    None = None
    HabitSets <- HabitsAlone
    MaxDrift = 1
    MaxUsed = 1
SYMMETRY Interchangeable
INVARIANTS TypeOK Consistent ProperlyNumbered KeyColumnRemains NothingDangles TableColumnsKnown
PROPERTIES IsColumnList OnlyDeletionsDangle
CHECK_DEADLOCK FALSE
