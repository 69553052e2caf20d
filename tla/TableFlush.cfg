SPECIFICATION Spec
CONSTANTS
    Names = {n1, n2}
    Conditions = {c1}
    Views = {v1}
    None = None
    HabitSets <- Calm
    MaxDrift = 1
    MaxUsed = 1
SYMMETRY Interchangeable
PROPERTIES WorkflowRemains
CHECK_DEADLOCK FALSE
