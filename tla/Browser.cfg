SPECIFICATION FairSpec
CONSTANTS
    Conditions = {c1, c2}
    Formulas = {f1, f2}
    Boxes = {b1, b2}
    Columns = {k1, k2, k3}
    None = None
    Slots = {s1, s2}
INVARIANTS TypeOK RulesAreOfTheForm BoxesAreTrue DragIsKept EmptyModalWaits
PROPERTIES BlankModalEnds
CHECK_DEADLOCK FALSE
