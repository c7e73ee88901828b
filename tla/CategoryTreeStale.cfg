CONSTANTS
    c1 = c1
    c2 = c2
    w1 = w1
    None = None
    Cats = {c1, c2}
    Workers = {w1}
    Claims = {"equal", "other"}
SPECIFICATION Spec
SYMMETRY Symmetries
INVARIANTS
    StaleMeansMoved
CHECK_DEADLOCK FALSE
