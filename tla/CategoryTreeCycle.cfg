CONSTANTS
    c1 = c1
    c2 = c2
    c3 = c3
    c4 = c4
    w1 = w1
    w2 = w2
    None = None
    Cats = {c1, c2, c3, c4}
    Workers = {w1, w2}
    Claims = {"equal", "ahead"}
SPECIFICATION Spec
SYMMETRY Symmetries
INVARIANTS
    NoneDetached
CHECK_DEADLOCK FALSE
