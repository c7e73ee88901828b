CONSTANTS
    c1 = c1
    c2 = c2
    c3 = c3
    c4 = c4
    c5 = c5
    w1 = w1
    None = None
    Cats = {c1, c2, c3, c4, c5}
    Workers = {w1}
    Claims = {"equal", "ahead", "other"}
SPECIFICATION Spec
SYMMETRY Symmetries
INVARIANTS
    PathFollowsParent
    LeafIffChildless
PROPERTIES
    ForestSpec
CHECK_DEADLOCK FALSE
