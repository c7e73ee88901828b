CONSTANTS
    p1 = p1
    s1 = s1
    s2 = s2
    w1 = w1
    w2 = w2
    w3 = w3
    Products = {p1}
    Skus = {s1, s2}
    Workers = {w1, w2, w3}
SPECIFICATION ApartSpec
SYMMETRY Symmetries
INVARIANTS
    DeletionInv
PROPERTIES
    ShelfSpec
CHECK_DEADLOCK FALSE
