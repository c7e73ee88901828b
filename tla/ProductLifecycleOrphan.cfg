CONSTANTS
    p1 = p1
    s1 = s1
    w1 = w1
    w2 = w2
    Products = {p1}
    Skus = {s1}
    Workers = {w1, w2}
SPECIFICATION Spec
SYMMETRY Symmetries
INVARIANTS
    NoLiveSkuUnderRetiredProduct
CHECK_DEADLOCK FALSE
