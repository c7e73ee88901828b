CONSTANTS
    p1 = p1
    s1 = s1
    w1 = w1
    w2 = w2
    w3 = w3
    Products = {p1}
    Skus = {s1}
    Workers = {w1, w2, w3}
SPECIFICATION FairSpec
INVARIANTS
    OnSaleMeansActive
    IInv
    OrphansAreLate
PROPERTIES
    RetiredProductIsClosed
    PublishingIsOneWay
    EveryTransactionEnds
CHECK_DEADLOCK FALSE
