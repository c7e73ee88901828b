CONSTANTS
    c1 = c1
    c2 = c2
    sku = sku
    None = None
    Clients = {c1, c2}
    Rows = {sku}
    Unlisted = {}
    MaxTickets = 4
SPECIFICATION FairSpec
INVARIANTS
    RefusalIsTruthful
    RefusalMeansChange
    IInv
PROPERTIES
    NoLostUpdate
    EveryChangeAdvances
    PromiseSpec
    EveryRequestEnds
