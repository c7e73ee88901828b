CONSTANTS
    c1 = c1
    c2 = c2
    spu = spu
    None = None
    Clients = {c1, c2}
    Rows = {spu}
    Unlisted = {spu}
    MaxTickets = 2
SPECIFICATION Spec
SYMMETRY ClientSymmetry
INVARIANTS
    RefusalMeansChange
