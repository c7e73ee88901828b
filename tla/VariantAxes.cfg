SPECIFICATION MCSpec
CONSTANTS
    s1 = s1
    s2 = s2
    red = red
    blue = blue
    large = large
    colour = colour
    size = size
    k1 = k1
    k2 = k2
    w1 = w1
    w2 = w2
    None = None
    Skus = {s1, s2}
    Attributes = {colour, size}
    Values = {red, blue, large}
    AttributeOf <- MCAttributeOf
    Categories = {k1, k2}
    Workers = {w1, w2}
    MaxRebindings = 1
SYMMETRY Symmetries
INVARIANTS
    OneSkuPerCombination
    SignatureDescribesAxes
    NeverPartial
    IInv
PROPERTIES
    PositionsSpec
