SPECIFICATION MCSpec
CONSTANTS
    s1 = s1
    red = red
    blue = blue
    large = large
    colour = colour
    size = size
    k1 = k1
    w1 = w1
    w2 = w2
    None = None
    Skus = {s1}
    Attributes = {colour, size}
    Values = {red, blue, large}
    AttributeOf <- MCAttributeOf
    Categories = {k1}
    Workers = {w1, w2}
    MaxRebindings = 0
INVARIANTS
    AnswerIsWhole
