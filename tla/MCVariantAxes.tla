--------------------------- MODULE MCVariantAxes ---------------------------
(* A small dictionary for VariantAxes: one attribute with two values and   *)
(* one with a single value.                                                *)
EXTENDS VariantAxes, TLC
CONSTANTS red, blue, large, colour, size
MCAttributeOf == (red :> colour) @@ (blue :> colour) @@ (large :> size)

(* SKUs, categories and workers are interchangeable, and so are the two    *)
(* values of colour, which AttributeOf treats alike.                       *)
Symmetries ==
    Permutations(Skus) \cup Permutations(Categories) \cup Permutations(Workers)
        \cup Permutations({red, blue})

(* Both categories start with colour; one of them is rebound once.         *)
MCInit == Init /\ \A k \in Categories : axesOf[k] = {colour}
MCSpec == MCInit /\ [][Next]_vars
=============================================================================
