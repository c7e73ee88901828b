--------------------------- MODULE VariantPositions ---------------------------
(***************************************************************************)
(* What the catalog promises to someone who compares the SKUs of one       *)
(* product: each is at a position, one value on every axis of a template   *)
(* that a category declared, and no two are at the same one.  A SKU comes, *)
(* changes its position in one step, and goes for good.                    *)
(*                                                                         *)
(* There are no signatures, indexes, locks or transactions here.           *)
(* VariantAxes implements this specification; see PositionsSpec there.     *)
(***************************************************************************)
CONSTANTS
    Skus,           \* SKU numbers
    Attributes,     \* the possible axes
    Values,         \* the values on them
    AttributeOf     \* AttributeOf[v]: the axis of value v

VARIABLES
    position,   \* position[s]: the values of s, for every SKU there is
    gone,       \* the SKUs that were withdrawn
    templates   \* every set of axes that was ever declared

vars == <<position, gone, templates>>

Init ==
    /\ position = [s \in {} |-> {}]
    /\ gone = {}
    /\ templates \in SUBSET SUBSET Attributes

(* One value on each axis of a template, and no other value.               *)
IsPosition(values) ==
    \E axes \in templates :
        /\ \A v \in values : AttributeOf[v] \in axes
        /\ \A a \in axes : \E v \in values :
              \A u \in values : AttributeOf[u] = a <=> u = v

Declare(axes) ==
    /\ templates' = templates \cup {axes}
    /\ UNCHANGED <<position, gone>>

(* A product without axes has any number of SKUs, told apart by number.    *)
Free(s, values) ==
    values # {} => \A t \in DOMAIN position \ {s} : position[t] # values

Place(s, values) ==
    /\ s \notin gone
    /\ IsPosition(values) /\ Free(s, values)
    /\ position' = [t \in DOMAIN position \cup {s} |->
                       IF t = s THEN values ELSE position[t]]
    /\ UNCHANGED <<gone, templates>>

Withdraw(s) ==
    /\ s \in DOMAIN position
    /\ position' = [t \in DOMAIN position \ {s} |-> position[t]]
    /\ gone' = gone \cup {s}
    /\ UNCHANGED templates

Next ==
    \/ \E axes \in SUBSET Attributes : Declare(axes)
    \/ \E s \in Skus :
        \/ Withdraw(s)
        \/ \E values \in SUBSET Values : Place(s, values)

Spec == Init /\ [][Next]_vars
===============================================================================
