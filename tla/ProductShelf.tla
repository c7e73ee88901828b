----------------------------- MODULE ProductShelf -----------------------------
(***************************************************************************)
(* What the catalog promises to someone who browses it: SKUs stand under   *)
(* products that are there, either is on sale or not, and a product goes   *)
(* together with everything under it, in one step and for good.            *)
(*                                                                         *)
(* There are no statuses, cascades, locks or transactions here.            *)
(* ProductLifecycle implements this specification; see ShelfSpec there.    *)
(***************************************************************************)
CONSTANTS
    Products,
    Skus

VARIABLES
    shelf,      \* the products there are
    under,      \* under[s]: the product of s, for every SKU there is
    offered,    \* the products on sale
    buyable,    \* the SKUs on sale
    endedSpus,  \* the products that were taken away
    endedSkus   \* the SKUs that were taken away

vars == <<shelf, under, offered, buyable, endedSpus, endedSkus>>

Init ==
    /\ shelf = {} /\ offered = {} /\ endedSpus = {}
    /\ under = [s \in {} |-> {}] /\ buyable = {} /\ endedSkus = {}

AddProduct(p) ==
    /\ p \notin shelf \cup endedSpus
    /\ shelf' = shelf \cup {p}
    /\ UNCHANGED <<under, offered, buyable, endedSpus, endedSkus>>

AddSku(s, p) ==
    /\ s \notin DOMAIN under \cup endedSkus
    /\ p \in shelf
    /\ under' = [t \in DOMAIN under \cup {s} |-> IF t = s THEN p ELSE under[t]]
    /\ UNCHANGED <<shelf, offered, buyable, endedSpus, endedSkus>>

SwitchProduct(p) ==
    /\ p \in shelf
    /\ offered' \in {offered \cup {p}, offered \ {p}}
    /\ UNCHANGED <<shelf, under, buyable, endedSpus, endedSkus>>

SwitchSku(s) ==
    /\ s \in DOMAIN under
    /\ buyable' \in {buyable \cup {s}, buyable \ {s}}
    /\ UNCHANGED <<shelf, under, offered, endedSpus, endedSkus>>

TakeSkus(S) ==
    /\ under' = [s \in DOMAIN under \ S |-> under[s]]
    /\ buyable' = buyable \ S
    /\ endedSkus' = endedSkus \cup S

RemoveSku(s) ==
    /\ s \in DOMAIN under
    /\ TakeSkus({s})
    /\ UNCHANGED <<shelf, offered, endedSpus>>

RemoveProduct(p) ==
    /\ p \in shelf
    /\ shelf' = shelf \ {p}
    /\ offered' = offered \ {p}
    /\ endedSpus' = endedSpus \cup {p}
    /\ TakeSkus({s \in DOMAIN under : under[s] = p})

Next ==
    \/ \E p \in Products :
        \/ AddProduct(p)
        \/ SwitchProduct(p)
        \/ RemoveProduct(p)
        \/ \E s \in Skus : AddSku(s, p)
    \/ \E s \in Skus :
        \/ SwitchSku(s)
        \/ RemoveSku(s)

Spec == Init /\ [][Next]_vars
===============================================================================
