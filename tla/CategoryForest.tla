---------------------------- MODULE CategoryForest ----------------------------
(***************************************************************************)
(* What the catalog promises to someone who reads the parents of its       *)
(* categories and nothing else: a forest.  It grows by roots and by        *)
(* children of categories that are there, a category moves with all that   *)
(* is below it to a place that is not below itself, and only a category    *)
(* without children is taken away, for good.                               *)
(*                                                                         *)
(* There are no paths, depths, locks or transactions here.  CategoryTree   *)
(* implements this specification; see ForestSpec there.                    *)
(***************************************************************************)
CONSTANTS
    Cats,       \* categories
    None        \* the parent of a root

VARIABLES
    above,      \* above[c]: the parent of c, for every category there is
    gone        \* the categories that were taken away

vars == <<above, gone>>

Init == above = [c \in {} |-> None] /\ gone = {}

(* A part of the forest that holds the parents of its members.             *)
Upward(S) == \A d \in S : d \in DOMAIN above /\ above[d] \in S \cup {None}

(* t is c or below it: no part that holds t and its ancestors is free of c. *)
Below(t, c) == \A S \in SUBSET Cats : t \in S /\ Upward(S) => c \in S

Add(c, p) ==
    /\ c \notin DOMAIN above \cup gone
    /\ p \in DOMAIN above \cup {None}
    /\ above' = [d \in DOMAIN above \cup {c} |-> IF d = c THEN p ELSE above[d]]
    /\ UNCHANGED gone

Move(c, t) ==
    /\ c \in DOMAIN above /\ t \in DOMAIN above
    /\ ~Below(t, c)
    /\ above' = [above EXCEPT ![c] = t]
    /\ UNCHANGED gone

Remove(c) ==
    /\ c \in DOMAIN above
    /\ \A d \in DOMAIN above : above[d] # c
    /\ above' = [d \in DOMAIN above \ {c} |-> above[d]]
    /\ gone' = gone \cup {c}

Next ==
    \E c \in Cats :
        \/ Remove(c)
        \/ \E p \in Cats \cup {None} : Add(c, p)
        \/ \E t \in Cats : Move(c, t)

Spec == Init /\ [][Next]_vars
===============================================================================
