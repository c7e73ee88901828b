-------------------------- MODULE MCProductLifecycle --------------------------
(* Instances of ProductLifecycle for TLC.                                  *)
EXTENDS ProductLifecycle, TLC

(* Products, SKUs and workers are interchangeable.                         *)
Symmetries ==
    Permutations(Products) \cup Permutations(Skus) \cup Permutations(Workers)

(* Creations of SKUs and deletions of their products do not overlap.       *)
ApartSpec == Init /\ [][Next /\ CreationsApart']_vars
===============================================================================
