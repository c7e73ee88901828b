----------------------------- MODULE MCCategoryTree -----------------------------
(* Instances of CategoryTree for TLC.                                      *)
EXTENDS CategoryTree, TLC

(* Categories and workers are interchangeable.                             *)
Symmetries == Permutations(Cats) \cup Permutations(Workers)
===============================================================================
