-------------------------- MODULE MCConditionalWrite --------------------------
(* Instances of ConditionalWrite for TLC.                                  *)
EXTENDS ConditionalWrite, TLC

(* Clients are interchangeable.                                            *)
ClientSymmetry == Permutations(Clients)
===============================================================================
