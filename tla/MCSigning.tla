------------------------------ MODULE MCSigning ------------------------------
(* Two operations of one wallet and three requests.                        *)
EXTENDS SigningOperations, TLC

Symmetry == Permutations(Requests) \cup Permutations(Ops)
==============================================================================
