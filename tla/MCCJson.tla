------------------------------ MODULE MCCJson ------------------------------
(***************************************************************************)
(* CJson on a small heap: which address an item has is of no consequence.  *)
(***************************************************************************)
EXTENDS CJson, TLC

MCFolded == [n \in Names |-> n]
Symmetry == Permutations(Addresses)
=============================================================================
