------------------------------- MODULE MCAutoRef -------------------------------
(***************************************************************************)
(* Instance of AutoRef for TLC: references and addresses are symmetric.    *)
(***************************************************************************)
EXTENDS AutoRef, TLC

Symmetry == Permutations(Refs) \cup Permutations(Heap)
================================================================================
