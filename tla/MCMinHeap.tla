------------------------------- MODULE MCMinHeap -------------------------------
(***************************************************************************)
(* Model-checking instance of MinHeap.                                     *)
(***************************************************************************)
EXTENDS MinHeap, TLC

EntrySymmetry == Permutations(Entries)
==============================================================================
