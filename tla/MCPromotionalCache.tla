--------------------------- MODULE MCPromotionalCache ---------------------------
(***************************************************************************)
(* Model-checking instance of PromotionalCache.                            *)
(***************************************************************************)
EXTENDS PromotionalCache

WorkerAndIdSymmetry == Permutations(Workers) \cup Permutations(Ids)
==============================================================================
