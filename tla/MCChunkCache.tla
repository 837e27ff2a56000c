------------------------------ MODULE MCChunkCache ------------------------------
(***************************************************************************)
(* Model-checking instance of ChunkCache.                                  *)
(***************************************************************************)
EXTENDS ChunkCache

\* The id 0 is told apart from the others.
WorkerAndIdSymmetry == Permutations(Workers) \cup Permutations(Ids \ {ZeroId})
==============================================================================
