-------------------------- MODULE MCZoneStateManager --------------------------
(***************************************************************************)
(* Model-checking instance of ZoneStateManager, and the refinement of      *)
(* ZoneLifecycle by it.                                                    *)
(***************************************************************************)
EXTENDS ZoneRefinement, TLC

ThreadSymmetry == Permutations(Threads)
==============================================================================
