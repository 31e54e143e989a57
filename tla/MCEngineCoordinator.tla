------------------------ MODULE MCEngineCoordinator ------------------------
(* Small instances of EngineCoordinator for TLC.  Two sources, so that a   *)
(* profile change has a candidate and a prior one; three generations, so   *)
(* that a start, a candidate and its rollback fit before exhaustion.       *)
EXTENDS EngineCoordinator, TLC

SourceSymmetry == Permutations(Sources)
=============================================================================
