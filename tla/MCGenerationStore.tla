------------------------- MODULE MCGenerationStore -------------------------
(* Small instances of GenerationStore for TLC: two Hosts, so that their    *)
(* operations interleave; two generations, so that one can be reserved     *)
(* twice and the second one be exhausted; two installation identifiers, so *)
(* that a second creation would be seen.                                   *)
EXTENDS GenerationStore, TLC

HostSymmetry == Permutations(Hosts) \cup Permutations(Installations)
=============================================================================
