------------------------ MODULE MCRuntimeAcceptance ------------------------
EXTENDS RuntimeAcceptance, TLC
Symmetry == Permutations(Procs)
=============================================================================
