--------------------------- MODULE MCDormantInstall ---------------------------
(* Two operators maintain one app, export its journals and archive them.   *)
EXTENDS JournalRetention, TLC

Symmetry == Permutations(Procs)
=============================================================================
