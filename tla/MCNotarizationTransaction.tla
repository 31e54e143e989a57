--------------------- MODULE MCNotarizationTransaction ---------------------
(* Small instances for TLC: two invocations, so that one is refused or     *)
(* finds the attempt claimed; two tools, so that a recovery can be         *)
(* continued by another one.  The attempt has the current layout or the    *)
(* older one, never both.                                                  *)
EXTENDS NotarizationAttempts, TLC

ToolSymmetry == Permutations(Tools) \cup Permutations(Procs)
=============================================================================
