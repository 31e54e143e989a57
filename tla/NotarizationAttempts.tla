------------------------ MODULE NotarizationAttempts ------------------------
(***************************************************************************)
(* The attempt that recover_transaction finds: of the current layout       *)
(* (NotarizationTransaction) or of the older direct one                    *)
(* (DirectSealedResume).  It tells them apart by publish-ready and         *)
(* receipt.json in the attempt itself and never turns one into the other.  *)
(***************************************************************************)
EXTENDS NotarizationTransaction, DirectSealedResume

VARIABLE layout

NoLegacy ==
    /\ tail = <<>> /\ receipt = "none" /\ place = "ready" /\ synced = FALSE
    /\ resume = "none" /\ legacyFaults = 0
AttemptInit ==
    /\ Init
    /\ \/ layout = "runs" /\ NoLegacy
       \/ layout = "direct" /\ LegacyInit
AttemptNext ==
    /\ UNCHANGED layout
    /\ \/ layout = "runs" /\ Next /\ UNCHANGED legacyVars
       \/ layout = "direct" /\ LegacyNext /\ UNCHANGED vars
AttemptSpec == AttemptInit /\ [][AttemptNext]_<<vars, legacyVars, layout>>
=============================================================================
