--------------------------- MODULE MCReleasePipeline ---------------------------
(* One release from enrolment to the shipped-release ledger.  The           *)
(* predecessor approved a decision about the facts "kept"; the candidate's  *)
(* component has these facts or others.                                     *)
EXTENDS ReleaseDriver
MCFacts == {"kept", "changed"}
MCShipped == [i \in Items |-> "kept"]
=============================================================================
