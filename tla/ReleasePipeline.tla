---------------------------- MODULE ReleasePipeline ----------------------------
(***************************************************************************)
(* The release of one candidate, stage after stage: candidate_freeze.py    *)
(* freezes it, signing_attempt_transaction.py signs it, and, once its      *)
(* output is canonical and packaging began, dmg_notarization_transaction.py *)
(* submits the DMG.  Each stage opens what the earlier one published and   *)
(* refuses to start without it.  A stage that ended only reads what no     *)
(* later stage writes, so its re-runs are explored before the next begins. *)
(***************************************************************************)
EXTENDS Naturals, Sequences

CONSTANTS Freezers, Parts, MaxVersion,
          Procs, Nobody, Executors, NoExecutor, MAX_VERIFICATIONS,
          Mine, Other, NoId, MAX_DMG_EVENTS,
          MaxFaults       \* crashes, failed commands and build writes in one behaviour

ASSUME PipelineAssumption ==
    /\ Parts # {} /\ MaxVersion \in Nat \ {0}
    /\ Nobody \notin Procs /\ NoExecutor \notin Executors /\ MAX_VERIFICATIONS \in Nat
    /\ Mine # Other /\ NoId \notin {Mine, Other} /\ MAX_DMG_EVENTS \in Nat
    /\ MaxFaults \in Nat

VARIABLES root, inputs, claim, freezer, receipts,
          attempts, canonical, recon, downstream, signatures, lock, proc,
          dmg, events, docs, copies, final, apple, uploads, run,
          faults

freezeVars == <<root, inputs, claim, freezer, receipts>>
signVars == <<attempts, canonical, recon, downstream, signatures, lock, proc>>
dmgVars == <<dmg, events, docs, copies, final, apple, uploads, run>>
vars == <<freezeVars, signVars, dmgVars, faults>>

Freeze == INSTANCE CandidateFreeze WITH MaxFreezeFaults <- MaxFaults
Sign == INSTANCE SigningTransaction
Dmg == INSTANCE DmgNotarization WITH MaxDmgFaults <- MaxFaults

Init == Freeze!Init /\ Sign!Init /\ Dmg!Init

SigningUntouched == attempts = <<>> /\ lock = Nobody
FreezeStage == SigningUntouched /\ Freeze!Next /\ UNCHANGED <<signVars, dmgVars>>

\* FrozenSigningBindings: the signer opens the frozen candidate read-only.
Frozen == receipts # {} /\ \A f \in Freezers : freezer[f].pc = "idle"
Unpackaged == [staged |-> FALSE, attempt |-> FALSE]
SignStage == Frozen /\ dmg = Unpackaged /\ Sign!Next /\ UNCHANGED <<freezeVars, dmgVars>>

\* Packaging works on the canonical, notarized app.
Packaged == downstream /\ lock = Nobody
DmgStage == Packaged /\ Dmg!Next /\ UNCHANGED <<freezeVars, signVars>>

Next == FreezeStage \/ SignStage \/ DmgStage
Spec == Init /\ [][Next]_vars

-----------------------------------------------------------------------------
(* The states of the three stages are well formed.                         *)
TypeOK == Freeze!TypeOK /\ Sign!TypeOK /\ Dmg!TypeOK

(* Every invocation that reports the candidate frozen reports the inputs    *)
(* that are under the final root.                                           *)
OneFrozenCandidate == Freeze!OneFrozenCandidate

(* A build is consumed once: the freeze claim is never replaced.            *)
ClaimIsPermanent == Freeze!ClaimIsPermanent

(* The signing identity is used at most once for a candidate.               *)
SignedAtMostOnce == Sign!SignedAtMostOnce

(* A verified signed output is in exactly one place through every crash.    *)
VerifiedOutputHasOneHome == Sign!VerifiedOutputHasOneHome

(* The canonical output's publication was announced in a journal first.     *)
CanonicalIsAnnounced == Sign!CanonicalIsAnnounced

(* The DMG is uploaded to Apple at most once.                               *)
SubmittedOnce == Dmg!SubmittedOnce

(* The published Gatekeeper evidence is about the published copy.           *)
PublishedEvidenceIsFresh == Dmg!PublishedEvidenceIsFresh

(* An admitted recovery never runs out of journal events.                   *)
RecoveryHasRoom == Dmg!RecoveryHasRoom
=============================================================================
