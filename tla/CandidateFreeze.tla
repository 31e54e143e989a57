---------------------------- MODULE CandidateFreeze ----------------------------
(***************************************************************************)
(* scripts/candidate_freeze.py: consuming a build.  freeze_candidate reads *)
(* the inputs of the pre-sign candidate, claims the build by creating the  *)
(* intent that digests them, reads them again, and renames the preflight   *)
(* root to the fixed GA root; recover_candidate finishes an interrupted    *)
(* freeze; verify_frozen_candidate reopens the result.  There is no lock:  *)
(* only the exclusive creation of the intent and the exclusive rename      *)
(* order two freezers, and a build may still be writing the inputs.        *)
(*                                                                         *)
(* The inputs are digested one after another, so they are modelled as      *)
(* parts that are read in separate steps; a digest is the version read.    *)
(***************************************************************************)
EXTENDS Naturals, FiniteSets

CONSTANTS
    Freezers,       \* concurrent invocations
    Parts,          \* documents and trees that the intent digests
    MaxVersion,     \* versions a build may leave in a part
    MaxFreezeFaults

VARIABLES
    root,     \* which fixed root exists: "preflight" or "final"
    inputs,   \* the version of each part under that root
    claim,    \* candidate-freeze/: "none", "empty", "torn" or the intent
    freezer,  \* each invocation
    receipts, \* intents that an invocation returned as frozen
    faults

fvars == <<root, inputs, claim, freezer, receipts, faults>>

Versions == 1..MaxVersion
Intents == [Parts -> Versions]
Unread == [part \in Parts |-> 0]
NoClaim == [st |-> "none", intent |-> Unread]
Idle == [pc |-> "idle", cmd |-> "freeze", at |-> "preflight", seen |-> Unread, expected |-> Unread]
Labels == {"idle", "read", "live", "claim", "write", "again", "sync", "rename", "reopen",
           "durable", "verify"}

TypeOK ==
    /\ root \in {"preflight", "final"} /\ inputs \in Intents
    /\ claim.st \in {"none", "empty", "torn", "intent"}
    /\ claim.intent \in [Parts -> 0..MaxVersion]
    /\ freezer \in [Freezers -> [pc : Labels, cmd : {"freeze", "recover", "verify"},
                                 at : {"preflight", "final"},
                                 seen : [Parts -> 0..MaxVersion],
                                 expected : [Parts -> 0..MaxVersion]]]
    /\ receipts \subseteq Intents /\ faults \in 0..MaxFreezeFaults

-----------------------------------------------------------------------------
(* Documents.  The validators accept only the fixed identity of the active  *)
(* release; what is left to tell apart is whether the bytes are the same.   *)

At(f, label) == freezer[f].pc = label
Goto(f, label) == freezer' = [freezer EXCEPT ![f].pc = label, ![f].seen = Unread]
Leave(f) == freezer' = [freezer EXCEPT ![f] = Idle]
Fault == faults < MaxFreezeFaults /\ faults' = faults + 1
Refuse(f) == Leave(f) /\ UNCHANGED <<root, inputs, claim, receipts, faults>>
\* _load_intent: present, private, canonical, with the exact fields.
IntentLoads == claim.st = "intent"

\* _validate_root_layout: every fixed path lies under the root that was opened.
PresentAt(at) == at = root
\* _tree_identity and _read_regular_file: one consistent read of a document or tree.
Digest(part) == inputs[part]
\* _expected_intent: each part is read once, at its own time.
ReadLabels == {"read", "again", "reopen", "verify"}
ReadPart(f) ==
    /\ freezer[f].pc \in ReadLabels /\ PresentAt(freezer[f].at)
    /\ \E part \in Parts :
          /\ freezer[f].seen[part] = 0
          /\ freezer' = [freezer EXCEPT ![f].seen[part] = Digest(part)]
    /\ UNCHANGED <<root, inputs, claim, receipts, faults>>
AllRead(f) == \A part \in Parts : freezer[f].seen[part] # 0

\* _read_regular_file and _read_canonical_json: not private, not canonical, or
\* changed while it was read.
Unreadable == Fault
\* _validate_source_identity and _validate_signing_material_layout.
SourceInvalid == Fault
\* _validate_product, _validate_product_input and _validate_signing_plan.
PlanInvalid == Fault
\* frozen_candidate_verification_session: its shared verifier is gone.
VerifierUnavailable(f) == freezer[f].cmd = "verify" /\ Fault
\* A part that does not read or validate ends the invocation where it is.
PartRefused(f) ==
    /\ freezer[f].pc \in ReadLabels
    /\ Unreadable \/ SourceInvalid \/ PlanInvalid \/ VerifierUnavailable(f)
    /\ Leave(f) /\ UNCHANGED <<root, inputs, claim, receipts>>

-----------------------------------------------------------------------------
(* freeze_candidate                                                        *)

BeginFreeze(f) ==
    /\ At(f, "idle") /\ root = "preflight"
    /\ freezer' = [freezer EXCEPT ![f] = [Idle EXCEPT !.pc = "read"]]
    /\ UNCHANGED <<root, inputs, claim, receipts, faults>>
\* Profiles and custody are live, the destination parent exists.
LiveReadiness(f) ==
    /\ At(f, "read") /\ AllRead(f)
    /\ freezer' = [freezer EXCEPT ![f].pc = "claim", ![f].expected = freezer[f].seen,
                                  ![f].seen = Unread]
    /\ UNCHANGED <<root, inputs, claim, receipts, faults>>
EnsureClaimDirectory(f) ==
    /\ At(f, "claim") /\ root = "preflight"
    /\ claim' = IF claim.st = "none" THEN [claim EXCEPT !.st = "empty"] ELSE claim
    /\ Goto(f, "write") /\ UNCHANGED <<root, inputs, receipts, faults>>
\* O_EXCL: one invocation opens the file; the bytes follow later.
OpenIntent(f) ==
    /\ At(f, "write") /\ claim.st = "empty" /\ root = "preflight"
    /\ claim' = [st |-> "torn", intent |-> freezer[f].expected]
    /\ Goto(f, "durable") /\ UNCHANGED <<root, inputs, receipts, faults>>
WriteIntent(f) ==
    /\ At(f, "durable")
    /\ claim' = [st |-> "intent", intent |-> freezer[f].expected]
    /\ Goto(f, "again") /\ UNCHANGED <<root, inputs, receipts, faults>>
\* FileExistsError: already consumed or quarantined, never overwritten.
AlreadyConsumed(f) == At(f, "write") /\ claim.st \in {"torn", "intent"} /\ Refuse(f)
\* The preflight root was renamed away: what is opened by its path is not there.
PreflightGone(f) ==
    /\ freezer[f].pc \in {"read", "claim", "write", "again", "rename"} /\ ~PresentAt(freezer[f].at)
    /\ Refuse(f)

Unchanged(f) ==
    /\ At(f, "again") /\ AllRead(f) /\ freezer[f].seen = freezer[f].expected
    /\ Goto(f, "rename") /\ UNCHANGED <<root, inputs, claim, receipts, faults>>
\* Source or inputs changed across the claim: the build is quarantined.
Quarantined(f) ==
    /\ At(f, "again") /\ AllRead(f) /\ freezer[f].seen # freezer[f].expected
    /\ Refuse(f)

\* _sync_tree, then renameatx_np(RENAME_EXCL): atomic, durable or not.
Promote(f) ==
    /\ At(f, "rename") /\ root = "preflight"
    /\ root' = "final"
    /\ freezer' = [freezer EXCEPT ![f].pc = "reopen", ![f].at = "final", ![f].seen = Unread]
    /\ UNCHANGED <<inputs, claim, receipts, faults>>

-----------------------------------------------------------------------------
(* recover_candidate and verify_frozen_candidate                           *)

BeginRecover(f) ==
    /\ At(f, "idle") /\ IntentLoads
    /\ freezer' = [freezer EXCEPT ![f] =
          [Idle EXCEPT !.pc = "again", !.cmd = "recover", !.at = root,
                        !.expected = claim.intent]]
    /\ UNCHANGED <<root, inputs, claim, receipts, faults>>
\* Recovering a candidate that is already at the final root only reopens it.
RecoverAtFinal(f) ==
    /\ At(f, "rename") /\ freezer[f].at = "final"
    /\ Goto(f, "reopen") /\ UNCHANGED <<root, inputs, claim, receipts, faults>>
BeginVerify(f) ==
    /\ At(f, "idle") /\ root = "final" /\ IntentLoads
    /\ freezer' = [freezer EXCEPT ![f] =
          [Idle EXCEPT !.pc = "verify", !.cmd = "verify", !.at = "final",
                        !.expected = claim.intent]]
    /\ UNCHANGED <<root, inputs, claim, receipts, faults>>

\* Mutant: a reopened candidate is reported without digesting it again.
ReturnsUnread(f) ==
    /\ freezer[f].pc \in {"reopen", "verify"} /\ AllRead(f) /\ IntentLoads
    /\ receipts' = receipts \cup {claim.intent}
    /\ Leave(f) /\ UNCHANGED <<root, inputs, claim, faults>>
\* _verify_exact_intent at the final root: the inputs digest to the intent, again.
Returns(f) ==
    /\ freezer[f].pc \in {"reopen", "verify"} /\ AllRead(f)
    /\ IntentLoads /\ claim.intent = freezer[f].expected
    /\ freezer[f].seen = claim.intent
    /\ receipts' = receipts \cup {claim.intent}
    /\ Leave(f) /\ UNCHANGED <<root, inputs, claim, faults>>
ReopenQuarantined(f) ==
    /\ freezer[f].pc \in {"reopen", "verify"} /\ AllRead(f)
    /\ ~IntentLoads \/ freezer[f].seen # claim.intent \/ claim.intent # freezer[f].expected
    /\ Refuse(f)

-----------------------------------------------------------------------------
\* Dying, or a durability call that fails, leaves what was written.
Crash(f) ==
    /\ freezer[f].pc # "idle" /\ Fault /\ Leave(f)
    /\ UNCHANGED <<root, inputs, claim, receipts>>

\* A build writes a part while the root still has its preflight name (external).
BuildWrites == \E part \in Parts, v \in Versions :
    /\ root = "preflight" /\ inputs[part] # v
    /\ inputs' = [inputs EXCEPT ![part] = v]
    /\ Fault /\ UNCHANGED <<root, claim, freezer, receipts>>

Init ==
    /\ root = "preflight" /\ inputs = [part \in Parts |-> 1] /\ claim = NoClaim
    /\ freezer = [f \in Freezers |-> Idle] /\ receipts = {} /\ faults = 0

FreezeStep(f) ==
    \/ BeginFreeze(f) \/ ReadPart(f) \/ PartRefused(f) \/ LiveReadiness(f) \/ EnsureClaimDirectory(f)
    \/ OpenIntent(f) \/ WriteIntent(f) \/ AlreadyConsumed(f) \/ PreflightGone(f)
    \/ Unchanged(f) \/ Quarantined(f) \/ Promote(f)
ReopenStep(f) ==
    \/ BeginRecover(f) \/ RecoverAtFinal(f) \/ BeginVerify(f) \/ Returns(f)
    \/ ReopenQuarantined(f) \/ Crash(f)

Next == (\E f \in Freezers : FreezeStep(f) \/ ReopenStep(f)) \/ BuildWrites
Spec == Init /\ [][Next]_fvars

-----------------------------------------------------------------------------
(* Every invocation that reports the candidate frozen reports the same      *)
(* inputs, and they are the ones under the final root, whichever freezers,  *)
(* recoveries and build writes raced (freeze_candidate re-reads after the   *)
(* claim and after the rename).                                             *)
OneFrozenCandidate ==
    receipts # {} => root = "final" /\ receipts = {inputs} /\ IntentLoads /\ claim.intent = inputs

(* The claim is never replaced or withdrawn: a build number is consumed     *)
(* once (_create_intent opens the intent exclusively).                      *)
ClaimIsPermanent ==
    [][claim.st = "intent" => claim' = claim]_fvars
=============================================================================
