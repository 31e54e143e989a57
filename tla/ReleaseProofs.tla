---------------------------- MODULE ReleaseProofs ----------------------------
(***************************************************************************)
(* What holds in every release of ReleaseDriver, for any freezers, parts,  *)
(* invocations, executors, licence items and instances, and any bound on   *)
(* faults.  Each part of the release has its own inductive invariant:      *)
(*   FreezeInv   who may write the intent, and what was read where;        *)
(*   DmgInv      who may still upload, and what the evidence targets;      *)
(*   SignInv     the journal of the one attempt that may have signed, and  *)
(*               where its output is;                                      *)
(*   ReviewInv   every whole review file holds owned decisions only;       *)
(*   InstallInv  a recorded step is complete on the Mac, and a running     *)
(*               transaction can not take a recorded one back;             *)
(*   OrderInv    every stage before a done or a running one is done.       *)
(* The release touches the variables of a part only in that part's steps,  *)
(* so an invariant is kept by the steps of its part and by stuttering.     *)
(* The last part is about ReleaseArtifactSets, the sets that the release   *)
(* publishes, with an invariant of its own (OnCourse).                     *)
(***************************************************************************)
EXTENDS ReleaseArtifactSets, ReleaseDriver, SequenceTheorems, TLAPS

\* Checks that are one comparison on the abstract state.
USE DEF InLedger, Register

(* Every step of a release is a step of one pipeline stage or leaves the   *)
(* pipeline's state.                                                       *)
LEMMA PipelineStep ==
    ASSUME ReleaseNext
    PROVE  FreezeStage \/ SignStage \/ DmgStage \/ UNCHANGED pipelineVars
<1>1. CASE BuildStage \/ PackageStage \/ Notarize
  BY <1>1 DEF BuildStage, PackageStage, Notarize
<1>2. CASE DriverSteps
  BY <1>2 DEF DriverSteps, CommandRun, CommonGuards, GuardsRefuse, Enroll, Prepare, Ci, Receipt,
       PreparePublication, Finalize, Preserve, Seal, Updater, Export, Publish, Publishes, EntryEnds,
       EntryTemplate, EntryDraft, EntryFails, OwnerSession, SessionSteps, Drift, Killed
<1>3. CASE InstallSteps
  BY <1>3 DEF InstallSteps, InstallNext, InstallRecover, TransactionSucceeds, TransactionFails,
       RecordInstallStep, RecordRecovery, RequireInstalledRelease
<1>4. CASE AcceptanceSteps
  BY <1>4 DEF AcceptanceSteps, BeginCollect, CollectRefused, StartInstance, StartFails, Collects,
       StopInstance, CollectEnds, AcceptanceResumes
<1>5. CASE ReleaseSteps
  BY <1>5 DEF ReleaseSteps, VerifyRemote, RecordVerified, CommandShipped
<1> QED
  BY <1>1, <1>2, <1>3, <1>4, <1>5 DEF ReleaseNext

-----------------------------------------------------------------------------
(* Freezing.                                                               *)

FreezerStates == [pc : Freeze!Labels, cmd : {"freeze", "recover", "verify"}, at : {"preflight", "final"},
                  seen : [Parts -> 0..MaxVersion], expected : [Parts -> 0..MaxVersion]]
FreezeType ==
    /\ root \in {"preflight", "final"} /\ inputs \in Freeze!Intents
    /\ claim \in [st : {"none", "empty", "torn", "intent"}, intent : [Parts -> 0..MaxVersion]]
    /\ freezer \in [Freezers -> FreezerStates]

\* Who opened the intent exclusively is the only one to write it.
OneWriter ==
    \A f \in Freezers : freezer[f].pc = "durable" =>
        claim.st = "torn" /\ \A g \in Freezers : freezer[g].pc = "durable" => g = f
\* Under the final root nothing changes any more, so what was read there is there.
ReadsFinal ==
    \A f \in Freezers :
        /\ freezer[f].at = "final" => root = "final"
        /\ freezer[f].pc \in {"reopen", "verify"} =>
              freezer[f].at = "final" /\ \A part \in Parts : freezer[f].seen[part] \in {0, inputs[part]}
FreezeInv == FreezeType /\ OneWriter /\ ReadsFinal /\ Freeze!OneFrozenCandidate

(* No candidate is frozen at first.                                        *)
LEMMA FreezeInit == Freeze!Init => FreezeInv
<1> SUFFICES ASSUME Freeze!Init PROVE FreezeInv
  OBVIOUS
<1> USE PipelineAssumption
<1>1. Freeze!Idle \in FreezerStates /\ Freeze!Unread \in [Parts -> 0..MaxVersion]
  BY DEF Freeze!Idle, Freeze!Unread, FreezerStates, Freeze!Labels
<1>2. FreezeType
  BY <1>1 DEF FreezeType, Freeze!Init, Freeze!Intents, Freeze!Versions, Freeze!NoClaim
<1>3. OneWriter /\ ReadsFinal
  BY DEF OneWriter, ReadsFinal, Freeze!Init, Freeze!Idle
<1> QED
  BY <1>2, <1>3 DEF FreezeInv, Freeze!OneFrozenCandidate, Freeze!Init

(* An invocation that only goes on keeps the invariant, when it does not   *)
(* write the intent and reads under the final root what is there.          *)
LEMMA FreezerGoesOn ==
    ASSUME FreezeInv, NEW f \in Freezers, NEW r \in FreezerStates, freezer' = [freezer EXCEPT ![f] = r],
           UNCHANGED <<root, inputs, claim, receipts>>, r.pc # "durable", r.at = "final" => root = "final",
           r.pc \in {"reopen", "verify"} =>
              r.at = "final" /\ \A part \in Parts : r.seen[part] \in {0, inputs[part]}
    PROVE  FreezeInv'
<1>1. freezer' \in [Freezers -> FreezerStates] /\ freezer'[f] = r /\ \A g \in Freezers : g # f => freezer'[g] = freezer[g]
  BY DEF FreezeInv, FreezeType
<1>2. FreezeType'
  BY <1>1 DEF FreezeInv, FreezeType
<1>3. OneWriter'
  BY <1>1 DEF FreezeInv, OneWriter
<1>4. ReadsFinal'
  BY <1>1 DEF FreezeInv, ReadsFinal
<1>5. Freeze!OneFrozenCandidate'
  BY DEF FreezeInv, Freeze!OneFrozenCandidate, Freeze!IntentLoads
<1> QED
  BY <1>2, <1>3, <1>4, <1>5 DEF FreezeInv

(* Ending an invocation, by a refusal or a crash.                          *)
LEMMA FreezerLeaves ==
    ASSUME FreezeInv, NEW f \in Freezers, Freeze!Leave(f), UNCHANGED <<root, inputs, claim, receipts>>
    PROVE  FreezeInv'
<1>1. Freeze!Idle \in FreezerStates /\ Freeze!Idle.pc = "idle" /\ Freeze!Idle.at = "preflight"
  BY PipelineAssumption DEF Freeze!Idle, Freeze!Unread, FreezerStates, Freeze!Labels
<1> QED
  BY <1>1, FreezerGoesOn DEF Freeze!Leave

(* Each step of an invocation that reads keeps the invariant.              *)
LEMMA ReadingFreezes ==
    ASSUME FreezeInv, NEW f \in Freezers,
           \/ Freeze!BeginFreeze(f) \/ Freeze!ReadPart(f) \/ Freeze!LiveReadiness(f) \/ Freeze!Unchanged(f)
           \/ Freeze!BeginRecover(f) \/ Freeze!RecoverAtFinal(f) \/ Freeze!BeginVerify(f)
    PROVE  FreezeInv'
<1> USE PipelineAssumption
<1> DEFINE me == freezer[f]
           zero == Freeze!Unread
<1>0. /\ me \in FreezerStates /\ freezer \in [Freezers -> FreezerStates]
      /\ zero \in [Parts -> 0..MaxVersion] /\ (\A part \in Parts : zero[part] = 0)
      /\ Freeze!Idle \in FreezerStates
      /\ claim.intent \in [Parts -> 0..MaxVersion] /\ root \in {"preflight", "final"}
      /\ inputs \in [Parts -> 1..MaxVersion]
  BY DEF FreezeInv, FreezeType, Freeze!Unread, Freeze!Idle, FreezerStates, Freeze!Labels, Freeze!Intents, Freeze!Versions
<1>r. /\ me.at = "final" => root = "final"
      /\ me.pc \in {"reopen", "verify"} =>
              me.at = "final" /\ \A part \in Parts : me.seen[part] \in {0, inputs[part]}
  BY DEF FreezeInv, ReadsFinal
<1>1. CASE Freeze!BeginFreeze(f)
  <2> DEFINE r == [Freeze!Idle EXCEPT !.pc = "read"]
  <2>1. r \in FreezerStates /\ r.pc = "read" /\ r.at = "preflight"
    BY <1>0 DEF FreezerStates, Freeze!Labels, Freeze!Idle
  <2> QED
    BY <1>1, <2>1, FreezerGoesOn DEF Freeze!BeginFreeze
<1>2. CASE Freeze!ReadPart(f)
  <2>1. PICK part \in Parts : freezer' = [freezer EXCEPT ![f].seen[part] = Freeze!Digest(part)]
    BY <1>2 DEF Freeze!ReadPart
  <2> DEFINE r == [me EXCEPT !.seen[part] = inputs[part]]
  <2>a. inputs[part] \in 0..MaxVersion /\ me.seen \in [Parts -> 0..MaxVersion]
    BY <1>0 DEF FreezerStates
  <2>b. [me.seen EXCEPT ![part] = inputs[part]] \in [Parts -> 0..MaxVersion]
    BY <2>a
  <2>2. /\ r \in FreezerStates /\ r.pc = me.pc /\ r.at = me.at
        /\ \A q \in Parts : r.seen[q] = IF q = part THEN inputs[part] ELSE me.seen[q]
    <3> HIDE DEF me
    <3> QED
      BY <1>0, <2>a, <2>b DEF FreezerStates
  <2>3. freezer' = [freezer EXCEPT ![f] = r]
    BY <1>0, <2>1 DEF Freeze!Digest
  <2>4. me.pc # "durable" /\ UNCHANGED <<root, inputs, claim, receipts>>
    BY <1>2 DEF Freeze!ReadPart, Freeze!ReadLabels
  <2> HIDE DEF r, me
  <2>5. r.pc \in {"reopen", "verify"} =>
           r.at = "final" /\ \A q \in Parts : r.seen[q] \in {0, inputs[q]}
    BY <1>r, <2>2
  <2> QED
    BY <1>r, <2>2, <2>3, <2>4, <2>5, FreezerGoesOn
<1>3. CASE Freeze!LiveReadiness(f)
  <2> DEFINE r == [me EXCEPT !.pc = "claim", !.expected = me.seen, !.seen = zero]
  <2>1. r \in FreezerStates /\ r.pc = "claim" /\ r.at = me.at
    BY <1>0 DEF FreezerStates, Freeze!Labels
  <2>2. freezer' = [freezer EXCEPT ![f] = r] /\ UNCHANGED <<root, inputs, claim, receipts>>
    BY <1>0, <1>3 DEF Freeze!LiveReadiness
  <2> QED
    BY <1>r, <2>1, <2>2, FreezerGoesOn
<1>4. CASE Freeze!Unchanged(f) \/ Freeze!RecoverAtFinal(f)
  <2>1. PICK label \in {"rename", "reopen"} :
           /\ freezer' = [freezer EXCEPT ![f].pc = label, ![f].seen = zero]
           /\ UNCHANGED <<root, inputs, claim, receipts>>
           /\ label = "reopen" => me.at = "final"
    BY <1>4 DEF Freeze!Unchanged, Freeze!RecoverAtFinal, Freeze!Goto
  <2> DEFINE r == [me EXCEPT !.pc = label, !.seen = zero]
  <2>2. r \in FreezerStates /\ r.pc = label /\ r.at = me.at /\ r.seen = zero
    BY <1>0 DEF FreezerStates, Freeze!Labels
  <2>3. freezer' = [freezer EXCEPT ![f] = r]
    BY <1>0, <2>1
  <2>4. r.pc \in {"reopen", "verify"} =>
           r.at = "final" /\ \A q \in Parts : r.seen[q] \in {0, inputs[q]}
    <3> HIDE DEF r, zero, me
    <3> QED
      BY <1>0, <2>1, <2>2
  <2>5. r.pc # "durable" /\ (r.at = "final" => root = "final")
    <3> HIDE DEF r, zero, me
    <3> QED
      BY <1>r, <2>1, <2>2
  <2> HIDE DEF r, zero
  <2> QED
    BY <2>1, <2>2, <2>3, <2>4, <2>5, FreezerGoesOn
<1>5. CASE Freeze!BeginRecover(f)
  <2> DEFINE r == [Freeze!Idle EXCEPT !.pc = "again", !.cmd = "recover", !.at = root, !.expected = claim.intent]
  <2>1. r \in FreezerStates /\ r.pc = "again" /\ r.at = root
    BY <1>0 DEF FreezerStates, Freeze!Labels, Freeze!Idle
  <2> QED
    BY <1>5, <2>1, FreezerGoesOn DEF Freeze!BeginRecover
<1>6. CASE Freeze!BeginVerify(f)
  <2> DEFINE r == [Freeze!Idle EXCEPT !.pc = "verify", !.cmd = "verify", !.at = "final", !.expected = claim.intent]
  <2>1. r \in FreezerStates /\ r.pc = "verify" /\ r.at = "final" /\ r.seen = zero
    BY <1>0 DEF FreezerStates, Freeze!Labels, Freeze!Idle
  <2>2. freezer' = [freezer EXCEPT ![f] = r] /\ UNCHANGED <<root, inputs, claim, receipts>> /\ root = "final"
    BY <1>6 DEF Freeze!BeginVerify
  <2> HIDE DEF r, zero
  <2> QED
    BY <1>0, <2>1, <2>2, FreezerGoesOn
<1> QED
  BY <1>1, <1>2, <1>3, <1>4, <1>5, <1>6

(* Writing the claim: the directory, the intent's exclusive creation and    *)
(* its bytes.  Nothing was reported yet, or the claim stays as it is.       *)
LEMMA ClaimingFreezes ==
    ASSUME FreezeInv, NEW f \in Freezers,
           Freeze!EnsureClaimDirectory(f) \/ Freeze!OpenIntent(f) \/ Freeze!WriteIntent(f)
    PROVE  FreezeInv'
<1> USE PipelineAssumption
<1> DEFINE me == freezer[f]
           zero == Freeze!Unread
<1>0. /\ me \in FreezerStates /\ freezer \in [Freezers -> FreezerStates]
      /\ zero \in [Parts -> 0..MaxVersion]
      /\ claim \in [st : {"none", "empty", "torn", "intent"}, intent : [Parts -> 0..MaxVersion]]
      /\ me.expected \in [Parts -> 0..MaxVersion]
  BY DEF FreezeInv, FreezeType, Freeze!Unread, FreezerStates
<1>1. PICK label \in {"write", "durable", "again"} :
         /\ freezer' = [freezer EXCEPT ![f].pc = label, ![f].seen = zero]
         /\ UNCHANGED <<root, inputs, receipts>>
         /\ label = "durable" => claim.st = "empty" /\ claim'.st = "torn"
         /\ label = "again" => me.pc = "durable"
         /\ label = "write" => claim' = claim \/ claim.st = "none"
         /\ claim' \in [st : {"none", "empty", "torn", "intent"}, intent : [Parts -> 0..MaxVersion]]
  <2>1. CASE Freeze!EnsureClaimDirectory(f)
    BY <1>0, <2>1 DEF Freeze!EnsureClaimDirectory, Freeze!Goto
  <2>2. CASE Freeze!OpenIntent(f)
    BY <1>0, <2>2 DEF Freeze!OpenIntent, Freeze!Goto, Freeze!At
  <2>3. CASE Freeze!WriteIntent(f)
    BY <1>0, <2>3 DEF Freeze!WriteIntent, Freeze!Goto, Freeze!At
  <2> QED
    BY <2>1, <2>2, <2>3
<1> DEFINE r == [me EXCEPT !.pc = label, !.seen = zero]
<1>2. r \in FreezerStates /\ r.pc = label /\ r.at = me.at
  BY <1>0 DEF FreezerStates, Freeze!Labels
<1>3. freezer' = [freezer EXCEPT ![f] = r]
  BY <1>0, <1>1
<1> HIDE DEF r, zero
<1>4. freezer' \in [Freezers -> FreezerStates] /\ freezer'[f] = r /\ \A g \in Freezers : g # f => freezer'[g] = freezer[g]
  BY <1>0, <1>2, <1>3
<1>5. FreezeType'
  BY <1>1, <1>4 DEF FreezeInv, FreezeType
<1>6. OneWriter'
  <2>1. CASE label = "write"
    BY <1>1, <1>2, <1>4, <2>1 DEF FreezeInv, OneWriter
  <2>2. CASE label = "durable"
    BY <1>1, <1>2, <1>4, <2>2 DEF FreezeInv, OneWriter
  <2>3. CASE label = "again"
    BY <1>1, <1>2, <1>4, <2>3 DEF FreezeInv, OneWriter
  <2> QED
    BY <1>1, <2>1, <2>2, <2>3
<1>7. ReadsFinal'
  BY <1>1, <1>2, <1>4 DEF FreezeInv, ReadsFinal
<1>8. Freeze!OneFrozenCandidate'
  <2>1. claim' = claim \/ claim.st # "intent"
    BY <1>1 DEF FreezeInv, OneWriter
  <2> QED
    BY <1>1, <2>1 DEF FreezeInv, Freeze!OneFrozenCandidate, Freeze!IntentLoads
<1> QED
  BY <1>5, <1>6, <1>7, <1>8 DEF FreezeInv

(* The exclusive rename to the final root: no invocation had read there     *)
(* before, and none has reported the candidate.                             *)
LEMMA PromotingFreezes ==
    ASSUME FreezeInv, NEW f \in Freezers, Freeze!Promote(f)
    PROVE  FreezeInv'
<1> USE PipelineAssumption
<1> DEFINE me == freezer[f]
           zero == Freeze!Unread
           r == [me EXCEPT !.pc = "reopen", !.at = "final", !.seen = zero]
<1>0. /\ me \in FreezerStates /\ freezer \in [Freezers -> FreezerStates]
      /\ zero \in [Parts -> 0..MaxVersion] /\ \A part \in Parts : zero[part] = 0
  BY DEF FreezeInv, FreezeType, Freeze!Unread, FreezerStates
<1>1. /\ freezer' = [freezer EXCEPT ![f].pc = "reopen", ![f].at = "final", ![f].seen = zero]
      /\ root = "preflight" /\ root' = "final" /\ UNCHANGED <<inputs, claim, receipts>>
  BY DEF Freeze!Promote
<1>2. r \in FreezerStates /\ r.pc = "reopen" /\ r.at = "final" /\ r.seen = zero
  BY <1>0 DEF FreezerStates, Freeze!Labels
<1>3. freezer' = [freezer EXCEPT ![f] = r]
  BY <1>0, <1>1
<1> HIDE DEF r, zero
<1>4. freezer' \in [Freezers -> FreezerStates] /\ freezer'[f] = r /\ \A g \in Freezers : g # f => freezer'[g] = freezer[g]
  BY <1>0, <1>2, <1>3
<1>5. FreezeType'
  BY <1>1, <1>4 DEF FreezeInv, FreezeType
<1>6. OneWriter'
  BY <1>1, <1>2, <1>4 DEF FreezeInv, OneWriter
<1>7. ReadsFinal'
  BY <1>0, <1>1, <1>2, <1>4 DEF FreezeInv, ReadsFinal
<1>8. Freeze!OneFrozenCandidate'
  BY <1>1 DEF FreezeInv, Freeze!OneFrozenCandidate, Freeze!IntentLoads
<1> QED
  BY <1>5, <1>6, <1>7, <1>8 DEF FreezeInv

(* Reporting: what was read again under the final root is the intent.       *)
LEMMA ReportingFreezes ==
    ASSUME FreezeInv, NEW f \in Freezers, Freeze!Returns(f)
    PROVE  FreezeInv'
<1> USE PipelineAssumption
<1>1. /\ freezer' = [freezer EXCEPT ![f] = Freeze!Idle]
      /\ freezer[f].pc \in {"reopen", "verify"} /\ (\A part \in Parts : freezer[f].seen[part] # 0)
      /\ claim.st = "intent" /\ freezer[f].seen = claim.intent
      /\ receipts' = receipts \cup {claim.intent} /\ UNCHANGED <<root, inputs, claim>>
  BY DEF Freeze!Returns, Freeze!Leave, Freeze!AllRead, Freeze!IntentLoads
<1>2. Freeze!Idle \in FreezerStates /\ Freeze!Idle.pc = "idle" /\ Freeze!Idle.at = "preflight"
  BY DEF Freeze!Idle, Freeze!Unread, FreezerStates, Freeze!Labels
<1>3. /\ freezer' \in [Freezers -> FreezerStates] /\ freezer'[f] = Freeze!Idle
      /\ \A g \in Freezers : g # f => freezer'[g] = freezer[g]
  BY <1>1, <1>2 DEF FreezeInv, FreezeType
<1>4. root = "final" /\ \A part \in Parts : freezer[f].seen[part] = inputs[part]
  BY <1>1 DEF FreezeInv, ReadsFinal
<1>5. freezer[f].seen \in [Parts -> 0..MaxVersion] /\ inputs \in [Parts -> 1..MaxVersion]
  BY DEF FreezeInv, FreezeType, FreezerStates, Freeze!Intents, Freeze!Versions
<1>6. claim.intent = inputs
  BY <1>1, <1>4, <1>5
<1>7. FreezeType' /\ OneWriter' /\ ReadsFinal'
  BY <1>1, <1>2, <1>3 DEF FreezeInv, FreezeType, OneWriter, ReadsFinal
<1>8. Freeze!OneFrozenCandidate'
  BY <1>1, <1>4, <1>6 DEF FreezeInv, Freeze!OneFrozenCandidate, Freeze!IntentLoads
<1> QED
  BY <1>7, <1>8 DEF FreezeInv

(* A build writes only under the preflight root, where nobody reopens.      *)
LEMMA BuildingFreezes ==
    ASSUME FreezeInv, Freeze!BuildWrites
    PROVE  FreezeInv'
<1>1. PICK part \in Parts, v \in Freeze!Versions :
         /\ root = "preflight" /\ inputs' = [inputs EXCEPT ![part] = v]
         /\ UNCHANGED <<root, claim, freezer, receipts>>
  BY DEF Freeze!BuildWrites
<1>2. inputs' \in Freeze!Intents
  BY <1>1 DEF FreezeInv, FreezeType, Freeze!Intents
<1>3. FreezeType' /\ OneWriter'
  BY <1>1, <1>2 DEF FreezeInv, FreezeType, OneWriter
<1>4. ReadsFinal'
  BY <1>1 DEF FreezeInv, ReadsFinal
<1>5. Freeze!OneFrozenCandidate'
  BY <1>1 DEF FreezeInv, Freeze!OneFrozenCandidate
<1> QED
  BY <1>3, <1>4, <1>5 DEF FreezeInv

(* Every step of candidate_freeze.py and of the build keeps the invariant. *)
LEMMA FreezeNext == FreezeInv /\ Freeze!Next => FreezeInv'
<1> SUFFICES ASSUME FreezeInv, Freeze!Next PROVE FreezeInv'
  OBVIOUS
<1>1. CASE Freeze!BuildWrites
  BY <1>1, BuildingFreezes
<1>2. ASSUME NEW f \in Freezers, Freeze!FreezeStep(f) \/ Freeze!ReopenStep(f)
      PROVE  FreezeInv'
  <2>1. CASE \/ Freeze!BeginFreeze(f) \/ Freeze!ReadPart(f) \/ Freeze!LiveReadiness(f) \/ Freeze!Unchanged(f)
             \/ Freeze!BeginRecover(f) \/ Freeze!RecoverAtFinal(f) \/ Freeze!BeginVerify(f)
    BY <2>1, ReadingFreezes
  <2>2. CASE Freeze!EnsureClaimDirectory(f) \/ Freeze!OpenIntent(f) \/ Freeze!WriteIntent(f)
    BY <2>2, ClaimingFreezes
  <2>3. CASE Freeze!Promote(f)
    BY <2>3, PromotingFreezes
  <2>4. CASE Freeze!Returns(f)
    BY <2>4, ReportingFreezes
  <2>5. CASE \/ Freeze!AlreadyConsumed(f) \/ Freeze!PreflightGone(f) \/ Freeze!Quarantined(f)
             \/ Freeze!ReopenQuarantined(f) \/ Freeze!PartRefused(f) \/ Freeze!Crash(f)
    <3>1. Freeze!Leave(f) /\ UNCHANGED <<root, inputs, claim, receipts>>
      BY <2>5 DEF Freeze!AlreadyConsumed, Freeze!PreflightGone, Freeze!Quarantined, Freeze!ReopenQuarantined,
           Freeze!PartRefused, Freeze!Crash, Freeze!Refuse
    <3> QED
      BY <3>1, FreezerLeaves
  <2> QED
    BY <1>2, <2>1, <2>2, <2>3, <2>4, <2>5 DEF Freeze!FreezeStep, Freeze!ReopenStep
<1> QED
  BY <1>1, <1>2 DEF Freeze!Next

(* Nothing but the freeze writes what is frozen.                            *)
LEMMA FreezeKept == FreezeInv /\ UNCHANGED freezeVars => FreezeInv'
  BY DEF freezeVars, FreezeInv, FreezeType, OneWriter, ReadsFinal, Freeze!OneFrozenCandidate, Freeze!IntentLoads

(* The freeze's invariant, in every release.                                *)
LEMMA FreezeSafe == ReleaseSpec => []FreezeInv
<1>1. DriverInit => FreezeInv
  BY FreezeInit DEF DriverInit, Init
<1>2. FreezeInv /\ [ReleaseNext]_releaseVars => FreezeInv'
  <2> SUFFICES ASSUME FreezeInv, [ReleaseNext]_releaseVars PROVE FreezeInv'
    OBVIOUS
  <2>1. CASE FreezeStage
    BY <2>1, FreezeNext DEF FreezeStage
  <2>2. CASE UNCHANGED freezeVars
    BY <2>2, FreezeKept
  <2>3. FreezeStage \/ UNCHANGED freezeVars
    BY PipelineStep DEF SignStage, DmgStage, releaseVars, pipelineVars
  <2> QED
    BY <2>1, <2>2, <2>3
<1> QED
  BY <1>1, <1>2, PTL DEF ReleaseSpec

(* Whichever freezers, recoveries and build writes race, every invocation   *)
(* that reports the candidate frozen reports one set of inputs, and they    *)
(* are the ones under the final root (candidate_freeze.py reads them again  *)
(* after the claim and after the rename).                                   *)
THEOREM FrozenCandidateIsOne == ReleaseSpec => []OneFrozenCandidate
<1>1. FreezeInv => OneFrozenCandidate
  BY DEF FreezeInv, OneFrozenCandidate
<1> QED
  BY <1>1, FreezeSafe, PTL

(* A build number is consumed once: whatever runs after it, an intent that  *)
(* was written whole is never replaced or withdrawn (_create_intent opens   *)
(* it exclusively, and only who opened it writes it).                       *)
THEOREM ClaimsArePermanent == ReleaseSpec => ClaimIsPermanent
<1>1. ASSUME FreezeInv, Freeze!Next, claim.st = "intent" PROVE claim' = claim
  <2>1. CASE Freeze!BuildWrites
    BY <2>1, SMTT(30) DEF Freeze!BuildWrites
  <2>2. ASSUME NEW f \in Freezers, Freeze!FreezeStep(f) PROVE claim' = claim
    BY <1>1, <2>2, SMTT(30) DEF Freeze!FreezeStep, Freeze!BeginFreeze, Freeze!ReadPart, Freeze!PartRefused, Freeze!LiveReadiness,
         Freeze!EnsureClaimDirectory, Freeze!OpenIntent, Freeze!WriteIntent, Freeze!AlreadyConsumed,
         Freeze!PreflightGone, Freeze!Unchanged, Freeze!Quarantined, Freeze!Promote, Freeze!Refuse, Freeze!At,
         FreezeInv, OneWriter
  <2>3. ASSUME NEW f \in Freezers, Freeze!ReopenStep(f) PROVE claim' = claim
    BY <2>3 DEF Freeze!ReopenStep, Freeze!BeginRecover, Freeze!RecoverAtFinal, Freeze!BeginVerify,
         Freeze!Returns, Freeze!ReopenQuarantined, Freeze!Crash, Freeze!Refuse
  <2> QED
    BY <1>1, <2>1, <2>2, <2>3 DEF Freeze!Next
<1>2. ASSUME FreezeInv, [ReleaseNext]_releaseVars
      PROVE  [claim.st = "intent" => claim' = claim]_(Freeze!fvars)
  <2>1. FreezeStage \/ UNCHANGED freezeVars
    BY <1>2, PipelineStep DEF SignStage, DmgStage, releaseVars, pipelineVars
  <2> QED
    BY <1>1, <1>2, <2>1 DEF FreezeStage, freezeVars
<1> QED
  BY <1>2, FreezeSafe, PTL DEF ReleaseSpec, ClaimIsPermanent, Freeze!ClaimIsPermanent

-----------------------------------------------------------------------------
(* Submitting the DMG.                                                     *)

Ids == {Mine, Other, NoId, Dmg!Torn}
Sets == [copy : Nat, gatekeeper : Nat]
DmgType ==
    /\ dmg \in [staged : BOOLEAN, attempt : BOOLEAN] /\ uploads \in Nat
    /\ run \in [pc : Dmg!Labels, id : {Mine, Other, NoId}, recovery : BOOLEAN]
    /\ docs \in [observation : Ids, receipt : Ids, log : {"none", "ok", Dmg!Torn}, gatekeeper : Nat]
    /\ copies \in [made : Nat, pending : Nat, set : Sets] /\ final \in Sets
\* Whoever may still upload owns an attempt that has not; an upload has an attempt.
UploadOwed ==
    /\ run.pc \in {"submit", "reply"} => uploads = 0 /\ dmg.attempt
    /\ uploads # 0 => uploads = 1 /\ dmg.attempt
\* The evidence at hand targets the copy at hand, until both are in a set.
EvidenceTargets ==
    /\ run.pc \in {"assessed", "verify", "set"} => docs.gatekeeper = copies.pending
    /\ copies.set.gatekeeper = copies.set.copy /\ final.gatekeeper = final.copy
DmgInv == DmgType /\ UploadOwed /\ EvidenceTargets

(* Nothing is staged, uploaded or published at first.                       *)
LEMMA DmgInit == Dmg!Init => DmgInv
  BY DEF Dmg!Init, Dmg!NoDocs, Dmg!NoCopies, Dmg!NoSet, Dmg!Idle, Dmg!Labels, DmgInv, DmgType, Ids, Sets,
       UploadOwed, EvidenceTargets

(* What the invocation does next, when it only writes an event.             *)
LEMMA NotingDmg ==
    ASSUME DmgInv, NEW from \in Dmg!Labels, NEW st, NEW label \in Dmg!Labels, Dmg!Note(from, st, label),
           label \in {"submit", "reply"} => from = "submit",
           label \in {"assessed", "verify", "set"} => from \in {"assessed", "verify"}
    PROVE  DmgInv'
<1>1. /\ run' = [run EXCEPT !.pc = label] /\ run.pc = from
      /\ UNCHANGED <<dmg, docs, copies, final, uploads>>
  BY DEF Dmg!Note, Dmg!Goto, Dmg!JournalOnly
<1>2. run' \in [pc : Dmg!Labels, id : {Mine, Other, NoId}, recovery : BOOLEAN] /\ run'.pc = label
  BY <1>1 DEF DmgInv, DmgType
<1> QED
  BY <1>1, <1>2 DEF DmgInv, DmgType, UploadOwed, EvidenceTargets

(* Ending an invocation, with its documents as they are.                    *)
LEMMA LeavingDmg ==
    ASSUME DmgInv, Dmg!Leave, UNCHANGED <<dmg, copies, final>>, uploads' = uploads \/
             (run.pc = "reply" /\ uploads' = uploads + 1),
           docs' \in [observation : Ids, receipt : Ids, log : {"none", "ok", Dmg!Torn}, gatekeeper : Nat]
    PROVE  DmgInv'
<1>1. run' = Dmg!Idle /\ Dmg!Idle.pc = "idle"
      /\ Dmg!Idle \in [pc : Dmg!Labels, id : {Mine, Other, NoId}, recovery : BOOLEAN]
  BY DEF Dmg!Leave, Dmg!Idle, Dmg!Labels
<1>2. DmgType'
  BY <1>1 DEF DmgInv, DmgType
<1>3. UploadOwed'
  BY <1>1 DEF DmgInv, DmgType, UploadOwed
<1>4. EvidenceTargets'
  BY <1>1 DEF DmgInv, EvidenceTargets
<1> QED
  BY <1>2, <1>3, <1>4 DEF DmgInv

(* Entering, submitting and waiting.                                        *)
LEMMA SubmissionDmg == DmgInv /\ Dmg!Submission => DmgInv'
<1> SUFFICES ASSUME DmgInv, Dmg!Submission PROVE DmgInv'
  OBVIOUS
<1>1. CASE Dmg!Stage \/ Dmg!Execute \/ Dmg!ExecuteRefused
  <2>1. /\ dmg' \in [staged : BOOLEAN, attempt : BOOLEAN] /\ dmg'.attempt = dmg.attempt
        /\ UNCHANGED <<docs, copies, final, uploads>>
    BY <1>1 DEF Dmg!Stage, Dmg!Execute, Dmg!ExecuteRefused, Dmg!dvars, DmgInv, DmgType
  <2>2. run' = run \/ run' = [Dmg!Idle EXCEPT !.pc = "enter"]
    BY <1>1 DEF Dmg!Stage, Dmg!Execute, Dmg!ExecuteRefused, Dmg!dvars
  <2>3. CASE run' = run
    BY <2>1, <2>3 DEF DmgInv, DmgType, UploadOwed, EvidenceTargets
  <2>4. CASE run' = [Dmg!Idle EXCEPT !.pc = "enter"]
    <3>1. run' \in [pc : Dmg!Labels, id : {Mine, Other, NoId}, recovery : BOOLEAN] /\ run'.pc = "enter"
      BY <2>4 DEF Dmg!Idle, Dmg!Labels
    <3> QED
      BY <2>1, <3>1 DEF DmgInv, DmgType, UploadOwed, EvidenceTargets
  <2> QED
    BY <2>2, <2>3, <2>4
<1>2. CASE Dmg!RestoreUnsubmitted
  <2>1. run' = Dmg!Idle /\ Dmg!Idle.pc = "idle"
        /\ Dmg!Idle \in [pc : Dmg!Labels, id : {Mine, Other, NoId}, recovery : BOOLEAN]
    BY <1>2 DEF Dmg!RestoreUnsubmitted, Dmg!Leave, Dmg!Idle, Dmg!Labels
  <2> QED
    BY <1>2, <2>1 DEF Dmg!RestoreUnsubmitted, DmgInv, DmgType, UploadOwed, EvidenceTargets
<1>6. CASE Dmg!PrepareAttempt
  <2>1. /\ run' = [run EXCEPT !.pc = "submit"] /\ dmg' = [dmg EXCEPT !.attempt = TRUE]
        /\ ~dmg.attempt /\ UNCHANGED <<docs, copies, final, uploads>>
    BY <1>6 DEF Dmg!PrepareAttempt, Dmg!Unattempted, Dmg!Goto
  <2>2. DmgType'
    BY <2>1 DEF DmgInv, DmgType, Dmg!Labels
  <2> QED
    BY <2>1, <2>2 DEF DmgInv, DmgType, UploadOwed, EvidenceTargets
<1>3. CASE Dmg!SubmitRefused \/ Dmg!SubmitUnknown \/ Dmg!WaitRejected
  <2>1. /\ Dmg!Leave /\ UNCHANGED <<dmg, copies, final, docs>>
        /\ uploads' = uploads \/ (run.pc = "reply" /\ uploads' = uploads + 1)
    BY <1>3 DEF Dmg!SubmitRefused, Dmg!SubmitUnknown, Dmg!WaitRejected, Dmg!Defer, Dmg!JournalOnly
  <2> QED
    BY <2>1, LeavingDmg DEF DmgInv, DmgType
<1>4. CASE Dmg!RecordSubmitting \/ Dmg!RecordObserved \/ Dmg!RecordWaiting \/ Dmg!WaitAccepted
  BY <1>4, NotingDmg DEF Dmg!RecordSubmitting, Dmg!RecordObserved, Dmg!RecordWaiting, Dmg!WaitAccepted, Dmg!Labels
<1>5. CASE Dmg!Submit
  <2>1. /\ run.pc = "reply" /\ uploads' = uploads + 1 /\ docs' = [docs EXCEPT !.observation = Mine]
        /\ run' = [run EXCEPT !.pc = "receipt", !.id = Mine] /\ UNCHANGED <<dmg, copies, final>>
    BY <1>5 DEF Dmg!Submit
  <2>a. uploads' \in Nat
    BY <2>1 DEF DmgInv, DmgType
  <2>b. docs' \in [observation : Ids, receipt : Ids, log : {"none", "ok", Dmg!Torn}, gatekeeper : Nat]
    BY <2>1 DEF DmgInv, DmgType, Ids
  <2>c. run' \in [pc : Dmg!Labels, id : {Mine, Other, NoId}, recovery : BOOLEAN]
    BY <2>1 DEF DmgInv, DmgType, Dmg!Labels
  <2>2. DmgType'
    BY <2>1, <2>a, <2>b, <2>c DEF DmgInv, DmgType
  <2>3. run'.pc = "receipt"
    BY <2>1 DEF DmgInv, DmgType
  <2> QED
    BY <2>1, <2>2, <2>3 DEF DmgInv, DmgType, UploadOwed, EvidenceTargets
<1>7. CASE Dmg!PersistReceipt
  BY <1>7 DEF Dmg!PersistReceipt, Dmg!Goto, Dmg!Labels, DmgInv, DmgType, Ids, UploadOwed, EvidenceTargets
<1> QED
  BY <1>1, <1>2, <1>3, <1>4, <1>5, <1>6, <1>7 DEF Dmg!Submission

(* Recovering never enters the submission.                                  *)
LEMMA RecoveryDmg == DmgInv /\ Dmg!Recovery => DmgInv'
<1> SUFFICES ASSUME DmgInv, Dmg!Recovery PROVE DmgInv'
  OBVIOUS
<1>1. CASE Dmg!Recover
  BY <1>1 DEF Dmg!Recover, Dmg!Labels, DmgInv, DmgType, UploadOwed, EvidenceTargets
<1>2. CASE Dmg!Reset
  BY <1>2 DEF Dmg!Reset, Dmg!NoSet, Dmg!Labels, Sets, DmgInv, DmgType, UploadOwed, EvidenceTargets
<1>3. CASE Dmg!RecordRecovering \/ Dmg!RecordAccepted
  BY <1>3, NotingDmg DEF Dmg!RecordRecovering, Dmg!RecordAccepted, Dmg!Labels
<1>4. CASE Dmg!BindReceipt \/ Dmg!KeepReceipt
  BY <1>4 DEF Dmg!BindReceipt, Dmg!KeepReceipt, Dmg!RecoveryAccepted, Dmg!Goto, Dmg!Labels,
       DmgInv, DmgType, Ids, UploadOwed, EvidenceTargets
<1>5. CASE Dmg!RecoveryRejected \/ Dmg!RecoveryDeferred
  BY <1>5, LeavingDmg DEF Dmg!RecoveryRejected, Dmg!RecoveryDeferred, Dmg!Defer, Dmg!JournalOnly, DmgInv, DmgType
<1> QED
  BY <1>1, <1>2, <1>3, <1>4, <1>5 DEF Dmg!Recovery

(* Finalizing: a copy, evidence about it, and the set of both.              *)
LEMMA FinalizationDmg == DmgInv /\ Dmg!Finalization => DmgInv'
<1> SUFFICES ASSUME DmgInv, Dmg!Finalization PROVE DmgInv'
  OBVIOUS
<1>1. CASE Dmg!FetchLog \/ Dmg!Gatekeeper
  BY <1>1 DEF Dmg!FetchLog, Dmg!Gatekeeper, Dmg!Goto, Dmg!Labels, DmgInv, DmgType, UploadOwed, EvidenceTargets
<1>2. CASE \/ Dmg!RecordLogVerified \/ Dmg!RecordStapling \/ Dmg!RecordStapled \/ Dmg!RecordGatekeeper
           \/ Dmg!RecordArtifact \/ Dmg!RecordSealed
  BY <1>2, NotingDmg DEF Dmg!RecordLogVerified, Dmg!RecordStapling, Dmg!RecordStapled, Dmg!RecordGatekeeper,
       Dmg!RecordArtifact, Dmg!RecordSealed, Dmg!Labels
<1>3. CASE Dmg!StapleCopy
  <2>1. /\ run' = [run EXCEPT !.pc = "stapling"] /\ UNCHANGED <<dmg, docs, final, uploads>>
        /\ copies' = [copies EXCEPT !.made = copies.made + 1, !.pending = copies.made + 1]
    BY <1>3 DEF Dmg!StapleCopy, Dmg!Goto
  <2> DEFINE n == copies.made + 1
  <2>a. n \in Nat
    BY DEF DmgInv, DmgType
  <2>b. copies' = [copies EXCEPT !.made = n, !.pending = n]
    BY <2>1
  <2> HIDE DEF n
  <2>2. run' \in [pc : Dmg!Labels, id : {Mine, Other, NoId}, recovery : BOOLEAN] /\ run'.pc = "stapling"
    BY <2>1 DEF DmgInv, DmgType, Dmg!Labels
  <2>3. copies' \in [made : Nat, pending : Nat, set : Sets] /\ copies'.set = copies.set
    BY <2>a, <2>b DEF DmgInv, DmgType
  <2> QED
    BY <2>1, <2>2, <2>3 DEF DmgInv, DmgType, UploadOwed, EvidenceTargets
<1>4. CASE Dmg!BuildSet
  BY <1>4 DEF Dmg!BuildSet, Dmg!Goto, Dmg!Labels, Sets, DmgInv, DmgType, UploadOwed, EvidenceTargets
<1>5. CASE Dmg!PublishSet
  BY <1>5 DEF Dmg!PublishSet, Dmg!NoSet, Dmg!Goto, Dmg!Labels, Sets, DmgInv, DmgType, UploadOwed, EvidenceTargets
<1>6. CASE Dmg!ConfirmPublished
  BY <1>6, LeavingDmg DEF Dmg!ConfirmPublished, Dmg!JournalOnly, DmgInv, DmgType
<1> QED
  BY <1>1, <1>2, <1>3, <1>4, <1>5, <1>6 DEF Dmg!Finalization

(* Every step of the DMG's transaction keeps the invariant.                 *)
LEMMA DmgNext == DmgInv /\ Dmg!Next => DmgInv'
<1> SUFFICES ASSUME DmgInv, Dmg!Next PROVE DmgInv'
  OBVIOUS
<1>1. CASE Dmg!Fails \/ Dmg!LogDiffers
  BY <1>1, LeavingDmg DEF Dmg!Fails, Dmg!LogDiffers, Dmg!Defer, Dmg!JournalOnly, DmgInv, DmgType
<1>2. CASE Dmg!Crash
  <2>1. docs' \in [observation : Ids, receipt : Ids, log : {"none", "ok", Dmg!Torn}, gatekeeper : Nat]
    BY <1>2 DEF Dmg!Crash, DmgInv, DmgType, Ids
  <2> QED
    BY <1>2, <2>1, LeavingDmg DEF Dmg!Crash
<1>3. CASE Dmg!AppleDecides
  BY <1>3 DEF Dmg!AppleDecides, DmgInv, DmgType, UploadOwed, EvidenceTargets
<1> QED
  BY <1>1, <1>2, <1>3, SubmissionDmg, RecoveryDmg, FinalizationDmg DEF Dmg!Next

(* The DMG transaction's invariant, in every release.                       *)
LEMMA DmgSafe == ReleaseSpec => []DmgInv
<1>1. DriverInit => DmgInv
  BY DmgInit DEF DriverInit, Init
<1>2. DmgInv /\ [ReleaseNext]_releaseVars => DmgInv'
  <2> SUFFICES ASSUME DmgInv, [ReleaseNext]_releaseVars PROVE DmgInv'
    OBVIOUS
  <2>1. CASE DmgStage
    BY <2>1, DmgNext DEF DmgStage
  <2>2. CASE UNCHANGED dmgVars
    BY <2>2 DEF dmgVars, DmgInv, DmgType, UploadOwed, EvidenceTargets
  <2>3. DmgStage \/ UNCHANGED dmgVars
    BY PipelineStep DEF FreezeStage, SignStage, releaseVars, pipelineVars
  <2> QED
    BY <2>1, <2>2, <2>3
<1> QED
  BY <1>1, <1>2, PTL DEF ReleaseSpec

(* However often dmg_notarization_transaction.py is executed, recovered,    *)
(* killed or left without a reply, notarytool submit ran at most once.      *)
THEOREM DmgIsSubmittedOnce == ReleaseSpec => []SubmittedOnce
<1>1. DmgInv => SubmittedOnce
  BY DEF DmgInv, DmgType, UploadOwed, SubmittedOnce, Dmg!SubmittedOnce
<1> QED
  BY <1>1, DmgSafe, PTL

(* The published set's Gatekeeper evidence is about the copy it holds, not  *)
(* about a copy that an interrupted finalization left behind.               *)
THEOREM DmgEvidenceIsFresh == ReleaseSpec => []PublishedEvidenceIsFresh
<1>1. DmgInv => PublishedEvidenceIsFresh
  BY DEF DmgInv, EvidenceTargets, PublishedEvidenceIsFresh, Dmg!PublishedEvidenceIsFresh
<1> QED
  BY <1>1, DmgSafe, PTL

-----------------------------------------------------------------------------
(* Signing.  One invocation holds the lock; what it may still do follows    *)
(* from the journal of the latest attempt.                                  *)

EventStates ==
    {"prepared", "signing", "verification_blocked", "verification_recovering", "verification_committing",
     "verified", "publishing", "published", "outcome_unknown", "failed", "torn"}
AttemptStates == [events : Seq([st : EventStates, code : Sign!Codes]), work : Sign!Trees, ready : BOOLEAN]
ProcStates == [pc : Sign!Labels, cmd : Sign!Commands, executor : Executors \cup {NoExecutor}]
\* A journal starts with its only "prepared".
Journal(a) ==
    /\ a \in AttemptStates /\ Len(a.events) # 0 /\ a.events[1].st = "prepared"
    /\ \A j \in 2..Len(a.events) : a.events[j].st # "prepared"
SigningRecorded(a) == Len(a.events) >= 2 /\ a.events[2].st = "signing"
\* A verified output of attempt i is in one place, the canonical tree being that of attempt c.
Home(a, i, c) == Sign!Recorded(a, "verified") => a.work = "absent" /\ a.ready # (c = i)
SignCore ==
    /\ attempts \in Seq(AttemptStates) /\ canonical \in Nat /\ signatures \in {0, 1}
    /\ \A i \in 1..Len(attempts) : Journal(attempts[i]) /\ Home(attempts[i], i, canonical)
    /\ signatures # 0 => Len(attempts) # 0 /\ SigningRecorded(attempts[Len(attempts)])

CanonicalFree == {"work", "signing", "helper", "prepare", "receipt", "verified", "publish", "rename"}
\* What the lock's holder at a label relies on, the latest attempt being the last of "as".
Holding(pc, as, sig, can) ==
    /\ pc \notin {"idle", "enter", "open"} => Len(as) # 0
    /\ pc \in {"work", "signing"} => sig = 0 /\ Len(as[Len(as)].events) = 1
    /\ pc = "helper" => sig = 0
    /\ pc \in {"helper", "prepare", "receipt"} =>
          Len(as[Len(as)].events) = 2 /\ SigningRecorded(as[Len(as)])
    /\ pc \in CanonicalFree => can = 0
    /\ pc = "verified" => as[Len(as)].work = "absent" /\ as[Len(as)].ready
SignLock ==
    /\ lock \in Procs \cup {Nobody} /\ proc \in [Procs -> ProcStates]
    /\ \A p \in Procs : (proc[p].pc # "idle" => lock = p) /\ Holding(proc[p].pc, attempts, signatures, canonical)
SignInv == SignCore /\ SignLock

(* Nothing is signed at first.                                              *)
LEMMA SignInit == Sign!Init => SignInv
<1> SUFFICES ASSUME Sign!Init PROVE SignInv
  OBVIOUS
<1>1. Sign!IdleProc \in ProcStates /\ Sign!IdleProc.pc = "idle"
  BY DEF Sign!IdleProc, ProcStates, Sign!Labels, Sign!Commands
<1>2. SignCore
  BY DEF Sign!Init, SignCore
<1>3. proc \in [Procs -> ProcStates] /\ \A p \in Procs : proc[p].pc = "idle"
  BY <1>1 DEF Sign!Init
<1> QED
  BY <1>2, <1>3 DEF Sign!Init, SignInv, SignLock, Holding, CanonicalFree

(* What _append_event makes of an attempt.                                  *)
LEMMA Appended ==
    ASSUME NEW a, Journal(a), NEW st \in EventStates, NEW code \in Sign!Codes, st # "prepared",
           NEW w \in Sign!Trees, NEW rd \in BOOLEAN,
           NEW b, b = [events |-> Append(a.events, Sign!Event(st, code)), work |-> w, ready |-> rd]
    PROVE  /\ Journal(b) /\ b.work = w /\ b.ready = rd
           /\ Len(b.events) = Len(a.events) + 1 /\ b.events[Len(b.events)].st = st
           /\ \A j \in 1..Len(a.events) : b.events[j] = a.events[j]
           /\ Sign!Recorded(b, "verified") => st = "verified" \/ Sign!Recorded(a, "verified")
<1> DEFINE e == Sign!Event(st, code)
           Events == [st : EventStates, code : Sign!Codes]
<1>1. e \in Events /\ e.st = st
  BY DEF Sign!Event
<1>2. a.events \in Seq(Events) /\ Len(a.events) \in Nat /\ Len(a.events) # 0
  BY DEF Journal, AttemptStates
<1> HIDE DEF e, Events
<1>3. /\ Append(a.events, e) \in Seq(Events) /\ Len(Append(a.events, e)) = Len(a.events) + 1
      /\ Append(a.events, e)[Len(a.events) + 1] = e
      /\ \A j \in 1..Len(a.events) : Append(a.events, e)[j] = a.events[j]
  BY <1>1, <1>2, AppendProperties
<1>4. b.events = Append(a.events, e) /\ b.work = w /\ b.ready = rd
  BY DEF e
<1>5. b \in AttemptStates
  BY <1>3 DEF AttemptStates, e, Events
<1>6. Journal(b)
  BY <1>1, <1>2, <1>3, <1>4, <1>5 DEF Journal
<1>7. DOMAIN b.events = 1..(Len(a.events) + 1) /\ DOMAIN a.events = 1..Len(a.events)
  BY <1>2, <1>3, <1>4
<1>8. Sign!Recorded(b, "verified") => st = "verified" \/ Sign!Recorded(a, "verified")
  BY <1>1, <1>2, <1>3, <1>4, <1>7 DEF Sign!Recorded
<1> QED
  BY <1>1, <1>3, <1>4, <1>6, <1>8

(* The latest attempt becomes b, its journal growing or not: the other      *)
(* attempts are kept, and b is the latest.                                  *)
LEMMA LatestBecomes ==
    ASSUME SignCore, Len(attempts) # 0, NEW b, Journal(b), attempts' = [attempts EXCEPT ![Len(attempts)] = b],
           Len(b.events) >= Len(attempts[Len(attempts)].events),
           \A j \in 1..Len(attempts[Len(attempts)].events) : b.events[j] = attempts[Len(attempts)].events[j],
           canonical' = canonical \/ (canonical = 0 /\ canonical' = Len(attempts)),
           Home(b, Len(attempts), canonical'),
           signatures' = signatures \/
             (signatures = 0 /\ signatures' = 1 /\ SigningRecorded(attempts[Len(attempts)]))
    PROVE  SignCore' /\ Len(attempts') = Len(attempts) /\ attempts'[Len(attempts)] = b
<1> DEFINE n == Len(attempts)
<1>1. attempts \in Seq(AttemptStates) /\ n \in Nat /\ n # 0 /\ b \in AttemptStates
  BY DEF SignCore, Journal
<1>2. /\ attempts' \in Seq(AttemptStates) /\ Len(attempts') = n /\ attempts'[n] = b
      /\ \A i \in 1..n : i # n => attempts'[i] = attempts[i]
  BY <1>1
<1>3. canonical' \in Nat /\ signatures' \in {0, 1}
  BY <1>1 DEF SignCore
<1>4. ASSUME NEW i \in 1..n PROVE Journal(attempts'[i]) /\ Home(attempts'[i], i, canonical')
  <2>1. CASE i = n
    BY <1>2, <2>1
  <2>2. CASE i # n
    <3>1. attempts'[i] = attempts[i] /\ Journal(attempts[i]) /\ Home(attempts[i], i, canonical)
      BY <1>1, <1>2, <2>2 DEF SignCore
    <3>2. (canonical' = i) = (canonical = i)
      BY <1>1, <2>2
    <3> QED
      BY <3>1, <3>2, SMTT(30) DEF Home
  <2> QED
    BY <2>1, <2>2, SMTT(30)
<1>5. Len(attempts[n].events) \in Nat /\ Len(b.events) \in Nat
  <2>1. Journal(attempts[n])
    BY <1>1 DEF SignCore
  <2> QED
    BY <2>1 DEF Journal, AttemptStates
<1>6. signatures' # 0 => SigningRecorded(b)
  BY <1>1, <1>5 DEF SignCore, SigningRecorded
<1> HIDE DEF n
<1>7. SignCore'
  BY <1>1, <1>2, <1>3, <1>4, <1>6 DEF SignCore
<1> QED
  BY <1>2, <1>7 DEF n

(* The lock's holder goes on, or another invocation takes the free lock.    *)
LEMMA HolderGoesOn ==
    ASSUME SignInv, SignCore', NEW p \in Procs, lock \in {p, Nobody}, lock' \in {p, Nobody},
           NEW r \in ProcStates, proc' = [proc EXCEPT ![p] = r], r.pc # "idle" => lock' = p,
           Holding(r.pc, attempts', signatures', canonical')
    PROVE  SignInv'
<1>1. /\ proc' \in [Procs -> ProcStates] /\ proc'[p] = r
      /\ \A q \in Procs : q # p => proc'[q] = proc[q]
  BY DEF SignInv, SignLock
<1>2. \A q \in Procs : q # p => proc'[q].pc = "idle"
  BY <1>1, PipelineAssumption DEF SignInv, SignLock
<1>3. \A q \in Procs : q # p => Holding(proc'[q].pc, attempts', signatures', canonical')
  BY <1>2 DEF Holding, CanonicalFree
<1> QED
  BY <1>1, <1>2, <1>3 DEF SignInv, SignLock

(* An invocation ends, by a refusal, a failure or a crash.                  *)
LEMMA HolderLeaves ==
    ASSUME SignInv, SignCore', NEW p \in Procs, lock = p, Sign!Leave(p)
    PROVE  SignInv'
<1>1. Sign!IdleProc \in ProcStates /\ Sign!IdleProc.pc = "idle"
  BY DEF Sign!IdleProc, ProcStates, Sign!Labels, Sign!Commands
<1>2. Holding("idle", attempts', signatures', canonical')
  BY DEF Holding, CanonicalFree
<1> QED
  BY <1>1, <1>2, HolderGoesOn DEF Sign!Leave

(* An invocation goes to its next label.                                    *)
LEMMA HolderGoes ==
    ASSUME SignInv, SignCore', NEW p \in Procs, lock = p, lock' = p, NEW label \in Sign!Labels,
           Sign!Goto(p, label), Holding(label, attempts', signatures', canonical')
    PROVE  SignInv'
<1> DEFINE r == [proc[p] EXCEPT !.pc = label]
<1>1. r \in ProcStates /\ r.pc = label /\ proc' = [proc EXCEPT ![p] = r]
  BY DEF SignInv, SignLock, ProcStates, Sign!Goto
<1> HIDE DEF r
<1> QED
  BY <1>1, HolderGoesOn

(* Who reads keeps what is signed.                                          *)
LEMMA CoreKept == SignCore /\ UNCHANGED <<attempts, canonical, signatures>> => SignCore'
  BY DEF SignCore

(* An event of the latest attempt, "verified" only for an output at home.   *)
LEMMA EventRecorded ==
    ASSUME SignCore, Len(attempts) # 0, NEW st \in EventStates, NEW code \in Sign!Codes, st # "prepared",
           Sign!Record(st, code), UNCHANGED <<canonical, signatures>>,
           st = "verified" => attempts[Len(attempts)].work = "absent" /\ attempts[Len(attempts)].ready /\ canonical = 0
    PROVE  /\ SignCore' /\ Len(attempts') = Len(attempts)
           /\ attempts'[Len(attempts)].work = attempts[Len(attempts)].work
           /\ attempts'[Len(attempts)].ready = attempts[Len(attempts)].ready
           /\ Len(attempts'[Len(attempts)].events) = Len(attempts[Len(attempts)].events) + 1
           /\ attempts'[Len(attempts)].events[Len(attempts[Len(attempts)].events) + 1].st = st
<1> DEFINE n == Len(attempts)
           a == attempts[n]
           b == [events |-> Append(a.events, Sign!Event(st, code)), work |-> a.work, ready |-> a.ready]
<1>1. attempts \in Seq(AttemptStates) /\ n \in Nat /\ n # 0 /\ Journal(a) /\ Home(a, n, canonical)
  BY DEF SignCore
<1>2. a.work \in Sign!Trees /\ a.ready \in BOOLEAN /\ Len(a.events) \in Nat
  BY <1>1 DEF Journal, AttemptStates
<1>3. attempts' = [attempts EXCEPT ![n] = b]
  BY <1>1 DEF Sign!Record, Sign!Append_, Sign!N, Sign!Latest
<1> HIDE DEF a, b
<1>4. /\ Journal(b) /\ b.work = a.work /\ b.ready = a.ready
      /\ Len(b.events) = Len(a.events) + 1 /\ b.events[Len(b.events)].st = st
      /\ \A j \in 1..Len(a.events) : b.events[j] = a.events[j]
      /\ Sign!Recorded(b, "verified") => st = "verified" \/ Sign!Recorded(a, "verified")
  BY <1>1, <1>2, Appended DEF b
<1>5. Home(b, n, canonical')
  BY <1>1, <1>4 DEF Home, a
<1>a. Len(b.events) >= Len(a.events)
  BY <1>2, <1>4
<1>b. /\ Len(b.events) >= Len(attempts[Len(attempts)].events)
      /\ \A j \in 1..Len(attempts[Len(attempts)].events) : b.events[j] = attempts[Len(attempts)].events[j]
  BY <1>a, <1>4 DEF a
<1>6. SignCore' /\ Len(attempts') = n /\ attempts'[n] = b
  BY <1>3, <1>4, <1>5, <1>b, LatestBecomes
<1> QED
  BY <1>4, <1>6 DEF a

(* The latest attempt's tree moves or grows, its journal is kept.           *)
LEMMA TreeChanged ==
    ASSUME SignCore, Len(attempts) # 0, NEW w \in Sign!Trees, NEW rd \in BOOLEAN,
           attempts' = [attempts EXCEPT ![Len(attempts)] =
               [events |-> attempts[Len(attempts)].events, work |-> w, ready |-> rd]],
           canonical' = canonical \/ (canonical = 0 /\ canonical' = Len(attempts)),
           Sign!Recorded(attempts[Len(attempts)], "verified") => w = "absent" /\ rd # (canonical' = Len(attempts)),
           signatures' = signatures \/
             (signatures = 0 /\ signatures' = 1 /\ SigningRecorded(attempts[Len(attempts)]))
    PROVE  /\ SignCore' /\ Len(attempts') = Len(attempts)
           /\ attempts'[Len(attempts)] = [events |-> attempts[Len(attempts)].events, work |-> w, ready |-> rd]
<1> DEFINE n == Len(attempts)
           a == attempts[n]
           b == [events |-> a.events, work |-> w, ready |-> rd]
<1>1. attempts \in Seq(AttemptStates) /\ n \in Nat /\ n # 0 /\ Journal(a)
  BY DEF SignCore
<1>2. Journal(b) /\ Len(b.events) \in Nat
  BY <1>1 DEF Journal, AttemptStates
<1>3. Home(b, n, canonical')
  BY DEF Home, Sign!Recorded
<1>4. b.events = a.events /\ attempts' = [attempts EXCEPT ![n] = b]
  OBVIOUS
<1> HIDE DEF b
<1>5. /\ Len(b.events) >= Len(attempts[Len(attempts)].events)
      /\ \A j \in 1..Len(attempts[Len(attempts)].events) : b.events[j] = attempts[Len(attempts)].events[j]
  BY <1>2, <1>4
<1>6. SignCore' /\ Len(attempts') = n /\ attempts'[n] = b
  BY <1>2, <1>3, <1>4, <1>5, LatestBecomes
<1> QED
  BY <1>6 DEF b

(* Reading and ending; reading and going on; one event, then the end.       *)
LEMMA ReadsAndLeaves ==
    ASSUME SignInv, NEW p \in Procs, lock = p, Sign!Leave(p), UNCHANGED <<attempts, canonical, signatures>>
    PROVE  SignInv'
  BY CoreKept, HolderLeaves DEF SignInv

LEMMA ReadsAndGoes ==
    ASSUME SignInv, NEW p \in Procs, lock = p, lock' = p, NEW label \in Sign!Labels, Sign!Goto(p, label),
           UNCHANGED <<attempts, canonical, signatures>>, Holding(label, attempts, signatures, canonical)
    PROVE  SignInv'
  BY CoreKept, HolderGoes DEF SignInv

LEMMA RecordsAndLeaves ==
    ASSUME SignInv, NEW p \in Procs, lock = p, Len(attempts) # 0, NEW st \in EventStates, NEW code \in Sign!Codes,
           st \notin {"prepared", "verified"}, Sign!Record(st, code), Sign!Leave(p), UNCHANGED <<canonical, signatures>>
    PROVE  SignInv'
<1>1. SignCore'
  BY EventRecorded DEF SignInv
<1> QED
  BY <1>1, HolderLeaves

(* Only an attempt that was abandoned before its "signing" event is         *)
(* followed by another, so nothing was signed when one is created.          *)
LEMMA CreateIsUnsigned ==
    ASSUME SignInv, NEW p \in Procs, Sign!CreateAllowed(p)
    PROVE  signatures = 0 /\ canonical = 0 /\ lock = p
<1>1. lock = p /\ canonical = 0 /\ (Len(attempts) = 0 \/ Sign!AbandonedBeforeSigning(Sign!Latest))
  BY DEF Sign!CreateAllowed, Sign!Holds, Sign!N
<1>2. CASE Len(attempts) = 0
  BY <1>1, <1>2 DEF SignInv, SignCore
<1>3. CASE Len(attempts) # 0 /\ Sign!AbandonedBeforeSigning(Sign!Latest)
  <2> DEFINE a == attempts[Len(attempts)]
             n == Len(a.events)
  <2>1. Sign!Latest = a /\ Journal(a)
    BY <1>3 DEF Sign!Latest, Sign!N, SignInv, SignCore
  <2>2. n \in Nat /\ n # 0
    BY <2>1 DEF Journal, AttemptStates
  <2>3. a.events[n].st = "failed" /\ (n < 2 \/ a.events[n - 1].st = "prepared") /\ ~(n < 2)
    BY <1>3, <2>1 DEF Sign!AbandonedBeforeSigning, Sign!State, Sign!Previous, Sign!Last
  <2>a. n - 1 \notin 2..n
    BY <2>1, <2>3 DEF Journal
  <2>b. n >= 2
    BY <2>2, <2>3
  <2>4. n = 2
    <3> HIDE DEF n
    <3> QED
      BY <2>2, <2>a, <2>b
  <2>5. ~SigningRecorded(a)
    BY <2>3, <2>4 DEF SigningRecorded
  <2> QED
    BY <1>1, <2>5 DEF SignInv, SignCore
<1> QED
  BY <1>1, <1>2, <1>3

(* A new attempt and its directory.                                         *)
LEMMA SignCreates ==
    ASSUME SignInv, NEW p \in Procs, Sign!CreateAttempt(p)
    PROVE  SignInv'
<1> DEFINE n == Len(attempts)
           b == Sign!NewAttempt
<1>1. /\ signatures = 0 /\ canonical = 0 /\ lock = p /\ lock' = p
      /\ attempts' = Append(attempts, b) /\ UNCHANGED <<canonical, signatures>> /\ Sign!Goto(p, "work")
  BY CreateIsUnsigned DEF Sign!CreateAttempt, Sign!AttemptOnly
<1>2. /\ b \in AttemptStates /\ Len(b.events) = 1 /\ b.events[1].st = "prepared" /\ b.work = "absent"
      /\ DOMAIN b.events = {1}
  <2> DEFINE e == Sign!Event("prepared", "none")
  <2>1. e \in [st : EventStates, code : Sign!Codes] /\ e.st = "prepared"
    BY DEF Sign!Event, EventStates, Sign!Codes
  <2>2. b = [events |-> <<e>>, work |-> "absent", ready |-> FALSE]
    BY DEF Sign!NewAttempt
  <2> HIDE DEF e, b
  <2>3. <<e>> \in Seq([st : EventStates, code : Sign!Codes]) /\ Len(<<e>>) = 1 /\ <<e>>[1] = e
    BY <2>1
  <2>4. b.events = <<e>> /\ b \in AttemptStates /\ b.work = "absent"
    BY <2>2, <2>3 DEF AttemptStates, Sign!Trees
  <2> QED
    BY <2>1, <2>3, <2>4
<1>3. Journal(b) /\ ~Sign!Recorded(b, "verified")
  <2> HIDE DEF b
  <2> QED
    BY <1>2 DEF Journal, Sign!Recorded
<1> HIDE DEF b
<1>4. attempts \in Seq(AttemptStates) /\ n \in Nat
  BY DEF SignInv, SignCore
<1>5. /\ attempts' \in Seq(AttemptStates) /\ Len(attempts') = n + 1 /\ attempts'[n + 1] = b
      /\ \A i \in 1..n : attempts'[i] = attempts[i]
  BY <1>1, <1>2, <1>4, AppendProperties
<1>6. \A i \in 1..Len(attempts') : Journal(attempts'[i]) /\ Home(attempts'[i], i, canonical')
  BY <1>1, <1>3, <1>4, <1>5 DEF SignInv, SignCore, Home
<1>7. SignCore'
  BY <1>1, <1>5, <1>6 DEF SignInv, SignCore
<1>8. Holding("work", attempts', signatures', canonical')
  BY <1>1, <1>2, <1>4, <1>5 DEF Holding
<1> QED
  BY <1>1, <1>7, <1>8, HolderGoes DEF Sign!Labels

(* Nothing is verified in a journal of one event, or of two before the      *)
(* verification.                                                            *)
LEMMA Unverified ==
    ASSUME NEW a, Journal(a), Len(a.events) = 1 \/ (Len(a.events) = 2 /\ SigningRecorded(a))
    PROVE  ~Sign!Recorded(a, "verified")
<1>1. DOMAIN a.events = 1..Len(a.events)
  BY DEF Journal, AttemptStates
<1> QED
  BY <1>1 DEF Journal, SigningRecorded, Sign!Recorded

(* Writing a field of an attempt that has these fields.                     *)
LEMMA WorkExcept ==
    ASSUME attempts \in Seq(AttemptStates), NEW n, NEW w, attempts[n] \in AttemptStates
    PROVE  [attempts EXCEPT ![n].work = w] =
           [attempts EXCEPT ![n] = [events |-> attempts[n].events, work |-> w, ready |-> attempts[n].ready]]
<1> DEFINE a == attempts[n]
<1>1. [a EXCEPT !.work = w] = [events |-> a.events, work |-> w, ready |-> a.ready]
  <2>1. a \in AttemptStates
    OBVIOUS
  <2> HIDE DEF a
  <2> QED
    BY ONLY <2>1 DEF AttemptStates
<1> QED
  BY <1>1

(* Entering and preparing an attempt.                                       *)
LEMMA SignEntry == ASSUME SignInv, NEW p \in Procs, Sign!Entry(p) PROVE SignInv'
<1> DEFINE n == Len(attempts)
           a == attempts[n]
<1>1. CASE Sign!Begin(p)
  <2>1. PICK command \in Sign!Commands, e \in Executors :
           /\ lock = Nobody /\ lock' = p /\ UNCHANGED <<attempts, canonical, signatures>>
           /\ proc' = [proc EXCEPT ![p] =
                [pc |-> IF command = "reconcile-failed" THEN "open" ELSE "enter", cmd |-> command,
                 executor |-> IF command = "reconcile-failed" THEN e ELSE NoExecutor]]
    BY <1>1 DEF Sign!Begin
  <2> DEFINE r == [pc |-> IF command = "reconcile-failed" THEN "open" ELSE "enter", cmd |-> command,
                   executor |-> IF command = "reconcile-failed" THEN e ELSE NoExecutor]
  <2>2. r \in ProcStates /\ r.pc \in {"open", "enter"}
    BY DEF ProcStates, Sign!Labels
  <2>3. proc' = [proc EXCEPT ![p] = r]
    BY <2>1
  <2> HIDE DEF r
  <2>4. SignCore' /\ Holding(r.pc, attempts', signatures', canonical')
    BY <2>1, <2>2, CoreKept DEF SignInv, Holding, CanonicalFree
  <2> QED
    BY <2>1, <2>2, <2>3, <2>4, HolderGoesOn
<1>2. CASE Sign!CreateWork(p)
  <2>1. /\ proc[p].pc = "work" /\ lock = p /\ lock' = p /\ Sign!Goto(p, "signing")
        /\ attempts' = [attempts EXCEPT ![n].work = "empty"] /\ UNCHANGED <<canonical, signatures>>
    BY <1>2 DEF Sign!CreateWork, Sign!Holds, Sign!N, Sign!AttemptOnly
  <2>2. n # 0 /\ signatures = 0 /\ Len(a.events) = 1 /\ canonical = 0
    BY <2>1 DEF SignInv, SignLock, Holding, CanonicalFree
  <2>3. Journal(a) /\ a \in AttemptStates /\ attempts \in Seq(AttemptStates)
    BY <2>2 DEF SignInv, SignCore, Journal
  <2>4. attempts' = [attempts EXCEPT ![n] = [events |-> a.events, work |-> "empty", ready |-> a.ready]]
    BY <2>1, <2>3, WorkExcept
  <2>5. ~Sign!Recorded(a, "verified") /\ a.ready \in BOOLEAN /\ "empty" \in Sign!Trees
    BY <2>2, <2>3, Unverified DEF AttemptStates, Sign!Trees
  <2>6. /\ SignCore' /\ Len(attempts') = n
        /\ attempts'[n] = [events |-> a.events, work |-> "empty", ready |-> a.ready]
    BY <2>1, <2>2, <2>4, <2>5, TreeChanged DEF SignInv
  <2>7. Holding("signing", attempts', signatures', canonical')
    BY <2>1, <2>2, <2>6 DEF Holding
  <2> QED
    BY <2>1, <2>6, <2>7, HolderGoes DEF Sign!Labels
<1>3. CASE Sign!StartSigning(p)
  <2>1. /\ proc[p].pc = "signing" /\ lock = p /\ lock' = p /\ Sign!Goto(p, "helper")
        /\ Sign!Record("signing", "none") /\ UNCHANGED <<canonical, signatures>>
    BY <1>3 DEF Sign!StartSigning, Sign!Advance, Sign!Holds, Sign!AttemptOnly
  <2>2. n # 0 /\ signatures = 0 /\ Len(a.events) = 1 /\ canonical = 0
    BY <2>1 DEF SignInv, SignLock, Holding, CanonicalFree
  <2>3. /\ SignCore' /\ Len(attempts') = n /\ Len(attempts'[n].events) = 2
        /\ attempts'[n].events[2].st = "signing"
    <3>1. /\ SignCore' /\ Len(attempts') = n /\ Len(attempts'[n].events) = Len(a.events) + 1
          /\ attempts'[n].events[Len(a.events) + 1].st = "signing"
      BY <2>1, <2>2, EventRecorded DEF EventStates, Sign!Codes, SignInv
    <3> QED
      BY <2>2, <3>1, SMTT(30)
  <2>4. Holding("helper", attempts', signatures', canonical')
    BY <2>1, <2>2, <2>3 DEF Holding, SigningRecorded
  <2> QED
    BY <2>1, <2>3, <2>4, HolderGoes DEF Sign!Labels
<1>4. CASE Sign!RefuseEntry(p)
  BY <1>4, ReadsAndLeaves DEF Sign!RefuseEntry, Sign!Refuse, Sign!Holds
<1> QED
  BY <1>1, <1>2, <1>3, <1>4, SignCreates DEF Sign!Entry

(* Which attempt is read.                                                   *)
LEMMA LatestIs ==
    ASSUME SignInv, Len(attempts) # 0
    PROVE  /\ Sign!Latest = attempts[Len(attempts)] /\ Sign!N = Len(attempts)
           /\ Journal(attempts[Len(attempts)]) /\ attempts[Len(attempts)] \in AttemptStates
           /\ attempts \in Seq(AttemptStates) /\ Len(attempts) \in Nat
           /\ Home(attempts[Len(attempts)], Len(attempts), canonical)
  BY DEF Sign!Latest, Sign!N, SignInv, SignCore, Journal

(* An event and a tree that changes with it, ending the invocation.         *)
LEMMA EventAppended ==
    ASSUME SignInv, Len(attempts) # 0, NEW st \in EventStates, NEW code \in Sign!Codes,
           st \notin {"prepared", "verified"}, NEW w \in Sign!Trees, NEW rd \in BOOLEAN,
           Sign!Append_(st, code, w, rd),
           canonical' = canonical \/ (canonical = 0 /\ canonical' = Len(attempts)),
           Sign!Recorded(attempts[Len(attempts)], "verified") => w = "absent" /\ rd # (canonical' = Len(attempts)),
           signatures' = signatures \/
             (signatures = 0 /\ signatures' = 1 /\ SigningRecorded(attempts[Len(attempts)]))
    PROVE  SignCore'
<1> DEFINE n == Len(attempts)
           a == attempts[n]
           b == [events |-> Append(a.events, Sign!Event(st, code)), work |-> w, ready |-> rd]
<1>1. attempts \in Seq(AttemptStates) /\ n \in Nat /\ n # 0 /\ Journal(a) /\ Len(a.events) \in Nat
  BY LatestIs DEF AttemptStates
<1>2. attempts' = [attempts EXCEPT ![n] = b]
  BY <1>1 DEF Sign!Append_, Sign!N
<1> HIDE DEF a, b
<1>3. /\ Journal(b) /\ b.work = w /\ b.ready = rd /\ Len(b.events) = Len(a.events) + 1
      /\ \A j \in 1..Len(a.events) : b.events[j] = a.events[j]
      /\ Sign!Recorded(b, "verified") => st = "verified" \/ Sign!Recorded(a, "verified")
  BY <1>1, Appended DEF b
<1>4. Home(b, n, canonical')
  BY <1>3 DEF Home, a
<1>5. Len(b.events) >= Len(a.events)
  BY <1>1, <1>3
<1>6. /\ Len(b.events) >= Len(attempts[Len(attempts)].events)
      /\ \A j \in 1..Len(attempts[Len(attempts)].events) : b.events[j] = attempts[Len(attempts)].events[j]
  BY <1>3, <1>5 DEF a
<1> QED
  BY <1>2, <1>3, <1>4, <1>6, LatestBecomes DEF SignInv

(* _reconcile_existing: what resume decides.                                *)
LEMMA SignResume == ASSUME SignInv, NEW p \in Procs, Sign!Resume(p) PROVE SignInv'
<1> DEFINE n == Len(attempts)
<1>1. lock = p /\ n # 0 /\ proc[p].pc = "enter"
  BY DEF Sign!Resume, Sign!ConfirmCanonical, Sign!ConfirmFails, Sign!ResumePublication, Sign!ResumePrepared,
       Sign!ResumeSigning, Sign!ResumeBlocked, Sign!ResumeRecovering, Sign!ResumeCommitting, Sign!Retire,
       Sign!Resumes, Sign!Holds, Sign!N, SignInv, SignCore
<1>2. CASE Sign!ConfirmFails(p) \/ Sign!Retire(p)
  BY <1>1, <1>2, ReadsAndLeaves DEF Sign!ConfirmFails, Sign!Retire, Sign!Stop, Sign!Refuse, Sign!AttemptOnly
<1>3. CASE Sign!ConfirmCanonical(p)
  <2>1. Sign!Leave(p) /\ UNCHANGED <<canonical, signatures>> /\ (UNCHANGED attempts \/ Sign!Record("published", "none"))
    BY <1>3 DEF Sign!ConfirmCanonical, Sign!AttemptOnly
  <2> QED
    BY <1>1, <2>1, ReadsAndLeaves, RecordsAndLeaves DEF EventStates, Sign!Codes
<1>4. CASE Sign!ResumePublication(p)
  <2>1. canonical = 0 /\ lock' = p /\ Sign!Goto(p, "publish") /\ UNCHANGED <<attempts, canonical, signatures>>
    BY <1>1, <1>4 DEF Sign!ResumePublication
  <2>2. Holding("publish", attempts, signatures, canonical)
    BY <1>1, <2>1 DEF Holding
  <2> QED
    BY <1>1, <2>1, <2>2, ReadsAndGoes DEF Sign!Labels
<1>5. CASE Sign!ResumePrepared(p)
  <2>1. Sign!Record("failed", "abandoned") /\ UNCHANGED <<canonical, signatures, lock, proc>>
    BY <1>5 DEF Sign!ResumePrepared, Sign!AttemptOnly
  <2>2. SignCore' /\ Len(attempts') = n
    BY <1>1, <2>1, EventRecorded DEF SignInv, EventStates, Sign!Codes
  <2>3. proc[p] \in ProcStates /\ proc' = [proc EXCEPT ![p] = proc[p]]
    BY <2>1 DEF SignInv, SignLock
  <2>4. Holding(proc[p].pc, attempts', signatures', canonical')
    BY <1>1 DEF Holding, CanonicalFree
  <2> QED
    BY <1>1, <2>1, <2>2, <2>3, <2>4, HolderGoesOn
<1>6. CASE Sign!ResumeSigning(p) \/ Sign!ResumeRecovering(p)
  BY <1>1, <1>6, RecordsAndLeaves DEF Sign!ResumeSigning, Sign!ResumeRecovering, Sign!AttemptOnly, EventStates, Sign!Codes
<1>7. CASE Sign!ResumeBlocked(p)
  <2>1. CASE Sign!Record("failed", "other") /\ Sign!Leave(p) /\ Sign!AttemptOnly
    BY <1>1, <2>1, RecordsAndLeaves DEF Sign!AttemptOnly, EventStates, Sign!Codes
  <2>2. CASE Sign!Advance(p, "verification_recovering", "blocked")
    <3>1. /\ Sign!Record("verification_recovering", "none") /\ UNCHANGED <<canonical, signatures>>
          /\ Sign!Goto(p, "blocked") /\ lock' = p
      BY <1>1, <2>2, SMTT(30) DEF Sign!Advance, Sign!AttemptOnly
    <3>2. SignCore' /\ Len(attempts') = n
      BY <1>1, <3>1, EventRecorded DEF SignInv, EventStates, Sign!Codes
    <3>3. Holding("blocked", attempts', signatures', canonical')
      BY <1>1, <3>2 DEF Holding, CanonicalFree
    <3> QED
      BY <1>1, <3>1, <3>2, <3>3, HolderGoes DEF Sign!Labels
  <2> QED
    BY <1>7, <2>1, <2>2 DEF Sign!ResumeBlocked
<1>8. CASE Sign!ResumeCommitting(p)
  <2>1. lock' = p /\ Sign!Goto(p, "commit") /\ UNCHANGED <<attempts, canonical, signatures>>
    BY <1>1, <1>8 DEF Sign!ResumeCommitting
  <2>2. Holding("commit", attempts, signatures, canonical)
    BY <1>1 DEF Holding, CanonicalFree
  <2> QED
    BY <1>1, <2>1, <2>2, ReadsAndGoes DEF Sign!Labels
<1> QED
  BY <1>2, <1>3, <1>4, <1>5, <1>6, <1>7, <1>8 DEF Sign!Resume

(* The rename to publish-ready writes both fields of the tree.              *)
LEMMA ReadyExcept ==
    ASSUME NEW a \in AttemptStates, NEW w \in Sign!Trees, NEW v \in BOOLEAN
    PROVE  [a EXCEPT !.work = w, !.ready = v] = [events |-> a.events, work |-> w, ready |-> v]
<1> DEFINE b == [a EXCEPT !.work = w, !.ready = v]
           c == [events |-> a.events, work |-> w, ready |-> v]
<1>1. b \in AttemptStates /\ c \in AttemptStates
  BY DEF AttemptStates
<1>2. b.events = c.events /\ b.work = c.work
  BY DEF AttemptStates
<1>3. b.ready = c.ready
  BY DEF AttemptStates
<1> HIDE DEF b, c
<1>4. b = c
  BY <1>1, <1>2, <1>3 DEF AttemptStates
<1> QED
  BY <1>4 DEF b, c

(* The renames to publish-ready and from it.                                *)
LEMMA StagedExcept ==
    ASSUME attempts \in Seq(AttemptStates), NEW n, attempts[n] \in AttemptStates
    PROVE  /\ [attempts EXCEPT ![n].work = "absent", ![n].ready = TRUE] =
              [attempts EXCEPT ![n] = [events |-> attempts[n].events, work |-> "absent", ready |-> TRUE]]
           /\ [attempts EXCEPT ![n].ready = FALSE] =
              [attempts EXCEPT ![n] = [events |-> attempts[n].events, work |-> attempts[n].work, ready |-> FALSE]]
<1> DEFINE a == attempts[n]
<1>1. "absent" \in Sign!Trees /\ a.work \in Sign!Trees
  BY DEF AttemptStates, Sign!Trees
<1>2. [attempts EXCEPT ![n].work = "absent", ![n].ready = TRUE] =
        [attempts EXCEPT ![n] = [a EXCEPT !.work = "absent", !.ready = TRUE]]
  OBVIOUS
<1>3. [attempts EXCEPT ![n].ready = FALSE] = [attempts EXCEPT ![n] = [a EXCEPT !.ready = FALSE]]
  OBVIOUS
<1>4. [a EXCEPT !.work = "absent", !.ready = TRUE] = [events |-> a.events, work |-> "absent", ready |-> TRUE]
  BY <1>1, ReadyExcept
<1>5. [a EXCEPT !.work = a.work, !.ready = FALSE] = [events |-> a.events, work |-> a.work, ready |-> FALSE]
  BY <1>1, ReadyExcept
<1>6. [a EXCEPT !.work = a.work, !.ready = FALSE] = [a EXCEPT !.ready = FALSE]
  BY DEF AttemptStates
<1> QED
  BY <1>2, <1>3, <1>4, <1>5, <1>6

(* A failed check that records why, ends.                                   *)
LEMMA SignFails ==
    ASSUME SignInv, NEW p \in Procs, lock = p, Len(attempts) # 0, NEW st \in EventStates, NEW code \in Sign!Codes,
           st \notin {"prepared", "verified"}, Sign!FailWith(p, st, code)
    PROVE  SignInv'
  BY RecordsAndLeaves DEF Sign!FailWith, Sign!AttemptOnly

(* One durable event on the way, that no label at stake relies on.          *)
LEMMA SignAdvances ==
    ASSUME SignInv, NEW p \in Procs, lock = p, Len(attempts) # 0, NEW st \in EventStates \ {"prepared"},
           NEW label \in {"blocked", "commit", "publish", "rename"}, Sign!Advance(p, st, label),
           st = "verified" => attempts[Len(attempts)].work = "absent" /\ attempts[Len(attempts)].ready /\ canonical = 0,
           label \in {"publish", "rename"} => canonical = 0
    PROVE  SignInv'
<1>1. /\ Sign!Record(st, "none") /\ UNCHANGED <<canonical, signatures>> /\ Sign!Goto(p, label) /\ lock' = p
  BY SMTT(30) DEF Sign!Advance, Sign!AttemptOnly
<1>2. SignCore' /\ Len(attempts') = Len(attempts)
  BY <1>1, EventRecorded DEF SignInv, Sign!Codes
<1>3. Holding(label, attempts', signatures', canonical')
  BY <1>1, <1>2 DEF Holding, CanonicalFree
<1> QED
  BY <1>1, <1>2, <1>3, HolderGoes DEF Sign!Labels

(* The helper signs, and the output gets its receipt.                       *)
LEMMA SignHelper ==
    ASSUME SignInv, NEW p \in Procs, Sign!Helper(p) \/ Sign!HelperFails(p) \/ Sign!CreateReceipt(p)
    PROVE  SignInv'
<1> DEFINE n == Len(attempts)
           a == attempts[n]
<1>1. lock = p /\ proc[p].pc \in {"helper", "prepare"} /\ (proc[p].pc = "prepare" => Sign!CreateReceipt(p))
  BY DEF Sign!Helper, Sign!HelperFails, Sign!CreateReceipt, Sign!Holds
<1>2. n # 0 /\ Len(a.events) = 2 /\ SigningRecorded(a) /\ canonical = 0 /\ (proc[p].pc = "helper" => signatures = 0)
  BY <1>1 DEF SignInv, SignLock, Holding, CanonicalFree
<1>3. /\ Journal(a) /\ a \in AttemptStates /\ attempts \in Seq(AttemptStates) /\ Sign!N = n
      /\ ~Sign!Recorded(a, "verified") /\ a.ready \in BOOLEAN
  BY <1>2, LatestIs, Unverified DEF AttemptStates
<1>4. CASE Sign!HelperFails(p)
  <2>1. PICK tree \in {"empty", "signed"} :
           /\ Sign!Append_("failed", "other", tree, FALSE) /\ signatures' = signatures + 1
           /\ Sign!Leave(p) /\ UNCHANGED canonical /\ proc[p].pc = "helper"
    BY <1>4 DEF Sign!HelperFails, Sign!Holds
  <2>a. signatures = 0 /\ signatures' = 1 /\ tree \in Sign!Trees
    BY <1>2, <2>1 DEF Sign!Trees
  <2>b. "failed" \in EventStates /\ "other" \in Sign!Codes
    BY DEF EventStates, Sign!Codes
  <2>2. SignCore'
    BY <1>2, <1>3, <2>1, <2>a, <2>b, EventAppended
  <2> QED
    BY <1>1, <2>1, <2>2, HolderLeaves
<1>5. CASE Sign!Helper(p) \/ Sign!CreateReceipt(p)
  <2>1. PICK w \in {"signed", "receipt"}, label \in {"prepare", "receipt"} :
           /\ attempts' = [attempts EXCEPT ![n].work = w] /\ UNCHANGED canonical
           /\ Sign!Goto(p, label) /\ lock' = p
           /\ signatures' = signatures \/ (proc[p].pc = "helper" /\ signatures' = signatures + 1)
    BY <1>1, <1>3, <1>5 DEF Sign!Helper, Sign!CreateReceipt, Sign!Holds, Sign!AttemptOnly
  <2>2. attempts' = [attempts EXCEPT ![n] = [events |-> a.events, work |-> w, ready |-> a.ready]]
    BY <1>3, <2>1, WorkExcept
  <2>3. signatures' = signatures \/ (signatures = 0 /\ signatures' = 1 /\ SigningRecorded(a))
    BY <1>2, <2>1
  <2>4. /\ SignCore' /\ Len(attempts') = n
        /\ attempts'[n] = [events |-> a.events, work |-> w, ready |-> a.ready]
    BY <1>2, <1>3, <2>1, <2>2, <2>3, TreeChanged DEF SignInv, Sign!Trees
  <2>5. Holding(label, attempts', signatures', canonical')
    BY <1>2, <2>1, <2>4 DEF Holding, SigningRecorded
  <2> QED
    BY <1>1, <2>1, <2>4, <2>5, HolderGoes DEF Sign!Labels
<1> QED
  BY <1>4, <1>5

(* The output moves to publish-ready, after its first or its bounded        *)
(* second verification.                                                     *)
LEMMA SignStages ==
    ASSUME SignInv, NEW p \in Procs, Sign!PrepareOutput(p) \/ Sign!CommitStage(p)
    PROVE  SignInv'
<1> DEFINE n == Len(attempts)
           a == attempts[n]
<1>1. lock = p /\ proc[p].pc \in {"receipt", "commit"} /\ lock' = p /\ Sign!Goto(p, "verified")
  BY DEF Sign!PrepareOutput, Sign!CommitStage, Sign!Holds
<1>2. n # 0 /\ canonical = 0
  BY <1>1 DEF SignInv, SignLock, Holding, CanonicalFree, Sign!PrepareOutput, Sign!CommitStage, Sign!Holds
<1>3. a \in AttemptStates /\ attempts \in Seq(AttemptStates) /\ Sign!N = n /\ n \in Nat
  BY <1>2, LatestIs
<1>4. attempts' = [attempts EXCEPT ![n].work = "absent", ![n].ready = TRUE] /\ UNCHANGED <<canonical, signatures>>
  BY <1>3 DEF Sign!PrepareOutput, Sign!CommitStage, Sign!AttemptOnly
<1>5. attempts' = [attempts EXCEPT ![n] = [events |-> a.events, work |-> "absent", ready |-> TRUE]]
  BY <1>3, <1>4, StagedExcept
<1>6. TRUE # (canonical' = n)
  BY <1>2, <1>3, <1>4
<1>7. /\ SignCore' /\ Len(attempts') = n
      /\ attempts'[n] = [events |-> a.events, work |-> "absent", ready |-> TRUE]
  BY <1>2, <1>4, <1>5, <1>6, TreeChanged DEF SignInv, Sign!Trees
<1>8. Holding("verified", attempts', signatures', canonical')
  BY <1>2, <1>4, <1>7 DEF Holding
<1> QED
  BY <1>1, <1>7, <1>8, HolderGoes DEF Sign!Labels

(* Signing and preparing the private output.                                *)
LEMMA SignPrepare == ASSUME SignInv, NEW p \in Procs, Sign!Prepare(p) PROVE SignInv'
<1>1. CASE Sign!CreateReceiptFails(p) \/ Sign!VerifyReceiptFails(p) \/ Sign!RecoverVerificationFails(p) \/ Sign!CommitFails(p)
  <2>1. PICK st \in {"failed", "verification_blocked"}, code \in {"other", "transformation", "recoverable"} :
           Sign!FailWith(p, st, code)
    BY <1>1 DEF Sign!CreateReceiptFails, Sign!VerifyReceiptFails, Sign!RecoverVerificationFails, Sign!CommitFails
  <2>2. lock = p /\ Len(attempts) # 0
    BY <1>1 DEF Sign!CreateReceiptFails, Sign!VerifyReceiptFails, Sign!RecoverVerificationFails, Sign!CommitFails,
         Sign!Holds, SignInv, SignLock, Holding
  <2> QED
    BY <2>1, <2>2, SignFails DEF EventStates, Sign!Codes
<1>2. CASE Sign!RecordVerified(p)
  <2>1. lock = p /\ proc[p].pc = "verified" /\ Sign!Advance(p, "verified", "publish")
    BY <1>2 DEF Sign!RecordVerified, Sign!Holds
  <2>2. /\ Len(attempts) # 0 /\ canonical = 0
        /\ attempts[Len(attempts)].work = "absent" /\ attempts[Len(attempts)].ready
    BY <2>1 DEF SignInv, SignLock, Holding, CanonicalFree
  <2> QED
    BY <2>1, <2>2, SignAdvances DEF EventStates
<1>3. CASE Sign!RecoverVerification(p)
  <2>1. lock = p /\ proc[p].pc = "blocked" /\ Sign!Advance(p, "verification_committing", "commit")
    BY <1>3 DEF Sign!RecoverVerification, Sign!Holds
  <2>2. Len(attempts) # 0
    BY <2>1 DEF SignInv, SignLock, Holding
  <2> QED
    BY <2>1, <2>2, SignAdvances DEF EventStates
<1> QED
  BY <1>1, <1>2, <1>3, SignHelper, SignStages DEF Sign!Prepare

(* The output leaves publish-ready for the canonical path.                  *)
LEMMA SignMoves ==
    ASSUME SignInv, NEW p \in Procs, Sign!Rename(p) \/ Sign!MoveReconciled(p), attempts' # attempts \/ canonical' # canonical
    PROVE  SignInv'
<1> DEFINE n == Len(attempts)
           a == attempts[n]
<1>1. lock = p /\ proc[p].pc \in {"rename", "move"} /\ lock' = p /\ canonical = 0
      /\ (Sign!Goto(p, "published") \/ Sign!Goto(p, "complete"))
      /\ canonical' = Sign!N /\ attempts' = [attempts EXCEPT ![Sign!N].ready = FALSE] /\ signatures' = signatures
  BY DEF Sign!Rename, Sign!MoveReconciled, Sign!Holds, Sign!AtCanonical
<1>2. n # 0
  BY <1>1 DEF SignInv, SignLock, Holding
<1>3. a \in AttemptStates /\ attempts \in Seq(AttemptStates) /\ Sign!N = n /\ n \in Nat /\ Home(a, n, canonical)
  BY <1>2, LatestIs
<1>4. attempts' = [attempts EXCEPT ![n] = [events |-> a.events, work |-> a.work, ready |-> FALSE]] /\ canonical' = n
  BY <1>1, <1>3, StagedExcept
<1>5. /\ Sign!Recorded(a, "verified") => a.work = "absent" /\ FALSE # (canonical' = n)
      /\ a.work \in Sign!Trees
  BY <1>3, <1>4 DEF Home, AttemptStates
<1>6. SignCore' /\ Len(attempts') = n
  BY <1>1, <1>2, <1>4, <1>5, TreeChanged DEF SignInv
<1>7. Holding("published", attempts', signatures', canonical') /\ Holding("complete", attempts', signatures', canonical')
  BY <1>2, <1>6 DEF Holding, CanonicalFree
<1> QED
  BY <1>1, <1>6, <1>7, HolderGoes DEF Sign!Labels

(* _publish_attempt.                                                        *)
LEMMA SignPublish == ASSUME SignInv, NEW p \in Procs, Sign!Publish(p) PROVE SignInv'
<1> DEFINE n == Len(attempts)
           a == attempts[n]
<1>1. lock = p /\ proc[p].pc \in {"publish", "rename", "published"}
  BY DEF Sign!Publish, Sign!FrozenInputDrift, Sign!ReverifyReadyFails, Sign!RecordPublishing, Sign!Rename,
       Sign!RenameUnknown, Sign!RecordPublished, Sign!Holds
<1>2. n # 0 /\ (proc[p].pc # "published" => canonical = 0)
  BY <1>1 DEF SignInv, SignLock, Holding, CanonicalFree
<1>3. CASE Sign!FrozenInputDrift(p)
  BY <1>1, <1>3, ReadsAndLeaves DEF Sign!FrozenInputDrift, Sign!Stop, Sign!AttemptOnly
<1>4. CASE Sign!ReverifyReadyFails(p)
  <2>1. CASE Sign!Stop(p)
    BY <1>1, <2>1, ReadsAndLeaves DEF Sign!Stop, Sign!AttemptOnly
  <2>2. CASE \E code \in {"other", "transformation"} : Sign!FailWith(p, "failed", code)
    BY <1>1, <1>2, <2>2, SignFails DEF EventStates, Sign!Codes
  <2> QED
    BY <1>4, <2>1, <2>2 DEF Sign!ReverifyReadyFails
<1>5. CASE Sign!RecordPublishing(p)
  <2>1. canonical = 0
    BY <1>2, <1>5 DEF Sign!RecordPublishing, Sign!Holds
  <2>2. CASE Sign!Goto(p, "rename") /\ UNCHANGED <<attempts, canonical, recon, downstream, signatures, lock, faults>>
    <3>1. Holding("rename", attempts, signatures, canonical)
      BY <1>2, <2>1 DEF Holding
    <3> QED
      BY <1>1, <2>2, <3>1, ReadsAndGoes DEF Sign!Labels
  <2>3. CASE Sign!Advance(p, "publishing", "rename")
    BY <1>1, <1>2, <2>1, <2>3, SignAdvances DEF EventStates
  <2> QED
    BY <1>5, <2>2, <2>3 DEF Sign!RecordPublishing
<1>6. CASE Sign!Rename(p)
  <2>1. canonical' = n /\ canonical = 0 /\ n \in Nat
    BY <1>2, <1>6, LatestIs DEF Sign!Rename
  <2> QED
    BY <1>2, <1>6, <2>1, SignMoves
<1>7. CASE Sign!RenameUnknown(p)
  <2>1. canonical = 0 /\ Sign!Leave(p) /\ signatures' = signatures
    BY <1>2, <1>7 DEF Sign!RenameUnknown, Sign!Holds
  <2>2. /\ Sign!Latest = a /\ Sign!N = n /\ a \in AttemptStates /\ Home(a, n, canonical) /\ n \in Nat
    BY <1>2, LatestIs
  <2>3. CASE canonical' = Sign!N /\ Sign!Append_("outcome_unknown", "reply_unknown", Sign!Latest.work, FALSE)
    <3>1. a.work \in Sign!Trees /\ (Sign!Recorded(a, "verified") => a.work = "absent" /\ FALSE # (canonical' = n))
      BY <2>2, <2>3 DEF Home, AttemptStates
    <3>2. Sign!Append_("outcome_unknown", "reply_unknown", a.work, FALSE) /\ canonical' = n
      BY <2>2, <2>3
    <3>3. "outcome_unknown" \in EventStates /\ "reply_unknown" \in Sign!Codes
      BY DEF EventStates, Sign!Codes
    <3>4. SignCore'
      BY <1>2, <2>1, <3>1, <3>2, <3>3, EventAppended
    <3> QED
      BY <1>1, <2>1, <3>4, HolderLeaves
  <2>4. CASE canonical' = canonical /\ Sign!Record("outcome_unknown", "reply_unknown")
    BY <1>1, <1>2, <2>1, <2>4, RecordsAndLeaves DEF EventStates, Sign!Codes
  <2> QED
    BY <1>7, <2>3, <2>4 DEF Sign!RenameUnknown
<1>8. CASE Sign!RecordPublished(p)
  BY <1>1, <1>2, <1>8, RecordsAndLeaves DEF Sign!RecordPublished, Sign!AttemptOnly, EventStates, Sign!Codes
<1> QED
  BY <1>3, <1>4, <1>5, <1>6, <1>7, <1>8 DEF Sign!Publish

(* reconcile-failed reads the attempt's journal and moves its output.       *)
LEMMA SignReconcile == ASSUME SignInv, NEW p \in Procs, Sign!Reconcile(p) PROVE SignInv'
<1>1. lock = p
  BY DEF Sign!Reconcile, Sign!OpenReconciliation, Sign!RefuseReconciliation, Sign!FinishInterrupted,
       Sign!StartVerification, Sign!BudgetExhausted, Sign!FinishVerification, Sign!VerificationFails,
       Sign!VerificationDrift, Sign!BeginPublication, Sign!MoveReconciled, Sign!CompletePublication,
       Sign!ReconciledUnknown, Sign!Holds
<1>2. CASE \/ Sign!RefuseReconciliation(p) \/ Sign!BudgetExhausted(p) \/ Sign!VerificationFails(p)
           \/ Sign!VerificationDrift(p) \/ Sign!CompletePublication(p) \/ Sign!ReconciledUnknown(p)
  <2>1. Sign!Leave(p) /\ UNCHANGED <<attempts, canonical, signatures>>
    BY <1>2 DEF Sign!RefuseReconciliation, Sign!BudgetExhausted, Sign!VerificationFails, Sign!VerificationDrift,
         Sign!CompletePublication, Sign!ReconciledUnknown, Sign!Refuse, Sign!Stop, Sign!ReconOnly, Sign!AttemptOnly
  <2> QED
    BY <1>1, <2>1, ReadsAndLeaves
<1>3. CASE Sign!FinishInterrupted(p)
  BY <1>3, CoreKept DEF Sign!FinishInterrupted, Sign!ReconOnly, SignInv, SignLock
<1>4. CASE \/ Sign!OpenReconciliation(p) \/ Sign!StartVerification(p) \/ Sign!FinishVerification(p)
           \/ Sign!BeginPublication(p)
  <2>1. PICK label \in {"start", "replay", "passed", "move"} :
           Sign!Goto(p, label) /\ UNCHANGED <<attempts, canonical, signatures, lock>>
    BY <1>4 DEF Sign!OpenReconciliation, Sign!StartVerification, Sign!FinishVerification, Sign!BeginPublication,
         Sign!ReconOnly
  <2>2. Len(attempts) # 0
    BY <1>4 DEF Sign!OpenReconciliation, Sign!StartVerification, Sign!FinishVerification, Sign!BeginPublication,
         Sign!FailedAfterVerified, Sign!N, Sign!Holds, SignInv, SignLock, Holding
  <2>3. Holding(label, attempts, signatures, canonical)
    BY <2>2 DEF Holding, CanonicalFree
  <2> QED
    BY <1>1, <2>1, <2>3, ReadsAndGoes DEF Sign!Labels
<1>5. CASE Sign!MoveReconciled(p)
  <2>1. CASE attempts' # attempts \/ canonical' # canonical
    BY <1>5, <2>1, SignMoves
  <2>2. CASE UNCHANGED <<attempts, canonical>>
    <3>1. Sign!Goto(p, "complete") /\ UNCHANGED <<signatures, lock>> /\ Len(attempts) # 0
      BY <1>5 DEF Sign!MoveReconciled, Sign!Holds, SignInv, SignLock, Holding
    <3>2. Holding("complete", attempts, signatures, canonical)
      BY <3>1 DEF Holding, CanonicalFree
    <3> QED
      BY <1>1, <2>2, <3>1, <3>2, ReadsAndGoes DEF Sign!Labels
  <2> QED
    BY <2>1, <2>2
<1> QED
  BY <1>2, <1>3, <1>4, <1>5 DEF Sign!Reconcile

(* A crash, the helper's included, and a file that it leaves half written.  *)
LEMMA SignCrash ==
    ASSUME SignInv, NEW p \in Procs, Sign!Crash(p) \/ Sign!TornEvent(p) \/ Sign!TornRecord(p)
    PROVE  SignInv'
<1> DEFINE n == Len(attempts)
           a == attempts[n]
<1>1. Sign!Leave(p) /\ lock = p /\ canonical' = canonical
  BY DEF Sign!Crash, Sign!TornEvent, Sign!TornRecord, Sign!EventWriteLabels, Sign!RecordWriteLabels,
       Sign!FailWith, Sign!AttemptOnly, SignInv, SignLock
<1>2. CASE UNCHANGED <<attempts, signatures>>
  BY <1>1, <1>2, ReadsAndLeaves
<1>3. CASE Sign!TornEvent(p)
  <2>1. n # 0 /\ Sign!FailWith(p, "torn", "none")
    BY <1>3 DEF Sign!TornEvent, Sign!N, SignInv, SignCore
  <2> QED
    BY <1>1, <2>1, SignFails DEF EventStates, Sign!Codes
<1>4. ASSUME NEW tree \in {"empty", "signed"}, proc[p].pc = "helper", signatures' = signatures + 1,
             attempts' = [attempts EXCEPT ![Sign!N].work = tree]
      PROVE  SignInv'
  <2>1. n # 0 /\ Len(a.events) = 2 /\ SigningRecorded(a) /\ signatures = 0
    BY <1>4 DEF SignInv, SignLock, Holding
  <2>2. /\ Journal(a) /\ a \in AttemptStates /\ attempts \in Seq(AttemptStates) /\ Sign!N = n
        /\ ~Sign!Recorded(a, "verified") /\ a.ready \in BOOLEAN
    BY <2>1, LatestIs, Unverified DEF AttemptStates
  <2>3. attempts' = [attempts EXCEPT ![n] = [events |-> a.events, work |-> tree, ready |-> a.ready]]
    BY <1>4, <2>2, WorkExcept
  <2>4. signatures' = 1 /\ tree \in Sign!Trees
    BY <1>4, <2>1 DEF Sign!Trees
  <2>5. SignCore'
    BY <1>1, <2>1, <2>2, <2>3, <2>4, TreeChanged DEF SignInv
  <2> QED
    BY <1>1, <2>5, HolderLeaves
<1> QED
  BY <1>2, <1>3, <1>4 DEF Sign!Crash, Sign!TornRecord, Sign!ReconOnly

(* Every step of the signing tools keeps the invariant.                     *)
LEMMA SignNext == SignInv /\ Sign!Next => SignInv'
<1> SUFFICES ASSUME SignInv, Sign!Next PROVE SignInv'
  OBVIOUS
<1>1. CASE Sign!StartDownstream
  BY <1>1, CoreKept DEF Sign!StartDownstream, SignInv, SignLock
<1>2. ASSUME NEW p \in Procs, Sign!Step(p) PROVE SignInv'
  BY <1>2, SignEntry, SignResume, SignPrepare, SignPublish, SignReconcile, SignCrash DEF Sign!Step
<1> QED
  BY <1>1, <1>2 DEF Sign!Next

(* The signing's invariant, in every release.                               *)
LEMMA SignSafe == ReleaseSpec => []SignInv
<1>1. DriverInit => SignInv
  BY SignInit DEF DriverInit, Init
<1>2. SignInv /\ [ReleaseNext]_releaseVars => SignInv'
  <2> SUFFICES ASSUME SignInv, [ReleaseNext]_releaseVars PROVE SignInv'
    OBVIOUS
  <2>1. CASE SignStage
    BY <2>1, SignNext DEF SignStage
  <2>2. CASE UNCHANGED signVars
    BY <2>2, CoreKept DEF signVars, SignInv, SignLock
  <2>3. SignStage \/ UNCHANGED signVars
    BY PipelineStep DEF FreezeStage, DmgStage, releaseVars, pipelineVars
  <2> QED
    BY <2>1, <2>2, <2>3
<1> QED
  BY <1>1, <1>2, PTL DEF ReleaseSpec

(* The signing identity is used at most once for a candidate, whatever is   *)
(* resumed, retried or killed: signing_attempt_transaction.py starts a new  *)
(* attempt only after one that was abandoned before its "signing" event.    *)
THEOREM IdentityIsUsedOnce == ReleaseSpec => []SignedAtMostOnce
<1>1. SignInv => SignedAtMostOnce
  BY DEF SignInv, SignCore, SignedAtMostOnce, Sign!SignedAtMostOnce
<1> QED
  BY <1>1, SignSafe, PTL

(* A signed output that passed verification is in exactly one place, its    *)
(* attempt's publish-ready tree or the canonical path, through every crash  *)
(* and lost reply between a rename and its event, reconcile-failed included. *)
THEOREM OutputHasOneHome == ReleaseSpec => []VerifiedOutputHasOneHome
<1>1. ASSUME SignInv PROVE VerifiedOutputHasOneHome
  <2>1. DOMAIN attempts = 1..Len(attempts)
    BY <1>1 DEF SignInv, SignCore
  <2> QED
    BY <1>1, <2>1 DEF SignInv, SignCore, Home, VerifiedOutputHasOneHome, Sign!VerifiedOutputHasOneHome
<1> QED
  BY <1>1, SignSafe, PTL
-----------------------------------------------------------------------------
(* Reviewing.  A document is owned when each of its decisions is about the  *)
(* facts that the template recorded, and the predecessor's or the owner's.  *)

ReviewFiles == {"comparison", "pending", "reviewed", "decisions", "approval"}
\* With template t and what the owner typed in h.
Owned(d, t, h) == \A i \in Items : d[i] = t.of[i] /\ (Shipped[i] = t.of[i] \/ <<i, t.of[i]>> \in h)
\* A pending copy holds the predecessor's decisions and leaves the others open.
Carries(d, t) == \A i \in Items : d[i] # NoFacts => d[i] = t.of[i] /\ Shipped[i] = t.of[i]
Shaped(r, s) == r = [f \in ReviewFiles |-> r[f]] /\ s = [f \in {"pc", "kind", "doc"} |-> s[f]]
\* Before there is a template nothing is reviewed.
TemplateFirst == template = Review!Absent => review = Review!NoReview /\ session.pc \in {"idle", "legal"}
DocumentLabels == {"reviewed", "decisions", "pending", "link", "unlink", "approval"}
FilesOwned(r, t, h) ==
    /\ r.pending.kind = "whole" => Carries(r.pending.of, t)
    /\ r.reviewed.kind = "whole" => Owned(r.reviewed.of, t, h)
    /\ r.approval.kind = "whole" => Owned(r.approval.closure, t, h)
ReviewInv ==
    /\ Shaped(review, session) /\ TemplateFirst /\ FilesOwned(review, template, human)
    /\ session.pc \in DocumentLabels => Owned(session.doc.of, template, human)

(* Nothing is reviewed at first.                                            *)
LEMMA ReviewInit == Review!Init => ReviewInv
  BY DEF Review!Init, Review!NoReview, Review!Absent, Review!Quiet, ReviewInv, Shaped, ReviewFiles,
       TemplateFirst, FilesOwned, DocumentLabels

(* The template is written once, before anything is reviewed.               *)
LEMMA TemplateReviews == ASSUME ReviewInv, EntryTemplate PROVE ReviewInv'
<1>1. review = Review!NoReview /\ session.pc \in {"idle", "legal"} /\ UNCHANGED <<review, session>>
  BY DEF ReviewInv, TemplateFirst, EntryTemplate
<1>2. /\ review.pending.kind = "absent" /\ review.reviewed.kind = "absent" /\ review.approval.kind = "absent"
  BY <1>1 DEF Review!NoReview, Review!Absent
<1> QED
  BY <1>1, <1>2 DEF ReviewInv, TemplateFirst, FilesOwned, DocumentLabels

(* The session goes on without writing a review file.                       *)
LEMMA SessionGoes ==
    ASSUME ReviewInv, UNCHANGED <<template, review, human>>, session' = [f \in {"pc", "kind", "doc"} |-> session'[f]],
           template = Review!Absent => session'.pc \in {"idle", "legal"},
           session'.pc \in DocumentLabels => Owned(session'.doc.of, template, human)
    PROVE  ReviewInv'
  BY DEF ReviewInv, Shaped, TemplateFirst

(* The session ends, or goes to another label with the document it has.     *)
LEMMA SessionMoves ==
    ASSUME ReviewInv, UNCHANGED <<template, review, human>>,
           \/ Review!Leave
           \/ \E label : /\ Review!Goto(label) /\ (label \in DocumentLabels => session.pc \in DocumentLabels)
                         /\ (template = Review!Absent => label \in {"idle", "legal"})
    PROVE  ReviewInv'
<1>1. CASE Review!Leave
  <2>1. session' = Review!Quiet /\ Review!Quiet.pc = "idle"
        /\ Review!Quiet = [f \in {"pc", "kind", "doc"} |-> Review!Quiet[f]]
    BY <1>1 DEF Review!Leave, Review!Quiet
  <2> QED
    BY <2>1, SessionGoes DEF DocumentLabels
<1>2. ASSUME NEW label, Review!Goto(label), label \in DocumentLabels => session.pc \in DocumentLabels,
             template = Review!Absent => label \in {"idle", "legal"}
      PROVE  ReviewInv'
  <2>1. session = [f \in {"pc", "kind", "doc"} |-> session[f]]
    BY DEF ReviewInv, Shaped
  <2>2. /\ session' = [f \in {"pc", "kind", "doc"} |-> session'[f]] /\ session'.pc = label
        /\ session'.doc = session.doc
    BY <1>2, <2>1 DEF Review!Goto
  <2>3. session'.pc \in DocumentLabels => Owned(session'.doc.of, template, human)
    BY <1>2, <2>2 DEF ReviewInv
  <2> QED
    BY <1>2, <2>2, <2>3, SessionGoes
<1> QED
  BY <1>1, <1>2

(* The session writes a review file.                                        *)
LEMMA SessionWrites ==
    ASSUME ReviewInv, UNCHANGED <<template, human>>, template # Review!Absent,
           NEW file \in ReviewFiles, NEW doc, Review!Write(file, doc),
           session' = [f \in {"pc", "kind", "doc"} |-> session'[f]],
           session'.pc \in DocumentLabels => Owned(session'.doc.of, template, human),
           doc.kind = "whole" => /\ file = "pending" => Carries(doc.of, template)
                                 /\ file = "reviewed" => Owned(doc.of, template, human)
                                 /\ file = "approval" => Owned(doc.closure, template, human)
    PROVE  ReviewInv'
<1>1. review = [f \in ReviewFiles |-> review[f]]
  BY DEF ReviewInv, Shaped
<1>2. /\ review' = [f \in ReviewFiles |-> review'[f]] /\ review'[file] = doc
      /\ \A f \in ReviewFiles : f # file => review'[f] = review[f]
  BY <1>1 DEF Review!Write
<1>3. /\ (review'["pending"] = doc /\ file = "pending") \/ review'["pending"] = review["pending"]
      /\ (review'["reviewed"] = doc /\ file = "reviewed") \/ review'["reviewed"] = review["reviewed"]
      /\ (review'["approval"] = doc /\ file = "approval") \/ review'["approval"] = review["approval"]
  BY <1>2 DEF ReviewFiles
<1>4. FilesOwned(review', template', human')
  BY <1>3 DEF ReviewInv, FilesOwned
<1> QED
  BY <1>2, <1>4 DEF ReviewInv, Shaped, TemplateFirst

(* What the comparison carries over is the predecessor's.                   *)
LEMMA CarriedIs ==
    /\ Carries(Review!Carried, template)
    /\ Review!Unresolved(Review!Carried) = {} => Owned(Review!Carried, template, human)
  BY DEF Carries, Owned, Review!Carried, Review!Reusable, Review!Unresolved

(* compare, the owner's decisions and their records.                        *)
LEMMA ReviewReviews == ASSUME ReviewInv, Review!ReviewSteps PROVE ReviewInv'
<1>0. session = [f \in {"pc", "kind", "doc"} |-> session[f]]
  BY DEF ReviewInv, Shaped
<1>1. CASE Review!CompareWrites
  <2>1. PICK kind \in {"complete", "pending"} :
           /\ kind = "complete" => Review!Unresolved(Review!Carried) = {}
           /\ Review!Write(IF kind = "complete" THEN "reviewed" ELSE "pending", Review!Doc(Review!Carried))
           /\ session' = [session EXCEPT !.pc = "comparison", !.kind = kind]
           /\ session.pc = "compare" /\ UNCHANGED <<template, human>>
    BY <1>1 DEF Review!CompareWrites, Review!At
  <2>2. session' = [f \in {"pc", "kind", "doc"} |-> session'[f]] /\ session'.pc \notin DocumentLabels
    BY <1>0, <2>1 DEF DocumentLabels
  <2>3. template # Review!Absent
    BY <2>1 DEF ReviewInv, TemplateFirst
  <2>4. Review!Doc(Review!Carried).of = Review!Carried
    BY DEF Review!Doc
  <2>5. CASE kind = "complete"
    BY <2>1, <2>2, <2>3, <2>4, <2>5, CarriedIs, SessionWrites DEF ReviewFiles
  <2>6. CASE kind = "pending"
    BY <2>1, <2>2, <2>3, <2>4, <2>6, CarriedIs, SessionWrites DEF ReviewFiles
  <2> QED
    BY <2>1, <2>5, <2>6
<1>2. CASE Review!WriteComparison
  <2>1. /\ Review!Write("comparison", Review!ComparisonOf(session.kind)) /\ UNCHANGED <<template, human>>
        /\ session.pc = "comparison" /\ (session' = Review!Quiet \/ session' = [session EXCEPT !.pc = "ask"])
    BY <1>2 DEF Review!WriteComparison, Review!At, Review!Leave, Review!Goto
  <2>2. session' = [f \in {"pc", "kind", "doc"} |-> session'[f]] /\ session'.pc \notin DocumentLabels
    BY <1>0, <2>1 DEF DocumentLabels, Review!Quiet
  <2>3. template # Review!Absent
    BY <2>1 DEF ReviewInv, TemplateFirst
  <2> QED
    BY <2>1, <2>2, <2>3, SessionWrites DEF ReviewFiles
<1>3. CASE Review!Decide
  <2> DEFINE open == Review!Unresolved(review.pending.of)
             d == [i \in Items |-> IF i \in open THEN template.of[i] ELSE review.pending.of[i]]
  <2>1. /\ session.pc = "ask" /\ review.pending.kind = "whole" /\ UNCHANGED <<template, review>>
        /\ human' = human \cup {<<i, template.of[i]>> : i \in open}
        /\ session' = [session EXCEPT !.pc = "reviewed", !.doc = Review!Doc(d)]
    BY <1>3 DEF Review!Decide, Review!At, Review!Askable
  <2>2. Carries(review.pending.of, template) /\ template # Review!Absent
    BY <2>1 DEF ReviewInv, FilesOwned, TemplateFirst
  <2>3. Owned(d, template, human')
    BY <2>1, <2>2 DEF Owned, Carries, Review!Unresolved
  <2>4. /\ session' = [f \in {"pc", "kind", "doc"} |-> session'[f]] /\ session'.doc.of = d
    BY <1>0, <2>1 DEF Review!Doc
  <2>5. FilesOwned(review', template', human')
    BY <2>1 DEF ReviewInv, FilesOwned, Owned
  <2> HIDE DEF d, open
  <2> QED
    BY <2>1, <2>2, <2>3, <2>4, <2>5 DEF ReviewInv, Shaped, TemplateFirst
<1>4. CASE Review!WriteReviewed
  <2>1. /\ Review!Write("reviewed", session.doc) /\ UNCHANGED <<template, human>>
        /\ session.pc = "reviewed" /\ session' = [session EXCEPT !.pc = "decisions"]
    BY <1>4 DEF Review!WriteReviewed, Review!At, Review!Goto
  <2>2. session' = [f \in {"pc", "kind", "doc"} |-> session'[f]] /\ session'.doc = session.doc
    BY <1>0, <2>1
  <2>3. template # Review!Absent /\ Owned(session.doc.of, template, human)
    BY <2>1 DEF ReviewInv, TemplateFirst, DocumentLabels
  <2> QED
    BY <2>1, <2>2, <2>3, SessionWrites DEF ReviewFiles
<1>5. CASE Review!WriteDecisions
  <2>1. /\ \E doc : Review!Write("decisions", doc)
        /\ UNCHANGED <<template, human>> /\ session.pc = "decisions" /\ session' = Review!Quiet
    BY <1>5 DEF Review!WriteDecisions, Review!At, Review!Leave
  <2>2. session' = [f \in {"pc", "kind", "doc"} |-> session'[f]] /\ session'.pc \notin DocumentLabels
    BY <2>1 DEF DocumentLabels, Review!Quiet
  <2>3. template # Review!Absent
    BY <2>1 DEF ReviewInv, TemplateFirst
  <2> QED
    BY <2>1, <2>2, <2>3, SessionWrites DEF ReviewFiles
<1> QED
  BY <1>1, <1>2, <1>3, <1>4, <1>5 DEF Review!ReviewSteps

(* The legal review: what is approved is what was reviewed.                 *)
LEMMA LegalReviews == ASSUME ReviewInv, Review!LegalSteps PROVE ReviewInv'
<1>0. session = [f \in {"pc", "kind", "doc"} |-> session[f]]
  BY DEF ReviewInv, Shaped
<1>1. CASE Review!Approve
  <2>1. /\ review.reviewed.kind = "whole" /\ draft.of = review.reviewed.of
        /\ session' = [session EXCEPT !.pc = "pending", !.doc = Review!Doc(draft.of)]
        /\ UNCHANGED <<template, review, human>>
    BY <1>1 DEF Review!Approve, Review!Approvable
  <2>2. session' = [f \in {"pc", "kind", "doc"} |-> session'[f]] /\ session'.doc.of = review.reviewed.of
    BY <1>0, <2>1 DEF Review!Doc
  <2>3. Owned(review.reviewed.of, template, human)
    BY <2>1 DEF ReviewInv, FilesOwned
  <2>4. template # Review!Absent
    BY <2>1 DEF ReviewInv, TemplateFirst, Review!NoReview, Review!Absent
  <2> QED
    BY <2>1, <2>2, <2>3, <2>4, SessionGoes
<1>2. CASE Review!WriteLegalPending \/ Review!LinkLegal \/ Review!UnlinkLegal
  <2>1. /\ session.pc \in DocumentLabels /\ UNCHANGED <<template, review, human>>
        /\ Review!Goto("link") \/ Review!Goto("unlink") \/ Review!Goto("approval")
    BY <1>2 DEF Review!WriteLegalPending, Review!LinkLegal, Review!UnlinkLegal, Review!At, DocumentLabels
  <2>2. template # Review!Absent
    BY <2>1 DEF ReviewInv, TemplateFirst, DocumentLabels
  <2> QED
    BY <2>1, <2>2, SessionMoves
<1>3. CASE Review!WriteApproval
  <2> DEFINE doc == [kind |-> "whole", closure |-> session.doc.of, reviewed |-> review.reviewed.of,
                     comparison |-> review.comparison]
  <2>1. /\ Review!Write("approval", doc) /\ session.pc = "approval" /\ session' = Review!Quiet
        /\ UNCHANGED <<template, human>>
    BY <1>3 DEF Review!WriteApproval, Review!At, Review!Leave
  <2>2. session' = [f \in {"pc", "kind", "doc"} |-> session'[f]] /\ session'.pc \notin DocumentLabels
    BY <2>1 DEF DocumentLabels, Review!Quiet
  <2>3. template # Review!Absent /\ Owned(doc.closure, template, human)
    BY <2>1 DEF ReviewInv, TemplateFirst, DocumentLabels
  <2> HIDE DEF doc
  <2> QED
    BY <2>1, <2>2, <2>3, SessionWrites DEF ReviewFiles
<1> QED
  BY <1>1, <1>2, <1>3 DEF Review!LegalSteps

(* A refusal, an abort, or a crash that leaves a file torn.                 *)
LEMMA CrashReviews == ASSUME ReviewInv, Review!Refuse \/ Review!OwnerAborts \/ Review!Crash PROVE ReviewInv'
<1>1. CASE UNCHANGED review
  BY <1>1, SessionMoves DEF Review!Refuse, Review!OwnerAborts, Review!Crash
<1>2. CASE Review!Crash /\ ~UNCHANGED review
  <2>1. PICK file : Review!Write(file, Review!Torn) /\ file \in ReviewFiles
    BY <1>2 DEF Review!Crash, Review!Writing, ReviewFiles
  <2>2. /\ session.pc \notin {"idle", "legal"} /\ session' = Review!Quiet /\ UNCHANGED <<template, human>>
    BY <1>2 DEF Review!Crash, Review!Writing, Review!At, Review!Leave
  <2>3. session' = [f \in {"pc", "kind", "doc"} |-> session'[f]] /\ session'.pc \notin DocumentLabels
    BY <2>2 DEF DocumentLabels, Review!Quiet
  <2>4. template # Review!Absent /\ Review!Torn.kind = "torn"
    BY <2>2 DEF ReviewInv, TemplateFirst, Review!Torn
  <2> QED
    BY <2>1, <2>2, <2>3, <2>4, SessionWrites
<1> QED
  BY <1>1, <1>2 DEF Review!Refuse, Review!OwnerAborts

(* Which steps of a release write the review.                               *)
LEMMA ReviewStep ==
    ASSUME ReleaseNext
    PROVE  EntryTemplate \/ OwnerSession \/ SessionSteps \/ UNCHANGED <<template, review, human, session>>
<1>1. CASE BuildStage \/ PackageStage \/ Notarize
  BY <1>1 DEF BuildStage, PackageStage, Notarize, reviewVars
<1>2. CASE DriverSteps
  BY <1>2 DEF DriverSteps, CommandRun, CommonGuards, GuardsRefuse, Enroll, Prepare, Ci, Receipt,
       PreparePublication, Finalize, Preserve, Seal, Updater, Export, Publish, Publishes, EntryEnds,
       EntryDraft, EntryFails, Drift, Review!EvidenceDrift, Killed, reviewVars
<1>3. CASE InstallSteps
  BY <1>3 DEF InstallSteps, InstallNext, InstallRecover, TransactionSucceeds, TransactionFails,
       RecordInstallStep, RecordRecovery, RequireInstalledRelease, reviewVars
<1>4. CASE AcceptanceSteps
  BY <1>4 DEF AcceptanceSteps, BeginCollect, CollectRefused, StartInstance, StartFails, Collects,
       StopInstance, CollectEnds, AcceptanceResumes, reviewVars
<1>5. CASE ReleaseSteps
  BY <1>5 DEF ReleaseSteps, VerifyRemote, RecordVerified, CommandShipped, reviewVars
<1> QED
  BY <1>1, <1>2, <1>3, <1>4, <1>5 DEF ReleaseNext

(* The owner's session starts inside the driver.                            *)
LEMMA OwnerReviews == ASSUME ReviewInv, OwnerSession PROVE ReviewInv'
<1>1. CASE Review!BeginReview
  <2>1. UNCHANGED <<template, review, human>> /\ (Review!Goto("compare") \/ Review!Goto("ask"))
    BY <1>1 DEF Review!BeginReview
  <2>2. template # Review!Absent
    BY <1>1 DEF Review!BeginReview, Review!Absent
  <2> QED
    BY <2>1, <2>2, SessionMoves DEF DocumentLabels
<1>2. CASE Review!BeginLegal
  BY <1>2, SessionMoves DEF Review!BeginLegal, DocumentLabels
<1> QED
  BY <1>1, <1>2 DEF OwnerSession

(* The review's invariant, in every release.                                *)
LEMMA ReviewSafe == ReleaseSpec => []ReviewInv
<1>1. DriverInit => ReviewInv
  BY ReviewInit DEF DriverInit
<1>2. ReviewInv /\ [ReleaseNext]_releaseVars => ReviewInv'
  <2> SUFFICES ASSUME ReviewInv, [ReleaseNext]_releaseVars PROVE ReviewInv'
    OBVIOUS
  <2>1. CASE SessionSteps
    BY <2>1, ReviewReviews, LegalReviews, CrashReviews DEF SessionSteps, Review!Steps
  <2>2. CASE UNCHANGED <<template, review, human, session>>
    BY <2>2 DEF ReviewInv, Shaped, TemplateFirst
  <2>3. EntryTemplate \/ OwnerSession \/ SessionSteps \/ UNCHANGED <<template, review, human, session>>
    BY ReviewStep DEF releaseVars, reviewVars
  <2> QED
    BY <2>1, <2>2, <2>3, TemplateReviews, OwnerReviews
<1> QED
  BY <1>1, <1>2, PTL DEF ReleaseSpec

(* Every decision of an approved closure is about the facts the candidate's *)
(* template recorded, and is the shipped predecessor's about these facts or *)
(* one the owner typed for them, whatever review file a crash left torn and *)
(* whichever session was resumed (review_carryover.py).                     *)
THEOREM DecisionsAreOwned == ReleaseSpec => []ApprovedDecisionsAreOwned
<1>1. ReviewInv => ApprovedDecisionsAreOwned
  BY DEF ReviewInv, FilesOwned, Owned, ApprovedDecisionsAreOwned, Review!ApprovedDecisionsAreOwned
<1> QED
  BY <1>1, ReviewSafe, PTL

-----------------------------------------------------------------------------
(* Installing.                                                              *)

DriverLabels == {"idle", "guards", "session", "asking", "run", "install", "transaction", "recovery", "record",
                 "record-recovery", "acceptance", "start", "stop", "ledger"}
DriverStates == [stage : StageNames \cup {"none"}, pc : DriverLabels,
                 arg : InstallStepNames \cup {"none", "resumed"} \cup SUBSET GA_INSTANCES]
Macs == [history : {"live", "partial", "archived"},
         services : {"on", "stopping", "dormant", "starting", "recommissioned"}, app : {"old", "begun", "new"}]
\* A service transaction runs on the services and the app it was started for.
RunsOn(step) ==
    /\ step \in InstallStepNames
    /\ step = "decommission" => migration.app # "new" /\ migration.services \in {"on", "stopping", "dormant"}
    /\ step = "recommission" =>
          migration.app = "new" /\ migration.services \in {"dormant", "starting", "recommissioned"}
InstallInv ==
    /\ driver \in DriverStates /\ migration \in Macs /\ InstallRecordsAreTrue
    /\ "recommission" \in files => migration.app = "new"
    /\ driver.pc = "stop" => driver.arg \in SUBSET GA_INSTANCES
    /\ driver.pc \in {"transaction", "recovery"} => RunsOn(driver.arg)
    /\ driver.pc \in {"record", "record-recovery"} =>
          /\ driver.arg \in InstallStepNames /\ migration = Completed(driver.arg)
          /\ driver.arg = "recommission" => migration.app = "new"

Transacting == {"transaction", "recovery", "record", "record-recovery"}

(* The install steps, by name.                                              *)
LEMMA InstallNames == InstallStepNames = {"archive-history", "decommission", "install-app", "recommission"}
  BY DEF InstallStepNames, INSTALL_STEPS

(* The first of up to four is there to be chosen.                           *)
LEMMA FirstOfFour ==
    ASSUME NEW M \in SUBSET (1..4), M # {}
    PROVE  LET i == CHOOSE i \in M : \A j \in M : i <= j IN i \in M /\ \A j \in M : i <= j
<1>1. \E i \in M : \A j \in M : i <= j
  <2>1. CASE 1 \in M
    BY <2>1
  <2>2. CASE 1 \notin M /\ 2 \in M
    BY <2>2
  <2>3. CASE 1 \notin M /\ 2 \notin M /\ 3 \in M
    BY <2>3
  <2>4. CASE 1 \notin M /\ 2 \notin M /\ 3 \notin M
    <3>1. \A j \in M : j = 4
      BY <2>4
    <3>2. PICK k \in M : TRUE
      OBVIOUS
    <3>3. k = 4
      BY <3>1, <3>2
    <3> QED
      BY <3>1, <3>2, <3>3
  <2> QED
    BY <2>1, <2>2, <2>3, <2>4
<1> QED
  BY <1>1

(* What a stage publishes next is one of its own files, the earlier ones    *)
(* being there.                                                             *)
LEMMA NextFileOf ==
    ASSUME NEW s \in FileStages, Missing(s) # {}
    PROVE  \E i \in 1..4 : /\ i \in Missing(s) /\ NextFile(s) = Artifacts(s)[i]
                           /\ \A j \in DOMAIN Artifacts(s) : j < i => Artifacts(s)[j] \in files
<1>1. DOMAIN Artifacts(s) \subseteq 1..4
  BY DEF FileStages, Artifacts
<1>2. Missing(s) \in SUBSET (1..4)
  BY <1>1 DEF Missing
<1> DEFINE i == CHOOSE i \in Missing(s) : \A j \in Missing(s) : i <= j
<1>3. i \in Missing(s) /\ \A j \in Missing(s) : i <= j
  BY <1>2, FirstOfFour
<1>4. NextFile(s) = Artifacts(s)[i]
  BY DEF NextFile
<1> HIDE DEF i
<1>5. ASSUME NEW j \in DOMAIN Artifacts(s), j < i PROVE Artifacts(s)[j] \in files
  BY <1>1, <1>2, <1>3, <1>5 DEF Missing
<1> QED
  BY <1>2, <1>3, <1>4, <1>5

(* No file stage publishes an install record.                               *)
LEMMA FilesAreNotSteps ==
    ASSUME NEW s \in FileStages, Missing(s) # {}
    PROVE  NextFile(s) \notin InstallStepNames
<1>1. PICK i \in 1..4 : i \in Missing(s) /\ NextFile(s) = Artifacts(s)[i]
  BY NextFileOf
<1>2. i \in DOMAIN Artifacts(s)
  BY <1>1 DEF Missing
<1> QED
  BY <1>1, <1>2, InstallNames DEF FileStages, Artifacts

(* A step that records no install step and enters no transaction.           *)
LEMMA InstallKept ==
    ASSUME InstallInv, UNCHANGED migration, files' \cap InstallStepNames \subseteq files, driver' \in DriverStates,
           driver' = driver \/ driver'.pc \notin Transacting \cup {"stop"}
             \/ (driver'.pc = "stop" /\ driver'.arg \in SUBSET GA_INSTANCES)
    PROVE  InstallInv'
<1>1. InstallRecordsAreTrue' /\ ("recommission" \in files' => migration'.app = "new")
  BY InstallNames DEF InstallInv, InstallRecordsAreTrue
<1> QED
  BY <1>1 DEF InstallInv, Transacting, RunsOn, Completed

(* Ending a run and going on in it.                                         *)
LEMMA DriverGoes ==
    ASSUME InstallInv
    PROVE  /\ Ends => driver' \in DriverStates /\ driver'.pc \notin Transacting \cup {"stop"}
           /\ \A pc \in DriverLabels \ (Transacting \cup {"stop"}) :
                 Goto(pc) => driver' \in DriverStates /\ driver'.pc \notin Transacting \cup {"stop"}
<1>1. NoRun \in DriverStates /\ NoRun.pc = "idle"
  BY DEF NoRun, DriverStates, DriverLabels
<1>2. ASSUME NEW pc \in DriverLabels \ (Transacting \cup {"stop"}), Goto(pc)
      PROVE  driver' \in DriverStates /\ driver'.pc \notin Transacting \cup {"stop"}
  BY <1>2 DEF InstallInv, DriverStates, Goto
<1> QED
  BY <1>1, <1>2 DEF Ends, Transacting

(* Steps of the driver outside the install stage.                           *)
LEMMA DriverInstalls == ASSUME InstallInv, DriverSteps, ~Killed PROVE InstallInv'
<1> USE DriverGoes
<1>1. ASSUME NEW s \in FileStages, Publishes(s) PROVE InstallInv'
  <2>1. files' \subseteq files \cup {NextFile(s)} /\ UNCHANGED <<migration, driver>>
    BY <1>1 DEF Publishes, WithFile
  <2>2. NextFile(s) \notin InstallStepNames
    BY <1>1, FilesAreNotSteps DEF Publishes
  <2>3. driver' \in DriverStates
    BY <2>1 DEF InstallInv
  <2> QED
    BY <2>1, <2>2, <2>3, InstallKept
<1>2. CASE CommandRun
  <2>1. PICK s \in DriverStages :
           driver' = [stage |-> s, pc |-> "guards", arg |-> "none"] /\ UNCHANGED <<files, migration>>
    BY <1>2 DEF CommandRun
  <2>2. driver' \in DriverStates /\ driver'.pc = "guards"
    BY <2>1 DEF DriverStates, DriverStages, DriverLabels
  <2> QED
    BY <2>1, <2>2, InstallKept DEF Transacting
<1>3. CASE CommonGuards
  <2>1. PICK pc \in {"session", "install", "acceptance", "run"} : Goto(pc) /\ UNCHANGED <<files, migration>>
    BY <1>3 DEF CommonGuards, FirstLabel
  <2> QED
    BY <2>1, InstallKept DEF DriverLabels, Transacting
<1>4. CASE GuardsRefuse \/ EntryEnds \/ EntryTemplate \/ EntryDraft \/ EntryFails
  <2>1. Ends /\ UNCHANGED <<files, migration>>
    BY <1>4 DEF GuardsRefuse, EntryEnds, EntryTemplate, EntryDraft, EntryFails
  <2> QED
    BY <2>1, InstallKept
<1>5. CASE OwnerSession
  BY <1>5, InstallKept DEF OwnerSession, DriverLabels, Transacting
<1>6. CASE SessionSteps
  <2>1. (Ends \/ UNCHANGED driver) /\ UNCHANGED <<files, migration>>
    BY <1>6 DEF SessionSteps
  <2> QED
    BY <2>1, InstallKept DEF InstallInv
<1>7. CASE Drift
  BY <1>7, InstallKept DEF Drift, driverVars, InstallInv
<1> QED
  BY <1>1, <1>2, <1>3, <1>4, <1>5, <1>6, <1>7 DEF DriverSteps, Enroll, Prepare, Ci, Receipt,
     PreparePublication, Finalize, Preserve, Seal, Updater, Export, Publish, FileStages

(* The acceptance stage and the ledger.                                     *)
LEMMA OthersInstall ==
    ASSUME InstallInv, AcceptanceSteps \/ ReleaseSteps \/ Notarize \/ BuildStage \/ PackageStage
    PROVE  InstallInv'
<1> USE DriverGoes
<1>1. CASE BuildStage \/ PackageStage \/ Notarize \/ CommandShipped \/ StartInstance
  <2>1. files' \subseteq files \cup {"notarized"} /\ UNCHANGED <<migration, driver>>
    BY <1>1 DEF BuildStage, PackageStage, Notarize, CommandShipped, StartInstance, driverVars
  <2> QED
    BY <2>1, InstallKept, InstallNames DEF InstallInv
<1>2. CASE BeginCollect \/ VerifyRemote
  <2>1. (Goto("start") \/ Goto("ledger") \/ Ends) /\ UNCHANGED <<files, migration>>
    BY <1>2 DEF BeginCollect, VerifyRemote
  <2> QED
    BY <2>1, InstallKept DEF DriverLabels, Transacting
<1>3. CASE CollectRefused \/ CollectEnds \/ AcceptanceResumes \/ RecordVerified
  <2>1. Ends /\ files' \subseteq files \cup {"runtime-acceptance", "verify-remote"} /\ UNCHANGED migration
    BY <1>3 DEF CollectRefused, CollectEnds, AcceptanceResumes, RecordVerified
  <2> QED
    BY <2>1, InstallKept, InstallNames
<1>4. CASE StartFails \/ Collects
  <2>1. /\ driver' = [driver EXCEPT !.pc = "stop", !.arg = GA_INSTANCES] /\ UNCHANGED migration
        /\ files' \subseteq files \cup CollectionFiles
    BY <1>4 DEF StartFails, Collects, CollectionFiles
  <2>2. driver' \in DriverStates /\ driver'.pc = "stop" /\ driver'.arg = GA_INSTANCES
    BY <2>1 DEF InstallInv, DriverStates, DriverLabels
  <2> QED
    BY <2>1, <2>2, InstallKept, InstallNames DEF CollectionFiles
<1>5. CASE StopInstance
  <2>1. PICK i \in driver.arg :
           driver.pc = "stop" /\ driver' = [driver EXCEPT !.arg = driver.arg \ {i}] /\ UNCHANGED <<files, migration>>
    BY <1>5 DEF StopInstance
  <2>2. driver.arg \ {i} \in SUBSET GA_INSTANCES
    BY <2>1 DEF InstallInv
  <2>3. driver' \in DriverStates /\ driver'.pc = "stop" /\ driver'.arg \in SUBSET GA_INSTANCES
    BY <2>1, <2>2 DEF InstallInv, DriverStates
  <2> QED
    BY <2>1, <2>3, InstallKept
<1> QED
  BY <1>1, <1>2, <1>3, <1>4, <1>5 DEF AcceptanceSteps, ReleaseSteps

(* What a transaction leaves, complete or interrupted, keeps every record   *)
(* true: an interrupted one takes back only what was not recorded.          *)
LEMMA TransactionKeeps ==
    ASSUME InstallInv, NEW step, RunsOn(step), UNCHANGED files,
           migration' \in {migration, Begun(step), Completed(step)}
    PROVE  /\ migration' \in Macs /\ InstallRecordsAreTrue'
           /\ "recommission" \in files' => migration'.app = "new"
<1>0. migration \in Macs /\ step \in {"archive-history", "decommission", "install-app", "recommission"}
  BY InstallNames DEF InstallInv, RunsOn
<1>1. CASE step = "archive-history"
  <2>1. Completed(step) = [migration EXCEPT !.history = "archived"]
    BY <1>1 DEF Completed
  <2>2. migration.history = "archived" => Completed(step) = migration
    BY <1>0, <2>1 DEF Macs
  <2>3. \/ Begun(step) = migration
        \/ Begun(step) = [migration EXCEPT !.history = "partial"] /\ migration.history # "archived"
    BY <1>1, <2>2 DEF Begun
  <2>4. \/ migration' = migration
        \/ migration' = [migration EXCEPT !.history = "archived"]
        \/ migration' = [migration EXCEPT !.history = "partial"] /\ migration.history # "archived"
    BY <2>1, <2>3
  <2>5. migration' \in Macs
    BY <1>0, <2>4 DEF Macs
  <2> QED
    BY <1>0, <2>4, <2>5 DEF InstallInv, InstallRecordsAreTrue, Macs
<1>2. CASE step = "decommission"
  <2>1. Completed(step) = [migration EXCEPT !.services = "dormant"]
    BY <1>2 DEF Completed
  <2>2. migration.services = "dormant" => Completed(step) = migration
    BY <1>0, <2>1 DEF Macs
  <2>3. \/ Begun(step) = migration
        \/ Begun(step) = [migration EXCEPT !.services = "stopping"] /\ migration.services # "dormant"
    BY <1>2, <2>2 DEF Begun
  <2>4. \/ migration' = migration
        \/ migration' = [migration EXCEPT !.services = "dormant"]
        \/ migration' = [migration EXCEPT !.services = "stopping"] /\ migration.services # "dormant"
    BY <2>1, <2>3
  <2>5. migration' \in Macs
    BY <1>0, <2>4 DEF Macs
  <2>6. migration.app # "new" /\ migration.services \in {"on", "stopping", "dormant"}
    BY <1>2 DEF RunsOn
  <2> QED
    BY <1>0, <2>4, <2>5, <2>6 DEF InstallInv, InstallRecordsAreTrue, Macs
<1>3. CASE step = "install-app"
  <2>1. Completed(step) = [migration EXCEPT !.app = "new"]
    BY <1>3 DEF Completed
  <2>2. migration.app = "new" => Completed(step) = migration
    BY <1>0, <2>1 DEF Macs
  <2>3. \/ Begun(step) = migration
        \/ Begun(step) = [migration EXCEPT !.app = "begun"] /\ migration.app # "new"
    BY <1>3, <2>2 DEF Begun
  <2>4. \/ migration' = migration
        \/ migration' = [migration EXCEPT !.app = "new"]
        \/ migration' = [migration EXCEPT !.app = "begun"] /\ migration.app # "new"
    BY <2>1, <2>3
  <2>5. migration' \in Macs
    BY <1>0, <2>4 DEF Macs
  <2> QED
    BY <1>0, <2>4, <2>5 DEF InstallInv, InstallRecordsAreTrue, Macs
<1>4. CASE step = "recommission"
  <2>1. Completed(step) = [migration EXCEPT !.services = "recommissioned"]
    BY <1>4 DEF Completed
  <2>2. migration.services = "recommissioned" => Completed(step) = migration
    BY <1>0, <2>1 DEF Macs
  <2>3. \/ Begun(step) = migration
        \/ Begun(step) = [migration EXCEPT !.services = "starting"] /\ migration.services # "recommissioned"
    BY <1>4, <2>2 DEF Begun
  <2>4. \/ migration' = migration
        \/ migration' = [migration EXCEPT !.services = "recommissioned"]
        \/ migration' = [migration EXCEPT !.services = "starting"] /\ migration.services # "recommissioned"
    BY <2>1, <2>3
  <2>5. migration' \in Macs
    BY <1>0, <2>4 DEF Macs
  <2>6. migration.app = "new" /\ migration.services \in {"dormant", "starting", "recommissioned"}
    BY <1>4 DEF RunsOn
  <2> QED
    BY <1>0, <2>4, <2>5, <2>6 DEF InstallInv, InstallRecordsAreTrue, Macs
<1> QED
  BY <1>0, <1>1, <1>2, <1>3, <1>4

(* A completed transaction stays complete.                                  *)
LEMMA CompletedStays ==
    ASSUME InstallInv, NEW step, RunsOn(step), migration' = Completed(step)
    PROVE  migration' = Completed(step)' /\ (step = "recommission" => migration'.app = "new")
<1>0. migration \in Macs /\ step \in {"archive-history", "decommission", "install-app", "recommission"}
  BY InstallNames DEF InstallInv, RunsOn
<1> QED
  BY <1>0 DEF Completed, Macs, RunsOn

(* The step that the driver starts or recovers runs on what it needs.       *)
LEMMA StartedRunsOn ==
    ASSUME InstallInv
    PROVE  /\ Unrecorded # {} /\ Startable(NextStep) => RunsOn(NextStep)
           /\ \A option \in INSTALL_RECOVERIES : RecoveredBy(option) # "none" => RunsOn(RecoveredBy(option))
<1>1. ASSUME Unrecorded # {}, Startable(NextStep) PROVE RunsOn(NextStep)
  <2> DEFINE i == CHOOSE i \in Unrecorded : \A j \in Unrecorded : i <= j
  <2>1. Unrecorded \in SUBSET (1..4)
    BY DEF Unrecorded, INSTALL_STEPS
  <2>2. i \in Unrecorded
    BY <1>1, <2>1, FirstOfFour
  <2>3. i \in 1..4 /\ NextStep = INSTALL_STEPS[i]
    BY <2>1, <2>2 DEF NextStep
  <2> HIDE DEF i
  <2>4. NextStep \in {"archive-history", "decommission", "install-app", "recommission"}
    BY <2>3 DEF INSTALL_STEPS
  <2>5. NextStep = "decommission" => migration.app = "old" /\ migration.services \in {"on", "stopping", "dormant"}
    BY <1>1 DEF Startable
  <2>6. NextStep = "recommission" =>
           migration.app = "new" /\ migration.services \in {"dormant", "starting", "recommissioned"}
    BY <1>1 DEF Startable
  <2> QED
    BY <2>4, <2>5, <2>6, InstallNames DEF RunsOn
<1>2. ASSUME NEW option \in INSTALL_RECOVERIES, RecoveredBy(option) # "none" PROVE RunsOn(RecoveredBy(option))
  <2>1. \/ RecoveredBy(option) = "install-app"
        \/ /\ RecoveredBy(option) = "decommission" /\ migration.app \in {"old", "begun"}
           /\ migration.services \in {"stopping", "dormant"}
        \/ /\ RecoveredBy(option) = "recommission" /\ migration.app = "new"
           /\ migration.services \in {"dormant", "starting", "recommissioned"}
    BY <1>2 DEF RecoveredBy, INSTALL_RECOVERIES
  <2> QED
    BY <2>1, InstallNames DEF RunsOn
<1> QED
  BY <1>1, <1>2

(* A recovery records the step it continued or, when the log does not say,  *)
(* none.                                                                    *)
LEMMA RecoveryRecords ==
    ASSUME RecordRecovery, driver.arg \in {"archive-history", "decommission", "install-app", "recommission"}
    PROVE  files' \in {files, files \cup {driver.arg}}
<1>1. PICK log \in {{ResultPhase(driver.arg)}, {}} :
         files' = files \/ (files' = files \cup ReportedSteps(log) /\ \E step \in InstallStepNames : ReportedSteps(log) = {step})
  BY DEF RecordRecovery
<1>2. ReportedSteps({}) = {}
  BY DEF ReportedSteps
<1>3. ReportedSteps({ResultPhase(driver.arg)}) \subseteq {driver.arg}
  BY DEF ReportedSteps, RecoveryProofs, ResultPhase
<1> QED
  BY <1>1, <1>2, <1>3

(* The install stage, transaction by transaction, and a kill anywhere.      *)
LEMMA InstallInstalls == ASSUME InstallInv, InstallSteps \/ Killed PROVE InstallInv'
<1> USE DriverGoes
<1>1. CASE InstallNext \/ InstallRecover
  <2>1. CASE Ends /\ UNCHANGED <<files, migration>>
    BY <2>1, InstallKept
  <2>2. ASSUME NEW step, NEW pc \in {"transaction", "recovery"}, RunsOn(step), Transaction(step, pc), UNCHANGED <<files, migration>>
        PROVE  InstallInv'
    <3>1. step \in InstallStepNames
      BY <2>2 DEF RunsOn
    <3>2. driver' \in DriverStates /\ driver'.pc = pc /\ driver'.arg = step
      BY <2>2, <3>1 DEF InstallInv, DriverStates, DriverLabels, Transaction
    <3>3. RunsOn(step)'
      BY <2>2 DEF RunsOn
    <3> QED
      BY <2>2, <3>2, <3>3 DEF InstallInv, InstallRecordsAreTrue, RunsOn
  <2>3. CASE InstallNext
    BY <2>1, <2>2, <2>3, StartedRunsOn DEF InstallNext
  <2>4. CASE InstallRecover
    BY <2>2, <2>4, StartedRunsOn DEF InstallRecover
  <2> QED
    BY <1>1, <2>3, <2>4
<1>2. CASE TransactionSucceeds
  <2>0. PICK step : step = driver.arg
    OBVIOUS
  <2>1. /\ driver.pc \in {"transaction", "recovery"} /\ migration' = Completed(step) /\ UNCHANGED files
        /\ driver' = [driver EXCEPT !.pc = IF driver.pc = "recovery" THEN "record-recovery" ELSE "record"]
    BY <1>2, <2>0 DEF TransactionSucceeds
  <2>2. RunsOn(step) /\ step \in InstallStepNames
    BY <2>0, <2>1 DEF InstallInv, RunsOn
  <2>3. migration' \in Macs /\ InstallRecordsAreTrue' /\ ("recommission" \in files' => migration'.app = "new")
    BY <2>1, <2>2, TransactionKeeps
  <2>4. PICK pc \in {"record-recovery", "record"} : driver' = [driver EXCEPT !.pc = pc]
    BY <2>1
  <2>5. driver' \in DriverStates /\ driver'.pc = pc /\ driver'.arg = step
    BY <2>0, <2>4 DEF InstallInv, DriverStates, DriverLabels
  <2>6. migration' = Completed(step)' /\ (step = "recommission" => migration'.app = "new")
    BY <2>1, <2>2, CompletedStays
  <2>7. migration' = Completed(driver.arg)'
    BY <2>5, <2>6 DEF Completed
  <2> QED
    BY <2>2, <2>3, <2>4, <2>5, <2>6, <2>7 DEF InstallInv
<1>3. CASE TransactionFails \/ Killed
  <2>1. Ends /\ UNCHANGED files /\ (UNCHANGED migration \/ (driver.pc \in {"transaction", "recovery"}
          /\ migration' \in {migration, Begun(driver.arg), Completed(driver.arg)}))
    BY <1>3 DEF TransactionFails, Killed, ChildEffect
  <2>2. CASE UNCHANGED migration
    BY <2>1, <2>2, InstallKept
  <2>3. CASE driver.pc \in {"transaction", "recovery"} /\ migration' \in {migration, Begun(driver.arg), Completed(driver.arg)}
    <3>1. RunsOn(driver.arg)
      BY <2>3 DEF InstallInv
    <3>2. /\ migration' \in Macs /\ InstallRecordsAreTrue' /\ ("recommission" \in files' => migration'.app = "new")
      BY <2>1, <2>3, <3>1, TransactionKeeps
    <3> QED
      BY <2>1, <3>2 DEF InstallInv, Transacting
  <2> QED
    BY <2>1, <2>2, <2>3
<1>4. CASE RecordInstallStep \/ RecordRecovery
  <2>0. driver.pc \in {"record", "record-recovery"} => driver.arg \in {"archive-history", "decommission", "install-app", "recommission"}
    BY InstallNames DEF InstallInv
  <2>1. /\ driver.pc \in {"record", "record-recovery"} /\ files' \in {files, files \cup {driver.arg}} /\ UNCHANGED migration
        /\ driver' = NoRun \/ driver' = [driver EXCEPT !.pc = "install", !.arg = "resumed"]
    <3>1. CASE RecordInstallStep
      BY <3>1 DEF RecordInstallStep
    <3>2. CASE RecordRecovery
      <4>1. driver.pc = "record-recovery" /\ driver' = NoRun /\ UNCHANGED migration
        BY <3>2 DEF RecordRecovery, Ends
      <4> QED
        BY <2>0, <3>2, <4>1, RecoveryRecords
    <3> QED
      BY <1>4, <3>1, <3>2
  <2>2. driver' \in DriverStates /\ driver'.pc \in {"idle", "install"}
    <3>1. NoRun \in DriverStates /\ NoRun.pc = "idle"
      BY DEF NoRun, DriverStates, DriverLabels
    <3>2. CASE driver' = [driver EXCEPT !.pc = "install", !.arg = "resumed"]
      BY <3>2 DEF InstallInv, DriverStates, DriverLabels
    <3> QED
      BY <2>1, <3>1, <3>2
  <2>3. /\ driver.arg \in {"archive-history", "decommission", "install-app", "recommission"}
        /\ migration = Completed(driver.arg) /\ migration \in Macs
        /\ driver.arg = "recommission" => migration.app = "new"
    BY <2>1, InstallNames DEF InstallInv
  <2>4. /\ driver.arg = "archive-history" => migration.history = "archived"
        /\ driver.arg = "decommission" => migration.services = "dormant"
        /\ driver.arg = "install-app" => migration.app = "new"
        /\ driver.arg = "recommission" => migration.services = "recommissioned"
    BY <2>3 DEF Completed, Macs
  <2> QED
    BY <2>1, <2>2, <2>3, <2>4 DEF InstallInv, InstallRecordsAreTrue
<1>5. CASE RequireInstalledRelease
  BY <1>5, InstallKept DEF RequireInstalledRelease
<1> QED
  BY <1>1, <1>2, <1>3, <1>4, <1>5 DEF InstallSteps

(* The install's invariant, in every release.                               *)
LEMMA InstallSafe == ReleaseSpec => []InstallInv
<1>1. DriverInit => InstallInv
  BY DEF DriverInit, InstallInv, InstallRecordsAreTrue, NoRun, OldMac, DriverStates, DriverLabels, Macs
<1>2. InstallInv /\ [ReleaseNext]_releaseVars => InstallInv'
  <2> SUFFICES ASSUME InstallInv, [ReleaseNext]_releaseVars PROVE InstallInv'
    OBVIOUS
  <2>1. CASE UNCHANGED releaseVars
    <3>1. UNCHANGED <<driver, migration, files>>
      BY <2>1 DEF releaseVars, driverVars
    <3> QED
      BY <3>1, InstallKept DEF InstallInv
  <2>2. CASE ReleaseNext
    BY <2>2, DriverInstalls, OthersInstall, InstallInstalls DEF ReleaseNext
  <2> QED
    BY <2>1, <2>2
<1> QED
  BY <1>1, <1>2, PTL DEF ReleaseSpec

(* An install step is recorded only when its transaction is complete on the *)
(* Mac, whichever runs, recoveries, failures and kills came in between      *)
(* (_record_install_step and _recover_install of the release driver).       *)
THEOREM RecordsAreTrue == ReleaseSpec => []InstallRecordsAreTrue
<1>1. InstallInv => InstallRecordsAreTrue
  BY DEF InstallInv
<1> QED
  BY <1>1, InstallSafe, PTL
-----------------------------------------------------------------------------
(* The order of the stages.  A stage may run when every earlier one is done *)
(* and stays so, and what becomes done was next.                            *)

EarlierDone(s) == \E i \in DOMAIN STAGES : STAGES[i] = s /\ \A j \in 1..(i - 1) : Done(STAGES[j])

(* The stages, by name and place.                                           *)
LEMMA StageList ==
    /\ DOMAIN STAGES = 1..22 /\ Len(STAGES) = 22
    /\ StageNames = {"enroll", "prepare", "ci", "build", "receipt", "review-template", "review",
          "publication-prepare", "draft", "legal-review", "finalize", "preserve", "seal-prepackage",
          "dmg", "updater", "install", "export", "acceptance", "seal-ga-acceptance",
          "seal-publication", "publish", "verify-remote"}
<1>1. DOMAIN STAGES = 1..22 /\ Len(STAGES) = 22
  BY DEF STAGES
<1>2. \A i \in 1..22 : STAGES[i] \in {"enroll", "prepare", "ci", "build", "receipt", "review-template", "review",
          "publication-prepare", "draft", "legal-review", "finalize", "preserve", "seal-prepackage",
          "dmg", "updater", "install", "export", "acceptance", "seal-ga-acceptance",
          "seal-publication", "publish", "verify-remote"}
  BY DEF STAGES
<1>3. \A s \in {"enroll", "prepare", "ci", "build", "receipt", "review-template", "review",
          "publication-prepare", "draft", "legal-review", "finalize", "preserve", "seal-prepackage",
          "dmg", "updater", "install", "export", "acceptance", "seal-ga-acceptance",
          "seal-publication", "publish", "verify-remote"} : \E i \in 1..22 : STAGES[i] = s
  BY DEF STAGES
<1> QED
  BY <1>1, <1>2, <1>3 DEF StageNames

LEMMA StagesDiffer == \A i, j \in 1..22 : STAGES[i] = STAGES[j] => i = j
  BY SMTT(60) DEF STAGES

(* What each stage is known by.                                             *)
DoneTable ==
    /\ Done("enroll") <=> "target" \in files /\ "enroll" \in files
    /\ Done("prepare") <=> "prepare" \in files
    /\ Done("ci") <=> "ci" \in files
    /\ Done("build") <=> "notarized" \in files
    /\ Done("receipt") <=> "hosted-ci" \in files
    /\ Done("review-template") <=> template # Review!Absent
    /\ Done("review") <=> review.reviewed # Review!Absent
    /\ Done("publication-prepare") <=> "publication-prepared" \in files \/ "publication" \in files
    /\ Done("draft") <=> draft # Review!Absent \/ "publication" \in files
    /\ Done("legal-review") <=> legal.final # Review!Absent /\ review.approval # Review!Absent
    /\ Done("finalize") <=> "publication" \in files
    /\ Done("preserve") <=> "tree-identity" \in files
    /\ Done("seal-prepackage") <=> "seal-prepackage" \in files
    /\ Done("dmg") <=> final # Dmg!NoSet
    /\ Done("updater") <=> "updater-seal" \in files
    /\ Done("install") <=> /\ "archive-history" \in files /\ "decommission" \in files
                           /\ "install-app" \in files /\ "recommission" \in files
    /\ Done("export") <=> "migration-journals" \in files
    /\ Done("acceptance") <=> "runtime-acceptance" \in files
    /\ Done("seal-ga-acceptance") <=> "seal-ga-acceptance" \in files
    /\ Done("seal-publication") <=> "publication-seal" \in files /\ "distribution-seal" \in files
    /\ Done("publish") <=> "publish" \in files
    /\ Done("verify-remote") <=> "verify-remote" \in files

LEMMA DoneIs == DoneTable
  BY InstallNames DEF DoneTable, Done, LastFile, Artifacts, PublicationDone, PreparePublicationDone, LegalReviewDone, InstallDone

LEMMA DoneThen == DoneTable'
  BY DoneIs, PTL

-----------------------------------------------------------------------------
\* What is done stays done, and what becomes done was next.
Stays == \A s \in StageNames : Done(s) => Done(s)'
Fresh == \A s \in StageNames : Done(s)' => Done(s) \/ EarlierDone(s)

InOrder == \A i, j \in DOMAIN STAGES : j < i /\ Done(STAGES[i]) => Done(STAGES[j])
ReviewLabels == {"compare", "comparison", "ask", "reviewed", "decisions"}
LegalLabels == {"legal", "pending", "link", "unlink", "approval"}
\* Which stage a label of the driver and of its session belongs to, and what the session holds.
Labelled ==
    /\ legal = [f \in {"pending", "final"} |-> legal[f]]
    /\ driver.pc \in {"install"} \cup Transacting => driver.stage = "install"
    /\ driver.pc \in {"acceptance", "start", "stop"} => driver.stage = "acceptance"
    /\ driver.pc = "ledger" => driver.stage = "verify-remote"
    /\ driver.pc = "session" => driver.stage \in {"review", "legal-review"}
    /\ driver.pc = "asking" => \/ driver.stage = "review" /\ session.pc \in ReviewLabels
                               \/ driver.stage = "legal-review" /\ session.pc \in LegalLabels
    /\ session.pc \in {"reviewed", "decisions"} => session.doc.kind = "whole"
OrderInv ==
    /\ InOrder /\ Labelled
    /\ driver.stage # "none" => EarlierDone(driver.stage)
    /\ run # Dmg!Idle => EarlierDone("dmg")

(* The order survives a step that only does what was next.                  *)
LEMMA OrderKept ==
    ASSUME OrderInv, Stays, Fresh, Labelled', run' = run \/ EarlierDone("dmg"),
           driver'.stage \in {"none", driver.stage} \/ EarlierDone(driver'.stage)
    PROVE  OrderInv'
<1> USE StageList
<1>0. \A i \in 1..22 : STAGES[i] \in StageNames
  BY DEF StageNames
<1>1. ASSUME NEW s, EarlierDone(s) PROVE EarlierDone(s)'
  <2>1. PICK i \in 1..22 : STAGES[i] = s /\ \A j \in 1..(i - 1) : Done(STAGES[j])
    BY <1>1 DEF EarlierDone
  <2>2. ASSUME NEW j \in 1..(i - 1) PROVE Done(STAGES[j])'
    BY <1>0, <2>1, <2>2 DEF Stays
  <2> QED
    BY <2>1, <2>2 DEF EarlierDone
<1>2. ASSUME NEW i \in 1..22, NEW j \in 1..22, j < i, Done(STAGES[i])' PROVE Done(STAGES[j])'
  <2>1. CASE Done(STAGES[i])
    BY <1>0, <1>2, <2>1 DEF OrderInv, InOrder, Stays
  <2>2. CASE EarlierDone(STAGES[i])
    <3>1. PICK k \in 1..22 : STAGES[k] = STAGES[i] /\ \A l \in 1..(k - 1) : Done(STAGES[l])
      BY <2>2 DEF EarlierDone
    <3>2. k = i
      BY <3>1, StagesDiffer
    <3> QED
      BY <1>0, <1>2, <3>1, <3>2 DEF Stays
  <2> QED
    BY <1>0, <1>2, <2>1, <2>2 DEF Fresh
<1>3. InOrder'
  BY <1>2 DEF InOrder
<1>4. PICK s : s = driver'.stage
  OBVIOUS
<1>5. s # "none" => EarlierDone(s)'
  BY <1>1, <1>4 DEF OrderInv
<1>6. run' # Dmg!Idle => EarlierDone("dmg")'
  BY <1>1 DEF OrderInv
<1>7. driver'.stage # "none" => EarlierDone(driver.stage)'
  BY <1>4, <1>5 DEF EarlierDone
<1> QED
  BY <1>3, <1>6, <1>7 DEF OrderInv

(* Steps that change nothing a stage is known by.                           *)
LEMMA NothingNew ==
    ASSUME UNCHANGED <<files, template, review, draft, legal, final>>
    PROVE  Stays /\ Fresh
  BY StageList, DoneIs, DoneThen DEF Stays, Fresh, DoneTable

(* Going on, ending, staying: the labels of the driver.                     *)
LEMMA LabelsKept ==
    ASSUME OrderInv, InstallInv, UNCHANGED <<session, legal>>
    PROVE  /\ UNCHANGED driver => Labelled'
           /\ Ends => Labelled' /\ driver'.stage = "none"
           /\ \A pc \in {"install", "transaction", "recovery", "record", "record-recovery"} :
                 driver.stage = "install" /\ Goto(pc) => Labelled' /\ driver'.stage = driver.stage
           /\ \A pc \in {"acceptance", "start", "stop"} :
                 driver.stage = "acceptance" /\ Goto(pc) => Labelled' /\ driver'.stage = driver.stage
           /\ driver.stage = "verify-remote" /\ Goto("ledger") => Labelled' /\ driver'.stage = driver.stage
           /\ driver.stage \in {"review", "legal-review"} /\ Goto("session") => Labelled' /\ driver'.stage = driver.stage
           /\ Goto("run") => Labelled' /\ driver'.stage = driver.stage
<1>1. UNCHANGED driver => Labelled'
  BY DEF OrderInv, Labelled
<1>2. Ends => Labelled' /\ driver'.stage = "none"
  BY DEF OrderInv, Labelled, Ends, NoRun, Transacting
<1>3. ASSUME NEW pc \in DriverLabels, Goto(pc) PROVE driver'.pc = pc /\ driver'.stage = driver.stage
  BY <1>3 DEF InstallInv, DriverStates, Goto
<1> QED
  BY <1>1, <1>2, <1>3 DEF OrderInv, Labelled, Transacting, DriverLabels

(* A stage publishing one of its files.                                     *)
LEMMA FilesInOrder ==
    ASSUME OrderInv, NEW s \in FileStages, Publishes(s)
    PROVE  Stays /\ Fresh
<1>1. /\ driver.stage = s /\ Missing(s) # {} /\ files' = WithFile(NextFile(s))
      /\ UNCHANGED <<template, review, draft, legal, final>>
  BY DEF Publishes, Runs, pipelineVars, dmgVars, reviewVars
<1>2. EarlierDone(s)
  BY <1>1 DEF OrderInv, FileStages
<1>3. PICK n \in 1..4 : n \in DOMAIN Artifacts(s) /\ NextFile(s) = Artifacts(s)[n]
  BY <1>1, NextFileOf DEF Missing
<1>4. /\ s = "finalize" => Done("publication-prepare") /\ Done("draft")
      /\ s = "preserve" => Done("finalize")
  BY <1>2, StageList, StagesDiffer, SMTT(30) DEF EarlierDone, STAGES
<1>5. \A t \in StageNames : Done(t)' => Done(t) \/ t = s
  BY <1>1, <1>3, <1>4, StageList, DoneIs, DoneThen, SMTT(30) DEF DoneTable, FileStages, Artifacts, WithFile
<1>6. Stays
  BY <1>1, <1>3, <1>4, StageList, DoneIs, DoneThen DEF Stays, DoneTable, FileStages, Artifacts, WithFile
<1> QED
  BY <1>2, <1>5, <1>6 DEF Fresh

(* A stage that became done because one of its own marks appeared.          *)
LEMMA OneNew ==
    ASSUME OrderInv, NEW s \in StageNames, EarlierDone(s), \A t \in StageNames : Done(t)' => Done(t) \/ t = s
    PROVE  Fresh
  BY DEF Fresh

(* The driver's steps outside its stages' tools and sessions.               *)
LEMMA DriverInOrder ==
    ASSUME OrderInv, InstallInv, DriverSteps, ~OwnerSession, ~SessionSteps
    PROVE  OrderInv'
<1>1. ASSUME NEW s \in FileStages, Publishes(s) PROVE OrderInv'
  <2>1. UNCHANGED <<driver, session, legal, run>>
    BY <1>1 DEF Publishes, pipelineVars, dmgVars, reviewVars
  <2> QED
    BY <1>1, <2>1, FilesInOrder, LabelsKept, OrderKept
<1>2. CASE CommandRun
  <2>1. PICK s \in DriverStages : /\ Admitted(s) /\ driver' = [stage |-> s, pc |-> "guards", arg |-> "none"]
                                  /\ UNCHANGED <<files, template, review, draft, legal, session, final, run>>
    BY <1>2 DEF CommandRun, pipelineVars, dmgVars, reviewVars
  <2>2. EarlierDone(s)
    <3>1. CASE FirstPending(s)
      BY <3>1 DEF FirstPending, EarlierDone
    <3>2. CASE Done(s) /\ s = "export"
      <4>1. \A j \in 1..(17 - 1) : Done(STAGES[j])
        <5>1. STAGES[17] = "export"
          BY DEF STAGES
        <5> QED
          BY <3>2, <5>1, StageList DEF OrderInv, InOrder
      <4> QED
        BY <3>2, <4>1, StageList DEF EarlierDone, STAGES
    <3> QED
      BY <2>1, <3>1, <3>2 DEF Admitted, REPEATABLE_WHEN_DONE
  <2>3. driver'.stage = s /\ driver'.pc = "guards"
    BY <2>1
  <2>4. Labelled'
    BY <2>1, <2>3 DEF OrderInv, Labelled, Transacting
  <2> QED
    BY <2>1, <2>2, <2>3, <2>4, NothingNew, OrderKept
<1>3. CASE CommonGuards
  <2>1. UNCHANGED <<files, template, review, draft, legal, session, final, run>> /\ Goto(FirstLabel(driver.stage))
    BY <1>3 DEF CommonGuards, pipelineVars, dmgVars, reviewVars
  <2>2. \/ driver.stage \in {"review", "legal-review"} /\ Goto("session")
        \/ driver.stage = "install" /\ Goto("install")
        \/ driver.stage = "acceptance" /\ Goto("acceptance")
        \/ Goto("run")
    BY <2>1 DEF FirstLabel
  <2>3. Labelled' /\ driver'.stage = driver.stage
    BY <2>1, <2>2, LabelsKept
  <2> QED
    BY <2>1, <2>3, NothingNew, OrderKept
<1>4. CASE GuardsRefuse \/ EntryEnds \/ EntryFails \/ Killed
  <2>1. UNCHANGED <<files, template, review, draft, legal, session, final, run>> /\ Ends
    BY <1>4 DEF GuardsRefuse, EntryEnds, EntryFails, Killed, ChildEffect, pipelineVars, dmgVars, reviewVars
  <2> QED
    BY <2>1, NothingNew, LabelsKept, OrderKept
<1>5. CASE EntryTemplate
  <2>1. /\ UNCHANGED <<files, review, draft, legal, session, final, run>> /\ Ends
        /\ driver.stage = "review-template" /\ template = Review!Absent
    BY <1>5 DEF EntryTemplate, Runs, pipelineVars, dmgVars
  <2>2. EarlierDone("review-template") /\ "review-template" \in StageNames
    BY <2>1, StageList DEF OrderInv
  <2>3. Stays /\ \A t \in StageNames : Done(t)' => Done(t) \/ t = "review-template"
    BY <2>1, StageList, DoneIs, DoneThen DEF Stays, DoneTable
  <2> QED
    BY <2>1, <2>2, <2>3, OneNew, LabelsKept, OrderKept
<1>6. CASE EntryDraft
  <2>1. /\ UNCHANGED <<files, template, review, legal, session, final, run>> /\ Ends
        /\ driver.stage = "draft" /\ draft' = Review!Doc(review.reviewed.of)
    BY <1>6 DEF EntryDraft, Runs, pipelineVars, dmgVars
  <2>2. EarlierDone("draft") /\ "draft" \in StageNames
    BY <2>1, StageList DEF OrderInv
  <2>3. draft' # Review!Absent
    BY <2>1 DEF Review!Doc, Review!Absent
  <2>4. Stays /\ \A t \in StageNames : Done(t)' => Done(t) \/ t = "draft"
    BY <2>1, <2>3, StageList, DoneIs, DoneThen DEF Stays, DoneTable
  <2> QED
    BY <2>1, <2>2, <2>4, OneNew, LabelsKept, OrderKept
<1>7. CASE Drift
  BY <1>7, NothingNew, LabelsKept, OrderKept DEF Drift, Review!EvidenceDrift, driverVars, pipelineVars, dmgVars
<1> QED
  BY <1>1, <1>2, <1>3, <1>4, <1>5, <1>6, <1>7 DEF DriverSteps, Enroll, Prepare, Ci, Receipt,
     PreparePublication, Finalize, Preserve, Seal, Updater, Export, Publish, FileStages

(* The owner's sessions: the review and the legal review.                   *)
LEMMA SessionBegins == ASSUME OrderInv, InstallInv, ReviewInv, OwnerSession PROVE OrderInv'
<1>1. /\ UNCHANGED <<files, template, review, draft, legal, final, run>> /\ Goto("asking") /\ driver.pc = "session"
      /\ IF driver.stage = "review" THEN Review!BeginReview ELSE Review!BeginLegal
  BY DEF OwnerSession, Review!BeginReview, Review!BeginLegal, pipelineVars, dmgVars
<1>2. driver'.pc = "asking" /\ driver'.stage = driver.stage /\ driver.stage \in {"review", "legal-review"}
  BY <1>1 DEF OrderInv, Labelled, InstallInv, DriverStates, Goto
<1>3. PICK label : /\ session' = [session EXCEPT !.pc = label]
                   /\ label \in IF driver.stage = "review" THEN {"compare", "ask"} ELSE {"legal"}
  BY <1>1 DEF Review!BeginReview, Review!BeginLegal, Review!Goto
<1>4. session'.pc = label
  BY <1>3 DEF ReviewInv, Shaped
<1>5. Labelled'
  BY <1>1, <1>2, <1>3, <1>4 DEF OrderInv, Labelled, Transacting, ReviewLabels, LegalLabels
<1> QED
  BY <1>1, <1>2, <1>5, NothingNew, OrderKept

(* What a session leaves of the marks, and of itself.                       *)
LEMMA ReviewMarks ==
    ASSUME OrderInv, ReviewInv, Review!Steps, session.pc \in ReviewLabels
    PROVE  /\ UNCHANGED <<template, draft, legal>> /\ review'.approval = review.approval
           /\ review.reviewed # Review!Absent => review'.reviewed # Review!Absent
           /\ session' = Review!Quiet \/ session'.pc \in ReviewLabels
           /\ session'.pc \in {"reviewed", "decisions"} => session'.doc.kind = "whole"
<1>0. /\ review = [f \in ReviewFiles |-> review[f]] /\ session = [f \in {"pc", "kind", "doc"} |-> session[f]]
      /\ session.pc \in {"reviewed", "decisions"} => session.doc.kind = "whole"
  BY DEF ReviewInv, Shaped, OrderInv, Labelled
<1>1. CASE Review!CompareWrites
  <2>1. PICK kind \in {"complete", "pending"} :
           /\ review' = [review EXCEPT ![IF kind = "complete" THEN "reviewed" ELSE "pending"] = Review!Doc(Review!Carried)]
           /\ session' = [session EXCEPT !.pc = "comparison", !.kind = kind]
           /\ UNCHANGED <<template, draft, legal>>
    BY <1>1 DEF Review!CompareWrites, Review!Write
  <2>2. Review!Doc(Review!Carried) # Review!Absent
    BY DEF Review!Doc, Review!Absent
  <2>3. session'.pc = "comparison"
    BY <1>0, <2>1
  <2> QED
    BY <1>0, <2>1, <2>2, <2>3 DEF ReviewFiles, ReviewLabels
<1>2. CASE Review!WriteComparison
  <2>1. /\ review' = [review EXCEPT !["comparison"] = Review!ComparisonOf(session.kind)]
        /\ session' = Review!Quiet \/ session' = [session EXCEPT !.pc = "ask"]
        /\ UNCHANGED <<template, draft, legal>>
    BY <1>2 DEF Review!WriteComparison, Review!Write, Review!Leave, Review!Goto
  <2>2. session' = Review!Quiet \/ session'.pc = "ask"
    BY <1>0, <2>1
  <2> QED
    BY <1>0, <2>1, <2>2 DEF ReviewFiles, ReviewLabels, Review!Quiet
<1>3. CASE Review!Decide
  <2>1. PICK d : session' = [session EXCEPT !.pc = "reviewed", !.doc = Review!Doc(d)]
                 /\ UNCHANGED <<template, review, draft, legal>>
    BY <1>3 DEF Review!Decide
  <2>2. session'.pc = "reviewed" /\ session'.doc = Review!Doc(d)
    BY <1>0, <2>1
  <2> QED
    BY <2>1, <2>2, SMTT(30) DEF Review!Doc, ReviewLabels
<1>4. CASE Review!WriteReviewed
  <2>1. /\ session.pc = "reviewed" /\ review' = [review EXCEPT !["reviewed"] = session.doc]
        /\ session' = [session EXCEPT !.pc = "decisions"] /\ UNCHANGED <<template, draft, legal>>
    BY <1>4 DEF Review!WriteReviewed, Review!Write, Review!Goto, Review!At
  <2>2. session'.pc = "decisions" /\ session'.doc = session.doc
    BY <1>0, <2>1
  <2>3. session.doc # Review!Absent
    BY <1>0, <2>1 DEF Review!Absent
  <2> QED
    BY <1>0, <2>1, <2>2, <2>3 DEF ReviewFiles, ReviewLabels
<1>5. CASE Review!WriteDecisions
  <2>1. PICK d : /\ review' = [review EXCEPT !["decisions"] = d] /\ session' = Review!Quiet
                 /\ UNCHANGED <<template, draft, legal>>
    BY <1>5 DEF Review!WriteDecisions, Review!Write, Review!Leave
  <2> QED
    BY <1>0, <2>1 DEF ReviewFiles, Review!Quiet
<1>6. CASE (Review!Refuse \/ Review!OwnerAborts \/ Review!Crash) /\ UNCHANGED review
  BY <1>6 DEF Review!Refuse, Review!OwnerAborts, Review!Crash, Review!Leave, Review!At, ReviewLabels, Review!Quiet
<1>7. CASE Review!Crash /\ ~UNCHANGED review
  <2>1. /\ session' = Review!Quiet /\ UNCHANGED <<template, draft, legal>>
        /\ session.pc \in DOMAIN Review!Writing /\ review[Review!Writing[session.pc]] = Review!Absent
        /\ \E file \in {"pending", Review!Writing[session.pc]} : review' = [review EXCEPT ![file] = Review!Torn]
    BY <1>7 DEF Review!Crash, Review!Leave, Review!Write
  <2>2. Review!Writing[session.pc] \in {"reviewed", "comparison", "decisions"}
    BY <2>1 DEF Review!Writing, ReviewLabels
  <2>4. PICK file \in {"pending", "reviewed", "comparison", "decisions"} : review' = [review EXCEPT ![file] = Review!Torn]
    BY <2>1, <2>2
  <2>3. Review!Torn # Review!Absent
    BY DEF Review!Torn, Review!Absent
  <2> QED
    BY <1>0, <2>1, <2>3, <2>4 DEF ReviewFiles, Review!Quiet
<1>8. ~Review!LegalSteps
  BY DEF Review!LegalSteps, Review!Approve, Review!WriteLegalPending, Review!LinkLegal, Review!UnlinkLegal,
       Review!WriteApproval, Review!At, ReviewLabels
<1> QED
  BY <1>1, <1>2, <1>3, <1>4, <1>5, <1>6, <1>7, <1>8 DEF Review!Steps, Review!ReviewSteps, Review!Refuse, Review!OwnerAborts

LEMMA LegalMarks ==
    ASSUME OrderInv, ReviewInv, Review!Steps, session.pc \in LegalLabels
    PROVE  /\ UNCHANGED <<template, draft>> /\ review'.reviewed = review.reviewed
           /\ legal' = [f \in {"pending", "final"} |-> legal'[f]]
           /\ legal.final # Review!Absent => legal'.final = legal.final
           /\ review.approval # Review!Absent => review'.approval # Review!Absent
           /\ session' = Review!Quiet \/ session'.pc \in LegalLabels
<1>0. /\ review = [f \in ReviewFiles |-> review[f]] /\ session = [f \in {"pc", "kind", "doc"} |-> session[f]]
      /\ legal = [f \in {"pending", "final"} |-> legal[f]]
  BY DEF ReviewInv, Shaped, OrderInv, Labelled
<1>1. CASE Review!Approve
  <2>1. session' = [session EXCEPT !.pc = "pending", !.doc = Review!Doc(draft.of)] /\ UNCHANGED <<template, review, draft, legal>>
    BY <1>1 DEF Review!Approve
  <2>2. session'.pc = "pending"
    BY <1>0, <2>1
  <2> QED
    BY <1>0, <2>1, <2>2 DEF LegalLabels
<1>2. CASE Review!WriteLegalPending \/ Review!LinkLegal \/ Review!UnlinkLegal
  <2>1. PICK label \in {"link", "unlink", "approval"}, f \in {"pending", "final"} :
           /\ session' = [session EXCEPT !.pc = label] /\ \E d : legal' = [legal EXCEPT ![f] = d]
           /\ f = "final" => legal.final = Review!Absent
           /\ UNCHANGED <<template, review, draft>>
    BY <1>2 DEF Review!WriteLegalPending, Review!LinkLegal, Review!UnlinkLegal, Review!Goto
  <2>2. session'.pc = label
    BY <1>0, <2>1
  <2> QED
    BY <1>0, <2>1, <2>2 DEF LegalLabels
<1>3. CASE Review!WriteApproval
  <2>1. PICK d : /\ review' = [review EXCEPT !["approval"] = d] /\ session' = Review!Quiet
                 /\ review.approval = Review!Absent /\ UNCHANGED <<template, draft, legal>>
    BY <1>3 DEF Review!WriteApproval, Review!Write, Review!Leave
  <2> QED
    BY <1>0, <2>1 DEF ReviewFiles
<1>4. CASE (Review!Refuse \/ Review!OwnerAborts \/ Review!Crash) /\ UNCHANGED review
  <2>1. /\ legal' = legal \/ \E d : legal' = [legal EXCEPT !.pending = d]
        /\ session' = Review!Quiet /\ UNCHANGED <<template, draft>>
    BY <1>4 DEF Review!Refuse, Review!OwnerAborts, Review!Crash, Review!Leave
  <2> QED
    BY <1>0, <1>4, <2>1
<1>5. CASE Review!Crash /\ ~UNCHANGED review
  <2>1. /\ session' = Review!Quiet /\ UNCHANGED <<template, draft, legal>>
        /\ session.pc \in DOMAIN Review!Writing /\ session.pc \notin {"compare"}
        /\ review[Review!Writing[session.pc]] = Review!Absent
        /\ review' = [review EXCEPT ![Review!Writing[session.pc]] = Review!Torn]
    BY <1>5 DEF Review!Crash, Review!Leave, Review!Write, Review!At, LegalLabels
  <2>2. Review!Writing[session.pc] = "approval"
    BY <2>1 DEF Review!Writing, LegalLabels
  <2> QED
    BY <1>0, <2>1, <2>2 DEF ReviewFiles
<1>6. ~Review!ReviewSteps
  BY DEF Review!ReviewSteps, Review!CompareWrites, Review!WriteComparison, Review!Decide, Review!WriteReviewed,
       Review!WriteDecisions, Review!At, LegalLabels
<1> QED
  BY <1>1, <1>2, <1>3, <1>4, <1>5, <1>6 DEF Review!Steps, Review!LegalSteps, Review!Refuse, Review!OwnerAborts

(* A session works for the stage it was started for.                        *)
LEMMA SessionsInOrder == ASSUME OrderInv, InstallInv, ReviewInv, SessionSteps PROVE OrderInv'
<1>1. /\ driver.pc = "asking" /\ Review!Steps /\ UNCHANGED <<files, final, run>>
      /\ (session' = Review!Quiet /\ driver' = NoRun) \/ (session' # Review!Quiet /\ driver' = driver)
  BY DEF SessionSteps, Ends, pipelineVars, dmgVars
<1>2. CASE driver.stage = "review" /\ session.pc \in ReviewLabels
  <2>1. /\ UNCHANGED <<template, draft, legal>> /\ review'.approval = review.approval
        /\ review.reviewed # Review!Absent => review'.reviewed # Review!Absent
        /\ session' = Review!Quiet \/ session'.pc \in ReviewLabels
        /\ session'.pc \in {"reviewed", "decisions"} => session'.doc.kind = "whole"
    BY <1>1, <1>2, ReviewMarks
  <2>2. EarlierDone("review") /\ "review" \in StageNames
    BY <1>2, StageList DEF OrderInv
  <2>3. Stays /\ \A t \in StageNames : Done(t)' => Done(t) \/ t = "review"
    BY <1>1, <2>1, StageList, DoneIs, DoneThen DEF Stays, DoneTable
  <2>4. Labelled' /\ driver'.stage \in {"none", driver.stage}
    BY <1>1, <1>2, <2>1 DEF OrderInv, Labelled, NoRun, Transacting
  <2> QED
    BY <1>1, <2>2, <2>3, <2>4, OneNew, OrderKept
<1>3. CASE driver.stage = "legal-review" /\ session.pc \in LegalLabels
  <2>1. /\ UNCHANGED <<template, draft>> /\ review'.reviewed = review.reviewed
        /\ legal' = [f \in {"pending", "final"} |-> legal'[f]]
        /\ legal.final # Review!Absent => legal'.final = legal.final
        /\ review.approval # Review!Absent => review'.approval # Review!Absent
        /\ session' = Review!Quiet \/ session'.pc \in LegalLabels
    BY <1>1, <1>3, LegalMarks
  <2>2. EarlierDone("legal-review") /\ "legal-review" \in StageNames
    BY <1>3, StageList DEF OrderInv
  <2>3. Stays /\ \A t \in StageNames : Done(t)' => Done(t) \/ t = "legal-review"
    BY <1>1, <2>1, StageList, DoneIs, DoneThen DEF Stays, DoneTable
  <2>4. Labelled' /\ driver'.stage \in {"none", driver.stage}
    BY <1>1, <1>3, <2>1 DEF OrderInv, Labelled, NoRun, Transacting, LegalLabels, Review!Quiet
  <2> QED
    BY <1>1, <2>2, <2>3, <2>4, OneNew, OrderKept
<1> QED
  BY <1>1, <1>2, <1>3 DEF OrderInv, Labelled

(* The install stage records its own steps only.                            *)
LEMMA InstallInOrder == ASSUME OrderInv, InstallInv, InstallSteps PROVE OrderInv'
<1>0. UNCHANGED <<template, review, draft, legal, session, final, run>>
  BY DEF InstallSteps, InstallNext, InstallRecover, TransactionSucceeds, TransactionFails,
       RecordInstallStep, RecordRecovery, RequireInstalledRelease, pipelineVars, dmgVars, reviewVars
<1>1. CASE InstallNext \/ InstallRecover \/ TransactionSucceeds
  <2>1. UNCHANGED files /\ driver.stage = "install"
        /\ (Ends \/ \E pc \in Transacting : \E step : driver' = [driver EXCEPT !.pc = pc, !.arg = step])
    <3>1. CASE InstallNext \/ InstallRecover
      BY <3>1 DEF InstallNext, InstallRecover, Runs, Transaction, Transacting
    <3>2. CASE TransactionSucceeds
      <4>1. driver = [f \in {"stage", "pc", "arg"} |-> driver[f]]
        BY DEF InstallInv, DriverStates
      <4>2. PICK pc \in Transacting : driver' = [driver EXCEPT !.pc = pc]
        BY <3>2 DEF TransactionSucceeds, Transacting
      <4>3. driver' = [driver EXCEPT !.pc = pc, !.arg = driver.arg]
        BY <4>1, <4>2
      <4> QED
        BY <3>2, <4>3 DEF TransactionSucceeds, OrderInv, Labelled, Transacting
    <3> QED
      BY <1>1, <3>1, <3>2
  <2>2. Labelled' /\ driver'.stage \in {"none", driver.stage}
    <3>1. CASE Ends
      BY <1>0, <3>1, LabelsKept
    <3>2. ASSUME NEW pc \in Transacting, NEW step, driver' = [driver EXCEPT !.pc = pc, !.arg = step]
          PROVE  Labelled' /\ driver'.stage = driver.stage
      <4>1. driver'.pc = pc /\ driver'.stage = driver.stage
        BY <3>2 DEF InstallInv, DriverStates
      <4> QED
        BY <1>0, <2>1, <4>1 DEF OrderInv, Labelled, Transacting
    <3> QED
      BY <2>1, <3>1, <3>2
  <2> QED
    BY <1>0, <2>1, <2>2, NothingNew, OrderKept
<1>2. CASE TransactionFails \/ RequireInstalledRelease
  <2>1. UNCHANGED files /\ Ends
    BY <1>2 DEF TransactionFails, RequireInstalledRelease
  <2> QED
    BY <1>0, <2>1, NothingNew, LabelsKept, OrderKept
<1>3. CASE RecordInstallStep \/ RecordRecovery
  <2>0. driver.pc \in {"record", "record-recovery"} => driver.stage = "install" /\ driver.arg \in InstallStepNames
    BY DEF OrderInv, Labelled, InstallInv, Transacting
  <2>1. /\ driver.stage = "install" /\ driver.arg \in InstallStepNames /\ files' \in {files, files \cup {driver.arg}}
        /\ driver' = NoRun \/ driver' = [driver EXCEPT !.pc = "install", !.arg = "resumed"]
    <3>1. CASE RecordInstallStep
      BY <2>0, <3>1 DEF RecordInstallStep
    <3>2. CASE RecordRecovery
      <4>1. driver.pc = "record-recovery" /\ driver' = NoRun
        BY <3>2 DEF RecordRecovery, Ends
      <4> QED
        BY <2>0, <3>2, <4>1, InstallNames, RecoveryRecords
    <3> QED
      BY <1>3, <3>1, <3>2
  <2>2. EarlierDone("install") /\ "install" \in StageNames
    BY <2>1, StageList DEF OrderInv
  <2>3. Stays /\ \A t \in StageNames : Done(t)' => Done(t) \/ t = "install"
    BY <1>0, <2>1, InstallNames, StageList, DoneIs, DoneThen DEF Stays, DoneTable
  <2>4. Labelled' /\ driver'.stage \in {"none", driver.stage}
    <3>1. CASE driver' = NoRun
      BY <1>0, <3>1, LabelsKept DEF Ends
    <3>2. CASE driver' = [driver EXCEPT !.pc = "install", !.arg = "resumed"]
      <4>1. driver'.pc = "install" /\ driver'.stage = driver.stage
        BY <3>2 DEF InstallInv, DriverStates
      <4> QED
        BY <1>0, <2>1, <4>1 DEF OrderInv, Labelled, Transacting
    <3> QED
      BY <2>1, <3>1, <3>2
  <2> QED
    BY <1>0, <2>2, <2>3, <2>4, OneNew, OrderKept
<1> QED
  BY <1>1, <1>2, <1>3 DEF InstallSteps

(* The acceptance stage and the ledger.                                     *)
LEMMA OthersInOrder == ASSUME OrderInv, InstallInv, AcceptanceSteps \/ ReleaseSteps PROVE OrderInv'
<1>0. UNCHANGED <<template, review, draft, legal, session, final, run>>
  BY DEF AcceptanceSteps, BeginCollect, CollectRefused, StartInstance, StartFails, Collects,
       StopInstance, CollectEnds, AcceptanceResumes, ReleaseSteps, VerifyRemote, RecordVerified,
       CommandShipped, pipelineVars, dmgVars, reviewVars
<1>1. CASE BeginCollect \/ VerifyRemote \/ CollectRefused \/ CollectEnds \/ StartInstance \/ CommandShipped
  <2>1. UNCHANGED files
        /\ (Ends \/ UNCHANGED driver \/ (driver.stage = "acceptance" /\ Goto("start"))
              \/ (driver.stage = "verify-remote" /\ Goto("ledger")))
    BY <1>1 DEF BeginCollect, VerifyRemote, CollectRefused, CollectEnds, StartInstance, CommandShipped, Runs
  <2>2. Labelled' /\ driver'.stage \in {"none", driver.stage}
    BY <1>0, <2>1, LabelsKept
  <2> QED
    BY <1>0, <2>1, <2>2, NothingNew, OrderKept
<1>2. CASE StartFails \/ Collects \/ StopInstance
  <2>1. /\ driver.pc \in {"start", "stop"}
        /\ files' = files \/ (files' \subseteq files \cup CollectionFiles /\ files \subseteq files')
        /\ \E arg : driver' = [driver EXCEPT !.pc = "stop", !.arg = arg]
    <3>1. CASE StartFails \/ Collects
      BY <3>1 DEF StartFails, Collects, CollectionFiles
    <3>2. CASE StopInstance
      <4>1. driver = [f \in {"stage", "pc", "arg"} |-> driver[f]]
        BY DEF InstallInv, DriverStates
      <4>2. PICK arg : driver.pc = "stop" /\ driver' = [driver EXCEPT !.arg = arg] /\ files' = files
        BY <3>2 DEF StopInstance
      <4>3. driver' = [driver EXCEPT !.pc = "stop", !.arg = arg]
        BY <4>1, <4>2
      <4> QED
        BY <4>2, <4>3
    <3> QED
      BY <1>2, <3>1, <3>2
  <2>2. driver.stage = "acceptance"
    BY <2>1 DEF OrderInv, Labelled
  <2>3. EarlierDone("acceptance") /\ "acceptance" \in StageNames
    BY <2>2, StageList DEF OrderInv
  <2>4. Stays /\ \A t \in StageNames : Done(t)' => Done(t) \/ t = "acceptance"
    BY <1>0, <2>1, StageList, DoneIs, DoneThen DEF Stays, DoneTable, CollectionFiles
  <2>5. driver'.pc = "stop" /\ driver'.stage = driver.stage
    BY <2>1 DEF InstallInv, DriverStates
  <2>6. Labelled'
    BY <1>0, <2>2, <2>5 DEF OrderInv, Labelled, Transacting
  <2> QED
    BY <1>0, <2>3, <2>4, <2>5, <2>6, OneNew, OrderKept
<1>3. ASSUME NEW s \in {"acceptance", "verify-remote"}, driver.stage = s, Ends,
             files' \subseteq files \cup {IF s = "acceptance" THEN "runtime-acceptance" ELSE "verify-remote"},
             files \subseteq files' \cup {"runtime-collection"}
      PROVE  OrderInv'
  <2>1. EarlierDone(s) /\ s \in StageNames
    BY <1>3, StageList DEF OrderInv
  <2>2. Stays /\ \A t \in StageNames : Done(t)' => Done(t) \/ t = s
    BY <1>0, <1>3, StageList, DoneIs, DoneThen DEF Stays, DoneTable
  <2> QED
    BY <1>0, <1>3, <2>1, <2>2, OneNew, LabelsKept, OrderKept
<1>4. CASE AcceptanceResumes
  BY <1>3, <1>4 DEF AcceptanceResumes, Runs
<1>5. CASE RecordVerified
  BY <1>3, <1>5 DEF RecordVerified, Runs
<1> QED
  BY <1>1, <1>2, <1>4, <1>5 DEF AcceptanceSteps, ReleaseSteps

(* The build and the DMG stage.                                             *)
LEMMA StagesAreInOrder == ASSUME OrderInv, InstallInv, BuildStage \/ Notarize \/ PackageStage PROVE OrderInv'
<1>0. UNCHANGED <<template, review, draft, legal, session, driver>>
  BY DEF BuildStage, Notarize, PackageStage, reviewVars, driverVars
<1>1. CASE BuildStage
  <2>1. UNCHANGED <<files, final, run>>
    BY <1>1 DEF BuildStage, FreezeStage, SignStage, driverVars, dmgVars
  <2> QED
    BY <1>0, <2>1, NothingNew, LabelsKept, OrderKept
<1>2. CASE Notarize
  <2>1. UNCHANGED <<final, run>> /\ files' = files \cup {"notarized"} /\ FirstPending("build")
    BY <1>2 DEF Notarize, pipelineVars, dmgVars
  <2>2. EarlierDone("build") /\ "build" \in StageNames
    BY <2>1, StageList DEF FirstPending, EarlierDone
  <2>3. Stays /\ \A t \in StageNames : Done(t)' => Done(t) \/ t = "build"
    BY <1>0, <2>1, StageList, DoneIs, DoneThen DEF Stays, DoneTable
  <2> QED
    BY <1>0, <2>1, <2>2, <2>3, OneNew, LabelsKept, OrderKept
<1>3. CASE PackageStage
  <2>1. UNCHANGED files /\ Dmg!Next /\ (FirstPending("dmg") \/ run # Dmg!Idle)
    BY <1>3 DEF PackageStage, DmgStage, driverVars
  <2>2. EarlierDone("dmg") /\ "dmg" \in StageNames
    BY <2>1, StageList DEF FirstPending, EarlierDone, OrderInv
  <2>3. final = Dmg!NoSet \/ final' = final
    <3>1. CASE Dmg!Submission
      BY <3>1 DEF Dmg!Submission, Dmg!dvars, Dmg!Stage, Dmg!Execute, Dmg!ExecuteRefused, Dmg!RestoreUnsubmitted, Dmg!PrepareAttempt,
           Dmg!SubmitRefused, Dmg!RecordSubmitting, Dmg!Submit, Dmg!SubmitUnknown, Dmg!PersistReceipt,
           Dmg!RecordObserved, Dmg!RecordWaiting, Dmg!WaitAccepted, Dmg!WaitRejected, Dmg!Note, Dmg!JournalOnly
    <3>2. CASE Dmg!Recovery
      BY <3>2 DEF Dmg!Recovery, Dmg!Recover, Dmg!Reset, Dmg!RecordRecovering, Dmg!BindReceipt, Dmg!KeepReceipt,
           Dmg!RecordAccepted, Dmg!RecoveryRejected, Dmg!RecoveryDeferred, Dmg!Note, Dmg!JournalOnly
    <3>3. CASE Dmg!Finalization
      BY <3>3 DEF Dmg!Finalization, Dmg!FetchLog, Dmg!RecordLogVerified, Dmg!StapleCopy, Dmg!RecordStapling,
           Dmg!RecordStapled, Dmg!Gatekeeper, Dmg!RecordGatekeeper, Dmg!RecordArtifact, Dmg!BuildSet,
           Dmg!RecordSealed, Dmg!PublishSet, Dmg!ConfirmPublished, Dmg!Note, Dmg!JournalOnly
    <3> QED
      BY <2>1, <3>1, <3>2, <3>3 DEF Dmg!Next, Dmg!Fails, Dmg!LogDiffers, Dmg!Crash, Dmg!AppleDecides, Dmg!JournalOnly
  <2>4. Stays /\ \A t \in StageNames : Done(t)' => Done(t) \/ t = "dmg"
    BY <1>0, <2>1, <2>3, StageList, DoneIs, DoneThen DEF Stays, DoneTable
  <2> QED
    BY <1>0, <2>2, <2>4, OneNew, LabelsKept, OrderKept
<1> QED
  BY <1>1, <1>2, <1>3

(* The order, in every release.                                             *)
LEMMA OrderSafe == ReleaseSpec => []OrderInv
<1>1. DriverInit => OrderInv
  <2> SUFFICES ASSUME DriverInit PROVE OrderInv
    OBVIOUS
  <2>1. \A s \in StageNames : ~Done(s)
    BY StageList, DoneIs DEF DoneTable, DriverInit, Init, Dmg!Init, Review!Init, Review!NoReview, Review!NoLegal
  <2>2. InOrder
    BY <2>1 DEF InOrder, StageNames
  <2>3. driver = NoRun /\ run = Dmg!Idle /\ session = Review!Quiet /\ legal = Review!NoLegal
    BY DEF DriverInit, Init, Dmg!Init, Review!Init
  <2>4. Labelled
    BY <2>3 DEF Labelled, NoRun, Review!Quiet, Review!NoLegal, Transacting
  <2> QED
    BY <2>2, <2>3, <2>4 DEF OrderInv, NoRun
<1>2. OrderInv /\ InstallInv /\ ReviewInv /\ [ReleaseNext]_releaseVars => OrderInv'
  <2> SUFFICES ASSUME OrderInv, InstallInv, ReviewInv, [ReleaseNext]_releaseVars PROVE OrderInv'
    OBVIOUS
  <2>1. CASE UNCHANGED releaseVars
    <3>1. UNCHANGED <<files, template, review, draft, legal, session, final, run, driver>>
      BY <2>1 DEF releaseVars, driverVars, reviewVars, pipelineVars, dmgVars
    <3> QED
      BY <3>1, NothingNew, LabelsKept, OrderKept
  <2>2. CASE ReleaseNext
    BY <2>2, DriverInOrder, SessionBegins, SessionsInOrder, InstallInOrder, OthersInOrder, StagesAreInOrder DEF ReleaseNext
  <2> QED
    BY <2>1, <2>2
<1> QED
  BY <1>1, <1>2, InstallSafe, ReviewSafe, PTL DEF ReleaseSpec

(* A stage is done only when every stage before it is, whatever was killed, *)
(* failed, repeated or, by preserve, moved away (command_run's pending      *)
(* stage, and what each stage is known by).                                 *)
THEOREM StagesAreDoneInOrder == ReleaseSpec => []StagesInOrder
<1>1. ASSUME OrderInv PROVE StagesInOrder
  <2>1. ASSUME NEW i \in 2..22, Done(STAGES[i]) PROVE Done(STAGES[i - 1])
    <3>1. i \in 1..22 /\ i - 1 \in 1..22 /\ i - 1 < i
      BY <2>1
    <3> QED
      BY <1>1, <2>1, <3>1, StageList DEF OrderInv, InOrder
  <2> QED
    BY <2>1, StageList DEF StagesInOrder
<1> QED
  BY <1>1, OrderSafe, PTL

-----------------------------------------------------------------------------
(***************************************************************************)
(* Proofs about ReleaseArtifactSets, whose seal-updater and seal-release   *)
(* publish through the same rename and barrier.  A command is the sequence *)
(* of steps it has left, so the invariant is a grammar of what may be      *)
(* left: while the command has nothing against it, its set is published    *)
(* and on disk and only checks remain, or the set is published and a       *)
(* confirmation remains, or a publication and then a confirmation remain   *)
(* and the directory to publish is there (OnCourse).                       *)
(***************************************************************************)
\* The steps of a command that neither publish a set, nor confirm it, nor end the command.
QuietNames == {"inspect", "replay", "prove", "reprove", "rebind", "inspectDmg", "proveDmg", "reproveDmg", "reopenDmg",
               "inspectDist", "join", "closure", "authorize", "closed", "recheck",
               "reset", "produce", "record", "build", "sealUpdater", "buildDmg", "sealDmg",
               "project", "bundle", "bind", "sealDist", "only", "sync"}
SetPlaces == {"staged", "updater", "dmg", "stage", "dist", "-"}
QuietSteps == QuietNames \X SetPlaces
AnyStep == (QuietNames \cup {"confirm", "publish", "mkdtemp", "remove", "close"}) \X SetPlaces

\* What is left of a command only checks; or confirms the set d on the way; or
\* publishes it and confirms it; or makes a stage first.
Checks(t) == \E p \in Seq(QuietSteps) : t = p \o Close
Confirms(t, d) == \E p \in Seq(QuietSteps), r \in Seq(AnyStep) : t = p \o (<< <<"confirm", d>> >> \o r) /\ Checks(r)
PublishesSet(t, d) == \E p \in Seq(QuietSteps), r \in Seq(AnyStep) : t = p \o (<< <<"publish", d>> >> \o r) /\ Confirms(r, d)
Makes(t) == \E r \in Seq(AnyStep) : t = << <<"mkdtemp", "stage">> >> \o r /\ PublishesSet(r, "dist")

RemoveStage == << <<"remove", "stage">> >>
Ending(t) == t = <<>> \/ t = Close \/ t = RemoveStage \o Close

\* How far the command c is with the set it has to seal, which comes from the
\* directory src and goes to d.
OnCourse(c, d, set, src) ==
    \/ c.outcome = "none" /\ c.todo = << <<"start", c.op>> >>
    \/ c.outcome # "none" /\ Ending(c.todo) /\ (c.outcome = "ok" => set.there /\ set.named)
    \/ c.outcome = "none" /\ Checks(c.todo) /\ set.there /\ set.named
    \/ c.outcome = "none" /\ Confirms(c.todo, d) /\ set.there
    \/ c.outcome = "none" /\ PublishesSet(c.todo, d) /\ src.there
    \/ c.outcome = "none" /\ Makes(c.todo) /\ d = "dist"

CmdFields == {"op", "todo", "session", "existed", "orphan", "pre", "seen", "app", "evidence", "outcome"}
UpdaterFields == {"there", "archive", "signature", "receipt", "seal", "synced", "named"}
DistFields == {"there", "bundle", "gatekeeper", "seal", "synced", "named"}
RecordOf(r, F) == r = [f \in F |-> r[f]]
Shapes ==
    /\ RecordOf(cmd, CmdFields)
    /\ RecordOf(staged, UpdaterFields) /\ RecordOf(updater, UpdaterFields)
    /\ RecordOf(stage, DistFields) /\ RecordOf(dist, DistFields)

SetsInv ==
    /\ Shapes
    /\ cmd.op = "seal-updater" => OnCourse(cmd, "updater", updater, staged)
    /\ cmd.op = "seal-release" => OnCourse(cmd, "dist", dist, stage)

-----------------------------------------------------------------------------
(* Quiet steps are steps, and so are sequences of them.                    *)
LEMMA QuietSeqs == Seq(QuietSteps) \subseteq Seq(AnyStep)
<1>1. QuietSteps \subseteq AnyStep
  BY DEF QuietSteps, AnyStep, QuietNames
<1> QED
  BY <1>1, SeqMonotonic

(* The end of a command and a single step are sequences of steps.          *)
LEMMA CloseIsSeq == Close \in Seq(AnyStep) /\ Close # <<>> /\ Head(Close) = <<"close", "-">> /\ Tail(Close) = <<>>
<1>1. <<"close", "-">> \in AnyStep
  BY DEF AnyStep, SetPlaces
<1> QED
  BY <1>1 DEF Close

(* One step before others.                                                 *)
LEMMA FirstStep ==
    ASSUME NEW x \in AnyStep, NEW r \in Seq(AnyStep)
    PROVE  /\ <<x>> \o r \in Seq(AnyStep) /\ <<x>> \o r # <<>>
           /\ Head(<<x>> \o r) = x /\ Tail(<<x>> \o r) = r
<1>1. <<x>> \in Seq(AnyStep) /\ Len(<<x>>) = 1
  OBVIOUS
<1> PICK w : w = <<x>> \o r
  OBVIOUS
<1>2. /\ w \in Seq(AnyStep) /\ Len(w) = 1 + Len(r)
      /\ \A i \in 1 .. 1 + Len(r) : w[i] = IF i <= 1 THEN <<x>>[i] ELSE r[i - 1]
  BY <1>1, ConcatProperties
<1>3. Len(r) \in Nat
  BY LenProperties
<1>4. w # <<>> /\ w[1] = x
  BY <1>2, <1>3, EmptySeq
<1>5. /\ Tail(w) \in Seq(AnyStep) /\ Len(Tail(w)) = Len(w) - 1
      /\ \A i \in 1 .. Len(Tail(w)) : Tail(w)[i] = w[i + 1]
  BY <1>2, <1>4, HeadTailProperties
<1>6. \A i \in 1 .. Len(r) : Tail(w)[i] = r[i]
  BY <1>2, <1>3, <1>5
<1>7. Tail(w) = r
  BY <1>2, <1>3, <1>5, <1>6, SeqEqual
<1> QED
  BY <1>2, <1>4, <1>7

(* Steps are put together in any order.                                    *)
LEMMA Together ==
    ASSUME NEW s \in Seq(AnyStep), NEW t \in Seq(AnyStep), NEW u \in Seq(AnyStep)
    PROVE  (s \o t) \o u = s \o (t \o u) /\ s \o t \in Seq(AnyStep)
BY ConcatAssociative, ConcatProperties, SMTT(30)

(* Three steps, one by one.                                                *)
LEMMA ThreeSteps == ASSUME NEW x, NEW y, NEW z PROVE <<x, y, z>> = <<x>> \o (<<y>> \o <<z>>)
<1> PICK S : S = {x, y, z}
  OBVIOUS
<1> PICK u : u = <<y>> \o <<z>>
  OBVIOUS
<1> PICK w : w = <<x>> \o u
  OBVIOUS
<1>1. <<x>> \in Seq(S) /\ <<y>> \in Seq(S) /\ <<z>> \in Seq(S) /\ <<x, y, z>> \in Seq(S)
  OBVIOUS
<1>2. u \in Seq(S) /\ Len(u) = 2 /\ u[1] = y /\ u[2] = z
  BY <1>1, ConcatProperties
<1>3. w \in Seq(S) /\ Len(w) = 3 /\ w[1] = x /\ w[2] = y /\ w[3] = z
  BY <1>1, <1>2, ConcatProperties
<1>4. \A i \in 1 .. 3 : w[i] = <<x, y, z>>[i]
  <2> TAKE i \in 1 .. 3
  <2>1. CASE i = 1
    BY <1>3, <2>1
  <2>2. CASE i = 2
    BY <1>3, <2>2
  <2>3. CASE i = 3
    BY <1>3, <2>3
  <2>4. i = 1 \/ i = 2 \/ i = 3
    OBVIOUS
  <2> QED
    BY <2>1, <2>2, <2>3, <2>4, Zenon
<1>5. <<x, y, z>> = w
  BY <1>1, <1>3, <1>4, SeqEqual
<1> QED
  BY <1>5

(* A sequence that goes through quiet steps to R is at R, or at a quiet    *)
(* step and then goes to R.                                                *)
LEMMA Advance ==
    ASSUME NEW p \in Seq(QuietSteps), NEW R \in Seq(AnyStep), R # <<>>
    PROVE  /\ p \o R # <<>> /\ p \o R \in Seq(AnyStep)
           /\ \/ p \o R = R
              \/ Head(p \o R) \in QuietSteps /\ \E q \in Seq(QuietSteps) : Tail(p \o R) = q \o R
<1>0. p \in Seq(AnyStep)
  BY QuietSeqs
<1>1. p \o R \in Seq(AnyStep) /\ p \o R # <<>>
  BY <1>0, ConcatProperties, ConcatEqualIffEmpty
<1>2. CASE p = <<>>
  BY <1>1, <1>2, ConcatEmptySeq
<1>3. CASE p # <<>>
  <2>1. /\ Head(p) \in QuietSteps /\ Tail(p) \in Seq(QuietSteps) /\ Len(Tail(p)) = Len(p) - 1
        /\ \A i \in 1 .. Len(Tail(p)) : Tail(p)[i] = p[i + 1]
    BY <1>3, HeadTailProperties
  <2> PICK q : q = Tail(p)
    OBVIOUS
  <2> PICK w : w = p \o R
    OBVIOUS
  <2>2. Len(p) \in Nat \ {0} /\ Len(R) \in Nat
    BY <1>3, EmptySeq, LenProperties
  <2>3. w \in Seq(AnyStep) /\ Len(w) = Len(p) + Len(R)
        /\ \A i \in 1 .. Len(p) + Len(R) : w[i] = IF i <= Len(p) THEN p[i] ELSE R[i - Len(p)]
    BY <1>0, ConcatProperties
  <2>4. q \in Seq(AnyStep)
    BY <2>1, QuietSeqs
  <2> PICK u : u = q \o R
    OBVIOUS
  <2>5. u \in Seq(AnyStep) /\ Len(u) = Len(q) + Len(R)
        /\ \A i \in 1 .. Len(q) + Len(R) : u[i] = IF i <= Len(q) THEN q[i] ELSE R[i - Len(q)]
    BY <2>4, ConcatProperties
  <2>6. /\ Tail(w) \in Seq(AnyStep) /\ Len(Tail(w)) = Len(w) - 1
        /\ \A i \in 1 .. Len(Tail(w)) : Tail(w)[i] = w[i + 1]
    BY <1>1, <2>3, HeadTailProperties
  <2>7. Len(Tail(w)) = Len(u) /\ Len(u) = Len(p) - 1 + Len(R)
    BY <2>1, <2>2, <2>3, <2>5, <2>6
  <2>8. \A i \in 1 .. Len(Tail(w)) : Tail(w)[i] = u[i]
    <3> TAKE i \in 1 .. Len(Tail(w))
    <3>1. i + 1 \in 1 .. Len(p) + Len(R) /\ i \in 1 .. Len(q) + Len(R) /\ Len(q) = Len(p) - 1
      BY <2>1, <2>2, <2>5, <2>7
    <3>2. Tail(w)[i] = w[i + 1]
      BY <2>6
    <3>3. CASE i <= Len(q)
      <4>1. i \in 1 .. Len(q) /\ i + 1 <= Len(p)
        BY <3>1, <3>3, <2>2
      <4>2. w[i + 1] = p[i + 1] /\ u[i] = q[i]
        BY <3>1, <3>3, <4>1, <2>3, <2>5
      <4>3. q[i] = p[i + 1]
        BY <2>1, <4>1
      <4> QED
        BY <3>2, <4>2, <4>3
    <3>4. CASE ~(i <= Len(q))
      <4>1. ~(i + 1 <= Len(p)) /\ i + 1 - Len(p) = i - Len(q)
        BY <3>1, <3>4, <2>2
      <4> QED
        BY <3>1, <3>2, <3>4, <4>1, <2>3, <2>5
    <3> QED
      BY <3>3, <3>4
  <2>9. Tail(w) = u
    BY <2>5, <2>6, <2>7, <2>8, SeqEqual
  <2>10. Head(w) = p[1] /\ p[1] = Head(p)
    BY <1>1, <2>2, <2>3
  <2> QED
    BY <1>1, <2>1, <2>9, <2>10
<1> QED
  BY <1>2, <1>3


(* What the next step of such a command is.                                *)
LEMMA ChecksNext ==
    ASSUME NEW t, Checks(t)
    PROVE  /\ t # <<>>
           /\ \/ Head(t) = <<"close", "-">> /\ Tail(t) = <<>>
              \/ Head(t) \in QuietSteps /\ Checks(Tail(t))
<1> PICK p \in Seq(QuietSteps) : t = p \o Close
  BY DEF Checks
<1> QED
  BY CloseIsSeq, Advance DEF Checks

(* The same before the confirmation.                                       *)
LEMMA ConfirmsNext ==
    ASSUME NEW t, NEW d \in SetPlaces, Confirms(t, d)
    PROVE  /\ t # <<>>
           /\ \/ Head(t) = <<"confirm", d>> /\ Checks(Tail(t))
              \/ Head(t) \in QuietSteps /\ Confirms(Tail(t), d)
<1> PICK p \in Seq(QuietSteps), r \in Seq(AnyStep) : t = p \o (<< <<"confirm", d>> >> \o r) /\ Checks(r)
  BY DEF Confirms
<1> PICK R : R = << <<"confirm", d>> >> \o r
  OBVIOUS
<1>1. R \in Seq(AnyStep) /\ R # <<>> /\ Head(R) = <<"confirm", d>> /\ Tail(R) = r
  BY FirstStep DEF AnyStep, SetPlaces
<1>2. /\ t # <<>>
      /\ \/ t = R
         \/ Head(t) \in QuietSteps /\ \E q \in Seq(QuietSteps) : Tail(t) = q \o R
  BY <1>1, Advance
<1> QED
  BY <1>1, <1>2 DEF Confirms

(* The same before the publication.                                        *)
LEMMA PublishesNext ==
    ASSUME NEW t, NEW d \in SetPlaces, PublishesSet(t, d)
    PROVE  /\ t # <<>>
           /\ \/ Head(t) = <<"publish", d>> /\ Confirms(Tail(t), d)
              \/ Head(t) \in QuietSteps /\ PublishesSet(Tail(t), d)
<1> PICK p \in Seq(QuietSteps), r \in Seq(AnyStep) : t = p \o (<< <<"publish", d>> >> \o r) /\ Confirms(r, d)
  BY DEF PublishesSet
<1> PICK R : R = << <<"publish", d>> >> \o r
  OBVIOUS
<1>1. R \in Seq(AnyStep) /\ R # <<>> /\ Head(R) = <<"publish", d>> /\ Tail(R) = r
  BY FirstStep DEF AnyStep, SetPlaces
<1>2. /\ t # <<>>
      /\ \/ t = R
         \/ Head(t) \in QuietSteps /\ \E q \in Seq(QuietSteps) : Tail(t) = q \o R
  BY <1>1, Advance
<1> QED
  BY <1>1, <1>2 DEF PublishesSet

(* The same before the stage is made.                                      *)
LEMMA MakesNext ==
    ASSUME NEW t, Makes(t)
    PROVE  t # <<>> /\ Head(t) = <<"mkdtemp", "stage">> /\ PublishesSet(Tail(t), "dist")
<1> PICK r \in Seq(AnyStep) : t = << <<"mkdtemp", "stage">> >> \o r /\ PublishesSet(r, "dist")
  BY DEF Makes
<1> QED
  BY FirstStep DEF AnyStep, SetPlaces

(* A command that ends has at most the removal of its stage before it.     *)
LEMMA EndingNext ==
    ASSUME NEW t, Ending(t), t # <<>>
    PROVE  \/ Head(t) = <<"close", "-">> /\ Tail(t) = <<>>
           \/ Head(t) = <<"remove", "stage">> /\ Tail(t) = Close
<1>1. <<"remove", "stage">> \in AnyStep
  BY DEF AnyStep, SetPlaces
<1> QED
  BY <1>1, CloseIsSeq, FirstStep DEF Ending, RemoveStage


(* The plans are of these forms.                                           *)
LEMMA VerifyIsQuiet == ASSUME NEW op, NEW d \in SetPlaces PROVE Verify(op, d) \in Seq(QuietSteps)
<1>1. \A e \in SetPlaces : VerifyUpdater(e) \in Seq(QuietSteps)
  BY DEF VerifyUpdater, QuietSteps, QuietNames
<1>2. VerifyDmg \in Seq(QuietSteps)
  BY DEF VerifyDmg, QuietSteps, QuietNames, SetPlaces
<1>3. << <<"inspectDist", d>> >> \in Seq(QuietSteps)
  BY DEF QuietSteps, QuietNames
<1>4. Authorized(d, "join", "recheck") \in Seq(QuietSteps)
  BY DEF Authorized, QuietSteps, QuietNames
<1>5. << <<"inspectDist", d>> >> \o VerifyUpdater("updater") \in Seq(QuietSteps)
  BY <1>1, <1>3, ConcatProperties DEF SetPlaces
<1>6. << <<"inspectDist", d>> >> \o VerifyUpdater("updater") \o VerifyDmg \in Seq(QuietSteps)
  BY <1>2, <1>5, ConcatProperties
<1>7. VerifyDistribution(d) \in Seq(QuietSteps)
  BY <1>4, <1>6, ConcatProperties DEF VerifyDistribution
<1> QED
  BY <1>1, <1>7 DEF Verify

(* A set that is found published, and one that a failing call left         *)
(* published, is verified, confirmed and verified again.                   *)
LEMMA ConfirmedConfirms == ASSUME NEW op, NEW d \in SetPlaces PROVE Confirms(Confirmed(op, d), d)
<1> PICK v : v = Verify(op, d)
  OBVIOUS
<1> PICK c : c = << <<"confirm", d>> >>
  OBVIOUS
<1>1. v \in Seq(QuietSteps) /\ v \in Seq(AnyStep) /\ Close \in Seq(AnyStep) /\ c \in Seq(AnyStep)
  BY VerifyIsQuiet, QuietSeqs, CloseIsSeq DEF AnyStep
<1>2. v \o Close \in Seq(AnyStep) /\ Checks(v \o Close)
  BY <1>1, ConcatProperties DEF Checks
<1>3. ((v \o c) \o v) \o Close = v \o (c \o (v \o Close))
  <2>1. v \o c \in Seq(AnyStep)
    BY <1>1, ConcatProperties
  <2>2. ((v \o c) \o v) \o Close = (v \o c) \o (v \o Close)
    BY <1>1, <2>1, ConcatAssociative, SMTT(30)
  <2>3. (v \o c) \o (v \o Close) = v \o (c \o (v \o Close))
    BY <1>1, <1>2, ConcatAssociative, SMTT(30)
  <2> QED
    BY <2>2, <2>3
<1>4. Confirmed(op, d) = v \o (c \o (v \o Close))
  BY <1>3 DEF Confirmed
<1> QED
  BY <1>1, <1>2, <1>4 DEF Confirms

(* What comes after quiet steps that lead to a publication.                *)
LEMMA QuietBeforePublishing ==
    ASSUME NEW p \in Seq(QuietSteps), NEW t \in Seq(AnyStep), NEW d \in SetPlaces, PublishesSet(t, d)
    PROVE  PublishesSet(p \o t, d) /\ p \o t \in Seq(AnyStep)
<1>1. PICK q \in Seq(QuietSteps), r \in Seq(AnyStep) : t = q \o (<< <<"publish", d>> >> \o r) /\ Confirms(r, d)
  BY DEF PublishesSet
<1>2. PICK R : R = << <<"publish", d>> >> \o r
  OBVIOUS
<1>3. R \in Seq(AnyStep)
  BY <1>2, FirstStep DEF AnyStep, SetPlaces
<1>4. p \in Seq(AnyStep) /\ q \in Seq(AnyStep)
  BY QuietSeqs
<1>5. (p \o q) \o R = p \o (q \o R)
  BY <1>3, <1>4, Together, SMTT(60)
<1>6. p \o q \in Seq(QuietSteps)
  BY ConcatProperties
<1>7. p \o t = (p \o q) \o (<< <<"publish", d>> >> \o r)
  BY <1>1, <1>2, <1>5, Zenon
<1>8. p \o t \in Seq(AnyStep)
  BY <1>4, ConcatProperties
<1>9. \E x \in Seq(QuietSteps), y \in Seq(AnyStep) : p \o t = x \o (<< <<"publish", d>> >> \o y) /\ Confirms(y, d)
  BY <1>1, <1>6, <1>7, Zenon
<1> QED
  BY <1>8, <1>9, Zenon DEF PublishesSet

(* A set is verified where it is staged, synced, published and confirmed.  *)
LEMMA PublishingPublishes ==
    ASSUME NEW op, NEW from \in SetPlaces, NEW d \in SetPlaces
    PROVE  PublishesSet(Publishing(op, from, d), d) /\ Publishing(op, from, d) \in Seq(AnyStep)
<1>1. PICK v : v = Verify(op, from)
  OBVIOUS
<1>2. PICK w : w = Verify(op, d)
  OBVIOUS
<1>3. PICK s : s = << <<"sync", from>> >>
  OBVIOUS
<1>4. PICK b : b = << <<"publish", d>> >>
  OBVIOUS
<1>5. PICK c : c = << <<"confirm", d>> >>
  OBVIOUS
<1>6. v \in Seq(QuietSteps) /\ w \in Seq(QuietSteps) /\ s \in Seq(QuietSteps)
  BY <1>1, <1>2, <1>3, VerifyIsQuiet DEF QuietSteps, QuietNames
<1>7. b \in Seq(AnyStep) /\ c \in Seq(AnyStep) /\ Close \in Seq(AnyStep)
  BY <1>4, <1>5, CloseIsSeq DEF AnyStep
<1>8. v \in Seq(AnyStep) /\ w \in Seq(AnyStep) /\ s \in Seq(AnyStep)
  BY <1>6, QuietSeqs
<1>9. PICK e : e = w \o Close
  OBVIOUS
<1>10. e \in Seq(AnyStep) /\ Checks(e)
  BY <1>6, <1>7, <1>8, <1>9, ConcatProperties DEF Checks
<1>11. c \o e \in Seq(AnyStep) /\ Confirms(c \o e, d)
  <2>1. c \o e \in Seq(AnyStep)
    BY <1>7, <1>10, ConcatProperties
  <2>2. <<>> \in Seq(QuietSteps) /\ c \o e = <<>> \o (c \o e)
    BY <2>1, ConcatEmptySeq, EmptySeq
  <2>3. \E p \in Seq(QuietSteps), r \in Seq(AnyStep) : c \o e = p \o (<< <<"confirm", d>> >> \o r) /\ Checks(r)
    BY <1>5, <1>10, <2>2, Zenon
  <2> QED
    BY <2>1, <2>3, Zenon DEF Confirms
<1>12. << <<"sync", from>>, <<"publish", d>>, <<"confirm", d>> >> = s \o (b \o c)
  BY <1>3, <1>4, <1>5, ThreeSteps
<1>13. PICK bc : bc = b \o c
  OBVIOUS
<1>14. PICK sbc : sbc = s \o bc
  OBVIOUS
<1>15. PICK vs : vs = v \o s
  OBVIOUS
<1>16. bc \in Seq(AnyStep) /\ vs \in Seq(QuietSteps) /\ vs \in Seq(AnyStep)
  BY <1>6, <1>7, <1>8, <1>13, <1>15, ConcatProperties
<1>17. sbc \in Seq(AnyStep)
  BY <1>8, <1>14, <1>16, ConcatProperties
<1>18. v \o sbc = vs \o bc
  <2>1. (v \o s) \o bc = v \o (s \o bc)
    BY <1>8, <1>16, Together, SMTT(60)
  <2> QED
    BY <1>14, <1>15, <2>1, Zenon
<1>19. v \o sbc \in Seq(AnyStep)
  BY <1>8, <1>17, ConcatProperties
<1>20. ((v \o sbc) \o w) \o Close = (v \o sbc) \o e
  <2>1. ((v \o sbc) \o w) \o Close = (v \o sbc) \o (w \o Close)
    BY <1>7, <1>8, <1>19, Together, ZenonT(60)
  <2> QED
    BY <1>9, <2>1, Zenon
<1>21. (vs \o bc) \o e = vs \o (bc \o e)
  BY <1>10, <1>16, Together, ZenonT(60)
<1>22. bc \o e = b \o (c \o e)
  <2>1. (b \o c) \o e = b \o (c \o e)
    BY <1>7, <1>10, Together, SMTT(60)
  <2> QED
    BY <1>13, <2>1, Zenon
<1>23. Publishing(op, from, d) = ((v \o sbc) \o w) \o Close
  BY <1>1, <1>2, <1>12, <1>13, <1>14, Zenon DEF Publishing
<1>24. Publishing(op, from, d) = vs \o (b \o (c \o e))
  BY <1>18, <1>20, <1>21, <1>22, <1>23, Zenon
<1>25. b \o (c \o e) \in Seq(AnyStep)
  BY <1>7, <1>11, ConcatProperties
<1>26. Publishing(op, from, d) \in Seq(AnyStep)
  BY <1>16, <1>24, <1>25, ConcatProperties
<1>27. \E p \in Seq(QuietSteps), x \in Seq(AnyStep) :
          Publishing(op, from, d) = p \o (<< <<"publish", d>> >> \o x) /\ Confirms(x, d)
  BY <1>4, <1>11, <1>16, <1>24, Zenon
<1> QED
  BY <1>26, <1>27, Zenon DEF PublishesSet

(* seal-updater publishes its staged set, or confirms the one that is      *)
(* there.                                                                  *)
LEMMA SealUpdaterPlan ==
    /\ updater.there => Confirms(SealUpdater, "updater")
    /\ ~updater.there => PublishesSet(SealUpdater, "updater")
<1>1. CASE updater.there
  BY <1>1, ConfirmedConfirms DEF SealUpdater, SetPlaces
<1>2. CASE ~updater.there
  <2>1. PICK p : p = << <<"reset", "staged">>, <<"produce", "staged">>, <<"record", "staged">>, <<"build", "staged">>,
                        <<"sealUpdater", "staged">> >>
    OBVIOUS
  <2>2. p \in Seq(QuietSteps)
    BY <2>1 DEF QuietSteps, QuietNames, SetPlaces
  <2>3. PICK t : t = Publishing("seal-updater", "staged", "updater")
    OBVIOUS
  <2>4. PublishesSet(t, "updater") /\ t \in Seq(AnyStep)
    BY <2>3, PublishingPublishes DEF SetPlaces
  <2>5. PublishesSet(p \o t, "updater")
    BY <2>2, <2>4, QuietBeforePublishing DEF SetPlaces
  <2>6. SealUpdater = p \o t
    BY <1>2, <2>1, <2>3, Zenon DEF SealUpdater
  <2> QED
    BY <1>2, <2>5, <2>6
<1> QED
  BY <1>1, <1>2

(* seal-release makes a stage and publishes it, or confirms the set that   *)
(* is there.                                                               *)
LEMMA SealDistributionPlan ==
    /\ dist.there => Confirms(SealDistribution, "dist")
    /\ ~dist.there => Makes(SealDistribution)
<1>1. CASE dist.there
  BY <1>1, ConfirmedConfirms DEF SealDistribution, SetPlaces
<1>2. CASE ~dist.there
  <2>1. PICK m : m = << <<"mkdtemp", "stage">> >>
    OBVIOUS
  <2>2. PICK a : a = << <<"project", "stage">> >> \o << <<"bundle", "stage">> >>
    OBVIOUS
  <2>3. PICK u : u = VerifyUpdater("updater")
    OBVIOUS
  <2>4. PICK g : g = VerifyDmg
    OBVIOUS
  <2>5. PICK z : z = Authorized("stage", "bind", "sealDist")
    OBVIOUS
  <2>6. PICK t : t = Publishing("seal-release", "stage", "dist")
    OBVIOUS
  <2>7. << <<"mkdtemp", "stage">>, <<"project", "stage">>, <<"bundle", "stage">> >> = m \o a
    BY <2>1, <2>2, ThreeSteps
  <2>8. m \in Seq(AnyStep)
    BY <2>1 DEF AnyStep, SetPlaces
  <2>9. a \in Seq(QuietSteps)
    <3>1. << <<"project", "stage">> >> \in Seq(QuietSteps) /\ << <<"bundle", "stage">> >> \in Seq(QuietSteps)
      BY DEF QuietSteps, QuietNames, SetPlaces
    <3> QED
      BY <2>2, <3>1, ConcatProperties
  <2>10. u \in Seq(QuietSteps) /\ g \in Seq(QuietSteps)
    BY <2>3, <2>4 DEF VerifyUpdater, VerifyDmg, QuietSteps, QuietNames, SetPlaces
  <2>11. z \in Seq(QuietSteps)
    BY <2>5 DEF Authorized, QuietSteps, QuietNames, SetPlaces
  <2>12. PublishesSet(t, "dist") /\ t \in Seq(AnyStep)
    BY <2>6, PublishingPublishes DEF SetPlaces
  <2>13. a \in Seq(AnyStep) /\ u \in Seq(AnyStep) /\ g \in Seq(AnyStep) /\ z \in Seq(AnyStep)
    BY <2>9, <2>10, <2>11, QuietSeqs
  <2>14. PICK k : k = z \o t
    OBVIOUS
  <2>15. k \in Seq(AnyStep) /\ PublishesSet(k, "dist")
    BY <2>11, <2>12, <2>14, QuietBeforePublishing DEF SetPlaces
  <2>16. PICK l : l = g \o k
    OBVIOUS
  <2>17. l \in Seq(AnyStep) /\ PublishesSet(l, "dist")
    BY <2>10, <2>15, <2>16, QuietBeforePublishing DEF SetPlaces
  <2>18. PICK h : h = u \o l
    OBVIOUS
  <2>19. h \in Seq(AnyStep) /\ PublishesSet(h, "dist")
    BY <2>10, <2>17, <2>18, QuietBeforePublishing DEF SetPlaces
  <2>20. a \o h \in Seq(AnyStep) /\ PublishesSet(a \o h, "dist")
    BY <2>9, <2>19, QuietBeforePublishing DEF SetPlaces
  <2>21. SealDistribution = ((((m \o a) \o u) \o g) \o z) \o t
    BY <1>2, <2>3, <2>4, <2>5, <2>6, <2>7, Zenon DEF SealDistribution
  <2>22. m \o a \in Seq(AnyStep)
    BY <2>8, <2>13, Together
  <2>23. (m \o a) \o u \in Seq(AnyStep)
    BY <2>13, <2>22, Together
  <2>24. ((m \o a) \o u) \o g \in Seq(AnyStep)
    BY <2>13, <2>23, Together
  <2>25. ((((m \o a) \o u) \o g) \o z) \o t = (((m \o a) \o u) \o g) \o k
    BY <2>12, <2>13, <2>14, <2>24, Together, ZenonT(60)
  <2>26. (((m \o a) \o u) \o g) \o k = ((m \o a) \o u) \o l
    BY <2>13, <2>15, <2>16, <2>23, Together, ZenonT(60)
  <2>27. ((m \o a) \o u) \o l = (m \o a) \o h
    BY <2>13, <2>17, <2>18, <2>22, Together, ZenonT(60)
  <2>28. (m \o a) \o h = m \o (a \o h)
    BY <2>8, <2>13, <2>19, Together, ZenonT(60)
  <2>29. SealDistribution = << <<"mkdtemp", "stage">> >> \o (a \o h)
    BY <2>1, <2>21, <2>25, <2>26, <2>27, <2>28, Zenon
  <2> QED
    BY <1>2, <2>20, <2>29, Zenon DEF Makes
<1> QED
  BY <1>1, <1>2


(* The steps.                                                              *)
\* The command goes on to its next step, or it raises.
GoesOn ==
    /\ cmd'.op = cmd.op
    /\ \/ cmd'.todo = Tail(cmd.todo) /\ cmd'.outcome = cmd.outcome
       \/ cmd'.outcome = "failed" /\ Ending(cmd'.todo)
SetsKept == updater' = updater /\ dist' = dist
SourcesKept == staged'.there = staged.there /\ stage'.there = stage.there

(* A raise ends the command, after the removal of its stage.               *)
LEMMA RaisedEnds ==
    ASSUME Shapes, NEW o
    PROVE  /\ RecordOf(Raised(o), CmdFields) /\ Raised(o).op = cmd.op /\ Raised(o).outcome = o
           /\ Ending(Raised(o).todo)
<1>1. CASE cmd.op = "seal-release" /\ stage.there
  BY <1>1 DEF Shapes, RecordOf, CmdFields, Raised, Ending, RemoveStage
<1>2. CASE ~(cmd.op = "seal-release" /\ stage.there)
  <2>1. <<>> \o Close = Close
    BY CloseIsSeq, ConcatEmptySeq
  <2>2. Raised(o) = [cmd EXCEPT !.outcome = o, !.todo = <<>> \o Close]
    BY <1>2 DEF Raised
  <2> QED
    BY <2>1, <2>2 DEF Shapes, RecordOf, CmdFields, Ending
<1> QED
  BY <1>1, <1>2

(* Require goes on or raises, whatever the step has read.                  *)
LEMMA RequireGoesOn ==
    ASSUME Shapes, NEW ok, NEW c, RecordOf(c, CmdFields), c.op = cmd.op, c.outcome = cmd.outcome, c.todo = cmd.todo,
           Require(ok, c)
    PROVE  GoesOn /\ RecordOf(cmd', CmdFields)
<1>1. CASE ok
  BY <1>1 DEF Require, Continue, RecordOf, CmdFields, GoesOn
<1>2. CASE ~ok
  BY <1>2, RaisedEnds DEF Require, GoesOn
<1> QED
  BY <1>1, <1>2

(* Continue goes on.                                                       *)
LEMMA ContinueGoesOn ==
    ASSUME Shapes, Continue(cmd)
    PROVE  GoesOn /\ RecordOf(cmd', CmdFields)
BY DEF Shapes, Continue, RecordOf, CmdFields, GoesOn

QuietStep ==
    \/ Reset \/ Produce \/ Record \/ Build \/ SealUpdaterSet \/ Inspect
    \/ Replay \/ Prove \/ Reprove \/ Rebind
    \/ BuildDmg \/ SealDmgSet \/ InspectDmg \/ ProveDmg \/ ReproveDmg \/ ReopenDmg
    \/ Project \/ Bundle \/ BindSets \/ Closure \/ Authorize \/ Closed \/ SealDist \/ InspectDist
    \/ Join \/ Recheck \/ Only \/ Sync

(* A quiet step is at a quiet name.                                        *)
LEMMA QuietHead == QuietStep => cmd.todo # <<>> /\ Head(cmd.todo)[1] \in QuietNames
BY DEF QuietStep, Reset, Produce, Record, Build, SealUpdaterSet, Inspect, Replay,
       Prove, Reprove, Rebind, BuildDmg, SealDmgSet, InspectDmg,
       ProveDmg, ReproveDmg, ReopenDmg, Project, Bundle, BindSets, Closure, Authorize, Closed, SealDist, InspectDist,
       Join, Recheck, Only, Sync, On, QuietNames

(* A quiet step publishes nothing and removes nothing.                     *)
LEMMA QuietEffect ==
    ASSUME Shapes, QuietStep
    PROVE  GoesOn /\ SetsKept /\ SourcesKept /\ Shapes'
<1>1. ASSUME Untouched, GoesOn, RecordOf(cmd', CmdFields) PROVE SetsKept /\ SourcesKept /\ Shapes'
  BY <1>1 DEF Untouched, SetsKept, SourcesKept, Shapes, RecordOf
<1>2. ASSUME NEW ok, Require(ok, cmd) PROVE GoesOn /\ RecordOf(cmd', CmdFields)
  BY <1>2, RequireGoesOn DEF Shapes
<1>3. CASE Produce
  <2>1. PICK c : c = [cmd EXCEPT !.seen = staged]
    OBVIOUS
  <2>2. RecordOf(c, CmdFields) /\ c.op = cmd.op /\ c.outcome = cmd.outcome /\ c.todo = cmd.todo
    BY <2>1 DEF Shapes, RecordOf, CmdFields
  <2>3. Require(Accepts(staged), c) /\ Untouched
    BY <1>3, <2>1 DEF Produce
  <2> QED
    BY <1>1, <2>2, <2>3, RequireGoesOn
<1>4. ASSUME NEW ok, NEW a, Untouched, Require(ok, [cmd EXCEPT !.app = a])
      PROVE  GoesOn /\ SetsKept /\ SourcesKept /\ Shapes'
  <2>1. PICK c : c = [cmd EXCEPT !.app = a]
    OBVIOUS
  <2>2. RecordOf(c, CmdFields) /\ c.op = cmd.op /\ c.outcome = cmd.outcome /\ c.todo = cmd.todo
    BY <2>1 DEF Shapes, RecordOf, CmdFields
  <2>3. Require(ok, c)
    BY <1>4, <2>1
  <2> QED
    BY <1>1, <1>4, <2>2, <2>3, RequireGoesOn
<1>5. CASE Build \/ BuildDmg \/ BindSets
  BY <1>4, <1>5 DEF Build, BuildDmg, BindSets
<1>6. CASE Inspect
  <2>1. PICK c : c = [cmd EXCEPT !.seen = UpdaterSet(Dir), !.pre = world.pre]
    OBVIOUS
  <2>2. RecordOf(c, CmdFields) /\ c.op = cmd.op /\ c.outcome = cmd.outcome /\ c.todo = cmd.todo
    BY <2>1 DEF Shapes, RecordOf, CmdFields
  <2>3. Untouched /\ \E ok : Require(ok, c)
    BY <1>6, <2>1 DEF Inspect
  <2> QED
    BY <1>1, <2>2, <2>3, RequireGoesOn
<1>7. CASE InspectDmg
  <2>1. PICK c : c = [cmd EXCEPT !.pre = world.pre]
    OBVIOUS
  <2>2. RecordOf(c, CmdFields) /\ c.op = cmd.op /\ c.outcome = cmd.outcome /\ c.todo = cmd.todo
    BY <2>1 DEF Shapes, RecordOf, CmdFields
  <2>3. Untouched /\ \E ok : Require(ok, c)
    BY <1>7, <2>1 DEF InspectDmg
  <2> QED
    BY <1>1, <2>2, <2>3, RequireGoesOn
<1>8. CASE Closure
  <2>1. PICK c : c = [cmd EXCEPT !.evidence = EvidenceTree]
    OBVIOUS
  <2>2. RecordOf(c, CmdFields) /\ c.op = cmd.op /\ c.outcome = cmd.outcome /\ c.todo = cmd.todo
    BY <2>1 DEF Shapes, RecordOf, CmdFields
  <2>3. Untouched /\ \E ok : Require(ok, c)
    BY <1>8, <2>1 DEF Closure
  <2> QED
    BY <1>1, <2>2, <2>3, RequireGoesOn
<1>9. CASE \/ Replay \/ Prove \/ Reprove \/ Rebind \/ ProveDmg \/ ReproveDmg \/ ReopenDmg
         \/ Authorize \/ Closed \/ InspectDist \/ Join \/ Recheck \/ Only
  <2>1. Untouched /\ \E ok : Require(ok, cmd)
    BY <1>9 DEF Replay, Prove, Reprove, Rebind, ProveDmg, ReproveDmg, ReopenDmg, Authorize, Closed,
                InspectDist, Join, Recheck, Only
  <2> QED
    BY <1>1, <1>2, <2>1
<1>10. CASE Reset
  <2>1. GoesOn /\ RecordOf(cmd', CmdFields)
    BY <1>10, ContinueGoesOn DEF Reset
  <2>2. RecordOf(staged', UpdaterFields) /\ staged'.there = staged.there
    BY <1>10 DEF Reset, Shapes, RecordOf, UpdaterFields
  <2> QED
    BY <1>10, <2>1, <2>2 DEF Reset, Shapes, RecordOf, SetsKept, SourcesKept
<1>11. CASE Record
  <2>1. GoesOn /\ RecordOf(cmd', CmdFields)
    BY <1>2, <1>11 DEF Record
  <2>2. RecordOf(staged', UpdaterFields) /\ staged'.there = staged.there
    BY <1>11 DEF Record, Shapes, RecordOf, UpdaterFields
  <2> QED
    BY <1>11, <2>1, <2>2 DEF Record, Shapes, RecordOf, SetsKept, SourcesKept
<1>12. CASE SealUpdaterSet
  <2>1. GoesOn /\ RecordOf(cmd', CmdFields)
    BY <1>2, <1>12 DEF SealUpdaterSet
  <2>2. RecordOf(staged', UpdaterFields) /\ staged'.there = staged.there
    BY <1>12 DEF SealUpdaterSet, Shapes, RecordOf, UpdaterFields
  <2> QED
    BY <1>12, <2>1, <2>2 DEF SealUpdaterSet, Shapes, RecordOf, SetsKept, SourcesKept
<1>13. CASE SealDmgSet
  <2>1. GoesOn /\ RecordOf(cmd', CmdFields)
    BY <1>2, <1>13 DEF SealDmgSet
  <2> QED
    BY <1>13, <2>1 DEF SealDmgSet, Shapes, RecordOf, SetsKept, SourcesKept
<1>14. CASE Project \/ Bundle \/ SealDist
  <2>1. GoesOn /\ RecordOf(cmd', CmdFields)
    BY <1>2, <1>14, ContinueGoesOn DEF Project, Bundle, SealDist
  <2>2. RecordOf(stage', DistFields) /\ stage'.there = stage.there
    BY <1>14 DEF Project, Bundle, SealDist, Shapes, RecordOf, DistFields
  <2> QED
    BY <1>14, <2>1, <2>2 DEF Project, Bundle, SealDist, StageOnly, Shapes, RecordOf, SetsKept,
           SourcesKept
<1>15. CASE Sync
  <2>1. GoesOn /\ RecordOf(cmd', CmdFields)
    BY <1>15, ContinueGoesOn DEF Sync
  <2>2. RecordOf(stage', DistFields) /\ stage'.there = stage.there
    BY <1>15 DEF Sync, Synced, Shapes, RecordOf, DistFields
  <2>3. RecordOf(staged', UpdaterFields) /\ staged'.there = staged.there
    BY <1>15 DEF Sync, Synced, Shapes, RecordOf, UpdaterFields
  <2> QED
    BY <1>15, <2>1, <2>2, <2>3 DEF Sync, Shapes, RecordOf, SetsKept, SourcesKept
<1> QED
  BY <1>3, <1>5, <1>6, <1>7, <1>8, <1>9, <1>10, <1>11, <1>12, <1>13, <1>14, <1>15 DEF QuietStep

(* A quiet step keeps a command on its course.                             *)
LEMMA QuietCourse ==
    ASSUME NEW d \in SetPlaces, NEW set, NEW src, NEW src2, src2.there = src.there,
           OnCourse(cmd, d, set, src), GoesOn, cmd.todo # <<>>, Head(cmd.todo)[1] \in QuietNames
    PROVE  OnCourse(cmd', d, set, src2)
<1>1. CASE cmd'.outcome = "failed" /\ Ending(cmd'.todo)
  BY <1>1 DEF OnCourse
<1>2. CASE cmd'.todo = Tail(cmd.todo) /\ cmd'.outcome = cmd.outcome
  <2>1. ~(cmd.todo = << <<"start", cmd.op>> >>)
    BY DEF QuietNames
  <2>2. ~Ending(cmd.todo)
    BY EndingNext DEF QuietNames
  <2>3. CASE cmd.outcome = "none" /\ Checks(cmd.todo) /\ set.there /\ set.named
    BY <1>2, <2>3, ChecksNext DEF QuietNames, OnCourse
  <2>4. CASE cmd.outcome = "none" /\ Confirms(cmd.todo, d) /\ set.there
    BY <1>2, <2>4, ConfirmsNext DEF QuietNames, OnCourse
  <2>5. CASE cmd.outcome = "none" /\ PublishesSet(cmd.todo, d) /\ src.there
    BY <1>2, <2>5, PublishesNext DEF QuietNames, OnCourse
  <2>6. ~Makes(cmd.todo)
    BY MakesNext DEF QuietNames
  <2> QED
    BY <2>1, <2>2, <2>3, <2>4, <2>5, <2>6 DEF OnCourse
<1> QED
  BY <1>1, <1>2 DEF GoesOn

(* What a command on its course has done when it reaches a step that is    *)
(* not quiet.                                                              *)
LEMMA CourseHead ==
    ASSUME NEW d \in SetPlaces, NEW set, NEW src, OnCourse(cmd, d, set, src), cmd.todo # <<>>
    PROVE  /\ Head(cmd.todo)[1] = "start" => cmd.outcome = "none"
           /\ Head(cmd.todo)[1] = "mkdtemp" => d = "dist" /\ cmd.outcome = "none" /\ PublishesSet(Tail(cmd.todo), "dist")
           /\ Head(cmd.todo)[1] = "publish" =>
                 Head(cmd.todo)[2] = d /\ cmd.outcome = "none" /\ Confirms(Tail(cmd.todo), d) /\ src.there
           /\ Head(cmd.todo)[1] = "confirm" =>
                 Head(cmd.todo)[2] = d /\ cmd.outcome = "none" /\ Checks(Tail(cmd.todo)) /\ set.there
           /\ Head(cmd.todo)[1] = "remove" =>
                 cmd.outcome # "none" /\ Tail(cmd.todo) = Close /\ (cmd.outcome = "ok" => set.there /\ set.named)
           /\ Head(cmd.todo)[1] = "close" =>
                 Tail(cmd.todo) = <<>> /\ (cmd.outcome \in {"none", "ok"} => set.there /\ set.named)
<1>1. CASE cmd.outcome = "none" /\ cmd.todo = << <<"start", cmd.op>> >>
  BY <1>1
<1>2. CASE cmd.outcome # "none" /\ Ending(cmd.todo) /\ (cmd.outcome = "ok" => set.there /\ set.named)
  BY <1>2, EndingNext
<1>3. CASE cmd.outcome = "none" /\ Checks(cmd.todo) /\ set.there /\ set.named
  <2>1. \/ Head(cmd.todo) = <<"close", "-">> /\ Tail(cmd.todo) = <<>>
        \/ Head(cmd.todo) \in QuietSteps
    BY <1>3, ChecksNext
  <2> QED
    BY <1>3, <2>1 DEF QuietSteps, QuietNames
<1>4. CASE cmd.outcome = "none" /\ Confirms(cmd.todo, d) /\ set.there
  <2>1. \/ Head(cmd.todo) = <<"confirm", d>> /\ Checks(Tail(cmd.todo))
        \/ Head(cmd.todo) \in QuietSteps
    BY <1>4, ConfirmsNext
  <2> QED
    BY <1>4, <2>1 DEF QuietSteps, QuietNames
<1>5. CASE cmd.outcome = "none" /\ PublishesSet(cmd.todo, d) /\ src.there
  <2>1. \/ Head(cmd.todo) = <<"publish", d>> /\ Confirms(Tail(cmd.todo), d)
        \/ Head(cmd.todo) \in QuietSteps
    BY <1>5, PublishesNext
  <2> QED
    BY <1>5, <2>1 DEF QuietSteps, QuietNames
<1>6. CASE cmd.outcome = "none" /\ Makes(cmd.todo) /\ d = "dist"
  BY <1>6, MakesNext
<1> QED
  BY <1>1, <1>2, <1>3, <1>4, <1>5, <1>6 DEF OnCourse

(* At first there is no command and nothing is published.                  *)
LEMMA SetsInitially == SetsInit => SetsInv
BY DEF SetsInit, SetsInv, Shapes, RecordOf, CmdFields, UpdaterFields, DistFields, IdleCommand, NoUpdater,
       NoDist

(* A command begins.                                                       *)
LEMMA SetsBegin == ASSUME SetsInv, NEW op \in Commands, Begin(op) PROVE SetsInv'
<1>1. /\ RecordOf(cmd', CmdFields) /\ cmd'.op = op /\ cmd'.outcome = "none" /\ cmd'.todo = << <<"start", op>> >>
  BY DEF Begin, IdleCommand, RecordOf, CmdFields
<1>2. Shapes'
  BY <1>1 DEF Begin, Untouched, SetsInv, Shapes, RecordOf
<1> QED
  BY <1>1, <1>2 DEF SetsInv, OnCourse

(* It takes the plan that fits what is published.                          *)
LEMMA SetsStart == ASSUME SetsInv, Start PROVE SetsInv'
<1>1. cmd.todo # <<>> /\ Head(cmd.todo)[1] = "start" /\ Untouched
  BY DEF Start, On
<1>2. \/ cmd' = Raised("failed")
      \/ \E plan : /\ cmd' = [cmd EXCEPT !.todo = plan, !.pre = world.pre]
                   /\ cmd.op = "seal-updater" => plan = SealUpdater /\ (updater.there \/ staged.there)
                   /\ cmd.op = "seal-release" => plan = SealDistribution
  BY DEF Start
<1>3. Shapes
  BY DEF SetsInv
<1>4. CASE cmd' = Raised("failed")
  <2>1. RecordOf(cmd', CmdFields) /\ cmd'.outcome = "failed" /\ Ending(cmd'.todo)
    BY <1>3, <1>4, RaisedEnds
  <2>2. Shapes'
    BY <1>1, <1>3, <2>1 DEF Untouched, Shapes, RecordOf
  <2> QED
    BY <2>1, <2>2 DEF SetsInv, OnCourse
<1>5. ASSUME NEW plan, cmd' = [cmd EXCEPT !.todo = plan, !.pre = world.pre],
             cmd.op = "seal-updater" => plan = SealUpdater /\ (updater.there \/ staged.there),
             cmd.op = "seal-release" => plan = SealDistribution
      PROVE  SetsInv'
  <2>1. RecordOf(cmd', CmdFields) /\ cmd'.outcome = cmd.outcome /\ cmd'.op = cmd.op /\ cmd'.todo = plan
    BY <1>3, <1>5 DEF Shapes, RecordOf, CmdFields
  <2>2. Shapes'
    BY <1>1, <1>3, <2>1 DEF Untouched, Shapes, RecordOf
  <2>3. ASSUME cmd.op = "seal-updater" PROVE OnCourse(cmd', "updater", updater, staged)
    <3>1. cmd.outcome = "none"
      BY <1>1, <2>3, CourseHead DEF SetsInv, SetPlaces
    <3> QED
      BY <1>5, <2>1, <2>3, <3>1, SealUpdaterPlan DEF OnCourse
  <2>4. ASSUME cmd.op = "seal-release" PROVE OnCourse(cmd', "dist", dist, stage)
    <3>1. cmd.outcome = "none"
      BY <1>1, <2>4, CourseHead DEF SetsInv, SetPlaces
    <3> QED
      BY <1>5, <2>1, <2>4, <3>1, SealDistributionPlan DEF OnCourse
  <2> QED
    BY <1>1, <2>1, <2>2, <2>3, <2>4 DEF SetsInv, Untouched
<1> QED
  BY <1>2, <1>4, <1>5

(* A quiet step.                                                           *)
LEMMA SetsQuiet == ASSUME SetsInv, QuietStep PROVE SetsInv'
<1>1. Shapes /\ cmd.todo # <<>> /\ Head(cmd.todo)[1] \in QuietNames
  BY QuietHead DEF SetsInv
<1>2. GoesOn /\ SetsKept /\ SourcesKept /\ Shapes'
  BY <1>1, QuietEffect
<1>3. ASSUME cmd.op = "seal-updater" PROVE OnCourse(cmd', "updater", updater, staged')
  BY <1>1, <1>2, <1>3, QuietCourse DEF SetsInv, SourcesKept, SetPlaces
<1>4. ASSUME cmd.op = "seal-release" PROVE OnCourse(cmd', "dist", dist, stage')
  BY <1>1, <1>2, <1>4, QuietCourse DEF SetsInv, SourcesKept, SetPlaces
<1> QED
  BY <1>2, <1>3, <1>4 DEF SetsInv, GoesOn, SetsKept

(* mkdtemp makes the stage of seal-release, or refuses.                    *)
LEMMA SetsMkdtemp == ASSUME SetsInv, Mkdtemp PROVE SetsInv'
<1>1. cmd.todo # <<>> /\ Head(cmd.todo)[1] = "mkdtemp" /\ Shapes
  BY DEF Mkdtemp, On, SetsInv
<1>2. cmd.op # "seal-updater"
  BY <1>1, CourseHead DEF SetsInv, SetPlaces
<1>3. CASE stage.there /\ UNCHANGED stage /\ cmd' = [cmd EXCEPT !.todo = Close, !.outcome = "failed"]
  <2>1. RecordOf(cmd', CmdFields) /\ cmd'.outcome = "failed" /\ Ending(cmd'.todo) /\ cmd'.op = cmd.op
    BY <1>1, <1>3 DEF Shapes, RecordOf, CmdFields, Ending
  <2>2. Shapes'
    BY <1>1, <1>3, <2>1 DEF Mkdtemp, StageOnly, Shapes, RecordOf
  <2> QED
    BY <2>1, <2>2 DEF SetsInv, OnCourse
<1>4. CASE ~stage.there /\ stage' = [NoDist EXCEPT !.there = TRUE] /\ Continue(cmd)
  <2>1. RecordOf(cmd', CmdFields) /\ cmd'.outcome = cmd.outcome /\ cmd'.todo = Tail(cmd.todo) /\ cmd'.op = cmd.op
    BY <1>1, <1>4 DEF Shapes, RecordOf, CmdFields, Continue
  <2>2. RecordOf(stage', DistFields) /\ stage'.there
    BY <1>4 DEF NoDist, RecordOf, DistFields
  <2>3. Shapes'
    BY <1>1, <2>1, <2>2 DEF Mkdtemp, StageOnly, Shapes, RecordOf
  <2>4. ASSUME cmd.op = "seal-release" PROVE OnCourse(cmd', "dist", dist', stage')
    BY <1>1, <2>1, <2>2, <2>4, CourseHead DEF SetsInv, OnCourse, SetPlaces
  <2> QED
    BY <1>2, <2>1, <2>3, <2>4 DEF SetsInv
<1> QED
  BY <1>3, <1>4 DEF Mkdtemp

(* The publisher renames, and goes on to the confirmation or, when a call  *)
(* failed after the rename, verifies and then confirms.                    *)
LEMMA SetsPublish == ASSUME SetsInv, PublishSet PROVE SetsInv'
<1>1. cmd.todo # <<>> /\ Head(cmd.todo)[1] = "publish" /\ Shapes /\ Dir = Head(cmd.todo)[2]
  BY DEF PublishSet, On, SetsInv, Dir
<1>2. RecordOf(cmd', CmdFields) /\ cmd'.outcome = cmd.outcome /\ cmd'.op = cmd.op
      /\ (cmd'.todo = Tail(cmd.todo) \/ cmd'.todo = Confirmed(cmd.op, Dir))
  BY <1>1 DEF PublishSet, Shapes, RecordOf, CmdFields, Continue
<1>3. CASE Dir = "updater"
  <2>1. /\ updater' = [staged EXCEPT !.named = FALSE] /\ staged' = NoUpdater /\ stage' = stage /\ dist' = dist
    BY <1>3 DEF PublishSet, Rename
  <2>2. RecordOf(updater', UpdaterFields) /\ updater'.there = staged.there /\ RecordOf(staged', UpdaterFields)
    BY <1>1, <2>1 DEF Shapes, RecordOf, UpdaterFields, NoUpdater
  <2>3. Shapes'
    BY <1>1, <1>2, <2>1, <2>2 DEF Shapes, RecordOf
  <2>4. ASSUME cmd.op = "seal-updater" PROVE OnCourse(cmd', "updater", updater', staged')
    <3>1. cmd.outcome = "none" /\ Confirms(Tail(cmd.todo), "updater") /\ staged.there
      BY <1>1, <2>4, CourseHead DEF SetsInv, SetPlaces
    <3>2. Confirms(cmd'.todo, "updater")
      BY <1>2, <1>3, <3>1, ConfirmedConfirms DEF SetPlaces
    <3> QED
      BY <1>2, <2>2, <3>1, <3>2 DEF OnCourse
  <2>5. cmd.op # "seal-release"
    BY <1>1, <1>3, CourseHead DEF SetsInv, SetPlaces
  <2> QED
    BY <1>2, <2>3, <2>4, <2>5 DEF SetsInv
<1>4. CASE Dir # "updater"
  <2>1. /\ dist' = [stage EXCEPT !.named = FALSE] /\ stage' = NoDist /\ staged' = staged /\ updater' = updater
    BY <1>4 DEF PublishSet, Rename
  <2>2. RecordOf(dist', DistFields) /\ dist'.there = stage.there /\ RecordOf(stage', DistFields)
    BY <1>1, <2>1 DEF Shapes, RecordOf, DistFields, NoDist
  <2>3. Shapes'
    BY <1>1, <1>2, <2>1, <2>2 DEF Shapes, RecordOf
  <2>4. ASSUME cmd.op = "seal-release" PROVE OnCourse(cmd', "dist", dist', stage')
    <3>1. cmd.outcome = "none" /\ Confirms(Tail(cmd.todo), "dist") /\ stage.there /\ Dir = "dist"
      BY <1>1, <2>4, CourseHead DEF SetsInv, SetPlaces
    <3>2. Confirms(cmd'.todo, "dist")
      BY <1>2, <3>1, ConfirmedConfirms DEF SetPlaces
    <3> QED
      BY <1>2, <2>2, <3>1, <3>2 DEF OnCourse
  <2>5. cmd.op # "seal-updater"
    BY <1>1, <1>4, CourseHead DEF SetsInv, SetPlaces
  <2> QED
    BY <1>2, <2>3, <2>4, <2>5 DEF SetsInv
<1> QED
  BY <1>3, <1>4

(* The confirmation puts the set and its name on disk.                     *)
LEMMA SetsConfirm == ASSUME SetsInv, Confirm PROVE SetsInv'
<1>1. cmd.todo # <<>> /\ Head(cmd.todo)[1] = "confirm" /\ Shapes /\ Dir = Head(cmd.todo)[2]
  BY DEF Confirm, On, SetsInv, Dir
<1>2. RecordOf(cmd', CmdFields) /\ cmd'.outcome = cmd.outcome /\ cmd'.op = cmd.op /\ cmd'.todo = Tail(cmd.todo)
  BY <1>1 DEF Confirm, Shapes, RecordOf, CmdFields, Continue
<1>3. RecordOf(updater', UpdaterFields) /\ RecordOf(dist', DistFields) /\ staged' = staged /\ stage' = stage
  BY <1>1 DEF Confirm, SetNamed, Named, Shapes, RecordOf, UpdaterFields, DistFields
<1>4. Shapes'
  BY <1>1, <1>2, <1>3 DEF Shapes, RecordOf
<1>5. ASSUME cmd.op = "seal-updater" PROVE OnCourse(cmd', "updater", updater', staged')
  <2>1. cmd.outcome = "none" /\ Checks(Tail(cmd.todo)) /\ updater.there /\ Dir = "updater"
    BY <1>1, <1>5, CourseHead DEF SetsInv, SetPlaces
  <2>2. updater'.there /\ updater'.named
    BY <1>1, <2>1 DEF Confirm, SetNamed, Named, Shapes, RecordOf, UpdaterFields
  <2> QED
    BY <1>2, <2>1, <2>2 DEF OnCourse
<1>6. ASSUME cmd.op = "seal-release" PROVE OnCourse(cmd', "dist", dist', stage')
  <2>1. cmd.outcome = "none" /\ Checks(Tail(cmd.todo)) /\ dist.there /\ Dir = "dist"
    BY <1>1, <1>6, CourseHead DEF SetsInv, SetPlaces
  <2>2. dist'.there /\ dist'.named
    BY <1>1, <2>1 DEF Confirm, SetNamed, Named, Shapes, RecordOf, DistFields
  <2> QED
    BY <1>2, <2>1, <2>2 DEF OnCourse
<1> QED
  BY <1>2, <1>4, <1>5, <1>6 DEF SetsInv

(* The stage of a command that failed is removed.                          *)
LEMMA SetsRemove == ASSUME SetsInv, Remove PROVE SetsInv'
<1>1. cmd.todo # <<>> /\ Head(cmd.todo)[1] = "remove" /\ Shapes
  BY DEF Remove, On, SetsInv
<1>2. RecordOf(cmd', CmdFields) /\ cmd'.outcome = cmd.outcome /\ cmd'.op = cmd.op /\ cmd'.todo = Tail(cmd.todo)
  BY <1>1 DEF Remove, Shapes, RecordOf, CmdFields, Continue
<1>3. RecordOf(stage', DistFields) /\ staged' = staged /\ updater' = updater /\ dist' = dist
  BY DEF Remove, StageOnly, NoDist, RecordOf, DistFields
<1>4. Shapes'
  BY <1>1, <1>2, <1>3 DEF Shapes, RecordOf
<1>5. ASSUME cmd.op = "seal-updater" PROVE OnCourse(cmd', "updater", updater, staged')
  BY <1>1, <1>2, <1>5, CourseHead DEF SetsInv, OnCourse, Ending, SetPlaces
<1>6. ASSUME cmd.op = "seal-release" PROVE OnCourse(cmd', "dist", dist, stage')
  BY <1>1, <1>2, <1>6, CourseHead DEF SetsInv, OnCourse, Ending, SetPlaces
<1> QED
  BY <1>2, <1>3, <1>4, <1>5, <1>6 DEF SetsInv

(* A command that closes its sessions with nothing against it has its set  *)
(* published and on disk.                                                  *)
LEMMA SetsClose == ASSUME SetsInv, CloseSession PROVE SetsInv'
<1>1. cmd.todo # <<>> /\ Head(cmd.todo)[1] = "close" /\ Shapes /\ Untouched
  BY DEF CloseSession, On, SetsInv
<1>2. /\ RecordOf(cmd', CmdFields) /\ cmd'.op = cmd.op /\ cmd'.todo = Tail(cmd.todo)
      /\ cmd'.outcome = "ok" => cmd.outcome \in {"none", "ok"}
      /\ cmd'.outcome # "none"
  BY <1>1 DEF CloseSession, Shapes, RecordOf, CmdFields, Continue
<1>3. Shapes'
  BY <1>1, <1>2 DEF Untouched, Shapes, RecordOf
<1>5. ASSUME cmd.op = "seal-updater" PROVE OnCourse(cmd', "updater", updater, staged)
  BY <1>1, <1>2, <1>5, CourseHead DEF SetsInv, OnCourse, Ending, SetPlaces
<1>6. ASSUME cmd.op = "seal-release" PROVE OnCourse(cmd', "dist", dist, stage)
  BY <1>1, <1>2, <1>6, CourseHead DEF SetsInv, OnCourse, Ending, SetPlaces
<1> QED
  BY <1>1, <1>2, <1>3, <1>5, <1>6 DEF SetsInv, Untouched

(* A failing call or an interrupt ends the command without success.        *)
LEMMA SetsFails == ASSUME SetsInv, Fails PROVE SetsInv'
<1>1. Shapes
  BY DEF SetsInv
<1>2. /\ RecordOf(cmd', CmdFields) /\ cmd'.op = cmd.op /\ cmd'.outcome \in {"failed", "unremoved"}
      /\ Ending(cmd'.todo)
  <2>1. CASE cmd' = Raised("failed")
    BY <1>1, <2>1, RaisedEnds
  <2>2. ASSUME NEW o \in {"failed", "unremoved"}, cmd' = [cmd EXCEPT !.todo = Close, !.outcome = o]
        PROVE  /\ RecordOf(cmd', CmdFields) /\ cmd'.op = cmd.op /\ cmd'.outcome \in {"failed", "unremoved"}
               /\ Ending(cmd'.todo)
    BY <1>1, <2>2 DEF Shapes, RecordOf, CmdFields, Ending
  <2> QED
    BY <2>1, <2>2 DEF Fails
<1>3. Shapes'
  BY <1>1, <1>2 DEF Fails, Shapes, RecordOf
<1> QED
  BY <1>2, <1>3 DEF SetsInv, OnCourse

(* After a crash or a loss of power no command runs.                       *)
LEMMA SetsIdle == ASSUME SetsInv, Crash \/ PowerLoss PROVE SetsInv'
<1>1. RecordOf(cmd', CmdFields) /\ cmd'.op = "none"
  BY DEF Crash, PowerLoss, IdleCommand, RecordOf, CmdFields
<1>2. ASSUME NEW s, RecordOf(s, UpdaterFields), NEW t \in Lost(s, NoUpdater) PROVE RecordOf(t, UpdaterFields)
  BY <1>2 DEF Lost, NoUpdater, RecordOf, UpdaterFields
<1>3. ASSUME NEW s, RecordOf(s, DistFields), NEW t \in Lost(s, NoDist) PROVE RecordOf(t, DistFields)
  BY <1>3 DEF Lost, NoDist, RecordOf, DistFields
<1>4. Shapes'
  <2>1. CASE Crash
    BY <1>1, <2>1 DEF Crash, SetsInv, Shapes, RecordOf
  <2>2. CASE PowerLoss
    <3>1. /\ staged' \in Lost(staged, NoUpdater) /\ updater' \in Lost(updater, NoUpdater)
          /\ stage' \in Lost(stage, NoDist) /\ dist' \in Lost(dist, NoDist)
      BY <2>2 DEF PowerLoss
    <3>2. RecordOf(staged', UpdaterFields) /\ RecordOf(updater', UpdaterFields)
      BY <1>2, <3>1 DEF SetsInv, Shapes
    <3>3. RecordOf(stage', DistFields) /\ RecordOf(dist', DistFields)
      BY <1>3, <3>1 DEF SetsInv, Shapes
    <3> QED
      BY <1>1, <3>2, <3>3 DEF Shapes, RecordOf
  <2> QED
    BY <2>1, <2>2
<1> QED
  BY <1>1, <1>4 DEF SetsInv

(* What other programs change: the candidate, its authorisation, the       *)
(* verifier, the evidence, the packages.                                   *)
LEMMA SetsOthers ==
    ASSUME SetsInv, Rebuild \/ Reauthorise \/ ChangeInputs \/ Recollect \/ Package \/ PrepareDmg \/ PlaceDmg
    PROVE  SetsInv'
<1>1. CASE Package
  <2>1. cmd.todo = <<>> /\ cmd' = cmd /\ updater' = updater /\ stage' = stage /\ dist' = dist
    BY <1>1 DEF Package
  <2>2. RecordOf(staged', UpdaterFields)
    BY <1>1 DEF Package, NoUpdater, RecordOf, UpdaterFields
  <2>3. ASSUME cmd.op = "seal-updater" PROVE OnCourse(cmd, "updater", updater, staged')
    BY <2>1, <2>3, ChecksNext, ConfirmsNext, PublishesNext, MakesNext DEF SetsInv, OnCourse, SetPlaces
  <2> QED
    BY <2>1, <2>2, <2>3 DEF SetsInv, Shapes, RecordOf
<1>2. CASE Rebuild \/ Reauthorise \/ ChangeInputs \/ Recollect \/ PrepareDmg \/ PlaceDmg
  <2>1. UNCHANGED <<staged, updater, stage, dist, cmd>>
    BY <1>2 DEF Rebuild, Reauthorise, ChangeInputs, Recollect, Change, PrepareDmg,
           PlaceDmg
  <2> QED
    BY <2>1 DEF SetsInv, Shapes, RecordOf
<1> QED
  BY <1>1, <1>2

(* Every step keeps the invariant.                                         *)
LEMMA SetsStep == SetsInv /\ [SetsNext]_(setsVars) => SetsInv'
<1> SUFFICES ASSUME SetsInv, [SetsNext]_(setsVars) PROVE SetsInv'
  OBVIOUS
<1>1. CASE UNCHANGED setsVars
  BY <1>1 DEF setsVars, SetsInv, Shapes, RecordOf
<1>2. CASE Step
  <2>1. QuietStep \/ Start \/ Mkdtemp \/ PublishSet \/ Confirm \/ Remove \/ CloseSession
    BY <1>2, Zenon DEF Step, QuietStep
  <2> QED
    BY <2>1, SetsQuiet, SetsStart, SetsMkdtemp, SetsPublish, SetsConfirm, SetsRemove, SetsClose
<1> QED
  BY <1>1, <1>2, SetsBegin, SetsFails, SetsIdle, SetsOthers DEF SetsNext

(* A seal-updater or a seal-release that reports success has its set at    *)
(* the fixed path with the name on disk, also when a call failed after the *)
(* rename and whatever ran before: publish_exclusive and                   *)
(* confirm_published_tree_durable of scripts/release_artifact_set.py.      *)
THEOREM SuccessesAreDurable == SetsSpec => []SuccessIsDurable
<1>1. SetsInv => SuccessIsDurable
  <2> SUFFICES ASSUME SetsInv, cmd.outcome = "ok" PROVE SuccessIsDurable
    BY DEF SuccessIsDurable
  <2> QED
    BY DEF SetsInv, OnCourse, SuccessIsDurable
<1> QED
  BY <1>1, SetsInitially, SetsStep, PTL DEF SetsSpec
=============================================================================
