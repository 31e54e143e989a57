--------------------------- MODULE DmgNotarization ---------------------------
(***************************************************************************)
(* scripts/dmg_notarization_transaction.py: the one Apple submission of    *)
(* the packaged DMG.  execute_transaction moves the staged DMG into a      *)
(* private attempt, submits it once and finalizes it on a private copy;    *)
(* recover_transaction continues the same submission.  Both hold the       *)
(* attempt lock.  Events are appended through the crash-safe EventJournal  *)
(* of notarization_transaction.py; the other documents are written under   *)
(* their final names, so a crash can leave one torn.                       *)
(***************************************************************************)
EXTENDS Naturals, Sequences, FiniteSets

CONSTANTS
    Mine,               \* the id Apple gives this DMG's submission
    Other,              \* an id of the account that is not this DMG's
    NoId,
    MAX_DMG_EVENTS,
    MaxDmgFaults        \* bound on crashes, failed commands and deferred answers

RECOVERY_EVENT_RESERVE == 9

VARIABLES
    dmg,     \* is a DMG staged, does the attempt directory exist
    events,  \* events/NNNNNNNN.json
    docs,    \* observation, receipt, Apple's result and log, Gatekeeper evidence
    copies,  \* staple copies made so far; the current one, the unpublished set
    final,   \* the published set, or NoSet
    apple,   \* Apple's answer for the submission
    uploads, \* how often notarytool submit ran
    run,     \* the invocation that holds the lock
    faults

dvars == <<dmg, events, docs, copies, final, apple, uploads, run, faults>>

Torn == "torn"
NoSet == [copy |-> 0, gatekeeper |-> 0]
NoDocs == [observation |-> NoId, receipt |-> NoId, log |-> "none", gatekeeper |-> 0]
NoCopies == [made |-> 0, pending |-> 0, set |-> NoSet]
Idle == [pc |-> "idle", id |-> NoId, recovery |-> FALSE]

TRANSITIONS ==
    [none |-> {"prepared"},
     prepared |-> {"submitting"},
     submitting |-> {"outcome_unknown", "recovering", "submission_observed"},
     submission_observed |-> {"outcome_unknown", "recovering", "waiting"},
     waiting |-> {"accepted", "outcome_unknown", "recovering", "rejected"},
     outcome_unknown |-> {"recovering"},
     recovery_deferred |-> {"recovering"},
     finalization_deferred |-> {"recovering"},
     publication_deferred |-> {"published", "recovering"},
     recovering |-> {"accepted", "recovering", "recovery_deferred", "rejected"},
     accepted |-> {"finalization_deferred", "log_verified", "recovering"},
     log_verified |-> {"finalization_deferred", "recovering", "stapling"},
     stapling |-> {"finalization_deferred", "recovering", "stapled"},
     stapled |-> {"finalization_deferred", "gatekeeper_verified", "recovering"},
     gatekeeper_verified |-> {"artifact_verified", "finalization_deferred", "recovering"},
     artifact_verified |-> {"finalization_deferred", "recovering", "sealed"},
     sealed |-> {"finalization_deferred", "publication_deferred", "published", "recovering"},
     published |-> {},
     rejected |-> {}]

Labels == {"idle", "enter", "submit", "reply", "receipt", "observed", "wait", "recover",
           "info", "bind", "accepted", "log", "copy", "stapling", "staple", "gatekeeper",
           "assessed", "verify", "set", "seal", "publish", "settle", "confirm"}

TypeOK ==
    /\ dmg \in [staged : BOOLEAN, attempt : BOOLEAN]
    /\ events \in Seq([st : DOMAIN TRANSITIONS, id : {Mine, Other, NoId}])
    /\ Len(events) <= MAX_DMG_EVENTS
    /\ docs.observation \in {Mine, NoId, Torn} /\ docs.receipt \in {Mine, NoId, Torn}
    /\ docs.log \in {"none", "ok", Torn} /\ docs.gatekeeper \in 0..copies.made
    /\ copies.pending \in 0..copies.made
    /\ {final.copy, copies.set.copy, final.gatekeeper} \subseteq 0..copies.made
    /\ apple \in {"absent", "In Progress", "Accepted", "Rejected"}
    /\ uploads \in Nat /\ faults \in 0..MaxDmgFaults
    /\ run \in [pc : Labels, id : {Mine, Other, NoId}, recovery : BOOLEAN]

-----------------------------------------------------------------------------
State == IF events = <<>> THEN "none" ELSE events[Len(events)].st
JournalIds == {events[i].id : i \in DOMAIN events} \ {NoId}
KnownIds == (JournalIds \cup {docs.observation, docs.receipt}) \ {NoId}

\* _validate_journal: legal transitions, one submission id.
JournalValid(ev) ==
    /\ ev # <<>> /\ ev[1].st = "prepared"
    /\ \A i \in 2..Len(ev) : ev[i].st \in TRANSITIONS[ev[i - 1].st]
    /\ Cardinality({ev[i].id : i \in DOMAIN ev} \ {NoId}) <= 1

\* _require_recovery_capacity
RequiredEvents ==
    CASE State = "published" -> 0
      [] State # "published" /\ final # NoSet -> 1
      [] OTHER -> RECOVERY_EVENT_RESERVE

\* _load_json and _validate_intent: the intent reads back canonical and about this DMG; it was
\* written before the directory got the attempt's name, so an attempt has one.
IntentValid == dmg.attempt
\* _load_attempt: every document reads back whole and names one submission.
Loadable ==
    /\ IntentValid /\ JournalValid(events)
    /\ Len(events) + RequiredEvents <= MAX_DMG_EVENTS
    /\ Torn \notin {docs.observation, docs.receipt}
    /\ Cardinality(KnownIds) <= 1

Goto(label) == run' = [run EXCEPT !.pc = label]
Leave == run' = Idle
Fault == faults < MaxDmgFaults /\ faults' = faults + 1
Room == Len(events) < MAX_DMG_EVENTS
Log(st, id) == Room /\ events' = Append(events, [st |-> st, id |-> id])

JournalOnly == UNCHANGED <<dmg, docs, copies, final, apple, uploads, faults>>
\* An event, then the next label.
Note(from, st, label) ==
    /\ run.pc = from /\ Log(st, run.id) /\ Goto(label) /\ JournalOnly

\* _record_deferred: the event that a failed command ends with.
DeferredState(rejected) ==
    CASE rejected -> "rejected"
      [] ~rejected /\ run.recovery /\ State = "recovering" -> "recovery_deferred"
      [] ~rejected /\ State = "sealed" /\ final # NoSet -> "publication_deferred"
      [] ~rejected /\ State \in {"submitting", "submission_observed", "waiting"} -> "outcome_unknown"
      [] OTHER -> "finalization_deferred"
Defer(rejected) ==
    /\ Leave
    /\ IF Room THEN Log(DeferredState(rejected), run.id) ELSE UNCHANGED events

-----------------------------------------------------------------------------
(* Entering the transaction and submitting.                                *)

\* make_dmg.sh stages a DMG, before an attempt or after one (external).
Stage ==
    /\ ~dmg.staged /\ run = Idle /\ dmg' = [dmg EXCEPT !.staged = TRUE]
    /\ UNCHANGED <<events, docs, copies, final, apple, uploads, run, faults>>
\* Mutant: an existing attempt is not looked for.
UnattemptedUnlessPublished == final = NoSet
\* preflight_new: neither a release set nor an attempt of this version exists.
Unattempted == final = NoSet /\ ~dmg.attempt
Execute ==
    /\ run = Idle /\ dmg.staged /\ Unattempted
    /\ dmg' = [dmg EXCEPT !.staged = FALSE] /\ run' = [Idle EXCEPT !.pc = "enter"]
    /\ UNCHANGED <<events, docs, copies, final, apple, uploads, faults>>
ExecuteRefused ==
    /\ run = Idle /\ dmg.staged /\ ~Unattempted /\ UNCHANGED dvars
\* The paths, the source tree and its identity, read again under the claim, are not the context's.
SourceDrifted == Fault
\* The prepackage stage does not verify, or is not the one that is bound.
PrepackageDrifted == Fault
\* _dmg_identity: the DMG is no single regular file, or changed while it was hashed.
DmgChanged == Fault
\* A failure before the attempt is published puts the staged DMG back.
RestoreUnsubmitted ==
    /\ run.pc = "enter" /\ (SourceDrifted \/ PrepackageDrifted \/ DmgChanged) /\ dmg' = [dmg EXCEPT !.staged = TRUE] /\ Leave
    /\ UNCHANGED <<events, docs, copies, final, apple, uploads>>
\* The pending directory is renamed exclusively to the attempt.
PrepareAttempt ==
    /\ run.pc = "enter" /\ Unattempted /\ dmg' = [dmg EXCEPT !.attempt = TRUE]
    /\ Log("prepared", NoId) /\ Goto("submit")
    /\ UNCHANGED <<docs, copies, final, apple, uploads, faults>>
\* The prepackage authorization drifted since the attempt was prepared: no event.
SubmitRefused == run.pc = "submit" /\ PrepackageDrifted /\ Leave /\ UNCHANGED events /\ UNCHANGED
    <<dmg, docs, copies, final, apple, uploads>>
RecordSubmitting == Note("submit", "submitting", "reply")

Submit == \E id \in {Mine} :
    /\ run.pc = "reply" /\ uploads' = uploads + 1 /\ apple' = "In Progress"
    /\ docs' = [docs EXCEPT !.observation = id]
    /\ run' = [run EXCEPT !.pc = "receipt", !.id = id]
    /\ UNCHANGED <<dmg, events, copies, final, faults>>
\* No identity can be read from the reply; the upload may have happened.
SubmitUnknown ==
    /\ run.pc = "reply" /\ Fault /\ uploads' = uploads + 1
    /\ apple' \in {"absent", "In Progress"}
    /\ Defer(FALSE) /\ UNCHANGED <<dmg, docs, copies, final>>
PersistReceipt ==
    /\ run.pc = "receipt" /\ docs' = [docs EXCEPT !.receipt = run.id]
    /\ Goto("observed") /\ UNCHANGED <<dmg, events, copies, final, apple, uploads, faults>>
RecordObserved == State = "submitting" /\ Note("observed", "submission_observed", "wait")
RecordWaiting == State = "submission_observed" /\ Note("wait", "waiting", "wait")
WaitAccepted ==
    /\ State = "waiting" /\ apple = "Accepted" /\ Note("wait", "accepted", "log")
WaitRejected ==
    /\ run.pc = "wait" /\ State = "waiting" /\ apple = "Rejected"
    /\ Defer(TRUE) /\ JournalOnly

-----------------------------------------------------------------------------
(* recover_transaction.                                                    *)

Recover == \E id \in {Mine, Other} :
    /\ run = Idle /\ Loadable /\ KnownIds \subseteq {id}
    /\ State \notin {"prepared", "rejected"}
    /\ run' = [pc |-> IF final # NoSet THEN "confirm" ELSE "recover", id |-> id, recovery |-> TRUE]
    /\ final = NoSet \/ State \in {"published", "publication_deferred", "sealed"}
    /\ UNCHANGED <<dmg, events, docs, copies, final, apple, uploads, faults>>
\* _reset_unpublished_stapling removes, in this order, copy, set and evidence.
ResetDirty == copies.pending # 0 \/ copies.set # NoSet \/ docs.gatekeeper # 0
Reset ==
    /\ run.pc = "recover" /\ ResetDirty
    /\ CASE copies.pending # 0 -> copies' = [copies EXCEPT !.pending = 0] /\ UNCHANGED docs
         [] copies.pending = 0 /\ copies.set # NoSet ->
              copies' = [copies EXCEPT !.set = NoSet] /\ UNCHANGED docs
         [] OTHER -> docs' = [docs EXCEPT !.gatekeeper = 0] /\ UNCHANGED copies
    /\ UNCHANGED <<dmg, events, final, apple, uploads, run, faults>>
RecordRecovering == ~ResetDirty /\ Note("recover", "recovering", "info")

\* Apple's info for the id, and its history when no reply was observed, bind it to this DMG.
RecoveryAccepted == run.pc = "info" /\ run.id = Mine /\ apple = "Accepted"
BindReceipt ==
    /\ RecoveryAccepted /\ docs.receipt = NoId
    /\ docs' = [docs EXCEPT !.receipt = run.id] /\ Goto("accepted")
    /\ UNCHANGED <<dmg, events, copies, final, apple, uploads, faults>>
KeepReceipt ==
    /\ RecoveryAccepted /\ docs.receipt = Mine /\ Goto("accepted")
    /\ UNCHANGED <<dmg, events, docs, copies, final, apple, uploads, faults>>
RecordAccepted == Note("accepted", "accepted", "log")
RecoveryRejected ==
    /\ run.pc = "info" /\ run.id = Mine /\ apple = "Rejected" /\ Defer(TRUE) /\ JournalOnly
\* Another DMG's id, or no terminal answer yet.
RecoveryDeferred ==
    /\ run.pc = "info" /\ (run.id # Mine \/ apple \in {"absent", "In Progress"})
    /\ Defer(FALSE) /\ Fault /\ UNCHANGED <<dmg, docs, copies, final, apple, uploads>>

-----------------------------------------------------------------------------
(* _finalize_accepted.                                                     *)

FetchLog ==
    /\ run.pc = "log" /\ State = "accepted" /\ docs.log # Torn
    /\ docs' = [docs EXCEPT !.log = "ok"] /\ Goto("copy")
    /\ UNCHANGED <<dmg, events, copies, final, apple, uploads, faults>>
RecordLogVerified == State = "accepted" /\ Note("copy", "log_verified", "copy")
StapleCopy ==
    /\ run.pc = "copy" /\ State = "log_verified" /\ copies.pending = 0
    /\ copies' = [copies EXCEPT !.made = @ + 1, !.pending = copies.made + 1]
    /\ Goto("stapling")
    /\ UNCHANGED <<dmg, events, docs, final, apple, uploads, faults>>
RecordStapling == Note("stapling", "stapling", "staple")
RecordStapled == State = "stapling" /\ Note("staple", "stapled", "gatekeeper")
\* Evidence on disk is reused when it targets these bytes, else captured.
Gatekeeper ==
    /\ run.pc = "gatekeeper" /\ docs.gatekeeper \in {0, copies.pending}
    /\ docs' = [docs EXCEPT !.gatekeeper = copies.pending] /\ Goto("assessed")
    /\ UNCHANGED <<dmg, events, copies, final, apple, uploads, faults>>
RecordGatekeeper == Note("assessed", "gatekeeper_verified", "verify")
RecordArtifact == Note("verify", "artifact_verified", "set")
BuildSet ==
    /\ run.pc = "set" /\ copies.set = NoSet
    /\ copies' = [copies EXCEPT !.set = [copy |-> copies.pending, gatekeeper |-> docs.gatekeeper]]
    /\ Goto("seal") /\ UNCHANGED <<dmg, events, docs, final, apple, uploads, faults>>
RecordSealed == Note("seal", "sealed", "publish")
PublishSet ==
    /\ run.pc = "publish" /\ final = NoSet
    /\ final' = copies.set /\ copies' = [copies EXCEPT !.set = NoSet] /\ Goto("settle")
    /\ UNCHANGED <<dmg, events, docs, apple, uploads, faults>>
\* Verified again, confirmed durable, recorded once.
ConfirmPublished ==
    /\ run.pc \in {"confirm", "settle"}
    /\ IF State = "published" THEN UNCHANGED events ELSE Log("published", run.id)
    /\ Leave /\ JournalOnly

-----------------------------------------------------------------------------
(* A command, a check or a write fails: the exception handler records it.  *)
GuardedLabels == {"receipt", "observed", "wait", "info", "accepted", "log", "copy", "stapling",
                  "staple", "gatekeeper", "assessed", "verify", "set", "seal", "publish", "settle"}
Fails ==
    /\ Fault /\ run.pc \in GuardedLabels
    /\ Defer(FALSE) /\ UNCHANGED <<dmg, docs, copies, final, apple, uploads>>
\* The torn log of an earlier crash can never be rewritten.
LogDiffers ==
    /\ run.pc = "log" /\ docs.log = Torn
    /\ Defer(FALSE) /\ JournalOnly

Crash ==
    /\ run.pc # "idle" /\ Fault /\ Leave
    /\ \/ UNCHANGED <<docs, apple, uploads>>
       \/ run.pc = "reply" /\ uploads' = uploads + 1 /\ apple' = "In Progress"
          /\ docs' \in {docs, [docs EXCEPT !.observation = Torn]}
       \/ run.pc = "receipt" /\ docs' = [docs EXCEPT !.receipt = Torn] /\ UNCHANGED <<apple, uploads>>
       \/ run.pc = "log" /\ docs.log = "none" /\ docs' = [docs EXCEPT !.log = Torn]
          /\ UNCHANGED <<apple, uploads>>
    /\ UNCHANGED <<dmg, events, copies, final>>

\* Apple decides (external).
AppleDecides ==
    /\ apple = "In Progress" /\ apple' \in {"Accepted", "Rejected"}
    /\ UNCHANGED <<dmg, events, docs, copies, final, uploads, run, faults>>

Init ==
    /\ dmg = [staged |-> FALSE, attempt |-> FALSE] /\ events = <<>> /\ docs = NoDocs /\ copies = NoCopies /\ final = NoSet
    /\ apple = "absent" /\ uploads = 0 /\ run = Idle /\ faults = 0

Submission ==
    \/ Stage \/ Execute \/ ExecuteRefused \/ RestoreUnsubmitted \/ PrepareAttempt \/ SubmitRefused
    \/ RecordSubmitting \/ Submit \/ SubmitUnknown \/ PersistReceipt \/ RecordObserved
    \/ RecordWaiting \/ WaitAccepted \/ WaitRejected
Recovery ==
    \/ Recover \/ Reset \/ RecordRecovering \/ BindReceipt \/ KeepReceipt
    \/ RecordAccepted \/ RecoveryRejected \/ RecoveryDeferred
Finalization ==
    \/ FetchLog \/ RecordLogVerified \/ StapleCopy \/ RecordStapling \/ RecordStapled
    \/ Gatekeeper \/ RecordGatekeeper \/ RecordArtifact \/ BuildSet \/ RecordSealed
    \/ PublishSet \/ ConfirmPublished

Next == Submission \/ Recovery \/ Finalization \/ Fails \/ LogDiffers \/ Crash \/ AppleDecides
Spec == Init /\ [][Next]_dvars

-----------------------------------------------------------------------------
(* notarytool submit runs at most once, however often the tool is re-run:   *)
(* preflight_new refuses an existing attempt, recovery never submits.       *)
SubmittedOnce == uploads <= 1

(* The published set's Gatekeeper evidence is about the very copy that was  *)
(* published, never about a copy of an earlier finalization                 *)
(* (_reset_unpublished_stapling, _load_or_capture_gatekeeper).              *)
PublishedEvidenceIsFresh == final.gatekeeper = final.copy

(* A recovery that was admitted never runs out of journal: the reserve is   *)
(* enough for every event up to the seal, and for the failure in its place. *)
EventsLeft ==
    [recover |-> 9, info |-> 8, accepted |-> 8, log |-> 7, copy |-> 7, stapling |-> 6,
     staple |-> 5, gatekeeper |-> 4, assessed |-> 4, verify |-> 3, set |-> 2, seal |-> 2,
     publish |-> 1]
RecoveryHasRoom ==
    run.recovery /\ run.pc \in DOMAIN EventsLeft =>
        Len(events) + EventsLeft[run.pc] - (IF State = "log_verified" /\ run.pc = "copy" THEN 1 ELSE 0)
            <= MAX_DMG_EVENTS
=============================================================================
