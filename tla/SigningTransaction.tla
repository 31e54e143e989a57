-------------------------- MODULE SigningTransaction --------------------------
(***************************************************************************)
(* scripts/signing_attempt_transaction.py and signing_reconciliation.py:   *)
(* the one use of the signing identity for a frozen candidate.  Each       *)
(* attempt owns an append-only event journal and a private output tree     *)
(* that moves work -> publish-ready -> canonical by exclusive renames.     *)
(* "run" starts, "resume" decides from journal and trees what may still be *)
(* done, "reconcile-failed" re-validates an output that failed only its    *)
(* last check, in a journal of its own.  All three hold the lock of the    *)
(* attempts directory.  A step runs from one durable write to the next.    *)
(***************************************************************************)
EXTENDS Naturals, Sequences, SequencesExt

CONSTANTS
    Procs,              \* invocations of the tool
    Nobody,             \* the lock is free
    Executors,          \* source identities of the reconciliation tool
    NoExecutor,
    MAX_VERIFICATIONS,
    MaxFaults           \* bound on crashes and failed checks

VARIABLES
    attempts,   \* signing-attempts/NNNNNNNN: journal and private output
    canonical,  \* the attempt whose output is the canonical signing-output, or 0
    recon,      \* the reconciliation journal
    downstream, \* notarization or packaging state exists
    signatures, \* how often the signing helper was started
    lock, proc, faults

svars == <<attempts, canonical, recon, downstream, signatures, lock, proc, faults>>

TRANSITIONS ==
    [none |-> {"prepared"},
     prepared |-> {"signing", "failed"},
     signing |-> {"verification_blocked", "verified", "failed", "outcome_unknown"},
     verification_blocked |-> {"verification_recovering", "failed"},
     verification_recovering |-> {"verification_committing", "failed"},
     verification_committing |-> {"verified", "failed"},
     verified |-> {"publishing", "failed"},
     publishing |-> {"published", "outcome_unknown"},
     outcome_unknown |-> {"publishing", "published"},
     published |-> {},
     failed |-> {},
     torn |-> {}]      \* not a state: an event file a crash left half written

\* Failure codes, by what the recovery decides from them.
Codes == {"none", "abandoned", "interrupted", "reply_unknown", "recoverable",
          "transformation", "recovery_interrupted", "other"}
Event(st, code) == [st |-> st, code |-> code]
Results == {"pending", "passed", "failed", "interrupted"}

\* Where the output tree is, and how far it got: created, signed, receipt written.
Trees == {"absent", "empty", "signed", "receipt"}
NewAttempt == [events |-> <<Event("prepared", "none")>>, work |-> "absent", ready |-> FALSE]
NoRecon == [executor |-> NoExecutor, results |-> <<>>, publication |-> 0, completed |-> FALSE,
            torn |-> FALSE]

Labels == {"idle", "enter", "work", "signing", "helper", "prepare", "blocked", "commit",
           "receipt", "stage", "verified", "publish", "publishing", "rename", "unknown", "published",
           "open", "start", "replay", "passed", "intent", "move", "complete"}
Commands == {"run", "resume", "reconcile-failed"}
IdleProc == [pc |-> "idle", cmd |-> "run", executor |-> NoExecutor]

TypeOK ==
    /\ \A i \in DOMAIN attempts :
          /\ attempts[i].work \in Trees /\ attempts[i].ready \in BOOLEAN
          /\ attempts[i].events \in Seq([st : DOMAIN TRANSITIONS, code : Codes])
    /\ canonical \in 0..Len(attempts)
    /\ recon \in [executor : Executors \cup {NoExecutor}, results : Seq(Results),
                  publication : 0..MAX_VERIFICATIONS, completed : BOOLEAN, torn : BOOLEAN]
    /\ downstream \in BOOLEAN /\ signatures \in Nat /\ faults \in 0..MaxFaults
    /\ lock \in Procs \cup {Nobody}
    /\ proc \in [Procs -> [pc : Labels, cmd : Commands, executor : Executors \cup {NoExecutor}]]

-----------------------------------------------------------------------------
(* Reading an attempt.                                                     *)

N == Len(attempts)
NoAttempt == [events |-> <<Event("none", "none")>>, work |-> "absent", ready |-> FALSE]
Latest == IF N = 0 THEN NoAttempt ELSE attempts[N]
State(a) == Last(a.events).st
Code(a) == Last(a.events).code
Previous(a) == IF Len(a.events) < 2 THEN "none" ELSE a.events[Len(a.events) - 1].st

\* _is_publication_outcome_unknown: the rename's reply was lost, nothing else.
PublicationUnknown(a) ==
    /\ State(a) = "outcome_unknown" /\ Code(a) = "reply_unknown" /\ Previous(a) = "publishing"
    /\ \A i \in DOMAIN a.events : a.events[i].code # "interrupted"

\* _load_attempt: one private tree, and a journal that follows TRANSITIONS.
Loadable(a) ==
    /\ ~(a.work # "absent" /\ a.ready)
    /\ a.events # <<>> /\ a.events[1].st = "prepared"
    /\ \A i \in 2..Len(a.events) :
          /\ a.events[i].st \in TRANSITIONS[a.events[i - 1].st]
          /\ a.events[i - 1].st = "outcome_unknown" => a.events[i - 1].code = "reply_unknown"

Pristine(a) == a.work \in {"absent", "empty"} /\ ~a.ready
\* Mutant: any failed attempt may be followed by a new one.
AnyFailed(a) == State(a) = "failed"
AbandonedBeforeSigning(a) ==
    /\ State(a) = "failed" /\ Code(a) = "abandoned" /\ Previous(a) = "prepared"
    /\ Pristine(a)

\* The one journal that reconcile-failed accepts.
FailedAfterVerified ==
    /\ N = 1
    /\ [i \in DOMAIN Latest.events |-> Latest.events[i].st]
          = <<"prepared", "signing", "verified", "failed">>
    /\ Code(Latest) = "transformation" /\ Latest.work = "absent"

-----------------------------------------------------------------------------
(* Writing.                                                                *)

Holds(p, label) == proc[p].pc = label /\ lock = p
Goto(p, label) == proc' = [proc EXCEPT ![p].pc = label]
Leave(p) == proc' = [proc EXCEPT ![p] = IdleProc] /\ lock' = Nobody
Fault == faults < MaxFaults /\ faults' = faults + 1

\* _append_event: the next event of the latest attempt, with its private tree.
Append_(st, code, work, ready) ==
    attempts' = [attempts EXCEPT ![N] =
        [events |-> Append(@.events, Event(st, code)), work |-> work, ready |-> ready]]
Record(st, code) == Append_(st, code, Latest.work, Latest.ready)

AttemptOnly == UNCHANGED <<canonical, recon, downstream, signatures>>

\* An event that ends the invocation, a failed check having caused it.
FailWith(p, st, code) == Record(st, code) /\ Leave(p) /\ Fault /\ AttemptOnly
\* A refusal: an exception that leaves no event.
Refuse(p) == Leave(p) /\ UNCHANGED <<attempts, canonical, recon, downstream, signatures, faults>>
\* A failed check that leaves no event.
Stop(p) == Leave(p) /\ Fault /\ UNCHANGED attempts /\ AttemptOnly
\* One durable event on the way.
Advance(p, st, label) ==
    Record(st, "none") /\ Goto(p, label) /\ AttemptOnly /\ UNCHANGED <<lock, faults>>

-----------------------------------------------------------------------------
(* Entering.  Frozen inputs are verified, then the lock is tried once.     *)

Begin(p) == \E cmd \in Commands, e \in Executors :
    /\ proc[p].pc = "idle" /\ lock = Nobody
    /\ lock' = p
    /\ proc' = [proc EXCEPT ![p] =
          [pc |-> IF cmd = "reconcile-failed" THEN "open" ELSE "enter", cmd |-> cmd,
           executor |-> IF cmd = "reconcile-failed" THEN e ELSE NoExecutor]]
    /\ UNCHANGED <<attempts, canonical, recon, downstream, signatures, faults>>

AllLoadable == \A i \in DOMAIN attempts : Loadable(attempts[i])
Resumes(p) == Holds(p, "enter") /\ AllLoadable /\ N > 0 /\ proc[p].cmd = "resume"

\* No attempt yet, or the last was abandoned before signing: a new attempt.
CreateAllowed(p) ==
    /\ Holds(p, "enter") /\ AllLoadable /\ canonical = 0
    /\ N = 0 \/ (proc[p].cmd = "resume" /\ AbandonedBeforeSigning(Latest))
CreateAttempt(p) ==
    /\ CreateAllowed(p)
    /\ attempts' = Append(attempts, NewAttempt)
    /\ Goto(p, "work") /\ AttemptOnly /\ UNCHANGED <<lock, faults>>
CreateWork(p) ==
    /\ Holds(p, "work")
    /\ attempts' = [attempts EXCEPT ![N].work = "empty"]
    /\ Goto(p, "signing") /\ AttemptOnly /\ UNCHANGED <<lock, faults>>
StartSigning(p) == Holds(p, "signing") /\ Advance(p, "signing", "helper")

\* run refuses to enter what exists; an unreadable or orphaned state is refused too.
RefuseEntry(p) ==
    /\ Holds(p, "enter")
    /\ ~AllLoadable \/ (N > 0 /\ proc[p].cmd = "run") \/ (N = 0 /\ canonical # 0)
    /\ Refuse(p)

-----------------------------------------------------------------------------
(* resume: _reconcile_existing, one action for each decision it takes.     *)

CanonicalConfirmable ==
    ~Latest.ready /\ (State(Latest) \in {"publishing", "published"} \/ PublicationUnknown(Latest))
ConfirmCanonical(p) ==
    /\ Resumes(p) /\ canonical # 0 /\ CanonicalConfirmable
    /\ IF State(Latest) = "published" THEN UNCHANGED attempts ELSE Record("published", "none")
    /\ Leave(p) /\ AttemptOnly /\ UNCHANGED faults
\* The canonical tree fails its verification, or its durability is not confirmed.
ConfirmFails(p) == Resumes(p) /\ canonical # 0 /\ CanonicalConfirmable /\ Stop(p)

ResumePublication(p) ==
    /\ Resumes(p) /\ canonical = 0 /\ Latest.ready
    /\ State(Latest) \in {"publishing", "verified"} \/ PublicationUnknown(Latest)
    /\ Goto(p, "publish")
    /\ UNCHANGED <<attempts, canonical, recon, downstream, signatures, lock, faults>>

ResumePrepared(p) ==
    /\ Resumes(p) /\ canonical = 0 /\ State(Latest) = "prepared" /\ Pristine(Latest)
    /\ Record("failed", "abandoned")
    /\ AttemptOnly /\ UNCHANGED <<lock, proc, faults>>

\* Signing may have started: its outcome can not be known, the candidate is retired.
ResumeSigning(p) ==
    /\ Resumes(p) /\ canonical = 0 /\ State(Latest) = "signing"
    /\ Record("outcome_unknown", "interrupted") /\ Leave(p) /\ AttemptOnly /\ UNCHANGED faults

ResumeBlocked(p) ==
    /\ Resumes(p) /\ canonical = 0 /\ State(Latest) = "verification_blocked"
    /\ IF Code(Latest) = "recoverable" /\ ~downstream /\ ~Latest.ready /\ Latest.work = "receipt"
       THEN Advance(p, "verification_recovering", "blocked")
       ELSE Record("failed", "other") /\ Leave(p) /\ AttemptOnly /\ UNCHANGED faults
ResumeRecovering(p) ==
    /\ Resumes(p) /\ canonical = 0 /\ State(Latest) = "verification_recovering"
    /\ Record("failed", "recovery_interrupted") /\ Leave(p) /\ AttemptOnly /\ UNCHANGED faults
ResumeCommitting(p) ==
    /\ Resumes(p) /\ canonical = 0 /\ State(Latest) = "verification_committing"
    /\ Goto(p, "commit")
    /\ UNCHANGED <<attempts, canonical, recon, downstream, signatures, lock, faults>>

\* Everything else ends in "retire the candidate", or in a refusal.
Retired ==
    \/ State(Latest) = "outcome_unknown" /\ ~PublicationUnknown(Latest)
    \/ canonical # 0 /\ ~CanonicalConfirmable
    \/ canonical = 0 /\ State(Latest) = "published"
    \/ canonical = 0 /\ State(Latest) = "prepared" /\ ~Pristine(Latest)
    \/ canonical = 0 /\ State(Latest) = "failed" /\ ~AbandonedBeforeSigning(Latest)
    \/ canonical = 0 /\ ~Latest.ready
       /\ (State(Latest) \in {"verified", "publishing"} \/ PublicationUnknown(Latest))
Retire(p) == Resumes(p) /\ Retired /\ Refuse(p)

-----------------------------------------------------------------------------
(* Signing and preparing the private output.                               *)

Helper(p) ==
    /\ Holds(p, "helper") /\ signatures' = signatures + 1
    /\ attempts' = [attempts EXCEPT ![N].work = "signed"]
    /\ Goto(p, "prepare") /\ UNCHANGED <<canonical, recon, downstream, lock, faults>>
\* The helper cannot be started, is killed or exits non-zero; the tree is what it left.
HelperFails(p) ==
    /\ Holds(p, "helper") /\ signatures' = signatures + 1
    /\ \E tree \in {"empty", "signed"} : Append_("failed", "other", tree, FALSE)
    /\ Leave(p) /\ Fault /\ UNCHANGED <<canonical, recon, downstream>>

\* create_attempt_receipt: the transformation receipt joins the signed tree.
CreateReceipt(p) ==
    /\ Holds(p, "prepare")
    /\ attempts' = [attempts EXCEPT ![N].work = "receipt"]
    /\ Goto(p, "receipt") /\ AttemptOnly /\ UNCHANGED <<lock, faults>>
\* The bundle verification or the receipt fails before a receipt is written.
CreateReceiptFails(p) ==
    /\ Holds(p, "prepare")
    /\ \E code \in {"other", "transformation"} : FailWith(p, "failed", code)

\* _can_block_transformation_verification: a recoverable cause, a receipt, nothing downstream.
CanBlock == ~downstream /\ canonical = 0 /\ ~Latest.ready /\ Latest.work = "receipt"
VerifyReceiptFails(p) ==
    /\ Holds(p, "receipt")
    /\ \/ CanBlock /\ FailWith(p, "verification_blocked", "recoverable")
       \/ \E code \in {"other", "transformation"} : FailWith(p, "failed", code)
\* The rename work -> publish-ready.
PrepareOutput(p) ==
    /\ Holds(p, "receipt") /\ ~Latest.ready
    /\ attempts' = [attempts EXCEPT ![N].work = "absent", ![N].ready = TRUE]
    /\ Goto(p, "verified") /\ AttemptOnly /\ UNCHANGED <<lock, faults>>
RecordVerified(p) == Holds(p, "verified") /\ Advance(p, "verified", "publish")

(* The one bounded re-verification of a blocked output.                    *)
RecoverVerification(p) == Holds(p, "blocked") /\ Advance(p, "verification_committing", "commit")
RecoverVerificationFails(p) ==
    /\ Holds(p, "blocked")
    /\ \E code \in {"recoverable", "other"} : FailWith(p, "failed", code)

OneStage == (Latest.work # "absent") # Latest.ready
CommitStage(p) ==
    /\ Holds(p, "commit") /\ ~downstream /\ canonical = 0 /\ OneStage
    /\ attempts' = [attempts EXCEPT ![N].work = "absent", ![N].ready = TRUE]
    /\ Goto(p, "verified") /\ AttemptOnly /\ UNCHANGED <<lock, faults>>
CommitFails(p) ==
    /\ Holds(p, "commit") \/ (Holds(p, "verified") /\ State(Latest) = "verification_committing")
    /\ \E code \in {"recoverable", "other"} : FailWith(p, "failed", code)
-----------------------------------------------------------------------------
(* _publish_attempt.                                                       *)

\* The frozen inputs no longer read the same: no event.
FrozenInputDrift(p) == Holds(p, "publish") /\ Stop(p)
ReverifyReadyFails(p) ==
    /\ Holds(p, "publish")
    /\ IF State(Latest) = "verified"
       THEN \E code \in {"other", "transformation"} : FailWith(p, "failed", code)
       ELSE Stop(p)
RecordPublishing(p) ==
    /\ Holds(p, "publish")
    /\ IF State(Latest) = "publishing"
       THEN /\ Goto(p, "rename")
            /\ UNCHANGED <<attempts, canonical, recon, downstream, signatures, lock, faults>>
       ELSE Advance(p, "publishing", "rename")
\* Mutant: the output is copied, not renamed.
RenameCopies(p) ==
    /\ Holds(p, "rename") /\ canonical = 0 /\ Latest.ready
    /\ canonical' = N /\ Goto(p, "published")
    /\ UNCHANGED <<attempts, recon, downstream, signatures, lock, faults>>
Rename(p) ==
    /\ Holds(p, "rename") /\ canonical = 0 /\ Latest.ready
    /\ canonical' = N /\ attempts' = [attempts EXCEPT ![N].ready = FALSE]
    /\ Goto(p, "published") /\ UNCHANGED <<recon, downstream, signatures, lock, faults>>
\* The publisher raises, before or after the rename took effect.
RenameUnknown(p) ==
    /\ Holds(p, "rename") /\ Fault
    /\ \/ canonical' = N /\ Append_("outcome_unknown", "reply_unknown", Latest.work, FALSE)
       \/ canonical' = canonical /\ Record("outcome_unknown", "reply_unknown")
    /\ Leave(p) /\ UNCHANGED <<recon, downstream, signatures>>
RecordPublished(p) ==
    /\ Holds(p, "published")
    /\ Record("published", "none") /\ Leave(p) /\ AttemptOnly /\ UNCHANGED faults

-----------------------------------------------------------------------------
(* reconcile-failed: the attempt's journal is read only.                   *)

ReconOnly == UNCHANGED <<attempts, downstream, signatures>>
AtCanonical == canonical # 0

\* open_reconciliation binds the executor; the output must have one recorded place.
OutputRecorded ==
    /\ ~downstream /\ Latest.ready # AtCanonical
    /\ AtCanonical => recon.publication # 0
    /\ recon.completed => AtCanonical
OpenReconciliation(p) ==
    /\ Holds(p, "open") /\ FailedAfterVerified /\ ~downstream /\ Latest.ready # AtCanonical
    /\ recon.executor \in {NoExecutor, proc[p].executor} /\ ~recon.torn
    /\ recon' = [recon EXCEPT !.executor = proc[p].executor]
    /\ Goto(p, "start") /\ ReconOnly /\ UNCHANGED <<canonical, lock, faults>>
RefuseReconciliation(p) ==
    /\ \/ Holds(p, "open")
          /\ \/ N = 0 \/ ~AllLoadable
             \/ ~FailedAfterVerified \/ downstream \/ Latest.ready = AtCanonical
             \/ recon.executor \notin {NoExecutor, proc[p].executor} \/ recon.torn
       \/ Holds(p, "start") /\ ~OutputRecorded
    /\ Refuse(p)

Interrupted == recon.results # <<>> /\ Last(recon.results) = "pending"
FinishInterrupted(p) ==
    /\ Holds(p, "start") /\ OutputRecorded /\ Interrupted
    /\ recon' = [recon EXCEPT !.results[Len(recon.results)] = "interrupted"]
    /\ ReconOnly /\ UNCHANGED <<canonical, lock, proc, faults>>
StartVerification(p) ==
    /\ Holds(p, "start") /\ OutputRecorded /\ ~Interrupted
    /\ Len(recon.results) < MAX_VERIFICATIONS
    /\ recon' = [recon EXCEPT !.results = Append(@, "pending")]
    /\ Goto(p, "replay") /\ ReconOnly /\ UNCHANGED <<canonical, lock, faults>>
BudgetExhausted(p) ==
    /\ Holds(p, "start") /\ OutputRecorded /\ ~Interrupted
    /\ Len(recon.results) >= MAX_VERIFICATIONS
    /\ Refuse(p)
FinishVerification(p) ==
    /\ Holds(p, "replay") /\ OutputRecorded
    /\ recon' = [recon EXCEPT !.results[Len(recon.results)] = "passed"]
    /\ Goto(p, "passed") /\ ReconOnly /\ UNCHANGED <<canonical, lock, faults>>
VerificationFails(p) ==
    /\ Holds(p, "replay") /\ Fault
    /\ recon' = [recon EXCEPT !.results[Len(recon.results)] = "failed"]
    /\ Leave(p) /\ ReconOnly /\ UNCHANGED canonical
\* Packaging or notarization began meanwhile: the re-read of the output refuses.
VerificationDrift(p) ==
    /\ Holds(p, "replay") /\ ~OutputRecorded
    /\ recon' = [recon EXCEPT !.results[Len(recon.results)] = "failed"]
    /\ Leave(p) /\ ReconOnly /\ UNCHANGED <<canonical, faults>>
BeginPublication(p) ==
    /\ Holds(p, "passed")
    /\ recon' = IF recon.publication = 0
                THEN [recon EXCEPT !.publication = Len(recon.results)] ELSE recon
    /\ Goto(p, "move") /\ ReconOnly /\ UNCHANGED <<canonical, lock, faults>>
MoveReconciled(p) ==
    /\ Holds(p, "move")
    /\ IF AtCanonical THEN UNCHANGED <<canonical, attempts>>
       ELSE canonical' = N /\ attempts' = [attempts EXCEPT ![N].ready = FALSE]
    /\ Goto(p, "complete") /\ UNCHANGED <<recon, downstream, signatures, lock, faults>>
CompletePublication(p) ==
    /\ Holds(p, "complete")
    /\ recon' = [recon EXCEPT !.completed = TRUE]
    /\ Leave(p) /\ ReconOnly /\ UNCHANGED <<canonical, faults>>
\* Publishing, re-verifying or confirming raises: unconfirmed, the same entry resumes.
ReconciledUnknown(p) == (Holds(p, "move") \/ Holds(p, "complete")) /\ Stop(p)

-----------------------------------------------------------------------------
(* The process dies, or a durable write is not acknowledged.  Event and     *)
(* record files are written under their final names, so a crash in a write *)
(* leaves a torn file that no load accepts.                                *)
EventWriteLabels ==
    {"enter", "signing", "helper", "prepare", "receipt", "verified", "blocked", "commit",
     "publish", "rename", "published"}
RecordWriteLabels == {"open", "start", "replay", "passed", "complete"}

Crash(p) ==
    /\ proc[p].pc # "idle" /\ Fault
    /\ \/ /\ proc[p].pc = "helper" /\ signatures' = signatures + 1
          /\ \E tree \in {"empty", "signed"} : attempts' = [attempts EXCEPT ![N].work = tree]
       \/ UNCHANGED <<signatures, attempts>>
    /\ Leave(p) /\ UNCHANGED <<canonical, recon, downstream>>
TornEvent(p) ==
    /\ proc[p].pc \in EventWriteLabels
    /\ proc[p].cmd = "resume" \/ proc[p].pc # "enter"
    /\ N > 0 /\ AllLoadable /\ TRANSITIONS[State(Latest)] # {}
    /\ FailWith(p, "torn", "none")
TornRecord(p) ==
    /\ proc[p].pc \in RecordWriteLabels /\ FailedAfterVerified
    /\ recon' = [recon EXCEPT !.torn = TRUE]
    /\ Leave(p) /\ Fault /\ ReconOnly /\ UNCHANGED canonical

\* Notarization and packaging start from the canonical output (external to this tool).
StartDownstream ==
    /\ canonical # 0 /\ ~downstream /\ downstream' = TRUE
    /\ UNCHANGED <<attempts, canonical, recon, signatures, lock, proc, faults>>

Init ==
    /\ attempts = <<>> /\ canonical = 0 /\ recon = NoRecon
    /\ downstream = FALSE /\ signatures = 0 /\ faults = 0
    /\ lock = Nobody /\ proc = [p \in Procs |-> IdleProc]

Entry(p) == Begin(p) \/ CreateAttempt(p) \/ CreateWork(p) \/ StartSigning(p) \/ RefuseEntry(p)
Resume(p) ==
    \/ ConfirmCanonical(p) \/ ConfirmFails(p) \/ ResumePublication(p) \/ ResumePrepared(p)
    \/ ResumeSigning(p) \/ ResumeBlocked(p) \/ ResumeRecovering(p) \/ ResumeCommitting(p)
    \/ Retire(p)
Prepare(p) ==
    \/ Helper(p) \/ HelperFails(p) \/ CreateReceipt(p) \/ CreateReceiptFails(p)
    \/ VerifyReceiptFails(p) \/ PrepareOutput(p) \/ RecordVerified(p)
    \/ RecoverVerification(p) \/ RecoverVerificationFails(p)
    \/ CommitStage(p) \/ CommitFails(p)
Publish(p) ==
    \/ FrozenInputDrift(p) \/ ReverifyReadyFails(p) \/ RecordPublishing(p)
    \/ Rename(p) \/ RenameUnknown(p) \/ RecordPublished(p)
Reconcile(p) ==
    \/ OpenReconciliation(p) \/ RefuseReconciliation(p) \/ FinishInterrupted(p)
    \/ StartVerification(p) \/ BudgetExhausted(p) \/ FinishVerification(p)
    \/ VerificationFails(p) \/ VerificationDrift(p) \/ BeginPublication(p)
    \/ MoveReconciled(p) \/ CompletePublication(p) \/ ReconciledUnknown(p)

Step(p) == Entry(p) \/ Resume(p) \/ Prepare(p) \/ Publish(p) \/ Reconcile(p)
           \/ Crash(p) \/ TornEvent(p) \/ TornRecord(p)
Next == (\E p \in Procs : Step(p)) \/ StartDownstream
Spec == Init /\ [][Next]_svars

-----------------------------------------------------------------------------
Recorded(a, st) == \E i \in DOMAIN a.events : a.events[i].st = st

(* The signing identity is used at most once for a candidate, whatever is   *)
(* resumed: _reconcile_existing only allows a new attempt when the latest   *)
(* was abandoned before its "signing" event.                                *)
SignedAtMostOnce == signatures <= 1

(* A signed output that passed verification is in exactly one place, in     *)
(* publish-ready or canonical, through every crash between rename and event *)
(* (_prepare_output, _publish_attempt, _reconcile_failed_output).           *)
VerifiedOutputHasOneHome ==
    \A i \in DOMAIN attempts :
        Recorded(attempts[i], "verified") =>
            attempts[i].work = "absent" /\ attempts[i].ready # (canonical = i)

(* The canonical output is the latest attempt's, and its publication was    *)
(* announced first: by a "publishing" event, or by a publication record     *)
(* whose verification passed (_reconciliation_output, begin_publication).   *)
CanonicalIsAnnounced ==
    canonical # 0 =>
        /\ canonical = N
        /\ \/ Recorded(Latest, "publishing")
           \/ recon.publication # 0 /\ recon.results[recon.publication] = "passed"
=============================================================================
