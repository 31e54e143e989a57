----------------------- MODULE NotarizationTransaction -----------------------
(***************************************************************************)
(* scripts/notarization_transaction.py: the one Apple submission of a GA   *)
(* build.  execute_transaction claims the attempt directory, uploads the   *)
(* archive once and finalizes an accepted submission; recover_transaction  *)
(* resumes what a crash, a lost reply or a failed check left behind, from  *)
(* the append-only event journal and the documents beside it.  Both hold   *)
(* the attempt's flock for the whole call.                                 *)
(*                                                                         *)
(* A step runs from one durable write to the next.  Digests bind documents *)
(* to the journal, so a document is modelled by what it identifies: a      *)
(* submission id, a recovery tool, an event's place in the journal.        *)
(***************************************************************************)
EXTENDS Naturals, Sequences, FiniteSets

CONSTANTS
    Procs,      \* invocations of the tool
    Orig,       \* the id Apple gives the upload of execute_transaction
    Retry,      \* the id of a separate upload of the same archive by the operator
    NoId,
    Tools,      \* source identities of the recovery tool
    NoTool,
    Nobody,     \* the lock is free
    MAX_EVENT_DOCUMENTS,
    MAX_FINALIZATION_RUNS,
    MaxFaults   \* bound on crashes, failed steps and deferred answers

ASSUME IdAssumption == Orig # Retry /\ NoId \notin {Orig, Retry}
ASSUME ToolAssumption == NoTool \notin Tools
ASSUME ProcAssumption == Nobody \notin Procs
\* An attempt that is never submitted records up to three events.
ASSUME BoundAssumption ==
    /\ MAX_EVENT_DOCUMENTS \in Nat /\ MAX_EVENT_DOCUMENTS >= 3 /\ MAX_FINALIZATION_RUNS \in Nat /\ MaxFaults \in Nat

Ids == {Orig, Retry}

\* FINALIZATION_EVENT_STATES, in the order one finalization records them.
FinalizationStates ==
    <<"accepted", "log_verified", "stapling", "stapled", "gatekeeper_verified",
      "app_verified", "distribution_verified", "sealed">>
TerminalStates == {"failed", "outcome_unknown", "rejected"}
ReconciliationStates ==
    {"reconciliation_started", "reconciliation_deferred", "submission_reconciled"}
EventStates ==
    {FinalizationStates[i] : i \in DOMAIN FinalizationStates} \cup TerminalStates
    \cup ReconciliationStates \cup
    {"prepared", "notary_ready", "submitting", "submitted", "finalization_started",
     "direct_finalization_preparing", "direct_finalization_ready",
     "recovery_intent_anchored", "recovery_tool_continued"}

(* Failure codes, by the sets the code keeps them in: RECOVERABLE_SUBMIT   *)
(* without and with submission_observation_failed, RECOVERABLE_WAIT,       *)
(* direct_source_preparation_failed, publish_durability_unknown, the rest. *)
(* The marker of a continuation carries the digest of the document that    *)
(* names the tool, modelled by the tool.                                   *)
Codes == {"none", "submit", "observation", "wait", "source", "publish", "other"} \cup Tools
Events == [st : EventStates, sub : Ids \cup {NoId}, code : Codes]
NoEvent == [st |-> "none", sub |-> NoId, code |-> "none"]
PartialEvent == [st |-> "partial", sub |-> NoId, code |-> "none"]

DIRECT_FINALIZATION_EVENT_RESERVE == 3 + Len(FinalizationStates) + 1
RECOVERY_SUCCESS_EVENT_RESERVE == 12
DIRECT_BOUNDARY_RECOVERY_EVENT_RESERVE == 2 + RECOVERY_SUCCESS_EVENT_RESERVE

VARIABLES
    events,   \* events/NNNNNNNN.json
    pending,  \* the .pending file of the next event
    disk,     \* the other entries of the attempt directory, and the staged app
    runs,     \* finalization-runs/<uuid>; a run is named by its place among them
    final,    \* the run published at the final root, or 0
    apple,    \* what Apple answers about each upload
    uploads,  \* how often the tool ran notarytool submit
    lock,     \* holder of the attempt's flock
    proc,     \* each invocation
    faults

vars == <<events, pending, disk, runs, final, apple, uploads, lock, proc, faults>>

Labels ==
    {"idle", "lock", "claim", "transfer", "archive", "submit", "reply", "receive",
     "wait", "reload", "preserve", "allocate", "copy", "stage", "receipt", "publish",
     "cleanup", "append", "load", "adopt", "boundary", "verify", "anchor",
     "continue", "continuation", "reconcile", "evidence", "ready", "exit",
     "noticeReady", "submitting", "start"}
IdleProc == [pc |-> "idle", sub |-> NoId, tool |-> NoTool, adopt |-> FALSE,
             run |-> 0, reply |-> "none", buf |-> NoEvent, next |-> "idle"]

TypeOK ==
    /\ events \in Seq(Events) /\ Len(events) <= MAX_EVENT_DOCUMENTS
    /\ pending \in Events \cup {NoEvent, PartialEvent}
    /\ disk \in [claimed : BOOLEAN, staged : BOOLEAN, intent : BOOLEAN,
                 source : {"none", "work", "recovery-source"},
                 observation : Ids \cup {NoId}, receipt : Ids \cup {NoId},
                 acquisition : {"none", "submit-no-wait", "explicit-recovery"},
                 rintent : Ids \cup {NoId}, rtool : Tools \cup {NoTool},
                 cont : Tools \cup {NoTool}, contPending : BOOLEAN]
    /\ DOMAIN runs \subseteq 1..MAX_EVENT_DOCUMENTS
    /\ \A r \in DOMAIN runs :
          runs[r] \in [files : {"empty", "work", "ready"}, pend : BOOLEAN,
                       receipt : 0..MAX_EVENT_DOCUMENTS]
    /\ final \in 0..MAX_EVENT_DOCUMENTS
    /\ apple \in [Ids -> {"absent", "In Progress", "Accepted", "Rejected"}]
    /\ uploads \in Nat /\ faults \in 0..MaxFaults
    /\ lock \in Procs \cup {Nobody}
    /\ proc \in [Procs -> [pc : Labels, sub : Ids \cup {NoId}, tool : Tools \cup {NoTool},
                           adopt : BOOLEAN, run : 0..MAX_EVENT_DOCUMENTS,
                           reply : {"none", "clean", "dirty"},
                           buf : Events \cup {NoEvent}, next : Labels]]

-----------------------------------------------------------------------------
(* What the journal means: the reducer that every load of an attempt runs. *)

StateAt(ev, i) == IF i \in DOMAIN ev THEN ev[i].st ELSE "none"
Indices(ev, st) == {i \in DOMAIN ev : ev[i].st = st}

IsSourceFailure(e) == e.st = "outcome_unknown" /\ e.code = "source"
IsWaitOutcome(e) == e.st = "outcome_unknown" /\ e.code = "wait"
IsSubmitOutcome(e) == e.st = "outcome_unknown" /\ e.code \in {"submit", "observation"}

\* What may stand between "submitted" and "direct_finalization_ready".
DirectPrefixSupported(s) ==
    \/ s = <<>>
    \/ /\ Len(s) = 1
       /\ s[1].st = "direct_finalization_preparing" \/ IsSourceFailure(s[1]) \/ IsWaitOutcome(s[1])
    \/ Len(s) = 2 /\ s[1].st = "direct_finalization_preparing" /\ IsSourceFailure(s[2])

Submitted(ev) == StateAt(ev, 4) = "submitted"
ReadyAt(ev) ==
    {i \in Indices(ev, "direct_finalization_ready") :
        i >= 5 /\ Submitted(ev) /\ DirectPrefixSupported(SubSeq(ev, 5, i - 1))}
DirectReady(ev) == ReadyAt(ev) # {}
SourcePreparationIncomplete(ev) ==
    /\ Submitted(ev) /\ ~DirectReady(ev) /\ Len(ev) \in 5..6
    /\ DirectPrefixSupported(SubSeq(ev, 5, Len(ev)))
    /\ StateAt(ev, 5) = "direct_finalization_preparing" \/ IsSourceFailure(ev[5])

(* recovery_event_start: where the submission ends and its recovery begins, *)
(* 0 when the journal is not at a recoverable boundary.                     *)
RecoveryStart(ev) ==
    CASE \/ Len(ev) < 3
         \/ <<ev[1].st, ev[2].st, ev[3].st>> # <<"prepared", "notary_ready", "submitting">> -> 0
      [] DirectReady(ev) -> CHOOSE i \in ReadyAt(ev) : TRUE
      [] SourcePreparationIncomplete(ev) -> Len(ev)
      [] Submitted(ev) /\ StateAt(ev, 5) \in ReconciliationStates \cup {"none"} -> 4
      [] Submitted(ev) /\ Len(ev) >= 5 /\ IsWaitOutcome(ev[5]) -> 5
      [] StateAt(ev, 4) \in ReconciliationStates \cup {"none"} -> 3
      [] Len(ev) >= 4 /\ IsSubmitOutcome(ev[4]) -> 4
      [] OTHER -> 0

BoundaryId(ev) == IF RecoveryStart(ev) >= 4 THEN ev[4].sub ELSE NoId
DirectEvidenceRequired(ev) ==
    RecoveryStart(ev) = 3 \/ (Submitted(ev) /\ ~(RecoveryStart(ev) = 5 /\ IsWaitOutcome(ev[5])))

(* _require_finalization_attempt_history: attempts do not overlap, each one *)
(* goes through the finalization states in order and ends once; the tool   *)
(* continues at most once, between attempts.                               *)
AttemptHistory(s, continuation) ==
    /\ Cardinality(Indices(s, "recovery_tool_continued")) <= IF continuation THEN 1 ELSE 0
    /\ \A i \in DOMAIN s :
          LET before == StateAt(s, i - 1) IN
          CASE s[i].st = "finalization_started" ->
                    before \in TerminalStates \cup {"none", "recovery_tool_continued"}
            [] s[i].st = "recovery_tool_continued" -> before \in TerminalStates \cup {"none"}
            [] s[i].st \in TerminalStates ->
                    \/ before = "finalization_started"
                    \/ \E k \in DOMAIN FinalizationStates : before = FinalizationStates[k]
            [] OTHER ->
                    \E k \in DOMAIN FinalizationStates :
                       /\ s[i].st = FinalizationStates[k]
                       /\ before = IF k = 1 THEN "finalization_started"
                                   ELSE FinalizationStates[k - 1]

\* The suffix of a journal whose direct boundary was completed.
DirectSuffix(s) ==
    LET anchors == Indices(s, "recovery_intent_anchored")
        cut == IF anchors = {} THEN Len(s) + 1 ELSE CHOOSE i \in anchors : TRUE
        direct == SubSeq(s, 1, cut - 1)
    IN  /\ Cardinality(anchors) <= 1
        /\ AttemptHistory(direct, FALSE)
        /\ Cardinality(Indices(direct, "finalization_started")) <= 1
        /\ AttemptHistory(SubSeq(s, cut + 1, Len(s)), TRUE)

\* The suffix of one that was not: reconciliations, then attempts.
ReconciledSuffix(s) ==
    LET t == IF StateAt(s, 1) = "recovery_intent_anchored" THEN Tail(s) ELSE s
        done == Indices(t, "submission_reconciled")
        cut == IF done = {} THEN Len(t) + 1 ELSE CHOOSE i \in done : \A j \in done : i <= j
    IN  /\ \A i \in 1..cut - 1 :
              \/ t[i].st = "reconciliation_started"
              \/ t[i].st = "reconciliation_deferred" /\ StateAt(t, i - 1) = "reconciliation_started"
        /\ done # {} => StateAt(t, cut - 1) = "reconciliation_started"
        /\ AttemptHistory(SubSeq(t, cut + 1, Len(t)), TRUE)

JournalIds(ev) == {ev[i].sub : i \in DOMAIN ev} \ {NoId}

\* _reduce_attempt_events succeeds, for the submission id s or for none.
Reducible(ev, s) ==
    LET suffix == SubSeq(ev, RecoveryStart(ev) + 1, Len(ev)) IN
    /\ RecoveryStart(ev) > 0
    /\ Cardinality(JournalIds(ev) \cup ({s} \ {NoId})) <= 1
    /\ IF DirectReady(ev) THEN DirectSuffix(suffix) ELSE ReconciledSuffix(suffix)

Reconciled(ev) == DirectReady(ev) \/ Indices(ev, "submission_reconciled") # {}
Anchors(ev) == Indices(ev, "recovery_intent_anchored")
Markers(ev) == Indices(ev, "recovery_tool_continued")

-----------------------------------------------------------------------------
(* _load_recoverable_attempt: the documents agree with the journal.        *)

ObservationAgrees(ev) ==
    /\ disk.observation # NoId /\ BoundaryId(ev) # NoId => disk.observation = BoundaryId(ev)
    /\ disk.observation = NoId /\ BoundaryId(ev) # NoId
          => ev[RecoveryStart(ev)].code = "observation"
    /\ DirectEvidenceRequired(ev) => disk.observation # NoId

ReceiptAgrees(ev) ==
    /\ disk.receipt # NoId =>
          /\ disk.observation \in {NoId, disk.receipt}
          /\ BoundaryId(ev) \in {NoId, disk.receipt}
          /\ disk.acquisition = "submit-no-wait" => disk.observation # NoId
          /\ disk.acquisition = "explicit-recovery" => disk.rintent # NoId
    /\ Submitted(ev) => disk.acquisition = "submit-no-wait"
    /\ DirectReady(ev) \/ SourcePreparationIncomplete(ev) => disk.acquisition = "submit-no-wait"

ContinuationPendingAllowed(ev) ==
    disk.contPending => disk.cont = NoTool /\ Markers(ev) = {Len(ev)}

\* _load_recovery_intent_document: the canonical intent of this context, written before the first event.
IntentDocument == disk.intent
\* intent.json and exactly one of work and recovery-source, with its three files.
InventoryComplete == IntentDocument /\ disk.source # "none"

LoadSucceeds(ev) ==
    /\ InventoryComplete
    /\ ContinuationPendingAllowed(ev)
    /\ Reducible(ev, NoId)
    /\ DirectReady(ev) => disk.source = "recovery-source"
    /\ ObservationAgrees(ev) /\ ReceiptAgrees(ev)

(* A sealed receipt names the distribution_verified event it was built on; *)
(* the journal must go on with its sealed event and at most the outcome of *)
(* a publication whose durability is unknown.                              *)
SealedLineage(ev, i) ==
    /\ StateAt(ev, i) = "distribution_verified" /\ StateAt(ev, i + 1) = "sealed"
    /\ \/ Len(ev) = i + 1
       \/ Len(ev) = i + 2 /\ ev[i + 2].st = "outcome_unknown" /\ ev[i + 2].code = "publish"

\* _unique_matching_published_receipt: the runs whose receipt matches.
MatchingReceipts(ev) ==
    {r \in DOMAIN runs : runs[r].receipt > 0 /\ SealedLineage(ev, runs[r].receipt)}

DirectPublication ==
    DirectReady(events) /\ disk.rintent = NoId /\ disk.cont = NoTool
    /\ Anchors(events) = {} /\ Markers(events) = {}

\* _load_existing_recovery_continuation: the document and its marker, or neither.
ContinuationComplete == (disk.cont # NoTool) <=> (Markers(events) # {})
RecoveredPublication ==
    /\ disk.rintent # NoId /\ disk.rintent = disk.receipt
    /\ Anchors(events) # {} \/ disk.acquisition = "explicit-recovery"
    /\ ContinuationComplete

\* Its end: one receipt matches, and it is the published run's.
SealStands == MatchingReceipts(events) = {final}

(* validate_published_transaction_receipt: a reader of the published       *)
(* candidate accepts it, as a direct publication or as a recovered one.    *)
PublicationValidates ==
    /\ LoadSucceeds(events) /\ Reconciled(events) /\ disk.receipt # NoId
    /\ DirectPublication \/ RecoveredPublication
    /\ SealStands

-----------------------------------------------------------------------------
Goto(p, label) == proc' = [proc EXCEPT ![p].pc = label]
Exit(p) == proc' = [proc EXCEPT ![p] = IdleProc] /\ lock' = Nobody

\* EventJournal.append is about to write; the caller goes on at next.
Record(p, st, sub, code, next) ==
    proc' = [proc EXCEPT ![p].pc = "append", ![p].next = next,
                         ![p].buf = [st |-> st, sub |-> sub, code |-> code]]

Fault == faults < MaxFaults /\ faults' = faults + 1
NoFault == UNCHANGED faults

\* A step of the transaction raised: the handler records the terminal event.
Raise(p, st, code) ==
    Record(p, st, proc[p].sub, code, IF proc[p].run > 0 THEN "cleanup" ELSE "exit")

Holds(p, label) == proc[p].pc = label /\ lock = p
Journal == <<events, pending>>
Outside == <<apple, uploads>>

AppendCommits(p) ==
    /\ events' = Append(events, proc[p].buf)
    /\ proc' = [proc EXCEPT ![p].pc = proc[p].next, ![p].buf = NoEvent, ![p].next = "idle"]
    /\ UNCHANGED lock

EventAppend(p) ==
    /\ Holds(p, "append")
    /\ IF Len(events) < MAX_EVENT_DOCUMENTS
       THEN AppendCommits(p)
       ELSE Exit(p) /\ UNCHANGED events
    /\ UNCHANGED <<pending, disk, runs, final, Outside, faults>>

Leave(p) ==
    Holds(p, "exit") /\ Exit(p) /\ UNCHANGED <<Journal, disk, runs, final, Outside, faults>>

-----------------------------------------------------------------------------
(* execute_transaction                                                     *)

\* _validate_context, outside the lock and again inside it.
ContextValid == ~disk.claimed /\ final = 0 /\ disk.staged

BeginExecute(p) ==
    /\ proc[p].pc = "idle" /\ ContextValid
    /\ Goto(p, "lock")
    /\ UNCHANGED <<Journal, disk, runs, final, Outside, lock, faults>>

\* A non-blocking flock: the loser leaves with recovery_in_progress.
AcquireLock(p) ==
    /\ proc[p].pc = "lock"
    /\ IF lock = Nobody
       THEN lock' = p /\ Goto(p, "claim")
       ELSE Goto(p, "idle") /\ UNCHANGED lock
    /\ UNCHANGED <<Journal, disk, runs, final, Outside, faults>>

\* Mutant: the context is validated only before the lock is taken.
ClaimWithoutRecheck(p) ==
    /\ Holds(p, "claim")
    /\ disk' = [disk EXCEPT !.claimed = TRUE] /\ Goto(p, "transfer")
    /\ UNCHANGED <<Journal, runs, final, Outside, lock, faults>>

\* The readiness advisory, the executor binding and _claim_attempt.
Claim(p) ==
    /\ Holds(p, "claim")
    /\ \/ /\ ContextValid
          /\ disk' = [disk EXCEPT !.claimed = TRUE]
          /\ Goto(p, "transfer") /\ UNCHANGED lock /\ NoFault
       \/ ~ContextValid /\ Exit(p) /\ NoFault /\ UNCHANGED disk
       \/ ContextValid /\ Fault /\ Exit(p) /\ UNCHANGED disk
    /\ UNCHANGED <<Journal, runs, final, Outside>>

\* _verified_signing_transformation_binding, read again before the app is taken.
TransformationDrifted == Fault
\* The staged app moves into the attempt.  A failure from here on to the
\* first event leaves a claimed attempt without a journal.
TransferApp(p) ==
    /\ Holds(p, "transfer")
    /\ \/ /\ disk' = [disk EXCEPT !.staged = FALSE, !.source = "work"]
          /\ Goto(p, "archive") /\ UNCHANGED lock /\ NoFault
       \/ TransformationDrifted /\ Exit(p) /\ UNCHANGED disk
    /\ UNCHANGED <<Journal, runs, final, Outside>>

\* The archive, its manifest and intent.json.
BuildArchive(p) ==
    /\ Holds(p, "archive")
    /\ \/ /\ disk' = [disk EXCEPT !.intent = TRUE]
          /\ Record(p, "prepared", NoId, "none", "noticeReady") /\ UNCHANGED lock /\ NoFault
       \/ Fault /\ Exit(p) /\ UNCHANGED disk
    /\ UNCHANGED <<Journal, runs, final, Outside>>

NotaryReady(p) ==
    /\ Holds(p, "noticeReady") /\ Record(p, "notary_ready", NoId, "none", "submitting")
    /\ UNCHANGED <<Journal, disk, runs, final, Outside, lock, faults>>

\* The identities are rechecked and the journal must have room for a whole
\* direct finalization before the archive may be uploaded.
BeginSubmit(p) ==
    /\ Holds(p, "submitting")
    /\ \/ /\ Len(events) + 2 + DIRECT_FINALIZATION_EVENT_RESERVE <= MAX_EVENT_DOCUMENTS
          /\ Record(p, "submitting", NoId, "none", "submit") /\ NoFault
       \/ Fault /\ Raise(p, "failed", "other")
    /\ UNCHANGED <<Journal, disk, runs, final, Outside, lock>>

(* notarytool submit: the upload may reach Apple whether or not a reply    *)
(* with a projectable id comes back; the reply may carry an id and still   *)
(* be a failure (exit code, stderr, a response that does not parse).       *)
Submit(p) ==
    /\ Holds(p, "submit") /\ uploads' = uploads + 1
    /\ \/ /\ apple' = [apple EXCEPT ![Orig] = "In Progress"]
          /\ proc' = [proc EXCEPT ![p].pc = "reply", ![p].reply = "clean", ![p].sub = Orig]
          /\ NoFault
       \/ /\ Fault /\ apple' = [apple EXCEPT ![Orig] = "In Progress"]
          /\ proc' = [proc EXCEPT ![p].pc = "reply", ![p].reply = "dirty", ![p].sub = Orig]
       \/ /\ Fault /\ apple' \in {apple, [apple EXCEPT ![Orig] = "In Progress"]}
          /\ Raise(p, "outcome_unknown", "submit")
    /\ UNCHANGED <<Journal, disk, runs, final, lock>>

\* submission-observation.json, before anything else is concluded.
ObserveSubmission(p) ==
    /\ Holds(p, "reply")
    /\ \/ /\ disk' = [disk EXCEPT !.observation = proc[p].sub]
          /\ IF proc[p].reply = "clean"
             THEN Goto(p, "receive")
             ELSE Raise(p, "outcome_unknown", "submit")
          /\ NoFault
       \/ Fault /\ Raise(p, "outcome_unknown", "observation") /\ UNCHANGED disk
    /\ UNCHANGED <<Journal, runs, final, Outside, lock>>

\* submission-receipt.json, then the submitted event.
ReceiveSubmission(p) ==
    /\ Holds(p, "receive")
    /\ \/ /\ disk' = [disk EXCEPT !.receipt = proc[p].sub, !.acquisition = "submit-no-wait"]
          /\ Record(p, "submitted", proc[p].sub, "none", "wait") /\ NoFault
       \/ Fault /\ Raise(p, "outcome_unknown", "submit") /\ UNCHANGED disk
    /\ UNCHANGED <<Journal, runs, final, Outside, lock>>

\* The status in the parsed answers of notarytool wait and info.
AppleStatus(s) == apple[s]

\* Mutant: every status but a rejection counts as accepted.
WaitAcceptsProgress(p) ==
    /\ Holds(p, "wait")
    /\ \/ Fault /\ Raise(p, "outcome_unknown", "wait")
       \/ AppleStatus(proc[p].sub) = "Rejected" /\ Raise(p, "rejected", "other") /\ NoFault
       \/ AppleStatus(proc[p].sub) # "Rejected" /\ Goto(p, "reload") /\ NoFault
    /\ UNCHANGED <<Journal, disk, runs, final, Outside, lock>>

\* notarytool wait: incomplete or unreadable, rejected, or accepted.
WaitForApple(p) ==
    /\ Holds(p, "wait")
    /\ \/ Fault /\ Raise(p, "outcome_unknown", "wait")
       \/ AppleStatus(proc[p].sub) = "Rejected" /\ Raise(p, "rejected", "other") /\ NoFault
       \/ AppleStatus(proc[p].sub) = "Accepted" /\ Goto(p, "reload") /\ NoFault
    /\ UNCHANGED <<Journal, disk, runs, final, Outside, lock>>

\* _append_direct_finalization_preparing: what it needs of the attempt.
PreparingAllowed(ev) == Len(ev) = 4 /\ Submitted(ev) /\ disk.source = "work"

(* The attempt is loaded again and direct_finalization_preparing appended. *)
(* A load that fails or an attempt that drifted from the accepted upload   *)
(* gets a terminal event; what the append itself refuses gets none.        *)
PrepareDirect(p) ==
    /\ Holds(p, "reload")
    /\ \/ /\ IF ~LoadSucceeds(events) THEN Raise(p, "failed", "other") /\ UNCHANGED lock
             ELSE IF ~PreparingAllowed(events) THEN Exit(p)
             ELSE /\ Record(p, "direct_finalization_preparing", proc[p].sub, "none", "preserve")
                  /\ UNCHANGED lock
          /\ NoFault
       \/ Fault /\ Raise(p, "failed", "other") /\ UNCHANGED lock
       \/ Fault /\ Exit(p)
    /\ UNCHANGED <<Journal, disk, runs, final, Outside>>

\* _ensure_immutable_recovery_source: work becomes recovery-source.
Preserved == [disk EXCEPT !.source = "recovery-source"]
\* It may fail before its rename, or after it.
HalfPreserved == disk' \in {disk, Preserved}

PreserveSource(p) ==
    /\ Holds(p, "preserve")
    /\ \/ disk' = Preserved /\ Goto(p, "ready") /\ NoFault
       \/ Fault /\ Raise(p, "outcome_unknown", "source") /\ HalfPreserved
    /\ UNCHANGED <<Journal, runs, final, Outside, lock>>

\* _append_direct_finalization_ready, from execute: its prefix is the marker.
DirectBoundary(p) ==
    /\ Holds(p, "ready")
    /\ Record(p, "direct_finalization_ready", proc[p].sub, "none", "start")
    /\ UNCHANGED <<Journal, disk, runs, final, Outside, lock, faults>>

-----------------------------------------------------------------------------
(* _run_accepted_finalization_locked                                       *)

StartFinalization(p) ==
    /\ Holds(p, "start")
    /\ Record(p, "finalization_started", proc[p].sub, "none", "allocate")
    /\ UNCHANGED <<Journal, disk, runs, final, Outside, lock, faults>>

\* _require_finalization_run_capacity: the retained runs leave room for one.
RunCapacity == Cardinality(DOMAIN runs) < MAX_FINALIZATION_RUNS
\* _finalization_tree_logical_bytes: sizes are left out, any run may be too large.
ByteQuotaExceeded == Fault

\* The immutable source, then a fresh run directory.
AllocateRun(p) ==
    /\ Holds(p, "allocate")
    /\ \/ /\ RunCapacity /\ disk' = Preserved /\ NoFault
          /\ LET r == Cardinality(Indices(events, "finalization_started")) IN
             /\ runs' = [x \in DOMAIN runs \cup {r} |->
                            IF x = r THEN [files |-> "empty", pend |-> FALSE, receipt |-> 0]
                            ELSE runs[x]]
             /\ proc' = [proc EXCEPT ![p].pc = "copy", ![p].run = r]
       \/ ~RunCapacity /\ Raise(p, "failed", "other") /\ disk' = Preserved /\ NoFault /\ UNCHANGED runs
       \/ ByteQuotaExceeded /\ Raise(p, "failed", "other") /\ disk' = Preserved /\ UNCHANGED runs
       \/ Fault /\ Raise(p, "failed", "other") /\ HalfPreserved /\ UNCHANGED runs
    /\ UNCHANGED <<Journal, final, Outside, lock>>

\* publish-ready, receipt.json or receipt.pending in some retained run.
PublicationMarkers ==
    \E r \in DOMAIN runs : runs[r].files = "ready" \/ runs[r].receipt > 0 \/ runs[r].pend
WithoutRun(r) == [x \in DOMAIN runs \ {r} |-> runs[x]]

(* _cleanup_failed_finalization_workspace raised.  recover_transaction lets *)
(* it pass; the handler of execute_transaction does not find it at the end  *)
(* of the journal and records it as the outcome.                            *)
CleanupRaises(p) ==
    IF proc[p].tool = NoTool
    THEN Record(p, "failed", proc[p].sub, "other", "exit") /\ UNCHANGED lock
    ELSE Exit(p)

(* The source is copied.  A copy that fails is removed before the event,    *)
(* unless the cleanup declines or fails itself.                             *)
CopySource(p) ==
    /\ Holds(p, "copy")
    /\ LET copied == [runs EXCEPT ![proc[p].run].files = "work"] IN
       \/ runs' = copied /\ Goto(p, "stage") /\ UNCHANGED lock /\ NoFault
       \/ /\ Fault /\ ~PublicationMarkers /\ runs' = WithoutRun(proc[p].run)
          /\ Record(p, "failed", proc[p].sub, "other", "exit") /\ UNCHANGED lock
       \/ Fault /\ runs' \in {runs, copied} /\ Raise(p, "failed", "other") /\ UNCHANGED lock
       \/ Fault /\ runs' \in {copied, WithoutRun(proc[p].run)} /\ CleanupRaises(p)
    /\ UNCHANGED <<Journal, disk, final, Outside>>

\* How far the current attempt is: the state its next event records.
NextStage ==
    LET last == events[Len(events)].st IN
    IF last = "finalization_started" THEN 1
    ELSE 1 + CHOOSE k \in DOMAIN FinalizationStates : FinalizationStates[k] = last

(* One stage of _finalize_accepted_submission: work is done, or checked,   *)
(* and then recorded as the k-th finalization state.                       *)
Stage(p, k, next) ==
    /\ Holds(p, "stage") /\ NextStage = k
    /\ \/ Record(p, FinalizationStates[k], proc[p].sub, "none", next) /\ NoFault
       \/ Fault /\ k # 3 /\ Raise(p, "failed", "other")
    /\ UNCHANGED <<Journal, disk, final, Outside, lock>>

\* _require_submission_acquisition_evidence, on every finalization and again
\* before its publication: the receipt, and what it was acquired from.
AcquisitionEvidence(s) ==
    /\ disk.receipt = s /\ disk.observation \in {NoId, s}
    /\ disk.acquisition = "submit-no-wait" => disk.observation = s
    /\ disk.acquisition = "explicit-recovery" => disk.rintent = s

\* notarization.json is written and Apple's log fetched and bound to the archive.
VerifyLog(p) ==
    /\ IF AcquisitionEvidence(proc[p].sub)
       THEN Stage(p, 1, "stage") \/ Stage(p, 2, "stage")
       ELSE /\ Holds(p, "stage") /\ NextStage = 1 /\ Raise(p, "failed", "other")
            /\ UNCHANGED <<Journal, disk, final, Outside, lock, faults>>
    /\ UNCHANGED runs

\* The ticket is stapled to the run's copy, never to the source.
StapleTicket(p) == (Stage(p, 3, "stage") \/ Stage(p, 4, "stage")) /\ UNCHANGED runs

\* Gatekeeper and the release verifier judge the stapled app.
AssessApp(p) == (Stage(p, 5, "stage") \/ Stage(p, 6, "stage")) /\ UNCHANGED runs

\* The files move to publish-ready, where manifests, evidence and the
\* distribution check are repeated.
PrepareDistribution(p) ==
    /\ Stage(p, 7, "receipt")
    /\ \/ runs' = [runs EXCEPT ![proc[p].run].files = "ready"]
       \/ proc'[p].buf.st = "failed" /\ UNCHANGED runs

\* _build_publish_ready_receipt: the receipt names the head of the journal,
\* which must be this attempt's distribution_verified.
BoundReceipt(r) == [runs EXCEPT ![r].receipt = Len(events)]

\* The receipt is published by rename and then sealed.
SealReceipt(p) ==
    /\ Holds(p, "receipt")
    /\ \/ /\ runs' = BoundReceipt(proc[p].run)
          /\ Record(p, "sealed", proc[p].sub, "none", "publish") /\ NoFault
       \/ Fault /\ Raise(p, "failed", "other") /\ UNCHANGED runs
       \/ Fault /\ Raise(p, "outcome_unknown", "other") /\ runs' = BoundReceipt(proc[p].run)
    /\ UNCHANGED <<Journal, disk, final, Outside, lock>>

\* _validate_sealed_publication, before the rename and for every reader.
SealedPublication(r, ev) ==
    runs[r].receipt > 0 /\ SealedLineage(ev, runs[r].receipt) /\ AcquisitionEvidence(disk.receipt)

\* publish_exclusive never replaces what stands at the destination.
RenameExclusive(r) == final = 0 /\ final' = r

\* _require_exact_persisted_evidence: a document of the run is not what it was.
EvidenceDrifted == Fault
\* The sealed tree is validated once more and renamed to the final root; the
\* rename may succeed and its durability stay unknown.
PublishSealed(p) ==
    /\ Holds(p, "publish")
    /\ \/ /\ SealedPublication(proc[p].run, events) /\ RenameExclusive(proc[p].run)
          /\ Exit(p) /\ NoFault
       \/ /\ SealedPublication(proc[p].run, events) /\ RenameExclusive(proc[p].run)
          /\ Fault /\ Raise(p, "outcome_unknown", "publish") /\ UNCHANGED lock
       \/ EvidenceDrifted /\ Raise(p, "failed", "other") /\ UNCHANGED <<final, lock>>
    /\ UNCHANGED <<Journal, disk, runs, Outside>>

\* A large failed workspace is removed when nothing could have been published.
Removable(r) == runs[r].files = "work" /\ final = 0 /\ ~PublicationMarkers

\* Its scan, or the removal, may fail after the outcome was recorded.
CleanupFailedRun(p) ==
    /\ Holds(p, "cleanup")
    /\ \/ UNCHANGED runs
       \/ Removable(proc[p].run) /\ runs' = WithoutRun(proc[p].run)
    /\ \/ Exit(p) /\ NoFault
       \/ Fault /\ CleanupRaises(p)
    /\ UNCHANGED <<Journal, disk, final, Outside>>

-----------------------------------------------------------------------------
(* recover_transaction                                                     *)

\* _serialize_recovery takes the lock before anything is read; an invocation
\* that finds it held ends there.
BeginRecover(p) ==
    /\ proc[p].pc = "idle" /\ lock = Nobody /\ disk.intent
    /\ \E s \in Ids, t \in Tools, a \in BOOLEAN :
          proc' = [proc EXCEPT ![p].pc = "load", ![p].sub = s, ![p].tool = t, ![p].adopt = a]
    /\ lock' = p /\ UNCHANGED <<Journal, disk, runs, final, Outside, faults>>

\* Mutant: a pending event is adopted without looking whether it is complete.
LoadAnyPending == IF pending = NoEvent THEN events ELSE Append(events, pending)

\* _read_private_pending_bytes: the pending file of the next event, with its last byte.
PendingWhole == pending \notin {NoEvent, PartialEvent}
\* EventJournal.load_existing adopts a complete pending event and discards a
\* partial one; then the attempt is validated.
LoadedJournal ==
    IF PendingWhole THEN Append(events, pending) ELSE events

LoadAttempt(p) ==
    /\ Holds(p, "load")
    /\ events' = LoadedJournal /\ pending' = NoEvent
    /\ IF LoadSucceeds(LoadedJournal) /\ ~(proc[p].adopt /\ final > 0)
       THEN Goto(p, "adopt") /\ UNCHANGED lock
       ELSE Exit(p)
    /\ UNCHANGED <<disk, runs, final, Outside, faults>>

(* The operator's own upload may be adopted once, by an attempt whose      *)
(* upload left no trace, unless Apple rejected that upload.                *)
Adoptable(p) ==
    /\ Len(events) = 4 /\ IsSubmitOutcome(events[4]) /\ BoundaryId(events) = NoId
    /\ disk.source = "work" /\ disk.observation = NoId /\ disk.receipt = NoId
    /\ disk.rintent = NoId /\ disk.cont = NoTool /\ runs = <<>>
    /\ proc[p].sub = Retry /\ apple[Retry] # "absent" /\ apple[Orig] # "Rejected"

\* Mutant: only the journal's id is compared.
JournalIdMatches(p, observed) == BoundaryId(events) \in {NoId, proc[p].sub}

SubmissionMatches(p, observed) ==
    BoundaryId(events) \in {NoId, proc[p].sub} /\ observed \in {NoId, proc[p].sub}

AdoptUpload(p) ==
    /\ Holds(p, "adopt")
    /\ \/ /\ proc[p].adopt /\ Adoptable(p)
          /\ disk' = [disk EXCEPT !.observation = Retry]
          /\ Goto(p, "boundary") /\ UNCHANGED lock
       \/ proc[p].adopt /\ ~Adoptable(p) /\ Exit(p) /\ UNCHANGED disk
       \/ /\ ~proc[p].adopt /\ UNCHANGED disk
          /\ IF SubmissionMatches(p, disk.observation)
             THEN Goto(p, "boundary") /\ UNCHANGED lock
             ELSE Exit(p)
    /\ UNCHANGED <<Journal, runs, final, Outside, faults>>

\* complete_interrupted_direct_boundary
BoundaryInterrupted ==
    /\ ~DirectReady(events) /\ disk.acquisition = "submit-no-wait" /\ disk.rintent = NoId
    /\ \/ SourcePreparationIncomplete(events)
       \/ disk.source = "recovery-source" /\ Len(events) = RecoveryStart(events)

CompleteBoundary(p) ==
    /\ Holds(p, "boundary")
    /\ CASE ~BoundaryInterrupted ->
                /\ IF final > 0 THEN Exit(p) ELSE Goto(p, "verify") /\ UNCHANGED lock
                /\ UNCHANGED <<disk, faults>>
         [] BoundaryInterrupted
            /\ Len(events) + DIRECT_BOUNDARY_RECOVERY_EVENT_RESERVE > MAX_EVENT_DOCUMENTS ->
                Exit(p) /\ UNCHANGED <<disk, faults>>
         [] OTHER ->
                \/ /\ disk' = Preserved /\ NoFault
                   /\ IF Submitted(events) /\ DirectPrefixSupported(SubSeq(events, 5, Len(events)))
                      THEN /\ Record(p, "direct_finalization_ready", proc[p].sub, "none",
                                     IF final > 0 THEN "exit" ELSE "verify")
                           /\ UNCHANGED lock
                      ELSE Exit(p)
                \/ Fault /\ HalfPreserved /\ Exit(p)
    /\ UNCHANGED <<Journal, runs, final, Outside>>

\* The retained app is verified, recovery-intent.json loaded or created.
IntentLoads(p) ==
    IF disk.rintent # NoId THEN disk.rintent = proc[p].sub
    ELSE Len(events) = RecoveryStart(events) \/ DirectReady(events)

VerifyAndBind(p) ==
    /\ Holds(p, "verify")
    /\ \/ /\ IntentLoads(p) /\ NoFault
          /\ disk' = IF disk.rintent # NoId THEN disk
                     ELSE [disk EXCEPT !.rintent = proc[p].sub, !.rtool = proc[p].tool]
          /\ Goto(p, "anchor") /\ UNCHANGED lock
       \/ ~IntentLoads(p) /\ Exit(p) /\ NoFault /\ UNCHANGED disk
       \/ Fault /\ Exit(p) /\ UNCHANGED disk
    /\ UNCHANGED <<Journal, runs, final, Outside>>

\* _require_recovery_intent_anchor
AnchorMissing ==
    Anchors(events) = {} /\ disk.acquisition # "explicit-recovery"
AnchorAllowed == AnchorMissing => Len(events) = RecoveryStart(events) \/ DirectReady(events)

\* _recovery_continuation_append_required
ContinuationRequired(p) ==
    disk.rtool # proc[p].tool /\ disk.cont = NoTool /\ Markers(events) = {}
ContinuationAllowed(p) ==
    IF disk.rtool = proc[p].tool THEN disk.cont = NoTool /\ Markers(events) = {}
    ELSE /\ disk.cont \in {NoTool, proc[p].tool}
         /\ \A i \in Markers(events) : events[i].code = proc[p].tool
         /\ ContinuationRequired(p) => Reconciled(events)

One(b) == IF b THEN 1 ELSE 0
\* Mutant: no event is reserved for the terminal outcome.
RequiredWithoutOutcome(p) ==
    (IF Reconciled(events) THEN 9 ELSE RECOVERY_SUCCESS_EVENT_RESERVE)
    + One(AnchorMissing) + One(ContinuationRequired(p))

RequiredEvents(p) ==
    (IF Reconciled(events) THEN 10 ELSE RECOVERY_SUCCESS_EVENT_RESERVE)
    + One(AnchorMissing) + One(ContinuationRequired(p))

AnchorIntent(p) ==
    /\ Holds(p, "anchor")
    /\ IF /\ Reducible(events, proc[p].sub)
          /\ Reconciled(events) => disk.receipt # NoId
          /\ AnchorAllowed
          /\ ContinuationRequired(p) => Reconciled(events)
          /\ Len(events) + RequiredEvents(p) <= MAX_EVENT_DOCUMENTS
       THEN /\ IF AnchorMissing
               THEN Record(p, "recovery_intent_anchored", proc[p].sub, "none", "continue")
               ELSE Goto(p, "continue")
            /\ UNCHANGED lock
       ELSE Exit(p)
    /\ UNCHANGED <<Journal, disk, runs, final, Outside, faults>>

(* Another tool continues only an attempt that failed after it was         *)
(* reconciled: the marker goes into the journal before the document.       *)
ContinueTool(p) ==
    /\ Holds(p, "continue")
    /\ IF ~ContinuationAllowed(p) THEN Exit(p)
       ELSE /\ UNCHANGED lock
            /\ IF disk.rtool = proc[p].tool \/ disk.cont = proc[p].tool THEN Goto(p, "reconcile")
               ELSE IF disk.cont = NoTool /\ Markers(events) # {} THEN Goto(p, "continuation")
               ELSE IF events[Len(events)].st = "failed"
               THEN Record(p, "recovery_tool_continued", proc[p].sub, proc[p].tool, "continuation")
               ELSE Goto(p, "exit")
    /\ UNCHANGED <<Journal, disk, runs, final, Outside, faults>>

WriteContinuation(p) ==
    /\ Holds(p, "continuation")
    /\ disk' = [disk EXCEPT !.cont = proc[p].tool, !.contPending = FALSE]
    /\ Goto(p, "reconcile") /\ UNCHANGED <<Journal, runs, final, Outside, lock, faults>>

BeginReconciliation(p) ==
    /\ Holds(p, "reconcile")
    /\ IF Reconciled(events) THEN Goto(p, "evidence")
       ELSE Record(p, "reconciliation_started", proc[p].sub, "none", "evidence")
    /\ UNCHANGED <<Journal, disk, runs, final, Outside, lock, faults>>

\* Apple's dates bind the id to the attempt's own upload, or to the one whose
\* observation was adopted.
CausallyBound(s) == s = Orig \/ disk.observation = s

(* _append_reconciliation_failure: the outcome is recorded whether or not  *)
(* the submission was reconciled before.                                   *)
ReconciliationFails(p, st) ==
    Record(p, st, proc[p].sub, "other", "exit") /\ UNCHANGED disk

\* The receipt of an explicit recovery, unless the submission left one.
RecoveryReceipt(s) ==
    IF disk.receipt # NoId THEN disk
    ELSE [disk EXCEPT !.receipt = s, !.acquisition = "explicit-recovery"]

\* _read_accepted_recovery_evidence: info, history and log of the submission.
ReadEvidence(p) ==
    /\ Holds(p, "evidence")
    /\ LET s == proc[p].sub IN
       \/ /\ AppleStatus(s) = "Accepted" /\ CausallyBound(s) /\ NoFault
          /\ disk' = RecoveryReceipt(s)
          /\ IF Reconciled(events) THEN Goto(p, "start")
             ELSE Record(p, "submission_reconciled", s, "none", "start")
       \/ /\ AppleStatus(s) = "Accepted" /\ ~CausallyBound(s)
          /\ ReconciliationFails(p, "failed") /\ NoFault
       \/ AppleStatus(s) = "Rejected" /\ ReconciliationFails(p, "rejected") /\ NoFault
       \/ Fault /\ ReconciliationFails(p, "reconciliation_deferred")
    /\ UNCHANGED <<Journal, runs, final, Outside, lock>>

-----------------------------------------------------------------------------
(* Apple and the operator, as the code meets them, and crashes.            *)

AppleDecides ==
    /\ \E s \in Ids : /\ apple[s] = "In Progress"
                      /\ \E v \in {"Accepted", "Rejected"} : apple' = [apple EXCEPT ![s] = v]
    /\ UNCHANGED <<Journal, disk, runs, final, uploads, lock, proc, faults>>

\* The operator uploads the same archive outside the tool.
OperatorUpload ==
    /\ apple[Retry] = "absent" /\ StateAt(events, 4) = "outcome_unknown" /\ lock = Nobody
    /\ apple' = [apple EXCEPT ![Retry] = "In Progress"]
    /\ UNCHANGED <<Journal, disk, runs, final, uploads, lock, proc, faults>>

(* The process dies: the kernel drops the flock, and a document that was   *)
(* being published through its pending file may be left in it, whole or    *)
(* not.  An append that raises ends the same way.                          *)
Crash(p) ==
    /\ proc[p].pc \notin {"idle", "lock"} /\ lock = p /\ Fault
    /\ pending' \in IF proc[p].pc = "append" /\ Len(events) < MAX_EVENT_DOCUMENTS
                    THEN {NoEvent, PartialEvent, proc[p].buf} ELSE {pending}
    /\ \/ UNCHANGED <<disk, runs>>
       \/ /\ proc[p].pc = "continuation" /\ disk' = [disk EXCEPT !.contPending = TRUE]
          /\ UNCHANGED runs
       \/ /\ proc[p].pc = "receipt"
          /\ runs' \in {[runs EXCEPT ![proc[p].run].pend = TRUE],
                        [runs EXCEPT ![proc[p].run].receipt = Len(events)]}
          /\ UNCHANGED disk
    /\ Exit(p) /\ UNCHANGED <<events, final, Outside>>

Init ==
    /\ events = <<>> /\ pending = NoEvent
    /\ disk = [claimed |-> FALSE, staged |-> TRUE, intent |-> FALSE, source |-> "none",
               observation |-> NoId, receipt |-> NoId, acquisition |-> "none",
               rintent |-> NoId, rtool |-> NoTool, cont |-> NoTool, contPending |-> FALSE]
    /\ runs = <<>> /\ final = 0
    /\ apple = [s \in Ids |-> "absent"] /\ uploads = 0
    /\ lock = Nobody /\ proc = [p \in Procs |-> IdleProc] /\ faults = 0

Execute(p) ==
    \/ BeginExecute(p) \/ AcquireLock(p) \/ Claim(p) \/ TransferApp(p) \/ BuildArchive(p)
    \/ NotaryReady(p) \/ BeginSubmit(p) \/ Submit(p) \/ ObserveSubmission(p)
    \/ ReceiveSubmission(p) \/ WaitForApple(p) \/ PrepareDirect(p) \/ PreserveSource(p)
    \/ DirectBoundary(p)
Finalize(p) ==
    \/ StartFinalization(p) \/ AllocateRun(p) \/ CopySource(p) \/ VerifyLog(p)
    \/ StapleTicket(p) \/ AssessApp(p) \/ PrepareDistribution(p)
    \/ SealReceipt(p) \/ PublishSealed(p) \/ CleanupFailedRun(p)
Recover(p) ==
    \/ BeginRecover(p) \/ LoadAttempt(p) \/ AdoptUpload(p) \/ CompleteBoundary(p)
    \/ VerifyAndBind(p) \/ AnchorIntent(p) \/ ContinueTool(p) \/ WriteContinuation(p)
    \/ BeginReconciliation(p) \/ ReadEvidence(p)

Next ==
    \/ \E p \in Procs : EventAppend(p) \/ Leave(p) \/ Execute(p) \/ Finalize(p) \/ Recover(p) \/ Crash(p)
    \/ AppleDecides \/ OperatorUpload

Spec == Init /\ [][Next]_vars

-----------------------------------------------------------------------------
(* The tool uploads the archive at most once, however many invocations run *)
(* and wherever they crash: execute_transaction claims the attempt under   *)
(* the lock and no recovery submits (notarization_transaction.py:8998).    *)
SubmitOnce == uploads <= 1

(* One submission id per attempt: the events, the observation, the receipt *)
(* and the recovery intent never name two of them, although the operator   *)
(* may upload again and may ask to recover either id                       *)
(* (notarization_transaction.py:8506).                                     *)
OneIdentity ==
    Cardinality((JournalIds(events) \cup {disk.observation, disk.receipt, disk.rintent})
                \ {NoId}) <= 1

\* Two outcomes in a row: the reducer rejects the journal from then on.
ClosedTwice(ev) ==
    \E i \in 1..Len(ev) : StateAt(ev, i) \in TerminalStates /\ StateAt(ev, i + 1) \in TerminalStates

(* What is published is the run of the only receipt that the journal still *)
(* supports, and Apple accepted the submission its attempt is bound to:    *)
(* no later recovery, cleanup or terminal event undoes that                *)
(* (notarization_transaction.py:5985, 6990).  When execute published it    *)
(* without a recovery, the evidence consumer accepts it too (9420).  The   *)
(* one exception is a journal that execute closed twice: the durability of *)
(* its publication was unknown and the cleanup after it failed as well, so *)
(* that its handler recorded a second outcome (9271); Apple's acceptance   *)
(* holds even then.                                                        *)
PublishedIsSealed ==
    final > 0 =>
        /\ disk.receipt \in Ids /\ apple[disk.receipt] = "Accepted"
        /\ ClosedTwice(events) \/ MatchingReceipts(events) = {final}
        /\ disk.rintent = NoId => ClosedTwice(events) \/ PublicationValidates

(* The capacity checks reserve enough: an append never meets a full        *)
(* journal, so no outcome goes unrecorded (notarization_transaction.py:8611). *)
(* Only the second outcome of an execute whose cleanup failed after its    *)
(* first one was recorded is not reserved for.                             *)
RoomReserved ==
    \A p \in Procs :
       proc[p].pc = "append" /\ ~(proc[p].tool = NoTool /\ ClosedTwice(Append(events, proc[p].buf)))
          => Len(events) < MAX_EVENT_DOCUMENTS

(* The evidence consumer accepts what a recovery published: the tests call *)
(* a crash after the submitted event, or inside a finalization,            *)
(* recoverable, and validate_published_transaction_receipt is the boundary *)
(* through which the published candidate is used.                          *)
PublishedValidates == final > 0 /\ lock = Nobody => ClosedTwice(events) \/ PublicationValidates
=============================================================================
