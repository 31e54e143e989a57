--------------------------- MODULE PhysicalCapture ---------------------------
(***************************************************************************)
(* scripts/physical_capture/finalize.py, transaction.py and cloud_run.py:  *)
(* finalize takes a frozen collection through the two one-shot POSTs, the  *)
(* nonce and the receipt, to its run record.  Each request is archived and *)
(* its attempt is in the journal before the POST; a POST that began is     *)
(* never repeated.  With the session and the collector this is the whole   *)
(* life of one lane.                                                       *)
(***************************************************************************)
EXTENDS CaptureCollector

RoleEvent(e) == Event(e, run.role)
Finalize == \E a \in Attempts :
    Opens(att[a]) /\ Begin("finalize", a, 0, "finalize") /\ Quiet
InRole(r, pc) == run' = [run EXCEPT !.role = r, !.pc = pc]
\* _prepare: a prepared request is sent only while it is the journal's tip.
PreparedIntact == A.bind = "request"
\* Mutant: an interrupted attempt is sent again.
ResendStep ==
    /\ At("finalize") /\ Quiet
    /\ \/ \E r \in ROLES : A.st = ATTEMPTED[r] /\ InRole(r, "client")
       \/ \E r \in ROLES : A.st = BEFORE[r] /\ InRole(r, "prepare")
\* finalize_session continues where the journal ends.
FinalizeStep ==
    /\ At("finalize") /\ Quiet
    /\ \/ \E r \in ROLES : A.st = ATTEMPTED[r] /\ InRole(r, "interrupted")
       \/ \E r \in ROLES : A.st = BEFORE[r] /\ InRole(r, "prepare")
       \/ \E r \in ROLES : A.st = PREPARED[r] /\ PreparedIntact /\ InRole(r, "attempt")
       \/ A.st = RECEIVED["nonce"] /\ Goto("signing_time")
       \/ A.st = "reports_composed" /\ Goto("bindings")
       \/ A.st = RECEIVED["receipt"] /\ Goto("record")
FinalizeRefused ==
    /\ At("finalize") /\ Quiet /\ Exit
    /\ \/ A.st \in TERMINAL_STATES \cup {"initialized", "collecting"}
       \/ \E r \in ROLES : A.st = PREPARED[r] /\ ~PreparedIntact
\* An event that finalize appends before it goes on, or stops.
Journal(pc, e, bind, next) ==
    /\ At(pc)
    /\ \/ Append1(e, bind, next)
       \/ CrashAppending(e, bind, FALSE)
       \/ AppendFails(e, "idle")
\* resolve_interrupted_attempt
ResolveInterrupted == Journal("interrupted", RoleEvent("outcome_unknown"), "restart", "done")
\* _archive_request_once writes the same bytes again after a crash.
Prepare == Journal("prepare", RoleEvent("request_prepared"), "request", "attempt")
AppendAttempt == Journal("attempt", RoleEvent("attempt_started"), "request", "client")

\* _post_once: revision, token and connection are checked before the POST.
PreSend ==
    /\ At("client") /\ Quiet
    /\ Goto("send")
PreSendError == At("client") /\ Fault /\ Goto("pre_send_failed") /\ UNCHANGED <<att, shaped>>
RecordPreSendFailure == Journal("pre_send_failed", RoleEvent("pre_send_failed"), "request", "done")
Post ==
    /\ At("send") /\ Set([A EXCEPT !.sent[run.role] = @ + 1]) /\ Goto("response") /\ Same
\* _validate_response and the archived response.
Response == At("response") /\ Goto("response_recorded") /\ Quiet
OutcomeUnknown == At("response") /\ Fault /\ Goto("outcome_unknown") /\ UNCHANGED <<att, shaped>>
RecordOutcomeUnknown == Journal("outcome_unknown", RoleEvent("outcome_unknown"), "request", "done")
ResponseRecorded == Journal("response_recorded", RoleEvent("response_recorded"), "response", "finalize")

\* write_or_reopen_exact: a pending file that is a prefix of the bytes is discarded,
\* any other is refused.
WriteOrReopenExact ==
    \/ /\ A.signingTime = "none"
       /\ \/ Set([A EXCEPT !.signingTime = "final"]) /\ Goto("reports") /\ Same
          \/ \E f \in {"torn", "whole"} : CrashWriting([A EXCEPT !.signingTime = f])
    \/ /\ A.signingTime = "torn"      \* cut off before the time
       /\ Set([A EXCEPT !.signingTime = "none"]) /\ UNCHANGED run /\ Same
    \/ Pending(A.signingTime) /\ Exit /\ Quiet
\* _load_or_create_signing_time: a retry has another time, so a pending file
\* that holds a time is no prefix of what it writes.
SigningTime ==
    /\ At("signing_time")
    /\ \/ A.signingTime = "final" /\ Goto("reports") /\ Quiet
       \/ WriteOrReopenExact
\* _materialize_report_set and _ensure_bindings write what they read again.
\* _validate_report_set: a report is missing, or not of this run.
ReportSetInvalid == Fault
EnsureReports ==
    \/ Journal("reports", Event("reports_composed", "-"), "reports", "finalize")
    \/ At("reports") /\ ReportSetInvalid /\ Exit /\ UNCHANGED <<att, shaped>>
EnsureBindings == Journal("bindings", Event("bindings_composed", "-"), "bindings", "finalize")
RunFinalized == Journal("record", Event("run_finalized", "-"), "record", "done")

FinalizeNext ==
    \/ Finalize \/ FinalizeStep \/ FinalizeRefused \/ ResolveInterrupted \/ Prepare \/ AppendAttempt
    \/ PreSend \/ PreSendError \/ RecordPreSendFailure \/ Post \/ Response \/ OutcomeUnknown
    \/ RecordOutcomeUnknown \/ ResponseRecorded \/ SigningTime \/ EnsureReports \/ EnsureBindings
    \/ RunFinalized

Init == CaptureInit
Next == SessionNext \/ CollectorNext \/ FinalizeNext
Spec == Init /\ [][Next]_captureVars

-----------------------------------------------------------------------------
TypeOK == CaptureTypeOK /\ \A a \in Attempts : att[a].shaping.recoveries \in 0..MaxRecoveries

\* transaction.py, session.py: a POST that may have left the machine is never
\* repeated, whatever crashes and recoveries come between: each role of an
\* attempt is sent at most once, and while the journal says that its request is
\* prepared, with a discarded or failed attempt behind it, nothing was sent.
SentAtMostOnce ==
    \A a \in Attempts, r \in ROLES :
        att[a].sent[r] <= 1 /\ (att[a].st = PREPARED[r] => att[a].sent[r] = 0)

\* collector.py: no producer's handler runs twice in one attempt, although its
\* marker, its checkpoint and the failure record can each be cut off.
HandlersRunOnce == \A a \in Attempts, h \in 1..Producers : att[a].ran[h] <= 1

\* performance.py, collector.py: while shaping rules are loaded the attempt that
\* loaded them is still collecting and its archive says that shaping must be
\* recovered; it was neither abandoned nor frozen, and no other attempt began.
ShapingIsOwed ==
    shaped # 0 =>
        /\ att[shaped].st = "collecting" /\ Published(att[shaped].shaping.intent)
        /\ ArchiveState(att[shaped].shaping) = "recovery_required"
        /\ \A b \in Attempts : b > shaped => att[b].dir = Absent

\* collector.py: attempts of a lane are consecutive.  Before a later attempt
\* exists the earlier ones are abandoned, or were never initialized; so at most
\* one of them ever asks the service for a nonce or a receipt.
OneLiveAttempt ==
    /\ \A a, b \in Attempts : a < b /\ att[b].dir # Absent =>
        \/ att[a].dir = "quarantined" /\ att[a].st = Absent
        \/ att[a].st = "abandoned" /\ Cardinality(Closures(att[a])) = 1
    /\ Cardinality({a \in Attempts : att[a].st = "finalized"}) <= 1

\* finalize.py: a finalized run holds the observations of every producer, each
\* of one handler run, and one nonce and one receipt; no recovery closed it before.
\* The record of a failure may stand beside it: finalize does not look for one, and
\* the event that froze the observations may have raised after it was published.
FinalizedIsComplete ==
    \A a \in Attempts : att[a].st = "finalized" =>
        /\ att[a].done = Producers /\ \A h \in 1..Producers : att[a].ran[h] = 1
        /\ \A r \in ROLES : att[a].sent[r] = 1
        /\ ShapingClosure(att[a]) \cup ResolutionClosure(att[a]) = {} /\ shaped # a

\* collector.py: an attempt between two commands can be taken further: it is
\* finalized or its outcome is unknown, or some command still changes it, or it
\* is closed for the next one.
Exhausted(rec) == rec.shaping.recoveries = MaxRecoveries /\ ~rec.shaping.complete
JournalRecoverable(rec) ==
    IF rec.pend = NoPend THEN TRUE ELSE ~(rec.pend.torn /\ rec.pend.resolution /\ Unresolved(rec))
AttemptCanContinue ==
    run = Idle => \A a \in Attempts : att[a].dir = "open" =>
        /\ JournalRecoverable(att[a])
        /\ Opens(att[a]) =>
            CASE att[a].st = "abandoned" -> ClosureValid(att[a])
              [] \E r \in ROLES : att[a].st = PREPARED[r] -> att[a].bind = "request"
              [] att[a].st = RECEIVED["nonce"] -> att[a].signingTime # "whole"
              [] att[a].st = "collecting" /\ ArchiveState(att[a].shaping) = "recovery_required" ->
                    RecoveryReopens(att[a]) \/ Exhausted(att[a])
              [] OTHER -> TRUE
=============================================================================
