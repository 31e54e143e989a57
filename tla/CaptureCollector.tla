--------------------------- MODULE CaptureCollector ---------------------------
(***************************************************************************)
(* scripts/physical_capture/collector.py and performance.py: initialize,   *)
(* collect, recover and recover-journal.  The producers run in a fixed     *)
(* order, each between a durable attempt marker and a checkpoint.  An      *)
(* interrupted producer is never run again: its attempt is abandoned,      *)
(* bound to one closure record, and only then may the next one start.  The *)
(* last producer loads network shaping rules into the machine.             *)
(***************************************************************************)
EXTENDS CaptureSession

CONSTANT MaxRecoveries      \* MAX_RESTART_RECOVERY_ATTEMPTS
ASSUME RecoveriesAssumption == MaxRecoveries \in Nat \ {0}

Terminal(rec) == rec.st \in TERMINAL_STATES
Begin(c, a, h, pc) == run = Idle /\ run' = [Idle EXCEPT !.cmd = c, !.a = a, !.h = h, !.pc = pc]
Published(f) == f = "final"
Pending(f) == f \in {"torn", "whole"}
Quiet == UNCHANGED <<att, shaped, faults>>

-----------------------------------------------------------------------------
(* The closure of an abandoned attempt.                                    *)

\* _performance_archive_state
ArchiveState(s) ==
    CASE {s.ledger, s.intent, s.restored} = {"final"} -> "complete"
      [] Published(s.failed) \/ s.recoveries > 0
         \/ (Published(s.intent) /\ ~Published(s.restored)) -> "recovery_required"
      [] Published(s.intent) /\ Published(s.restored) -> "restored_incomplete"
      [] s = NoShaping -> "fresh"
      [] OTHER -> "invalid"
\* validate_shaping_restoration_failure: there is none, or it is about this intent.
RestorationFailure(rec) == rec.shaping.failed \in {"none", "final"}
\* _validate_restart_recovery_record, for each of the chain.
RecoveryRecords(rec) == ~rec.shaping.torn
\* _validate_restoration_outcome: the last one left every profile without a rule.
RecoveryComplete(rec) == rec.shaping.complete
\* _reopen_performance_recovery_state
RecoveryReopens(rec) ==
    /\ Published(rec.shaping.intent) /\ RecoveryRecords(rec) /\ RestorationFailure(rec)
    /\ rec.shaping.restored = "none" /\ rec.shaping.ledger = "none"
\* _validate_abandonment_closure: the records that claim to close the attempt.
FailureClosure(rec) ==
    (IF Published(rec.failure) THEN {"failure"} ELSE {})
        \cup (IF rec.failureRecovery THEN {"failure_recovery"} ELSE {})
ShapingClosure(rec) == IF rec.shaping.recoveries > 0 THEN {"shaping"} ELSE {}
ResolutionClosure(rec) == IF ResolutionAtTip(rec) THEN {"resolution"} ELSE {}
Closures(rec) == FailureClosure(rec) \cup ShapingClosure(rec) \cup ResolutionClosure(rec)
ClosureValid(rec) ==
    /\ rec.failure \in {"none", "final"} /\ ~rec.shaping.torn
    /\ rec.shaping.recoveries > 0 =>
        /\ RecoveryComplete(rec) /\ LastEventView(rec).from = "collecting" /\ RecoveryReopens(rec)
    /\ Closures(rec) = {LastEventView(rec).binding}
\* _require_previous_attempt_abandoned
Closed(rec) ==
    \/ Opens(rec) /\ rec.st = "abandoned" /\ ClosureValid(rec)
    \/ rec.dir = "quarantined"
PreviousClosed(a) == a > 1 => Closed(att[a - 1])

-----------------------------------------------------------------------------
(* initialize.                                                             *)

Initialize == \E a \in Attempts :
    /\ att[a].dir = Absent /\ PreviousClosed(a)
    /\ Begin("initialize", a, 0, "create") /\ Quiet
WriteInputs ==
    /\ At("inputs")
    /\ \/ Set([A EXCEPT !.inputs = TRUE]) /\ Goto("begin") /\ Same
       \/ Fault /\ Goto("fail") /\ UNCHANGED <<att, shaped>>
CollectionStarted ==
    /\ At("begin")
    /\ LET e == Event("collection_started", "-") IN
        \/ Append1(e, "intent", "done")
        \/ CrashAppending(e, "intent", FALSE)
        \/ AppendFails(e, IF run.cmd = "initialize" THEN "fail" ELSE "idle")
        \/ run.cmd = "initialize" /\ AppendRaises(e, "intent", "stale_failure")
Finish == At("done") /\ Exit /\ Quiet

\* _failure_record, then the abandonment that is bound to it.
WriteFailure ==
    /\ At("fail")
    /\ \/ /\ Set([A EXCEPT !.failure = "final"]) /\ Same
          /\ run' = [run EXCEPT !.pc = "abandon", !.bind = "failure"]
       \/ \E f \in {"torn", "whole"} : CrashWriting([A EXCEPT !.failure = f])
       \/ Fault /\ Exit /\ UNCHANGED <<att, shaped>>
\* The record names the journal tip of the old snapshot, and the abandonment after it
\* fails because its sequence number is taken.
WriteStaleFailure ==
    /\ At("stale_failure")
    /\ \/ Set([A EXCEPT !.failure = "stale"]) /\ Exit /\ Same
       \/ CrashWriting([A EXCEPT !.failure = "torn"])
       \/ Fault /\ Exit /\ UNCHANGED <<att, shaped>>
Abandonment ==
    /\ At("abandon")
    /\ \/ Append1(Abandon, run.bind, "done")
       \/ CrashAppending(Abandon, run.bind, FALSE)
       \/ AppendFails(Abandon, "idle")

-----------------------------------------------------------------------------
(* _resume_failure_abandonment: a durable failure record is completed as   *)
(* an abandonment before a command does anything else.                     *)

NoFailure(rec) == rec.failure = "none" /\ ~rec.failureRecovery
NothingToResume ==
    /\ At("resume") /\ (Terminal(A) \/ NoFailure(A)) /\ Goto(run.cmd) /\ Quiet
Resuming == At("resume") /\ ~Terminal(A)
ResumeFinal ==
    /\ Resuming /\ A.failure \in {"whole", "final"} /\ ~A.failureRecovery
    /\ Set([A EXCEPT !.failure = "final"])
    /\ run' = [run EXCEPT !.pc = "abandon", !.bind = "failure"] /\ Same
\* _validate_source_failure_record: a record of another journal tip is refused for good.
ResumeRefused == Resuming /\ A.failure = "stale" /\ Exit /\ Quiet
\* A torn record is replaced by a record of its recovery.
ResumeTorn ==
    /\ Resuming /\ A.failure = "torn" /\ ~A.failureRecovery
    /\ Set([A EXCEPT !.failureRecovery = TRUE]) /\ UNCHANGED run /\ Same
ResumeRecovered ==
    /\ Resuming /\ A.failureRecovery
    /\ Set([A EXCEPT !.failure = "none"])
    /\ run' = [run EXCEPT !.pc = "abandon", !.bind = "failure_recovery"] /\ Same

-----------------------------------------------------------------------------
(* collect.                                                                *)

Collect == \E a \in Attempts, h \in 1..Producers :
    Opens(att[a]) /\ Begin("collect", a, h, "resume") /\ Quiet
\* _read_producer_attempt
Started(rec) == Published(rec.marker)
\* _read_producer_checkpoint: the producers whose files and descriptors reopen.
CompletedProducers(rec) == rec.done
\* _producer_session_identity: the archived inputs and the first two events.
SessionIdentified(rec) == rec.inputs /\ rec.seq > 1
Collecting == At("collect") /\ A.st = "collecting"
\* RAW_COMPLETE is reopened; other states are refused.
CollectClosed == At("collect") /\ A.st # "collecting" /\ Exit /\ Quiet
\* _discard_safe_pending_attempt_marker
DiscardMarker ==
    /\ Collecting /\ Pending(A.marker) /\ ~Pending(A.checkpoint)
    /\ Set([A EXCEPT !.marker = "none"]) /\ UNCHANGED run /\ Same
AmbiguousCheckpoint == Collecting /\ Pending(A.checkpoint) /\ Goto("fail") /\ Quiet
Progress == Collecting /\ ~Pending(A.marker) /\ ~Pending(A.checkpoint)
AllDone == Progress /\ CompletedProducers(A) = Producers /\ Goto("freeze") /\ Quiet
\* complete_observations
FreezeObservations ==
    /\ At("freeze")
    /\ LET e == Event("raw_completed", "-") IN
        \/ Append1(e, "manifest", "done")
        \/ CrashAppending(e, "manifest", FALSE)
        \/ AppendFails(e, "fail")
        \/ AppendRaises(e, "manifest", "stale_failure")
\* Mutant: an interrupted producer is run again.
RerunInterrupted == Progress /\ Started(A) /\ run.h = A.done + 1 /\ Goto("handler") /\ Quiet
\* A durable attempt without a checkpoint: only a complete performance
\* archive is reopened, and shaping is recovered before the abandonment.
Interrupted ==
    /\ Progress /\ Started(A)
    /\ LET kind == IF A.done + 1 = Performance THEN ArchiveState(A.shaping) ELSE "plain" IN
        /\ CASE kind = "recovery_required" -> Exit
             [] kind = "complete" -> IF run.h = Performance THEN Goto("checkpoint") ELSE Exit
             [] OTHER -> Goto("fail")
        /\ Quiet
\* _completed_producers and the source-owned order.
OutOfOrder ==
    /\ Progress /\ ~Started(A) /\ CompletedProducers(A) < Producers /\ run.h # CompletedProducers(A) + 1 /\ Exit /\ Quiet
InOrder == Progress /\ ~Started(A) /\ run.h = CompletedProducers(A) + 1 /\ SessionIdentified(A)
WriteMarker ==
    /\ InOrder
    /\ \/ /\ Set([A EXCEPT !.marker = "final"]) /\ Same
          /\ Goto(IF run.h = Performance THEN "shaping_intent" ELSE "handler")
       \/ \E f \in {"torn", "whole"} : CrashWriting([A EXCEPT !.marker = f])
       \/ /\ Fault /\ Goto("fail") /\ UNCHANGED shaped
          /\ UNCHANGED att \/ Set([A EXCEPT !.marker = "final"])
Ran(rec) == [rec EXCEPT !.ran[run.h] = @ + 1]
\* A plain producer's handler ends, or fails and its attempt is abandoned.
Handler ==
    /\ At("handler") /\ Set(Ran(A)) /\ UNCHANGED shaped
    /\ \/ Goto("checkpoint") /\ UNCHANGED faults
       \/ Fault /\ Goto("fail")
       \/ Fault /\ Exit
\* _normalize_producer_descriptors: a subject that is not the harness's own.
DescriptorsRefused == Fault
WriteCheckpoint ==
    /\ At("checkpoint")
    /\ \/ /\ Set([A EXCEPT !.done = @ + 1, !.marker = "none"]) /\ Same
          /\ Goto(IF A.done + 1 = Producers THEN "freeze" ELSE "done")
       \/ \E f \in {"torn", "whole"} : CrashWriting([A EXCEPT !.checkpoint = f])
       \/ /\ Fault /\ Goto("fail") /\ UNCHANGED shaped
          /\ UNCHANGED att \/ Set([A EXCEPT !.done = @ + 1, !.marker = "none"])
       \/ DescriptorsRefused /\ Goto("fail") /\ UNCHANGED <<att, shaped>>

-----------------------------------------------------------------------------
(* capture_performance_observations.                                       *)

\* Mutant: every error abandons the attempt.
AbandonAfterError(s) == Goto("fail")
\* collect_performance_session after an error in the capture.
AfterError(s) == IF ArchiveState(s) = "recovery_required" THEN Exit ELSE Goto("fail")
\* publish of one performance document.
PublishDocument(rec, field, pc) ==
    \/ Set([rec EXCEPT !.shaping[field] = "final"]) /\ Goto(pc) /\ Same
    \/ \E f \in {"torn", "whole"} : CrashWriting([rec EXCEPT !.shaping[field] = f])
    \/ \E new \in {rec, [rec EXCEPT !.shaping[field] = "final"]} :
        Fault /\ Set(new) /\ AfterError(new.shaping) /\ UNCHANGED shaped
\* shaping_intent: durable before the first rule is loaded.
ShapingIntent == At("shaping_intent") /\ PublishDocument(Ran(A), "intent", "apply")
\* shaping_transaction: a failed apply may have loaded a rule.
Apply ==
    /\ At("apply") /\ shaped' = run.a /\ UNCHANGED att
    /\ \/ Goto("restore") /\ UNCHANGED faults
       \/ Fault /\ run' = [run EXCEPT !.pc = "restore", !.failing = TRUE]
\* _restore_profile runs whether or not the apply failed.  Its commands may exit 0
\* although a rule of the profile stays, which its queries then show; that alone is no
\* failure of the transaction, and no later transaction restores that profile.
RestoreProfile ==
    /\ At("restore") /\ UNCHANGED att
    /\ \/ /\ shaped' = IF run.unclean THEN shaped ELSE 0
          /\ Goto(IF run.failing THEN "record_failed" ELSE "series") /\ UNCHANGED faults
       \/ /\ Fault /\ UNCHANGED shaped
          /\ run' = [run EXCEPT !.pc = IF run.failing THEN "record_failed" ELSE "series",
                                !.unclean = TRUE]
       \/ /\ Fault /\ UNCHANGED shaped /\ run' = [run EXCEPT !.pc = "record_failed", !.failing = TRUE]
\* complete_shaping: contract._restoration refuses a transaction whose queries were
\* not empty.
CompleteShaping ==
    \/ ~run.unclean /\ PublishDocument(A, "restored", "ledger")
    \/ run.unclean /\ AfterError(A.shaping) /\ Quiet
\* capture_series: the next planned transaction, or complete_shaping.
CaptureSeries ==
    /\ At("series")
    /\ \/ Goto("apply") /\ Quiet
       \/ CompleteShaping
\* _record_failed_restoration; the session is left to recover.
RecordFailed == At("record_failed") /\ PublishDocument(A, "failed", "done")
CompleteLedger == At("ledger") /\ PublishDocument(A, "ledger", "checkpoint")

-----------------------------------------------------------------------------
(* recover: the shaping of an interrupted performance run.                 *)

Recover == \E a \in Attempts :
    att[a].dir = "open" /\ Begin("recover_shaping", a, 0, "recover") /\ Quiet
Recovered ==
    /\ At("recovered") /\ Goto("resume") /\ Quiet
MayRecover ==
    /\ A.st = "collecting" /\ ArchiveState(A.shaping) = "recovery_required" /\ RecoveryReopens(A)
RecoverShaping ==
    /\ At("recover_shaping")
    /\ IF ~MayRecover THEN Exit
       ELSE IF RecoveryComplete(A) THEN run' = [run EXCEPT !.pc = "abandon", !.bind = "shaping"]
       ELSE IF A.shaping.recoveries < MaxRecoveries THEN Goto("reload") ELSE Exit
    /\ Quiet
\* recover_interrupted_performance_shaping restores every profile.
Reload ==
    /\ At("reload") /\ UNCHANGED att
    /\ \/ shaped' = 0 /\ Goto("record_recovery") /\ UNCHANGED faults
       \/ Fault /\ UNCHANGED shaped /\ run' = [run EXCEPT !.pc = "record_recovery", !.failing = TRUE]
RecordRecovery ==
    /\ At("record_recovery")
    /\ \/ /\ Set([A EXCEPT !.shaping.recoveries = @ + 1, !.shaping.complete = ~run.failing])
          /\ IF run.failing THEN Exit ELSE run' = [run EXCEPT !.pc = "abandon", !.bind = "shaping"]
          /\ Same
       \/ CrashWriting([A EXCEPT !.shaping.torn = TRUE])

\* recover-journal: an interrupted initialization is completed or abandoned.
RecoverJournal == \E a \in Attempts :
    att[a].dir = "open" /\ Begin("recover_journal", a, 0, "recover") /\ Quiet
FinishInitialization ==
    /\ At("recover_journal") /\ Quiet
    /\ IF A.st # "initialized" THEN Exit ELSE Goto(IF A.inputs THEN "begin" ELSE "fail")

CollectorNext ==
    \/ Initialize \/ WriteInputs \/ CollectionStarted \/ Finish \/ WriteFailure \/ WriteStaleFailure \/ Abandonment
    \/ NothingToResume \/ ResumeFinal \/ ResumeRefused \/ ResumeTorn \/ ResumeRecovered
    \/ Collect \/ CollectClosed \/ DiscardMarker \/ AmbiguousCheckpoint \/ AllDone
    \/ FreezeObservations \/ Interrupted \/ OutOfOrder \/ WriteMarker \/ Handler \/ WriteCheckpoint
    \/ ShapingIntent \/ Apply \/ RestoreProfile \/ CaptureSeries \/ RecordFailed \/ CompleteLedger
    \/ Recover \/ Recovered \/ RecoverShaping \/ Reload \/ RecordRecovery
    \/ RecoverJournal \/ FinishInitialization
=============================================================================
