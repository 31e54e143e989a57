--------------------------- MODULE JournalRetention ---------------------------
(***************************************************************************)
(* What becomes of the two terminal journals of an app maintenance.        *)
(* scripts/ga_acceptance_journal_export.py copies them, under both store   *)
(* locks, into one immutable container: a source-bound intent is published *)
(* first, the container is written under a pending name and renamed, and   *)
(* recover continues exactly the durable intent.                           *)
(* scripts/archive_install_history.py moves the originals into the history *)
(* directory by two renames, bound by an intent, so that the fixed journal *)
(* names can be used again.                                                *)
(***************************************************************************)
EXTENDS DormantInstall

VARIABLES
    export,     \* the intent, the container and their pending names
    history,    \* the history directory of the installed build
    carried     \* the intent each invocation works from

retentionVars == <<export, history, carried>>
allVars == <<vars, retentionVars>>

NoRecord == [id |-> Nobody, whole |-> FALSE, svc |-> NoSvc, install |-> NoDoc]
TornRecord(p) == [NoRecord EXCEPT !.id = p]
NoExport == [intent |-> NoRecord, intentPend |-> NoRecord, pend |-> NoRecord, dest |-> NoRecord]
NoHistory == [intent |-> NoRecord, svc |-> NoSvc, install |-> NoDoc, complete |-> NoRecord]

\* terminal_snapshot of the two stores: nothing pending, both at their last phase.
TerminalFiles(s) == s.pend = Absent /\ s.dnsPend = Absent /\ Len(s.events) = Len(PHASES)
TerminalService(s) == s.dir = "published" /\ TerminalFiles(s)
TerminalInstall(d) == d.phase = "installed"
\* _source_snapshot, _snapshot_pair: both terminal, of one migration.
TerminalPair(s, d) == TerminalService(s) /\ TerminalInstall(d)

\* _intent: what the payload digests identify.
Intent(p, s, d) == [id |-> p, whole |-> TRUE, svc |-> s, install |-> d]
RetentionOnly == UNCHANGED <<target, source, jobs, running, guard, svc, journal, pending, staging>>
Carry(p, r) == carried' = [carried EXCEPT ![p] = r]
Leave(p) == Exit(p) /\ Carry(p, NoRecord)

-----------------------------------------------------------------------------
(* export and recover.                                                     *)

\* _locked_source_snapshot: both locks, then the snapshot.
SourceAdmitted == lock = Nobody /\ pending = NoDoc /\ TerminalPair(svc, journal)
ExportBegin == \E p \in Procs :
    /\ proc[p] = Idle /\ SourceAdmitted /\ lock' = p
    /\ Goto(p, "x.intent") /\ Carry(p, Intent(p, svc, journal))
    /\ RetentionOnly /\ UNCHANGED <<faults, export, history>>
\* _publish_external_intent: an intent under either name refuses the export.
IntentAbsent == export.intent = NoRecord /\ export.intentPend = NoRecord
PublishIntent == \E p \in Procs :
    /\ At(p, "x.intent") /\ IntentAbsent
    /\ export' = [export EXCEPT !.intent = carried[p]] /\ Goto(p, "x.container")
    /\ RetentionOnly /\ UNCHANGED <<lock, faults, history, carried>>
IntentExists == \E p \in Procs :
    /\ At(p, "x.intent") /\ ~IntentAbsent /\ Leave(p)
    /\ RetentionOnly /\ UNCHANGED <<faults, export, history>>

\* _external_intent_bytes, before any lock: one of the two names, strictly parsed.
ExternalIntent == IF export.intent # NoRecord THEN export.intent ELSE export.intentPend
StrictJson(r) == r.whole
ExternalReadable == (export.intent = NoRecord \/ export.intentPend = NoRecord) /\ StrictJson(ExternalIntent)
RecoverExport == \E p \in Procs :
    /\ proc[p] = Idle /\ ExternalReadable
    /\ Goto(p, "x.relock") /\ Carry(p, ExternalIntent)
    /\ RetentionOnly /\ UNCHANGED <<lock, faults, export, history>>
\* The intent recomputed from the journals must be the recorded one.
SourceUnchanged(p) == Intent(carried[p].id, svc, journal) = carried[p]
RecoverLocked == \E p \in Procs :
    /\ At(p, "x.relock") /\ SourceAdmitted /\ SourceUnchanged(p) /\ lock' = p
    /\ Goto(p, "x.promote") /\ RetentionOnly /\ UNCHANGED <<faults, retentionVars>>
RecoverExportRefused == \E p \in Procs :
    /\ At(p, "x.relock") /\ ~(SourceAdmitted /\ SourceUnchanged(p)) /\ Leave(p)
    /\ RetentionOnly /\ UNCHANGED <<faults, export, history>>
Promoted == IF export.intentPend = NoRecord THEN export
            ELSE [export EXCEPT !.intent = export.intentPend, !.intentPend = NoRecord]
PromoteIntent == \E p \in Procs :
    /\ At(p, "x.promote") /\ export' = Promoted
    /\ IF Promoted.intent = carried[p] THEN Goto(p, "x.container") /\ UNCHANGED <<lock, carried>> ELSE Leave(p)
    /\ RetentionOnly /\ UNCHANGED <<faults, history>>

\* _complete_export: a published container is only verified, a whole pending
\* one is published, a partial one is refused and never replaced.
WriteContainer == \E p \in Procs :
    /\ At(p, "x.container") /\ export.dest = NoRecord /\ export.pend = NoRecord
    /\ export' = [export EXCEPT !.pend = carried[p]]
    /\ RetentionOnly /\ UNCHANGED <<lock, proc, faults, history, carried>>
\* Mutant: the pending container is renamed whatever it holds.
PendingNamed(p) == export.pend.id = carried[p].id
\* _read_container_files: equal, file by file, to the expected container.
PendingWhole(p) == export.pend = carried[p]
PublishContainer == \E p \in Procs :
    /\ At(p, "x.container") /\ export.dest = NoRecord
    /\ export.pend # NoRecord /\ PendingWhole(p)
    /\ export' = [export EXCEPT !.dest = export.pend, !.pend = NoRecord] /\ Goto(p, "x.verify")
    /\ RetentionOnly /\ UNCHANGED <<lock, faults, history, carried>>
ContainerExists == \E p \in Procs :
    /\ At(p, "x.container") /\ export.dest # NoRecord /\ export.pend = NoRecord
    /\ Goto(p, "x.verify") /\ RetentionOnly /\ UNCHANGED <<lock, faults, retentionVars>>
ContainerRefused == \E p \in Procs :
    /\ At(p, "x.container") /\ export.pend # NoRecord
    /\ export.dest # NoRecord \/ ~PendingWhole(p)
    /\ Leave(p) /\ RetentionOnly /\ UNCHANGED <<faults, export, history>>
\* _verify_published_export, which the acceptance commands repeat without locks.
Verified ==
    /\ StrictJson(export.intent) /\ export.intentPend = NoRecord /\ export.pend = NoRecord
    /\ export.dest = export.intent
VerifyExport == \E p \in Procs :
    /\ At(p, "x.verify") /\ Leave(p)
    /\ RetentionOnly /\ UNCHANGED <<faults, export, history>>

-----------------------------------------------------------------------------
(* archive_completed_history.                                              *)

\* Each journal is at exactly one of its two names.
ServiceMoved == history.svc # NoSvc
InstallMoved == history.install # NoDoc
Located ==
    /\ ServiceMoved # (svc.dir = "published")
    /\ InstallMoved # (journal # NoDoc)
RetainedService == IF ServiceMoved THEN history.svc ELSE svc
RetainedInstall == IF InstallMoved THEN history.install ELSE journal
HistoryIntent == Intent(Nobody, RetainedService, RetainedInstall)
\* _require_installed: the archived build, or a declared newer one.
ArchivedInstalled == target = Candidate
\* A recorded intent must be the recomputed one; without one nothing has moved.
HistoryBound ==
    \/ history.intent = HistoryIntent
    \/ history.intent = NoRecord /\ ~ServiceMoved /\ ~InstallMoved
ArchiveAdmitted ==
    /\ history.complete = NoRecord
    /\ svc.dir \notin {"pending", Torn} /\ pending = NoDoc /\ Located
    /\ TerminalPair(RetainedService, RetainedInstall) /\ ArchivedInstalled /\ HistoryBound
ArchiveBegin == \E p \in Procs :
    /\ proc[p] = Idle /\ lock = Nobody /\ ArchiveAdmitted /\ lock' = p /\ Goto(p, "h.move")
    /\ RetentionOnly /\ UNCHANGED <<faults, retentionVars>>
WriteHistoryIntent == \E p \in Procs :
    /\ At(p, "h.move") /\ history.intent = NoRecord
    /\ history' = [history EXCEPT !.intent = HistoryIntent]
    /\ RetentionOnly /\ UNCHANGED <<lock, proc, faults, export, carried>>
MoveService == \E p \in Procs :
    /\ At(p, "h.move") /\ history.intent # NoRecord /\ ~ServiceMoved
    /\ history' = [history EXCEPT !.svc = svc] /\ svc' = NoSvc
    /\ UNCHANGED <<target, source, jobs, running, guard, journal, pending, staging, lock, proc, faults, export, carried>>
MoveInstall == \E p \in Procs :
    /\ At(p, "h.move") /\ ServiceMoved /\ ~InstallMoved
    /\ history' = [history EXCEPT !.install = journal] /\ journal' = NoDoc
    /\ UNCHANGED <<target, source, jobs, running, guard, svc, pending, staging, lock, proc, faults, export, carried>>
\* Reopened, compared with the intent's digests, and closed by the receipt.
CompleteHistory == \E p \in Procs :
    /\ At(p, "h.move") /\ ServiceMoved /\ InstallMoved
    /\ HistoryIntent = history.intent /\ ArchivedInstalled
    /\ history' = [history EXCEPT !.complete = HistoryIntent] /\ Leave(p)
    /\ RetentionOnly /\ UNCHANGED <<faults, export>>

-----------------------------------------------------------------------------
ExportLabels == {"x.intent", "x.relock", "x.promote", "x.container", "x.verify"}
\* What an interrupted or failed write leaves; nothing is removed.
ExportLeft(p) ==
    CASE At(p, "x.intent") /\ IntentAbsent ->
           {export, [export EXCEPT !.intent = carried[p]]}
             \cup {[export EXCEPT !.intentPend = r] : r \in {carried[p], TornRecord(p)}}
      [] At(p, "x.container") /\ export.pend = NoRecord /\ export.dest = NoRecord ->
           {export} \cup {[export EXCEPT !.pend = r] : r \in {carried[p], TornRecord(carried[p].id)}}
      [] OTHER -> {export}
ExportInterrupted == \E p \in Procs :
    /\ proc[p].pc \in ExportLabels /\ Fault /\ Leave(p) /\ export' \in ExportLeft(p)
    /\ RetentionOnly /\ UNCHANGED history
\* The intent and the receipt are written in place.
HistoryLeft(p) ==
    {history} \cup (IF history.intent = NoRecord THEN {[history EXCEPT !.intent = TornRecord(p)]} ELSE {})
      \cup (IF InstallMoved THEN {[history EXCEPT !.complete = TornRecord(p)]} ELSE {})
ArchiveInterrupted == \E p \in Procs :
    /\ At(p, "h.move") /\ Fault /\ Leave(p) /\ history' \in HistoryLeft(p)
    /\ RetentionOnly /\ UNCHANGED export

RetentionNext ==
    \/ ExportBegin \/ PublishIntent \/ IntentExists \/ RecoverExport \/ RecoverLocked \/ RecoverExportRefused
    \/ PromoteIntent \/ WriteContainer \/ PublishContainer \/ ContainerExists \/ ContainerRefused
    \/ VerifyExport \/ ArchiveBegin \/ WriteHistoryIntent \/ MoveService \/ MoveInstall
    \/ CompleteHistory \/ ExportInterrupted \/ ArchiveInterrupted
MaintenanceInit ==
    Init /\ export = NoExport /\ history = NoHistory /\ carried = [p \in Procs |-> NoRecord]
MaintenanceNext == (Next /\ UNCHANGED retentionVars) \/ RetentionNext
MaintenanceSpec == MaintenanceInit /\ [][MaintenanceNext]_allVars

-----------------------------------------------------------------------------
(* What is exported is one finished migration, the one whose journals are  *)
(* live or archived, whatever was interrupted, recovered or archived in    *)
(* between; an export that verifies keeps verifying.                       *)
ExportIsOneMigration ==
    export.dest # NoRecord =>
        /\ TerminalPair(export.dest.svc, export.dest.install)
        /\ export.dest.svc = RetainedService /\ export.dest.install = RetainedInstall
        /\ Verified

(* Once both journals are terminal their contents never change and are     *)
(* never lost: they move into the history, the service journal first,      *)
(* and only under a durable intent that names both.                        *)
RecordsAreKept ==
    [][/\ TerminalPair(RetainedService, RetainedInstall) =>
             RetainedService' = RetainedService /\ RetainedInstall' = RetainedInstall
       /\ history'.svc # history.svc \/ history'.install # history.install =>
             history.intent = Intent(Nobody, RetainedService, RetainedInstall)]_allVars
=============================================================================
