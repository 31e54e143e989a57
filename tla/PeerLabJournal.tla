---------------------------- MODULE PeerLabJournal ----------------------------
(***************************************************************************)
(* IOSPeerTransactionJournal of physical_capture/ios_transport_peer_lab.py *)
(* and the transport lab it accounts for.  The repository has the journal, *)
(* the parsers and the command plan but no runner; the runner here records *)
(* an intent, runs its command and records what the parsers accepted.  An  *)
(* event is written under a pending name and renamed, and a journal with a *)
(* pending entry cannot be opened again.                                   *)
(***************************************************************************)
EXTENDS PeerDevice

VARIABLE lab
labVars == <<peerVars, lab>>

\* IOSPeerTransactionState in the order of a run without the retry.
LabStates ==
    <<"prepared", "install_intent", "installed", "primer_launch_intent", "primer_launched",
      "primer_terminate_intent", "primer_terminated", "primer_stopped", "session_copy_intent",
      "session_copied", "transport_launch_intent", "transport_launched", "result_received",
      "terminate_intent", "terminated", "uninstall_intent", "uninstalled", "absence_verified", "complete">>
RetryStates == {"primer_retry_authorized", "primer_retry_launch_intent"}
CleanupStates == {"uninstall_intent", "uninstalled", "absence_verified", "complete"}
Rank(s) == CHOOSE k \in DOMAIN LabStates : LabStates[k] = s
From(s) == {LabStates[k] : k \in Rank(s)..Rank("terminated")}
\* _TRANSITIONS
Successors(s) ==
    LET abandon == IF s \in {"prepared", "absence_verified", "complete"} \cup CleanupStates THEN {} ELSE {"uninstall_intent"}
        next == IF s = "complete" THEN {} ELSE {LabStates[Rank(s) + 1]}
    IN  CASE s = "none" -> {"prepared"}
          [] s = "primer_launch_intent" -> {"primer_retry_authorized", "primer_launched"} \cup abandon
          [] s = "primer_retry_authorized" -> {"primer_retry_launch_intent", "uninstall_intent"}
          [] s = "primer_retry_launch_intent" -> {"primer_launched", "uninstall_intent"}
          [] s = "transport_launched" -> {"result_received", "terminate_intent", "uninstall_intent"}
          [] OTHER -> next \cup abandon

\* IOSPeerTransactionEvidence: groups of fields that are present together.
EvidenceGroups ==
    {"install", "cleanup_only", "retry", "primer", "primer_cleanup", "primer_terminated", "primer_stopped",
     "session", "transport", "result", "cleanup_inventory", "terminated", "uninstall", "final"}
\* The states in which a group must be present, besides the cleanup states that may keep it.
Required(g) ==
    CASE g = "install" -> From("installed") \cup RetryStates
      [] g = "retry" -> RetryStates
      [] g = "primer" -> From("primer_launched")
      [] g = "primer_cleanup" -> From("primer_terminate_intent")
      [] g = "primer_terminated" -> From("primer_terminated")
      [] g = "primer_stopped" -> From("primer_stopped")
      [] g = "session" -> From("session_copied")
      [] g = "transport" -> From("transport_launched")
      [] g = "result" -> {"result_received"}
      [] g = "cleanup_inventory" -> From("terminate_intent")
      [] g = "terminated" -> {"terminated"}
      [] g = "uninstall" -> CleanupStates \ {"uninstall_intent"}
      [] g = "final" -> {"absence_verified", "complete"}
      [] OTHER -> {}
Allowed(g) ==
    CASE g = "retry" -> RetryStates \cup From("primer_launched") \cup CleanupStates
      [] g = "result" -> From("result_received") \cup CleanupStates
      [] g \in {"uninstall", "final"} -> Required(g)
      [] g = "cleanup_only" -> CleanupStates
      [] OTHER -> Required(g) \cup CleanupStates
Needs == <<<<"primer_cleanup", "primer">>, <<"primer_terminated", "primer_cleanup">>,
           <<"primer_stopped", "primer_terminated">>, <<"session", "primer_stopped">>, <<"transport", "session">>,
           <<"result", "transport">>, <<"cleanup_inventory", "transport">>, <<"terminated", "cleanup_inventory">>>>
\* _validate_state_evidence
StateEvidence(s, ev) ==
    /\ \A g \in EvidenceGroups : (s \in Required(g) => g \in ev) /\ (g \in ev => s \in Allowed(g))
    /\ \A k \in DOMAIN Needs : Needs[k][1] \in ev => Needs[k][2] \in ev
    /\ "cleanup_only" \in ev => ev \subseteq {"cleanup_only", "uninstall", "final"}
    /\ s \in CleanupStates => ({"install", "cleanup_only"} \cap ev # {})

\* What the guard looks at in the old CFW: a part is TRUE once it has changed.
GuardParts == {"process", "port", "proxy", "route"}
NoGuard == [part \in GuardParts |-> FALSE]
NewLab == [st |-> "none", ev |-> {}, pc |-> "idle", open |-> FALSE, pending |-> FALSE,
           first |-> NoPid, primer |-> NoPid, server |-> NoPid, launched |-> NoPid,
           guard |-> NoGuard, legacy |-> NoGuard]
LabTypeOK ==
    /\ lab.st \in {"none"} \cup {LabStates[k] : k \in DOMAIN LabStates} \cup RetryStates
    /\ lab.ev \subseteq EvidenceGroups
LabInit == lab = NewLab

-----------------------------------------------------------------------------
(* The journal.                                                            *)

\* _append: the transition, the evidence, the pending file and its rename.
CanRecord(s, ev) == s \in Successors(lab.st) /\ lab.ev \subseteq ev /\ StateEvidence(s, ev)
Recorded(s, ev, pc) == [lab EXCEPT !.st = s, !.ev = ev, !.pc = pc]
Record(s, groups, pc, rec) ==
    LET ev == lab.ev \cup groups IN
    /\ lab.open /\ CanRecord(s, ev) /\ UNCHANGED <<phone, tx>>
    /\ \/ lab' = [rec EXCEPT !.st = s, !.ev = ev, !.pc = pc] /\ UNCHANGED faults
       \/ PeerFault /\ lab' = [lab EXCEPT !.open = FALSE, !.pc = "idle"]
       \/ PeerFault /\ lab' = [lab EXCEPT !.open = FALSE, !.pc = "idle", !.pending = TRUE]
LabAt(pc) == lab.open /\ lab.pc = pc
LabGo(rec, pc) == lab' = [rec EXCEPT !.pc = pc]

\* build_legacy_cfw_guard_snapshot
LegacyProcess == lab.legacy["process"]
LegacyPortOwner == lab.legacy["port"]
LegacyProxy == lab.legacy["proxy"]
LegacyRoute == lab.legacy["route"]
LegacySnapshot ==
    [part \in GuardParts |->
        CASE part = "process" -> LegacyProcess [] part = "port" -> LegacyPortOwner
          [] part = "proxy" -> LegacyProxy [] part = "route" -> LegacyRoute]

\* create: the inputs hold a preflight without the app and the CFW guard's snapshot.
Create ==
    /\ lab.st = "none" /\ tx = 0 /\ tx' = 1 /\ UNCHANGED <<phone, faults>>
    /\ Admissible /\ BuildPreflight(AppInventory, ProcessInventory)
    /\ lab' = [lab EXCEPT !.st = "prepared", !.open = TRUE, !.guard = LegacySnapshot]
\* _read_event: every name must be that of a final event.
EventsFinal == ~lab.pending
\* _replay: the first is prepared, and each continues the one before it.
Replays == EventsFinal /\ lab.st # "none"
Open ==
    /\ ~lab.open /\ Replays /\ UNCHANGED peerVars
    /\ lab' = [lab EXCEPT !.open = TRUE, !.pc = "recovering"]

-----------------------------------------------------------------------------
(* The runner: intent, command, what the parser accepted.                  *)

Intent(from, s, groups, pc) == LabAt("idle") /\ lab.st = from /\ Record(s, groups, pc, lab)
\* A command whose reply is not usable ends the run; what it did is not known.
LabCommand(pc, effect, good, next) ==
    /\ LabAt(pc) /\ UNCHANGED tx
    /\ \E o \in Outcomes :
        Devicectl(effect, o) /\ (IF ParseEnvelope(o) THEN LabGo(good, next) ELSE LabGo(lab, "recovering"))
Proof(pc, holds, s, groups, rec) ==
    LabAt(pc) /\ (IF holds THEN Record(s, groups, "idle", rec) ELSE LabGo(lab, "recovering") /\ UNCHANGED peerVars)

RecordInstallIntent == Intent("prepared", "install_intent", {}, "install")
LabInstall == LabCommand("install", Installs, lab, "own")
RecordInstalled == Proof("own", ParseInstallReceipt(AppInventory), "installed", {"install"}, lab)
RecordPrimerLaunchIntent == Intent("installed", "primer_launch_intent", {}, "primer")
LabLaunchPrimer ==
    /\ CanLaunch
    /\ LabCommand("primer", LaunchesPrimer, [lab EXCEPT !.launched = LaunchedPid], "bind-primer")
\* A primer that is gone may be launched once more.
RecordPrimerRetryAuthorized ==
    /\ LabAt("bind-primer") /\ lab.st = "primer_launch_intent"
    /\ AuthorizeRetry(lab.launched, ProcessInventory)
    /\ Record("primer_retry_authorized", {"retry"}, "idle", [lab EXCEPT !.first = lab.launched])
RecordPrimerRetryLaunchIntent == Intent("primer_retry_authorized", "primer_retry_launch_intent", {}, "primer")
RecordPrimerLaunched ==
    Proof("bind-primer", BindPrimer(lab.launched, ProcessInventory, phone.primer) /\ lab.launched # lab.first,
          "primer_launched", {"primer"}, [lab EXCEPT !.primer = lab.launched])
RecordPrimerTerminateIntent ==
    /\ AuthorizePrimerCleanup(lab.primer, ProcessInventory, phone.primer)
    /\ Intent("primer_launched", "primer_terminate_intent", {"primer_cleanup"}, "kill-primer")
LabTerminatePrimer == LabCommand("kill-primer", Terminates(lab.primer), lab, "primer-killed")
RecordPrimerTerminated == Proof("primer-killed", TRUE, "primer_terminated", {"primer_terminated"}, lab)
RecordPrimerStopped ==
    /\ BindStopped(lab.primer, ProcessInventory)
    /\ Intent("primer_terminated", "primer_stopped", {"primer_stopped"}, "idle")
RecordSessionCopyIntent == Intent("primer_stopped", "session_copy_intent", {}, "copy")
LabCopySession == LabCommand("copy", CopiesSession, lab, "copied")
\* parse_session_copy_receipt: the session is where the peer reads it.
SessionInPlace == phone.session
RecordSessionCopied == Proof("copied", SessionInPlace, "session_copied", {"session"}, lab)
RecordTransportLaunchIntent == Intent("session_copied", "transport_launch_intent", {}, "launch")
LabLaunchTransport ==
    CanLaunch /\ LabCommand("launch", LaunchesServer, [lab EXCEPT !.launched = LaunchedPid], "bind")
RecordTransportLaunched ==
    Proof("bind", BindServer(lab.launched, ProcessInventory, phone.ready), "transport_launched", {"transport"},
          [lab EXCEPT !.server = lab.launched])
\* verify_transport_pair: both peers name the launched process, and what they
\* exchanged was made of the copied session's identity.
PairIdentity == ValidateResult(lab.server, phone.result)
TransportPair == PairIdentity /\ phone.session
RecordResultReceived == TransportPair /\ Intent("transport_launched", "result_received", {"result"}, "idle")
RecordTerminateIntent ==
    /\ AuthorizeServerCleanup(lab.server, ProcessInventory, phone.ready)
    /\ \E s \in {"transport_launched", "result_received"} :
        Intent(s, "terminate_intent", {"cleanup_inventory"}, "kill")
LabTerminate == LabCommand("kill", Terminates(lab.server), lab, "killed")
RecordTerminated == Proof("killed", TRUE, "terminated", {"terminated"}, lab)

\* The app is removed from every state that owns the install.
RecordUninstallIntent ==
    /\ lab.open /\ lab.pc \in {"idle", "recovering"} /\ "install" \in lab.ev
    /\ lab.st \in {"terminated"} \/ lab.pc = "recovering"
    /\ Record("uninstall_intent", {}, "uninstall", lab)
RecordCleanupOnlyUninstallIntent ==
    /\ LabAt("recovering") /\ lab.st = "install_intent" /\ AuthorizeCleanupOnly(AppInventory)
    /\ Record("uninstall_intent", {"cleanup_only"}, "uninstall", lab)
\* devicectl refuses to uninstall an app that is not there.
LabUninstall ==
    /\ lab.st = "uninstall_intent" /\ phone.app # NoApp /\ lab.pc \in {"uninstall", "recovering"} /\ lab.open
    /\ UNCHANGED tx
    /\ \E o \in Outcomes, lingers \in BOOLEAN :
        /\ Devicectl(Uninstalls(lingers), o)
        /\ IF ParseUninstall(o) THEN LabGo(lab, "uninstalled") ELSE LabGo(lab, "recovering")
RecordUninstalled == Proof("uninstalled", TRUE, "uninstalled", {"uninstall"}, lab)
\* verify_post_uninstall_absence and verify_legacy_cfw_unchanged
LegacyUnchanged == LegacySnapshot = lab.guard
RecordAbsenceVerified ==
    /\ lab.open /\ lab.pc \in {"idle", "recovering"} /\ lab.st = "uninstalled"
    /\ VerifyAbsence(AppInventory, ProcessInventory) /\ LegacyUnchanged
    /\ Record("absence_verified", {"final"}, "idle", lab)
RecordComplete ==
    /\ lab.open /\ lab.pc \in {"idle", "recovering"} /\ lab.st = "absence_verified"
    /\ Record("complete", {}, "idle", lab)

\* The runner dies between two calls, or the old CFW changes meanwhile.
RunnerDies == lab.open /\ PeerFault /\ lab' = [lab EXCEPT !.open = FALSE, !.pc = "idle"] /\ UNCHANGED <<phone, tx>>
LegacyChanges ==
    /\ lab.st \notin {"none", "absence_verified", "complete"} /\ PeerFault /\ UNCHANGED <<phone, tx>>
    /\ \E part \in GuardParts : lab' = [lab EXCEPT !.legacy[part] = TRUE]

LabStep ==
    \/ Create \/ Open \/ RecordInstallIntent \/ LabInstall \/ RecordInstalled
    \/ RecordPrimerLaunchIntent \/ LabLaunchPrimer \/ RecordPrimerRetryAuthorized
    \/ RecordPrimerRetryLaunchIntent \/ RecordPrimerLaunched \/ RecordPrimerTerminateIntent
    \/ LabTerminatePrimer \/ RecordPrimerTerminated \/ RecordPrimerStopped
    \/ RecordSessionCopyIntent \/ LabCopySession \/ RecordSessionCopied
    \/ RecordTransportLaunchIntent \/ LabLaunchTransport \/ RecordTransportLaunched
    \/ (PeerServes /\ UNCHANGED lab) \/ RecordResultReceived \/ RecordTerminateIntent \/ LabTerminate \/ RecordTerminated
    \/ RecordUninstallIntent \/ RecordCleanupOnlyUninstallIntent \/ LabUninstall \/ RecordUninstalled
    \/ RecordAbsenceVerified \/ RecordComplete \/ RunnerDies \/ LegacyChanges

-----------------------------------------------------------------------------
\* cleanup_complete means what its comment says: the app and its processes are
\* gone and the old CFW is as it was, also after crashes and lost replies.
CompleteIsClean ==
    lab.st = "complete" => phone.app # 1 /\ phone.procs = {} /\ lab.legacy = lab.guard

=============================================================================
