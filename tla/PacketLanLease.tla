---------------------------- MODULE PacketLanLease ----------------------------
(***************************************************************************)
(* physical_capture/ios_packet_lan_peer_adapter.py: one transaction with   *)
(* the phone.  admit_ios_packet_lan_peer installs the app, runs the local- *)
(* network primer, copies the session and starts the server; the lease it  *)
(* returns is validated before and after the capture and closed.  Every    *)
(* failure after the install intent ends in the same cleanup.              *)
(***************************************************************************)
EXTENDS PeerDevice

VARIABLE lease
leaseVars == <<peerVars, lease>>

LeaseStates == {"none", "admitting", "admitted", "capture-ready", "capture-validated",
                "poisoned", "finishing", "closed"}
NoLease ==
    [st |-> "none", pc |-> "idle", lock |-> FALSE, preflight |-> FALSE, intent |-> FALSE,
     install |-> FALSE, launched |-> NoPid, primer |-> NoPid, packet |-> NoPid,
     before |-> NoPid, after |-> NoPid, termError |-> FALSE, failed |-> FALSE, unclean |-> FALSE, outcome |-> "none"]
LeaseTypeOK == lease.st \in LeaseStates /\ {lease.primer, lease.packet} \subseteq 0..MaxPids
LeaseInit == lease = NoLease

LeaseAt(pc) == lease.pc = pc
LeaseGo(rec, pc) == lease' = [rec EXCEPT !.pc = pc]
\* A read of the phone fails: the command, its JSON output or its parser.
ReadFails == PeerFault /\ UNCHANGED <<phone, tx>>
Reads == UNCHANGED peerVars

-----------------------------------------------------------------------------
(* admit_ios_packet_lan_peer.                                              *)

\* except BaseException: without a preflight there is nothing to clean up.
AbortPc(rec) ==
    CASE ~rec.preflight -> "release"
      [] ~rec.install /\ rec.intent -> "ambiguous"
      [] rec.install -> "terminate"
      [] OTHER -> "release"
Abort(rec) == LeaseGo([rec EXCEPT !.failed = TRUE], AbortPc(rec))
\* One command of the admission: its reply is used or the admission aborts.
AdmitCommand(pc, effect, Parses(_), good, next) ==
    /\ LeaseAt(pc) /\ UNCHANGED tx
    /\ \E o \in Outcomes :
        /\ Devicectl(effect, o)
        /\ IF Parses(o) THEN LeaseGo(good, next) ELSE Abort(lease)
\* One check against a fresh inventory or receipt.
AdmitCheck(pc, holds, good, next) ==
    /\ LeaseAt(pc)
    /\ \/ Reads /\ (IF holds THEN LeaseGo(good, next) ELSE Abort(lease))
       \/ ReadFails /\ Abort(lease)

\* _acquire_admission_lock: it does not wait.
AcquireLock(t) ==
    /\ lease.st \in {"none", "closed"} /\ tx' = t /\ UNCHANGED <<phone, faults>>
    /\ lease' = [NoLease EXCEPT !.st = "admitting", !.pc = "device", !.lock = TRUE]
\* The source identity, the device list, the artifact, the device's details and its lock state.
AdmitDevice == AdmitCheck("device", Admissible, lease, "preflight")
Preflight ==
    AdmitCheck("preflight", BuildPreflight(AppInventory, ProcessInventory),
               [lease EXCEPT !.preflight = TRUE], "intent")
WriteInstallIntent == AdmitCheck("intent", TRUE, [lease EXCEPT !.intent = TRUE], "install")
Install == AdmitCommand("install", Installs, ParseEnvelope, lease, "installed")
OwnInstall ==
    AdmitCheck("installed", ParseInstallReceipt(AppInventory), [lease EXCEPT !.install = TRUE], "primer")
\* prove_unlocked and the launch are one command here: a locked phone refuses it.
LaunchPrimer ==
    CanLaunch /\ AdmitCommand("primer", LaunchesPrimer, ParseEnvelope, [lease EXCEPT !.launched = LaunchedPid], "settle")
BindLaunchedPrimer ==
    AdmitCheck("settle", BindPrimer(lease.launched, ProcessInventory, phone.primer),
               [lease EXCEPT !.primer = lease.launched], "stop-primer")
AuthorizePrimer ==
    AdmitCheck("stop-primer", AuthorizePrimerCleanup(lease.primer, ProcessInventory, phone.primer),
               lease, "kill-primer")
TerminatePrimer == AdmitCommand("kill-primer", Terminates(lease.primer), ParseTermination, lease, "stopped")
StoppedPrimer ==
    AdmitCheck("stopped", BindStopped(lease.primer, ProcessInventory),
               [lease EXCEPT !.primer = NoPid], "copy")
\* validate_packet_lan_session_material: what is to be copied is not of this session.
MaterialRefused == PeerFault
CopySession ==
    \/ AdmitCommand("copy", CopiesSession, ParseSessionCopy, lease, "launch")
    \/ LeaseAt("copy") /\ MaterialRefused /\ UNCHANGED <<phone, tx>> /\ Abort(lease)
LaunchPacketLan ==
    CanLaunch /\ AdmitCommand("launch", LaunchesServer, ParseEnvelope, [lease EXCEPT !.launched = LaunchedPid], "bind")
Admitted ==
    AdmitCheck("bind", BindPacketLan(lease.launched, ProcessInventory, phone.ready),
               [lease EXCEPT !.packet = lease.launched, !.st = "admitted"], "idle")
\* An install that may have happened: the app decides.
AmbiguousInstall ==
    /\ LeaseAt("ambiguous")
    /\ \/ /\ Reads
          /\ CASE AuthorizeCleanupOnly(AppInventory) -> LeaseGo(lease, "uninstall")
               [] VerifyAbsence(AppInventory, ProcessInventory) -> LeaseGo(lease, "release")
               [] OTHER -> LeaseGo([lease EXCEPT !.unclean = TRUE], "release")
       \/ ReadFails /\ LeaseGo([lease EXCEPT !.unclean = TRUE], "release")

-----------------------------------------------------------------------------
(* _cleanup_known_installation.                                            *)

Owned == IF lease.packet # NoPid THEN lease.packet ELSE lease.primer
OwnedReceipt == IF lease.packet # NoPid THEN phone.ready ELSE phone.primer
TermFails(rec) == LeaseGo([rec EXCEPT !.termError = TRUE], "uninstall")
\* _terminate_packet_process and _terminate_primer_process
AuthorizeTerminate ==
    /\ LeaseAt("terminate")
    /\ \/ Owned = NoPid /\ Reads /\ LeaseGo(lease, "uninstall")
       \/ /\ Owned # NoPid /\ Reads
          /\ IF AuthorizeServerCleanup(Owned, ProcessInventory, OwnedReceipt)
             THEN LeaseGo(lease, "kill") ELSE TermFails(lease)
       \/ Owned # NoPid /\ ReadFails /\ TermFails(lease)
Terminate ==
    /\ LeaseAt("kill") /\ UNCHANGED tx
    /\ \E o \in Outcomes :
        /\ Devicectl(Terminates(Owned), o)
        /\ IF ParseTermination(o) THEN LeaseGo(lease, "killed") ELSE TermFails(lease)
Terminated ==
    /\ LeaseAt("killed")
    /\ \/ Reads /\ (IF BindStopped(Owned, ProcessInventory) THEN LeaseGo(lease, "uninstall") ELSE TermFails(lease))
       \/ ReadFails /\ TermFails(lease)
\* _uninstall_and_verify runs whether or not the termination was proven.
Uninstall ==
    /\ LeaseAt("uninstall") /\ UNCHANGED tx
    /\ \E o \in Outcomes, lingers \in BOOLEAN :
        /\ Devicectl(Uninstalls(lingers), o)
        /\ IF ParseUninstall(o) THEN LeaseGo(lease, "verify")
           ELSE LeaseGo([lease EXCEPT !.unclean = TRUE], "release")
Verify ==
    /\ LeaseAt("verify")
    /\ \/ Reads
          /\ LeaseGo([lease EXCEPT !.unclean = lease.termError
                          \/ ~VerifyAbsence(AppInventory, ProcessInventory)], "release")
       \/ ReadFails /\ LeaseGo([lease EXCEPT !.unclean = TRUE], "release")
\* _remove_workspace and _release_admission_lock; the lease is closed whatever happened.
Release ==
    /\ LeaseAt("release") /\ Reads
    /\ lease' = [lease EXCEPT !.pc = "idle", !.st = "closed", !.lock = FALSE]

-----------------------------------------------------------------------------
(* IOSPacketLanPeerLease.  Each returns through lease.st.                  *)

ServerIsOurs == AuthorizeServerCleanup(lease.packet, ProcessInventory, phone.ready)
\* A failed command leaves the lease as it was; a drifted process poisons it.
RevalidateBefore ==
    /\ lease.st = "admitted"
    /\ \/ Reads /\ lease' = IF ServerIsOurs THEN [lease EXCEPT !.st = "capture-ready", !.before = lease.packet]
                           ELSE [lease EXCEPT !.st = "poisoned"]
       \/ ReadFails /\ UNCHANGED lease
\* stages: how many the sender has sent.  _reconcile_sender_and_server compares
\* them with the connections of the server's result.
Reconciled(stages) == stages = 3
RevalidateAfter(stages) ==
    /\ lease.st = "capture-ready"
    /\ \/ Reads /\ lease' = IF ValidateResult(lease.packet, phone.result) /\ Reconciled(stages) /\ ServerIsOurs
                           THEN [lease EXCEPT !.st = "capture-validated", !.after = lease.packet]
                           ELSE [lease EXCEPT !.st = "poisoned"]
       \/ ReadFails /\ lease' = [lease EXCEPT !.st = "poisoned"]
\* _finish: close_with_receipt needs a validated capture, abort does not.
Finish(outcome) ==
    /\ lease.pc = "idle" /\ lease.st \in {"admitted", "capture-ready", "capture-validated", "poisoned"}
    /\ outcome = "capture-complete" => lease.st = "capture-validated"
    /\ Reads /\ LeaseGo([lease EXCEPT !.st = "finishing", !.outcome = outcome], "terminate")

LeaseStep ==
    \/ AdmitDevice \/ Preflight \/ WriteInstallIntent \/ Install \/ OwnInstall
    \/ LaunchPrimer \/ BindLaunchedPrimer \/ AuthorizePrimer \/ TerminatePrimer \/ StoppedPrimer
    \/ CopySession \/ LaunchPacketLan \/ Admitted \/ AmbiguousInstall
    \/ AuthorizeTerminate \/ Terminate \/ Terminated \/ Uninstall \/ Verify \/ Release
\* The process that holds the lease dies; the kernel releases the lock.
LeaseLost == lease' = NoLease

-----------------------------------------------------------------------------
\* A transaction that ends without reporting a failed cleanup leaves neither the
\* app it installed nor a process of it on the phone, even if it could not tell
\* whether its install or its launches had happened.
PhoneLeftAsFound ==
    lease.st = "closed" /\ ~lease.unclean => phone.app # tx /\ (lease.preflight => phone.procs = {})

=============================================================================
