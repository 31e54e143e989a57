------------------------------ MODULE PeerDevice ------------------------------
(***************************************************************************)
(* The iPhone that serves as LAN peer, as physical_capture/                *)
(* ios_transport_peer_lab.py reads and changes it through devicectl.  A    *)
(* command that changes the phone may do its work and report it, do it     *)
(* without a usable reply, or fail.  Receipts of devicectl and of the test *)
(* app are modelled by what they identify: the transaction that installed  *)
(* the app, or the process that wrote the receipt.                         *)
(***************************************************************************)
EXTENDS Naturals, FiniteSets, Sequences

CONSTANTS
    MaxTransactions,    \* peer transactions, one after another
    MaxPids,            \* processes of the test app
    MaxPacketFaults     \* failed commands, crashes and interferences
ASSUME PeerAssumption ==
    /\ MaxTransactions \in Nat \ {0} /\ MaxPids \in Nat /\ MaxPacketFaults \in Nat

VARIABLES phone, tx, faults
peerVars == <<phone, tx, faults>>

NoApp == 0
\* An installation nobody knows of, from before the first transaction.
Preexisting == MaxTransactions + 1
NoPid == 0
Pids == 1..MaxPids

\* What is looked at before the phone is touched, in the order of the code.
Checks == {"source", "device", "profile", "signature", "tree", "details", "lock"}

PeerTypeOK ==
    /\ phone \in [app : 0..(MaxTransactions + 1), procs : SUBSET Pids, next : 1..(MaxPids + 1),
                  primer : 0..MaxPids, session : BOOLEAN, ready : 0..MaxPids,
                  result : 0..MaxPids, wrong : Checks \cup {"none"}]
    /\ tx \in 0..MaxTransactions /\ faults \in 0..MaxPacketFaults
PeerInit ==
    /\ \E app \in {NoApp, Preexisting}, wrong \in Checks \cup {"none"} :
        phone = [app |-> app, procs |-> {}, next |-> 1, primer |-> NoPid, session |-> FALSE,
                 ready |-> NoPid, result |-> NoPid, wrong |-> wrong]
    /\ tx = 0 /\ faults = 0

PeerFault == faults < MaxPacketFaults /\ faults' = faults + 1

-----------------------------------------------------------------------------
(* Commands that change the phone.                                         *)

Outcomes == {"ok", "lost", "failed"}
\* One devicectl command and its bounded run.
Devicectl(effect, outcome) ==
    /\ phone' = IF outcome = "failed" THEN phone ELSE effect
    /\ IF outcome = "ok" THEN UNCHANGED faults ELSE PeerFault
\* _parse_devicectl_envelope: the reply names the command, the runtime and success.
ParseEnvelope(outcome) == outcome = "ok"
\* _parse_process_termination_receipt: and names the process that was to be ended.
ParseTermination(outcome) == ParseEnvelope(outcome)
\* parse_packet_lan_session_copy_receipt: and the file that was to be copied.
ParseSessionCopy(outcome) == ParseEnvelope(outcome)
\* parse_uninstall_receipt: and the app that was to be removed.
ParseUninstall(outcome) == ParseEnvelope(outcome)

Installs == [phone EXCEPT !.app = tx, !.primer = NoPid, !.session = FALSE, !.ready = NoPid,
                            !.result = NoPid]
CopiesSession == [phone EXCEPT !.session = TRUE]
\* The app is launched without --terminate-existing: a running one is only activated.
CanLaunch == phone.app # NoApp /\ (phone.procs # {} \/ phone.next <= MaxPids)
LaunchedPid == IF phone.procs = {} THEN phone.next ELSE CHOOSE p \in phone.procs : TRUE
Started == IF phone.procs = {} THEN [phone EXCEPT !.procs = {phone.next}, !.next = @ + 1] ELSE phone
LaunchesPrimer == IF phone.procs = {} THEN [Started EXCEPT !.primer = phone.next] ELSE phone
LaunchesServer ==
    IF phone.procs = {} /\ phone.session THEN [Started EXCEPT !.ready = phone.next] ELSE Started
Terminates(pid) == [phone EXCEPT !.procs = @ \ {pid}]
Uninstalls(lingers) ==
    [phone EXCEPT !.app = NoApp, !.procs = IF lingers THEN @ ELSE {}, !.primer = NoPid,
                  !.session = FALSE, !.ready = NoPid, !.result = NoPid]

-----------------------------------------------------------------------------
(* Admission of the phone and of the artifact.                             *)

Passes(check) == phone.wrong # check
SourceIdentity == Passes("source")
DeviceSelection == Passes("device")
ProvisioningProfile == Passes("profile")
CodeSignature == Passes("signature")
InspectArtifact == Passes("tree")
ArtifactValid == ProvisioningProfile /\ CodeSignature /\ InspectArtifact
DeviceAdmission == Passes("details")
Unlocked == Passes("lock")
Admissible == SourceIdentity /\ DeviceSelection /\ ArtifactValid /\ DeviceAdmission /\ Unlocked

-----------------------------------------------------------------------------
(* What the inventories and receipts prove.                                *)

AppInventory == phone.app
ProcessInventory == phone.procs
\* Mutant: an app that is already there is taken for this transaction's own.
PreflightUnchecked(app, procs) == procs = {}
BuildPreflight(app, procs) == app = NoApp /\ procs = {}
\* parse_install_receipt: the reply and the one matching app in the new inventory.
ParseInstallReceipt(app) == app # NoApp
\* authorize_cleanup_only_installation_from_preflight
AuthorizeCleanupOnly(app) == app # NoApp
\* _require_unique_launched_process
RequireUnique(pid, procs) == procs = {pid}
BindPrimer(pid, procs, receipt) == RequireUnique(pid, procs) /\ receipt = pid
BindServer(pid, procs, ready) == RequireUnique(pid, procs) /\ ready = pid
BindPacketLan(pid, procs, ready) == RequireUnique(pid, procs) /\ ready = pid
\* authorize_primer_process_cleanup and _authorize_process_cleanup: the owned
\* process is still the only one of the app and its receipt is unchanged.
AuthorizePrimerCleanup(pid, procs, receipt) == RequireUnique(pid, procs) /\ receipt = pid
AuthorizeServerCleanup(pid, procs, ready) == RequireUnique(pid, procs) /\ ready = pid
\* validate_result: the receipt of a whole session by that process.
ValidateResult(pid, result) == result = pid
BindStopped(pid, procs) == procs = {}
\* authorize_single_primer_retry
AuthorizeRetry(pid, procs) == procs = {}
\* Mutant: the processes are not looked at after the uninstall.
AbsenceOfAppOnly(app, procs) == app = NoApp
VerifyAbsence(app, procs) == app = NoApp /\ procs = {}

-----------------------------------------------------------------------------
(* What happens on the phone by itself.                                    *)

PeerExits ==
    /\ PeerFault /\ UNCHANGED tx
    /\ \E p \in phone.procs : phone' = Terminates(p)
UserOpensApp == PeerFault /\ UNCHANGED tx /\ CanLaunch /\ phone.procs = {} /\ phone' = Started
\* The peers' own session ends and the server writes its result.
PeerServes ==
    /\ phone.ready \in phone.procs /\ phone.result = NoPid /\ UNCHANGED <<tx, faults>>
    /\ phone' = [phone EXCEPT !.result = phone.ready]
PeerEnv == PeerExits \/ UserOpensApp

-----------------------------------------------------------------------------
(* Properties of both users of the phone.                                  *)

\* The apps of a phone change only after every check of the phone and of the
\* artifact has passed, and a transaction removes or replaces only an app that it
\* installed itself: one that was there before, or that an interrupted transaction
\* left, stays.
OnlyOwnAppChanged ==
    [][phone'.app # phone.app => phone.wrong = "none" /\ phone.app \in {NoApp, tx}]_phone

=============================================================================
