---------------------------- MODULE PacketProofs ----------------------------
(***************************************************************************)
(* Proofs about the packet cases, the phone they use and the Host they     *)
(* exercise, for any number of transactions, process ids and faults.       *)
(*                                                                         *)
(* PhoneInv is about the phone: after its preflight a transaction owns the *)
(* app or there is none (Ours), and a lease that is closed left nothing    *)
(* (Left) or says so.  HostInv is about the Host alone.  CaseInv relates   *)
(* the collector to the Host across the two channels: as long as the Host  *)
(* has recorded no error and did not drift (Doomed), the two are in step   *)
(* (InStep) and every stage was sent as planned.  A late answer, a         *)
(* timeout, a panic or a drift before the restore dooms the transaction,   *)
(* and a doomed one never reports success, so what was sent out of step is *)
(* never accepted.  A change of the engine after the restored observation  *)
(* dooms nothing, because nothing observes it; then the tunnel must still  *)
(* have been there for the last stage to be sent at all (Routed).          *)
(***************************************************************************)
EXTENDS PacketEvidence, SequenceTheorems, TLAPS

Shaped(r, F) == r = [f \in F |-> r[f]]

-----------------------------------------------------------------------------
(* The Host.                                                               *)

HostFields == {"pc", "snap", "routed", "admitted", "begun", "tested", "code", "terminal", "outcome"}
HostInv ==
    /\ Shaped(host, HostFields) /\ (host.pc = "idle" => ~host.admitted)
    /\ RestoredOrQuarantined

(* A Host transaction starts idle and not admitted.                        *)
LEMMA NewHostIs == Shaped(NewHost, HostFields) /\ NewHost.pc = "idle" /\ ~NewHost.admitted
BY DEF NewHost, Shaped, HostFields

(* The answers to the first and the second stage.                          *)
LEMMA StageSteps == ASSUME HostInv, BeginEnds \/ TestEnds PROVE HostInv'
<1>1. \E code : \/ host' = [[host EXCEPT !.begun = TRUE] EXCEPT !.pc = "apply"]
               \/ host' = [Failing(host, code) EXCEPT !.pc = "restore"]
  BY DEF BeginEnds, TestEnds, StageEnds, HostGo
<1> QED BY <1>1 DEF HostInv, Failing, Shaped, HostFields, RestoredOrQuarantined

(* Every step of the Host keeps HostInv.                                   *)
LEMMA HostSteps == ASSUME HostInv, HostStep PROVE HostInv'
<1> USE DEF HostInv, HostGo, HostAt
<1>1. CASE HostAdmit BY <1>1 DEF HostAdmit, Shaped, HostFields, RestoredOrQuarantined
<1>2. CASE BeginEnds \/ TestEnds BY <1>2, StageSteps
<1>3. CASE ApplyTest
   BY <1>3 DEF ApplyTest, Failing, Shaped, HostFields, RestoredOrQuarantined
<1>4. CASE RestoreBaseline BY <1>4 DEF RestoreBaseline, Back, Shaped, HostFields, RestoredOrQuarantined
<1>9. CASE RecoverAfterPanic BY <1>9 DEF RecoverAfterPanic, Shaped, HostFields, RestoredOrQuarantined
<1>5. CASE Quarantine BY <1>5 DEF Quarantine, Shaped, HostFields, RestoredOrQuarantined
<1>6. CASE FinishTerminal BY <1>6 DEF FinishTerminal, Shaped, HostFields, RestoredOrQuarantined
<1>7. CASE FinishEnds BY <1>7 DEF FinishEnds, FinalCode, Shaped, HostFields, RestoredOrQuarantined
<1>8. CASE EngineDrifts BY <1>8 DEF EngineDrifts, Shaped, HostFields, RestoredOrQuarantined
<1> QED BY <1>1, <1>2, <1>3, <1>4, <1>5, <1>6, <1>7, <1>8, <1>9 DEF HostStep

-----------------------------------------------------------------------------
(* The phone and its lease.                                                *)

PhoneFields == {"app", "procs", "next", "primer", "session", "ready", "result", "wrong"}
LeaseFields == {"st", "pc", "lock", "preflight", "intent", "install", "launched", "primer", "packet",
                "before", "after", "termError", "failed", "unclean", "outcome"}
Held == {"admitted", "capture-ready", "capture-validated", "poisoned", "finishing"}
\* The labels after the preflight, without the last.
Late == {"intent", "install", "installed", "primer", "settle", "stop-primer", "kill-primer", "stopped",
         "copy", "launch", "bind", "ambiguous", "terminate", "kill", "killed", "uninstall", "verify"}

PhoneTyped ==
    /\ Shaped(phone, PhoneFields) /\ phone.wrong \in Checks \cup {"none"}
    /\ tx \in 0..MaxTransactions /\ (phone.app \in 0..tx \/ phone.app = Preexisting)
\* The app is this transaction's or none, and every check was passed.
Ours == phone.wrong = "none" /\ phone.app \in {NoApp, tx}
Bare == phone.app = NoApp /\ phone.procs = {}
\* Nothing of this transaction is left.
Left == phone.app # tx /\ (lease.preflight => Bare)
LeaseInv ==
    /\ Shaped(lease, LeaseFields)
    /\ lease.st = "none" => lease = NoLease
    /\ lease.st # "none" => tx # NoApp /\ tool = "case"
    /\ lease.pc # "idle" <=> lease.st \in {"admitting", "finishing"}
    /\ lease.pc \in {"idle", "device", "preflight", "release"} \cup Late
    /\ lease.pc \in {"device", "preflight"} =>
          ~lease.preflight /\ ~lease.intent /\ ~lease.install /\ lease.st = "admitting"
    /\ lease.pc \in Late => lease.preflight
    /\ lease.pc \in Late \ {"intent"} => lease.intent
    /\ lease.st \in Held => lease.preflight /\ lease.intent
    /\ lease.preflight => Ours
    /\ ~lease.preflight /\ lease.st # "none" => phone.app # tx
    /\ lease.pc = "preflight" => phone.wrong = "none"
    /\ lease.pc = "intent" => Bare /\ ~lease.intent /\ ~lease.install
    /\ lease.pc = "release" \/ lease.st = "closed" => lease.unclean \/ Left

(* The checks of a read-only step of the admission.                        *)
LEMMA AdmissibleIs == ASSUME PhoneTyped, Admissible PROVE phone.wrong = "none"
BY DEF PhoneTyped, Admissible, SourceIdentity, DeviceSelection, ArtifactValid, DeviceAdmission, Unlocked,
       ProvisioningProfile, CodeSignature, InspectArtifact, Passes, Checks

PhoneSame == UNCHANGED <<phone, tx, tool>>
(* The steps of the lease that only read the phone.                        *)
LEMMA LeaseReads ==
    ASSUME LeaseInv, PhoneTyped, tool = "case", UNCHANGED tool,
           AdmitDevice \/ Preflight \/ WriteInstallIntent \/ OwnInstall \/ BindLaunchedPrimer
           \/ AuthorizePrimer \/ StoppedPrimer \/ Admitted \/ AmbiguousInstall \/ AuthorizeTerminate
           \/ Terminated \/ Verify \/ Release
    PROVE  LeaseInv' /\ PhoneTyped'
<1> USE DEF LeaseGo, LeaseAt, AdmitCheck, Reads, ReadFails, Abort, AbortPc, peerVars
<1>1. PhoneSame
  BY DEF AdmitDevice, Preflight, WriteInstallIntent, OwnInstall, BindLaunchedPrimer,
           AuthorizePrimer, StoppedPrimer, Admitted, AmbiguousInstall, AuthorizeTerminate,
           Terminated, Verify, Release, PhoneSame, TermFails
<1>2. PhoneTyped' BY <1>1 DEF PhoneTyped, PhoneSame
<1> USE DEF LeaseInv, Shaped, LeaseFields, Held, Late, Left, Bare, Ours, PhoneSame, NoApp
<1>3. CASE AdmitDevice
  BY <1>1, <1>2, <1>3, AdmissibleIs DEF AdmitDevice
<1>4. CASE Preflight
  BY <1>1, <1>2, <1>4 DEF Preflight, BuildPreflight, AppInventory, ProcessInventory
<1>5. CASE WriteInstallIntent
  BY <1>1, <1>2, <1>5 DEF WriteInstallIntent
<1>6. CASE OwnInstall
  BY <1>1, <1>2, <1>6 DEF OwnInstall
<1>7. CASE BindLaunchedPrimer
  BY <1>1, <1>2, <1>7 DEF BindLaunchedPrimer
<1>8. CASE AuthorizePrimer
  BY <1>1, <1>2, <1>8 DEF AuthorizePrimer
<1>9. CASE StoppedPrimer
  BY <1>1, <1>2, <1>9 DEF StoppedPrimer
<1>10. CASE Admitted
  BY <1>1, <1>2, <1>10 DEF Admitted
<1>11. CASE AmbiguousInstall
  BY <1>1, <1>2, <1>11 DEF AmbiguousInstall, AuthorizeCleanupOnly, VerifyAbsence, AppInventory, ProcessInventory
<1>12. CASE AuthorizeTerminate
  BY <1>1, <1>2, <1>12 DEF AuthorizeTerminate, TermFails
<1>13. CASE Terminated
  BY <1>1, <1>2, <1>13 DEF Terminated, TermFails
<1>14. CASE Verify
  <2>1. PICK u \in BOOLEAN : /\ lease' = [[lease EXCEPT !.unclean = u] EXCEPT !.pc = "release"]
                             /\ ~u => Bare
    BY <1>14 DEF Verify, VerifyAbsence, AppInventory, ProcessInventory
  <2> QED BY <1>1, <1>2, <1>14, <2>1 DEF Verify
<1>15. CASE Release
  BY <1>1, <1>2, <1>15 DEF Release
<1> QED BY <1>3, <1>4, <1>5, <1>6, <1>7, <1>8, <1>9, <1>10, <1>11, <1>12, <1>13, <1>14, <1>15

\* The phone changes, but neither its app nor, without an app, its processes.
Keeps ==
    /\ Shaped(phone', PhoneFields) /\ phone'.app = phone.app /\ phone'.wrong = phone.wrong
    /\ Bare => Bare'

(* What the commands other than install and uninstall do to a phone.       *)
LEMMA EffectsKeep ==
    ASSUME PhoneTyped,
           \/ phone' = phone
           \/ phone' = CopiesSession
           \/ CanLaunch /\ phone' \in {LaunchesPrimer, LaunchesServer, Started}
           \/ \E p : phone' = Terminates(p) \/ phone' = [phone EXCEPT !.result = p]
    PROVE  Keeps
<1> USE DEF PhoneTyped, Keeps, Bare, Shaped, PhoneFields
<1>1. CASE phone' = phone \/ phone' = CopiesSession BY <1>1 DEF CopiesSession
<1>2. CASE CanLaunch /\ phone' \in {LaunchesPrimer, LaunchesServer, Started}
  BY <1>2 DEF CanLaunch, LaunchesPrimer, LaunchesServer, Started
<1>3. CASE \E p : phone' = Terminates(p) \/ phone' = [phone EXCEPT !.result = p]
  BY <1>3 DEF Terminates
<1> QED BY <1>1, <1>2, <1>3

(* A phone that keeps its app stays ours or bare.                          *)
LEMMA KeepsIs ==
    ASSUME PhoneTyped, Keeps, UNCHANGED tx
    PROVE  PhoneTyped' /\ (Ours => Ours') /\ (Bare => Bare') /\ (phone.app # tx => phone'.app # tx')
BY DEF PhoneTyped, Keeps, Ours

(* Such a change of the phone does not disturb the lease.                  *)
LEMMA KeepsLease ==
    ASSUME PhoneTyped, LeaseInv, Keeps, UNCHANGED <<tx, lease, tool>>
    PROVE  PhoneTyped' /\ LeaseInv'
<1>1. PhoneTyped' /\ (Ours => Ours') /\ (Bare => Bare') /\ (phone.app # tx => phone'.app # tx')
  BY KeepsIs
<1>2. Left => Left' BY <1>1 DEF Left
<1> QED BY <1>1, <1>2 DEF LeaseInv, Keeps

(* The commands of the admission and of the cleanup.                       *)
LEMMA LeaseCommands ==
    ASSUME LeaseInv, PhoneTyped, tool = "case", UNCHANGED tool,
           LaunchPrimer \/ TerminatePrimer \/ CopySession \/ LaunchPacketLan \/ Terminate
    PROVE  LeaseInv' /\ PhoneTyped'
<1>1. UNCHANGED tx BY DEF LaunchPrimer, TerminatePrimer, CopySession, LaunchPacketLan, Terminate, AdmitCommand
<1>2. Keeps
  BY EffectsKeep DEF LaunchPrimer, TerminatePrimer, CopySession, LaunchPacketLan, Terminate, AdmitCommand, Devicectl
<1>3. PhoneTyped' /\ (Ours => Ours') /\ (Bare => Bare') /\ (phone.app # tx => phone'.app # tx')
  BY <1>1, <1>2, KeepsIs
<1>4. /\ lease.pc \in Late \ {"intent"}
      /\ \E r, l : /\ Shaped(r, LeaseFields) /\ lease' = [r EXCEPT !.pc = l] /\ l \in Late \ {"intent"}
                   /\ r.st = lease.st /\ r.preflight = lease.preflight /\ r.intent = lease.intent
                   /\ r.install = lease.install
  <2> USE DEF LeaseGo, LeaseAt, AdmitCommand, Abort, AbortPc, Late
  <2> DEFINE R(r, l) ==
        /\ Shaped(r, LeaseFields) /\ lease' = [r EXCEPT !.pc = l] /\ l \in Late \ {"intent"}
        /\ r.st = lease.st /\ r.preflight = lease.preflight /\ r.intent = lease.intent
        /\ r.install = lease.install
  <2>0. lease.pc \in Late \ {"intent"}
    BY DEF LaunchPrimer, TerminatePrimer, CopySession, LaunchPacketLan, Terminate
  <2>1. lease.intent /\ lease.preflight BY <2>0 DEF LeaseInv
  <2>2. CASE \E v, l : lease' = [[lease EXCEPT !.launched = v] EXCEPT !.pc = l] /\ l \in Late \ {"intent"}
    <3>1. PICK v, l : lease' = [[lease EXCEPT !.launched = v] EXCEPT !.pc = l] /\ l \in Late \ {"intent"} BY <2>2
    <3>2. R([lease EXCEPT !.launched = v], l) BY <3>1 DEF LeaseInv, Shaped, LeaseFields
    <3> QED BY <2>0, <3>2
  <2>3. CASE \E l : lease' = [lease EXCEPT !.pc = l] /\ l \in Late \ {"intent"}
    <3>1. PICK l : lease' = [lease EXCEPT !.pc = l] /\ l \in Late \ {"intent"} BY <2>3
    <3>2. R(lease, l) BY <3>1 DEF LeaseInv
    <3> QED BY <2>0, <3>2
  <2>4. CASE \E l : lease' = [[lease EXCEPT !.failed = TRUE] EXCEPT !.pc = l] /\ l \in Late \ {"intent"}
    <3>1. PICK l : lease' = [[lease EXCEPT !.failed = TRUE] EXCEPT !.pc = l] /\ l \in Late \ {"intent"} BY <2>4
    <3>2. R([lease EXCEPT !.failed = TRUE], l) BY <3>1 DEF LeaseInv, Shaped, LeaseFields
    <3> QED BY <2>0, <3>2
  <2>5. CASE \E l : lease' = [[lease EXCEPT !.termError = TRUE] EXCEPT !.pc = l] /\ l \in Late \ {"intent"}
    <3>1. PICK l : lease' = [[lease EXCEPT !.termError = TRUE] EXCEPT !.pc = l] /\ l \in Late \ {"intent"} BY <2>5
    <3>2. R([lease EXCEPT !.termError = TRUE], l) BY <3>1 DEF LeaseInv, Shaped, LeaseFields
    <3> QED BY <2>0, <3>2
  <2>6. AbortPc(lease) \in Late \ {"intent"} BY <2>1
  <2>7. CASE LaunchPrimer \/ LaunchPacketLan
    <3>1. \/ \E v : \E l \in {"settle", "bind"} : lease' = [[lease EXCEPT !.launched = v] EXCEPT !.pc = l]
          \/ lease' = [[lease EXCEPT !.failed = TRUE] EXCEPT !.pc = AbortPc(lease)]
      <4>1. CASE LaunchPrimer BY <4>1 DEF LaunchPrimer
      <4>2. CASE LaunchPacketLan BY <4>2 DEF LaunchPacketLan
      <4> QED BY <2>7, <4>1, <4>2
    <3>2. {"settle", "bind"} \subseteq Late \ {"intent"} OBVIOUS
    <3> HIDE DEF Late, AbortPc
    <3> QED BY <2>2, <2>4, <2>6, <3>1, <3>2
  <2>8. CASE CopySession
    <3>1. \/ lease' = [lease EXCEPT !.pc = "launch"]
          \/ lease' = [[lease EXCEPT !.failed = TRUE] EXCEPT !.pc = AbortPc(lease)]
      BY <2>8 DEF CopySession
    <3>2. "launch" \in Late \ {"intent"} OBVIOUS
    <3> HIDE DEF Late, AbortPc
    <3> QED BY <2>3, <2>4, <2>6, <3>1, <3>2
  <2>9. CASE TerminatePrimer
    <3>1. \/ lease' = [lease EXCEPT !.pc = "stopped"]
          \/ lease' = [[lease EXCEPT !.failed = TRUE] EXCEPT !.pc = AbortPc(lease)]
      BY <2>9 DEF TerminatePrimer
    <3>2. "stopped" \in Late \ {"intent"} OBVIOUS
    <3> HIDE DEF Late, AbortPc
    <3> QED BY <2>3, <2>4, <2>6, <3>1, <3>2
  <2>11. CASE Terminate BY <2>3, <2>5, <2>11 DEF Terminate, TermFails
  <2> QED BY <2>7, <2>8, <2>9, <2>11
<1>5. PICK r, l : /\ Shaped(r, LeaseFields) /\ lease' = [r EXCEPT !.pc = l] /\ l \in Late \ {"intent"}
                  /\ r.st = lease.st /\ r.preflight = lease.preflight /\ r.intent = lease.intent
                  /\ r.install = lease.install
  BY <1>4
<1>6. /\ Shaped(lease', LeaseFields) /\ lease'.pc = l /\ lease'.st = lease.st
      /\ lease'.preflight = lease.preflight /\ lease'.intent = lease.intent
  BY <1>5 DEF Shaped, LeaseFields
<1>7. l \notin {"idle", "device", "preflight", "release", "intent"} /\ lease.pc # "idle"
      /\ lease.st \in {"admitting", "finishing"}
  BY <1>4, <1>5 DEF Late, LeaseInv
<1>8. lease.preflight /\ lease.intent /\ Ours BY <1>4 DEF LeaseInv
<1> QED BY <1>1, <1>3, <1>4, <1>5, <1>6, <1>7, <1>8 DEF LeaseInv

(* The app is installed over none and removed when it is ours.             *)
LEMMA LeaseAppChanges ==
    ASSUME LeaseInv, PhoneTyped, tool = "case", UNCHANGED tool, Install \/ Uninstall
    PROVE  LeaseInv' /\ PhoneTyped'
<1> USE DEF LeaseGo, LeaseAt
<1>1. CASE Install
  <2>1. lease.pc = "install" /\ UNCHANGED tx /\ (phone' = phone \/ phone' = Installs)
        /\ \/ lease' = [lease EXCEPT !.pc = "installed"]
           \/ lease' = [[lease EXCEPT !.failed = TRUE] EXCEPT !.pc = AbortPc(lease)]
    BY <1>1 DEF Install, AdmitCommand, Devicectl, Abort, AbortPc
  <2>2. lease.preflight /\ lease.intent /\ Ours BY <2>1 DEF LeaseInv, Late
  <2>3. AbortPc(lease) \in {"ambiguous", "terminate"} BY <2>2 DEF AbortPc
  <2>4. PhoneTyped' /\ Ours'
    <3>1. CASE phone' = phone BY <2>1, <2>2, <3>1 DEF PhoneTyped, Ours
    <3>2. CASE phone' = Installs
      <4>1. Shaped(phone', PhoneFields) /\ phone'.app = tx /\ phone'.wrong = phone.wrong
        BY <3>2 DEF PhoneTyped, Installs, Shaped, PhoneFields
      <4>2. tx \in 0..tx BY DEF PhoneTyped
      <4> QED BY <2>1, <2>2, <4>1, <4>2 DEF PhoneTyped, Ours
    <3> QED BY <2>1, <3>1, <3>2
  <2> QED BY <2>1, <2>2, <2>3, <2>4 DEF LeaseInv, Shaped, LeaseFields, Late, Held, Left, Bare
<1>2. CASE Uninstall
  <2>1. PICK lingers \in BOOLEAN :
        /\ lease.pc = "uninstall" /\ UNCHANGED tx /\ (phone' = phone \/ phone' = Uninstalls(lingers))
        /\ \/ lease' = [lease EXCEPT !.pc = "verify"]
           \/ lease' = [[lease EXCEPT !.unclean = TRUE] EXCEPT !.pc = "release"]
    BY <1>2 DEF Uninstall, Devicectl
  <2>2. lease.preflight /\ lease.intent /\ Ours BY <2>1 DEF LeaseInv, Late
  <2>3. PhoneTyped' /\ Ours'
    <3>1. CASE phone' = phone BY <2>1, <2>2, <3>1 DEF PhoneTyped, Ours
    <3>2. CASE phone' = Uninstalls(lingers)
      <4>1. Shaped(phone', PhoneFields) /\ phone'.app = NoApp /\ phone'.wrong = phone.wrong
        BY <3>2 DEF PhoneTyped, Uninstalls, Shaped, PhoneFields
      <4> QED BY <2>1, <2>2, <4>1 DEF PhoneTyped, Ours, NoApp
    <3> QED BY <2>1, <3>1, <3>2
  <2> QED BY <2>1, <2>2, <2>3 DEF LeaseInv, Shaped, LeaseFields, Late, Held, Left, Bare
<1> QED BY <1>1, <1>2

(* A new transaction has a number that no installed app has.               *)
LEMMA AcquireStep ==
    ASSUME LeaseInv, PhoneTyped, tool = "case", UNCHANGED tool, tx < MaxTransactions, AcquireLock(tx + 1)
    PROVE  LeaseInv' /\ PhoneTyped'
<1>1. tx' = tx + 1 /\ UNCHANGED phone
      /\ lease' = [NoLease EXCEPT !.st = "admitting", !.pc = "device", !.lock = TRUE]
  BY DEF AcquireLock
<1>2. tx \in Nat /\ MaxTransactions \in Nat /\ tx + 1 # 0 /\ tx + 1 \in 0..MaxTransactions
  BY PeerAssumption DEF PhoneTyped
<1>3. phone.app # tx + 1 /\ (phone.app \in 0..(tx + 1) \/ phone.app = Preexisting)
  BY <1>2 DEF PhoneTyped, Preexisting
<1>4. PhoneTyped' BY <1>1, <1>2, <1>3 DEF PhoneTyped, Preexisting
<1>5. /\ Shaped(lease', LeaseFields) /\ lease'.st = "admitting" /\ lease'.pc = "device"
      /\ lease'.preflight = FALSE /\ lease'.intent = FALSE /\ lease'.install = FALSE
  BY <1>1 DEF NoLease, Shaped, LeaseFields
<1> QED BY <1>1, <1>2, <1>3, <1>4, <1>5 DEF LeaseInv, Late, Held, NoApp

(* The calls on an admitted lease, and its loss.                           *)
LEMMA LeaseCalls ==
    ASSUME LeaseInv, PhoneTyped, tool = "case", UNCHANGED tool,
           \/ RevalidateBefore \/ \E n : RevalidateAfter(n) \/ Finish(n)
           \/ LeaseLost /\ UNCHANGED <<phone, tx>>
    PROVE  LeaseInv' /\ PhoneTyped'
<1>1. UNCHANGED <<phone, tx>> BY DEF RevalidateBefore, RevalidateAfter, Finish, Reads, ReadFails, peerVars
<1>2. PhoneTyped' BY <1>1 DEF PhoneTyped
<1>3. CASE LeaseLost
  <2>1. lease' = NoLease BY <1>3 DEF LeaseLost
  <2> QED BY <1>1, <1>2, <2>1 DEF LeaseInv, NoLease, Shaped, LeaseFields, Late, Held
<1>4. CASE lease' = lease BY <1>1, <1>2, <1>4 DEF LeaseInv, Left, Bare, Ours
<1>5. CASE RevalidateBefore \/ \E n : RevalidateAfter(n)
  <2>1. CASE lease' # lease
    <3>1. /\ lease.st \in {"admitted", "capture-ready"}
          /\ \/ lease' = [lease EXCEPT !.st = "capture-ready", !.before = lease.packet]
             \/ lease' = [lease EXCEPT !.st = "capture-validated", !.after = lease.packet]
             \/ lease' = [lease EXCEPT !.st = "poisoned"]
      BY <1>5, <2>1 DEF RevalidateBefore, RevalidateAfter
    <3> QED BY <1>1, <1>2, <3>1 DEF LeaseInv, Left, Bare, Ours, Shaped, LeaseFields, Late, Held
  <2> QED BY <1>4, <2>1
<1>6. CASE \E n : Finish(n)
  <2>0. PICK n : Finish(n) BY <1>6
  <2>1. /\ lease.st \in {"admitted", "capture-ready", "capture-validated", "poisoned"}
        /\ lease' = [[lease EXCEPT !.st = "finishing", !.outcome = n] EXCEPT !.pc = "terminate"]
    BY <2>0 DEF Finish, LeaseGo
  <2> QED BY <1>1, <1>2, <2>1 DEF LeaseInv, Left, Bare, Ours, Shaped, LeaseFields, Late, Held
<1> QED BY <1>3, <1>5, <1>6

-----------------------------------------------------------------------------
(* The transport lab.                                                      *)

LabFields == {"st", "ev", "pc", "open", "pending", "first", "primer", "server", "launched", "guard", "legacy"}
LabInv ==
    /\ Shaped(lab, LabFields) /\ (lab.open => lab.st # "none")
    /\ lab.st # "none" => Ours /\ tool = "lab"

\* A step of the lab's runner that keeps the journal's state open or begun.
LabKeeps ==
    /\ Shaped(lab', LabFields) /\ lab.st # "none" /\ lab'.st # "none"

(* An event of the lab journal keeps its account.                          *)
LEMMA RecordKeeps ==
    ASSUME LabInv, NEW s, NEW g, NEW pc, NEW rec, Shaped(rec, LabFields), s # "none", Record(s, g, pc, rec)
    PROVE  LabKeeps /\ UNCHANGED <<phone, tx>>
BY DEF LabInv, Record, LabKeeps, Shaped, LabFields

(* A step to the next label keeps the account.                             *)
LEMMA LabGoKeeps ==
    ASSUME LabInv, lab.open, NEW rec, NEW pc, Shaped(rec, LabFields), rec.st = lab.st, LabGo(rec, pc)
    PROVE  LabKeeps
BY DEF LabInv, LabGo, LabKeeps, Shaped, LabFields

(* An intent keeps the account.                                            *)
LEMMA IntentKeeps ==
    ASSUME LabInv, NEW from, NEW s, NEW g, NEW pc, s # "none", Intent(from, s, g, pc)
    PROVE  LabKeeps /\ UNCHANGED <<phone, tx>>
BY RecordKeeps DEF Intent, LabInv

(* An event that a proof guards keeps the account.                         *)
LEMMA ProofKeeps ==
    ASSUME LabInv, NEW pc, NEW holds, NEW s, NEW g, NEW rec, Shaped(rec, LabFields), s # "none", Proof(pc, holds, s, g, rec)
    PROVE  LabKeeps /\ UNCHANGED <<phone, tx>>
<1>1. lab.open BY DEF Proof, LabAt
<1>2. CASE holds BY <1>2, RecordKeeps DEF Proof
<1>3. CASE ~holds BY <1>1, <1>3, LabGoKeeps DEF Proof, peerVars, LabInv
<1> QED BY <1>2, <1>3

(* A command of the lab keeps the account.                                 *)
LEMMA LabCommandKeeps ==
    ASSUME LabInv, NEW pc, NEW effect, NEW good, NEW next, Shaped(good, LabFields), good.st = lab.st,
           LabCommand(pc, effect, good, next)
    PROVE  LabKeeps /\ UNCHANGED tx /\ (phone' = phone \/ phone' = effect)
<1>1. lab.open BY DEF LabCommand, LabAt
<1>2. UNCHANGED tx /\ (phone' = phone \/ phone' = effect) BY DEF LabCommand, Devicectl
<1>3. LabGo(good, next) \/ LabGo(lab, "recovering") BY DEF LabCommand
<1> QED BY <1>1, <1>2, <1>3, LabGoKeeps DEF LabInv

(* The steps that only write the journal.                                  *)
LEMMA LabRecords ==
    ASSUME LabInv,
           \/ RecordInstallIntent \/ RecordInstalled \/ RecordPrimerLaunchIntent \/ RecordPrimerRetryAuthorized
           \/ RecordPrimerRetryLaunchIntent \/ RecordPrimerLaunched \/ RecordPrimerTerminateIntent
           \/ RecordPrimerTerminated \/ RecordPrimerStopped \/ RecordSessionCopyIntent
           \/ RecordSessionCopied \/ RecordTransportLaunchIntent \/ RecordTransportLaunched
           \/ RecordResultReceived \/ RecordTerminateIntent \/ RecordTerminated
           \/ RecordUninstallIntent \/ RecordCleanupOnlyUninstallIntent \/ RecordUninstalled
           \/ RecordAbsenceVerified \/ RecordComplete
    PROVE  LabKeeps /\ UNCHANGED <<phone, tx>>
<1>1. /\ Shaped(lab, LabFields) /\ Shaped([lab EXCEPT !.first = lab.launched], LabFields)
      /\ Shaped([lab EXCEPT !.primer = lab.launched], LabFields)
      /\ Shaped([lab EXCEPT !.server = lab.launched], LabFields)
  BY DEF LabInv, Shaped, LabFields
<1>2. CASE RecordInstallIntent BY <1>1, <1>2, IntentKeeps DEF RecordInstallIntent
<1>3. CASE RecordInstalled BY <1>1, <1>3, ProofKeeps DEF RecordInstalled
<1>4. CASE RecordPrimerLaunchIntent BY <1>1, <1>4, IntentKeeps DEF RecordPrimerLaunchIntent
<1>5. CASE RecordPrimerRetryAuthorized BY <1>1, <1>5, RecordKeeps DEF RecordPrimerRetryAuthorized
<1>6. CASE RecordPrimerRetryLaunchIntent BY <1>1, <1>6, IntentKeeps DEF RecordPrimerRetryLaunchIntent
<1>7. CASE RecordPrimerLaunched BY <1>1, <1>7, ProofKeeps DEF RecordPrimerLaunched
<1>8. CASE RecordPrimerTerminateIntent BY <1>1, <1>8, IntentKeeps DEF RecordPrimerTerminateIntent
<1>9. CASE RecordPrimerTerminated BY <1>1, <1>9, ProofKeeps DEF RecordPrimerTerminated
<1>10. CASE RecordPrimerStopped BY <1>1, <1>10, IntentKeeps DEF RecordPrimerStopped
<1>11. CASE RecordSessionCopyIntent BY <1>1, <1>11, IntentKeeps DEF RecordSessionCopyIntent
<1>12. CASE RecordSessionCopied BY <1>1, <1>12, ProofKeeps DEF RecordSessionCopied
<1>13. CASE RecordTransportLaunchIntent BY <1>1, <1>13, IntentKeeps DEF RecordTransportLaunchIntent
<1>14. CASE RecordTransportLaunched BY <1>1, <1>14, ProofKeeps DEF RecordTransportLaunched
<1>15. CASE RecordResultReceived BY <1>1, <1>15, IntentKeeps DEF RecordResultReceived
<1>16. CASE RecordTerminateIntent BY <1>1, <1>16, IntentKeeps DEF RecordTerminateIntent
<1>17. CASE RecordTerminated BY <1>1, <1>17, ProofKeeps DEF RecordTerminated
<1>18. CASE RecordUninstallIntent BY <1>1, <1>18, RecordKeeps DEF RecordUninstallIntent
<1>19. CASE RecordCleanupOnlyUninstallIntent BY <1>1, <1>19, RecordKeeps DEF RecordCleanupOnlyUninstallIntent
<1>20. CASE RecordUninstalled BY <1>1, <1>20, ProofKeeps DEF RecordUninstalled
<1>21. CASE RecordAbsenceVerified BY <1>1, <1>21, RecordKeeps DEF RecordAbsenceVerified
<1>22. CASE RecordComplete BY <1>1, <1>22, RecordKeeps DEF RecordComplete
<1> QED BY <1>2, <1>3, <1>4, <1>5, <1>6, <1>7, <1>8, <1>9, <1>10, <1>11, <1>12, <1>13, <1>14, <1>15,
           <1>16, <1>17, <1>18, <1>19, <1>20, <1>21, <1>22

(* The commands of the lab that leave the app alone.                       *)
LEMMA LabCommands ==
    ASSUME LabInv, PhoneTyped,
           LabLaunchPrimer \/ LabTerminatePrimer \/ LabCopySession \/ LabLaunchTransport \/ LabTerminate
    PROVE  LabKeeps /\ UNCHANGED tx /\ Keeps
<1>1. /\ Shaped(lab, LabFields) /\ Shaped([lab EXCEPT !.launched = LaunchedPid], LabFields)
      /\ [lab EXCEPT !.launched = LaunchedPid].st = lab.st
  BY DEF LabInv, Shaped, LabFields
<1>2. CASE LabLaunchPrimer BY <1>1, <1>2, LabCommandKeeps, EffectsKeep DEF LabLaunchPrimer
<1>3. CASE LabTerminatePrimer BY <1>1, <1>3, LabCommandKeeps, EffectsKeep DEF LabTerminatePrimer
<1>4. CASE LabCopySession BY <1>1, <1>4, LabCommandKeeps, EffectsKeep DEF LabCopySession
<1>5. CASE LabLaunchTransport BY <1>1, <1>5, LabCommandKeeps, EffectsKeep DEF LabLaunchTransport
<1>6. CASE LabTerminate BY <1>1, <1>6, LabCommandKeeps, EffectsKeep DEF LabTerminate
<1> QED BY <1>2, <1>3, <1>4, <1>5, <1>6

(* Every step of the lab keeps its journal's account of the phone.         *)
LEMMA LabSteps ==
    ASSUME LabInv, PhoneTyped, LeaseInv, tool = "lab", LabStep, UNCHANGED <<lease, tool>>
    PROVE  LabInv' /\ PhoneTyped' /\ LeaseInv'
<1>0. lease = NoLease /\ lease.st = "none" /\ ~lease.preflight /\ lease.pc = "idle"
  BY DEF LeaseInv, NoLease
<1>1. LeaseInv' BY <1>0 DEF LeaseInv, Late, Held
<1>2. CASE Create
  <2>1. /\ tx = 0 /\ tx' = 1 /\ UNCHANGED phone /\ Admissible /\ phone.app = NoApp
        /\ lab' = [lab EXCEPT !.st = "prepared", !.open = TRUE, !.guard = LegacySnapshot]
    BY <1>2 DEF Create, BuildPreflight, AppInventory
  <2>2. phone.wrong = "none" BY <2>1, AdmissibleIs
  <2>3. PhoneTyped' BY <2>1, PeerAssumption DEF PhoneTyped, NoApp
  <2>4. Ours' BY <2>1, <2>2 DEF Ours
  <2>5. Shaped(lab', LabFields) /\ lab'.st = "prepared" BY <2>1 DEF LabInv, Shaped, LabFields
  <2> QED BY <1>1, <2>3, <2>4, <2>5 DEF LabInv
<1>3. ASSUME LabKeeps, UNCHANGED tx, Keeps PROVE LabInv' /\ PhoneTyped'
  <2>1. Ours /\ tool = "lab" BY <1>3 DEF LabKeeps, LabInv
  <2>2. PhoneTyped' /\ Ours' BY <1>3, <2>1, KeepsIs
  <2> QED BY <1>3, <2>1, <2>2 DEF LabInv, LabKeeps
<1>4. UNCHANGED phone => Keeps BY EffectsKeep
<1>5. CASE Open
  <2>1. lab.st # "none" /\ UNCHANGED <<phone, tx>> /\ lab' = [lab EXCEPT !.open = TRUE, !.pc = "recovering"]
    BY <1>5 DEF Open, Replays, peerVars
  <2>2. LabKeeps BY <2>1 DEF LabInv, LabKeeps, Shaped, LabFields
  <2> QED BY <1>1, <1>3, <1>4, <2>1, <2>2
<1>6. CASE \/ RecordInstallIntent \/ RecordInstalled \/ RecordPrimerLaunchIntent \/ RecordPrimerRetryAuthorized
           \/ RecordPrimerRetryLaunchIntent \/ RecordPrimerLaunched \/ RecordPrimerTerminateIntent
           \/ RecordPrimerTerminated \/ RecordPrimerStopped \/ RecordSessionCopyIntent
           \/ RecordSessionCopied \/ RecordTransportLaunchIntent \/ RecordTransportLaunched
           \/ RecordResultReceived \/ RecordTerminateIntent \/ RecordTerminated
           \/ RecordUninstallIntent \/ RecordCleanupOnlyUninstallIntent \/ RecordUninstalled
           \/ RecordAbsenceVerified \/ RecordComplete
  <2>1. LabKeeps /\ UNCHANGED <<phone, tx>> BY <1>6, LabRecords
  <2> QED BY <1>1, <1>3, <1>4, <2>1
<1>7. CASE LabLaunchPrimer \/ LabTerminatePrimer \/ LabCopySession \/ LabLaunchTransport \/ LabTerminate
  BY <1>1, <1>3, <1>7, LabCommands
<1>8. CASE PeerServes /\ UNCHANGED lab
  <2>1. Keeps /\ UNCHANGED tx BY <1>8, EffectsKeep DEF PeerServes
  <2>2. PhoneTyped' /\ (Ours => Ours') BY <2>1, KeepsIs
  <2> QED BY <1>1, <1>8, <2>2 DEF LabInv
<1>9. CASE LabInstall
  <2>1. Shaped(lab, LabFields) BY DEF LabInv
  <2>2. LabKeeps /\ UNCHANGED tx /\ (phone' = phone \/ phone' = Installs)
    BY <1>9, <2>1, LabCommandKeeps DEF LabInstall
  <2>3. CASE phone' = phone BY <1>1, <1>3, <1>4, <2>2, <2>3
  <2>4. CASE phone' = Installs
    <3>1. Shaped(phone', PhoneFields) /\ phone'.app = tx /\ phone'.wrong = phone.wrong
      BY <2>4 DEF PhoneTyped, Installs, Shaped, PhoneFields
    <3>2. tx \in 0..tx BY DEF PhoneTyped
    <3>3. PhoneTyped' BY <2>2, <3>1, <3>2 DEF PhoneTyped
    <3>4. Ours' BY <2>2, <3>1 DEF Ours, LabInv, LabKeeps
    <3> QED BY <1>1, <2>2, <3>3, <3>4 DEF LabInv, LabKeeps
  <2> QED BY <2>2, <2>3, <2>4
<1>10. CASE LabUninstall
  <2>1. PICK lingers \in BOOLEAN :
          /\ lab.open /\ UNCHANGED tx /\ (phone' = phone \/ phone' = Uninstalls(lingers))
          /\ LabGo(lab, "uninstalled") \/ LabGo(lab, "recovering")
    BY <1>10 DEF LabUninstall, Devicectl
  <2>2. LabKeeps BY <2>1, LabGoKeeps DEF LabInv
  <2>3. CASE phone' = phone BY <1>1, <1>3, <1>4, <2>1, <2>2, <2>3
  <2>4. CASE phone' = Uninstalls(lingers)
    <3>1. Shaped(phone', PhoneFields) /\ phone'.app = NoApp /\ phone'.wrong = phone.wrong
      BY <2>4 DEF PhoneTyped, Uninstalls, Shaped, PhoneFields
    <3>2. PhoneTyped' BY <2>1, <3>1 DEF PhoneTyped, NoApp
    <3>3. Ours' BY <2>1, <2>2, <3>1 DEF Ours, LabInv, LabKeeps
    <3> QED BY <1>1, <2>2, <3>2, <3>3 DEF LabInv, LabKeeps
  <2> QED BY <2>1, <2>3, <2>4
<1>11. CASE RunnerDies
  <2>1. lab.open /\ UNCHANGED <<phone, tx>> /\ lab' = [lab EXCEPT !.open = FALSE, !.pc = "idle"]
    BY <1>11 DEF RunnerDies
  <2>2. LabKeeps BY <2>1 DEF LabInv, LabKeeps, Shaped, LabFields
  <2> QED BY <1>1, <1>3, <1>4, <2>1, <2>2
<1>12. CASE LegacyChanges
  <2>1. PICK part \in GuardParts : /\ lab.st # "none" /\ UNCHANGED <<phone, tx>>
                                   /\ lab' = [lab EXCEPT !.legacy[part] = TRUE]
    BY <1>12 DEF LegacyChanges
  <2>2. LabKeeps BY <2>1 DEF LabInv, LabKeeps, Shaped, LabFields
  <2> QED BY <1>1, <1>3, <1>4, <2>1, <2>2
<1> QED
  BY <1>1, <1>2, <1>5, <1>6, <1>7, <1>8, <1>9, <1>10, <1>11, <1>12 DEF LabStep

-----------------------------------------------------------------------------
(* The collector, as far as phone, lease and Host are concerned.           *)

CollectorQuiet == UNCHANGED <<phone, tx, lease>>
(* What a step of the collector can do to phone, lease and Host.           *)
LEMMA CollectorTouches ==
    ASSUME CollectorStep \/ NextCase \/ CollectorDies
    PROVE  /\ \/ CollectorQuiet
              \/ tx < MaxTransactions /\ AcquireLock(tx + 1)
              \/ RevalidateBefore \/ \E n : RevalidateAfter(n) \/ Finish(n)
              \/ LeaseLost /\ UNCHANGED <<phone, tx>>
              \/ UNCHANGED <<tx, lease>> /\ \E v : phone' = [phone EXCEPT !.result = v]
           /\ UNCHANGED host \/ host' = NewHost
<1> USE DEF CollectorQuiet, NoFrames, OnlyCase, Answer, StageRaises, StageCompletes, StageStep, EndTransaction,
            Raise, Receive, Taken, hostVars, peerVars
<1>1. CASE SourceRefused \/ Request \/ AwaitFirst BY <1>1 DEF SourceRefused, Request, AwaitFirst
<1>2. CASE AdmitPeer BY <1>2 DEF AdmitPeer
<1>3. CASE PeerAdmitted \/ PrepareRemoteAccess BY <1>3 DEF PeerAdmitted, PrepareRemoteAccess
<1>4. CASE StartCapture \/ CaptureDies \/ StagesSent BY <1>4 DEF StartCapture, CaptureDies, StagesSent
<1>5. CASE RevalidatePeerBefore BY <1>5 DEF RevalidatePeerBefore
<1>6. CASE RunStage BY <1>6 DEF RunStage
<1>7. CASE AwaitProgress \/ AwaitTerminal \/ AwaitFinal BY <1>7 DEF AwaitProgress, AwaitTerminal, AwaitFinal
<1>8. CASE ObserveProduct \/ FinishCapture \/ FinishAndArchive BY <1>8 DEF ObserveProduct, FinishCapture, FinishAndArchive
<1>9. CASE RevalidatePeerAfter BY <1>9 DEF RevalidatePeerAfter
<1>10. CASE ClosePeer \/ AbortLease BY <1>10 DEF ClosePeer, AbortLease
<1>11. CASE PeerClosed \/ CleanupKeys \/ Finalize \/ ValidateEvidence
  BY <1>11 DEF PeerClosed, CleanupKeys, Finalize, ValidateEvidence
<1>12. CASE CancelCapture BY <1>12 DEF CancelCapture
<1>13. CASE CleanupEnds BY <1>13 DEF CleanupEnds
<1>14. CASE NextCase \/ CollectorDies BY <1>14 DEF NextCase, CollectorDies
<1> QED BY <1>1, <1>2, <1>3, <1>4, <1>5, <1>6, <1>7, <1>8, <1>9, <1>10, <1>11, <1>12, <1>13, <1>14 DEF CollectorStep

-----------------------------------------------------------------------------
(* The theorems about phone and Host.                                      *)

PhoneInv == tool \in {"case", "lab"} /\ PhoneTyped /\ LeaseInv /\ LabInv

(* The initial states satisfy the invariants.                              *)
LEMMA PhoneInit == Init => PhoneInv /\ HostInv
<1> SUFFICES ASSUME Init PROVE PhoneInv /\ HostInv OBVIOUS
<1>1. PICK app \in {NoApp, Preexisting}, wrong \in Checks \cup {"none"} :
        phone = [app |-> app, procs |-> {}, next |-> 1, primer |-> NoPid, session |-> FALSE,
                 ready |-> NoPid, result |-> NoPid, wrong |-> wrong]
  BY DEF Init, PeerInit
<1>2. tx = 0 /\ lease = NoLease /\ host = NewHost /\ lab = NewLab /\ tool \in {"case", "lab"}
  BY DEF Init, PeerInit, LeaseInit, HostInit, LabInit
<1>3. PhoneTyped
  <2>1. Shaped(phone, PhoneFields) /\ phone.wrong = wrong /\ phone.app = app
    BY <1>1 DEF Shaped, PhoneFields
  <2>2. tx \in 0..MaxTransactions /\ NoApp \in 0..tx BY <1>2, PeerAssumption DEF NoApp
  <2> QED BY <2>1, <2>2 DEF PhoneTyped
<1>4. LeaseInv BY <1>2 DEF LeaseInv, NoLease, Shaped, LeaseFields, Late, Held
<1>5. LabInv BY <1>2 DEF LabInv, NewLab, Shaped, LabFields
<1>6. HostInv BY <1>2, NewHostIs DEF HostInv, RestoredOrQuarantined
<1> QED BY <1>2, <1>3, <1>4, <1>5, <1>6 DEF PhoneInv

(* The five kinds of steps, and none, keep the invariants.                 *)
LEMMA PhoneStep == PhoneInv /\ HostInv /\ [Next]_vars => PhoneInv' /\ HostInv'
<1> SUFFICES ASSUME PhoneInv, HostInv, [Next]_vars PROVE PhoneInv' /\ HostInv' OBVIOUS
<1> USE DEF PhoneInv
<1>1. UNCHANGED tool BY DEF Next, CaseOnly, vars
<1>2. UNCHANGED host => HostInv' BY DEF HostInv, RestoredOrQuarantined
<1>3. ASSUME tool = "case", UNCHANGED lab, PhoneTyped', LeaseInv' PROVE PhoneInv'
  <2>1. lab.st = "none" BY <1>3 DEF LabInv
  <2> QED BY <1>1, <1>3, <2>1 DEF LabInv
<1>4. CASE CaseOnly /\ LeaseStep /\ UNCHANGED <<hostVars, caseVars>>
  <2>1. LeaseInv' /\ PhoneTyped'
    BY <1>4, LeaseReads, LeaseCommands, LeaseAppChanges DEF CaseOnly, LeaseStep
  <2> QED BY <1>2, <1>3, <1>4, <2>1 DEF CaseOnly, hostVars
<1>5. CASE CaseOnly /\ HostStep /\ UNCHANGED <<phone, tx, lease, caseVars>>
  <2>1. HostInv' BY <1>5, HostSteps
  <2>2. Keeps BY <1>5, EffectsKeep
  <2>3. LeaseInv' /\ PhoneTyped' BY <1>5, <2>2, KeepsLease DEF CaseOnly
  <2> QED BY <1>3, <1>5, <2>1, <2>3 DEF CaseOnly
<1>6. CASE CaseOnly /\ (CollectorStep \/ NextCase \/ CollectorDies)
  <2>0. tool = "case" /\ UNCHANGED <<lab, tool>> BY <1>6 DEF CaseOnly
  <2>1. /\ \/ CollectorQuiet
           \/ tx < MaxTransactions /\ AcquireLock(tx + 1)
           \/ RevalidateBefore \/ \E n : RevalidateAfter(n) \/ Finish(n)
           \/ LeaseLost /\ UNCHANGED <<phone, tx>>
           \/ UNCHANGED <<tx, lease>> /\ \E v : phone' = [phone EXCEPT !.result = v]
        /\ UNCHANGED host \/ host' = NewHost
    BY <1>6, CollectorTouches
  <2>2. HostInv' BY <1>2, <2>1, NewHostIs DEF HostInv, RestoredOrQuarantined
  <2>3. CASE CollectorQuiet \/ (UNCHANGED <<tx, lease>> /\ \E v : phone' = [phone EXCEPT !.result = v])
    <3>1. Keeps /\ UNCHANGED <<tx, lease, tool>> BY <2>0, <2>3, EffectsKeep DEF CollectorQuiet
    <3> QED BY <1>3, <2>0, <2>2, <3>1, KeepsLease
  <2>4. CASE tx < MaxTransactions /\ AcquireLock(tx + 1)
    BY <1>3, <2>0, <2>2, <2>4, AcquireStep
  <2>5. CASE \/ RevalidateBefore \/ \E n : RevalidateAfter(n) \/ Finish(n)
             \/ LeaseLost /\ UNCHANGED <<phone, tx>>
    BY <1>3, <2>0, <2>2, <2>5, LeaseCalls
  <2> QED BY <2>1, <2>3, <2>4, <2>5
<1>7. CASE tool = "lab" /\ LabStep /\ UNCHANGED <<lease, hostVars, caseVars, tool>>
  BY <1>2, <1>7, LabSteps DEF hostVars
<1>8. CASE PeerEnv /\ UNCHANGED <<lease, hostVars, caseVars, lab, tool>>
  <2>1. Keeps /\ UNCHANGED tx BY <1>8, EffectsKeep DEF PeerEnv, PeerExits, UserOpensApp
  <2>2. LeaseInv' /\ PhoneTyped' BY <1>8, <2>1, KeepsLease
  <2>3. Ours => Ours' BY <2>1, KeepsIs
  <2>4. LabInv' BY <1>8, <2>3 DEF LabInv
  <2> QED BY <1>2, <1>8, <2>2, <2>4 DEF hostVars
<1>9. CASE UNCHANGED vars
  <2>1. UNCHANGED <<phone, tx, lease, lab, tool, host>> BY <1>9 DEF vars, peerVars, hostVars
  <2>2. Keeps BY <2>1, EffectsKeep
  <2>3. LeaseInv' /\ PhoneTyped' BY <2>1, <2>2, KeepsLease
  <2>4. Ours => Ours' BY <2>1, <2>2, KeepsIs
  <2>5. LabInv' BY <2>1, <2>4 DEF LabInv
  <2> QED BY <1>2, <2>1, <2>3, <2>5
<1> QED BY <1>4, <1>5, <1>6, <1>7, <1>8, <1>9 DEF Next

(* The invariant of phone, lease, lab journal and Host transaction.        *)
THEOREM PacketInvariant == Spec => [](PhoneInv /\ HostInv)
BY PhoneInit, PhoneStep, PTL DEF Spec

(* A LAN peer transaction that closes without reporting a failed cleanup   *)
(* left neither its app nor a process of it on the phone, for any number   *)
(* of transactions, lost replies and interferences                         *)
(* (ios_packet_lan_peer_adapter.py, admit_ios_packet_lan_peer, _finish).   *)
THEOREM PhonesAreLeftAsFound == Spec => []PhoneLeftAsFound
<1>1. PhoneInv => PhoneLeftAsFound BY DEF PhoneInv, LeaseInv, Left, Bare, PhoneLeftAsFound
<1> QED BY <1>1, PacketInvariant, PTL

(* An admitted Host transaction ends restored or quarantined, or says that *)
(* its quarantine failed, whatever the collector, the channel and the      *)
(* clock do (engine/packet_evidence of the Host).                          *)
THEOREM HostIsRestoredOrQuarantined == Spec => []RestoredOrQuarantined
<1>1. HostInv => RestoredOrQuarantined BY DEF HostInv
<1> QED BY <1>1, PacketInvariant, PTL

(* Only a transaction that owns the app changes it.                        *)
LEMMA AppChanges ==
    ASSUME PhoneInv, [Next]_vars PROVE phone'.app = phone.app \/ Ours
<1> USE DEF PhoneInv
<1>0. Keeps => phone'.app = phone.app BY DEF Keeps
<1>1. CASE LeaseStep
  <2>1. CASE Install \/ Uninstall
    <3>1. lease.pc \in Late BY <2>1 DEF Install, Uninstall, AdmitCommand, LeaseAt, Late
    <3> QED BY <3>1 DEF LeaseInv
  <2>2. CASE LaunchPrimer \/ TerminatePrimer \/ CopySession \/ LaunchPacketLan \/ Terminate
    BY <1>0, <2>2, EffectsKeep
    DEF LaunchPrimer, TerminatePrimer, CopySession, LaunchPacketLan, Terminate, AdmitCommand, Devicectl
  <2>3. CASE \/ AdmitDevice \/ Preflight \/ WriteInstallIntent \/ OwnInstall \/ BindLaunchedPrimer
             \/ AuthorizePrimer \/ StoppedPrimer \/ Admitted \/ AmbiguousInstall \/ AuthorizeTerminate
             \/ Terminated \/ Verify \/ Release
    BY <2>3 DEF AdmitDevice, Preflight, WriteInstallIntent, OwnInstall, BindLaunchedPrimer,
           AuthorizePrimer, StoppedPrimer, Admitted, AmbiguousInstall, AuthorizeTerminate,
           Terminated, Verify, Release, TermFails, AdmitCheck, Reads, ReadFails, peerVars
  <2> QED BY <1>1, <2>1, <2>2, <2>3 DEF LeaseStep
<1>2. CASE CollectorStep \/ NextCase \/ CollectorDies
  <2>1. UNCHANGED phone \/ \E v : phone' = [phone EXCEPT !.result = v]
    BY <1>2, CollectorTouches
    DEF CollectorQuiet, AcquireLock, RevalidateBefore, RevalidateAfter, Finish, Reads, ReadFails, peerVars
  <2> QED BY <1>0, <2>1, EffectsKeep
<1>3. CASE LabStep
  <2>1. CASE lab.st # "none" BY <2>1 DEF LabInv
  <2>2. CASE lab.st = "none"
    <3>1. ~lab.open /\ ~LabKeeps BY <2>2 DEF LabInv, LabKeeps
    <3>2. CASE Create BY <3>2 DEF Create
    <3>3. CASE PeerServes /\ UNCHANGED lab BY <1>0, <3>3, EffectsKeep DEF PeerServes
    <3>4. ~(LabInstall \/ LabUninstall \/ Open \/ RunnerDies \/ LegacyChanges)
      BY <2>2, <3>1 DEF LabInstall, LabUninstall, LabCommand, LabAt, Open, Replays, RunnerDies, LegacyChanges
    <3> QED BY <1>3, <3>1, <3>2, <3>3, <3>4, LabRecords, LabCommands DEF LabStep
  <2> QED BY <2>1, <2>2
<1>4. CASE PeerEnv BY <1>0, <1>4, EffectsKeep DEF PeerEnv, PeerExits, UserOpensApp
<1>5. CASE UNCHANGED phone BY <1>5
<1> QED BY <1>1, <1>2, <1>3, <1>4, <1>5 DEF Next, vars, peerVars

(* The app of a phone changes only after every check was passed, and only  *)
(* an app that the current transaction installed itself is replaced or     *)
(* removed, by the LAN adapter and by the transport lab                    *)
(* (ios_packet_lan_peer_adapter.py, ios_transport_peer_lab.py).            *)
THEOREM OnlyOwnAppsChange == Spec => OnlyOwnAppChanged
<1>1. ASSUME PhoneInv, [Next]_vars
      PROVE  [phone'.app # phone.app => phone.wrong = "none" /\ phone.app \in {NoApp, tx}]_phone
  BY <1>1, AppChanges DEF Ours
<1> QED BY <1>1, PacketInvariant, PTL DEF Spec, OnlyOwnAppChanged

-----------------------------------------------------------------------------
(* The collector and the Host in lock-step.                                *)

IsSeq(s) == \E S : s \in Seq(S)
\* The Host has recorded an error, or will find one when it restores.
Doomed == host.code # "none" \/ host.snap = "drifted"
Final == {"finish", "await-finish", "done"}
HostRun ==
    /\ host.pc \in HostPcs /\ host.terminal \in {"none", "restored", "aborted"}
    /\ host.pc \notin {"idle", "done"} => host.admitted
    /\ host.pc = "idle" => host = NewHost
    /\ host.pc \in {"apply", "await-test"} => host.begun
    /\ host.pc = "restore" => host.code # "none" \/ host.begun
    /\ host.pc = "quarantine" => host.code # "none"
    /\ host.pc \in Final /\ host.admitted /\ host.code = "none" =>
          host.snap \in {"restored", "lapsed"} /\ host.terminal = "restored"
    /\ host.outcome = "completed" => host.pc = "done" /\ host.admitted /\ host.code = "none"
    /\ IsSeq(toCollector)
    /\ \A k \in DOMAIN toCollector : toCollector[k].doc = "completed" => host.outcome = "completed"

CaseFields == {"pc", "kind", "at", "seq", "stages", "failed", "error", "begin", "test", "finish", "testHost",
               "terminal", "archived", "leaked", "key", "accepted", "unclean", "wrong", "observed"}
\* The labels of the three stages of the collector, and those between them.
Opening == {"admit-peer", "admitting", "remote-access", "start-capture", "before"}
Ending == {"finish", "archive", "after", "close-peer", "closing", "keys", "cleanup-stage"}
Awaiting == {"await-first", "await-progress", "await-terminal", "await-final"}
Over == {"idle", "finalize", "validate", "cleanup", "ended"}
InStage(n) ==
    \/ c.seq = n /\ c.pc \in {"send", "observe"}
    \/ n = 3 /\ c.pc \in Opening
    \/ n = 7 /\ c.pc \in Ending
Positions == {<<3, "baseline">>, <<5, "test">>, <<7, "restored">>}
Placed ==
    /\ Shaped(c, CaseFields) /\ c.kind \in CaseKinds
    /\ c.pc \in Opening \cup Ending \cup Awaiting \cup Over \cup {"send", "observe"}
    /\ c.pc \in Opening => c.seq = 3
    /\ c.pc = "observe" => c.seq \in {5, 7}
    /\ c.pc \in Ending => c.seq = 7
    /\ c.pc \in Opening \cup Ending \cup {"send", "observe"} => <<c.seq, c.at>> \in Positions
    /\ c.pc \notin Over => connected

Silent == toHost = <<>> /\ toCollector = <<>>
Answered(n) == toCollector = <<>> /\ \E doc \in {"ok", "failed"}, code \in {"none", "cancelled"} : toHost = <<Frame(n, doc, code)>>
Told(f) == toHost = <<>> /\ toCollector = <<f>>
\* Where the Host is, as long as nothing went wrong with it.
InStep ==
    /\ c.pc = "await-first" =>
          \/ /\ host.pc = "idle" /\ toCollector = <<>> /\ toHost = <<Frame(1, "request", "none")>>
          \/ host.pc = "await-begin" /\ host.snap = "baseline" /\ Told(Frame(2, "baseline", "none"))
          \/ host.pc = "done" /\ Told(Frame(8, "failed", "refused"))
    /\ InStage(3) => host.pc = "await-begin" /\ host.snap = "baseline" /\ Silent
    /\ c.pc = "await-progress" =>
          \/ host.pc = "await-begin" /\ Answered(3)
          \/ host.pc = "apply" /\ Silent
          \/ host.pc = "await-test" /\ host.snap = "test" /\ Told(Frame(4, "test", "none"))
    /\ InStage(5) => host.pc = "await-test" /\ host.snap = "test" /\ Silent
    /\ c.pc = "await-terminal" =>
          \/ host.pc = "await-test" /\ Answered(5)
          \/ host.pc \in {"restore", "finish"} /\ Silent
          \/ host.pc = "await-finish" /\ Told(Frame(6, "restored", "none"))
    /\ InStage(7) => host.pc = "await-finish" /\ Silent
    /\ c.pc = "await-final" =>
          \/ host.pc = "await-finish" /\ Answered(7)
          \/ host.pc = "done"

\* The stages that were sent, and where they can have been.
StagesInv ==
    /\ IsSeq(c.stages) /\ Len(c.stages) <= 3
    /\ c.pc \in {"idle", "await-first"} \cup Opening => c.stages = <<>>
    /\ Doomed \/ \A k \in DOMAIN c.stages : SentAsPlanned(k)
CapInv ==
    /\ cap = [st |-> cap.st, recs |-> cap.recs] /\ IsSeq(cap.recs)
    /\ cap.st = "running" => Len(cap.recs) < RecordCount(c.kind)
    /\ c.pc # "ended" /\ Len(c.stages) < 3 => \A k \in DOMAIN cap.recs : cap.recs[k].stage # "end"
    /\ c.leaked =>
          /\ c.kind = "absence" /\ Len(c.stages) >= 2
          /\ \/ \E k \in DOMAIN cap.recs : cap.recs[k].stage = "target"
             \/ cap.st # "running" /\ \A k \in DOMAIN cap.recs : cap.recs[k].stage # "end"
\* The phone was given back before the case can be accepted.
Returned ==
    \/ c.pc \in {"keys", "finalize", "validate"} \/ c.accepted
    \/ c.pc = "await-final" /\ c.finish = "complete" /\ c.terminal = "restored"
AcceptInv ==
    /\ c.kind = "lan" /\ Returned => lease.st = "closed" /\ ~lease.unclean
    /\ c.pc \in {"finalize", "validate"} => host.outcome = "completed"
    /\ c.accepted => /\ c.pc \in {"cleanup", "ended"} /\ host.outcome = "completed"
                     /\ Len(c.stages) = 3 /\ ~c.leaked
CaseInv == HostRun /\ Placed /\ (Doomed \/ InStep) /\ StagesInv /\ CapInv /\ AcceptInv

(* One-element sequences, and the sequences a frame is added to or taken   *)
(* from.                                                                   *)
LEMMA OneFrame ==
    ASSUME NEW f
    PROVE  /\ Append(<<>>, f) = <<f>> /\ Head(<<f>>) = f /\ Tail(<<f>>) = <<>> /\ <<f>> # <<>>
           /\ DOMAIN <<f>> = {1} /\ <<f>>[1] = f
OBVIOUS

(* A frame at the end of a sequence.                                       *)
LEMMA FrameAdded ==
    ASSUME NEW s, IsSeq(s), NEW f
    PROVE  /\ IsSeq(Append(s, f)) /\ DOMAIN Append(s, f) = DOMAIN s \cup {Len(s) + 1}
           /\ Append(s, f)[Len(s) + 1] = f /\ \A k \in DOMAIN s : Append(s, f)[k] = s[k]
           /\ Len(s) \in Nat /\ DOMAIN s = 1..Len(s) /\ Len(Append(s, f)) = Len(s) + 1
<1>1. PICK S : s \in Seq(S) BY DEF IsSeq
<1>2. s \in Seq(S \cup {f}) /\ f \in S \cup {f} BY <1>1
<1>3. Append(s, f) \in Seq(S \cup {f}) BY <1>2
<1> QED BY <1>2, <1>3 DEF IsSeq

(* The first frame taken from a sequence.                                  *)
LEMMA FrameTaken ==
    ASSUME NEW s, IsSeq(s), s # <<>>
    PROVE  /\ IsSeq(Tail(s)) /\ 1 \in DOMAIN s /\ Head(s) = s[1]
           /\ \A k \in DOMAIN Tail(s) : k + 1 \in DOMAIN s /\ Tail(s)[k] = s[k + 1]
<1>1. PICK S : s \in Seq(S) BY DEF IsSeq
<1>2. Tail(s) \in Seq(S) BY <1>1
<1>3. Len(s) \in Nat /\ Len(s) # 0 BY <1>1
<1>4. Len(Tail(s)) = Len(s) - 1 BY <1>1
<1> QED BY <1>1, <1>2, <1>3, <1>4 DEF IsSeq

(* The collector's steps leave the Host alone and only take frames.        *)
LEMMA HostRunKept ==
    ASSUME HostRun, UNCHANGED host,
           \/ toCollector' = toCollector
           \/ toCollector' = <<>>
           \/ toCollector # <<>> /\ toCollector' = Tail(toCollector)
    PROVE  HostRun' /\ (Doomed <=> Doomed')
<1>1. Doomed <=> Doomed' BY DEF Doomed
<1>2. IsSeq(toCollector')
      /\ \A k \in DOMAIN toCollector' : toCollector'[k].doc = "completed" => host.outcome = "completed"
  <2>1. CASE toCollector' = toCollector BY <2>1 DEF HostRun
  <2>2. CASE toCollector' = <<>>
    <3>1. IsSeq(<<>>) BY DEF IsSeq
    <3> QED BY <2>2, <3>1
  <2>3. CASE toCollector # <<>> /\ toCollector' = Tail(toCollector)
    BY <2>3, FrameTaken DEF HostRun
  <2> QED BY <2>1, <2>2, <2>3
<1> QED BY <1>1, <1>2 DEF HostRun

(* The Host's own steps: an error is never forgotten, a drift is found.    *)
LEMMA HostRuns ==
    ASSUME HostInv, HostRun, HostStep
    PROVE  HostRun' /\ (Doomed => Doomed') /\ host.pc # "done"
<1> DEFINE Sent(f) == toCollector' = toCollector \/ toCollector' = Append(toCollector, f)
<1>1. ASSUME NEW f, Sent(f), host.outcome # "completed", f.doc = "completed" => host'.outcome = "completed"
      PROVE  /\ IsSeq(toCollector')
             /\ \A k \in DOMAIN toCollector' : toCollector'[k].doc = "completed" => host'.outcome = "completed"
  <2>1. /\ IsSeq(toCollector)
        /\ \A k \in DOMAIN toCollector : toCollector[k].doc = "completed" => host.outcome = "completed"
    BY DEF HostRun
  <2>2. CASE toCollector' = toCollector BY <1>1, <2>1, <2>2
  <2>3. CASE toCollector' = Append(toCollector, f) BY <1>1, <2>1, <2>3, FrameAdded
  <2> QED BY <1>1, <2>2, <2>3
<1> HIDE DEF Sent
<1>2. host.pc # "done" => host.outcome # "completed" BY DEF HostRun
<1>3. Shaped(host, HostFields) BY DEF HostInv
<1> DEFINE Rest == /\ host'.pc \in HostPcs /\ host'.terminal \in {"none", "restored", "aborted"}
                   /\ host'.pc \notin {"idle", "done"} => host'.admitted
                   /\ host'.pc # "idle"
                   /\ host'.pc \in {"apply", "await-test"} => host'.begun
                   /\ host'.pc = "restore" => host'.code # "none" \/ host'.begun
                   /\ host'.pc = "quarantine" => host'.code # "none"
                   /\ host'.pc \in Final /\ host'.admitted /\ host'.code = "none" =>
                         host'.snap \in {"restored", "lapsed"} /\ host'.terminal = "restored"
                   /\ host'.outcome = "completed" => host'.pc = "done" /\ host'.admitted /\ host'.code = "none"
                   /\ Doomed => Doomed'
<1>4. ASSUME Rest, host.pc # "done",
             \E f : Sent(f) /\ (f.doc = "completed" => host'.outcome = "completed")
      PROVE  HostRun' /\ (Doomed => Doomed') /\ host.pc # "done"
  BY <1>1, <1>2, <1>4 DEF HostRun
<1>5. CASE HostAdmit
  <2>1. host.pc # "done" /\ host.pc = "idle" BY <1>5 DEF HostAdmit, HostAt
  <2>2. Rest
    <3>1. \/ host' = [[host EXCEPT !.admitted = TRUE] EXCEPT !.pc = "await-begin"]
          \/ host' = [[host EXCEPT !.outcome = "failed"] EXCEPT !.pc = "done"]
      BY <1>5 DEF HostAdmit, HostGo
    <3>2. host.code = "none" /\ host.snap = "baseline" /\ host.terminal = "none" /\ host.outcome = "none"
          /\ host.admitted = FALSE
      BY <2>1 DEF HostRun, NewHost
    <3> QED BY <1>3, <2>1, <3>1, <3>2 DEF Shaped, HostFields, Final, HostPcs, Doomed
  <2>3. \E f : Sent(f) /\ (f.doc = "completed" => host'.outcome = "completed")
    <3>1. PICK f \in {Frame(2, "baseline", "none"), Frame(8, "failed", "refused")} : ToCollector(f)
      BY <1>5 DEF HostAdmit
    <3> QED BY <3>1 DEF Frame, Sent, ToCollector
  <2> HIDE DEF Rest
  <2> QED BY <1>4, <2>1, <2>2, <2>3
<1>6. Sent(Frame(4, "test", "none")) => \E f : Sent(f) /\ (f.doc = "completed" => host'.outcome = "completed")
  BY DEF Frame
<1>7. CASE BeginEnds
  <2>1. host.pc = "await-begin" /\ toCollector' = toCollector BY <1>7 DEF BeginEnds, StageEnds, HostAt
  <2>2. \/ host' = [[host EXCEPT !.begun = TRUE] EXCEPT !.pc = "apply"]
        \/ \E code : code # "none" /\ host' = [Failing(host, code) EXCEPT !.pc = "restore"]
    BY <1>7 DEF BeginEnds, StageEnds, HostGo
  <2>3. Rest BY <1>3, <2>1, <2>2 DEF HostRun, Failing, Shaped, HostFields, Final, HostPcs, Doomed
  <2> HIDE DEF Rest
  <2> QED BY <1>4, <1>6, <2>1, <2>3 DEF Sent
<1>8. CASE ApplyTest
  <2>1. host.pc = "apply" /\ Sent(Frame(4, "test", "none")) BY <1>8 DEF ApplyTest, HostAt, ToCollector, Sent
  <2>2. Rest BY <1>3, <1>8 DEF ApplyTest, HostAt, HostGo, HostRun, Failing, Shaped, HostFields, Final, HostPcs, Doomed
  <2> HIDE DEF Rest
  <2> QED BY <1>4, <1>6, <2>1, <2>2
<1>9. CASE TestEnds
  <2>1. host.pc = "await-test" /\ toCollector' = toCollector BY <1>9 DEF TestEnds, StageEnds, HostAt
  <2>2. \E code : host' = [Failing(host, code) EXCEPT !.pc = "restore"]
    BY <1>9 DEF TestEnds, StageEnds, HostGo
  <2>3. Rest BY <1>3, <2>1, <2>2 DEF HostRun, Failing, Shaped, HostFields, Final, HostPcs, Doomed
  <2> HIDE DEF Rest
  <2> QED BY <1>4, <1>6, <2>1, <2>3 DEF Sent
<1>10. CASE RestoreBaseline
  <2>1. host.pc = "restore" /\ toCollector' = toCollector BY <1>10 DEF RestoreBaseline, HostAt
  <2>2. Rest
    BY <1>3, <1>10 DEF RestoreBaseline, Restores, Back, HostAt, HostGo, HostRun, Shaped, HostFields, Final, HostPcs, Doomed
  <2> HIDE DEF Rest
  <2> QED BY <1>4, <1>6, <2>1, <2>2 DEF Sent
<1>11. CASE Quarantine
  <2>1. host.pc = "quarantine" /\ toCollector' = toCollector BY <1>11 DEF Quarantine, HostAt
  <2>2. Rest
    BY <1>3, <1>11 DEF Quarantine, HostAt, HostGo, HostRun, Shaped, HostFields, Final, HostPcs, Doomed
  <2> HIDE DEF Rest
  <2> QED BY <1>4, <1>6, <2>1, <2>2 DEF Sent
<1>12. CASE FinishTerminal
  <2>1. host.pc = "finish" /\ Sent(Frame(6, host.terminal, host.code))
    BY <1>12 DEF FinishTerminal, HostAt, ToCollector, Sent
  <2>2. Frame(6, host.terminal, host.code).doc # "completed" BY DEF Frame, HostRun
  <2>3. Rest
    BY <1>3, <1>12 DEF FinishTerminal, HostAt, HostGo, HostRun, Shaped, HostFields, Final, HostPcs, Doomed
  <2> HIDE DEF Rest
  <2> QED BY <1>4, <2>1, <2>2, <2>3
<1>13. CASE FinishEnds
  <2>1. PICK code, d : /\ host.pc = "await-finish" /\ d \in {"completed", "failed"}
                       /\ d = "completed" => FinalCode(code) = "none"
                       /\ ToCollector(Frame(8, d, FinalCode(code)))
                       /\ HostGo([host EXCEPT !.code = FinalCode(code), !.outcome = d], "done")
    <3> DEFINE D(code) == IF FinalCode(code) = "none" /\ host.tested THEN "completed" ELSE "failed"
    <3>1. PICK code : /\ host.pc = "await-finish" /\ ToCollector(Frame(8, D(code), FinalCode(code)))
                      /\ HostGo([host EXCEPT !.code = FinalCode(code), !.outcome = D(code)], "done")
      BY <1>13 DEF FinishEnds, HostAt
    <3>2. D(code) \in {"completed", "failed"} /\ (D(code) = "completed" => FinalCode(code) = "none") OBVIOUS
    <3> HIDE DEF D
    <3> QED BY <3>1, <3>2
  <2>2. Rest
    BY <1>3, <2>1 DEF HostGo, FinalCode, HostRun, Shaped, HostFields, Final, HostPcs, Doomed
  <2>3. \E f : Sent(f) /\ (f.doc = "completed" => host'.outcome = "completed")
    <3>1. Sent(Frame(8, d, FinalCode(code))) BY <2>1 DEF ToCollector, Sent
    <3>2. host'.outcome = d BY <1>3, <2>1 DEF HostGo, Shaped, HostFields
    <3>3. Frame(8, d, FinalCode(code)).doc = d BY DEF Frame
    <3> QED BY <3>1, <3>2, <3>3
  <2> HIDE DEF Rest
  <2> QED BY <1>4, <2>1, <2>2, <2>3
<1>14. CASE EngineDrifts
  <2>1. host.pc # "done" /\ host.pc # "idle" /\ toCollector' = toCollector
        /\ \E up : \/ host.snap = "restored" /\ host' = [host EXCEPT !.snap = "lapsed", !.routed = up]
                   \/ /\ host.snap \in {"baseline", "test"}
                      /\ host' = [host EXCEPT !.snap = "drifted", !.routed = up]
    BY <1>14 DEF EngineDrifts, HostInv
  <2>2. Rest
    BY <1>3, <2>1 DEF HostRun, Shaped, HostFields, Final, HostPcs, Doomed
  <2> HIDE DEF Rest
  <2> QED BY <1>4, <1>6, <2>1, <2>2 DEF Sent
<1>15. CASE RecoverAfterPanic
  <2>1. /\ host.pc \notin {"idle", "done"} /\ Sent(Frame(8, "failed", "panicked"))
        /\ host'.code = "panicked" /\ host'.outcome # "completed"
    BY <1>2, <1>3, <1>15 DEF RecoverAfterPanic, HostAt, HostGo, ToCollector, Sent, Shaped, HostFields
  <2>2. Rest
    BY <1>2, <1>3, <1>15, <2>1
       DEF RecoverAfterPanic, HostAt, HostGo, HostRun, Shaped, HostFields, Final, HostPcs, Doomed
  <2>3. Frame(8, "failed", "panicked").doc # "completed" BY DEF Frame
  <2> HIDE DEF Rest
  <2> QED BY <1>4, <2>1, <2>2, <2>3
<1> QED BY <1>5, <1>7, <1>8, <1>9, <1>10, <1>11, <1>12, <1>13, <1>14, <1>15 DEF HostStep

(* A collector whose transaction is not over awaits a frame or is in one   *)
(* of its three stages.                                                    *)
LEMMA Where ==
    ASSUME Placed, c.pc \notin Over
    PROVE  c.pc \in Awaiting \/ InStage(3) \/ InStage(5) \/ InStage(7)
BY DEF Placed, Positions, InStage

(* A step of the Host keeps the lock-step or dooms the transaction.        *)
LEMMA HostKeepsStep ==
    ASSUME HostInv, HostRun, Placed, Doomed \/ InStep, HostStep, UNCHANGED c
    PROVE  Doomed' \/ InStep'
<1>0. Shaped(host, HostFields) BY DEF HostInv
<1>1. CASE Doomed BY <1>1, HostRuns
<1>2. CASE c.pc \in Over BY <1>2 DEF InStep, InStage, Over, Opening, Ending
<1>3. CASE ~Doomed /\ InStep /\ c.pc \notin Over
  <2>0. connected /\ host.code = "none" /\ host.snap # "drifted" BY <1>3 DEF Placed, Doomed
  <2>1. CASE HostAdmit
    <3>1. host.pc = "idle" BY <2>1 DEF HostAdmit, HostAt
    <3>2. c.pc = "await-first" /\ toCollector = <<>> /\ toHost = <<Frame(1, "request", "none")>>
      BY <1>3, <3>1, Where DEF InStep, Awaiting
    <3>3. toHost' = <<>> BY <2>1, <3>2, OneFrame DEF HostAdmit
    <3>4. \/ toCollector' = <<Frame(2, "baseline", "none")>> /\ host'.pc = "await-begin" /\ host'.snap = host.snap
          \/ toCollector' = <<Frame(8, "failed", "refused")>> /\ host'.pc = "done"
      BY <1>0, <2>0, <2>1, <3>2, OneFrame DEF HostAdmit, ToCollector, HostGo, Shaped, HostFields
    <3>5. host.snap = "baseline" BY <3>1 DEF HostRun, NewHost
    <3> QED BY <3>2, <3>3, <3>4, <3>5 DEF InStep, InStage, Told, Opening, Ending
  <2>2. CASE BeginEnds
    <3>1. host.pc = "await-begin" /\ toCollector' = toCollector BY <2>2 DEF BeginEnds, StageEnds, HostAt
    <3>2. \/ host'.code # "none"
          \/ /\ toHost # <<>> /\ toHost' = Tail(toHost)
             /\ host' = [[host EXCEPT !.begun = TRUE] EXCEPT !.pc = "apply"]
      BY <1>0, <2>0, <2>2 DEF BeginEnds, StageEnds, HostGo, Failing, Shaped, HostFields
    <3>3. CASE host'.code # "none" BY <3>3 DEF Doomed
    <3>4. CASE /\ toHost # <<>> /\ toHost' = Tail(toHost)
               /\ host' = [[host EXCEPT !.begun = TRUE] EXCEPT !.pc = "apply"]
      <4>1. c.pc = "await-progress" /\ Answered(3)
        BY <1>3, <3>1, <3>4, Where DEF InStep, Awaiting, Silent, Told
      <4>2. toHost' = <<>> /\ toCollector' = <<>> BY <3>1, <3>4, <4>1, OneFrame DEF Answered
      <4>3. host'.pc = "apply" BY <1>0, <3>4 DEF Shaped, HostFields
      <4> QED BY <4>1, <4>2, <4>3 DEF InStep, InStage, Silent, Opening, Ending
    <3> QED BY <3>2, <3>3, <3>4
  <2>3. CASE ApplyTest
    <3>1. host.pc = "apply" /\ toHost' = toHost BY <2>3 DEF ApplyTest, HostAt
    <3>2. c.pc = "await-progress" /\ Silent
      BY <1>3, <3>1, Where DEF InStep, Awaiting
    <3>3. \/ host'.code # "none"
          \/ ToCollector(Frame(4, "test", "none")) /\ host'.snap = "test" /\ host'.pc = "await-test"
      BY <1>0, <2>0, <2>3 DEF ApplyTest, HostGo, Failing, Shaped, HostFields
    <3>4. CASE host'.code # "none" BY <3>4 DEF Doomed
    <3>5. CASE ToCollector(Frame(4, "test", "none")) /\ host'.snap = "test" /\ host'.pc = "await-test"
      <4>1. toCollector' = <<Frame(4, "test", "none")>> /\ toHost' = <<>>
        BY <2>0, <3>1, <3>2, <3>5, OneFrame DEF ToCollector, Silent
      <4> QED BY <3>2, <3>5, <4>1 DEF InStep, InStage, Told, Opening, Ending
    <3> QED BY <3>3, <3>4, <3>5
  <2>4. CASE TestEnds
    <3>1. host.pc = "await-test" /\ toCollector' = toCollector BY <2>4 DEF TestEnds, StageEnds, HostAt
    <3>2. host'.code # "none" \/ (toHost # <<>> /\ toHost' = Tail(toHost) /\ host'.pc = "restore")
      BY <1>0, <2>0, <2>4 DEF TestEnds, StageEnds, HostGo, Failing, Shaped, HostFields
    <3>3. CASE host'.code # "none" BY <3>3 DEF Doomed
    <3>4. CASE toHost # <<>> /\ toHost' = Tail(toHost) /\ host'.pc = "restore"
      <4>1. c.pc = "await-terminal" /\ Answered(5)
        BY <1>3, <3>1, <3>4, Where DEF InStep, Awaiting, Silent, Told
      <4>2. toHost' = <<>> /\ toCollector' = <<>> BY <3>1, <3>4, <4>1, OneFrame DEF Answered
      <4> QED BY <3>4, <4>1, <4>2 DEF InStep, InStage, Silent, Opening, Ending
    <3> QED BY <3>2, <3>3, <3>4
  <2>5. CASE RestoreBaseline
    <3>1. host.pc = "restore" /\ UNCHANGED <<toHost, toCollector>> BY <2>5 DEF RestoreBaseline, HostAt
    <3>2. c.pc = "await-terminal" /\ Silent
      BY <1>3, <3>1, Where DEF InStep, Awaiting
    <3>3. host'.code # "none" \/ host'.pc = "finish"
      BY <1>0, <2>5 DEF RestoreBaseline, Back, HostGo, Shaped, HostFields
    <3> QED BY <3>1, <3>2, <3>3 DEF InStep, InStage, Silent, Opening, Ending, Doomed
  <2>6. CASE Quarantine BY <2>0, <2>6 DEF Quarantine, HostAt, HostRun
  <2>7. CASE FinishTerminal
    <3>1. host.pc = "finish" /\ toHost' = toHost /\ host'.pc = "await-finish"
          /\ ToCollector(Frame(6, host.terminal, host.code))
      BY <1>0, <2>7 DEF FinishTerminal, HostAt, HostGo, Shaped, HostFields
    <3>2. c.pc = "await-terminal" /\ Silent
      BY <1>3, <3>1, Where DEF InStep, Awaiting
    <3>3. host.terminal = "restored" BY <2>0, <3>1 DEF HostRun, Final
    <3>4. toCollector' = <<Frame(6, "restored", "none")>> /\ toHost' = <<>>
      BY <2>0, <3>1, <3>2, <3>3, OneFrame DEF ToCollector, Silent
    <3> QED BY <3>1, <3>2, <3>4 DEF InStep, InStage, Told, Opening, Ending
  <2>8. CASE FinishEnds
    <3>1. host.pc = "await-finish" BY <2>8 DEF FinishEnds, HostAt
    <3>2. host'.code # "none" \/ (toHost # <<>> /\ host'.pc = "done")
      BY <1>0, <2>0, <2>8 DEF FinishEnds, FinalCode, HostGo, Shaped, HostFields
    <3>3. CASE host'.code # "none" BY <3>3 DEF Doomed
    <3>4. CASE toHost # <<>> /\ host'.pc = "done"
      <4>1. c.pc = "await-final"
        BY <1>3, <3>1, <3>4, Where DEF InStep, Awaiting, Silent, Told
      <4> QED BY <3>4, <4>1 DEF InStep, InStage, Opening, Ending
    <3> QED BY <3>2, <3>3, <3>4
  <2>9. CASE EngineDrifts
    <3>1. CASE host'.snap = "drifted" BY <3>1 DEF Doomed
    <3>2. CASE host'.snap # "drifted"
      <4>1. host.snap = "restored" /\ host'.pc = host.pc /\ UNCHANGED <<toHost, toCollector>>
        BY <1>0, <2>9, <3>2 DEF EngineDrifts, Shaped, HostFields
      <4> QED BY <1>3, <4>1 DEF InStep, InStage, Silent, Told, Answered
    <3> QED BY <3>1, <3>2
  <2>10. CASE RecoverAfterPanic
    <3>1. host'.code = "panicked" BY <1>0, <2>10 DEF RecoverAfterPanic, HostGo, Shaped, HostFields
    <3> QED BY <3>1 DEF Doomed
  <2> QED BY <2>1, <2>2, <2>3, <2>4, <2>5, <2>6, <2>7, <2>8, <2>9, <2>10 DEF HostStep
<1> QED BY <1>1, <1>2, <1>3

-----------------------------------------------------------------------------
(* The collector's steps within and at the end of a stage.                 *)

Same ==
    /\ Shaped(c', CaseFields) /\ c'.kind = c.kind /\ c'.stages = c.stages
    /\ c'.leaked = c.leaked /\ c'.accepted = c.accepted
\* The stage goes on or is answered.
Answers(n) ==
    \E doc \in {"ok", "failed"}, code \in {"none", "cancelled"} : ToHost(Frame(n, doc, code))
StageEffect(n) ==
    /\ Same /\ c'.seq = c.seq /\ c'.at = c.at /\ UNCHANGED <<host, toCollector, connected>>
    /\ \/ UNCHANGED toHost /\ InStage(n)'
       \/ c'.pc = AfterStage(n) /\ Answers(n)
    /\ c'.pc \in Opening => c.pc \in Opening
    /\ c'.pc = "observe" => n # 3
\* What the lease must be when the case gets nearer to being accepted.
LeaseEffect ==
    c.kind = "lan" => /\ c'.pc = "keys" => lease'.st = "closed" /\ ~lease'.unclean
                      /\ c'.pc = "await-final" /\ c'.finish = "complete" /\ c'.terminal = "restored" =>
                            lease'.st = "closed" /\ ~lease'.unclean

(* Every such step keeps the collector in its place.                       *)
LEMMA StageKeeps ==
    ASSUME HostRun, Placed, Doomed \/ InStep, StagesInv, NEW n \in {3, 5, 7}, InStage(n), StageEffect(n)
    PROVE  HostRun' /\ Placed' /\ (Doomed \/ InStep)' /\ StagesInv'
<1>0. HostRun' /\ (Doomed <=> Doomed') BY HostRunKept DEF StageEffect
<1>1. c.seq = n /\ connected /\ <<c.seq, c.at>> \in Positions
  BY DEF InStage, Placed, Opening, Ending, Over, Awaiting
<1>2. Placed'
  BY <1>1 DEF StageEffect, Same, Placed, InStage, AfterStage, Opening, Ending, Over, Awaiting
<1>3. StagesInv'
  BY <1>0, <1>1 DEF StagesInv, SentAsPlanned, StageEffect, Same, InStage, AfterStage, Opening, Ending
<1>4. ASSUME InStep, ~Doomed PROVE InStep'
  <2>1. Silent BY <1>1, <1>4 DEF InStep, InStage
  <2>2. CASE UNCHANGED toHost /\ InStage(n)'
    <3>1. c'.seq = n BY <1>1 DEF StageEffect
    <3> QED BY <1>1, <1>4, <2>1, <2>2, <3>1 DEF InStep, InStage, StageEffect, Silent, Opening, Ending
  <2>3. CASE c'.pc = AfterStage(n) /\ Answers(n)
    <3>1. Answered(n)'
      <4>1. PICK doc \in {"ok", "failed"}, code \in {"none", "cancelled"} : ToHost(Frame(n, doc, code))
        BY <2>3 DEF Answers
      <4>2. toHost' = <<Frame(n, doc, code)>> BY <1>1, <2>1, <4>1, OneFrame DEF ToHost, Silent
      <4> QED BY <2>1, <4>2 DEF Answered, StageEffect, Silent
    <3>2. host' = host BY DEF StageEffect
    <3>3. n = 3 => host.pc = "await-begin" BY <1>1, <1>4 DEF InStep, InStage
    <3>4. n = 5 => host.pc = "await-test" BY <1>1, <1>4 DEF InStep, InStage
    <3>5. n = 7 => host.pc = "await-finish" BY <1>1, <1>4 DEF InStep, InStage
    <3> QED BY <2>3, <3>1, <3>2, <3>3, <3>4, <3>5 DEF InStep, InStage, AfterStage, Opening, Ending
  <2> QED BY <2>2, <2>3 DEF StageEffect
<1> QED BY <1>0, <1>2, <1>3, <1>4

\* A record of the case that differs from c only in what no invariant names.
Like(rec) ==
    /\ Shaped(rec, CaseFields) /\ rec.kind = c.kind /\ rec.stages = c.stages /\ rec.leaked = c.leaked
    /\ rec.accepted = c.accepted /\ rec.seq = c.seq /\ rec.at = c.at

(* The kinds of steps within a stage: it goes on, raises or completes.     *)
LEMMA StageGoes ==
    ASSUME Placed, NEW n \in {3, 5, 7}, InStage(n), NEW rec, Like(rec), NEW l, CaseGo(rec, l), NoFrames,
           \/ n = 3 /\ l \in Opening \cup {"send"}
           \/ n # 3 /\ l \in {"send", "observe"}
           \/ n = 7 /\ l \in Ending,
           l \in Opening => c.pc \in Opening
    PROVE  StageEffect(n) /\ c'.pc = l /\ c'.finish = rec.finish /\ c'.terminal = rec.terminal
<1>1. /\ Shaped(c', CaseFields) /\ c'.pc = l /\ c'.finish = rec.finish /\ c'.terminal = rec.terminal
      /\ c'.kind = c.kind /\ c'.stages = c.stages /\ c'.leaked = c.leaked
      /\ c'.accepted = c.accepted /\ c'.seq = c.seq /\ c'.at = c.at
  BY DEF CaseGo, Like, Shaped, CaseFields
<1>2. c.seq = n BY DEF InStage, Placed
<1>3. UNCHANGED <<host, toHost, toCollector, connected>> BY DEF NoFrames, hostVars
<1>4. InStage(n)' /\ (l = "observe" => n # 3) BY <1>1, <1>2 DEF InStage, Opening, Ending
<1> QED BY <1>1, <1>3, <1>4 DEF StageEffect, Same

(* A stage is answered and the collector waits for the next frame.         *)
LEMMA StageAnswers ==
    ASSUME Placed, NEW n \in {3, 5, 7}, InStage(n), NEW rec, Like(rec),
           NEW doc \in {"ok", "failed"}, Answer(rec, n, doc, AfterStage(n))
    PROVE  StageEffect(n) /\ c'.pc = AfterStage(n) /\ c'.finish = rec.finish /\ c'.terminal = rec.terminal
<1>1. /\ Shaped(c', CaseFields) /\ c'.pc = AfterStage(n) /\ c'.finish = rec.finish /\ c'.terminal = rec.terminal
      /\ c'.kind = c.kind /\ c'.stages = c.stages /\ c'.leaked = c.leaked
      /\ c'.accepted = c.accepted /\ c'.seq = c.seq /\ c'.at = c.at
  BY DEF Answer, CaseGo, Like, Shaped, CaseFields
<1>2. UNCHANGED <<host, toCollector, connected>> BY DEF Answer
<1>3. Answers(n) BY DEF Answer, Answers
<1>4. AfterStage(n) \notin Opening \cup {"observe"} BY DEF AfterStage, Opening
<1> QED BY <1>1, <1>2, <1>3, <1>4 DEF StageEffect, Same

(* The case is like itself.                                                *)
LEMMA LikeIs == Placed => Like(c)
BY DEF Placed, Like

(* A field that no invariant names may change.                             *)
LEMMA LikeMore ==
    ASSUME NEW rec, Like(rec),
           NEW k \in {"failed", "error", "begin", "test", "finish", "archived", "observed", "key", "unclean"}, NEW v
    PROVE  /\ Like([rec EXCEPT ![k] = v]) /\ [rec EXCEPT ![k] = v].terminal = rec.terminal
           /\ k = "finish" => [rec EXCEPT ![k] = v].finish = v
           /\ k # "finish" => [rec EXCEPT ![k] = v].finish = rec.finish
BY DEF Like, Shaped, CaseFields

(* A callback that raises is answered as a cancelled stage.                *)
LEMMA StageRaising ==
    ASSUME Placed, NEW n \in {3, 5, 7}, InStage(n), StageRaises
    PROVE  StageEffect(n) /\ c'.pc = AfterStage(n) /\ (n = 7 => c'.finish = "cancelled")
<1>1. c.seq = n BY DEF InStage, Placed
<1> DEFINE r1 == [c EXCEPT !.failed = TRUE]
           r2 == [r1 EXCEPT !.error = TRUE]
           rec == [c EXCEPT !.failed = TRUE, !.error = TRUE, ![StageName(n)] = "cancelled"]
<1>2. StageName(n) \in {"begin", "test", "finish"} /\ (n = 7 => StageName(n) = "finish") BY DEF StageName
<1>3. Like(rec) /\ (n = 7 => rec.finish = "cancelled")
  <2>1. Like(c) BY LikeIs
  <2> QED BY <1>2, <2>1 DEF Like, Shaped, CaseFields
<1>4. Answer(rec, n, "failed", AfterStage(n)) BY <1>1 DEF StageRaises
<1> HIDE DEF rec
<1> QED BY <1>3, <1>4, StageAnswers

(* A callback that returns is answered as a completed stage.               *)
LEMMA StageCompleting ==
    ASSUME Placed, NEW n \in {3, 5, 7}, InStage(n), NEW rec, Like(rec), StageCompletes(rec)
    PROVE  StageEffect(n) /\ c'.pc = AfterStage(n)
<1>1. c.seq = n BY DEF InStage, Placed
<1> DEFINE r == [rec EXCEPT ![StageName(n)] = "complete"]
<1>2. StageName(n) \in {"begin", "test", "finish"} BY DEF StageName
<1>3. Like(r) BY <1>2, LikeMore
<1>4. Answer(r, n, "ok", AfterStage(n)) BY <1>1 DEF StageCompletes
<1> HIDE DEF r
<1> QED BY <1>3, <1>4, StageAnswers

(* The callbacks before the first packet.                                  *)
LEMMA OpeningSteps ==
    ASSUME Placed, AdmitPeer \/ PeerAdmitted \/ PrepareRemoteAccess \/ StartCapture \/ RevalidatePeerBefore
    PROVE  StageEffect(3) /\ InStage(3) /\ c.pc \in Opening
<1>1. c.pc \in Opening /\ InStage(3)
  BY DEF AdmitPeer, PeerAdmitted, PrepareRemoteAccess, StartCapture, RevalidatePeerBefore, CaseAt, InStage, Opening
<1>2. Like(c) /\ Like([c EXCEPT !.key = TRUE]) BY LikeIs DEF Placed, Like, Shaped, CaseFields
<1>3. ASSUME NEW rec, Like(rec), NEW l \in Opening \cup {"send"}, CaseGo(rec, l), NoFrames PROVE StageEffect(3)
  BY <1>1, <1>3, StageGoes
<1>4. StageRaises => StageEffect(3) BY <1>1, StageRaising
<1>5. CASE AdmitPeer
  <2>1. NoFrames /\ (CaseGo(c, "remote-access") \/ CaseGo(c, "admitting")) BY <1>5 DEF AdmitPeer
  <2> QED BY <1>1, <1>2, <1>3, <2>1 DEF Opening
<1>6. CASE PeerAdmitted
  <2>1. (CaseGo(c, "start-capture") /\ NoFrames) \/ StageRaises BY <1>6 DEF PeerAdmitted, StageStep
  <2> QED BY <1>1, <1>2, <1>3, <1>4, <2>1 DEF Opening
<1>7. CASE PrepareRemoteAccess
  <2> DEFINE r == [c EXCEPT !.key = TRUE, !.failed = TRUE, !.error = TRUE, !.begin = "cancelled"]
  <2>1. \/ CaseGo(c, "start-capture") /\ NoFrames
        \/ CaseGo([c EXCEPT !.key = TRUE], "start-capture") /\ NoFrames
        \/ Answer(r, 3, "failed", AfterStage(3))
    BY <1>7 DEF PrepareRemoteAccess, AfterStage
  <2>2. Like(r) BY <1>2 DEF Like, Shaped, CaseFields
  <2> HIDE DEF r
  <2>3. Answer(r, 3, "failed", AfterStage(3)) => StageEffect(3) BY <1>1, <2>2, StageAnswers
  <2> QED BY <1>1, <1>2, <1>3, <2>1, <2>3 DEF Opening
<1>8. CASE StartCapture
  <2>1. (CaseGo(c, "before") /\ NoFrames) \/ StageRaises BY <1>8 DEF StartCapture
  <2> QED BY <1>1, <1>2, <1>3, <1>4, <2>1 DEF Opening
<1>9. CASE RevalidatePeerBefore
  <2>1. (CaseGo(c, "send") /\ NoFrames) \/ StageRaises BY <1>9 DEF RevalidatePeerBefore, StageStep
  <2> QED BY <1>1, <1>2, <1>3, <1>4, <2>1
<1> QED BY <1>1, <1>5, <1>6, <1>7, <1>8, <1>9

(* The packets that cannot be sent, and the end of sending.                *)
RunStageFails ==
    /\ CaseAt("send") /\ Due /\ UNCHANGED <<tx, lease>>
    /\ StageRaises /\ UNCHANGED <<phone, cap>>
(* A stage that fails while sending, or has nothing left to send.          *)
LEMMA SendingSteps ==
    ASSUME Placed, RunStageFails \/ StagesSent
    PROVE  \E n \in {3, 5, 7} : InStage(n) /\ StageEffect(n) /\ (n = 7 /\ c'.pc = AfterStage(7) => c'.finish = "cancelled")
                                /\ c'.pc # "keys"
<1>1. c.pc = "send" BY DEF RunStageFails, StagesSent, CaseAt
<1>2. PICK n \in {3, 5, 7} : c.seq = n /\ InStage(n) BY <1>1 DEF Placed, Positions, InStage
<1>3. Like(c) BY LikeIs
<1>4. AfterStage(n) # "keys" /\ AfterStage(7) # "archive" BY DEF AfterStage
<1>5. CASE StageRaises BY <1>2, <1>4, <1>5, StageRaising
<1>6. CASE StageCompletes(c) /\ n # 7 BY <1>2, <1>3, <1>4, <1>6, StageCompleting
<1>7. CASE CaseGo(c, "archive") /\ NoFrames /\ n = 7
  <2>1. "archive" \in Ending /\ "archive" \notin Opening BY DEF Ending, Opening
  <2>2. StageEffect(n) /\ c'.pc = "archive" BY <1>2, <1>3, <1>7, <2>1, StageGoes
  <2> QED BY <1>2, <1>4, <2>2
<1> QED BY <1>2, <1>5, <1>6, <1>7 DEF RunStageFails, StagesSent

(* The product state is observed in the second or the third stage.         *)
LEMMA ObserveSteps ==
    ASSUME Placed, ObserveProduct
    PROVE  \E n \in {5, 7} : InStage(n) /\ StageEffect(n) /\ (n = 7 /\ c'.pc = AfterStage(7) => c'.finish = "cancelled")
                             /\ c'.pc # "keys"
<1>1. c.pc = "observe" BY DEF ObserveProduct, CaseAt
<1>2. PICK n \in {5, 7} : c.seq = n /\ InStage(n) BY <1>1 DEF Placed, InStage
<1>3. Like([c EXCEPT !.observed = c.at]) BY LikeIs, LikeMore
<1>4. AfterStage(n) # "keys" /\ AfterStage(7) # "send" BY DEF AfterStage
<1>5. StageRaises \/ (CaseGo([c EXCEPT !.observed = c.at], "send") /\ NoFrames) BY DEF ObserveProduct, StageStep
<1>6. CASE StageRaises BY <1>2, <1>4, <1>6, StageRaising
<1>7. CASE CaseGo([c EXCEPT !.observed = c.at], "send") /\ NoFrames
  <2>1. "send" \notin Opening BY DEF Opening
  <2>2. StageEffect(n) /\ c'.pc = "send" BY <1>2, <1>3, <1>7, <2>1, StageGoes
  <2> QED BY <1>2, <1>4, <2>2
<1> QED BY <1>5, <1>6, <1>7

(* finish_capture up to the answer: the case comes to its keys only with a *)
(* phone that was given back.                                              *)
LEMMA EndingSteps ==
    ASSUME Placed, AcceptInv, FinishCapture \/ FinishAndArchive \/ RevalidatePeerAfter \/ ClosePeer \/ PeerClosed
                   \/ CleanupKeys
    PROVE  InStage(7) /\ StageEffect(7) /\ LeaseEffect
<1>1. InStage(7) /\ c.pc \in Ending
  BY DEF FinishCapture, FinishAndArchive, RevalidatePeerAfter, ClosePeer, PeerClosed, CleanupKeys, CaseAt, InStage, Ending
<1>2. Like(c) /\ Like([c EXCEPT !.archived = TRUE]) /\ Like([c EXCEPT !.failed = TRUE]) /\ Like([c EXCEPT !.key = FALSE])
  BY LikeIs, LikeMore
<1>3. AfterStage(7) = "await-final" BY DEF AfterStage
<1>4. CASE StageRaises BY <1>1, <1>3, <1>4, StageRaising DEF LeaseEffect
<1>5. ASSUME NEW rec, Like(rec), NEW l \in Ending \cup {"send", "observe"}, CaseGo(rec, l), NoFrames,
             l = "keys" /\ c.kind = "lan" => lease'.st = "closed" /\ ~lease'.unclean
      PROVE  StageEffect(7) /\ LeaseEffect
  <2>1. l \notin Opening /\ l # "await-final" BY <1>5 DEF Ending, Opening
  <2>2. StageEffect(7) /\ c'.pc = l BY <1>1, <1>5, <2>1, StageGoes
  <2> QED BY <1>5, <2>1, <2>2 DEF LeaseEffect
<1> USE DEF Ending
<1>6. CASE FinishCapture
  <2>1. \/ StageRaises
        \/ NoFrames /\ CaseGo([c EXCEPT !.failed = TRUE], "cleanup-stage")
        \/ NoFrames /\ (CaseGo(c, "cleanup-stage") \/ CaseGo(c, "observe") \/ CaseGo(c, "send"))
    BY <1>6 DEF FinishCapture, StageStep
  <2> QED BY <1>1, <1>2, <1>4, <1>5, <2>1
<1>7. CASE FinishAndArchive
  <2>1. StageRaises \/ (NoFrames /\ CaseGo([c EXCEPT !.archived = TRUE], "after"))
    BY <1>7 DEF FinishAndArchive, StageStep
  <2> QED BY <1>1, <1>2, <1>4, <1>5, <2>1
<1>8. CASE RevalidatePeerAfter
  <2>1. \/ StageRaises \/ (NoFrames /\ CaseGo(c, "close-peer"))
        \/ NoFrames /\ CaseGo(c, "keys") /\ c.kind # "lan"
    BY <1>8 DEF RevalidatePeerAfter, StageStep
  <2> QED BY <1>1, <1>2, <1>4, <1>5, <2>1
<1>9. CASE ClosePeer
  <2>1. NoFrames /\ CaseGo(c, "closing") BY <1>9 DEF ClosePeer
  <2> QED BY <1>1, <1>2, <1>5, <2>1
<1>10. CASE PeerClosed
  <2>1. \/ StageRaises
        \/ NoFrames /\ CaseGo(c, "keys") /\ lease'.st = "closed" /\ ~lease'.unclean
    BY <1>10 DEF PeerClosed, StageStep
  <2> QED BY <1>1, <1>2, <1>4, <1>5, <2>1
<1>11. CASE CleanupKeys
  <2>1. c.pc = "keys" /\ lease' = lease /\ (StageRaises \/ StageCompletes([c EXCEPT !.key = FALSE]))
    BY <1>11 DEF CleanupKeys, CaseAt
  <2>2. CASE StageCompletes([c EXCEPT !.key = FALSE])
    <3>1. StageEffect(7) BY <1>1, <1>2, <2>2, StageCompleting
    <3>2. LeaseEffect BY <2>1 DEF AcceptInv, Returned, LeaseEffect
    <3> QED BY <1>1, <3>1, <3>2
  <2> QED BY <1>1, <1>4, <2>1, <2>2
<1> QED BY <1>1, <1>6, <1>7, <1>8, <1>9, <1>10, <1>11

(* cleanup as the last stage: its answer never looks like a completed one. *)
LEMMA CleanupStageSteps ==
    ASSUME Placed, c.pc = "cleanup-stage", CancelCapture \/ AbortLease \/ CleanupEnds
    PROVE  InStage(7) /\ StageEffect(7) /\ LeaseEffect
<1>1. InStage(7) /\ c.seq = 7 BY DEF InStage, Ending, Placed
<1>2. Like(c) BY LikeIs
<1>3. CASE CleanupEnds
  <2>1. PICK rec : /\ rec \in {RemoveKeys} \cup (IF c.key THEN {[RemoveKeys EXCEPT !.unclean = TRUE, !.key = TRUE]} ELSE {})
                   /\ \/ Answer([rec EXCEPT !.error = TRUE, !.finish = "cancelled"], 7, "failed", "await-final")
                      \/ /\ c.terminal = "aborted"
                         /\ Answer([rec EXCEPT !.finish = "complete"], 7, "ok", "await-final")
                      \/ Answer([rec EXCEPT !.finish = "cancelled"], 7, "failed", "await-final")
    BY <1>3 DEF CleanupEnds
  <2>2. Like(rec) /\ rec.terminal = c.terminal
    BY <1>2, <2>1 DEF RemoveKeys, Like, Shaped, CaseFields
  <2> DEFINE r1 == [rec EXCEPT !.error = TRUE, !.finish = "cancelled"]
             r2 == [rec EXCEPT !.finish = "complete"]
             r3 == [rec EXCEPT !.finish = "cancelled"]
  <2>3. /\ Like(r1) /\ r1.finish = "cancelled" /\ Like(r2) /\ r2.terminal = c.terminal
        /\ Like(r3) /\ r3.finish = "cancelled"
    BY <2>2 DEF Like, Shaped, CaseFields
  <2>4. \/ Answer(r1, 7, "failed", AfterStage(7)) \/ (c.terminal = "aborted" /\ Answer(r2, 7, "ok", AfterStage(7)))
        \/ Answer(r3, 7, "failed", AfterStage(7))
    BY <2>1 DEF AfterStage
  <2> HIDE DEF r1, r2, r3
  <2>5. StageEffect(7) /\ (c'.finish = "cancelled" \/ c'.terminal = "aborted") /\ c'.pc = "await-final"
    BY <1>1, <2>3, <2>4, StageAnswers DEF AfterStage
  <2> QED BY <1>1, <2>5 DEF LeaseEffect
<1>4. CASE CancelCapture \/ AbortLease
  <2>1. hostVars' = hostVars /\ (c' = c \/ c' = [c EXCEPT !.unclean = TRUE])
    BY <1>4 DEF CancelCapture, AbortLease
  <2>2. Like(c') /\ c'.pc = c.pc
    <3>1. CASE c' = c BY <1>2, <3>1 DEF Like
    <3>2. CASE c' = [c EXCEPT !.unclean = TRUE] BY <1>2, <3>2 DEF Like, Shaped, CaseFields
    <3> QED BY <2>1, <3>1, <3>2
  <2>3. InStage(7)' BY <1>1, <2>2 DEF InStage, Like, Ending
  <2>4. "cleanup-stage" \notin Opening BY DEF Opening
  <2> QED BY <1>1, <2>1, <2>2, <2>3, <2>4 DEF StageEffect, Same, Like, hostVars, LeaseEffect
<1> QED BY <1>3, <1>4

-----------------------------------------------------------------------------
(* The capture and the stages that were sent.                              *)

(* A capture that is not started again keeps what it saw.                  *)
LEMMA CapKept ==
    ASSUME CapInv, Same, c.pc # "ended", cap' = [st |-> cap'.st, recs |-> cap.recs],
           cap'.st = "running" => cap.st = "running"
    PROVE  CapInv'
<1>1. cap'.recs = cap.recs OBVIOUS
<1> QED BY <1>1 DEF CapInv, Same

(* A capture that does not change.                                         *)
LEMMA CapSame == ASSUME CapInv, Same, c.pc # "ended", UNCHANGED cap PROVE CapInv'
BY DEF CapInv, Same

(* A sequence with the first m elements of another after it.               *)
Joined(a, b, m) == a \o SubSeq(b, 1, m)
Continues(s, a, b, m) == (\A k \in DOMAIN a : s[k] = a[k]) /\ (\A k \in 1..m : s[Len(a) + k] = b[k])
(* The records after a stage are the old ones and the stage's first.       *)
LEMMA RecordsAdded ==
    ASSUME NEW a, NEW b, IsSeq(a), IsSeq(b), NEW m \in Nat, m <= Len(b), NEW s, s = Joined(a, b, m)
    PROVE  /\ IsSeq(s) /\ Len(s) = Len(a) + m /\ DOMAIN s = 1..(Len(a) + m) /\ Len(a) \in Nat
           /\ DOMAIN a = 1..Len(a) /\ Continues(s, a, b, m)
<1>1. PICK S, T : a \in Seq(S) /\ b \in Seq(T) BY DEF IsSeq
<1>2. a \in Seq(S \cup T) /\ b \in Seq(S \cup T) BY <1>1
<1>3. PICK p : p = SubSeq(b, 1, m) OBVIOUS
<1>4. p \in Seq(S \cup T) /\ Len(p) = m /\ \A k \in 1..m : p[k] = b[k]
  <2>1. \A k \in 1..m : b[k] \in S \cup T BY <1>2
  <2>2. p = [k \in 1..m |-> b[k]] BY <1>2, <1>3
  <2> QED BY <2>1, <2>2
<1>5. a \o p \in Seq(S \cup T) /\ Len(a \o p) = Len(a) + m BY <1>2, <1>4, ConcatProperties
<1>6. \A k \in 1..m : (a \o p)[Len(a) + k] = p[k] BY <1>2, <1>4
<1>7. \A k \in 1..Len(a) : (a \o p)[k] = a[k] BY <1>2, <1>4
<1> QED BY <1>2, <1>3, <1>4, <1>5, <1>6, <1>7 DEF IsSeq, Joined, Continues

(* What a stage puts on the wire bears the stage's name.                   *)
LEMMA OnWireIs ==
    ASSUME NEW usual \in BOOLEAN, NextStage \in 1..3, c.kind \in CaseKinds
    PROVE  /\ IsSeq(OnWire(usual)) /\ Len(OnWire(usual)) \in Nat
           /\ \A k \in 1..Len(OnWire(usual)) : OnWire(usual)[k].stage = STAGES[NextStage]
           /\ c.kind = "absence" /\ NextStage = 2 /\ ~usual => Len(OnWire(usual)) = 1
           /\ DOMAIN OnWire(usual) = 1..Len(OnWire(usual))
<1>1. ASSUME NEW legs, NEW S, legs \in Seq(S)
      PROVE  /\ IsSeq(Packets(legs)) /\ Len(Packets(legs)) = Len(legs) /\ Len(legs) \in Nat
             /\ \A k \in 1..Len(legs) : Packets(legs)[k].stage = STAGES[NextStage]
  <2>1. \A k \in 1..Len(legs) : legs[k] \in S BY <1>1
  <2>2. Packets(legs) \in Seq([stage : {STAGES[NextStage]}, leg : S]) BY <1>1, <2>1 DEF Packets
  <2>3. DOMAIN Packets(legs) = 1..Len(legs) /\ Len(legs) \in Nat BY <1>1 DEF Packets
  <2>4. Len(Packets(legs)) = Len(legs) BY <2>2, <2>3
  <2>5. \A k \in 1..Len(legs) : Packets(legs)[k].stage = STAGES[NextStage] BY DEF Packets
  <2> QED BY <2>2, <2>3, <2>4, <2>5 DEF IsSeq
<1>2. Legs(c.kind) \in Seq({"query", "response", "segment"}) /\ Len(Legs(c.kind)) >= 1
      /\ (c.kind # "dns" => Len(Legs(c.kind)) = 1)
  <2>1. CASE c.kind = "dns"
    <3>1. Legs(c.kind) = <<"query", "response">> BY <2>1 DEF Legs
    <3>2. Len(<<"query", "response">>) = 2 OBVIOUS
    <3>3. <<"query", "response">> \in Seq({"query", "response", "segment"}) OBVIOUS
    <3>4. 2 >= 1 OBVIOUS
    <3> QED BY <2>1, <3>1, <3>2, <3>3, <3>4
  <2>2. CASE c.kind # "dns"
    <3>1. Legs(c.kind) = <<"segment">> BY <2>2 DEF Legs
    <3> QED BY <2>2, <3>1
  <2> QED BY <2>1, <2>2
<1>3. c.kind # "dns" => Len(Legs(c.kind)) = 1 BY <1>2
<1>4. <<>> \in Seq({"query", "response", "segment"}) OBVIOUS
<1>5. <<Legs(c.kind)[1]>> \o Legs(c.kind) \in Seq({"query", "response", "segment"})
  <2>1. Legs(c.kind)[1] \in {"query", "response", "segment"} BY <1>2
  <2>2. <<Legs(c.kind)[1]>> \in Seq({"query", "response", "segment"}) BY <2>1
  <2> QED BY <1>2, <2>2
<1>6. PICK legs \in Seq({"query", "response", "segment"}) :
        /\ OnWire(usual) = Packets(legs)
        /\ c.kind = "absence" /\ NextStage = 2 /\ ~usual => legs = Legs(c.kind)
  BY <1>2, <1>4, <1>5 DEF OnWire
<1>7. DOMAIN Packets(legs) = 1..Len(legs) BY DEF Packets
<1> QED BY <1>1, <1>3, <1>6, <1>7

RunStageSends ==
    /\ CaseAt("send") /\ Due /\ Routed /\ NoFrames /\ UNCHANGED <<tx, lease>>
    /\ \E usual \in BOOLEAN :
        /\ cap' = Captured(OnWire(usual))
        /\ CaseGo([c EXCEPT !.stages = Append(@, StageState),
                       !.leaked = @ \/ (c.kind = "absence" /\ NextStage = 2 /\ ~usual)], "send")

(* A stage is sent in the state the plan names, or the Host is doomed.     *)
LEMMA SendStep ==
    ASSUME HostRun, Placed, Doomed \/ InStep, StagesInv, CapInv, AcceptInv, RunStageSends
    PROVE  HostRun' /\ Placed' /\ (Doomed \/ InStep)' /\ StagesInv' /\ CapInv' /\ AcceptInv'
<1>1. PICK usual \in BOOLEAN :
        /\ cap' = Captured(OnWire(usual))
        /\ CaseGo([c EXCEPT !.stages = Append(@, StageState),
                       !.leaked = @ \/ (c.kind = "absence" /\ NextStage = 2 /\ ~usual)], "send")
  BY DEF RunStageSends
<1>2. c.pc = "send" /\ Due /\ UNCHANGED <<host, toHost, toCollector, connected, lease>>
  BY DEF RunStageSends, CaseAt, NoFrames, hostVars
<1>3. PICK leaks \in BOOLEAN : leaks = (c.leaked \/ (c.kind = "absence" /\ NextStage = 2 /\ ~usual)) OBVIOUS
<1>4. /\ Shaped(c', CaseFields) /\ c'.pc = "send" /\ c'.kind = c.kind /\ c'.seq = c.seq /\ c'.at = c.at
      /\ c'.accepted = c.accepted /\ c'.stages = Append(c.stages, StageState) /\ c'.leaked = leaks
  BY <1>1, <1>3 DEF CaseGo, Placed, Shaped, CaseFields
<1>5. HostRun' /\ (Doomed <=> Doomed') BY <1>2, HostRunKept
<1>6. Placed' BY <1>2, <1>4 DEF Placed, Opening, Ending
<1>7. (Doomed \/ InStep)' BY <1>2, <1>4, <1>5 DEF InStep, InStage, Silent, Told, Answered
<1>8. Len(c.stages) \in Nat /\ DOMAIN c.stages = 1..Len(c.stages) /\ Len(c'.stages) = Len(c.stages) + 1
      /\ NextStage \in 1..3
  BY <1>2, <1>4, FrameAdded DEF StagesInv, NextStage, Due
<1>9. StagesInv'
  <2>1. IsSeq(c'.stages) BY <1>4, FrameAdded DEF StagesInv
  <2>2. ASSUME ~Doomed
        PROVE  \/ StageState = StagePlan(c.kind)[NextStage]
               \/ StagePlan(c.kind)[NextStage] = "restored" /\ StageState = "carried"
    <3>1. c.at = StagePlan(c.kind)[NextStage] BY <1>2 DEF Due
    <3>2. <<c.seq, c.at>> \in Positions BY <1>2 DEF Placed
    <3>3. c.seq = 3 => host.snap = "baseline" BY <1>2, <2>2 DEF InStep, InStage
    <3>4. c.seq = 5 => host.snap = "test" BY <1>2, <2>2 DEF InStep, InStage
    <3>5. c.seq = 7 => host.pc = "await-finish" BY <1>2, <2>2 DEF InStep, InStage
    <3>6. c.seq = 7 => host.snap \in {"restored", "lapsed"} BY <2>2, <3>5 DEF HostRun, Final, Doomed
    <3>7. c.at = "restored" => host.routed
      <4>1. c.at = "restored" => c.kind = "absence" /\ NextStage = 3 BY <1>8, <3>1 DEF StagePlan
      <4> QED BY <4>1 DEF RunStageSends, Routed, Tunnelled
    <3> QED BY <3>1, <3>2, <3>3, <3>4, <3>6, <3>7 DEF Positions, StageState
  <2>3. ASSUME ~Doomed, NEW k \in DOMAIN c'.stages PROVE SentAsPlanned(k)'
    <3>1. CASE k \in DOMAIN c.stages BY <1>4, <2>3, <3>1, FrameAdded DEF StagesInv, SentAsPlanned
    <3>2. CASE k = Len(c.stages) + 1
      BY <1>4, <2>2, <2>3, <3>2, FrameAdded DEF StagesInv, SentAsPlanned, NextStage
    <3> QED BY <1>4, <2>3, <3>1, <3>2, FrameAdded DEF StagesInv
  <2> QED BY <1>4, <1>5, <1>8, <2>1, <2>3 DEF StagesInv, NextStage, Opening
<1>10. CapInv'
  <2>0. PICK P : P = OnWire(usual) OBVIOUS
  <2>1. /\ IsSeq(P) /\ Len(P) \in Nat /\ \A k \in 1..Len(P) : P[k].stage = STAGES[NextStage]
        /\ c.kind = "absence" /\ NextStage = 2 /\ ~usual => Len(P) = 1
    BY <1>8, <2>0, OnWireIs DEF Placed
  <2>2. NextStage < 3 => STAGES[NextStage] # "end" BY <1>8 DEF STAGES
  <2>3. NextStage = 2 => STAGES[NextStage] = "target" BY DEF STAGES
  <2>4. NextStage = Len(c'.stages) BY <1>8 DEF NextStage
  <2>5. Len(c.stages) < 3 => \A k \in DOMAIN cap.recs : cap.recs[k].stage # "end" BY <1>2 DEF CapInv
  <2>6. CASE cap.st # "running"
    <3>1. cap' = cap BY <1>1, <2>6 DEF Captured
    <3>2. ASSUME leaks
          PROVE  /\ c.kind = "absence" /\ Len(c'.stages) >= 2
                 /\ \/ \E k \in DOMAIN cap.recs : cap.recs[k].stage = "target"
                    \/ cap.st # "running" /\ \A k \in DOMAIN cap.recs : cap.recs[k].stage # "end"
      <4>1. CASE c.leaked BY <1>8, <4>1 DEF CapInv
      <4>2. CASE c.kind = "absence" /\ NextStage = 2 /\ ~usual
        <5>1. Len(c'.stages) >= 2 /\ Len(c.stages) < 3 BY <1>8, <2>4, <4>2 DEF NextStage
        <5> QED BY <2>5, <2>6, <4>2, <5>1
      <4> QED BY <1>3, <3>2, <4>1, <4>2
    <3>3. Len(c'.stages) < 3 => Len(c.stages) < 3 BY <1>8
    <3> QED BY <1>4, <2>5, <2>6, <3>1, <3>2, <3>3 DEF CapInv
  <2>7. CASE cap.st = "running"
    <3>0. RecordCount(c.kind) \in Nat BY DEF RecordCount, Legs
    <3>1. Len(cap.recs) \in Nat /\ Len(cap.recs) < RecordCount(c.kind)
      BY <2>7, FrameAdded DEF CapInv
    <3>2. PICK m \in Nat :
            /\ m <= Len(P) /\ (Len(P) >= 1 => m >= 1) /\ cap'.recs = cap.recs \o SubSeq(P, 1, m)
            /\ cap' = [st |-> cap'.st, recs |-> cap'.recs]
            /\ cap'.st = "running" => m = Len(P) /\ Len(P) < RecordCount(c.kind) - Len(cap.recs)
      <4> DEFINE room == RecordCount(c.kind) - Len(cap.recs)
                 take == IF Len(P) < room THEN Len(P) ELSE room
      <4>1. room \in Nat /\ room >= 1 /\ take \in Nat /\ take <= Len(P) /\ (Len(P) >= 1 => take >= 1)
            /\ (Len(P) < room => take = Len(P))
        BY <2>1, <3>0, <3>1
      <4>2. cap' = [st |-> IF Len(P) >= room THEN "exited" ELSE "running",
                    recs |-> cap.recs \o SubSeq(P, 1, take)]
        BY <1>1, <2>0, <2>7 DEF Captured
      <4>3. cap'.st = "running" => Len(P) < room BY <2>1, <4>1, <4>2
      <4> QED BY <4>1, <4>2, <4>3
    <3>3. /\ IsSeq(cap'.recs) /\ Len(cap'.recs) = Len(cap.recs) + m
          /\ DOMAIN cap'.recs = 1..(Len(cap.recs) + m) /\ DOMAIN cap.recs = 1..Len(cap.recs)
          /\ \A k \in DOMAIN cap.recs : cap'.recs[k] = cap.recs[k]
          /\ \A k \in 1..m : cap'.recs[Len(cap.recs) + k] = P[k]
      <4>1. IsSeq(cap.recs) BY DEF CapInv
      <4>0. IsSeq(P) /\ m \in Nat /\ m <= Len(P) BY <2>1, <3>2
      <4>2. PICK s : s = cap'.recs OBVIOUS
      <4>3. s = Joined(cap.recs, P, m) BY <3>2, <4>2 DEF Joined
      <4>4. /\ IsSeq(s) /\ Len(s) = Len(cap.recs) + m /\ DOMAIN s = 1..(Len(cap.recs) + m) /\ Len(cap.recs) \in Nat
            /\ DOMAIN cap.recs = 1..Len(cap.recs) /\ Continues(s, cap.recs, P, m)
        BY ONLY <4>0, <4>1, <4>3, RecordsAdded, ZenonT(60)
      <4> QED BY <4>2, <4>4 DEF Continues
    <3>4. cap'.st = "running" => Len(cap'.recs) < RecordCount(c.kind) BY <2>1, <3>0, <3>1, <3>2, <3>3
    <3>5. ASSUME Len(c'.stages) < 3, NEW k \in DOMAIN cap'.recs PROVE cap'.recs[k].stage # "end"
      <4>1. CASE k \in DOMAIN cap.recs BY <1>8, <2>5, <3>3, <3>5, <4>1
      <4>2. CASE k \notin DOMAIN cap.recs
        <5>1. k - Len(cap.recs) \in 1..m /\ k = Len(cap.recs) + (k - Len(cap.recs)) BY <3>1, <3>3, <4>2
        <5>2. k - Len(cap.recs) \in 1..Len(P) BY <2>1, <3>2, <5>1
        <5> QED BY <2>1, <2>2, <2>4, <3>3, <3>5, <5>1, <5>2
      <4> QED BY <4>1, <4>2
    <3>6. ASSUME leaks
          PROVE  /\ c.kind = "absence" /\ Len(c'.stages) >= 2
                 /\ \E k \in DOMAIN cap'.recs : cap'.recs[k].stage = "target"
      <4>1. CASE c.leaked
        <5>1. PICK k \in DOMAIN cap.recs : cap.recs[k].stage = "target" BY <2>7, <4>1 DEF CapInv
        <5>2. k \in DOMAIN cap'.recs BY <3>1, <3>3
        <5> QED BY <1>8, <3>3, <4>1, <5>1, <5>2 DEF CapInv
      <4>2. CASE c.kind = "absence" /\ NextStage = 2 /\ ~usual
        <5>0. Len(P) = 1 BY <2>1, <4>2
        <5>1. m >= 1 BY <3>2, <5>0
        <5>2. 1 \in 1..m /\ Len(cap.recs) + 1 \in DOMAIN cap'.recs /\ 1 \in 1..Len(P) BY <3>1, <3>3, <5>0, <5>1
        <5>3. cap'.recs[Len(cap.recs) + 1].stage = "target" BY <2>1, <2>3, <3>3, <4>2, <5>2
        <5> QED BY <2>4, <4>2, <5>2, <5>3
      <4> QED BY <1>3, <3>6, <4>1, <4>2
    <3> QED BY <1>4, <3>2, <3>3, <3>4, <3>5, <3>6 DEF CapInv
  <2> QED BY <2>6, <2>7
<1>11. AcceptInv' BY <1>2, <1>4 DEF AcceptInv, Returned
<1> QED BY <1>5, <1>6, <1>7, <1>9, <1>10, <1>11

-----------------------------------------------------------------------------
(* The collector's other steps.                                            *)

CaseRest == HostRun /\ Placed /\ (Doomed \/ InStep) /\ StagesInv

(* A step of a stage keeps the invariant.                                  *)
LEMMA StageDone ==
    ASSUME CaseInv, NEW n \in {3, 5, 7}, InStage(n), StageEffect(n), LeaseEffect, CapInv'
    PROVE  CaseInv'
<1>1. CaseRest' BY StageKeeps DEF CaseInv, CaseRest
<1>2. c.pc \notin {"cleanup", "ended"} BY DEF InStage, Opening, Ending
<1>3. ~c'.accepted /\ c'.kind = c.kind BY <1>2 DEF CaseInv, AcceptInv, StageEffect, Same
<1>4. c'.pc \notin {"finalize", "validate"} BY DEF StageEffect, InStage, AfterStage, Opening, Ending
<1>5. AcceptInv' BY <1>3, <1>4 DEF AcceptInv, Returned, LeaseEffect
<1> QED BY <1>1, <1>5 DEF CaseInv, CaseRest

(* Away from the keys and the last frame the lease does not matter.        *)
LEMMA NoLeaseEffect ==
    ASSUME NEW n \in {3, 5, 7}, StageEffect(n), c'.pc # "keys",
           n = 7 /\ c'.pc = AfterStage(7) => c'.finish = "cancelled"
    PROVE  LeaseEffect
<1>1. c'.pc = "await-final" => n = 7 /\ c'.pc = AfterStage(7)
  BY DEF StageEffect, InStage, AfterStage, Opening, Ending
<1> QED BY <1>1 DEF LeaseEffect

(* All steps within the three stages, except the sending.                  *)
LEMMA WithinStages ==
    ASSUME CaseInv,
           \/ AdmitPeer \/ PeerAdmitted \/ PrepareRemoteAccess \/ StartCapture \/ RevalidatePeerBefore
           \/ RunStageFails \/ StagesSent \/ ObserveProduct
           \/ FinishCapture \/ FinishAndArchive \/ RevalidatePeerAfter \/ ClosePeer \/ PeerClosed \/ CleanupKeys
           \/ c.pc = "cleanup-stage" /\ (CancelCapture \/ AbortLease \/ CleanupEnds)
    PROVE  CaseInv'
<1> USE DEF CaseInv
<1>0. ASSUME NEW n \in {3, 5, 7}, InStage(n), StageEffect(n), UNCHANGED cap PROVE CapInv'
  <2>1. c.pc # "ended" BY <1>0 DEF InStage, Opening, Ending
  <2> QED BY <1>0, <2>1, CapSame DEF StageEffect
<1>1. CASE AdmitPeer \/ PeerAdmitted \/ PrepareRemoteAccess \/ StartCapture \/ RevalidatePeerBefore
  <2>1. StageEffect(3) /\ InStage(3) /\ c.pc \in Opening BY <1>1, OpeningSteps
  <2>2. LeaseEffect
    <3>1. c'.pc \notin {"keys", "await-final"} BY <2>1 DEF StageEffect, InStage, AfterStage, Opening
    <3> QED BY <3>1 DEF LeaseEffect
  <2>3. CapInv'
    <3>1. CASE StartCapture
      <4>1. cap'.recs = <<>> /\ cap' = [st |-> cap'.st, recs |-> cap'.recs]
        BY <3>1 DEF StartCapture, Spawned, NoCapture
      <4>2. IsSeq(<<>>) /\ DOMAIN <<>> = {} /\ Len(<<>>) = 0 BY DEF IsSeq
      <4>3. c.stages = <<>> BY <2>1 DEF StagesInv
      <4>4. ~c.leaked BY <4>2, <4>3 DEF CapInv
      <4>5. 0 < RecordCount(c'.kind)
        <5>1. c.kind = "dns" => Legs(c.kind) = <<"query", "response">> BY DEF Legs
        <5>2. c.kind # "dns" => Legs(c.kind) = <<"segment">> BY DEF Legs
        <5>3. Len(<<"query", "response">>) = 2 /\ Len(<<"segment">>) = 1 OBVIOUS
        <5>4. Len(Legs(c.kind)) \in {1, 2} BY <5>1, <5>2, <5>3
        <5>5. \A x \in {1, 2} : 0 < 3 * x OBVIOUS
        <5>6. RecordCount(c.kind) = 2 \/ RecordCount(c.kind) = 3 * Len(Legs(c.kind)) BY DEF RecordCount
        <5>7. PICK x \in {1, 2} : x = Len(Legs(c.kind)) BY <5>4
        <5>8. PICK y : y = RecordCount(c.kind) OBVIOUS
        <5>9. y = 2 \/ y = 3 * x BY <5>6, <5>7, <5>8
        <5>10. 0 < y BY <5>5, <5>9
        <5> QED BY <2>1, <5>8, <5>10 DEF StageEffect, Same
      <4>6. c'.leaked = c.leaked BY <2>1 DEF StageEffect, Same
      <4> QED BY <4>1, <4>2, <4>4, <4>5, <4>6 DEF CapInv
    <3>2. CASE ~StartCapture
      <4>1. UNCHANGED cap BY <1>1, <3>2 DEF AdmitPeer, PeerAdmitted, PrepareRemoteAccess, RevalidatePeerBefore
      <4> QED BY <1>0, <2>1, <4>1
    <3> QED BY <3>1, <3>2
  <2> QED BY <2>1, <2>2, <2>3, StageDone
<1>2. CASE RunStageFails \/ StagesSent
  <2>1. PICK n \in {3, 5, 7} : /\ InStage(n) /\ StageEffect(n) /\ c'.pc # "keys"
                               /\ n = 7 /\ c'.pc = AfterStage(7) => c'.finish = "cancelled"
    BY <1>2, SendingSteps
  <2>2. UNCHANGED cap BY <1>2 DEF RunStageFails, StagesSent
  <2> QED BY <1>0, <2>1, <2>2, NoLeaseEffect, StageDone
<1>3. CASE ObserveProduct
  <2>1. PICK n \in {5, 7} : /\ InStage(n) /\ StageEffect(n) /\ c'.pc # "keys"
                            /\ n = 7 /\ c'.pc = AfterStage(7) => c'.finish = "cancelled"
    BY <1>3, ObserveSteps
  <2>2. UNCHANGED cap BY <1>3 DEF ObserveProduct
  <2>3. n \in {3, 5, 7} OBVIOUS
  <2> QED BY <1>0, <2>1, <2>2, <2>3, NoLeaseEffect, StageDone
<1>4. CASE FinishCapture \/ FinishAndArchive \/ RevalidatePeerAfter \/ ClosePeer \/ PeerClosed \/ CleanupKeys
  <2>1. InStage(7) /\ StageEffect(7) /\ LeaseEffect BY <1>4, EndingSteps
  <2>2. UNCHANGED cap
    BY <1>4 DEF FinishCapture, FinishAndArchive, RevalidatePeerAfter, ClosePeer, PeerClosed, CleanupKeys
  <2> QED BY <1>0, <2>1, <2>2, StageDone
<1>5. CASE c.pc = "cleanup-stage" /\ (CancelCapture \/ AbortLease \/ CleanupEnds)
  <2>1. InStage(7) /\ StageEffect(7) /\ LeaseEffect BY <1>5, CleanupStageSteps
  <2>2. CapInv'
    <3>1. CASE CancelCapture
      <4>1. cap' = [st |-> cap'.st, recs |-> cap.recs] /\ cap'.st # "running"
        BY <3>1 DEF CancelCapture, CapInv
      <4> QED BY <1>5, <2>1, <4>1, CapKept DEF StageEffect
    <3>2. CASE AbortLease \/ CleanupEnds
      <4>1. UNCHANGED cap BY <3>2 DEF AbortLease, CleanupEnds
      <4> QED BY <1>0, <2>1, <4>1
    <3> QED BY <1>5, <3>1, <3>2
  <2> QED BY <2>1, <2>2, StageDone
<1> QED BY <1>1, <1>2, <1>3, <1>4, <1>5

(* The transaction ends: nothing is expected of the Host any more.         *)
LEMMA EndStep ==
    ASSUME CaseInv, c.pc \in Awaiting, NEW l \in {"cleanup", "finalize"}, EndTransaction(c, l),
           UNCHANGED <<lease, cap>>,
           l = "finalize" => /\ c.finish = "complete" /\ c.terminal = "restored" /\ c.pc = "await-final"
                             /\ host.outcome = "completed"
    PROVE  CaseInv'
<1> USE DEF CaseInv
<1>1. /\ Shaped(c', CaseFields) /\ c'.pc = l /\ c'.kind = c.kind /\ c'.stages = c.stages
      /\ c'.leaked = c.leaked /\ c'.accepted = c.accepted
  BY DEF EndTransaction, CaseGo, Placed, Shaped, CaseFields
<1>2. HostRun' /\ (Doomed <=> Doomed') /\ host' = host BY HostRunKept DEF EndTransaction
<1>3. Placed' BY <1>1 DEF Placed, Over, Opening, Ending, Awaiting
<1>4. InStep' BY <1>1 DEF InStep, InStage, Opening, Ending
<1>5. StagesInv' BY <1>1, <1>2 DEF StagesInv, SentAsPlanned, Opening
<1>6. CapInv' BY <1>1, CapSame DEF Same, Awaiting
<1>7. AcceptInv'
  <2>1. ~c.accepted BY DEF AcceptInv, Awaiting
  <2> QED BY <1>1, <1>2, <2>1 DEF AcceptInv, Returned
<1> QED BY <1>2, <1>3, <1>4, <1>5, <1>6, <1>7

(* A frame is taken and the next stage begins.                             *)
LEMMA TakenStep ==
    ASSUME CaseInv, c.pc \in Awaiting, toCollector # <<>>, Taken, UNCHANGED <<lease, cap>>,
           NEW n \in {3, 5, 7}, NEW l, NEW at, <<n, at>> \in Positions,
           Same, c'.pc = l, c'.seq = n, c'.at = at,
           (n = 3 /\ l = "admit-peer" /\ c.pc = "await-first") \/ (n = 5 /\ l = "observe") \/ (n = 7 /\ l = "finish"),
           \/ Doomed
           \/ /\ toHost = <<>> /\ Tail(toCollector) = <<>>
              /\ n = 3 => host.pc = "await-begin" /\ host.snap = "baseline"
              /\ n = 5 => host.pc = "await-test" /\ host.snap = "test"
              /\ n = 7 => host.pc = "await-finish"
    PROVE  CaseInv'
<1> USE DEF CaseInv
<1>1. HostRun' /\ (Doomed <=> Doomed') /\ host' = host /\ toHost' = toHost /\ toCollector' = Tail(toCollector)
  BY HostRunKept DEF Taken
<1>2. connected' BY DEF Taken, Placed, Awaiting, Over
<1>3. Placed' BY <1>2 DEF Placed, Same, Opening, Ending
<1>4. (Doomed \/ InStep)' BY <1>1 DEF InStep, InStage, Silent, Opening, Ending
<1>5. StagesInv' BY <1>1 DEF StagesInv, SentAsPlanned, Same, Opening
<1>6. CapInv' BY CapSame DEF Awaiting
<1>7. AcceptInv'
  <2>1. ~c.accepted BY DEF AcceptInv, Awaiting
  <2> QED BY <2>1 DEF AcceptInv, Returned, Same
<1> QED BY <1>1, <1>3, <1>4, <1>5, <1>6, <1>7

(* The frames of the Host, in the order the collector waits for them.      *)
LEMMA AwaitSteps ==
    ASSUME CaseInv, AwaitFirst \/ AwaitProgress \/ AwaitTerminal \/ AwaitFinal
    PROVE  CaseInv'
<1>0. c.pc \in Awaiting /\ UNCHANGED <<lease, cap>>
  BY DEF AwaitFirst, AwaitProgress, AwaitTerminal, AwaitFinal, Receive, CaseAt, Awaiting
<1>1. Raise => CaseInv' BY <1>0, EndStep DEF Raise
<1>2. Shaped(c, CaseFields) BY DEF CaseInv, Placed
<1>3. PICK f : f = Head(toCollector) OBVIOUS
<1>4. \A g : toCollector = <<g>> => f = g /\ Tail(toCollector) = <<>> BY <1>3, OneFrame
<1>5. CASE AwaitFirst
  <2>1. CASE toCollector # <<>> /\ IsBaseline(f) /\ Taken
             /\ CaseGo([c EXCEPT !.seq = 3, !.at = "baseline"], "admit-peer")
    <3>1. Same /\ c'.pc = "admit-peer" /\ c'.seq = 3 /\ c'.at = "baseline"
      BY <1>2, <2>1 DEF CaseGo, Same, Shaped, CaseFields
    <3>2. c.pc = "await-first" BY <1>5 DEF AwaitFirst, Receive, CaseAt
    <3>3. Doomed \/ (host.pc = "await-begin" /\ host.snap = "baseline" /\ Told(Frame(2, "baseline", "none")))
      <4>1. f # Frame(8, "failed", "refused") BY <2>1 DEF IsBaseline, Frame
      <4> QED BY <1>4, <2>1, <3>2, <4>1 DEF CaseInv, InStep, Told
    <3>4. Told(Frame(2, "baseline", "none")) => toHost = <<>> /\ Tail(toCollector) = <<>>
      BY <1>4 DEF Told
    <3>5. <<3, "baseline">> \in Positions BY DEF Positions
    <3> QED BY <1>0, <2>1, <3>1, <3>2, <3>3, <3>4, <3>5, TakenStep
  <2> QED BY <1>1, <1>3, <1>5, <2>1 DEF AwaitFirst, Receive
<1>6. ASSUME c.pc \in {"await-progress", "await-terminal"}, toCollector # <<>>, IsRestored(f) \/ IsAborted(f), Taken,
             CaseGo(Finishing(f), "finish")
      PROVE  CaseInv'
  <2>1. Same /\ c'.pc = "finish" /\ c'.seq = 7 /\ c'.at = "restored"
    BY <1>2, <1>6 DEF CaseGo, Finishing, Same, Shaped, CaseFields
  <2>2. Doomed \/ (host.pc = "await-finish" /\ Told(Frame(6, "restored", "none")))
    <3>1. f # Frame(4, "test", "none") BY <1>6 DEF IsRestored, IsAborted, Frame
    <3> QED BY <1>4, <1>6, <3>1 DEF CaseInv, InStep, Told, Silent, Answered
  <2>3. Told(Frame(6, "restored", "none")) => toHost = <<>> /\ Tail(toCollector) = <<>> BY <1>4 DEF Told
  <2>4. <<7, "restored">> \in Positions BY DEF Positions
  <2> QED BY <1>0, <1>6, <2>1, <2>2, <2>3, <2>4, TakenStep
<1>7. CASE AwaitProgress
  <2>0. c.pc = "await-progress" BY <1>7 DEF AwaitProgress, Receive, CaseAt
  <2>1. \/ Raise
        \/ toCollector # <<>> /\ (IsRestored(f) \/ IsAborted(f)) /\ Taken /\ CaseGo(Finishing(f), "finish")
        \/ /\ toCollector # <<>> /\ IsTest(f) /\ Taken
           /\ CaseGo([c EXCEPT !.seq = 5, !.at = "test", !.testHost = TRUE], "observe")
    BY <1>3, <1>7 DEF AwaitProgress, Receive
  <2>2. CASE /\ toCollector # <<>> /\ IsTest(f) /\ Taken
             /\ CaseGo([c EXCEPT !.seq = 5, !.at = "test", !.testHost = TRUE], "observe")
    <3>1. Same /\ c'.pc = "observe" /\ c'.seq = 5 /\ c'.at = "test"
      BY <1>2, <2>2 DEF CaseGo, Same, Shaped, CaseFields
    <3>2. Doomed \/ (host.pc = "await-test" /\ host.snap = "test" /\ Told(Frame(4, "test", "none")))
      BY <2>0, <2>2 DEF CaseInv, InStep, Silent, Answered
    <3>3. Told(Frame(4, "test", "none")) => toHost = <<>> /\ Tail(toCollector) = <<>> BY <1>4 DEF Told
    <3>4. <<5, "test">> \in Positions BY DEF Positions
    <3> QED BY <1>0, <2>2, <3>1, <3>2, <3>3, <3>4, TakenStep
  <2> QED BY <1>1, <1>6, <2>0, <2>1, <2>2
<1>8. CASE AwaitTerminal
  <2>0. c.pc = "await-terminal" BY <1>8 DEF AwaitTerminal, Receive, CaseAt
  <2>1. \/ Raise
        \/ toCollector # <<>> /\ (IsRestored(f) \/ IsAborted(f)) /\ Taken /\ CaseGo(Finishing(f), "finish")
    BY <1>3, <1>8 DEF AwaitTerminal, Receive
  <2> QED BY <1>1, <1>6, <2>0, <2>1
<1>9. CASE AwaitFinal
  <2>0. c.pc = "await-final" BY <1>9 DEF AwaitFinal, Receive, CaseAt
  <2>1. Raise \/ (toCollector # <<>> /\ MayComplete(f) /\ EndTransaction(c, "finalize"))
    BY <1>3, <1>9 DEF AwaitFinal, Receive
  <2>2. CASE toCollector # <<>> /\ MayComplete(f) /\ EndTransaction(c, "finalize")
    <3>1. host.outcome = "completed"
      <4>1. 1 \in DOMAIN toCollector /\ toCollector[1] = f BY <1>3, <2>2, FrameTaken DEF CaseInv, HostRun
      <4> QED BY <2>2, <4>1 DEF MayComplete, IsReceipt, CaseInv, HostRun
    <3> QED BY <1>0, <2>0, <2>2, <3>1, EndStep DEF MayComplete
  <2> QED BY <1>1, <2>1, <2>2
<1> QED BY <1>5, <1>7, <1>8, <1>9

(* Before and after the transaction with the Host.                         *)
LEMMA OverSteps ==
    ASSUME CaseInv, LeaseInv,
           \/ SourceRefused \/ Request \/ Finalize \/ ValidateEvidence \/ NextCase \/ CollectorDies \/ CaptureDies
           \/ c.pc = "cleanup" /\ (CancelCapture \/ AbortLease \/ CleanupEnds)
    PROVE  CaseInv'
<1> USE DEF CaseInv
<1>0. Shaped(c, CaseFields) BY DEF Placed
<1>1. ASSUME NEW l \in Over, c.pc \in Over, Shaped(c', CaseFields), c'.pc = l, c'.kind \in CaseKinds,
             UNCHANGED hostVars
      PROVE  HostRun' /\ Placed' /\ InStep' /\ (Doomed <=> Doomed')
  <2>1. HostRun' /\ (Doomed <=> Doomed') BY <1>1, HostRunKept DEF hostVars
  <2>2. Placed' BY <1>1 DEF Placed, Over, Opening, Ending
  <2>3. InStep' BY <1>1 DEF InStep, InStage, Over, Opening, Ending
  <2> QED BY <2>1, <2>2, <2>3
<1>2. CASE SourceRefused
  <2>1. Same /\ c'.pc = "ended" /\ c.pc = "idle" /\ UNCHANGED <<hostVars, lease, cap>>
    BY <1>0, <1>2 DEF SourceRefused, OnlyCase, CaseGo, CaseAt, Same, Shaped, CaseFields
  <2>2. HostRun' /\ Placed' /\ InStep' /\ (Doomed <=> Doomed') BY <1>1, <2>1 DEF Over, Same, Placed
  <2>3. StagesInv' /\ CapInv' BY <2>1, <2>2, CapSame DEF StagesInv, Same, Opening
  <2>4. AcceptInv' BY <2>1 DEF AcceptInv, Returned, Same, hostVars
  <2> QED BY <2>2, <2>3, <2>4
<1>3. CASE Request
  <2>1. /\ c.pc = "idle" /\ CaseGo(c, "await-first") /\ UNCHANGED <<lease, cap>> /\ connected'
        /\ host' = NewHost /\ toCollector' = <<>> /\ toHost' = <<Frame(1, "request", "none")>>
    BY <1>3 DEF Request, CaseAt
  <2>2. Same /\ c'.pc = "await-first" BY <1>0, <2>1 DEF CaseGo, Same, Shaped, CaseFields
  <2>3. HostRun'
    <3>1. IsSeq(<<>>) /\ DOMAIN <<>> = {} BY DEF IsSeq
    <3> QED BY <2>1, <3>1 DEF HostRun, NewHost, HostPcs, Final
  <2>4. Placed' BY <2>1, <2>2 DEF Placed, Same, Opening, Ending, Awaiting
  <2>5. InStep'
    <3>1. host'.pc = "idle" BY <2>1 DEF NewHost
    <3> QED BY <2>1, <2>2, <3>1 DEF InStep, InStage, Opening, Ending
  <2>6. StagesInv'
    <3>1. c'.stages = <<>> BY <2>1, <2>2 DEF StagesInv, Same
    <3>2. DOMAIN <<>> = {} OBVIOUS
    <3> QED BY <2>2, <3>1, <3>2 DEF StagesInv, Same
  <2>7. CapInv' BY <2>1, <2>2, CapSame
  <2>8. AcceptInv' BY <2>1, <2>2 DEF AcceptInv, Returned, Same
  <2> QED BY <2>3, <2>4, <2>5, <2>6, <2>7, <2>8
<1>4. CASE Finalize
  <2>1. /\ Same /\ c'.pc \in {"validate", "cleanup"} /\ c.pc = "finalize" /\ UNCHANGED <<hostVars, lease, cap>>
    BY <1>0, <1>4 DEF Finalize, OnlyCase, CaseGo, CaseAt, Same, Shaped, CaseFields
  <2>2. HostRun' /\ Placed' /\ InStep' /\ (Doomed <=> Doomed') BY <1>1, <2>1 DEF Over, Same, Placed
  <2>3. StagesInv' /\ CapInv' BY <2>1, <2>2, CapSame DEF StagesInv, SentAsPlanned, Same, Opening
  <2>4. AcceptInv' BY <2>1 DEF AcceptInv, Returned, Same, hostVars
  <2> QED BY <2>2, <2>3, <2>4
<1>5. CASE ValidateEvidence
  <2>1. PICK ok \in BOOLEAN :
          /\ ok => StagedTokens /\ SendAttempt
          /\ c' = [[c EXCEPT !.accepted = ok] EXCEPT !.pc = "cleanup"]
    BY <1>5 DEF ValidateEvidence, CaseGo
  <2>2. /\ Shaped(c', CaseFields) /\ c'.pc = "cleanup" /\ c'.kind = c.kind /\ c'.stages = c.stages
        /\ c'.leaked = c.leaked /\ c'.accepted = ok
    BY <1>0, <2>1 DEF Shaped, CaseFields
  <2>3. c.pc = "validate" /\ UNCHANGED <<hostVars, lease, cap>>
    BY <1>5 DEF ValidateEvidence, CaseAt, OnlyCase
  <2>4. HostRun' /\ Placed' /\ InStep' /\ (Doomed <=> Doomed') BY <1>1, <2>2, <2>3 DEF Over, Placed
  <2>5. StagesInv' BY <2>2, <2>4 DEF StagesInv, SentAsPlanned, Opening
  <2>6. CapInv' BY <2>2, <2>3 DEF CapInv
  <2>7. ok => ~c.leaked
    <3>1. SUFFICES ASSUME ok, c.leaked PROVE FALSE OBVIOUS
    <3>2. c.kind = "absence" BY <3>1 DEF CapInv
    <3>3. At("target") = {} /\ SeenOnce("end") BY <2>1, <3>1, <3>2 DEF StagedTokens, MarkerWindow
    <3>4. Legs(c.kind) = <<"segment">> /\ Len(<<"segment">>) = 1 BY <3>2 DEF Legs
    <3>5. \E j : j \in At("end") BY <3>3, <3>4 DEF SeenOnce
    <3>6. \E j \in DOMAIN cap.recs : cap.recs[j].stage = "end" BY <3>5 DEF At
    <3>7. ~\E j \in DOMAIN cap.recs : cap.recs[j].stage = "target" BY <3>3 DEF At
    <3> QED BY <3>1, <3>6, <3>7 DEF CapInv
  <2>8. AcceptInv' BY <2>1, <2>2, <2>3, <2>7 DEF AcceptInv, Returned, hostVars, SendAttempt
  <2> QED BY <2>4, <2>5, <2>6, <2>8
<1>6. CASE NextCase
  <2>1. c' = NewCase("lan") /\ cap' = NoCapture /\ c.pc = "ended" /\ UNCHANGED hostVars
    BY <1>6 DEF NextCase, CaseAt
  <2>2. /\ Shaped(c', CaseFields) /\ c'.pc = "idle" /\ c'.kind = "lan" /\ c'.stages = <<>>
        /\ c'.leaked = FALSE /\ c'.accepted = FALSE
    BY <2>1 DEF NewCase, Shaped, CaseFields
  <2>3. HostRun' /\ Placed' /\ InStep' /\ (Doomed <=> Doomed') BY <1>1, <2>1, <2>2 DEF Over, CaseKinds
  <2>4. IsSeq(<<>>) /\ DOMAIN <<>> = {} /\ Len(<<>>) = 0 BY DEF IsSeq
  <2>5. StagesInv' BY <2>2, <2>4 DEF StagesInv
  <2>6. CapInv' BY <2>1, <2>2, <2>4 DEF CapInv, NoCapture
  <2>7. AcceptInv' BY <2>2 DEF AcceptInv, Returned
  <2> QED BY <2>3, <2>5, <2>6, <2>7
<1>7. CASE CollectorDies
  <2>1. /\ c' = [NewCase(c.kind) EXCEPT !.pc = "ended", !.unclean = TRUE] /\ connected' = FALSE
        /\ toCollector' = <<>> /\ UNCHANGED <<host, toHost>>
        /\ cap' = [cap EXCEPT !.st = IF @ = "running" THEN "orphan" ELSE @]
    BY <1>7 DEF CollectorDies
  <2>2. /\ Shaped(c', CaseFields) /\ c'.pc = "ended" /\ c'.kind = c.kind /\ c'.stages = <<>>
        /\ c'.leaked = FALSE /\ c'.accepted = FALSE
    BY <2>1 DEF NewCase, Shaped, CaseFields
  <2>3. HostRun' BY <2>1, HostRunKept
  <2>4. Placed' BY <2>2 DEF Placed, Over, Opening, Ending
  <2>5. InStep' BY <2>2 DEF InStep, InStage, Opening, Ending
  <2>6. IsSeq(<<>>) /\ DOMAIN <<>> = {} /\ Len(<<>>) = 0 BY DEF IsSeq
  <2>7. StagesInv' BY <2>2, <2>6 DEF StagesInv
  <2>8. CapInv' BY <2>1, <2>2 DEF CapInv
  <2>9. AcceptInv' BY <2>2 DEF AcceptInv, Returned
  <2> QED BY <2>3, <2>4, <2>5, <2>7, <2>8, <2>9
<1>8. CASE CaptureDies
  <2>1. UNCHANGED <<hostVars, c, lease>> /\ cap' = [cap EXCEPT !.st = "cancelled"] BY <1>8 DEF CaptureDies
  <2>2. HostRun' /\ (Doomed <=> Doomed') BY <2>1, HostRunKept DEF hostVars
  <2>3. Placed' BY <2>1 DEF Placed, hostVars
  <2>4. InStep => InStep' BY <2>1 DEF InStep, InStage, hostVars, Silent, Told, Answered
  <2>5. StagesInv' BY <2>1, <2>2 DEF StagesInv, SentAsPlanned
  <2>6. CapInv' BY <2>1 DEF CapInv
  <2>7. AcceptInv' BY <2>1 DEF AcceptInv, Returned, hostVars
  <2> QED BY <2>2, <2>3, <2>4, <2>5, <2>6, <2>7
<1>9. CASE c.pc = "cleanup" /\ (CancelCapture \/ AbortLease \/ CleanupEnds)
  <2>1. /\ Same /\ c'.pc \in {"cleanup", "ended"} /\ UNCHANGED hostVars
        /\ lease' = lease \/ lease.st # "closed"
        /\ cap' = [st |-> cap'.st, recs |-> cap.recs] /\ (cap'.st = "running" => cap.st = "running")
    <3>1. CASE CancelCapture
      <4>1. UNCHANGED <<hostVars, lease>> /\ (c' = c \/ c' = [c EXCEPT !.unclean = TRUE])
            /\ \E s \in {"cancelled", "orphan"} : cap' = [cap EXCEPT !.st = s]
        BY <3>1 DEF CancelCapture
      <4>2. cap' = [st |-> cap'.st, recs |-> cap.recs] /\ cap'.st # "running" BY <4>1 DEF CapInv
      <4> QED BY <1>0, <1>9, <4>1, <4>2 DEF Same, Shaped, CaseFields
    <3>2. CASE AbortLease
      <4>1. UNCHANGED <<hostVars, c, cap>> /\ lease.st # "closed" BY <3>2 DEF AbortLease, Finish
      <4> QED BY <1>0, <1>9, <4>1 DEF Same, CapInv
    <3>3. CASE CleanupEnds
      <4>1. PICK rec : /\ rec \in {RemoveKeys} \cup (IF c.key THEN {[RemoveKeys EXCEPT !.unclean = TRUE, !.key = TRUE]} ELSE {})
                       /\ CaseGo(rec, "ended") /\ NoFrames
        BY <1>9, <3>3 DEF CleanupEnds
      <4>2. UNCHANGED <<lease, cap>> BY <3>3 DEF CleanupEnds
      <4>3. Like(c) BY LikeIs
      <4>4. Like(rec) BY <4>1, <4>3 DEF RemoveKeys, Like, Shaped, CaseFields
      <4>5. Same /\ c'.pc = "ended" BY <4>1, <4>4 DEF CaseGo, Like, Same, Shaped, CaseFields
      <4> QED BY <4>1, <4>2, <4>5 DEF NoFrames, CapInv
    <3> QED BY <1>9, <3>1, <3>2, <3>3
  <2>2. HostRun' /\ Placed' /\ InStep' /\ (Doomed <=> Doomed') BY <1>1, <1>9, <2>1 DEF Over, Same, Placed
  <2>3. StagesInv' BY <2>1, <2>2 DEF StagesInv, SentAsPlanned, Same, Opening
  <2>4. CapInv' BY <1>9, <2>1, CapKept
  <2>5. AcceptInv' BY <1>9, <2>1 DEF AcceptInv, Returned, Same, hostVars
  <2> QED BY <2>2, <2>3, <2>4, <2>5
<1> QED BY <1>2, <1>3, <1>4, <1>5, <1>6, <1>7, <1>8, <1>9

-----------------------------------------------------------------------------
(* The theorem about accepted evidence.                                    *)

(* The initial states are in lock-step: nothing has been asked yet.        *)
LEMMA CaseInvInit == Init => CaseInv
<1> SUFFICES ASSUME Init PROVE CaseInv OBVIOUS
<1>1. PICK k \in CaseKinds, w \in SourceChecks \cup {"none"} : c = [NewCase(k) EXCEPT !.wrong = w]
  BY DEF Init, CaseInit
<1>2. cap = NoCapture /\ host = NewHost /\ toCollector = <<>> BY DEF Init, CaseInit, HostInit
<1>3. /\ Shaped(c, CaseFields) /\ c.pc = "idle" /\ c.kind = k /\ c.stages = <<>>
      /\ c.leaked = FALSE /\ c.accepted = FALSE
  BY <1>1 DEF NewCase, Shaped, CaseFields
<1>4. IsSeq(<<>>) /\ DOMAIN <<>> = {} /\ Len(<<>>) = 0 BY DEF IsSeq
<1>5. HostRun BY <1>2, <1>4 DEF HostRun, NewHost, HostPcs, Final
<1>6. Placed BY <1>3 DEF Placed, Over, Opening, Ending
<1>7. InStep BY <1>3 DEF InStep, InStage, Opening, Ending
<1>8. StagesInv BY <1>3, <1>4 DEF StagesInv
<1>9. CapInv BY <1>2, <1>3, <1>4 DEF CapInv, NoCapture
<1>10. AcceptInv BY <1>3 DEF AcceptInv, Returned
<1> QED BY <1>5, <1>6, <1>7, <1>8, <1>9, <1>10 DEF CaseInv

(* A closed lease takes no step.                                           *)
LEMMA ClosedRests == ASSUME LeaseInv, lease.st = "closed" PROVE ~LeaseStep
<1>1. lease.pc = "idle" BY DEF LeaseInv
<1> QED BY <1>1 DEF LeaseStep, AdmitDevice, Preflight, WriteInstallIntent, Install, OwnInstall, LaunchPrimer,
      BindLaunchedPrimer, AuthorizePrimer, TerminatePrimer, StoppedPrimer, CopySession, LaunchPacketLan, Admitted,
      AmbiguousInstall, AuthorizeTerminate, Terminate, Terminated, Uninstall, Verify, Release, AdmitCheck,
      AdmitCommand, LeaseAt

(* No step of lease, Host, collector, lab or phone breaks the lock-step.   *)
LEMMA CaseInvStep == PhoneInv /\ HostInv /\ CaseInv /\ [Next]_vars => CaseInv'
<1> SUFFICES ASSUME PhoneInv, HostInv, CaseInv, [Next]_vars PROVE CaseInv' OBVIOUS
<1> USE DEF CaseInv
<1>1. ASSUME UNCHANGED <<hostVars, caseVars>>, lease' = lease \/ lease.st # "closed" PROVE CaseInv'
  <2>1. UNCHANGED <<host, toHost, toCollector, connected, c, cap>> BY <1>1 DEF hostVars, caseVars
  <2>2. HostRun' /\ (Doomed <=> Doomed') BY <2>1, HostRunKept
  <2>3. Placed' BY <2>1 DEF Placed
  <2>4. InStep => InStep' BY <2>1 DEF InStep, InStage, Silent, Told, Answered
  <2>5. StagesInv' BY <2>1, <2>2 DEF StagesInv, SentAsPlanned
  <2>6. CapInv' BY <2>1 DEF CapInv
  <2>7. AcceptInv' BY <1>1, <2>1 DEF AcceptInv, Returned
  <2> QED BY <2>2, <2>3, <2>4, <2>5, <2>6, <2>7
<1>2. CASE LeaseStep /\ UNCHANGED <<hostVars, caseVars>>
  BY <1>1, <1>2, ClosedRests DEF PhoneInv
<1>3. CASE HostStep /\ UNCHANGED <<phone, tx, lease, caseVars>>
  <2>1. HostRun' /\ (Doomed => Doomed') /\ host.pc # "done" BY <1>3, HostRuns
  <2>2. UNCHANGED <<c, cap, lease>> BY <1>3 DEF caseVars
  <2>3. connected' = connected
    BY <1>3 DEF HostStep, HostAdmit, BeginEnds, ApplyTest, TestEnds, StageEnds, RestoreBaseline, Quarantine,
                RecoverAfterPanic, FinishTerminal, FinishEnds, EngineDrifts
  <2>4. Placed' BY <2>2, <2>3 DEF Placed
  <2>5. (Doomed \/ InStep)' BY <1>3, <2>2, HostKeepsStep
  <2>6. StagesInv' BY <2>1, <2>2 DEF StagesInv, SentAsPlanned
  <2>7. CapInv' BY <2>2 DEF CapInv
  <2>8. host.outcome # "completed" BY <2>1 DEF HostRun
  <2>9. AcceptInv' BY <2>2, <2>8 DEF AcceptInv, Returned
  <2> QED BY <2>1, <2>4, <2>5, <2>6, <2>7, <2>9
<1>4. CASE CollectorStep \/ NextCase \/ CollectorDies
  <2>1. CASE RunStage
    <3>1. RunStageSends \/ RunStageFails BY <2>1 DEF RunStage, RunStageSends, RunStageFails
    <3> QED BY <3>1, SendStep, WithinStages
  <2>2. CASE CancelCapture \/ AbortLease \/ CleanupEnds
    <3>1. c.pc = "cleanup" \/ c.pc = "cleanup-stage"
      BY <2>2 DEF CancelCapture, AbortLease, CleanupEnds, InCleanup, CaseAt
    <3> QED BY <2>2, <3>1, OverSteps, WithinStages DEF PhoneInv
  <2>3. CASE \/ SourceRefused \/ Request \/ Finalize \/ ValidateEvidence \/ NextCase \/ CollectorDies \/ CaptureDies
    BY <2>3, OverSteps DEF PhoneInv
  <2>4. CASE AwaitFirst \/ AwaitProgress \/ AwaitTerminal \/ AwaitFinal BY <2>4, AwaitSteps
  <2>5. CASE \/ AdmitPeer \/ PeerAdmitted \/ PrepareRemoteAccess \/ StartCapture \/ RevalidatePeerBefore
             \/ StagesSent \/ ObserveProduct \/ FinishCapture \/ FinishAndArchive \/ RevalidatePeerAfter
             \/ ClosePeer \/ PeerClosed \/ CleanupKeys
    BY <2>5, WithinStages
  <2> QED BY <1>4, <2>1, <2>2, <2>3, <2>4, <2>5 DEF CollectorStep
<1>5. CASE UNCHANGED <<lease, hostVars, caseVars>> BY <1>1, <1>5
<1>6. UNCHANGED vars => UNCHANGED <<lease, hostVars, caseVars>> BY DEF vars
<1> QED BY <1>2, <1>3, <1>4, <1>5, <1>6 DEF Next, CaseOnly

(* Evidence that the validator takes was made as it says: every stage was  *)
(* sent in the state of the Host that the plan names or, when the engine   *)
(* changed by itself after the Host had observed it restored, still went   *)
(* through the tunnel; an absent target was never on the wire, the Host    *)
(* completed and restored its baseline, and the phone was given back,      *)
(* whatever timed out, drifted, panicked, died or was sent twice           *)
(* (packet.py, packet_host.py, execution.py and the Host's                 *)
(* engine/packet_evidence).                                                *)
THEOREM EvidenceIsAsPlanned == Spec => []AcceptedAsPlanned
<1>1. PhoneInv /\ CaseInv => AcceptedAsPlanned
  <2> SUFFICES ASSUME PhoneInv, CaseInv, c.accepted PROVE AcceptedAsPlanned BY DEF AcceptedAsPlanned
  <2>1. host.outcome = "completed" /\ Len(c.stages) = 3 /\ ~c.leaked BY DEF CaseInv, AcceptInv
  <2>2. host.snap \in {"restored", "lapsed"} /\ ~Doomed BY <2>1 DEF CaseInv, HostRun, Final, Doomed
  <2>3. DOMAIN c.stages = 1..3
    <3>1. IsSeq(c.stages) BY DEF CaseInv, StagesInv
    <3> QED BY <2>1, <3>1, FrameAdded
  <2>4. \A k \in 1..3 : SentAsPlanned(k) BY <2>2, <2>3 DEF CaseInv, StagesInv
  <2>5. c.kind = "lan" => lease.st = "closed" /\ ~lease.unclean /\ phone.app # tx
    BY DEF CaseInv, AcceptInv, Returned, PhoneInv, LeaseInv, Left
  <2> QED BY <2>1, <2>2, <2>4, <2>5 DEF AcceptedAsPlanned
<1>2. Spec => []CaseInv BY CaseInvInit, CaseInvStep, PacketInvariant, PTL DEF Spec
<1> QED BY <1>1, <1>2, PacketInvariant, PTL
=============================================================================
