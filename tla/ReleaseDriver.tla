----------------------------- MODULE ReleaseDriver -----------------------------
(***************************************************************************)
(* scripts/release_driver*.py: the one operator entry point of a release.  *)
(* It keeps almost no state: every stage is done when the files its tool   *)
(* publishes are there, and "run STAGE" is admitted only for the first     *)
(* stage that is not done.  The driver may be killed anywhere; its child   *)
(* then goes on alone, so a kill leaves any part of the child's effect.    *)
(* Freeze, signing and DMG submission are ReleasePipeline's, the owner's   *)
(* review sessions ReviewCarryover's; the other tools are taken by what    *)
(* they publish, and the install transactions by the contract that         *)
(* DormantInstall and ServiceMaintenance check in detail.                  *)
(***************************************************************************)
EXTENDS ReleasePipeline

CONSTANTS Items, Facts, NoFacts, Shipped,
          GA_INSTANCES           \* the evidence instances

VARIABLES
    evidence, template, review, draft, legal, human, session,
    driver,    \* the run that holds .run.lock: stage, what it does, with what
    files,     \* records, and artifacts of tools no other variable models
    migration, \* the release Mac: history, services, installed app
    instances, \* evidence instances that run
    reported,  \* instances the operator was told to stop
    shipped    \* this build is in the shipped-release ledger

reviewVars == <<evidence, template, review, draft, legal, human, session>>
driverVars == <<driver, files, migration, instances, reported, shipped>>
pipelineVars == <<freezeVars, signVars, dmgVars>>
releaseVars == <<pipelineVars, reviewVars, driverVars, faults>>

Review == INSTANCE ReviewCarryover

STAGES ==
    <<"enroll", "prepare", "ci", "build", "receipt", "review-template", "review",
      "publication-prepare", "draft", "legal-review", "finalize", "preserve", "seal-prepackage",
      "dmg", "updater", "install", "export", "acceptance", "seal-ga-acceptance",
      "seal-publication", "publish", "verify-remote">>
StageNames == {STAGES[i] : i \in DOMAIN STAGES}
REPEATABLE_WHEN_DONE == {"export"}
INSTALL_STEPS == <<"archive-history", "decommission", "install-app", "recommission">>
InstallStepNames == {INSTALL_STEPS[i] : i \in DOMAIN INSTALL_STEPS}

NoRun == [stage |-> "none", pc |-> "idle", arg |-> "none"]
OldMac == [history |-> "live", services |-> "on", app |-> "old"]

-----------------------------------------------------------------------------
(* Which stages the recorded state says are done.                          *)

\* The files whose presence completes a stage, in the order they appear.
Artifacts(s) ==
    CASE s = "enroll" -> <<"operator", "target", "enroll">>
      [] s = "build" -> <<"notarized">>
      [] s = "receipt" -> <<"hosted-ci">>
      [] s = "publication-prepare" -> <<"publication-prepared">>
      [] s = "finalize" -> <<"publication">>
      [] s = "preserve" -> <<"history", "source-tree", "moved", "tree-identity">>
      [] s = "updater" -> <<"updater-seal">>
      [] s = "install" -> INSTALL_STEPS
      [] s = "export" -> <<"migration-journals">>
      [] s = "acceptance" -> <<"runtime-collection", "runtime-evidence", "runtime-acceptance">>
      [] s = "seal-publication" -> <<"publication-seal", "distribution-seal">>
      [] s \in {"prepare", "ci", "seal-prepackage", "seal-ga-acceptance", "publish", "verify-remote"} -> <<s>>
PublicationDone == "publication" \in files
\* Mutant: a moved publication-prepared no longer counts.
PreparePublicationDoneByFile == "publication-prepared" \in files
PreparePublicationDone == "publication-prepared" \in files \/ PublicationDone
LegalReviewDone == legal.final # Review!Absent /\ review.approval # Review!Absent
InstallDone == InstallStepNames \subseteq files
\* The last file a stage publishes stands for the stage; a crash never takes an earlier one away.
LastFile(s) == Artifacts(s)[Len(Artifacts(s))]
Done(s) ==
    CASE s = "enroll" -> {"target", "enroll"} \subseteq files
      [] s = "review-template" -> template # Review!Absent
      [] s = "review" -> review.reviewed # Review!Absent
      [] s = "publication-prepare" -> PreparePublicationDone
      [] s = "draft" -> draft # Review!Absent \/ PublicationDone
      [] s = "legal-review" -> LegalReviewDone
      [] s = "dmg" -> final # Dmg!NoSet
      [] s = "install" -> InstallDone
      [] s = "seal-publication" -> {"publication-seal", "distribution-seal"} \subseteq files
      [] OTHER -> LastFile(s) \in files

FirstPending(s) ==
    ~Done(s) /\ \E i \in DOMAIN STAGES : STAGES[i] = s /\ \A j \in 1..(i - 1) : Done(STAGES[j])

-----------------------------------------------------------------------------
(* command_run.                                                            *)

Idle == driver = NoRun
Runs(s, pc) == driver.stage = s /\ driver.pc = pc
Goto(pc) == driver' = [driver EXCEPT !.pc = pc]
Ends == driver' = NoRun
Fault == faults < MaxFaults /\ faults' = faults + 1

\* read_ledger: this build is listed; _write_ledger replaces the ledger in one rename.
InLedger == shipped
Register == shipped' = TRUE
\* Mutant: the pending stage is not asked for.
AdmittedUnordered(s) == (s = "enroll" \/ Done("enroll")) /\ (~Done(s) \/ s \in REPEATABLE_WHEN_DONE)
\* Not shipped, not done already, and no earlier stage pending.
Admitted(s) ==
    /\ ~InLedger
    /\ \/ FirstPending(s)
       \/ s \in REPEATABLE_WHEN_DONE /\ Done(s)
\* Freeze, signing and DMG run as long as their stage is the pending one.
DriverStages == StageNames \ {"build", "dmg"}
CommandRun == \E s \in DriverStages :
    /\ Idle /\ Admitted(s)
    /\ driver' = [stage |-> s, pc |-> "guards", arg |-> "none"]
    /\ UNCHANGED <<pipelineVars, reviewVars, files, migration, instances, reported, shipped, faults>>

\* What a stage checks itself before its first effect.
StageGuards(s) ==
    CASE s = "enroll" -> "operator" \notin files
      [] s = "receipt" -> Done("ci") /\ Done("build")
      [] s = "publication-prepare" -> review.reviewed # Review!Absent
      [] s = "finalize" -> LegalReviewDone
      [] s = "preserve" -> "publication-prepared" \in files /\ "history" \notin files
      [] s = "install" -> Done("seal-prepackage") /\ Done("dmg") /\ Done("updater")
      [] OTHER -> TRUE
FirstLabel(s) ==
    CASE s \in {"review", "legal-review"} -> "session"
      [] s = "install" -> "install"
      [] s = "acceptance" -> "acceptance"
      [] OTHER -> "run"
CommonGuards ==
    /\ driver.pc = "guards" /\ StageGuards(driver.stage) /\ Goto(FirstLabel(driver.stage))
    /\ UNCHANGED <<pipelineVars, reviewVars, files, migration, instances, reported, shipped, faults>>
\* A dirty checkout, another Xcode, a full disk, a missing input: nothing is changed.
GuardsRefuse ==
    /\ driver.pc = "guards" /\ Ends
    /\ UNCHANGED <<pipelineVars, reviewVars, files, migration, instances, reported, shipped, faults>>

-----------------------------------------------------------------------------
(* Stages that run tools publishing files one after another.               *)

Missing(s) == {i \in DOMAIN Artifacts(s) : Artifacts(s)[i] \notin files}
NextFile(s) == Artifacts(s)[CHOOSE i \in Missing(s) : \A j \in Missing(s) : i <= j]

\* A tool refuses what it cannot read: a torn review, another closure's approval.
ToolAccepts(s) ==
    CASE s = "publication-prepare" ->
            review.reviewed.kind = "whole" /\ Review!Unresolved(review.reviewed.of) = {}
      [] s = "finalize" -> legal.final.kind = "whole" /\ legal.final.of = draft.of
      [] OTHER -> TRUE
\* preserve's rename takes publication-prepared out of the stage inputs.
WithFile(f) == (files \cup {f}) \ (IF f = "moved" THEN {"publication-prepared"} ELSE {})
Publishes(s) ==
    /\ Runs(s, "run") /\ Missing(s) # {} /\ ToolAccepts(s)
    /\ files' = WithFile(NextFile(s))
    /\ UNCHANGED <<pipelineVars, reviewVars, driver, migration, instances, reported, shipped, faults>>
\* Clone, worktree with its inputs, record: an unfinished enrolment is not replaced.
Enroll == Publishes("enroll")
\* The gates leave no file of their own, so the driver records them, and the CI run it selected.
Prepare == Publishes("prepare")
Ci == Publishes("ci")
Receipt == Publishes("receipt")
PreparePublication == Publishes("publication-prepare")
Finalize == Publishes("finalize")
\* History directory, hash, rename, second hash and identity.
Preserve == Publishes("preserve")
Seal == Publishes("seal-prepackage") \/ Publishes("seal-ga-acceptance") \/ Publishes("seal-publication")
Updater == Publishes("updater")
Export == Publishes("export")
\* The allowlist is printed, then recorded; the upload is the owner's.
Publish == Publishes("publish")
FileStages == {"enroll", "prepare", "ci", "receipt", "publication-prepare", "finalize", "preserve",
               "seal-prepackage", "updater", "export", "seal-ga-acceptance", "seal-publication",
               "publish"}
EntryEnds ==
    /\ driver.pc = "run" /\ driver.stage \in FileStages
    /\ Missing(driver.stage) = {} \/ ~ToolAccepts(driver.stage)
    /\ Ends
    /\ UNCHANGED <<pipelineVars, reviewVars, files, migration, instances, reported, shipped, faults>>

\* The component review template records the evidence the sources hold; the draft
\* closure carries the reviewed decisions.
EntryTemplate ==
    /\ Runs("review-template", "run") /\ template = Review!Absent
    /\ evidence' \in [Items -> Facts] /\ template' = Review!Doc(evidence') /\ Ends
    /\ UNCHANGED <<pipelineVars, review, draft, legal, human, session, files, migration,
                   instances, reported, shipped, faults>>
EntryDraft ==
    /\ Runs("draft", "run") /\ "publication-prepared" \in files
    /\ draft' = Review!Doc(review.reviewed.of) /\ Ends
    /\ UNCHANGED <<pipelineVars, evidence, template, review, legal, human, session, files, migration,
                   instances, reported, shipped, faults>>
\* The entry point fails, having published none or some of its files.
EntryFails ==
    /\ driver.pc = "run" /\ Fault /\ Ends
    /\ UNCHANGED <<pipelineVars, reviewVars, files, migration, instances, reported, shipped>>

(* The owner's interactive sessions run inside the driver.                 *)
OwnerSession ==
    /\ driver.pc = "session" /\ session = Review!Quiet
    /\ IF driver.stage = "review" THEN Review!BeginReview ELSE Review!BeginLegal
    /\ Goto("asking")
    /\ UNCHANGED <<pipelineVars, files, migration, instances, reported, shipped>>
SessionSteps ==
    /\ driver.pc = "asking" /\ session # Review!Quiet /\ Review!Steps
    /\ IF session' = Review!Quiet THEN Ends ELSE UNCHANGED driver
    /\ UNCHANGED <<pipelineVars, files, migration, instances, reported, shipped>>
Drift ==
    /\ driver.stage \in {"none", "review"} /\ template # Review!Absent /\ draft = Review!Absent
    /\ Review!EvidenceDrift
    /\ UNCHANGED <<pipelineVars, driverVars>>

-----------------------------------------------------------------------------
(* The install stage: four transactions, each recorded when it succeeded.  *)

\* What each transaction needs and what it leaves when it completes.
Startable(step) ==
    CASE step = "archive-history" -> migration.services = "on"
      [] step = "decommission" ->
            migration.history = "archived" /\ migration.app = "old"
            /\ migration.services \in {"on", "stopping", "dormant"}
      [] step = "install-app" -> migration.services = "dormant" /\ migration.app = "old"
      [] step = "recommission" ->
            migration.app = "new" /\ migration.services \in {"dormant", "starting", "recommissioned"}
Completed(step) ==
    CASE step = "archive-history" -> [migration EXCEPT !.history = "archived"]
      [] step = "decommission" -> [migration EXCEPT !.services = "dormant"]
      [] step = "install-app" -> [migration EXCEPT !.app = "new"]
      [] step = "recommission" -> [migration EXCEPT !.services = "recommissioned"]
\* Interrupted with its journal open; a transaction that was complete stays so.
Begun(step) ==
    IF Completed(step) = migration THEN migration
    ELSE CASE step = "archive-history" -> [migration EXCEPT !.history = "partial"]
           [] step = "decommission" -> [migration EXCEPT !.services = "stopping"]
           [] step = "install-app" -> [migration EXCEPT !.app = "begun"]
           [] step = "recommission" -> [migration EXCEPT !.services = "starting"]

Unrecorded == {i \in DOMAIN INSTALL_STEPS : INSTALL_STEPS[i] \notin files}
NextStep == INSTALL_STEPS[CHOOSE i \in Unrecorded : \A j \in Unrecorded : i <= j]

\* _recover_install: the transaction the recovery continues, "none" when it refuses.
RecoveredBy(option) ==
    CASE option = "--recover-install" /\ migration.services = "dormant"
            /\ migration.app \in {"begun", "new"} -> "install-app"
      [] option = "--recover-service" /\ migration.app \in {"old", "begun"}
            /\ migration.services \in {"stopping", "dormant"} -> "decommission"
      [] option = "--recover-service" /\ migration.app = "new"
            /\ migration.services \in {"dormant", "starting", "recommissioned"} -> "recommission"
      [] OTHER -> "none"
INSTALL_RECOVERIES == {"--recover-install", "--recover-service"}

Transaction(step, pc) == driver' = [driver EXCEPT !.pc = pc, !.arg = step]
InstallNext ==
    /\ Runs("install", "install") /\ Unrecorded # {}
    /\ IF Startable(NextStep) THEN Transaction(NextStep, "transaction") ELSE Ends
    /\ UNCHANGED <<pipelineVars, reviewVars, files, migration, instances, reported, shipped, faults>>
InstallRecover == \E option \in INSTALL_RECOVERIES :
    /\ Runs("install", "install") /\ driver.arg = "none" /\ RecoveredBy(option) # "none"
    /\ Transaction(RecoveredBy(option), "recovery")
    /\ UNCHANGED <<pipelineVars, reviewVars, files, migration, instances, reported, shipped, faults>>
TransactionSucceeds ==
    /\ driver.pc \in {"transaction", "recovery"} /\ migration' = Completed(driver.arg)
    /\ driver' = [driver EXCEPT !.pc = IF driver.pc = "recovery" THEN "record-recovery" ELSE "record"]
    /\ UNCHANGED <<pipelineVars, reviewVars, files, instances, reported, shipped, faults>>
TransactionFails ==
    /\ driver.pc \in {"transaction", "recovery"} /\ Fault /\ Ends
    /\ migration' \in {migration, Begun(driver.arg)}
    /\ UNCHANGED <<pipelineVars, reviewVars, files, instances, reported, shipped>>
RecordInstallStep ==
    /\ driver.pc = "record" /\ files' = files \cup {driver.arg}
    /\ driver' = [driver EXCEPT !.pc = "install", !.arg = "resumed"]
    /\ UNCHANGED <<pipelineVars, reviewVars, migration, instances, reported, shipped, faults>>

\* The phase that a recovery's tool prints in its result line.
ResultPhase(step) ==
    CASE step = "decommission" -> "decommissioned"
      [] step = "install-app" -> "installed"
      [] step = "recommission" -> "recommissioned"
      [] OTHER -> "archived"
\* Which step a result line in the log proves; each line names its own tool.
RecoveryProofs == {<<"installed", "install-app">>, <<"decommissioned", "decommission">>,
                   <<"recommissioned", "recommission">>}
\* Mutant: every service recovery is taken for the recommission it usually is.
ReportedRecommission(log) ==
    {IF proof[2] = "decommission" THEN "recommission" ELSE proof[2] : proof \in {q \in RecoveryProofs : q[1] \in log}}
ReportedSteps(log) == {proof[2] : proof \in {q \in RecoveryProofs : q[1] \in log}}
\* The step is recorded when the log of the recovery, which may have lost its
\* result line, names exactly one.
RecordRecovery ==
    /\ driver.pc = "record-recovery" /\ Ends
    /\ \E log \in {{ResultPhase(driver.arg)}, {}} :
          /\ IF \E step \in InstallStepNames : ReportedSteps(log) = {step}
             THEN files' = files \cup ReportedSteps(log)
             ELSE UNCHANGED files
          /\ IF log = {} THEN Fault ELSE UNCHANGED faults
    /\ UNCHANGED <<pipelineVars, reviewVars, migration, instances, reported, shipped>>
RequireInstalledRelease ==
    /\ Runs("install", "install") /\ Unrecorded = {} /\ Ends
    /\ UNCHANGED <<pipelineVars, reviewVars, files, migration, instances, reported, shipped, faults>>

-----------------------------------------------------------------------------
(* The acceptance stage.                                                   *)

CollectionFiles == {"runtime-collection", "runtime-evidence", "runtime-acceptance"}
\* _collect: nothing collected yet, and the owner typed COLLECT.
BeginCollect ==
    /\ Runs("acceptance", "acceptance") /\ files \cap CollectionFiles = {}
    /\ Goto("start")
    /\ UNCHANGED <<pipelineVars, reviewVars, files, migration, instances, reported, shipped, faults>>
\* Another build installed, the app or its tunnel up, a loopback proxy, a tunnelled route.
CollectRefused ==
    /\ Runs("acceptance", "acceptance") /\ Ends
    /\ UNCHANGED <<pipelineVars, reviewVars, files, migration, instances, reported, shipped, faults>>
StartInstance ==
    /\ driver.pc = "start" /\ instances # GA_INSTANCES
    /\ \E i \in GA_INSTANCES \ instances : instances' = instances \cup {i}
    /\ UNCHANGED <<pipelineVars, reviewVars, driver, files, migration, reported, shipped, faults>>
\* gcloud fails (the instance may have started), an address differs, or no endpoint answers.
StartFails ==
    /\ driver.pc = "start" /\ Fault
    /\ \E S \in SUBSET (GA_INSTANCES \ instances) : instances' = instances \cup S
    /\ driver' = [driver EXCEPT !.pc = "stop", !.arg = GA_INSTANCES]
    /\ UNCHANGED <<pipelineVars, reviewVars, files, migration, reported, shipped>>
\* The collector publishes its session, the raw evidence, the sealed acceptance.
Collected == {f \in CollectionFiles : f \in files}
Collects ==
    /\ driver.pc = "start" /\ instances = GA_INSTANCES
    /\ \E S \in {{"runtime-collection"}, {"runtime-evidence"}, {"runtime-evidence", "runtime-acceptance"}} :
          /\ files' = files \cup S
          /\ "runtime-acceptance" \notin S => faults < MaxFaults
          /\ faults' = IF "runtime-acceptance" \in S THEN faults ELSE faults + 1
    /\ driver' = [driver EXCEPT !.pc = "stop", !.arg = GA_INSTANCES]
    /\ UNCHANGED <<pipelineVars, reviewVars, migration, instances, reported, shipped>>

\* _stop_instances: each instance gets its own attempt; the failures are reported together.
StopInstance ==
    /\ driver.pc = "stop" /\ driver.arg # {}
    /\ \E i \in driver.arg :
          /\ driver' = [driver EXCEPT !.arg = @ \ {i}]
          /\ \/ instances' = instances \ {i} /\ UNCHANGED <<reported, faults>>
             \/ Fault /\ reported' = reported \cup {i} /\ UNCHANGED instances
    /\ UNCHANGED <<pipelineVars, reviewVars, files, migration, shipped>>
CollectEnds ==
    /\ driver.pc = "stop" /\ driver.arg = {} /\ Ends
    /\ UNCHANGED <<pipelineVars, reviewVars, files, migration, instances, reported, shipped, faults>>

\* --recover archives an unfinished collection, --resume-seal finishes published evidence.
AcceptanceResumes ==
    /\ Runs("acceptance", "acceptance") /\ Ends
    /\ \/ Collected = {"runtime-collection"} /\ files' = files \ {"runtime-collection"}
       \/ "runtime-evidence" \in files /\ files' = files \cup {"runtime-acceptance"}
    /\ UNCHANGED <<pipelineVars, reviewVars, migration, instances, reported, shipped, faults>>

-----------------------------------------------------------------------------
(* verify-remote registers the release before it records itself.           *)

\* add_shipped: the approval chain of the published closure verifies.
Registrable == PublicationDone /\ ~InLedger /\ Review!ChainVerifies(draft.of)
VerifyRemote ==
    /\ Runs("verify-remote", "run")
    /\ IF Registrable THEN Register /\ Goto("ledger") ELSE Ends /\ UNCHANGED shipped
    /\ UNCHANGED <<pipelineVars, reviewVars, files, migration, instances, reported, faults>>
RecordVerified ==
    /\ Runs("verify-remote", "ledger") /\ files' = files \cup {"verify-remote"} /\ Ends
    /\ UNCHANGED <<pipelineVars, reviewVars, migration, instances, reported, shipped, faults>>
\* command_shipped --add takes no lock: whatever stage runs or is still pending, the
\* operator may register a build whose approval chain verifies.
CommandShipped ==
    /\ Registrable /\ Register
    /\ UNCHANGED <<pipelineVars, reviewVars, driver, files, migration, instances, reported, faults>>

-----------------------------------------------------------------------------
\* The driver is killed: the lock is free, its child goes on, nothing is recorded or stopped.
ChildEffect ==
    \/ UNCHANGED <<files, migration>>
    \/ driver.pc \in {"transaction", "recovery"}
       /\ migration' \in {Begun(driver.arg), Completed(driver.arg)} /\ UNCHANGED files
Killed ==
    /\ driver.pc \notin {"idle", "asking", "guards"} /\ Fault /\ Ends /\ ChildEffect
    /\ reported' = reported \cup instances
    /\ UNCHANGED <<pipelineVars, reviewVars, instances, shipped>>

(* The build and DMG stages.                                               *)
BuildStage ==
    /\ FirstPending("build") /\ ~InLedger /\ (FreezeStage \/ SignStage)
    /\ UNCHANGED <<reviewVars, driverVars>>
\* NotarizationTransaction published the notarized app (external here).
Notarize ==
    /\ FirstPending("build") /\ downstream /\ lock = Nobody
    /\ files' = files \cup {"notarized"}
    /\ UNCHANGED <<pipelineVars, reviewVars, driver, migration, instances, reported, shipped, faults>>
\* A DMG tool that published its set still has to settle.
PackageStage ==
    /\ (FirstPending("dmg") /\ ~InLedger) \/ run # Dmg!Idle
    /\ DmgStage /\ UNCHANGED <<reviewVars, driverVars>>

DriverInit ==
    /\ Init /\ Review!Init
    /\ driver = NoRun /\ files = {} /\ migration = OldMac /\ instances = {} /\ reported = {}
    /\ shipped = FALSE

DriverSteps ==
    \/ CommandRun \/ CommonGuards \/ GuardsRefuse \/ Enroll \/ Prepare \/ Ci \/ Receipt
    \/ PreparePublication \/ Finalize \/ Preserve \/ Seal \/ Updater \/ Export \/ Publish
    \/ EntryEnds \/ EntryTemplate \/ EntryDraft \/ EntryFails \/ OwnerSession \/ SessionSteps \/ Drift \/ Killed
InstallSteps ==
    \/ InstallNext \/ InstallRecover \/ TransactionSucceeds \/ TransactionFails
    \/ RecordInstallStep \/ RecordRecovery \/ RequireInstalledRelease
AcceptanceSteps ==
    \/ BeginCollect \/ CollectRefused \/ StartInstance \/ StartFails \/ Collects \/ StopInstance \/ CollectEnds
    \/ AcceptanceResumes
ReleaseSteps == VerifyRemote \/ RecordVerified \/ CommandShipped
ReleaseNext ==
    \/ BuildStage \/ Notarize \/ PackageStage
    \/ DriverSteps \/ InstallSteps \/ AcceptanceSteps \/ ReleaseSteps
ReleaseSpec == DriverInit /\ [][ReleaseNext]_releaseVars

-----------------------------------------------------------------------------
(* A stage is done only when every stage before it is, through kills,       *)
(* failures and preserve's move of a file an earlier stage is known by.     *)
StagesInOrder ==
    \A i \in 2..Len(STAGES) : Done(STAGES[i]) => Done(STAGES[i - 1])

(* An install step is recorded only when its transaction is complete on     *)
(* the Mac, whichever of run, recovery and kill came in between             *)
(* (_record_install_step after the exit status or the recovery's log).      *)
InstallRecordsAreTrue ==
    /\ "archive-history" \in files => migration.history = "archived"
    /\ "decommission" \in files => migration.services \notin {"on", "stopping"}
    /\ "install-app" \in files => migration.app = "new"
    /\ "recommission" \in files => migration.services = "recommissioned"

(* When no run is in progress every evidence instance is stopped, or the    *)
(* operator knows of it: a stop failed with a report, or the run was killed. *)
InstancesAreStopped == Idle => instances \subseteq reported

(* The pipeline's state, the review files and the driver's are well formed. *)
ReleaseTypeOK ==
    /\ TypeOK /\ Review!TypeOK
    /\ driver.stage \in StageNames \cup {"none"} /\ shipped \in BOOLEAN
    /\ migration \in [history : {"live", "partial", "archived"},
                      services : {"on", "stopping", "dormant", "starting", "recommissioned"},
                      app : {"old", "begun", "new"}]
    /\ instances \cup reported \subseteq GA_INSTANCES

(* Approved licence decisions are the predecessor's or the owner's, about   *)
(* the candidate's own facts.                                               *)
ApprovedDecisionsAreOwned == Review!ApprovedDecisionsAreOwned
=============================================================================
