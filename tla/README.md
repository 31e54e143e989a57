# Verification of cfw-rs

cfw-rs is a desktop proxy and VPN client and the machinery that releases it. A Host application
(Rust, Tauri) drives native services that run the sing-box data plane; it may be killed or
restarted while those services keep running, every native call can fail or answer late, and two
data planes must never run at once. Most of the repository's code is the release side
(`scripts/`): transactions that freeze, sign, notarize, install and physically test one build.
Their irreversible steps (an upload to Apple, a use of the signing identity, an exchange of the
installed app, a one-shot POST, shaping rules loaded into a machine) happen once, across crashes,
lost replies and repeated invocations, and their evidence must say what really happened.

This directory holds TLA+ models of both sides, TLC runs on small instances and TLAPS proofs for
all instances. `PROJECT.json` maps the definitions to the lines they model; an initial record, a set of labels and a
one-line abbreviation of another definition have no lines of their own and are not mapped.

## Inventory

| Part | State it keeps | Operations | What makes it correct | Module |
|---|---|---|---|---|
| Engine-mode coordinator (`crates/cfw-application`) | snapshot, published snapshot, lease, quarantine, restart spec, recheck baseline, startup failure | startup reconciliation, set mode, profile change, cutover, poll, shutdown | every runtime is owned or the coordinator quarantined; Off is true; fresh generations; commands end | EngineCoordinator |
| Engine generation store (`crates/cfw-apple-network`) | Keychain item, cache, lock file | load, reserve next | no rollback; a generation is issued once | GenerationStore, LineageJournal |
| Application notarization (`notarization_transaction.py`) | attempt directory, event journal, receipts, publication tree | execute, recover, validate | one upload, one sealed publication, room for every outcome | NotarizationTransaction, DirectSealedResume, NotarizationAttempts |
| Candidate freeze (`candidate_freeze.py`) | claim, intent, GA root | freeze, recover, verify | one frozen candidate, unchanged since it was digested | CandidateFreeze |
| Signing (`signing_attempt_transaction.py`, `signing_reconciliation.py`) | attempts, journals, output tree | run, resume, reconcile-failed | one use of the identity; the output is in one place | SigningTransaction |
| DMG notarization (`dmg_notarization_transaction.py`) | attempt, journal, stapling copies | execute, recover | one submission | DmgNotarization |
| Release driver (`release_driver*.py`) | files and records of the stages, evidence instances | run STAGE, status, recover | stages in order, true records | ReleaseDriver, ReleasePipeline |
| Review carry-over (`review_carryover.py`) | decisions, reviews, closure | carry, decide, draft, approve | approved decisions rest on the candidate's facts | ReviewCarryover |
| Service maintenance (`current_service_transaction.py`) | seven-event journal, guard lineage | decommission, recommission, recover | jobs run what is installed | ServiceMaintenance |
| Dormant install (`dormant_app_install.py`) | journal, staging container, installed app | install, recover; command runner | no bundle is lost; exchange only while dormant | DormantInstall, BoundedCommand |
| Journal export, history archive | export container, archive | export, archive, recover | the export is one finished migration | JournalRetention |
| Runtime acceptance (`ga_runtime_acceptance.py`) | collection events, raw evidence, seals | collect, recover, resume-seal | sealed evidence is complete; an archived collection left the machine restored | RuntimeAcceptance |
| Physical capture (`physical_capture/`) | session journal, archive, producer checkpoints, closure records | initialize, collect, recover, recover-journal, finalize | nothing is sent or run twice; shaping is owed until removed | CaptureSession, CaptureCollector, PhysicalCapture |
| Packet cases (`physical_capture/packet*.py`, LAN peer adapter, Host transaction in Rust) | phone, lease, Host stage, capture | a case from baseline to verdict | the phone is left as found; accepted evidence was made as planned | PeerDevice, PacketLanLease, PacketHost, PacketCase, PacketEvidence |
| Transport peer lab (`ios_transport_peer_lab.py`) | transaction journal | append, open, close | only its own app is changed | PeerLabJournal |
| Durable publication (`publication/durable_file.py`) | trees, names, what is on disk | publish directory, file, pending, tree; confirm | an acknowledged publication survives | DurableFile, AtomicPublication |
| Release artifact sets (`release_artifact_set.py`) | updater, DMG and distribution sets | seal-updater, seal-dmg, seal-release | one application in all sets; success is durable | ReleaseArtifactSets |
| Native services, bridge, profile repository, updater, Windows engine, shell, configuration | see `PROJECT.json` | | | not modelled |

How they meet. The shell calls the coordinator through a channel; its actor calls `EngineBackend`
and `EngineGenerationStore`. The release driver starts the stage tools as children and learns
what they did only from the files they publish. Freeze, signing and DMG submission open what the
earlier one published. The install transaction runs between the two halves of the service
transaction, and both journals are exported and archived afterwards. The packet cases run the
collector, the Host's evidence transaction and an iPhone against each other. Almost all release
tools publish through the durable-file code.

The hard behaviours are a start that lands after its timeout; a stop or upload whose outcome is
unknown; a process that dies between an effect and its record; files torn by a crash; names lost
with the power; two invocations that overlap; journals that are full; state read under a lock and
used after it.

## Modules

In every model a step runs from one await, durable write or system call that others can observe
to the next. Digests are modelled by what they identify. A document that is written in place can
be torn by a crash; one that is written under a pending name and renamed leaves nothing, a torn or
a whole pending file, or the final one.

### EngineCoordinator (MCEngineCoordinator)

The actor `run_coordinator` is sequential code with `await` points; `pc` says where it is and `ret`
who called `stop_owned_runtime`, `prove_global_off` or `reserve_next_generation`. Between two
steps the native services, the system and a crash of the Host may act.

| Variables | Code |
|---|---|
| `snapshot`, `published`, `lease`, `quarantine`, `restart_spec`, `status_recheck`, `missed` | `CoordinatorState` and the snapshot watch channel |
| `startup_failure`, `policy` | locals of `run_coordinator` |
| `cmd`, `prior`, `restoring` | the command served; `profile_change::apply`'s previous spec; inside `restore` |
| `native`, `inflight`, `journal`, `saved` | outside the Host: runtime, starts not yet settled, durable generation, selected source |
| `lastStarted` | history |

`Reconcile*`, `Prove*` are `coordinator_startup.rs` and `prove_global_off`; `Transition*`,
`Reserve*`, `Install*`, `Authorize*`, `Start*`, `Selections*`, `Stop*` are `transition.rs`;
`Observation*`, `Tick` the poll of `runtime.rs`; `Prepare*`, `Check*`, `Candidate*`, `Restore*`
`profile_change.rs`; `Receive*`, `Dispatch*`, `*Returns` the loop of `coordinator_actor.rs`;
`HostStarts` and `Crash` begin and end a process. Backend error kinds are grouped into the
classes the code tells apart. The native services are external and obey only their contract: a
status read reports Off only when nothing runs or may still start; a start may land at any later
time or die; a stop ends exactly what it names. Everything else, errors and delays included, is
free.

### LineageJournal and GenerationStore (MCGenerationStore)

`LineageJournal` is the abstract specification: a lineage that is created once and counts up, and
generations each reported to at most one caller. `GenerationStore` is
`KeychainEngineGenerationStore`: each Host opens the lock file, takes the flock, reads the Keychain
(bytes, then label), creates or checks the document, writes the cache, swaps, and on an error reads
back. Any call may fail, a failed create or update may have been committed, a Host may crash
anywhere, and the cache may be changed and the lock file replaced by others.
`ImplementsJournal` says that every step is a step of the journal as long as the lock file was not
replaced.

### NotarizationTransaction, DirectSealedResume, NotarizationAttempts

`NotarizationTransaction` has the attempt on disk (`disk`, the event journal, the finalization
runs and their receipts), Apple's side and the running invocations. The reducer of the event
journal is part of the model: every load of the attempt goes through it, so a journal that the
writer can produce and the reader refuses shows. `DirectSealedResume` is the layout an earlier
release left, which `recover_transaction` still resumes; its `LegacyInit` is what that release
could leave, and an event append is atomic there. `NotarizationAttempts` composes them: an attempt
has one layout or the other. The immutable source may be half preserved when its preparation fails,
the attempt may have drifted from the accepted upload when it is loaded again, and the cleanup of a
failed run may itself fail: `recover_transaction` lets that pass, the handler of
`execute_transaction` records it as a second outcome (`ClosedTwice`). Sizes are left out, so the byte
quota of the runs may be exceeded at any time.

### CandidateFreeze, SigningTransaction, DmgNotarization, ReleasePipeline, ReleaseDriver, ReviewCarryover

`ReleasePipeline` runs the three tools stage after stage, with re-runs of an ended stage explored before the
next one begins. `ReleaseDriver` puts the operator's driver on top: a stage is admitted when it is the first
that is not done, a killed driver leaves its child running, and what the child still did is chosen at the
kill. Notarization and the tools of the other stages appear there by what they publish, the install
transactions by the contract that the run `app_maintenance` checks. What a recovery did is read from the
steps its log reports, and only those of a complete transaction are recorded; `shipped --add` takes no lock
and may come at any time. `ReviewCarryover` has one component whose facts are those of the shipped
predecessor or changed; all its files are created once under their final names.

### ServiceMaintenance, DormantInstall, JournalRetention, BoundedCommand

Two operators run any command at any time. The guard (the state of another network client on the
machine) may move, which is a fault. One lock stands for those of both stores. `BoundedCommand`
models `_run_bounded_process` by itself, against an adversarial command: descendants that stay,
refuse the signal, leave the group or keep a pipe open, and a leader whose kill fails.

### RuntimeAcceptance

A collection is a sequence of started and completed steps; the capture runs beside it. Stopping it
is three steps, the poll of sudo, the lookup of its tcpdump with `ps` and the signal, and tcpdump may
end by itself before, between and after them, stay a zombie until its sudo reaps it, be cut at its
packet cap, or lose packets in the kernel. `CaptureStatistic` is what closes the window: the counts
tcpdump prints when it ends. A step that needs the Host waits for its answer and takes its receipt; an
adapter that is already there must be that of the same collection. Log parsing is abstracted to
whether the observed run was that of this session. Only single events and renames are locked, so two
invocations overlap.

### CaptureSession, CaptureCollector, PhysicalCapture

One lane of a physical capture. The session lock admits one command to an attempt, so there is at
most one running command and the faults are crashes and failing calls at each write. Plain
producers are alike (`PlainProducers` of them); the performance producer loads shaping rules.
Rewrites that reproduce the same bytes are one step. An append may publish its event and raise all
the same (`AppendRaises`): the collector then goes on with the journal tip it knew and writes a failure
record that no later command accepts. A restore that exits with 0 and leaves rules behind is noticed
only by the ledger at the end of the series.

### PeerDevice, PacketLanLease, PacketHost, PacketCase, PeerLabJournal, PacketEvidence

`PeerDevice` is the phone as devicectl shows it: a command may work and report, work and lose its reply, or
fail. `PacketLanLease` is the adapter's transaction on it, `PacketHost` the Host's (with its 60-second
stages and the late answers left in the channel), `PacketCase` the collector's side and the validator. The
engine under the Host's snapshot may fail at any moment. While the transaction observes it, that fails the
transaction; once the Host observed its baseline restored nobody looks again, and the snapshot is `lapsed`:
a stage that is sent then is accepted only when the route and interface that the collector checks around it
still carry it (`Routed`). A panic inside the capture runs the restoration once more unless its callback was
taken (`RecoverAfterPanic`). Receipts are represented by the process or transaction that wrote them; an
inventory and its receipt are read in one step; process ids are fresh; a devicectl effect is not delayed;
nobody else installs the same bundle during a transaction; the input checks of a stage are one fact that may
be wrong. `PeerLabJournal` is the transport lab's journal; its runner is not in the repository and is
external.

### DurableFile and AtomicPublication, ReleaseArtifactSets

`DurableFile` keeps for each publication what programs see and what a loss of power may leave: any
subset of what is not synced is lost. `AtomicPublication` is the abstract promise: a name is absent
or shows one publication, is given once, and stays once a caller was told. `ReleaseArtifactSets`
seals three sets while other programs rebuild, re-authorise and re-collect what it reads, any number
of times and between any two reads of a command: the candidate may be new each time, or an earlier
one that is put back, which the history variable `returned` remembers. One command runs at a time, and
the placement of the DMG set is external.

## Runs

All runs pass but the last, which is meant to find a violation. States are distinct states.

| Run | Instance | Shows |
|---|---|---|
| `coordinator_safety` | two modes, two sources, three generations, grace 2; 670 000 states | `OwnedOrQuarantined`, `PublishedOffIsOff`, `FreshGeneration` |
| `coordinator_liveness` | one mode, two sources, two generations | `CommandEnds`, `RecheckSettles` |
| `store` | two Hosts, two identifiers, two generations, one replacement of the lock file; 1.8 million | `UniqueReservation`, `GrantedIsDurable`, refinement `ImplementsJournal` |
| `notarization` | two invocations, two ids, two tools, two faults (three in the older layout), 26 events; 255 000 | `SubmitOnce`, `PublishedIsSealed`, `RoomReserved`, `LegacyStaysUsable` |
| `release_pipeline` | two freezers, two input parts, two executors, one component, two faults; 962 000 | `OneFrozenCandidate`, `SignedAtMostOnce`, `VerifiedOutputHasOneHome`, `SubmittedOnce`, `StagesInOrder`, `InstallRecordsAreTrue`, `ApprovedDecisionsAreOwned` |
| `app_maintenance` | two operators, three faults; 256 000 | `JobsRunTheTarget`, `NoBundleLost`, `ExportIsOneMigration`, `ExchangedWhileDormant` |
| `bounded_command` | two descendants; 6 600 | `NoStrangerKilled`, `AlwaysReturns` |
| `runtime_acceptance` | two invocations, two collections, two faults; 1.27 million | `SealedIsComplete`, `CaptureSpansMarkers`, `ArchivedIsRestored` |
| `packet_evidence` | two transactions, three processes, three faults; 1.41 million | `PhoneLeftAsFound`, `RestoredOrQuarantined`, `AcceptedAsPlanned`, `OnlyOwnAppChanged` |
| `physical_capture` | two attempts, one plain producer and performance, three faults, 14 events; 598 000 | `SentAtMostOnce`, `HandlersRunOnce`, `ShapingIsOwed` |
| `durable_publication` | two entries, two publications, three faults; 97 000 | `AcknowledgedSurvives`, `FailureIsDefinite`, refinement `ImplementsPublication` |
| `artifact_sets` | two candidates, any number of changes, one fault; 2.9 million | `OneApplication`, `SuccessIsDurable` |

The modules state more invariants that hold on the same instances and are left out of the
configurations to keep each run to the question it asks: the type invariants, the inductive
invariants of the proofs, `SurvivorCarriesLineage`, `PublishedActiveIsOwned`,
`QuarantineBlocksStarts`, `StartsFromOff`, `QuarantineEndsInOff`, `RecheckIsLive`,
`PublishedIsCurrent`, `UncommittedCandidateIsReplaced`, `CacheIsRepairable`, `LoadRepairsCache`,
`AuthorityNeverRollsBack`, `CanonicalIsAnnounced`, `PublishedEvidenceIsFresh`, `RecoveryHasRoom`,
`InstancesAreStopped`, `ClaimIsPermanent`, `OneGuardLineage`, `JournalAdvances`, `RecordsAreKept`,
`ResultIsFinal`, `CompleteIsClean`, `OneLiveAttempt`, `FinalizedIsComplete`,
`DestinationIsComplete`, `EndedLeavesNoStage`. `LockWaitEnds` of GenerationStore holds under its
`FairSpec` with one generation and one lock file.

Bounds. Two invocations, Hosts or operators suffice for every pairwise race. The fault bounds let
an invocation be cut off, its recovery be cut off again, and a third go on; every run reaches the
end of its protocol with the faults spent and unspent. Two sources are the candidate and the prior
profile of a change; three generations let a start, a candidate and its rollback, or three Host
lives happen before exhaustion, which happens too. Journal limits (`MAX_EVENT_DOCUMENTS`,
`MAX_DMG_EVENTS`, `MaxEvents`, `MaxAcceptEvents`) are small enough to be reached by retries and
large enough for one undisturbed run. Two versions of the inputs are what a freezer read before and after. Symmetry
is used for interchangeable sources, Hosts, tools and processes, and only in runs without
liveness. Deadlock is checked in the coordinator, store and maintenance runs; the others describe
commands that end, so it is not.

Fairness. The coordinator's next step is weakly fair except at the preparation of a profile
change, because every other await is under a timeout; the poll and an answered observation are
strongly fair (`tokio::select!` picks ready branches at random). In BoundedCommand the runner and
the clock are weakly fair; the command and its descendants are not. In the store only the lock
loop, which has a deadline, is fair.

## Properties that do not hold

These are stated in the modules with their comments and refuted by TLC when added to the
configuration of their run.

1. `QuarantineIsPublishedFailed` (EngineCoordinator). `runtime.rs:281` promises that an unproven Off
   leaves a published Failed. After a startup cleanup the failure of the proof's status read is
   remembered as a retryable read, so the next command may publish Off with the quarantine set.
   Starts remain refused.
2. `CommitFollowsStart` (EngineCoordinator). `profile_change.rs:10` says the candidate is started
   before the commit; a tunnel that awaits approval (`transition.rs:209`) is committed first.
3. `ShutdownIsBarrier` (EngineCoordinator). `coordinator.rs:483` calls a successful shutdown a
   native stop barrier; after a failed startup read it succeeds without an observation
   (`coordinator_actor.rs:234`).
4. `SwapsAreExclusive` (GenerationStore). `docs/architecture.md:178` claims compare-and-swap across
   processes with the files as mere aids; the read-back after a failed update accepts another
   Host's equal document (`generation_store.rs:330`), so uniqueness rests on the lock file.
5. `PublishedValidates` (NotarizationTransaction). A recovery after a crash at the submitted event
   anchors `recovery_intent_anchored` right after it; `_decode_recoverable_event_prefix`
   (`notarization_transaction.py:2794`, `2907`) refuses that journal in every later load, so the
   publication can no longer be validated. `test_notarization_transaction.py:5293` expects this
   recovery to publish. For publications without a recovery the property is part of
   `PublishedIsSealed`, with one exception: when the durability of the publication is unknown and the
   cleanup behind it fails too, the handler of `execute_transaction` (`:9271`) appends a second outcome
   (`ClosedTwice`), which `_require_finalization_attempt_history` (`:6686`) refuses in every later load.
   Room for that second outcome is not reserved either, so `RoomReserved` exempts it.
6. `EvidenceKeepsItsCollection` (RuntimeAcceptance). A recovery that began before the raw evidence
   was published archives the collection afterwards (`ga_runtime_acceptance.py:5503`), though
   `:5498` says that recovery would orphan it. It takes two overlapping invocations.
7. `AttemptCanContinue` (PhysicalCapture). A crash that cuts off the event of a journal resolution
   leaves an attempt that no command can open, recover or close (`session.py:1524`), against
   `docs/physical-evidence-v5.md:340`. So does an event that is published and raises: the failure record
   written next names the tip before it, and collect and recover refuse that record for good
   (`archive.py:571`). finalize does not look for it: when the event was the one that froze the
   observations, the run can be finalized beside a failure record.
8. `NoMutationHides` (ReleaseArtifactSets). `release_artifact_set.py:4193` says
   that the candidate is reopened after the closure "so a concurrent mutation cannot hide inside that
   interval". The reopening compares digests, and a candidate that is put back has the digest it had:
   with the candidate replaced before every look at the evidence and put back before every look at the
   sets, `verify-release` succeeds over sets and evidence of two applications. As long as no earlier
   candidate is put back, `OneApplication` holds.

Reading the code for the models also showed dead ends that are safe (everything later is refused)
but need a manual repair: a crash inside the pending export container or in
an archive's `intent.json` (`ga_acceptance_journal_export.py:986`,
`current_service_transaction.py:623`); a torn receipt of the DMG attempt, and a "prepared" one after
a crash; an orphan distribution stage (`release_artifact_set.py:4291`); a driver killed in the
middle of enrolment or preservation (`release_driver.py:181`, `:430`); a review cut off between its
two files (`review_carryover.py:366`); two closure records after a torn abandonment, and a discarded
pre-send attempt whose request changed (`collector.py:345`, `transaction.py:245`). A
KeyboardInterrupt right after a directory's rename is reported as a failed cleanup although the
name is given (`durable_file.py:2138`); `FailureIsDefinite` excludes it explicitly.

## Proofs

All theorems hold for every value of the constants under the named assumptions of the modules.

*EngineProofs* proves `TypeCorrect` and, from it, `SafetyInvariant`:
`IInv` is inductive given `TypeOK`. Ownership by itself is not inductive: whether a failed stop may
keep or drop the lease depends on who called it and on what startup knows. `ControlInv` records
what each control point implies for quarantine, lease and startup failure; `ExclusiveInv` that at
most one runtime runs or may come to run, and none where a start is prepared; `LineageInv` that the
reserved generation is newer than any that was started. From these follow `Ownership`,
`SurvivorLineage`, `OffIsTrue`, `QuarantineBlocks`, and with the step relation `OffMediated` and
`GenerationsAreFresh`.

*GenerationStoreProofs* proves `StoreInvariant`. `LocalInv` says what a Host remembers whatever the
others do, `LockInv` that two Hosts never hold the same lock file, and `HolderInv` what the
holder of an intact lock knows: that the authority is what it read, that the cache holds its
replacement when it swaps, and that a committed but unconfirmed update has not been reported. It
follows that reservations are unique while the lock file stays in place, and, without any lock,
that grants are durable and the lineage never rolls back. `StoreImplementsJournal` proves the
refinement for any number of lock-file replacements: the promise ends with the first one.

*DurableFileProofs* proves `DurableInvariant`, and from it `PublishedIsWhole`, `AcknowledgedIsSafe`,
`FailuresAreDefinite` and the refinement `PublicationRefines`. `DestinationIsComplete` is not
inductive, because a rename publishes whatever the tree is by then: `Ready` says what each label has
made of the running command's tree (written, synced, listed), `Good` that a published tree is whole
and on disk, `Sole` that the name has one holder, `Relied` that what a caller was told of is on
disk. All actions but the loss of power change one tree, so one lemma carries the invariant over.
The loss of power may leave any subset of what is not synced; nothing a published tree consists of
is left to chance.

*ReleaseProofs* proves seven invariants of the release (`FrozenCandidateIsOne`, `DmgIsSubmittedOnce`,
`DmgEvidenceIsFresh`, `IdentityIsUsedOnce`, `OutputHasOneHome`, `DecisionsAreOwned`,
`RecordsAreTrue`), the order of its stages (`StagesAreDoneInOrder`) and the action property
`ClaimsArePermanent`, all of `ReleaseSpec`, the whole pipeline under its driver. Each part has its
own inductive invariant. `FreezeInv`: whoever opened the intent exclusively is the only one to write it,
and what an invocation has read under the final root is still there. `DmgInv`: whoever may still
upload owns an attempt that has not, and the Gatekeeper evidence at hand is about the copy at hand.
`SignInv`: a used identity is recorded in the journal of the last attempt; for every
label of the lock holder it says how far that journal has come and where the output may be, so
that a crash between rename and event is reconciled to one place. `ReviewInv`: every whole review
file holds owned decisions only, whatever the session that wrote it knew. `InstallInv`: a recorded
step is complete on the Mac and no running transaction can take it back. `OrderInv`: every stage
before a done or a running one is done, where the labels of the driver and of a review session
belong to one stage; the proof shows of every step that what is done stays done, although
`preserve` moves files that earlier stages are known by, and that what becomes done was next. The
last part proves `SuccessesAreDurable` of ReleaseArtifactSets for any number of changes around it
and of faults. There a command is the sequence of steps it has left, so the invariant `OnCourse` is
a grammar of what may be left: while nothing speaks against the command, its set is published and on
disk and only checks remain; or it is published and a confirmation remains; or a publication and
then a confirmation remain, and the directory to publish is there. A failure after the rename leaves
the second case, which is why a later invocation confirms before it succeeds.

*NotarizationProofs* proves `OlderLayoutStaysUsable` (`LegacyInv`: which journals, receipts and places occur
together after any crash of a resumption), `AttemptInvariant`, and from it `UploadedAtMostOnce` and
`EveryOutcomeHasRoom`. `RoomReserved` alone does not survive an append. `AttemptInv` counts for each label
the events its holder still owes until the end of what it does, the outcome of a failure included, though
not the second one of a failed cleanup; the capacity checks before an upload, a boundary and a recovery
establish that many free documents, and every append uses up one of them. The proof assumes
`MAX_EVENT_DOCUMENTS >= 3` (4096 in the code): an attempt that is never submitted records up to three events
before any check. Its last part proves `PublicationsAreSealed`, that `PublishedIsSealed` is an invariant,
from `PublicationInv`. A published run has to survive what comes after it: an outcome recorded behind the
sealed event, a crash that leaves that outcome pending, a recovery that adopts it. So the invariant says
that the run stands (`Stands`) in the journal, in the journal with its pending event and in the journal with
the event that an invocation is about to append, unless that journal is closed twice: then only Apple's
acceptance of the submission is claimed. Before publication it says for each label what its holder has
established (`Course`). An execute that no recovery has bound is at a known place of one journal of fifteen
events, or sixteen with an unknown durability (`AsPlanned`), and its documents are those of that place; that
is what the reducer of a reader accepts, by a finite case analysis rather than an induction. A recovery
carries a recovery intent from its binding on, and its submission is accepted before it finalizes. The
receipt of every other run names an earlier event than that of the run being sealed, so one receipt matches.

*MaintenanceProofs* proves `MaintenanceInvariant` for any number of operators and from it
`JobsBelongToTheTarget`, `BundlesAreKept`, `ExportsAreOneMigration` and the action properties
`ExchangeIsDormant` and `TerminalRecordsAreKept`. The invariant has a part for the machine, the
service journal, the installation journal, the archive and the export, and says for each label what
an invocation may still rely on. Outside the lock that is only what is never undone: exchanged
bundles stay exchanged and terminal journals stay what they are. Inside it, it is what was checked
when the lock was taken: the exchange, for instance, runs at labels that imply a complete teardown
of exactly four events, and no other invocation can append a fifth. `TerminalRecordsAreKept` needs
one fact more, that a moved service journal is bound by the recorded intent. The assumption that the
word for an absent job is not a bundle's digest (`Absent \notin Bundles`) is about the model's
encoding. Its last part proves `StrangersAreSpared` and `ResultsAreFinal` of the command runner, for
any set of descendants. The group id is free for a stranger only after the leader was reaped;
`RunnerInv` says that a reaped leader means a cleanup was attempted, that a signal is prepared only
while the leader is not reaped, and that reading goes on after the leader's exit only once its group
ended.

*CaptureProofs* proves `CaptureInvariant` of PhysicalCapture for any number of attempts, producers,
events, recoveries and faults, and from it `AttemptsAreConsecutive`, `PostsAreSentOnce`,
`ProducersRunOnce` and `RulesAreOwed`. `AttemptOK` is what one archive may hold whoever reads it: a
POST was sent only in states behind its record, a pending event still fits the journal, a handler ran
only for a checkpoint or behind the marker that is there. `Closings` orders the attempts, `Owed`
says what the archive looks like while rules are loaded, and `RunOK` what the running command relies
on at its label, so that a crash between an effect and its record leaves an archive that recovery
reads correctly.

Its second part is RuntimeAcceptance for any number of invocations, collections, events and faults:
`AcceptanceInvariant`, and from it `AdapterIsBacked`, `CapturesAreWhole` and the action property
`ArchivesAreRestored`. `CaptureState` follows the packet capture and holds whoever overlaps with
whom: for each of the steps from the last marker to the receipt it says whether tcpdump can still have
ended before that marker settled, and it relies on the printed counts and not on who ended tcpdump. The
rest is claimed only while invocations have not overlapped (`Orderly`): the one that runs
owns the collection (`Kept`), a Host or tunnel that collect left on is witnessed by the log
(`Witnessed`), and a published adapter is backed by the log it was derived from (`Backed`). The
witness makes recover's short cut sound, which archives without looking at the machine when the log
shows no launch.

*PacketProofs* proves `PacketInvariant` for any number of transactions, process ids and faults, and
from it `PhonesAreLeftAsFound`, `HostIsRestoredOrQuarantined` and the action property
`OnlyOwnAppsChange`; and `EvidenceIsAsPlanned` from a third invariant, of the case. `LeaseInv` says that
after its preflight a transaction owns the app or there is none (`Ours`), and that a lease that is
closed left nothing (`Left`) or says so; a reply that is lost is covered because the labels, not
the replies, carry these facts. `CaseInv` relates the collector to the Host across the two channels.
That both are in step (`InStep`) is not invariant: an answer may come after its timeout. It is while
the Host has recorded no error and did not drift before its restoration; otherwise the transaction is
`Doomed`, stays so, and never reports success, so what was sent out of step is never accepted. An engine
that fails after the restoration dooms nothing; there the invariant keeps that the stage was carried by
the tunnel, which is all that `AcceptedAsPlanned` claims of it.

Only model-checked:

- liveness (`CommandEnds`, `RecheckSettles`, `AlwaysReturns`, `LockWaitEnds`): fairness is out of
  the prover's reach;
- `OneApplication` of ReleaseArtifactSets: two candidates and any number of changes, as long as no
  earlier candidate is put back; what happens otherwise is item 8 above;
- of the properties that no run is configured with: `PublishedActiveIsOwned`,
  `QuarantineEndsInOff`, `RecheckIsLive`, `PublishedIsCurrent`,
  `UncommittedCandidateIsReplaced`, `CanonicalIsAnnounced`, `RecoveryHasRoom`, `InstancesAreStopped`,
  `OneGuardLineage`, `JournalAdvances`, `CompleteIsClean`, `OneLiveAttempt`,
  `FinalizedIsComplete`, `EndedLeavesNoStage`.

## Plan

1. Proofs: the properties that no run is configured with, beginning with those of the coordinator
   and of JournalRetention; `OneApplication` for any number of candidates.
2. Coordinator: command queue and versioned recovery offers of the handle.
3. Global Authority with its journal and the Off proof that EngineCoordinator assumes; ProxyAgent
   and Packet Tunnel; their composition.
4. Profile repository refined to an atomic catalog; native bridge call protocol; updater install
   journal; Windows authority machine.

## Not modelled

The native services (Global Authority, ProxyAgent, Packet Tunnel) and the Swift bridge enter only by their
contract. The profile repository, the updater and the Windows engine are state machines left
for later. Configuration generation, evidence validators, the release verifier and CI gates
transform or judge large documents and keep no state between calls: they are out of TLC's reach
and covered by the repository's fixtures. Credential storage, packet I/O and the user interface
have little control of their own. Corrupt Keychain documents are rejected by every read and add
no behaviour beyond a failed call; a panic inside the store, which poisons its mutex, is not
modelled. What a physical producer measures, and the bytes of packets, logs and bundles, are
represented by the facts the code decides on.
