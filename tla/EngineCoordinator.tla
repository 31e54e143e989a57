------------------------- MODULE EngineCoordinator -------------------------
(***************************************************************************)
(* The engine-mode coordinator of the Host application (crate              *)
(* cfw-application): the single actor task that owns the native data plane *)
(* for one Host process and drives every change of mode through Off.       *)
(*                                                                         *)
(* The actor is sequential Rust with `await` points.  A step of this       *)
(* module runs from one await (or function return) to the next one; the    *)
(* native services, the system and a crash of the Host interleave there.   *)
(* The native services and the durable generation journal are external:    *)
(* they are modelled by the contract the trait EngineBackend and the       *)
(* trait EngineGenerationStore give the coordinator, and are otherwise as  *)
(* unhelpful as that contract allows.                                      *)
(***************************************************************************)
EXTENDS Naturals

CONSTANTS
    Modes,                      \* the modes a user may ask for, besides Off
    Sources,                    \* profile + settings inputs of a start
    NoSource,                   \* absence of a source or configuration digest
    MaxGeneration,              \* stands for u64::MAX
    OBSERVATION_GRACE_MISSES,   \* runtime.rs
    MissCap,                    \* stands for u32::MAX of a saturating counter
    AuthorizationAwaitsConsent  \* EngineRuntimePlatform: macOS TRUE, Windows FALSE

AllModes == {"LocalProxy", "SystemProxy", "Tunnel", "TunnelSystemProxy"}

ASSUME ModesAssumption == Modes \subseteq AllModes
ASSUME SourcesAssumption == NoSource \notin Sources
ASSUME GenerationAssumption == MaxGeneration \in Nat \ {0}
\* The code asserts OBSERVATION_GRACE_MISSES >= 2 at compile time.
ASSUME GraceAssumption == /\ OBSERVATION_GRACE_MISSES \in Nat /\ OBSERVATION_GRACE_MISSES >= 2
                          /\ MissCap \in Nat /\ MissCap >= OBSERVATION_GRACE_MISSES
ASSUME ConsentAssumption == AuthorizationAwaitsConsent \in BOOLEAN

-----------------------------------------------------------------------------
(* Backend error kinds, by what the coordinator does with them: the        *)
(* RetryDirective classes, and the single kinds the code names.            *)
Kinds == {"transient", "registration", "cleanupUnproven", "explicit",
          "mixedInUse", "controllerInUse", "ticketExpired", "permanent"}

requires_explicit_reconciliation(k) == k \in {"cleanupUnproven", "explicit"}
allows_read_only_recheck(k) == k = "transient"

RuntimeKinds == {"LocalProxy", "SystemProxy", "TunnelRuntime"}
IsTunnel(m) == m \in {"Tunnel", "TunnelSystemProxy"}
LeaseKindOf(m) == IF IsTunnel(m) THEN "TunnelRuntime" ELSE m
\* The mode a lease kind is stopped, recovered and reported under.
ModeOfKind(k) == IF k \in {"LocalProxy", "SystemProxy"} THEN k ELSE "Tunnel"

Generations == 0..MaxGeneration
Digests == Sources \cup {NoSource}
Phases == {"Off", "Starting", "Installing", "AwaitingApproval", "Active",
           "Stopping", "Failed"}

(* EngineSnapshot.  `phase` and `mode` are the variant of EngineState (for *)
(* Failed, `mode` is its target); an Active state's RuntimeIdentity is the *)
(* snapshot's generation and digest, which is what validate_runtime        *)
(* established; `recheck` is Failed.recheck_pending.                       *)
Snapshots == [desired : AllModes \cup {"Off"}, phase : Phases,
              mode : AllModes \cup {"Off"}, generation : Generations,
              digest : Digests, recheck : BOOLEAN]
BootSnapshot(g) == [desired |-> "Off", phase |-> "Failed", mode |-> "Off",
                    generation |-> g, digest |-> NoSource, recheck |-> FALSE]
NoSnapshot == BootSnapshot(0)

LeaseKinds == RuntimeKinds \cup {"TunnelInstallation"}
Leases == [kind : LeaseKinds \cup {"None"}, generation : Generations]
NoLease == [kind |-> "None", generation |-> 0]

(* A native runtime: `identity` says whether owner, installation, epoch,   *)
(* digest and readiness are what this installation expects ("exact"), are  *)
(* another installation's ("foreign"), or are malformed or not ready.      *)
Runtimes == [kind : RuntimeKinds, generation : Generations, source : Digests,
             identity : {"exact", "foreign", "unready"}]
NoRuntime == [kind |-> "None", generation |-> 0, source |-> NoSource,
              identity |-> "unready"]

\* EngineRestartSpec; `ready` says that it holds a RuntimeIdentity.
Specs == [mode : AllModes \cup {"Off"}, source : Digests,
          generation : Generations, digest : Digests, ready : BOOLEAN]
NoSpec == [mode |-> "Off", source |-> NoSource, generation |-> 0,
           digest |-> NoSource, ready |-> FALSE]

(* ReconciliationFailure: `error` is the kind of a failed status read, or  *)
(* "terminal" for every other error; "none" is no failure.                 *)
Failures == [error : Kinds \cup {"none", "terminal"}, safely_off : BOOLEAN]
NoFailure == [error |-> "none", safely_off |-> FALSE]
Failure(e, off) == [error |-> e, safely_off |-> off]

Ops == {"Startup", "Tick", "ReconcileStartup", "SetMode", "ChangeProfile",
        "PrepareCutover", "PendingTunnelApproval",
        "QuarantineReleaseEvidenceRestore", "Shutdown", "Drop"}
Commands == [op : Ops, target : AllModes \cup {"Off"}, source : Digests,
             activate : BOOLEAN]
Command(op, target, source, activate) ==
    [op |-> op, target |-> target, source |-> source, activate |-> activate]
Plain(op) == Command(op, "Off", NoSource, FALSE)

Labels == {"reconcile", "idle", "dispatch", "transition", "stop", "prove",
           "reserve", "install", "authorize", "start", "selections", "observe",
           "prepare", "check", "returnOk", "returnErr", "closed", "down"}
Returns == {"switch", "abort", "abortOff", "toOff", "recover", "recoverInvalid"}

-----------------------------------------------------------------------------
VARIABLES
    \* CoordinatorState and the locals of run_coordinator.
    snapshot,         \* state.snapshot
    published,        \* the value in the snapshots watch channel
    lease,            \* state.native_lease
    quarantine,       \* state.quarantine.is_some()
    restart_spec,     \* state.restart_spec
    status_recheck,   \* state.status_recheck
    missed,           \* state.missed_observations
    startup_failure,  \* startup_failure
    policy,           \* startup_reconciliation: "known" lineage or "without"
    \* Where the actor task is, and the frames below it.
    pc,
    cmd,              \* the command being served ("Tick" for the poll)
    ret,              \* who called stop_owned_runtime / prove_global_off / reserve
    prior,            \* profile_change::apply's `previous`
    restoring,        \* inside profile_change::restore
    \* Outside the Host process.
    native,           \* the runtime the native services run
    inflight,         \* native starts requested and not yet settled
    journal,          \* the durable generation of this installation
    saved,            \* the selected source in the profile catalog
    lastStarted       \* history: newest generation a start was requested with

actor == <<snapshot, published, lease, quarantine, restart_spec, status_recheck,
           missed, startup_failure, policy>>
control == <<pc, cmd, ret, prior, restoring>>
nativeVars == <<native, inflight, lastStarted>>
vars == <<snapshot, published, lease, quarantine, restart_spec, status_recheck,
          missed, startup_failure, policy, pc, cmd, ret, prior, restoring,
          native, inflight, journal, saved, lastStarted>>

\* Everything that runs, or may still come to run, outside the Host.
Running == inflight \cup ({native} \ {NoRuntime})

TypeOK ==
    /\ snapshot \in Snapshots /\ published \in Snapshots
    /\ lease \in Leases /\ quarantine \in BOOLEAN
    /\ restart_spec \in Specs /\ status_recheck \in Snapshots
    /\ missed \in 0..MissCap /\ startup_failure \in Failures
    /\ policy \in {"known", "without"}
    /\ pc \in Labels /\ cmd \in Commands /\ ret \in Returns
    /\ prior \in Specs /\ restoring \in BOOLEAN
    /\ native \in Runtimes \cup {NoRuntime} /\ inflight \subseteq Runtimes
    /\ journal \in Generations /\ saved \in Digests /\ lastStarted \in Generations

-----------------------------------------------------------------------------
(* Snapshot updates.                                                       *)
OffSnapshot(s) == [s EXCEPT !.phase = "Off", !.mode = "Off", !.digest = NoSource,
                            !.recheck = FALSE]
FailedSnapshot(s, target, pending) ==
    [s EXCEPT !.phase = "Failed", !.mode = target, !.recheck = pending]
InPhase(s, phase, mode) == [s EXCEPT !.phase = phase, !.mode = mode, !.recheck = FALSE]

publish(s) == snapshot' = s /\ published' = s
ClearObservation == status_recheck' = NoSnapshot /\ missed' = 0
set_off(s) == publish(OffSnapshot(s)) /\ ClearObservation
set_failed(s, target) == publish(FailedSnapshot(s, target, FALSE)) /\ ClearObservation
set_unobserved(target, retained) ==
    publish(FailedSnapshot(snapshot, target, TRUE)) /\ status_recheck' = retained

(* The pair of source and mode the running transition is about: the        *)
(* command's, or those of the prior spec once a profile change restores.   *)
Goal == IF restoring THEN [mode |-> prior.mode, source |-> prior.source]
                     ELSE [mode |-> cmd.target, source |-> cmd.source]

is_same_active_runtime ==
    snapshot.phase = "Active" /\ snapshot.mode = Goal.mode /\ snapshot.digest = Goal.source

accepted(mode, source, s) ==
    [mode |-> mode, source |-> source, generation |-> s.generation,
     digest |-> s.digest, ready |-> s.phase = "Active"]
matches_ready_snapshot(spec, s) ==
    /\ s.desired = spec.mode /\ s.generation = spec.generation /\ s.digest = spec.digest
    /\ \/ s.phase = "Off" /\ spec.mode = "Off" /\ spec.digest = NoSource
       \/ s.phase = "Active" /\ s.mode = spec.mode /\ spec.ready

(* The observation every status read may return under the backend's        *)
(* contract: Off only when nothing runs or may still start, a runtime only *)
(* if it runs now, an error always.                                        *)
ObservesOff == Running = {}
ObservesRuntime == native # NoRuntime
ObservesExact(kind) ==
    /\ ObservesRuntime
    /\ native.kind = kind /\ native.identity = "exact"
    /\ native.generation = snapshot.generation /\ native.source = snapshot.digest

(* What a stop does to the runtime it names and to a start still in flight *)
(* for the same context.                                                   *)
StopsExactly(l) ==
    /\ native' = IF native.kind = l.kind /\ native.generation = l.generation
                 THEN NoRuntime ELSE native
    /\ inflight' = {r \in inflight : r.kind # l.kind \/ r.generation # l.generation}

-----------------------------------------------------------------------------
(* stop_owned_runtime up to its native call.  Cancelling an installation   *)
(* does not publish a Stopping state.                                      *)
BeginStop(l, s, caller) ==
    /\ IF l.kind = "TunnelInstallation"
       THEN snapshot' = s /\ UNCHANGED published
       ELSE publish(InPhase(s, "Stopping", ModeOfKind(l.kind)))
    /\ pc' = "stop" /\ ret' = caller
    /\ UNCHANGED <<status_recheck, missed>>

(* fail_backend before its first await.  `settlesOff` names the two start  *)
(* failures that end in Off once Off is proven.                            *)
settlesOff(op, kind) ==
    /\ op = "start"
    /\ \/ kind = "controllerInUse"
       \/ kind = "mixedInUse" /\ snapshot.desired # "Tunnel"
       \/ kind = "ticketExpired" /\ IsTunnel(snapshot.desired)
fail_backend(op, kind) ==
    \/ /\ requires_explicit_reconciliation(kind)
       /\ quarantine' = TRUE
       /\ set_failed(snapshot, snapshot.desired)
       /\ pc' = "returnErr"
       /\ UNCHANGED ret
    \/ /\ ~requires_explicit_reconciliation(kind)
       /\ BeginStop(lease, snapshot, IF settlesOff(op, kind) THEN "abortOff" ELSE "abort")
       /\ UNCHANGED quarantine

(* transition_to_off up to its first await.                                *)
requires_off_proof == lease # NoLease \/ quarantine

BeginOff ==
    LET s == [snapshot EXCEPT !.desired = "Off"] IN
    \/ /\ lease # NoLease
       /\ BeginStop(lease, s, "toOff")
       /\ UNCHANGED quarantine
    \/ /\ lease = NoLease /\ requires_off_proof
       /\ snapshot' = s /\ pc' = "prove" /\ ret' = "toOff"
       /\ UNCHANGED <<published, quarantine, status_recheck, missed>>
    \/ /\ ~requires_off_proof
       /\ set_off(s)
       /\ quarantine' = FALSE
       /\ ret' = "toOff"
       /\ pc' = IF snapshot.phase = "Off" THEN "returnOk" ELSE "reserve"

EndStartup(failure) ==
    /\ startup_failure' = failure
    /\ pc' = IF cmd.op \in {"Startup", "ReconcileStartup"} THEN "idle" ELSE "dispatch"

-----------------------------------------------------------------------------
(* Startup: reconcile_initial_state.                                       *)
RecoveredIsValid ==
    IF policy = "known" THEN native.identity = "exact" /\ native.generation = snapshot.generation
                        ELSE native.identity # "unready" /\ native.generation # 0

ReconcileQueryFails(kind) ==
    /\ pc = "reconcile"
    /\ set_failed(snapshot, "Off")
    /\ EndStartup(Failure(kind, FALSE))
    /\ UNCHANGED <<lease, quarantine, restart_spec, policy, cmd, ret, prior, restoring,
                   nativeVars, journal, saved>>

ReconcileObservesOff ==
    /\ pc = "reconcile" /\ ObservesOff
    /\ set_off([snapshot EXCEPT !.desired = "Off"])
    /\ EndStartup(NoFailure)
    /\ UNCHANGED <<lease, quarantine, restart_spec, policy, cmd, ret, prior, restoring,
                   nativeVars, journal, saved>>

\* cleanup_recovered_runtime / cleanup_runtime_without_lineage up to the stop.
ReconcileObservesRuntime ==
    /\ pc = "reconcile" /\ ObservesRuntime
    /\ lease' = [kind |-> native.kind, generation |-> native.generation]
    /\ BeginStop(lease',
                 [snapshot EXCEPT !.desired = "Off", !.generation = native.generation,
                                  !.digest = native.source],
                 IF RecoveredIsValid THEN "recover" ELSE "recoverInvalid")
    /\ UNCHANGED <<quarantine, restart_spec, startup_failure, policy, cmd, prior,
                   restoring, nativeVars, journal, saved>>

-----------------------------------------------------------------------------
(* stop_owned_runtime after its native call.  The trait promises that a    *)
(* successful stop is a barrier; the coordinator does not rely on it but   *)
(* proves Off independently, so here a success may leave its runtime.      *)
StopSucceeds ==
    /\ pc = "stop"
    /\ StopsExactly(lease) \/ UNCHANGED <<native, inflight>>
    /\ lease' = NoLease
    /\ pc' = "prove"
    /\ UNCHANGED <<snapshot, published, quarantine, restart_spec, status_recheck, missed,
                   startup_failure, policy, cmd, ret, prior, restoring, journal, saved,
                   lastStarted>>

\* The stop may or may not have taken effect; the lease is kept either way.
StopFails(kind) ==
    /\ pc = "stop"
    /\ StopsExactly(lease) \/ UNCHANGED <<native, inflight>>
    /\ quarantine' = (quarantine \/ requires_explicit_reconciliation(kind))
    /\ \/ /\ ret \in {"switch", "abort", "abortOff", "toOff"}
          /\ set_failed(snapshot, snapshot.desired)
          /\ pc' = "returnErr"
          /\ UNCHANGED startup_failure
       \/ /\ ret \in {"recover", "recoverInvalid"}
          /\ set_failed(snapshot, ModeOfKind(lease.kind))
          /\ EndStartup(Failure("terminal", FALSE))
    /\ UNCHANGED <<lease, restart_spec, policy, cmd, ret, prior, restoring, journal, saved,
                   lastStarted>>

-----------------------------------------------------------------------------
(* prove_global_off after its query, and what each caller does next.       *)
ProveObservesOff ==
    /\ pc = "prove" /\ ObservesOff
    /\ \/ /\ ret \in {"switch", "toOff"}
          /\ set_off(snapshot)
          /\ quarantine' = IF ret = "toOff" THEN FALSE ELSE quarantine
          /\ pc' = "reserve"
          /\ UNCHANGED startup_failure
       \/ /\ ret = "abortOff"
          /\ set_off(snapshot)
          /\ pc' = "returnErr"
          /\ UNCHANGED <<quarantine, startup_failure>>
       \/ /\ ret = "abort"
          /\ set_failed(snapshot, snapshot.desired)
          /\ pc' = "returnErr"
          /\ UNCHANGED <<quarantine, startup_failure>>
       \/ /\ ret = "recover"
          /\ set_off(snapshot)
          /\ EndStartup(NoFailure)
          /\ UNCHANGED quarantine
       \/ /\ ret = "recoverInvalid"
          /\ set_failed(snapshot, snapshot.mode)
          /\ EndStartup(Failure("terminal", TRUE))
          /\ UNCHANGED quarantine
    /\ UNCHANGED <<lease, restart_spec, policy, cmd, ret, prior, restoring, nativeVars,
                   journal, saved>>

\* `failure` is the kind of the failed read, or "observed" for a lingering owner.
ProveFails(failure) ==
    /\ pc = "prove"
    /\ failure = "observed" => ObservesRuntime
    /\ quarantine' = TRUE
    /\ \/ /\ ret \in {"switch", "toOff", "abort", "abortOff"}
          /\ set_failed(snapshot, snapshot.desired)
          /\ pc' = "returnErr"
          /\ UNCHANGED startup_failure
       \/ /\ ret = "recover"
          /\ set_failed(snapshot, snapshot.desired)
          /\ EndStartup(Failure(IF failure = "observed" THEN "terminal" ELSE failure, FALSE))
       \/ /\ ret = "recoverInvalid"
          /\ set_failed(snapshot, snapshot.mode)
          /\ EndStartup(Failure("terminal", FALSE))
    /\ UNCHANGED <<lease, restart_spec, policy, cmd, ret, prior, restoring, nativeVars,
                   journal, saved>>

-----------------------------------------------------------------------------
(* transition up to its first await.                                       *)
MayLeaveOff == ~quarantine

(* A quarantine, or a profile or MTU that does not project: nothing has    *)
(* been touched yet.  A prior source has been projected before.            *)
TransitionRejects ==
    /\ pc = "transition" /\ (quarantine \/ ~restoring)
    /\ pc' = "returnErr"
    /\ UNCHANGED <<actor, cmd, ret, prior, restoring, nativeVars, journal, saved>>

TransitionReconciles ==
    /\ pc = "transition" /\ MayLeaveOff /\ is_same_active_runtime
    /\ status_recheck' = NoSnapshot
    /\ pc' = "observe"
    /\ UNCHANGED <<snapshot, published, lease, quarantine, restart_spec, missed,
                   startup_failure, policy, cmd, ret, prior, restoring, nativeVars,
                   journal, saved>>

TransitionSwitches ==
    LET s == [snapshot EXCEPT !.desired = Goal.mode] IN
    /\ pc = "transition" /\ MayLeaveOff /\ ~is_same_active_runtime
    /\ \/ /\ lease = NoLease
          /\ set_off(s)
          /\ pc' = "reserve" /\ ret' = "switch"
       \/ /\ lease # NoLease
          /\ BeginStop(lease, s, "switch")
    /\ UNCHANGED <<lease, quarantine, restart_spec, startup_failure, policy, cmd, prior,
                   restoring, nativeVars, journal, saved>>

-----------------------------------------------------------------------------
(* reserve_next_generation and the native start that follows it.           *)
CanReserve == policy = "known" /\ journal = snapshot.generation /\ journal < MaxGeneration

\* Mutant: the advanced generation is used but never becomes durable.
MutLoseReservation == journal
ReservedInJournal == journal + 1

RequestStart(kind, generation) ==
    /\ inflight' = inflight \cup
           {[kind |-> kind, generation |-> generation, source |-> Goal.source,
             identity |-> "exact"]}
    /\ lastStarted' = generation
    /\ UNCHANGED native

ReserveForOff ==
    /\ pc = "reserve" /\ ret = "toOff" /\ CanReserve
    /\ journal' = ReservedInJournal
    /\ publish([snapshot EXCEPT !.generation = journal + 1])
    /\ pc' = "returnOk"
    /\ UNCHANGED <<lease, quarantine, restart_spec, status_recheck, missed,
                   startup_failure, policy, cmd, ret, prior, restoring, nativeVars, saved>>

ReserveForProxy ==
    /\ pc = "reserve" /\ ret = "switch" /\ CanReserve
    /\ Goal.mode \in {"LocalProxy", "SystemProxy"}
    /\ journal' = ReservedInJournal
    /\ lease' = [kind |-> Goal.mode, generation |-> journal + 1]
    /\ publish([InPhase(snapshot, "Starting", Goal.mode) EXCEPT
                    !.generation = journal + 1, !.digest = Goal.source])
    /\ RequestStart(Goal.mode, journal + 1)
    /\ pc' = "start"
    /\ UNCHANGED <<quarantine, restart_spec, status_recheck, missed, startup_failure,
                   policy, cmd, ret, prior, restoring, saved>>

ReserveForTunnel ==
    /\ pc = "reserve" /\ ret = "switch" /\ CanReserve /\ IsTunnel(Goal.mode)
    /\ journal' = ReservedInJournal
    /\ lease' = [kind |-> "TunnelInstallation", generation |-> journal + 1]
    /\ publish([InPhase(snapshot, "Installing", "Tunnel") EXCEPT
                    !.generation = journal + 1, !.digest = Goal.source])
    /\ pc' = "install"
    /\ UNCHANGED <<quarantine, restart_spec, status_recheck, missed, startup_failure,
                   policy, cmd, ret, prior, restoring, nativeVars, saved>>

\* The journal refuses, or fails after it has durably advanced.
ReserveFails ==
    /\ pc = "reserve"
    /\ journal' \in {journal} \cup (IF CanReserve THEN {journal + 1} ELSE {})
    /\ pc' = "returnErr"
    /\ UNCHANGED <<actor, cmd, ret, prior, restoring, nativeVars, saved>>

-----------------------------------------------------------------------------
(* The native start sequence of transition.                                *)
InstallSucceeds ==
    /\ pc = "install"
    /\ lease' = [lease EXCEPT !.kind = "TunnelRuntime"]
    /\ publish(InPhase(snapshot,
                       IF AuthorizationAwaitsConsent THEN "AwaitingApproval" ELSE "Starting",
                       "Tunnel"))
    /\ pc' = "authorize"
    /\ UNCHANGED <<quarantine, restart_spec, status_recheck, missed, startup_failure,
                   policy, cmd, ret, prior, restoring, nativeVars, journal, saved>>

\* TunnelInstallOutcome::AwaitingApproval: the transition ends here, successfully.
InstallAwaitsApproval ==
    /\ pc = "install"
    /\ publish(InPhase(snapshot, "AwaitingApproval", "Tunnel"))
    /\ pc' = "returnOk"
    /\ UNCHANGED <<lease, quarantine, restart_spec, status_recheck, missed,
                   startup_failure, policy, cmd, ret, prior, restoring, nativeVars,
                   journal, saved>>

AuthorizeSucceeds ==
    /\ pc = "authorize"
    /\ publish(InPhase(snapshot, "Starting", "Tunnel"))
    /\ RequestStart("TunnelRuntime", snapshot.generation)
    /\ pc' = "start"
    /\ UNCHANGED <<lease, quarantine, restart_spec, status_recheck, missed,
                   startup_failure, policy, cmd, ret, prior, restoring, journal, saved>>

BeforeStartFails(kind) ==
    /\ pc \in {"install", "authorize"}
    /\ fail_backend(pc, kind)
    /\ UNCHANGED <<lease, restart_spec, startup_failure, policy, cmd, prior, restoring,
                   nativeVars, journal, saved>>

StartSucceeds ==
    /\ pc = "start" /\ ObservesExact(lease.kind)
    /\ snapshot' = InPhase(snapshot, "Active", Goal.mode)
    /\ pc' = "selections"
    /\ UNCHANGED <<published, lease, quarantine, restart_spec, status_recheck, missed,
                   startup_failure, policy, cmd, ret, prior, restoring, nativeVars,
                   journal, saved>>

\* validate_runtime rejects what the start returned: fail_identity.
StartReturnsOtherIdentity ==
    /\ pc = "start" /\ ObservesRuntime /\ ~ObservesExact(lease.kind)
    /\ BeginStop(lease, snapshot, "abort")
    /\ UNCHANGED <<lease, quarantine, restart_spec, startup_failure, policy, cmd, prior,
                   restoring, nativeVars, journal, saved>>

(* An error or a timeout of the start.  The dropped future proves nothing: *)
(* the request may be gone, still in flight, or already running.           *)
StartFails(kind) ==
    /\ pc = "start"
    /\ StopsExactly(lease) \/ UNCHANGED <<native, inflight>>
    /\ fail_backend("start", kind)
    /\ UNCHANGED <<lease, restart_spec, startup_failure, policy, cmd, prior, restoring,
                   journal, saved, lastStarted>>

\* restore_proxy_selections; the Active state is published only after it.
SelectionsRestored ==
    /\ pc = "selections"
    /\ publish(snapshot)
    /\ pc' = "returnOk"
    /\ UNCHANGED <<lease, quarantine, restart_spec, status_recheck, missed,
                   startup_failure, policy, cmd, ret, prior, restoring, nativeVars,
                   journal, saved>>

SelectionsFail ==
    /\ pc = "selections"
    /\ BeginStop(lease, snapshot, "abort")
    /\ UNCHANGED <<lease, quarantine, restart_spec, startup_failure, policy, cmd, prior,
                   restoring, nativeVars, journal, saved>>

-----------------------------------------------------------------------------
(* reconcile_active_runtime.  Its baseline is the published Active         *)
(* snapshot, or the retained one while it is recovering; the handler's     *)
(* local copy of status_recheck is left in the variable during the await,  *)
(* which nothing else reads.                                               *)
recovering == snapshot.phase = "Failed"
baseline == IF recovering THEN status_recheck ELSE snapshot
\* Mutant: a failed snapshot is never observed again.
MutObserveActiveOnly == snapshot.phase = "Active"
MayObserve ==
    \/ snapshot.phase = "Active"
    \/ /\ recovering /\ status_recheck.phase = "Active"
       /\ status_recheck.generation = snapshot.generation
       /\ status_recheck.desired = snapshot.desired
       /\ status_recheck.digest = snapshot.digest
       /\ lease # NoLease /\ lease.generation = status_recheck.generation

WithinGrace(misses) == misses < OBSERVATION_GRACE_MISSES

saturating_add(n) == IF n < MissCap THEN n + 1 ELSE n

\* Mutant: every refuted observation retires the lease, not only an observed Off.
MutRetireAlways(kind) == TRUE
RetiresLease(kind) == kind = "off"

\* What the caller of the observation does with its result.
ObservationReturns(ok) ==
    pc' = IF cmd.op = "Tick" THEN "idle" ELSE IF ok THEN "returnOk" ELSE "returnErr"

ObservationMisses ==
    /\ pc = "observe"
    /\ missed' = saturating_add(missed)
    /\ IF ~recovering /\ WithinGrace(missed')
       THEN UNCHANGED <<snapshot, published, status_recheck>>
       ELSE set_unobserved(baseline.mode, baseline)
    /\ ObservationReturns(FALSE)
    /\ UNCHANGED <<lease, quarantine, restart_spec, startup_failure, policy, cmd, ret,
                   prior, restoring, nativeVars, journal, saved>>

\* An observed Off retires the lease; another identity or a definitive error does not.
ObservationRefutes(kind) ==
    /\ pc = "observe"
    /\ \/ kind = "off" /\ ObservesOff
       \/ kind = "mismatch" /\ ObservesRuntime /\ ~ObservesExact(LeaseKindOf(baseline.mode))
       \/ kind \in Kinds /\ ~allows_read_only_recheck(kind)
    /\ lease' = IF RetiresLease(kind) THEN NoLease ELSE lease
    /\ set_failed(snapshot, baseline.mode)
    /\ ObservationReturns(FALSE)
    /\ UNCHANGED <<quarantine, restart_spec, startup_failure, policy, cmd, ret, prior,
                   restoring, nativeVars, journal, saved>>

ObservationAttests ==
    /\ pc = "observe" /\ ObservesExact(LeaseKindOf(baseline.mode))
    /\ missed' = 0 /\ status_recheck' = NoSnapshot
    /\ LET s == IF recovering THEN InPhase(snapshot, "Active", baseline.mode) ELSE snapshot
       IN  publish(IF cmd.op = "Tick" THEN s ELSE [s EXCEPT !.desired = Goal.mode])
    /\ ObservationReturns(TRUE)
    /\ UNCHANGED <<lease, quarantine, restart_spec, startup_failure, policy, cmd, ret,
                   prior, restoring, nativeVars, journal, saved>>

-----------------------------------------------------------------------------
(* profile_change::apply and restore.                                      *)
\* `commit` succeeds or fails synchronously; only an activating change selects.
Commit(source) == saved' = IF cmd.activate THEN source ELSE saved

\* Preparation fails, or the change is refused before the runtime is touched.
PrepareRefuses ==
    /\ pc \in {"prepare", "check"}
    /\ pc' = "idle"
    /\ UNCHANGED <<actor, cmd, ret, prior, restoring, nativeVars, journal, saved>>

PrepareCommitsOffline ==
    /\ pc = "prepare" /\ (~cmd.activate \/ cmd.target = "Off")
    /\ Commit(cmd.source)
    /\ pc' = "idle"
    /\ UNCHANGED <<actor, cmd, ret, prior, restoring, nativeVars, journal>>

OnlineChangeAllowed ==
    /\ cmd.activate /\ cmd.target # "Off"
    /\ matches_ready_snapshot(restart_spec, snapshot)

\* The runtime already runs this very input.
PrepareCommitsIdentical ==
    /\ pc = "prepare" /\ OnlineChangeAllowed /\ restart_spec.source = cmd.source
    /\ Commit(cmd.source)
    /\ restart_spec' = accepted(cmd.target, cmd.source, snapshot)
    /\ pc' = "idle"
    /\ UNCHANGED <<snapshot, published, lease, quarantine, status_recheck, missed,
                   startup_failure, policy, cmd, ret, prior, restoring, nativeVars, journal>>

PrepareChecks ==
    /\ pc = "prepare" /\ OnlineChangeAllowed /\ restart_spec.source # cmd.source
    /\ snapshot.generation < MaxGeneration
    /\ prior' = restart_spec
    /\ pc' = "check"
    /\ UNCHANGED <<actor, cmd, ret, restoring, nativeVars, journal, saved>>

CheckSucceeds ==
    /\ pc = "check"
    /\ pc' = "transition"
    /\ UNCHANGED <<actor, cmd, ret, prior, restoring, nativeVars, journal, saved>>

-----------------------------------------------------------------------------
(* The end of a transition, by the command that asked for it.              *)
RestoreAllowed(candidate_started) ==
    /\ ~matches_ready_snapshot(prior, snapshot)
    /\ ~quarantine /\ (candidate_started \/ lease = NoLease)

\* profile_change::restore up to the transition it makes.
Restore(candidate_started) ==
    IF RestoreAllowed(candidate_started)
    THEN pc' = "transition" /\ restoring' = TRUE
    ELSE pc' = "idle" /\ UNCHANGED restoring

SetModeReturns ==
    /\ pc \in {"returnOk", "returnErr"} /\ cmd.op = "SetMode"
    /\ restart_spec' = IF pc = "returnOk" THEN accepted(cmd.target, cmd.source, snapshot)
                                          ELSE restart_spec
    /\ pc' = "idle"
    /\ UNCHANGED <<snapshot, published, lease, quarantine, status_recheck, missed,
                   startup_failure, policy, cmd, ret, prior, restoring, nativeVars,
                   journal, saved>>

CandidateCommits ==
    /\ pc = "returnOk" /\ cmd.op = "ChangeProfile" /\ ~restoring
    /\ Commit(cmd.source)
    /\ restart_spec' = accepted(cmd.target, cmd.source, snapshot)
    /\ pc' = "idle"
    /\ UNCHANGED <<snapshot, published, lease, quarantine, status_recheck, missed,
                   startup_failure, policy, cmd, ret, prior, restoring, nativeVars, journal>>

\* The candidate did not start, or its commit failed.
CandidateFails ==
    /\ pc \in {"returnOk", "returnErr"} /\ cmd.op = "ChangeProfile" /\ ~restoring
    /\ Restore(pc = "returnOk")
    /\ UNCHANGED <<actor, cmd, ret, prior, nativeVars, journal, saved>>

\* Mutant: a failed restore is attempted again.
MutRestoreForever ==
    /\ pc \in {"returnOk", "returnErr"} /\ cmd.op = "ChangeProfile" /\ restoring
    /\ pc' = IF pc = "returnOk" THEN "idle" ELSE "transition"
    /\ UNCHANGED <<actor, cmd, ret, prior, restoring, nativeVars, journal, saved>>
RestoreReturns ==
    /\ pc \in {"returnOk", "returnErr"} /\ cmd.op = "ChangeProfile" /\ restoring
    /\ restart_spec' = IF pc = "returnOk" THEN accepted(prior.mode, prior.source, snapshot)
                                          ELSE restart_spec
    /\ pc' = "idle"
    /\ UNCHANGED <<snapshot, published, lease, quarantine, status_recheck, missed,
                   startup_failure, policy, cmd, ret, prior, restoring, nativeVars,
                   journal, saved>>

ShutdownReturns ==
    /\ pc \in {"returnOk", "returnErr"} /\ cmd.op = "Shutdown"
    /\ pc' = IF lease = NoLease /\ snapshot.phase = "Off" THEN "closed" ELSE "idle"
    /\ UNCHANGED <<actor, cmd, ret, prior, restoring, nativeVars, journal, saved>>

\* After the last sender is gone the actor stops the runtime and ends either way.
DropReturns ==
    /\ pc \in {"returnOk", "returnErr"} /\ cmd.op = "Drop"
    /\ IF pc = "returnErr" THEN set_failed(snapshot, "Off")
       ELSE UNCHANGED <<snapshot, published, status_recheck, missed>>
    /\ pc' = "closed"
    /\ UNCHANGED <<lease, quarantine, restart_spec, startup_failure, policy, cmd, ret,
                   prior, restoring, nativeVars, journal, saved>>

-----------------------------------------------------------------------------
(* The actor loop: commands and the poll.                                  *)
allows_explicit_retry ==
    \/ allows_read_only_recheck(startup_failure.error)
    \/ startup_failure.error = "registration"

allows_service_reconciliation ==
    /\ policy = "known" /\ ~startup_failure.safely_off
    /\ snapshot.desired = "Off" /\ snapshot.phase = "Failed" /\ snapshot.mode = "Off"
    /\ lease = NoLease /\ ~quarantine
    /\ startup_failure.error = "cleanupUnproven" \/ allows_explicit_retry

\* A command arrives; a retryable startup failure is reconciled again first.
Receive(c) ==
    /\ pc = "idle"
    /\ cmd' = c /\ restoring' = FALSE /\ prior' = NoSpec
    /\ pc' = IF startup_failure # NoFailure /\ allows_explicit_retry /\ c.op # "Shutdown"
             THEN "reconcile" ELSE "dispatch"
    /\ UNCHANGED <<actor, ret, nativeVars, journal, saved>>

\* Command::ReconcileStartup with the offer that is still current.
ReceiveReconcileStartup ==
    /\ pc = "idle" /\ startup_failure # NoFailure /\ allows_service_reconciliation
    /\ cmd' = Plain("ReconcileStartup") /\ restoring' = FALSE /\ prior' = NoSpec
    /\ pc' = "reconcile"
    /\ UNCHANGED <<actor, ret, nativeVars, journal, saved>>

\* All senders are dropped; a failed startup ends the task without native I/O.
SendersDropped ==
    /\ pc = "idle"
    /\ cmd' = Plain("Drop") /\ restoring' = FALSE /\ prior' = NoSpec
    /\ \/ /\ startup_failure # NoFailure
          /\ pc' = "closed"
          /\ UNCHANGED <<snapshot, published, quarantine, status_recheck, missed, ret>>
       \/ startup_failure = NoFailure /\ BeginOff
    /\ UNCHANGED <<lease, restart_spec, startup_failure, policy, nativeVars, journal, saved>>

\* A command while startup has failed: an error, or one of the two safe exits.
ShutdownMayExit ==
    \/ startup_failure.safely_off
    \/ lease = NoLease /\ ~quarantine /\ startup_failure.error \in Kinds

\* Mutant: Off is granted after any failed startup.
MutOffAlwaysSettles == TRUE
OffMaySettle == startup_failure.safely_off

DispatchAfterFailedStartup ==
    /\ pc = "dispatch" /\ startup_failure # NoFailure
    /\ \/ /\ cmd.op = "SetMode" /\ cmd.target = "Off" /\ OffMaySettle
          /\ set_off([snapshot EXCEPT !.desired = "Off"])
          /\ pc' = "idle"
       \/ /\ cmd.op = "Shutdown" /\ ShutdownMayExit
          /\ set_off([snapshot EXCEPT !.desired = "Off"])
          /\ pc' = "closed"
       \/ /\ ~(cmd.op = "SetMode" /\ cmd.target = "Off" /\ OffMaySettle)
          /\ ~(cmd.op = "Shutdown" /\ ShutdownMayExit)
          /\ pc' = "idle"
          /\ UNCHANGED <<snapshot, published, status_recheck, missed>>
    /\ UNCHANGED <<lease, quarantine, restart_spec, startup_failure, policy, cmd, ret,
                   prior, restoring, nativeVars, journal, saved>>

\* Reads, and a set_mode_if_snapshot whose expected snapshot is not the current one.
DispatchAnswers ==
    /\ pc = "dispatch" /\ startup_failure = NoFailure
    /\ cmd.op \in {"PrepareCutover", "PendingTunnelApproval", "SetMode"}
    /\ pc' = "idle"
    /\ UNCHANGED <<actor, cmd, ret, prior, restoring, nativeVars, journal, saved>>

DispatchTransition ==
    /\ pc = "dispatch" /\ startup_failure = NoFailure
    /\ cmd.op = "SetMode" /\ cmd.target # "Off"
    /\ pc' = "transition"
    /\ UNCHANGED <<actor, cmd, ret, prior, restoring, nativeVars, journal, saved>>

DispatchOff ==
    /\ pc = "dispatch" /\ startup_failure = NoFailure
    /\ cmd.op = "Shutdown" \/ (cmd.op = "SetMode" /\ cmd.target = "Off")
    /\ BeginOff
    /\ UNCHANGED <<lease, restart_spec, startup_failure, policy, cmd, prior, restoring,
                   nativeVars, journal, saved>>

\* The mode is read at admission, before the preparation is awaited.
DispatchChangeProfile ==
    /\ pc = "dispatch" /\ startup_failure = NoFailure /\ cmd.op = "ChangeProfile"
    /\ cmd' = [cmd EXCEPT !.target = snapshot.desired]
    /\ pc' = "prepare"
    /\ UNCHANGED <<actor, ret, prior, restoring, nativeVars, journal, saved>>

DispatchQuarantine ==
    /\ pc = "dispatch" /\ startup_failure = NoFailure
    /\ cmd.op = "QuarantineReleaseEvidenceRestore"
    /\ quarantine' = TRUE
    /\ set_failed(snapshot, snapshot.desired)
    /\ pc' = "idle"
    /\ UNCHANGED <<lease, restart_spec, startup_failure, policy, cmd, ret, prior,
                   restoring, nativeVars, journal, saved>>

Tick ==
    /\ pc = "idle" /\ startup_failure = NoFailure
    /\ cmd' = Plain("Tick") /\ restoring' = FALSE /\ prior' = NoSpec
    /\ \/ /\ ~quarantine /\ MayObserve
          /\ pc' = "observe"
          /\ status_recheck' = IF recovering THEN status_recheck ELSE NoSnapshot
       \/ /\ quarantine \/ ~MayObserve
          /\ pc' = "idle"
          /\ status_recheck' = NoSnapshot
    /\ UNCHANGED <<snapshot, published, lease, quarantine, restart_spec, missed,
                   startup_failure, policy, ret, nativeVars, journal, saved>>

-----------------------------------------------------------------------------
(* A Host process ends without notice, or has ended, and another starts:   *)
(* spawn_persisted_with loads the lineage; when the journal cannot be read *)
(* spawn_unavailable_with starts the cleanup-only coordinator.             *)
Volatile(g) ==
    /\ snapshot' = BootSnapshot(g) /\ published' = BootSnapshot(g)
    /\ lease' = NoLease /\ quarantine' = FALSE /\ restart_spec' = NoSpec
    /\ status_recheck' = NoSnapshot /\ missed' = 0 /\ startup_failure' = NoFailure
    /\ cmd' = Plain("Startup") /\ ret' = "recover" /\ prior' = NoSpec /\ restoring' = FALSE

Crash ==
    /\ pc \notin {"down", "closed"}
    /\ Volatile(0) /\ policy' = "known" /\ pc' = "down"
    /\ UNCHANGED <<nativeVars, journal, saved>>

HostStarts ==
    /\ pc \in {"down", "closed"}
    /\ \/ policy' = "known" /\ Volatile(journal)
       \/ policy' = "without" /\ Volatile(0)
    /\ pc' = "reconcile"
    /\ UNCHANGED <<nativeVars, journal, saved>>

(* External: what the native services and the system do by themselves.     *)
NativeStartLands ==
    \E r \in inflight, identity \in {"exact", "unready"} :
        /\ native = NoRuntime
        /\ native' = [r EXCEPT !.identity = identity]
        /\ inflight' = inflight \ {r}
        /\ UNCHANGED <<actor, control, journal, saved, lastStarted>>

NativeStartDies ==
    \E r \in inflight :
        /\ inflight' = inflight \ {r}
        /\ UNCHANGED <<actor, control, native, journal, saved, lastStarted>>

NativeStops ==
    /\ native # NoRuntime /\ native' = NoRuntime
    /\ UNCHANGED <<actor, control, inflight, journal, saved, lastStarted>>

NativeDegrades ==
    /\ native # NoRuntime /\ native.identity = "exact"
    /\ native' = [native EXCEPT !.identity = "unready"]
    /\ UNCHANGED <<actor, control, inflight, journal, saved, lastStarted>>

-----------------------------------------------------------------------------
Foreign == [kind : RuntimeKinds, generation : Generations, source : Sources,
            identity : {"foreign"}]

(* The first Host of an installation, with or without a runtime left over  *)
(* from another one.                                                       *)
Init ==
    /\ snapshot = BootSnapshot(0) /\ published = BootSnapshot(0)
    /\ lease = NoLease /\ quarantine = FALSE /\ restart_spec = NoSpec
    /\ status_recheck = NoSnapshot /\ missed = 0 /\ startup_failure = NoFailure
    /\ policy = "known" /\ pc = "reconcile"
    /\ cmd = Plain("Startup") /\ ret = "recover" /\ prior = NoSpec /\ restoring = FALSE
    /\ native \in Foreign \cup {NoRuntime} /\ inflight = {}
    /\ journal = 0 /\ lastStarted = 0
    /\ saved \in Sources

\* The calls of the EngineModeCoordinator handle that reach the actor.
Requests ==
    {c \in Commands :
        \/ c.op = "SetMode" /\ c.target \in Modes \cup {"Off"} /\ c.source \in Sources /\ ~c.activate
        \/ c.op = "ChangeProfile" /\ c.target = "Off" /\ c.source \in Sources
        \/ /\ c.op \in {"PrepareCutover", "PendingTunnelApproval", "Shutdown",
                        "QuarantineReleaseEvidenceRestore"}
           /\ c = Plain(c.op)}

\* The rest of a command: every await is bounded by a timeout of the code.
Reconcile == \/ \E k \in Kinds : ReconcileQueryFails(k)
             \/ ReconcileObservesOff \/ ReconcileObservesRuntime
Stop == StopSucceeds \/ \E k \in Kinds : StopFails(k)
Prove == ProveObservesOff \/ \E f \in Kinds \cup {"observed"} : ProveFails(f)
Transition == TransitionRejects \/ TransitionReconciles \/ TransitionSwitches
Reserve == ReserveForOff \/ ReserveForProxy \/ ReserveForTunnel \/ ReserveFails
NativeStart ==
    \/ InstallSucceeds \/ InstallAwaitsApproval \/ AuthorizeSucceeds
    \/ \E k \in Kinds : BeforeStartFails(k)
    \/ StartSucceeds \/ StartReturnsOtherIdentity \/ \E k \in Kinds : StartFails(k)
    \/ SelectionsRestored \/ SelectionsFail
Observe == \/ ObservationMisses \/ ObservationAttests
           \/ \E k \in Kinds \cup {"off", "mismatch"} : ObservationRefutes(k)
ChangeProfile == \/ PrepareRefuses \/ PrepareCommitsOffline \/ PrepareCommitsIdentical
                 \/ PrepareChecks \/ CheckSucceeds
Return == \/ SetModeReturns \/ CandidateCommits \/ CandidateFails \/ RestoreReturns
          \/ ShutdownReturns \/ DropReturns
Dispatch == \/ DispatchAfterFailedStartup \/ DispatchAnswers \/ DispatchTransition
            \/ DispatchOff \/ DispatchChangeProfile \/ DispatchQuarantine

Serve == \/ Reconcile \/ Stop \/ Prove \/ Transition \/ Reserve \/ NativeStart \/ Observe
         \/ ChangeProfile \/ Return \/ Dispatch
Arrive == (\E c \in Requests : Receive(c)) \/ ReceiveReconcileStartup \/ SendersDropped \/ Tick
World == \/ Crash \/ HostStarts \/ NativeStartLands \/ NativeStartDies \/ NativeStops
         \/ NativeDegrades
Next == Serve \/ Arrive \/ World

Spec == Init /\ [][Next]_vars

(* Fairness.  Every await of the actor except the preparation of a profile *)
(* change is bounded by a timeout (call_backend, the ten seconds of        *)
(* restore_proxy_selections), so the actor always takes its next step.     *)
(* tokio::select! chooses a ready branch at random, so a poll that is due  *)
(* infinitely often is taken, and the native services answer some polls.   *)
Fairness ==
    /\ WF_vars(pc # "prepare" /\ Serve)
    /\ SF_vars(Tick)
    /\ SF_vars(ObservationAttests \/ \E k \in {"off", "mismatch"} : ObservationRefutes(k))
FairSpec == Spec /\ Fairness

-----------------------------------------------------------------------------
(* Safety.                                                                 *)
\* The lease names this runtime.
LeaseMatches(r) == lease.kind = r.kind /\ lease.generation = r.generation

(* Once startup has settled, whatever runs or may still start natively is  *)
(* named by the coordinator's lease, except while its stop awaits the Off  *)
(* proof, or while the coordinator is quarantined.  (transition.rs keeps   *)
(* the lease on every failed stop, runtime.rs on every unproven status.)   *)
OwnedOrQuarantined ==
    pc \notin {"reconcile", "prove", "closed", "down"} /\ startup_failure = NoFailure =>
        quarantine \/ \A r \in Running : LeaseMatches(r)

(* A native start is requested only when nothing runs and nothing may      *)
(* still start: the Off-mediated order of `transition`, across failed      *)
(* starts, late starts, profile changes, and Host crashes.                 *)
StartsFromOff == [][inflight' \subseteq inflight \/ Running = {}]_vars

(* No two starts ever carry the same generation, nor an older one, not     *)
(* even those of different Host processes (reserve_next_generation before  *)
(* every start).                                                           *)
FreshGeneration == [][\A r \in inflight' \ inflight : r.generation > lastStarted]_vars

(* A runtime of this installation that outlives its Host carries the       *)
(* durable generation, so that the next Host recognises and retires it     *)
(* (validate_recovered_runtime).                                           *)
SurvivorCarriesLineage ==
    \A r \in Running : r.identity # "foreign" => r.generation = journal

(* A published Active mode is owned, not quarantined, and has missed fewer *)
(* observations than the grace allows.                                     *)
PublishedActiveIsOwned ==
    published.phase = "Active" =>
        /\ lease = [kind |-> LeaseKindOf(published.mode), generation |-> published.generation]
        /\ ~quarantine
        /\ pc \in {"idle", "dispatch"} => missed < OBSERVATION_GRACE_MISSES

(* While the actor lives, a published Off is true: nothing is leased, runs *)
(* or may still start.                                                     *)
PublishedOffIsOff ==
    published.phase = "Off" /\ pc # "closed" => lease = NoLease /\ Running = {}

(* A quarantined coordinator is never on its way to a native start.        *)
QuarantineBlocksStarts ==
    quarantine => /\ pc \notin {"install", "authorize", "start", "selections"}
                  /\ ~(pc = "reserve" /\ ret = "switch")

(* Within one Host process a quarantine is lifted only when nothing runs   *)
(* or may still start.                                                     *)
QuarantineEndsInOff ==
    [][quarantine /\ ~quarantine' /\ pc' \notin {"down", "reconcile"} => Running = {}]_vars

(* A published recheck_pending is a promise the next poll can keep: the    *)
(* owner's lease and the exact baseline are still there.                   *)
RecheckIsLive ==
    pc = "idle" /\ published.recheck =>
        ~quarantine /\ startup_failure = NoFailure /\ MayObserve

(* Between commands readers see the actor's own snapshot, so that an       *)
(* expected snapshot taken from the watch can match (set_mode_if_snapshot, *)
(* pending_tunnel_approval).                                               *)
PublishedIsCurrent == pc \in {"idle", "dispatch", "prepare", "check"} => published = snapshot

(* An online profile change that ends without its commit does not leave    *)
(* the candidate running: what is Active then is the prior source.         *)
UncommittedCandidateIsReplaced ==
    [][/\ pc # "idle" /\ pc' = "idle" /\ cmd.op = "ChangeProfile"
       /\ prior # NoSpec /\ saved' # cmd.source /\ snapshot'.phase = "Active"
       => snapshot'.digest = prior.source]_vars

-----------------------------------------------------------------------------
(* The inductive invariant behind the safety properties, by its parts.     *)
\* Where a command is served, and where a failed transition is unwound.
Serving == {"transition", "reserve", "install", "authorize", "start", "selections",
            "observe", "prepare", "check", "returnOk", "returnErr"}
OnTheWay == \/ pc \in {"install", "authorize", "start", "selections"}
            \/ pc \in {"stop", "prove", "reserve"} /\ ret = "switch"

\* What the control location says about startup, quarantine, lease and phase.
ControlInv ==
    /\ pc \in Serving => startup_failure = NoFailure
    /\ pc \in {"stop", "prove"} /\ ret \notin {"recover", "recoverInvalid"}
           => startup_failure = NoFailure
    /\ OnTheWay => ~quarantine
    /\ pc \in {"reconcile", "prove", "reserve"} => lease = NoLease
    /\ pc # "stop" /\ startup_failure.error \in Kinds => lease = NoLease
    /\ startup_failure.safely_off => /\ startup_failure.error = "terminal"
                                     /\ pc \in {"idle", "dispatch", "closed"}
                                     /\ lease = NoLease
    /\ pc = "observe" => snapshot.phase \in {"Active", "Failed"}
    /\ pc = "selections" => snapshot.phase = "Active"

\* At most one runtime runs or may come to run; none where a start is prepared.
ExclusiveInv ==
    /\ \A r, s \in Running : r = s
    /\ native # NoRuntime => inflight = {}
    /\ pc \in {"reserve", "install", "authorize"} => Running = {}
    /\ startup_failure.safely_off => Running = {}

\* A start asks for this installation; a prepared one's generation is reserved and unused.
LineageInv ==
    /\ lastStarted <= journal
    /\ \A r \in inflight : r.identity = "exact"
    /\ pc \in {"install", "authorize"} =>
          /\ lease.generation = journal /\ snapshot.generation = journal
          /\ lastStarted < journal
    /\ pc = "authorize" => lease.kind = "TunnelRuntime"

IInv ==
    /\ ControlInv /\ ExclusiveInv /\ LineageInv
    /\ OwnedOrQuarantined /\ SurvivorCarriesLineage /\ PublishedOffIsOff

-----------------------------------------------------------------------------
(* Liveness.                                                               *)
Working == Labels \ {"idle", "prepare", "closed", "down"}

(* Every admitted command and every poll comes to its end: the actor gets  *)
(* back to its queue, or to the one await that has no timeout.             *)
CommandEnds == pc \in Working ~> pc \notin Working

(* A runtime published as unobserved does not stay so: it is attested      *)
(* again or found to have failed, unless the actor sits in a preparation.  *)
RecheckSettles == snapshot.recheck ~> ~snapshot.recheck \/ pc = "prepare"

-----------------------------------------------------------------------------
(* What comments in the code say, and the code does not do.                *)
(* runtime.rs: an unproven Off "leaves the coordinator fail-closed         *)
(* (published `Failed` plus a sticky quarantine)".                         *)
QuarantineIsPublishedFailed == pc = "idle" /\ quarantine => published.phase = "Failed"

(* profile_change.rs: "The actor checks and starts an active candidate     *)
(* before invoking the atomic commit."                                     *)
CommitFollowsStart ==
    [][saved' # saved /\ cmd.target # "Off" => snapshot.phase = "Active"]_vars

(* coordinator.rs, shutdown: "A successful return is a native stop         *)
(* barrier."                                                               *)
ShutdownIsBarrier ==
    [][cmd.op = "Shutdown" /\ pc # "closed" /\ pc' = "closed" => Running = {}]_vars

=============================================================================
