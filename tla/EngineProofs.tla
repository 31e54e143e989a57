---------------------------- MODULE EngineProofs ----------------------------
(***************************************************************************)
(* Proofs, for every value of the constants, about EngineCoordinator: its  *)
(* type invariant, and the safety properties of the coordinator from the   *)
(* inductive invariant IInv.                                               *)
(***************************************************************************)
EXTENDS EngineCoordinator, TLAPS

AnyMode == AllModes \cup {"Off"}

(* The snapshot updates stay within the snapshot type.                     *)
LEMMA OffSnapshotTyped == \A s \in Snapshots : OffSnapshot(s) \in Snapshots
BY DEF Snapshots, OffSnapshot, Phases, Digests

LEMMA FailedSnapshotTyped ==
    \A s \in Snapshots, m \in AnyMode, b \in BOOLEAN : FailedSnapshot(s, m, b) \in Snapshots
BY DEF Snapshots, FailedSnapshot, Phases, AnyMode

LEMMA InPhaseTyped ==
    \A s \in Snapshots, p \in Phases, m \in AnyMode : InPhase(s, p, m) \in Snapshots
BY DEF Snapshots, InPhase, AnyMode

LEMMA DesiredTyped == \A s \in Snapshots, m \in AnyMode : [s EXCEPT !.desired = m] \in Snapshots
BY DEF Snapshots, AnyMode

LEMMA GenerationTyped ==
    \A s \in Snapshots, g \in Generations :
        /\ [s EXCEPT !.generation = g] \in Snapshots
        /\ \A d \in Digests :
               /\ [s EXCEPT !.generation = g, !.digest = d] \in Snapshots
               /\ [s EXCEPT !.desired = "Off", !.generation = g, !.digest = d] \in Snapshots
BY DEF Snapshots

LEMMA BootSnapshotTyped ==
    NoSnapshot \in Snapshots /\ \A g \in Generations : BootSnapshot(g) \in Snapshots
BY GenerationAssumption
   DEF Snapshots, NoSnapshot, BootSnapshot, Phases, Digests, Generations

(* What an action reads has its type.                                      *)
LEMMA ReadsTyped ==
    ASSUME TypeOK
    PROVE  /\ Goal.mode \in AnyMode /\ Goal.source \in Digests
           /\ baseline \in Snapshots /\ baseline.mode \in AnyMode
           /\ snapshot.desired \in AnyMode /\ snapshot.mode \in AnyMode
           /\ snapshot.generation \in Generations /\ snapshot.digest \in Digests
BY DEF TypeOK, Goal, baseline, recovering, Specs, Commands, Snapshots, AnyMode

\* The part of the state set_off, set_failed and BeginStop write.
SnapshotsTyped ==
    /\ snapshot \in Snapshots /\ published \in Snapshots
    /\ status_recheck \in Snapshots /\ missed \in 0..MissCap

(* The shared handler prefixes write values of the right type.             *)
LEMMA SetOffTyped == \A s \in Snapshots : set_off(s) => SnapshotsTyped'
BY OffSnapshotTyped, BootSnapshotTyped, GraceAssumption
   DEF set_off, publish, ClearObservation, SnapshotsTyped

LEMMA SetFailedTyped ==
    \A s \in Snapshots, m \in AnyMode : set_failed(s, m) => SnapshotsTyped'
<1> SUFFICES ASSUME NEW s \in Snapshots, NEW m \in AnyMode, set_failed(s, m)
             PROVE  SnapshotsTyped'
  OBVIOUS
<1>1. FailedSnapshot(s, m, FALSE) \in Snapshots
  BY FailedSnapshotTyped
<1>2. /\ snapshot' = FailedSnapshot(s, m, FALSE) /\ published' = FailedSnapshot(s, m, FALSE)
      /\ status_recheck' = NoSnapshot /\ missed' = 0
  BY DEF set_failed, publish, ClearObservation
<1>3. 0 \in 0..MissCap
  BY GraceAssumption
<1> QED
  BY <1>1, <1>2, <1>3, BootSnapshotTyped DEF SnapshotsTyped

LEMMA BeginStopTyped ==
    ASSUME TypeOK, NEW s \in Snapshots, NEW l \in Leases, NEW c \in Returns, BeginStop(l, s, c)
    PROVE  SnapshotsTyped' /\ pc' \in Labels /\ ret' \in Returns
<1>1. ModeOfKind(l.kind) \in AnyMode /\ "Stopping" \in Phases
  BY DEF ModeOfKind, AllModes, AnyMode, Phases
<1> QED
  BY <1>1, InPhaseTyped DEF BeginStop, publish, SnapshotsTyped, TypeOK, Labels

LEMMA FailureTyped ==
    /\ NoFailure \in Failures
    /\ \A e \in Kinds \cup {"terminal"} : /\ Failure(e, FALSE) \in Failures
                                         /\ Failure(e, TRUE) \in Failures
BY DEF NoFailure, Failure, Failures

LEMMA EndStartupTyped ==
    \A f \in Failures : EndStartup(f) => startup_failure' \in Failures /\ pc' \in Labels
BY DEF EndStartup, Labels

(* Every step keeps the type of every variable, one lemma per group.       *)
LEMMA TypeReconcile == ASSUME TypeOK, Reconcile PROVE TypeOK'
<1>1. ASSUME NEW k \in Kinds, ReconcileQueryFails(k) PROVE TypeOK'
  <2>1. SnapshotsTyped'
    BY <1>1, SetFailedTyped DEF ReconcileQueryFails, TypeOK, AnyMode
  <2> QED
    BY <2>1, <1>1 DEF ReconcileQueryFails, TypeOK, SnapshotsTyped, EndStartup, Failure,
       Failures, Labels, nativeVars
<1>2. CASE ReconcileObservesOff
  <2>1. SnapshotsTyped'
    BY <1>2, SetOffTyped, DesiredTyped DEF ReconcileObservesOff, TypeOK, AnyMode
  <2> QED
    BY <2>1, <1>2 DEF ReconcileObservesOff, TypeOK, SnapshotsTyped, EndStartup, NoFailure,
       Failures, Labels, nativeVars
<1>3. CASE ReconcileObservesRuntime
  <2>1. native \in Runtimes
    BY <1>3 DEF ReconcileObservesRuntime, ObservesRuntime, TypeOK
  <2>2. /\ lease' \in Leases
        /\ [snapshot EXCEPT !.desired = "Off", !.generation = native.generation,
                            !.digest = native.source] \in Snapshots
    BY <1>3, <2>1, GenerationTyped
       DEF ReconcileObservesRuntime, TypeOK, Runtimes, Leases, LeaseKinds
  <2>3. SnapshotsTyped' /\ pc' \in Labels /\ ret' \in Returns
    BY <1>3, <2>2, BeginStopTyped DEF ReconcileObservesRuntime, Returns
  <2> QED
    BY <2>2, <2>3, <1>3 DEF ReconcileObservesRuntime, TypeOK, SnapshotsTyped, nativeVars
<1> QED
  BY <1>1, <1>2, <1>3 DEF Reconcile

LEMMA StopsExactlyTyped ==
    ASSUME TypeOK, NEW l, StopsExactly(l) \/ UNCHANGED <<native, inflight>>
    PROVE  native' \in Runtimes \cup {NoRuntime} /\ inflight' \subseteq Runtimes
BY DEF TypeOK, StopsExactly

LEMMA NoLeaseTyped == NoLease \in Leases
BY GenerationAssumption DEF NoLease, Leases, Generations

LEMMA RequestTyped ==
    ASSUME TypeOK, NEW k \in RuntimeKinds, NEW g \in Generations, RequestStart(k, g)
    PROVE  /\ native' \in Runtimes \cup {NoRuntime} /\ inflight' \subseteq Runtimes
           /\ lastStarted' \in Generations
BY ReadsTyped DEF TypeOK, RequestStart, Runtimes

LEMMA AcceptedTyped ==
    \A m \in AnyMode, d \in Digests, s \in Snapshots : accepted(m, d, s) \in Specs
BY DEF accepted, Specs, Snapshots, AnyMode

LEMMA TypeStop == ASSUME TypeOK, Stop PROVE TypeOK'
<1>1. CASE StopSucceeds
  <2>1. native' \in Runtimes \cup {NoRuntime} /\ inflight' \subseteq Runtimes
    BY <1>1, StopsExactlyTyped DEF StopSucceeds
  <2>2. NoLease \in Leases
    BY GenerationAssumption DEF NoLease, Leases, Generations
  <2> QED
    BY <1>1, <2>1, <2>2 DEF StopSucceeds, TypeOK, Labels
<1>2. ASSUME NEW k \in Kinds, StopFails(k) PROVE TypeOK'
  <2>1. native' \in Runtimes \cup {NoRuntime} /\ inflight' \subseteq Runtimes
    BY <1>2, StopsExactlyTyped DEF StopFails
  <2>2. snapshot.desired \in AnyMode /\ ModeOfKind(lease.kind) \in AnyMode
    BY ReadsTyped DEF ModeOfKind, AnyMode, AllModes
  <2>3. SnapshotsTyped'
    BY <1>2, <2>2, SetFailedTyped DEF StopFails, TypeOK
  <2>4. startup_failure' \in Failures /\ pc' \in Labels
    BY <1>2, EndStartupTyped, FailureTyped DEF StopFails, TypeOK, Labels
  <2>5. quarantine' \in BOOLEAN
    BY <1>2 DEF StopFails
  <2> QED
    BY <1>2, <2>1, <2>3, <2>4, <2>5 DEF StopFails, TypeOK, SnapshotsTyped
<1> QED
  BY <1>1, <1>2 DEF Stop

LEMMA TypeProve == ASSUME TypeOK, Prove PROVE TypeOK'
<1>r. snapshot \in Snapshots /\ snapshot.desired \in AnyMode /\ snapshot.mode \in AnyMode
  BY ReadsTyped DEF TypeOK
<1>1. CASE ProveObservesOff
  <2>1. SnapshotsTyped'
    BY <1>1, <1>r, SetOffTyped, SetFailedTyped DEF ProveObservesOff
  <2>2. startup_failure' \in Failures /\ pc' \in Labels
    BY <1>1, EndStartupTyped, FailureTyped DEF ProveObservesOff, TypeOK, Labels
  <2>3. quarantine' \in BOOLEAN
    BY <1>1 DEF ProveObservesOff, TypeOK
  <2> QED
    BY <1>1, <2>1, <2>2, <2>3 DEF ProveObservesOff, TypeOK, SnapshotsTyped, nativeVars
<1>2. ASSUME NEW f \in Kinds \cup {"observed"}, ProveFails(f) PROVE TypeOK'
  <2>1. SnapshotsTyped'
    BY <1>2, <1>r, SetFailedTyped DEF ProveFails
  <2>2. startup_failure' \in Failures /\ pc' \in Labels
    <3>1. CASE ret \in {"switch", "toOff", "abort", "abortOff"}
      BY <1>2, <3>1 DEF ProveFails, TypeOK, Labels
    <3>2. CASE ret \in {"recover", "recoverInvalid"}
      BY <1>2, <3>2, EndStartupTyped, FailureTyped DEF ProveFails
    <3> QED
      BY <3>1, <3>2 DEF TypeOK, Returns
  <2>3. quarantine' \in BOOLEAN
    BY <1>2 DEF ProveFails
  <2> QED
    BY <1>2, <2>1, <2>2, <2>3 DEF ProveFails, TypeOK, SnapshotsTyped, nativeVars
<1> QED
  BY <1>1, <1>2 DEF Prove

LEMMA TypeTransition == ASSUME TypeOK, Transition PROVE TypeOK'
<1>1. CASE TransitionRejects
  BY <1>1 DEF TransitionRejects, TypeOK, Labels, actor, nativeVars
<1>2. CASE TransitionReconciles
  BY <1>2, BootSnapshotTyped DEF TransitionReconciles, TypeOK, Labels, nativeVars
<1>3. CASE TransitionSwitches
  <2>1. [snapshot EXCEPT !.desired = Goal.mode] \in Snapshots
    BY ReadsTyped, DesiredTyped DEF TypeOK
  <2>2. SnapshotsTyped' /\ pc' \in Labels /\ ret' \in Returns
    BY <1>3, <2>1, SetOffTyped, BeginStopTyped DEF TransitionSwitches, Returns, Labels, TypeOK
  <2> QED
    BY <1>3, <2>2 DEF TransitionSwitches, TypeOK, SnapshotsTyped, nativeVars
<1> QED
  BY <1>1, <1>2, <1>3 DEF Transition

LEMMA TypeReserve == ASSUME TypeOK, Reserve PROVE TypeOK'
<1>g. CanReserve => /\ journal + 1 \in Generations
                    /\ ReservedInJournal \in Generations
  BY GenerationAssumption DEF CanReserve, ReservedInJournal, Generations, TypeOK
<1>1. CASE ReserveForOff
  <2>1. [snapshot EXCEPT !.generation = journal + 1] \in Snapshots
    BY <1>1, <1>g, GenerationTyped DEF ReserveForOff, TypeOK
  <2> QED
    BY <1>1, <1>g, <2>1 DEF ReserveForOff, TypeOK, publish, Labels, nativeVars
<1>2. CASE ReserveForProxy
  <2>1. Goal.mode \in {"LocalProxy", "SystemProxy"} /\ journal + 1 \in Generations
    BY <1>2, <1>g DEF ReserveForProxy
  <2>2. [InPhase(snapshot, "Starting", Goal.mode) EXCEPT
            !.generation = journal + 1, !.digest = Goal.source] \in Snapshots
    <3>1. "Starting" \in Phases /\ snapshot \in Snapshots
      BY DEF Phases, TypeOK
    <3>2. InPhase(snapshot, "Starting", Goal.mode) \in Snapshots
      BY <3>1, ReadsTyped, InPhaseTyped
    <3> QED
      BY <3>2, <2>1, ReadsTyped, GenerationTyped
  <2>3. lease' \in Leases
    BY <1>2, <2>1 DEF ReserveForProxy, Leases, LeaseKinds, RuntimeKinds
  <2>4. native' \in Runtimes \cup {NoRuntime} /\ inflight' \subseteq Runtimes
        /\ lastStarted' \in Generations
    BY <1>2, <2>1, RequestTyped DEF ReserveForProxy, RuntimeKinds
  <2> QED
    BY <1>2, <1>g, <2>2, <2>3, <2>4 DEF ReserveForProxy, TypeOK, publish, Labels
<1>3. CASE ReserveForTunnel
  <2>1. journal + 1 \in Generations
    BY <1>3, <1>g DEF ReserveForTunnel
  <2>2. [InPhase(snapshot, "Installing", "Tunnel") EXCEPT
            !.generation = journal + 1, !.digest = Goal.source] \in Snapshots
    <3>1. "Installing" \in Phases /\ snapshot \in Snapshots /\ "Tunnel" \in AnyMode
      BY DEF Phases, TypeOK, AnyMode, AllModes
    <3>2. InPhase(snapshot, "Installing", "Tunnel") \in Snapshots
      BY <3>1, InPhaseTyped
    <3> QED
      BY <3>2, <2>1, ReadsTyped, GenerationTyped
  <2>3. lease' \in Leases
    BY <1>3, <2>1 DEF ReserveForTunnel, Leases, LeaseKinds
  <2> QED
    BY <1>3, <1>g, <2>2, <2>3 DEF ReserveForTunnel, TypeOK, publish, Labels, nativeVars
<1>4. CASE ReserveFails
  BY <1>4, <1>g DEF ReserveFails, TypeOK, Labels, actor, nativeVars
<1> QED
  BY <1>1, <1>2, <1>3, <1>4 DEF Reserve

LEMMA FailBackendTyped ==
    ASSUME TypeOK, NEW op, NEW k \in Kinds, fail_backend(op, k)
    PROVE  SnapshotsTyped' /\ pc' \in Labels /\ ret' \in Returns /\ quarantine' \in BOOLEAN
<1>r. snapshot \in Snapshots /\ lease \in Leases /\ snapshot.desired \in AnyMode
  BY ReadsTyped DEF TypeOK
<1>1. CASE requires_explicit_reconciliation(k)
  <2>1. set_failed(snapshot, snapshot.desired) /\ pc' = "returnErr" /\ ret' = ret /\ quarantine' = TRUE
    BY <1>1 DEF fail_backend
  <2> QED
    BY <2>1, <1>r, SetFailedTyped DEF TypeOK, Labels
<1>2. CASE ~requires_explicit_reconciliation(k)
  <2>1. PICK c \in Returns : BeginStop(lease, snapshot, c) /\ quarantine' = quarantine
    BY <1>2 DEF fail_backend, Returns
  <2> QED
    BY <2>1, <1>r, BeginStopTyped DEF TypeOK
<1> QED
  BY <1>1, <1>2

LEMMA TypeNativeStart == ASSUME TypeOK, NativeStart PROVE TypeOK'
<1>r. snapshot \in Snapshots /\ lease \in Leases /\ "Tunnel" \in AnyMode /\ Goal.mode \in AnyMode
      /\ {"Starting", "AwaitingApproval", "Active"} \subseteq Phases
  BY ReadsTyped DEF TypeOK, AnyMode, AllModes, Phases
<1>a. "abort" \in Returns
  BY DEF Returns
<1>1. CASE InstallSucceeds
  <2>1. snapshot' \in Snapshots /\ published' \in Snapshots
    BY <1>1, <1>r, InPhaseTyped DEF InstallSucceeds, publish
  <2>2. lease' \in Leases
    BY <1>1, <1>r DEF InstallSucceeds, Leases, LeaseKinds, RuntimeKinds
  <2> QED
    BY <1>1, <2>1, <2>2 DEF InstallSucceeds, TypeOK, Labels, nativeVars
<1>2. CASE InstallAwaitsApproval
  <2>1. snapshot' \in Snapshots /\ published' \in Snapshots
    BY <1>2, <1>r, InPhaseTyped DEF InstallAwaitsApproval, publish
  <2> QED
    BY <1>2, <2>1 DEF InstallAwaitsApproval, TypeOK, Labels, nativeVars
<1>3. CASE AuthorizeSucceeds
  <2>1. snapshot' \in Snapshots /\ published' \in Snapshots
    BY <1>3, <1>r, InPhaseTyped DEF AuthorizeSucceeds, publish
  <2>2. native' \in Runtimes \cup {NoRuntime} /\ inflight' \subseteq Runtimes
        /\ lastStarted' \in Generations
    BY <1>3, ReadsTyped, RequestTyped DEF AuthorizeSucceeds, RuntimeKinds
  <2> QED
    BY <1>3, <2>1, <2>2 DEF AuthorizeSucceeds, TypeOK, Labels
<1>4. ASSUME NEW k \in Kinds, BeforeStartFails(k) PROVE TypeOK'
  <2>1. SnapshotsTyped' /\ pc' \in Labels /\ ret' \in Returns /\ quarantine' \in BOOLEAN
    BY <1>4, FailBackendTyped DEF BeforeStartFails
  <2> QED
    BY <1>4, <2>1 DEF BeforeStartFails, TypeOK, SnapshotsTyped, nativeVars
<1>5. CASE StartSucceeds
  <2>1. snapshot' \in Snapshots
    BY <1>5, <1>r, InPhaseTyped DEF StartSucceeds
  <2> QED
    BY <1>5, <2>1 DEF StartSucceeds, TypeOK, Labels, nativeVars
<1>6. CASE StartReturnsOtherIdentity
  <2>1. SnapshotsTyped' /\ pc' \in Labels /\ ret' \in Returns
    BY <1>6, <1>r, <1>a, BeginStopTyped DEF StartReturnsOtherIdentity
  <2> QED
    BY <1>6, <2>1 DEF StartReturnsOtherIdentity, TypeOK, SnapshotsTyped, nativeVars
<1>7. ASSUME NEW k \in Kinds, StartFails(k) PROVE TypeOK'
  <2>1. SnapshotsTyped' /\ pc' \in Labels /\ ret' \in Returns /\ quarantine' \in BOOLEAN
    BY <1>7, FailBackendTyped DEF StartFails
  <2>2. native' \in Runtimes \cup {NoRuntime} /\ inflight' \subseteq Runtimes
    BY <1>7, StopsExactlyTyped DEF StartFails
  <2> QED
    BY <1>7, <2>1, <2>2 DEF StartFails, TypeOK, SnapshotsTyped
<1>8. CASE SelectionsRestored
  BY <1>8 DEF SelectionsRestored, TypeOK, publish, Labels, nativeVars
<1>9. CASE SelectionsFail
  <2>1. SnapshotsTyped' /\ pc' \in Labels /\ ret' \in Returns
    BY <1>9, <1>r, <1>a, BeginStopTyped DEF SelectionsFail
  <2> QED
    BY <1>9, <2>1 DEF SelectionsFail, TypeOK, SnapshotsTyped, nativeVars
<1> QED
  BY <1>1, <1>2, <1>3, <1>4, <1>5, <1>6, <1>7, <1>8, <1>9 DEF NativeStart

LEMMA TypeObserve == ASSUME TypeOK, Observe PROVE TypeOK'
<1>r. snapshot \in Snapshots /\ baseline \in Snapshots /\ baseline.mode \in AnyMode
      /\ "Active" \in Phases
  BY ReadsTyped DEF TypeOK, Phases
<1>l. (pc' = IF cmd.op = "Tick" THEN "idle" ELSE "returnOk") => pc' \in Labels
  BY DEF Labels
<1>1. CASE ObservationMisses
  <2>1. missed' \in 0..MissCap
    BY <1>1, GraceAssumption DEF ObservationMisses, saturating_add, TypeOK
  <2>2. FailedSnapshot(snapshot, baseline.mode, TRUE) \in Snapshots
    BY <1>r, FailedSnapshotTyped
  <2>3. snapshot' \in Snapshots /\ published' \in Snapshots /\ status_recheck' \in Snapshots
    BY <1>1, <1>r, <2>2 DEF ObservationMisses, set_unobserved, publish, TypeOK
  <2> QED
    BY <1>1, <2>1, <2>3 DEF ObservationMisses, ObservationReturns, TypeOK, Labels, nativeVars
<1>2. CASE ObservationAttests
  <2>1. InPhase(snapshot, "Active", baseline.mode) \in Snapshots
    BY <1>r, InPhaseTyped
  <2>2. snapshot' \in Snapshots /\ published' \in Snapshots
    BY <1>2, <1>r, <2>1, ReadsTyped, DesiredTyped DEF ObservationAttests, publish
  <2> QED
    BY <1>2, <2>2, BootSnapshotTyped, GraceAssumption
       DEF ObservationAttests, ObservationReturns, TypeOK, Labels, nativeVars
<1>3. ASSUME NEW k \in Kinds \cup {"off", "mismatch"}, ObservationRefutes(k) PROVE TypeOK'
  <2>1. SnapshotsTyped'
    BY <1>3, <1>r, SetFailedTyped DEF ObservationRefutes
  <2>2. lease' \in Leases
    BY <1>3, NoLeaseTyped DEF ObservationRefutes, TypeOK
  <2> QED
    BY <1>3, <2>1, <2>2 DEF ObservationRefutes, ObservationReturns, TypeOK, SnapshotsTyped,
       Labels, nativeVars
<1> QED
  BY <1>1, <1>2, <1>3 DEF Observe

LEMMA TypeChangeProfile == ASSUME TypeOK, ChangeProfile PROVE TypeOK'
<1>1. CASE PrepareRefuses
  BY <1>1 DEF PrepareRefuses, TypeOK, Labels, actor, nativeVars
<1>2. CASE PrepareCommitsOffline
  BY <1>2 DEF PrepareCommitsOffline, Commit, Commands, TypeOK, Labels, actor, nativeVars
<1>3. CASE PrepareCommitsIdentical
  <2>1. restart_spec' \in Specs
    BY <1>3, AcceptedTyped DEF PrepareCommitsIdentical, TypeOK, Commands, AnyMode
  <2> QED
    BY <1>3, <2>1 DEF PrepareCommitsIdentical, Commit, Commands, TypeOK, Labels, nativeVars
<1>4. CASE PrepareChecks
  BY <1>4 DEF PrepareChecks, TypeOK, Labels, actor, nativeVars
<1>5. CASE CheckSucceeds
  BY <1>5 DEF CheckSucceeds, TypeOK, Labels, actor, nativeVars
<1> QED
  BY <1>1, <1>2, <1>3, <1>4, <1>5 DEF ChangeProfile

LEMMA TypeReturn == ASSUME TypeOK, Return PROVE TypeOK'
<1>a. /\ accepted(cmd.target, cmd.source, snapshot) \in Specs
      /\ accepted(prior.mode, prior.source, snapshot) \in Specs
  <2>1. cmd.target \in AnyMode /\ cmd.source \in Digests /\ snapshot \in Snapshots
        /\ prior.mode \in AnyMode /\ prior.source \in Digests
    BY DEF TypeOK, Commands, Specs, AnyMode
  <2> QED
    BY <2>1, AcceptedTyped
<1>1. CASE SetModeReturns
  BY <1>1, <1>a DEF SetModeReturns, TypeOK, Labels, nativeVars
<1>2. CASE CandidateCommits
  BY <1>2, <1>a DEF CandidateCommits, Commit, Commands, TypeOK, Labels, nativeVars
<1>3. CASE CandidateFails
  BY <1>3 DEF CandidateFails, Restore, TypeOK, Labels, actor, nativeVars
<1>4. CASE RestoreReturns
  BY <1>4, <1>a DEF RestoreReturns, TypeOK, Labels, nativeVars
<1>5. CASE ShutdownReturns
  BY <1>5 DEF ShutdownReturns, TypeOK, Labels, actor, nativeVars
<1>6. CASE DropReturns
  <2>1. SnapshotsTyped'
    BY <1>6, SetFailedTyped DEF DropReturns, TypeOK, AnyMode, SnapshotsTyped
  <2> QED
    BY <1>6, <2>1 DEF DropReturns, TypeOK, SnapshotsTyped, Labels, nativeVars
<1> QED
  BY <1>1, <1>2, <1>3, <1>4, <1>5, <1>6 DEF Return

LEMMA BeginOffTyped ==
    ASSUME TypeOK, BeginOff
    PROVE  SnapshotsTyped' /\ pc' \in Labels /\ ret' \in Returns /\ quarantine' \in BOOLEAN
<1> DEFINE s == [snapshot EXCEPT !.desired = "Off"]
<1>r. s \in Snapshots /\ lease \in Leases /\ "toOff" \in Returns
  BY DesiredTyped DEF TypeOK, AnyMode, Returns
<1> HIDE DEF s
<1>1. CASE BeginStop(lease, s, "toOff") /\ UNCHANGED quarantine
  BY <1>1, <1>r, BeginStopTyped DEF TypeOK
<1>2. CASE /\ snapshot' = s /\ pc' = "prove" /\ ret' = "toOff"
           /\ UNCHANGED <<published, quarantine, status_recheck, missed>>
  BY <1>2, <1>r DEF TypeOK, SnapshotsTyped, Labels
<1>3. CASE /\ set_off(s) /\ quarantine' = FALSE /\ ret' = "toOff"
           /\ pc' = IF snapshot.phase = "Off" THEN "returnOk" ELSE "reserve"
  BY <1>3, <1>r, SetOffTyped DEF Labels
<1> QED
  BY <1>1, <1>2, <1>3 DEF BeginOff, s

LEMMA TypeDispatch == ASSUME TypeOK, Dispatch PROVE TypeOK'
<1>1. CASE DispatchAfterFailedStartup
  <2>1. [snapshot EXCEPT !.desired = "Off"] \in Snapshots
    BY DesiredTyped DEF TypeOK, AnyMode
  <2>2. SnapshotsTyped' /\ pc' \in Labels
    BY <1>1, <2>1, SetOffTyped DEF DispatchAfterFailedStartup, TypeOK, SnapshotsTyped, Labels
  <2> QED
    BY <1>1, <2>2 DEF DispatchAfterFailedStartup, TypeOK, SnapshotsTyped, nativeVars
<1>2. CASE DispatchAnswers
  BY <1>2 DEF DispatchAnswers, TypeOK, Labels, actor, nativeVars
<1>3. CASE DispatchTransition
  BY <1>3 DEF DispatchTransition, TypeOK, Labels, actor, nativeVars
<1>4. CASE DispatchOff
  <2>1. SnapshotsTyped' /\ pc' \in Labels /\ ret' \in Returns /\ quarantine' \in BOOLEAN
    BY <1>4, BeginOffTyped DEF DispatchOff
  <2> QED
    BY <1>4, <2>1 DEF DispatchOff, TypeOK, SnapshotsTyped, nativeVars
<1>5. CASE DispatchChangeProfile
  <2>1. cmd' \in Commands
    BY <1>5, ReadsTyped DEF DispatchChangeProfile, TypeOK, Commands, AnyMode
  <2> QED
    BY <1>5, <2>1 DEF DispatchChangeProfile, TypeOK, Labels, actor, nativeVars
<1>6. CASE DispatchQuarantine
  <2>1. SnapshotsTyped'
    BY <1>6, ReadsTyped, SetFailedTyped DEF DispatchQuarantine, TypeOK
  <2> QED
    BY <1>6, <2>1 DEF DispatchQuarantine, TypeOK, SnapshotsTyped, Labels, nativeVars
<1> QED
  BY <1>1, <1>2, <1>3, <1>4, <1>5, <1>6 DEF Dispatch

LEMMA PlainTyped == \A op \in Ops : Plain(op) \in Commands
BY DEF Plain, Command, Commands, Digests

LEMMA NoSpecTyped == NoSpec \in Specs
BY GenerationAssumption DEF NoSpec, Specs, Digests, Generations

LEMMA TypeArrive == ASSUME TypeOK, Arrive PROVE TypeOK'
<1>1. ASSUME NEW c \in Requests, Receive(c) PROVE TypeOK'
  <2>1. c \in Commands
    BY DEF Requests
  <2> QED
    BY <1>1, <2>1, NoSpecTyped DEF Receive, TypeOK, Labels, actor, nativeVars
<1>2. CASE ReceiveReconcileStartup
  BY <1>2, PlainTyped, NoSpecTyped
     DEF ReceiveReconcileStartup, TypeOK, Ops, Labels, actor, nativeVars
<1>3. CASE SendersDropped
  <2>1. cmd' \in Commands /\ prior' \in Specs /\ restoring' \in BOOLEAN
    BY <1>3, PlainTyped, NoSpecTyped DEF SendersDropped, Ops
  <2>2. SnapshotsTyped' /\ pc' \in Labels /\ ret' \in Returns /\ quarantine' \in BOOLEAN
    <3>1. CASE BeginOff
      BY <3>1, BeginOffTyped
    <3>2. CASE ~BeginOff
      BY <1>3, <3>2 DEF SendersDropped, TypeOK, SnapshotsTyped, Labels
    <3> QED
      BY <3>1, <3>2
  <2> QED
    BY <1>3, <2>1, <2>2 DEF SendersDropped, TypeOK, SnapshotsTyped, nativeVars
<1>4. CASE Tick
  BY <1>4, PlainTyped, NoSpecTyped, BootSnapshotTyped
     DEF Tick, TypeOK, Ops, Labels, nativeVars
<1> QED
  BY <1>1, <1>2, <1>3, <1>4 DEF Arrive

LEMMA VolatileTyped ==
    ASSUME NEW g \in Generations, Volatile(g)
    PROVE  /\ SnapshotsTyped' /\ lease' \in Leases /\ quarantine' \in BOOLEAN
           /\ restart_spec' \in Specs /\ startup_failure' \in Failures
           /\ cmd' \in Commands /\ ret' \in Returns /\ prior' \in Specs
           /\ restoring' \in BOOLEAN
<1>1. SnapshotsTyped'
  BY BootSnapshotTyped, GraceAssumption DEF Volatile, SnapshotsTyped
<1>2. "Startup" \in Ops /\ "recover" \in Returns
  BY DEF Ops, Returns
<1> QED
  BY <1>1, <1>2, NoLeaseTyped, NoSpecTyped, FailureTyped, PlainTyped DEF Volatile

LEMMA TypeWorld == ASSUME TypeOK, World PROVE TypeOK'
<1>g. 0 \in Generations /\ journal \in Generations
  BY GenerationAssumption DEF Generations, TypeOK
<1>1. CASE Crash
  <2>1. Volatile(0)
    BY <1>1 DEF Crash
  <2> QED
    BY <1>1, <2>1, <1>g, VolatileTyped DEF Crash, TypeOK, SnapshotsTyped, Labels, nativeVars
<1>2. CASE HostStarts
  <2>1. PICK g \in Generations : Volatile(g)
    BY <1>2, <1>g DEF HostStarts
  <2>2. policy' \in {"known", "without"}
    BY <1>2 DEF HostStarts
  <2> QED
    BY <1>2, <2>1, <2>2, VolatileTyped
       DEF HostStarts, TypeOK, SnapshotsTyped, Labels, nativeVars
<1>3. CASE NativeStartLands
  BY <1>3 DEF NativeStartLands, TypeOK, Runtimes, actor, control
<1>4. CASE NativeStartDies
  BY <1>4 DEF NativeStartDies, TypeOK, actor, control
<1>5. CASE NativeStops
  BY <1>5 DEF NativeStops, TypeOK, actor, control
<1>6. CASE NativeDegrades
  BY <1>6 DEF NativeDegrades, TypeOK, Runtimes, actor, control
<1> QED
  BY <1>1, <1>2, <1>3, <1>4, <1>5, <1>6 DEF World

LEMMA TypeInit == Init => TypeOK
<1> SUFFICES ASSUME Init PROVE TypeOK
  OBVIOUS
<1>1. 0 \in Generations /\ 0 \in 0..MissCap /\ "Startup" \in Ops
  BY GenerationAssumption, GraceAssumption DEF Generations, Ops
<1>2. native \in Runtimes \cup {NoRuntime} /\ saved \in Digests
  BY DEF Init, Foreign, Runtimes, Digests
<1> QED
  BY <1>1, <1>2, BootSnapshotTyped, NoLeaseTyped, NoSpecTyped, FailureTyped, PlainTyped
     DEF Init, TypeOK, Labels, Returns

LEMMA TypeStep == ASSUME TypeOK, [Next]_vars PROVE TypeOK'
<1>1. CASE Serve
  BY <1>1, TypeReconcile, TypeStop, TypeProve, TypeTransition, TypeReserve, TypeNativeStart,
     TypeObserve, TypeChangeProfile, TypeReturn, TypeDispatch DEF Serve
<1>2. CASE Arrive
  BY <1>2, TypeArrive
<1>3. CASE World
  BY <1>3, TypeWorld
<1>4. CASE UNCHANGED vars
  BY <1>4 DEF vars, TypeOK
<1> QED
  BY <1>1, <1>2, <1>3, <1>4 DEF Next

(* Every reachable state of the coordinator, for every set of modes and    *)
(* sources, every generation bound and every observation grace, is well    *)
(* typed: the generation never passes its u64 bound, the saturating miss   *)
(* counter of reconcile_active_runtime never wraps.                        *)
THEOREM TypeCorrect == Spec => []TypeOK
BY TypeInit, TypeStep, PTL DEF Spec

-----------------------------------------------------------------------------
(* Safety.                                                                 *)

LEMMA RunningTyped == ASSUME TypeOK PROVE Running \subseteq Runtimes
BY DEF TypeOK, Running

(* What the shared handler prefixes do to the phases and the control.      *)
LEMMA SetOffEffect ==
    \A s \in Snapshots : set_off(s) => snapshot'.phase = "Off" /\ published'.phase = "Off"
BY DEF set_off, publish, OffSnapshot, Snapshots

LEMMA SetFailedEffect ==
    \A s \in Snapshots, m \in AnyMode :
        set_failed(s, m) => snapshot'.phase = "Failed" /\ published'.phase = "Failed"
BY DEF set_failed, publish, FailedSnapshot, Snapshots

LEMMA BeginStopEffect ==
    ASSUME NEW l, NEW s \in Snapshots, NEW c, BeginStop(l, s, c)
    PROVE  /\ pc' = "stop" /\ ret' = c
           /\ IF l.kind = "TunnelInstallation" THEN published' = published
                                                ELSE published'.phase = "Stopping"
BY DEF BeginStop, publish, InPhase, Snapshots

LEMMA InPhaseEffect ==
    \A s \in Snapshots, p \in Phases, m \in AnyMode :
        InPhase(s, p, m).phase = p /\ InPhase(s, p, m).generation = s.generation
BY DEF InPhase, Snapshots

(* What a step that leaves the native services alone, or stops one         *)
(* runtime, does to what runs.                                             *)
LEMMA UntouchedRunning == ASSUME UNCHANGED nativeVars PROVE Running' = Running
BY DEF Running, nativeVars

LEMMA StopShrinks ==
    ASSUME NEW l, StopsExactly(l) \/ UNCHANGED <<native, inflight>>
    PROVE  /\ Running' \subseteq Running /\ inflight' \subseteq inflight
           /\ native' \in {native, NoRuntime}
BY DEF Running, StopsExactly

(* With no lease, and no quarantine to excuse it, nothing runs.            *)
LEMMA NoLeaseNothingRuns ==
    ASSUME TypeOK, OwnedOrQuarantined, lease = NoLease, ~quarantine,
           startup_failure = NoFailure, pc \notin {"reconcile", "prove", "closed", "down"}
    PROVE  Running = {}
BY RunningTyped DEF OwnedOrQuarantined, LeaseMatches, Runtimes, RuntimeKinds, NoLease

LEMMA SafeReconcile == ASSUME TypeOK, IInv, Reconcile PROVE IInv'
<1> USE DEF IInv, ControlInv, ExclusiveInv, LineageInv, OwnedOrQuarantined,
            SurvivorCarriesLineage, PublishedOffIsOff, OnTheWay, Serving, LeaseMatches
<1>r. snapshot \in Snapshots /\ "Off" \in AnyMode
      /\ [snapshot EXCEPT !.desired = "Off"] \in Snapshots
  BY DesiredTyped DEF TypeOK, AnyMode
<1>1. ASSUME NEW k \in Kinds, ReconcileQueryFails(k) PROVE IInv'
  <2>1. published'.phase = "Failed"
    BY <1>1, <1>r, SetFailedEffect DEF ReconcileQueryFails
  <2> QED
    BY <1>1, <2>1, UntouchedRunning
       DEF ReconcileQueryFails, EndStartup, Failure, NoFailure, Kinds, nativeVars
<1>2. CASE ReconcileObservesOff
  BY <1>2, UntouchedRunning
     DEF ReconcileObservesOff, ObservesOff, EndStartup, NoFailure, Kinds, nativeVars
<1>3. CASE ReconcileObservesRuntime
  <2>1. native \in Runtimes /\ native \in Running
    BY <1>3 DEF ReconcileObservesRuntime, ObservesRuntime, TypeOK, Running
  <2>2. PICK c \in {"recover", "recoverInvalid"}, s \in Snapshots : BeginStop(lease', s, c)
    <3>1. [snapshot EXCEPT !.desired = "Off", !.generation = native.generation,
                           !.digest = native.source] \in Snapshots
      BY <1>r, <2>1, GenerationTyped DEF Runtimes
    <3> QED
      BY <1>3, <3>1 DEF ReconcileObservesRuntime
  <2>3. lease'.kind \in RuntimeKinds /\ lease'.kind = native.kind
        /\ lease'.generation = native.generation
    BY <1>3, <2>1 DEF ReconcileObservesRuntime, Runtimes
  <2>4. pc' = "stop" /\ ret' \in {"recover", "recoverInvalid"} /\ published'.phase = "Stopping"
    BY <2>2, <2>3, BeginStopEffect DEF RuntimeKinds
  <2> QED
    BY <1>3, <2>1, <2>3, <2>4, UntouchedRunning DEF ReconcileObservesRuntime, nativeVars
<1> QED
  BY <1>1, <1>2, <1>3 DEF Reconcile

LEMMA SafeStop == ASSUME TypeOK, IInv, Stop PROVE IInv'
<1> USE DEF IInv, ControlInv, ExclusiveInv, LineageInv, OwnedOrQuarantined,
            SurvivorCarriesLineage, PublishedOffIsOff, OnTheWay, Serving, LeaseMatches
<1>1. CASE StopSucceeds
  <2>1. /\ Running' \subseteq Running /\ inflight' \subseteq inflight
        /\ native' \in {native, NoRuntime}
    BY <1>1, StopShrinks DEF StopSucceeds
  <2> QED
    BY <1>1, <2>1 DEF StopSucceeds
<1>2. ASSUME NEW k \in Kinds, StopFails(k) PROVE IInv'
  <2>1. /\ Running' \subseteq Running /\ inflight' \subseteq inflight
        /\ native' \in {native, NoRuntime}
    BY <1>2, StopShrinks DEF StopFails
  <2>2. snapshot.desired \in AnyMode /\ ModeOfKind(lease.kind) \in AnyMode
        /\ snapshot \in Snapshots
    BY ReadsTyped DEF ModeOfKind, AnyMode, AllModes, TypeOK
  <2>3. published'.phase = "Failed"
    BY <1>2, <2>2, SetFailedEffect DEF StopFails
  <2>4. CASE ret \in {"recover", "recoverInvalid"}
    <3>1. startup_failure' = Failure("terminal", FALSE) /\ pc' \in {"idle", "dispatch"}
      BY <1>2, <2>4 DEF StopFails, EndStartup
    <3> QED
      BY <1>2, <2>1, <2>3, <3>1 DEF StopFails, Failure, NoFailure, Kinds
  <2>5. CASE ret \notin {"recover", "recoverInvalid"}
    <3>1. UNCHANGED startup_failure /\ pc' = "returnErr"
      BY <1>2, <2>5 DEF StopFails
    <3>2. /\ quarantine => quarantine'
          /\ pc = "stop" /\ UNCHANGED <<lease, ret, journal, lastStarted>>
      BY <1>2 DEF StopFails
    <3> QED
      BY <2>1, <2>3, <2>5, <3>1, <3>2 DEF NoFailure, Kinds
  <2> QED
    BY <2>4, <2>5
<1> QED
  BY <1>1, <1>2 DEF Stop

LEMMA SafeProve == ASSUME TypeOK, IInv, Prove PROVE IInv'
<1> USE DEF IInv, ControlInv, ExclusiveInv, LineageInv, OwnedOrQuarantined,
            SurvivorCarriesLineage, PublishedOffIsOff, OnTheWay, Serving, LeaseMatches
<1>r. snapshot \in Snapshots /\ snapshot.desired \in AnyMode /\ snapshot.mode \in AnyMode
  BY ReadsTyped DEF TypeOK
<1>1. CASE ProveObservesOff
  <2>1. Running' = {} /\ Running = {}
    BY <1>1, UntouchedRunning DEF ProveObservesOff, ObservesOff
  <2>2. CASE ret \in {"recover", "recoverInvalid"}
    <3>1. /\ startup_failure' \in {NoFailure, Failure("terminal", TRUE)}
          /\ pc' \in {"idle", "dispatch"}
      BY <1>1, <2>2 DEF ProveObservesOff, EndStartup
    <3> QED
      BY <1>1, <2>1, <3>1 DEF ProveObservesOff, Failure, NoFailure, Kinds, nativeVars
  <2>3. CASE ret \notin {"recover", "recoverInvalid"}
    BY <1>1, <2>1, <2>3 DEF ProveObservesOff, NoFailure, Kinds, nativeVars
  <2> QED
    BY <2>2, <2>3
<1>2. ASSUME NEW f \in Kinds \cup {"observed"}, ProveFails(f) PROVE IInv'
  <2>1. published'.phase = "Failed"
    BY <1>2, <1>r, SetFailedEffect DEF ProveFails
  <2>2. CASE ret \in {"recover", "recoverInvalid"}
    BY <1>2, <2>1, <2>2, UntouchedRunning
       DEF ProveFails, EndStartup, Failure, NoFailure, Kinds, nativeVars
  <2>3. CASE ret \notin {"recover", "recoverInvalid"}
    BY <1>2, <2>1, <2>3, UntouchedRunning DEF ProveFails, NoFailure, Kinds, nativeVars
  <2> QED
    BY <2>2, <2>3
<1> QED
  BY <1>1, <1>2 DEF Prove

LEMMA SafeTransition == ASSUME TypeOK, IInv, Transition PROVE IInv'
<1> USE DEF IInv, ControlInv, ExclusiveInv, LineageInv, OwnedOrQuarantined,
            SurvivorCarriesLineage, PublishedOffIsOff, OnTheWay, Serving, LeaseMatches
<1>s. [snapshot EXCEPT !.desired = Goal.mode] \in Snapshots
  BY ReadsTyped, DesiredTyped DEF TypeOK
<1>1. CASE TransitionRejects
  BY <1>1, UntouchedRunning DEF TransitionRejects, actor, nativeVars
<1>2. CASE TransitionReconciles
  BY <1>2, UntouchedRunning DEF TransitionReconciles, is_same_active_runtime, nativeVars
<1>3. CASE TransitionSwitches /\ lease = NoLease
  <2>1. Running = {}
    BY <1>3, NoLeaseNothingRuns DEF TransitionSwitches, MayLeaveOff
  <2>2. snapshot'.phase = "Off"
    BY <1>3, <1>s, SetOffEffect DEF TransitionSwitches
  <2> QED
    BY <1>3, <2>1, <2>2, UntouchedRunning DEF TransitionSwitches, MayLeaveOff, nativeVars
<1>4. CASE TransitionSwitches /\ lease # NoLease
  <2>1. /\ pc' = "stop" /\ ret' = "switch"
        /\ published' = published \/ published'.phase = "Stopping"
    BY <1>4, <1>s, BeginStopEffect DEF TransitionSwitches
  <2> QED
    BY <1>4, <2>1, UntouchedRunning DEF TransitionSwitches, MayLeaveOff, nativeVars
<1> QED
  BY <1>1, <1>2, <1>3, <1>4 DEF Transition

(* A requested start is the only thing that runs.                          *)
LEMMA RequestedRuns ==
    ASSUME TypeOK, Running = {}, NEW k, NEW g, RequestStart(k, g)
    PROVE  \E r : /\ Running' = {r} /\ inflight' = {r} /\ native' = NoRuntime
                  /\ r.kind = k /\ r.generation = g /\ r.identity = "exact"
<1> DEFINE r == [kind |-> k, generation |-> g, source |-> Goal.source, identity |-> "exact"]
<1>1. inflight = {} /\ native = NoRuntime
  BY DEF Running, TypeOK
<1>2. inflight' = {r} /\ native' = NoRuntime
  BY <1>1 DEF RequestStart
<1>3. Running' = {r}
  BY <1>2 DEF Running
<1>4. r.kind = k /\ r.generation = g /\ r.identity = "exact"
  OBVIOUS
<1> HIDE DEF r
<1> WITNESS r
<1> QED
  BY <1>2, <1>3, <1>4

LEMMA SafeReserve == ASSUME TypeOK, IInv, Reserve PROVE IInv'
<1> USE DEF IInv, ControlInv, ExclusiveInv, LineageInv, OwnedOrQuarantined,
            SurvivorCarriesLineage, PublishedOffIsOff, OnTheWay, Serving, LeaseMatches
<1>r. snapshot \in Snapshots /\ Goal.mode \in AnyMode /\ "Tunnel" \in AnyMode
      /\ {"Starting", "Installing"} \subseteq Phases /\ Goal.source \in Digests
  BY ReadsTyped DEF TypeOK, AnyMode, AllModes, Phases
<1>g. CanReserve => journal + 1 \in Generations /\ ReservedInJournal = journal + 1
  BY GenerationAssumption DEF CanReserve, ReservedInJournal, Generations, TypeOK
<1>n. journal \in Nat /\ lastStarted \in Nat
  BY GenerationAssumption DEF TypeOK, Generations
<1>1. CASE ReserveForOff
  BY <1>1, <1>n, <1>g, UntouchedRunning DEF ReserveForOff, nativeVars
<1>2. CASE ReserveForProxy
  <2>1. PICK r : /\ Running' = {r} /\ inflight' = {r} /\ native' = NoRuntime
                 /\ r.kind = Goal.mode /\ r.generation = journal + 1
                 /\ r.identity = "exact"
    BY <1>2, RequestedRuns DEF ReserveForProxy
  <2>2. published'.phase = "Starting"
    BY <1>2, <1>r, InPhaseTyped, InPhaseEffect DEF ReserveForProxy, publish, Snapshots
  <2>3. lastStarted' = journal + 1
    BY <1>2 DEF ReserveForProxy, RequestStart
  <2> QED
    BY <1>2, <1>n, <1>g, <2>1, <2>2, <2>3 DEF ReserveForProxy, NoFailure, Kinds
<1>3. CASE ReserveForTunnel
  <2>1. published'.phase = "Installing" /\ snapshot'.generation = journal + 1
    BY <1>3, <1>r, InPhaseTyped, InPhaseEffect DEF ReserveForTunnel, publish, Snapshots
  <2> QED
    BY <1>3, <1>n, <1>g, <2>1, UntouchedRunning
       DEF ReserveForTunnel, NoFailure, Kinds, nativeVars
<1>4. CASE ReserveFails
  BY <1>4, <1>n, UntouchedRunning DEF ReserveFails, actor, nativeVars
<1> QED
  BY <1>1, <1>2, <1>3, <1>4 DEF Reserve

LEMMA FailBackendEffect ==
    ASSUME TypeOK, NEW op, NEW k, fail_backend(op, k)
    PROVE  \/ /\ pc' = "returnErr" /\ quarantine' = TRUE /\ published'.phase = "Failed"
           \/ /\ pc' = "stop" /\ ret' \in {"abort", "abortOff"} /\ quarantine' = quarantine
              /\ published' = published \/ published'.phase = "Stopping"
<1>r. snapshot \in Snapshots /\ snapshot.desired \in AnyMode
  BY ReadsTyped DEF TypeOK
<1>1. CASE requires_explicit_reconciliation(k)
  BY <1>1, <1>r, SetFailedEffect DEF fail_backend
<1>2. CASE ~requires_explicit_reconciliation(k)
  <2>1. PICK c \in {"abort", "abortOff"} : BeginStop(lease, snapshot, c) /\ quarantine' = quarantine
    BY <1>2 DEF fail_backend
  <2> QED
    BY <2>1, <1>r, BeginStopEffect
<1> QED
  BY <1>1, <1>2

LEMMA SafeNativeStart == ASSUME TypeOK, IInv, NativeStart PROVE IInv'
<1> USE DEF IInv, ControlInv, ExclusiveInv, LineageInv, OwnedOrQuarantined,
            SurvivorCarriesLineage, PublishedOffIsOff, OnTheWay, Serving, LeaseMatches
<1>r. snapshot \in Snapshots /\ Goal.mode \in AnyMode /\ "Tunnel" \in AnyMode
      /\ {"Starting", "AwaitingApproval", "Active"} \subseteq Phases
  BY ReadsTyped DEF TypeOK, AnyMode, AllModes, Phases
<1>n. journal \in Nat /\ lastStarted \in Nat
  BY GenerationAssumption DEF TypeOK, Generations
<1>1. CASE InstallSucceeds
  <2>1. published'.phase # "Off" /\ snapshot'.generation = snapshot.generation
    BY <1>1, <1>r, InPhaseEffect DEF InstallSucceeds, publish
  <2>2. lease'.kind = "TunnelRuntime" /\ lease'.generation = lease.generation
    BY <1>1 DEF InstallSucceeds, TypeOK, Leases
  <2> QED
    BY <1>1, <2>1, <2>2, UntouchedRunning DEF InstallSucceeds, NoFailure, Kinds, nativeVars
<1>2. CASE InstallAwaitsApproval
  <2>1. published'.phase # "Off"
    BY <1>2, <1>r, InPhaseEffect DEF InstallAwaitsApproval, publish
  <2> QED
    BY <1>2, <2>1, UntouchedRunning DEF InstallAwaitsApproval, NoFailure, Kinds, nativeVars
<1>3. CASE AuthorizeSucceeds
  <2>1. PICK r : /\ Running' = {r} /\ inflight' = {r} /\ native' = NoRuntime
                 /\ r.kind = "TunnelRuntime" /\ r.generation = snapshot.generation
                 /\ r.identity = "exact"
    BY <1>3, RequestedRuns DEF AuthorizeSucceeds
  <2>2. published'.phase # "Off"
    BY <1>3, <1>r, InPhaseEffect DEF AuthorizeSucceeds, publish
  <2>3. lastStarted' = journal
    BY <1>3 DEF AuthorizeSucceeds, RequestStart
  <2> QED
    BY <1>3, <1>n, <2>1, <2>2, <2>3 DEF AuthorizeSucceeds, NoFailure, Kinds
<1>4. ASSUME NEW k \in Kinds, BeforeStartFails(k) PROVE IInv'
  <2>1. fail_backend(pc, k)
    BY <1>4 DEF BeforeStartFails
  <2> QED
    BY <1>4, <2>1, FailBackendEffect, UntouchedRunning
       DEF BeforeStartFails, NoFailure, Kinds, nativeVars
<1>5. CASE StartSucceeds
  <2>1. snapshot'.phase = "Active"
    BY <1>5, <1>r, InPhaseEffect DEF StartSucceeds
  <2> QED
    BY <1>5, <2>1, UntouchedRunning DEF StartSucceeds, NoFailure, Kinds, nativeVars
<1>6. CASE StartReturnsOtherIdentity
  <2>1. /\ pc' = "stop" /\ ret' = "abort"
        /\ published' = published \/ published'.phase = "Stopping"
    BY <1>6, <1>r, BeginStopEffect DEF StartReturnsOtherIdentity
  <2> QED
    BY <1>6, <2>1, UntouchedRunning DEF StartReturnsOtherIdentity, NoFailure, Kinds, nativeVars
<1>7. ASSUME NEW k \in Kinds, StartFails(k) PROVE IInv'
  <2>1. /\ Running' \subseteq Running /\ inflight' \subseteq inflight
        /\ native' \in {native, NoRuntime}
    BY <1>7, StopShrinks DEF StartFails
  <2>2. fail_backend("start", k)
    BY <1>7 DEF StartFails
  <2> QED
    BY <1>7, <2>1, <2>2, FailBackendEffect DEF StartFails, NoFailure, Kinds
<1>8. CASE SelectionsRestored
  BY <1>8, UntouchedRunning DEF SelectionsRestored, publish, NoFailure, Kinds, nativeVars
<1>9. CASE SelectionsFail
  <2>1. /\ pc' = "stop" /\ ret' = "abort"
        /\ published' = published \/ published'.phase = "Stopping"
    BY <1>9, <1>r, BeginStopEffect DEF SelectionsFail
  <2> QED
    BY <1>9, <2>1, UntouchedRunning DEF SelectionsFail, NoFailure, Kinds, nativeVars
<1> QED
  BY <1>1, <1>2, <1>3, <1>4, <1>5, <1>6, <1>7, <1>8, <1>9 DEF NativeStart

LEMMA SafeObserve == ASSUME TypeOK, IInv, Observe PROVE IInv'
<1> USE DEF IInv, ControlInv, ExclusiveInv, LineageInv, OwnedOrQuarantined,
            SurvivorCarriesLineage, PublishedOffIsOff, OnTheWay, Serving, LeaseMatches
<1>r. snapshot \in Snapshots /\ baseline.mode \in AnyMode /\ Goal.mode \in AnyMode
      /\ "Active" \in Phases
  BY ReadsTyped DEF TypeOK, Phases
<1>1. CASE ObservationMisses
  <2>1. \/ UNCHANGED <<snapshot, published>>
        \/ published'.phase = "Failed"
    BY <1>1, <1>r DEF ObservationMisses, set_unobserved, publish, FailedSnapshot, Snapshots
  <2> QED
    BY <1>1, <2>1, UntouchedRunning
       DEF ObservationMisses, ObservationReturns, NoFailure, Kinds, nativeVars
<1>2. CASE ObservationAttests
  <2>1. published'.phase = "Active"
    <3>1. InPhase(snapshot, "Active", baseline.mode) \in Snapshots
          /\ InPhase(snapshot, "Active", baseline.mode).phase = "Active"
      BY <1>r, InPhaseTyped, InPhaseEffect
    <3>2. ~recovering => snapshot.phase = "Active"
      BY <1>2 DEF ObservationAttests, recovering
    <3> QED
      BY <1>2, <1>r, <3>1, <3>2 DEF ObservationAttests, publish, Snapshots
  <2> QED
    BY <1>2, <2>1, UntouchedRunning
       DEF ObservationAttests, ObservationReturns, NoFailure, Kinds, nativeVars
<1>3. ASSUME NEW k \in Kinds \cup {"off", "mismatch"}, ObservationRefutes(k) PROVE IInv'
  <2>1. published'.phase = "Failed"
    BY <1>3, <1>r, SetFailedEffect DEF ObservationRefutes
  <2>2. lease' = lease \/ Running = {}
    BY <1>3 DEF ObservationRefutes, RetiresLease, ObservesOff, Kinds
  <2> QED
    BY <1>3, <2>1, <2>2, UntouchedRunning
       DEF ObservationRefutes, ObservationReturns, NoFailure, Kinds, nativeVars
<1> QED
  BY <1>1, <1>2, <1>3 DEF Observe

LEMMA SafeChangeProfile == ASSUME TypeOK, IInv, ChangeProfile PROVE IInv'
<1> USE DEF IInv, ControlInv, ExclusiveInv, LineageInv, OwnedOrQuarantined,
            SurvivorCarriesLineage, PublishedOffIsOff, OnTheWay, Serving, LeaseMatches
<1>1. CASE PrepareRefuses
  BY <1>1, UntouchedRunning DEF PrepareRefuses, actor, nativeVars
<1>2. CASE PrepareCommitsOffline
  BY <1>2, UntouchedRunning DEF PrepareCommitsOffline, actor, nativeVars
<1>3. CASE PrepareCommitsIdentical
  BY <1>3, UntouchedRunning DEF PrepareCommitsIdentical, actor, nativeVars
<1>4. CASE PrepareChecks
  BY <1>4, UntouchedRunning DEF PrepareChecks, actor, nativeVars
<1>5. CASE CheckSucceeds
  BY <1>5, UntouchedRunning DEF CheckSucceeds, actor, nativeVars
<1> QED
  BY <1>1, <1>2, <1>3, <1>4, <1>5 DEF ChangeProfile

LEMMA SafeReturn == ASSUME TypeOK, IInv, Return PROVE IInv'
<1> USE DEF IInv, ControlInv, ExclusiveInv, LineageInv, OwnedOrQuarantined,
            SurvivorCarriesLineage, PublishedOffIsOff, OnTheWay, Serving, LeaseMatches
<1>1. CASE SetModeReturns
  BY <1>1, UntouchedRunning DEF SetModeReturns, actor, nativeVars
<1>2. CASE CandidateCommits
  BY <1>2, UntouchedRunning DEF CandidateCommits, actor, nativeVars
<1>3. CASE CandidateFails
  BY <1>3, UntouchedRunning DEF CandidateFails, Restore, actor, nativeVars
<1>4. CASE RestoreReturns
  BY <1>4, UntouchedRunning DEF RestoreReturns, actor, nativeVars
<1>5. CASE ShutdownReturns
  BY <1>5, UntouchedRunning DEF ShutdownReturns, actor, nativeVars
<1>6. CASE DropReturns
  BY <1>6, UntouchedRunning DEF DropReturns, NoFailure, Kinds, nativeVars
<1> QED
  BY <1>1, <1>2, <1>3, <1>4, <1>5, <1>6 DEF Return

(* transition_to_off: it stops what is leased, proves Off where it must,   *)
(* and settles without a proof only where nothing can run.                 *)
LEMMA SafeBeginOff ==
    ASSUME TypeOK, IInv, BeginOff, pc \in {"idle", "dispatch"}, startup_failure = NoFailure,
           UNCHANGED <<lease, startup_failure, nativeVars, journal>>
    PROVE  IInv'
<1> USE DEF IInv, ControlInv, ExclusiveInv, LineageInv, OwnedOrQuarantined,
            SurvivorCarriesLineage, PublishedOffIsOff, OnTheWay, Serving, LeaseMatches
<1> DEFINE s == [snapshot EXCEPT !.desired = "Off"]
<1>s. s \in Snapshots
  BY DesiredTyped DEF TypeOK, AnyMode
<1> HIDE DEF s
<1>u. Running' = Running
  BY UntouchedRunning
<1>1. CASE lease # NoLease /\ BeginStop(lease, s, "toOff") /\ UNCHANGED quarantine
  <2>1. /\ pc' = "stop" /\ ret' = "toOff"
        /\ published' = published \/ published'.phase = "Stopping"
    BY <1>1, <1>s, BeginStopEffect
  <2> QED
    BY <1>1, <1>u, <2>1 DEF nativeVars
<1>2. CASE /\ lease = NoLease /\ pc' = "prove" /\ ret' = "toOff"
           /\ UNCHANGED <<published, quarantine>>
  BY <1>2, <1>u DEF NoFailure, Kinds, nativeVars
<1>3. CASE /\ ~requires_off_proof /\ set_off(s) /\ quarantine' = FALSE /\ ret' = "toOff"
           /\ pc' \in {"returnOk", "reserve"}
  <2>1. Running = {} /\ lease = NoLease
    BY <1>3, NoLeaseNothingRuns DEF requires_off_proof
  <2> QED
    BY <1>3, <1>u, <2>1 DEF NoFailure, Kinds, nativeVars
<1> QED
  BY <1>1, <1>2, <1>3 DEF BeginOff, s

LEMMA SafeDispatch == ASSUME TypeOK, IInv, Dispatch PROVE IInv'
<1> USE DEF IInv, ControlInv, ExclusiveInv, LineageInv, OwnedOrQuarantined,
            SurvivorCarriesLineage, PublishedOffIsOff, OnTheWay, Serving, LeaseMatches
<1>1. CASE DispatchAfterFailedStartup
  <2>1. CASE cmd.op = "SetMode" /\ pc' = "idle" /\ OffMaySettle
    BY <1>1, <2>1, UntouchedRunning DEF DispatchAfterFailedStartup, OffMaySettle, nativeVars
  <2>2. CASE pc' = "closed"
    BY <1>1, <2>2, UntouchedRunning DEF DispatchAfterFailedStartup, nativeVars
  <2>3. CASE pc' = "idle" /\ UNCHANGED <<snapshot, published>>
    BY <1>1, <2>3, UntouchedRunning DEF DispatchAfterFailedStartup, nativeVars
  <2> QED
    BY <1>1, <2>1, <2>2, <2>3 DEF DispatchAfterFailedStartup
<1>2. CASE DispatchAnswers
  BY <1>2, UntouchedRunning DEF DispatchAnswers, actor, nativeVars
<1>3. CASE DispatchTransition
  BY <1>3, UntouchedRunning DEF DispatchTransition, NoFailure, Kinds, actor, nativeVars
<1>4. CASE DispatchOff
  BY <1>4, SafeBeginOff DEF DispatchOff
<1>5. CASE DispatchChangeProfile
  BY <1>5, UntouchedRunning DEF DispatchChangeProfile, NoFailure, Kinds, actor, nativeVars
<1>6. CASE DispatchQuarantine
  <2>1. published'.phase = "Failed"
    BY <1>6, ReadsTyped, SetFailedEffect DEF DispatchQuarantine, TypeOK
  <2> QED
    BY <1>6, <2>1, UntouchedRunning DEF DispatchQuarantine, nativeVars
<1> QED
  BY <1>1, <1>2, <1>3, <1>4, <1>5, <1>6 DEF Dispatch

LEMMA SafeArrive == ASSUME TypeOK, IInv, Arrive PROVE IInv'
<1> USE DEF IInv, ControlInv, ExclusiveInv, LineageInv, OwnedOrQuarantined,
            SurvivorCarriesLineage, PublishedOffIsOff, OnTheWay, Serving, LeaseMatches
<1>1. ASSUME NEW c \in Requests, Receive(c) PROVE IInv'
  BY <1>1, UntouchedRunning
     DEF Receive, allows_explicit_retry, allows_read_only_recheck, Kinds, actor, nativeVars
<1>2. CASE ReceiveReconcileStartup
  BY <1>2, UntouchedRunning
     DEF ReceiveReconcileStartup, allows_service_reconciliation, actor, nativeVars
<1>3. CASE SendersDropped
  <2>1. CASE startup_failure = NoFailure
    BY <1>3, <2>1, SafeBeginOff DEF SendersDropped
  <2>2. CASE startup_failure # NoFailure
    BY <1>3, <2>2, UntouchedRunning DEF SendersDropped, nativeVars
  <2> QED
    BY <2>1, <2>2
<1>4. CASE Tick
  BY <1>4, UntouchedRunning DEF Tick, MayObserve, recovering, NoFailure, Kinds, nativeVars
<1> QED
  BY <1>1, <1>2, <1>3, <1>4 DEF Arrive

LEMMA SafeWorld == ASSUME TypeOK, IInv, World PROVE IInv'
<1> USE DEF IInv, ControlInv, ExclusiveInv, LineageInv, OwnedOrQuarantined,
            SurvivorCarriesLineage, PublishedOffIsOff, OnTheWay, Serving, LeaseMatches
<1>g. BootSnapshot(0).phase = "Failed" /\ BootSnapshot(journal).phase = "Failed"
  BY DEF BootSnapshot
<1>1. CASE Crash
  BY <1>1, <1>g, UntouchedRunning DEF Crash, Volatile, NoFailure, nativeVars
<1>2. CASE HostStarts
  BY <1>2, <1>g, UntouchedRunning DEF HostStarts, Volatile, NoFailure, nativeVars
<1>3. CASE NativeStartLands
  <2>1. PICK r \in inflight, i \in {"exact", "unready"} :
            /\ native = NoRuntime /\ native' = [r EXCEPT !.identity = i]
            /\ inflight' = inflight \ {r}
            /\ UNCHANGED <<actor, control, journal, saved, lastStarted>>
    BY <1>3 DEF NativeStartLands
  <2>2. r \in Runtimes /\ Running = {r} /\ inflight = {r}
    BY <2>1 DEF TypeOK, Running
  <2>3. native'.kind = r.kind /\ native'.generation = r.generation /\ native' # NoRuntime
    BY <2>1, <2>2 DEF Runtimes, RuntimeKinds, NoRuntime
  <2>4. Running' = {native'} /\ inflight' = {}
    BY <2>1, <2>2, <2>3 DEF Running
  <2>5. r.generation = journal
    BY <2>2
  <2> QED
    BY <2>1, <2>2, <2>3, <2>4, <2>5 DEF actor, control
<1>4. CASE NativeStartDies
  <2>1. Running' \subseteq Running /\ inflight' \subseteq inflight
    BY <1>4 DEF NativeStartDies, Running
  <2> QED
    BY <1>4, <2>1 DEF NativeStartDies, actor, control
<1>5. CASE NativeStops
  <2>1. Running' \subseteq Running /\ native' = NoRuntime
    BY <1>5 DEF NativeStops, Running
  <2> QED
    BY <1>5, <2>1 DEF NativeStops, actor, control
<1>6. CASE NativeDegrades
  <2>1. native \in Runtimes /\ Running = {native} /\ inflight = {}
    BY <1>6 DEF NativeDegrades, TypeOK, Running
  <2>2. /\ native'.kind = native.kind /\ native'.generation = native.generation
        /\ native' # NoRuntime
    BY <1>6, <2>1 DEF NativeDegrades, Runtimes, RuntimeKinds, NoRuntime
  <2>3. Running' = {native'} /\ inflight' = {}
    BY <1>6, <2>1, <2>2 DEF NativeDegrades, Running
  <2>4. native.identity # "foreign"
    BY <1>6 DEF NativeDegrades
  <2> QED
    BY <1>6, <2>1, <2>2, <2>3, <2>4 DEF NativeDegrades, actor, control
<1> QED
  BY <1>1, <1>2, <1>3, <1>4, <1>5, <1>6 DEF World

LEMMA SafeInit == Init => IInv
<1> SUFFICES ASSUME Init PROVE IInv
  OBVIOUS
<1>1. \A r \in Running : r = native /\ r.identity = "foreign"
  BY DEF Init, Running, Foreign
<1>2. published.phase = "Failed" /\ snapshot.phase = "Failed"
  BY DEF Init, BootSnapshot
<1> QED
  BY <1>1, <1>2 DEF Init, NoFailure, IInv, ControlInv, ExclusiveInv, LineageInv,
     OwnedOrQuarantined, SurvivorCarriesLineage, PublishedOffIsOff, OnTheWay, Serving, Kinds

LEMMA SafeStep == ASSUME TypeOK, IInv, [Next]_vars PROVE IInv'
<1>1. CASE Serve
  BY <1>1, SafeReconcile, SafeStop, SafeProve, SafeTransition, SafeReserve, SafeNativeStart,
     SafeObserve, SafeChangeProfile, SafeReturn, SafeDispatch DEF Serve
<1>2. CASE Arrive
  BY <1>2, SafeArrive
<1>3. CASE World
  BY <1>3, SafeWorld
<1>4. CASE UNCHANGED vars
  BY <1>4 DEF vars, IInv, ControlInv, ExclusiveInv, LineageInv, OwnedOrQuarantined,
     SurvivorCarriesLineage, PublishedOffIsOff, OnTheWay, LeaseMatches, Running
<1> QED
  BY <1>1, <1>2, <1>3, <1>4 DEF Next

(* IInv is an invariant: relative to the type invariant it is inductive.   *)
THEOREM SafetyInvariant == Spec => []IInv
<1>1. TypeOK /\ IInv /\ [Next]_vars => IInv'
  BY SafeStep
<1> QED
  BY <1>1, SafeInit, TypeCorrect, PTL DEF Spec

(* Whatever runs or may still start natively is named by the lease, unless *)
(* its stop awaits the Off proof or the coordinator is quarantined: after  *)
(* every failed stop and every unproven status (transition.rs, runtime.rs).*)
THEOREM Ownership == Spec => []OwnedOrQuarantined
<1>1. IInv => OwnedOrQuarantined
  BY DEF IInv
<1> QED
  BY <1>1, SafetyInvariant, PTL

(* A runtime that outlives its Host carries the durable generation, which  *)
(* is how the next Host's validate_recovered_runtime recognises it.        *)
THEOREM SurvivorLineage == Spec => []SurvivorCarriesLineage
<1>1. IInv => SurvivorCarriesLineage
  BY DEF IInv
<1> QED
  BY <1>1, SafetyInvariant, PTL

(* A published Off (set_off) is true while the actor lives: nothing is     *)
(* leased, runs or may still start.                                        *)
THEOREM OffIsTrue == Spec => []PublishedOffIsOff
<1>1. IInv => PublishedOffIsOff
  BY DEF IInv
<1> QED
  BY <1>1, SafetyInvariant, PTL

(* A quarantined coordinator is never on its way to a native start.        *)
THEOREM QuarantineBlocks == Spec => []QuarantineBlocksStarts
<1>1. IInv => QuarantineBlocksStarts
  BY DEF IInv, ControlInv, OnTheWay, QuarantineBlocksStarts
<1> QED
  BY <1>1, SafetyInvariant, PTL

(* Only two steps request a native start; each does so with nothing        *)
(* running and a generation newer than every earlier start.                *)
LEMMA StartRequests ==
    ASSUME TypeOK, IInv, [Next]_vars
    PROVE  \/ inflight' \subseteq inflight
           \/ Running = {} /\ \A r \in inflight' : r.generation > lastStarted
<1>n. journal \in Nat /\ lastStarted \in Nat
  BY GenerationAssumption DEF TypeOK, Generations
<1>1. CASE ReserveForProxy
  <2>1. Running = {} /\ lastStarted <= journal
    BY <1>1 DEF ReserveForProxy, IInv, ExclusiveInv, LineageInv
  <2>2. PICK r : inflight' = {r} /\ r.generation = journal + 1
    BY <1>1, <2>1, RequestedRuns DEF ReserveForProxy
  <2> QED
    BY <1>n, <2>1, <2>2
<1>2. CASE AuthorizeSucceeds
  <2>1. Running = {} /\ lastStarted < journal /\ snapshot.generation = journal
    BY <1>2 DEF AuthorizeSucceeds, IInv, ExclusiveInv, LineageInv
  <2>2. PICK r : inflight' = {r} /\ r.generation = snapshot.generation
    BY <1>2, <2>1, RequestedRuns DEF AuthorizeSucceeds
  <2> QED
    BY <1>n, <2>1, <2>2
<1>3. CASE Stop \/ \E k \in Kinds : StartFails(k)
  BY <1>3, StopShrinks DEF Stop, StopSucceeds, StopFails, StartFails
<1>4. CASE World
  BY <1>4 DEF World, Crash, HostStarts, NativeStartLands, NativeStartDies, NativeStops,
     NativeDegrades, nativeVars
<1>5. CASE UNCHANGED inflight
  BY <1>5
<1>6. CASE Reconcile \/ Prove \/ Transition
  BY <1>6, <1>5 DEF Reconcile, ReconcileQueryFails, ReconcileObservesOff,
     ReconcileObservesRuntime, Prove, ProveObservesOff, ProveFails, Transition,
     TransitionRejects, TransitionReconciles, TransitionSwitches, nativeVars
<1>7. CASE Reserve /\ ~ReserveForProxy
  BY <1>7, <1>5 DEF Reserve, ReserveForOff, ReserveForTunnel, ReserveFails, nativeVars
<1>8. CASE NativeStart /\ ~AuthorizeSucceeds /\ ~\E k \in Kinds : StartFails(k)
  BY <1>8, <1>5 DEF NativeStart, InstallSucceeds, InstallAwaitsApproval, BeforeStartFails,
     StartSucceeds, StartReturnsOtherIdentity, SelectionsRestored, SelectionsFail, nativeVars
<1>9. CASE Observe \/ ChangeProfile
  BY <1>9, <1>5 DEF Observe, ObservationMisses, ObservationAttests, ObservationRefutes,
     ChangeProfile, PrepareRefuses, PrepareCommitsOffline, PrepareCommitsIdentical,
     PrepareChecks, CheckSucceeds, nativeVars
<1>10. CASE Return \/ Dispatch
  BY <1>10, <1>5 DEF Return, SetModeReturns, CandidateCommits, CandidateFails, RestoreReturns,
     ShutdownReturns, DropReturns, Dispatch, DispatchAfterFailedStartup, DispatchAnswers,
     DispatchTransition, DispatchOff, DispatchChangeProfile, DispatchQuarantine, nativeVars
<1>11. CASE Arrive
  BY <1>11, <1>5 DEF Arrive, Receive, ReceiveReconcileStartup, SendersDropped, Tick, nativeVars
<1>12. CASE UNCHANGED vars
  BY <1>12, <1>5 DEF vars
<1>13. Next \/ UNCHANGED vars
  OBVIOUS
<1> QED
  BY <1>1, <1>2, <1>3, <1>4, <1>6, <1>7, <1>8, <1>9, <1>10, <1>11, <1>12, <1>13
     DEF Next, Serve

(* Every change of mode passes through Off: a native start is requested    *)
(* only when nothing runs and nothing may still start, across failed and   *)
(* late starts, profile changes, quarantines and Host crashes.             *)
THEOREM OffMediated == Spec => StartsFromOff
<1>1. TypeOK /\ IInv /\ [Next]_vars => [inflight' \subseteq inflight \/ Running = {}]_vars
  BY StartRequests
<1> QED
  BY <1>1, SafetyInvariant, TypeCorrect, PTL DEF Spec, StartsFromOff

(* No two starts, of whatever Host process, carry the same generation, nor *)
(* an older one: reserve_next_generation precedes every start.             *)
THEOREM GenerationsAreFresh == Spec => FreshGeneration
<1>1. TypeOK /\ IInv /\ [Next]_vars
          => [\A r \in inflight' \ inflight : r.generation > lastStarted]_vars
  BY StartRequests
<1> QED
  BY <1>1, SafetyInvariant, TypeCorrect, PTL DEF Spec, FreshGeneration

=============================================================================
