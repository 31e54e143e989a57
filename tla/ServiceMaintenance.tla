-------------------------- MODULE ServiceMaintenance --------------------------
(***************************************************************************)
(* scripts/current_service_transaction.py: the jobs of the installed app   *)
(* are unregistered before the app bundle is exchanged and registered      *)
(* again afterwards.  Every step is recorded in an append-only journal of  *)
(* seven events; an interrupted invocation is continued by another one.    *)
(* Event files and the initial directory are written under a pending name  *)
(* and renamed.  The "guard" is the observed state of the other network    *)
(* client on the machine, which must not change during the maintenance.    *)
(* The journal of the bundle exchange belongs to DormantInstall.           *)
(***************************************************************************)
EXTENDS Naturals, Sequences, FiniteSets

CONSTANTS
    Procs, Nobody,
    Previous, Candidate,        \* the two app bundles
    Base, DnsMoved, OtherMoved, \* observed guards; the first two differ in DNS only
    NoGuard,
    MaxInstallFaults            \* crashes, failed checks and guard changes

Guards == {Base, DnsMoved, OtherMoved}
Absent == "absent"
Torn == "torn"

VARIABLES
    target,     \* the bundle at /Applications
    source,     \* the admitted candidate, or something else under its name
    jobs,       \* the bundle each job is registered from
    running,    \* the bundle each job's process runs from
    guard,      \* the current guard
    svc,        \* the service transaction directory
    journal,    \* the installation journal ...
    pending,    \* ... and its pending successor
    lock,       \* release maintenance lock (the two store locks nest in it)
    proc,       \* the operators' invocations
    faults

PHASES == <<"prepared", "proxy_unregistered", "authority_unregistered", "decommissioned",
            "authority_registered", "proxy_registered", "recommissioned">>
DECOMMISSIONED == 4

NoSvc == [dir |-> Absent, events |-> <<>>, pend |-> Absent, dns |-> NoGuard, dnsPend |-> Absent]
NoDoc == [phase |-> "none", segments |-> 0, guard |-> NoGuard]
Idle == [pc |-> "idle", cmd |-> "none", seen |-> NoGuard, doc |-> NoDoc]
NoJobs == [j \in {"proxy", "authority"} |-> Absent]

Phase == Len(svc.events)

-----------------------------------------------------------------------------
Fault == faults < MaxInstallFaults /\ faults' = faults + 1
At(p, pc) == proc[p].pc = pc
Goto(p, pc) == proc' = [proc EXCEPT ![p].pc = pc]
Exit(p) == proc' = [proc EXCEPT ![p] = Idle] /\ lock' = IF lock = p THEN Nobody ELSE lock
World == <<target, source, jobs, running, guard>>

\* effective_guard: the first event's guard until a DNS continuation replaces it.
Baseline == IF svc.dns # NoGuard THEN svc.dns ELSE svc.events[1]
DnsOnly(g, h) == {g, h} = {Base, DnsMoved}

Bundles == {Previous, Candidate}
\* read_app_identity: the installed bundle, known by the digest of its tree.
TargetIs(app) == target = app
\* capture_cfw_guard: the other client is as it was when the journal began.
Guarded == guard = Baseline
\* resolve_predecessor: only a registered older build may be superseded.
Supersedable(app) == app = Previous
\* verify_dormant_bundle: read twice and signed, a bundle is the recorded one.
VerifiedBundle(bundle, app) == bundle = app
\* admit_fixed_candidate, which runs the release verifier on what it found.
VerifierAccepts == source = Candidate
CandidateAdmitted == source # Torn /\ VerifierAccepts
\* The launchd domain and the process table, asked separately.
ServiceAbsent(j) == jobs[j] = Absent
ProcessAbsent(j) == running[j] = Absent
\* require_cfm_dormant: both jobs unregistered, no process left.
Dormant == \A j \in DOMAIN jobs : ServiceAbsent(j) /\ ProcessAbsent(j)
\* parse_service_maintenance_receipt: the pair a Host command reports.
Reported(proxy, authority) == jobs["proxy"] \in proxy /\ jobs["authority"] \in authority
\* _registered_job_pid: launchd runs the job of this build; proc_pidpath: that
\* pid runs from the bundle.
RegisteredFrom(j, app) == jobs[j] = app
RunsFrom(j, app) == running[j] = app
\* _require_registered_services: registered and running, both of this build.
Enabled(app) == \A j \in DOMAIN jobs : RegisteredFrom(j, app) /\ RunsFrom(j, app)

\* _load_directory: a whole pending document is published, a torn pending
\* event is discarded, a torn DNS continuation is an error.
Whole(doc) == doc # Torn
EventValid(g) == g = Baseline
Loadable == svc.dir = "published" => Whole(svc.dnsPend)
WithDns == IF svc.dnsPend = Absent THEN svc ELSE [svc EXCEPT !.dns = svc.dnsPend, !.dnsPend = Absent]
WithPendingEvent ==
    IF svc.pend # Absent /\ EventValid(svc.pend)
    THEN [WithDns EXCEPT !.events = Append(@, svc.pend), !.pend = Absent]
    ELSE [WithDns EXCEPT !.pend = Absent]
\* _discard_incomplete_initial_transaction
DiscardedInitial == NoSvc
\* load: an incomplete initial directory is removed, a complete one published.
Loaded ==
    CASE svc.dir = "published" -> WithPendingEvent
      [] svc.dir = "pending" -> [svc EXCEPT !.dir = "published"]
      [] svc.dir \in {Absent, Torn} -> DiscardedInitial

\* ServiceEventStore.locked: non-blocking, so a busy lock refuses the command.
BeginService == \E p \in Procs, c \in {"decommission", "recommission", "recover", "dns"} :
    /\ proc[p] = Idle /\ lock = Nobody /\ lock' = p
    /\ proc' = [proc EXCEPT ![p] = [Idle EXCEPT !.pc = "load", !.cmd = c]]
    /\ UNCHANGED <<World, svc, faults>>
Load == \E p \in Procs :
    /\ At(p, "load") /\ Loadable /\ svc' = Loaded /\ Goto(p, "loaded")
    /\ UNCHANGED <<World, lock, faults>>
LoadFails == \E p \in Procs :
    /\ At(p, "load") /\ ~Loadable /\ Exit(p) /\ UNCHANGED <<World, svc, faults>>

\* recover reads under the lock, releases it and dispatches on what it read.
RecoverCommand ==
    CASE svc.dir # Absent /\ TargetIs(Previous) /\ Phase <= DECOMMISSIONED -> "decommission"
      [] svc.dir # Absent /\ TargetIs(Candidate) /\ Phase >= DECOMMISSIONED -> "recommission"
      [] OTHER -> "none"
Dispatch == \E p \in Procs :
    /\ At(p, "loaded") /\ proc[p].cmd = "recover" /\ RecoverCommand # "none"
    /\ proc' = [proc EXCEPT ![p] = [Idle EXCEPT !.pc = "relock", !.cmd = RecoverCommand]]
    /\ lock' = Nobody /\ UNCHANGED <<World, svc, faults>>
Relock == \E p \in Procs :
    /\ At(p, "relock") /\ lock = Nobody /\ lock' = p /\ Goto(p, "load")
    /\ UNCHANGED <<World, svc, faults>>
RelockBusy == \E p \in Procs :
    /\ At(p, "relock") /\ lock # Nobody /\ Exit(p) /\ UNCHANGED <<World, svc, faults>>

\* preflight: nothing begun, both jobs registered from the target.
PreflightOk == svc.dir = Absent /\ Supersedable(target) /\ CandidateAdmitted /\ Enabled(target)
\* _identity_pair and _require_intent_matches: the target is still the previous app.
Resumable == svc.dir = "published" /\ Supersedable(target) /\ CandidateAdmitted
\* _require_installed_candidate
InstalledCandidate == TargetIs(Candidate) /\ journal.phase = "installed" /\ pending = NoDoc
DnsEligible ==
    /\ svc.dir = "published" /\ Phase = DECOMMISSIONED
    /\ journal = NoDoc /\ pending = NoDoc
    /\ Supersedable(target) /\ CandidateAdmitted /\ Dormant
Admitted(c) ==
    CASE c = "recover" -> RecoverCommand # "none"
      [] c = "decommission" -> PreflightOk \/ Resumable
      [] c = "recommission" ->
           svc.dir = "published" /\ Phase >= DECOMMISSIONED /\ CandidateAdmitted /\ InstalledCandidate
      [] c = "dns" -> DnsEligible /\ DnsOnly(guard, svc.events[1])
Refuse == \E p \in Procs :
    /\ At(p, "loaded") /\ ~Admitted(proc[p].cmd) /\ Exit(p) /\ UNCHANGED <<World, svc, faults>>
Enter == \E p \in Procs :
    /\ At(p, "loaded") /\ proc[p].cmd \in {"decommission", "recommission"}
    /\ svc.dir = "published" /\ Admitted(proc[p].cmd)
    /\ Goto(p, "step") /\ UNCHANGED <<World, svc, lock, faults>>

Preflight == \E p \in Procs :
    /\ At(p, "loaded") /\ proc[p].cmd = "decommission" /\ PreflightOk
    /\ proc' = [proc EXCEPT ![p].pc = "create", ![p].seen = guard]
    /\ UNCHANGED <<World, svc, lock, faults>>
\* create: built under the pending name, then renamed.
Initial(g) == [NoSvc EXCEPT !.dir = "published", !.events = <<g>>]
Create == \E p \in Procs :
    /\ At(p, "create") /\ guard = proc[p].seen
    /\ svc' = Initial(guard) /\ Goto(p, "step") /\ UNCHANGED <<World, lock, faults>>

-----------------------------------------------------------------------------
(* _step: guard, idempotent Host command, guard again, event.              *)

Job(n) == IF n \in {1, 5} THEN "proxy" ELSE "authority"
\* What the receipt of step n must report.
Expected(n) ==
    CASE n = 1 -> Reported({Absent}, Bundles)
      [] n \in {2, 3} -> Reported({Absent}, {Absent})
      [] n = 4 -> Reported({Absent}, Bundles)
      [] n \in {5, 6} -> Reported(Bundles, Bundles)
\* Mutant: the jobs are registered from the app that was taken down.
CommandedFromPrevious(n) ==
    CASE n \in {1, 2} -> [jobs EXCEPT ![Job(n)] = Absent]
      [] n \in {4, 5} -> [jobs EXCEPT ![Job(n)] = Previous]
      [] n \in {3, 6} -> jobs
Commanded(n) ==
    CASE n \in {1, 2} -> [jobs EXCEPT ![Job(n)] = Absent]
      [] n \in {4, 5} -> [jobs EXCEPT ![Job(n)] = target]
      [] n \in {3, 6} -> jobs
Finished(c) == IF c = "decommission" THEN DECOMMISSIONED ELSE Len(PHASES)
Step == \E p \in Procs :
    /\ At(p, "step") /\ Phase < Finished(proc[p].cmd)
    /\ Guarded /\ jobs' = Commanded(Phase)
    /\ running' = [j \in DOMAIN jobs |-> IF jobs'[j] = Absent THEN running[j] ELSE jobs'[j]]
    /\ Goto(p, "append") /\ UNCHANGED <<target, source, guard, svc, lock, faults>>
\* A job's process ends some time after the job was unregistered (external).
JobEnds == \E j \in DOMAIN jobs :
    /\ ServiceAbsent(j) /\ ~ProcessAbsent(j) /\ running' = [running EXCEPT ![j] = Absent]
    /\ UNCHANGED <<target, source, jobs, guard, svc, lock, proc, faults>>
\* after_action, or the proof of the last teardown and the last setup step.
Settled(n) ==
    CASE n \in {1, 2} -> ProcessAbsent(Job(n))
      [] n = 3 -> Dormant
      [] n \in {4, 5} -> TRUE
      [] n = 6 -> Enabled(target)
AppendEvent == \E p \in Procs :
    /\ At(p, "append") /\ Guarded /\ Expected(Phase) /\ Settled(Phase)
    /\ svc' = [svc EXCEPT !.events = Append(@, guard)] /\ Goto(p, "step")
    /\ UNCHANGED <<World, lock, faults>>
\* A finished transaction is proved again before it is reported.
Prove == \E p \in Procs :
    /\ At(p, "step") /\ Phase = Finished(proc[p].cmd) /\ Guarded
    /\ IF proc[p].cmd = "decommission" THEN Dormant ELSE Enabled(target)
    /\ Exit(p) /\ UNCHANGED <<World, svc, faults>>
\* The receipt is not the expected one, or the process did not end in time.
Unsettled == \E p \in Procs :
    /\ At(p, "append") /\ ~(Expected(Phase) /\ Settled(Phase)) /\ Exit(p)
    /\ UNCHANGED <<World, svc, faults>>
GuardDrift == \E p \in Procs :
    /\ \/ proc[p].pc \in {"step", "append"} /\ ~Guarded
       \/ At(p, "create") /\ guard # proc[p].seen
    /\ Exit(p) /\ UNCHANGED <<World, svc, faults>>

-----------------------------------------------------------------------------
(* continue_after_dns_change.                                              *)

DnsObserve == \E p \in Procs :
    /\ At(p, "loaded") /\ proc[p].cmd = "dns" /\ Admitted("dns") /\ svc.dns = NoGuard
    /\ proc' = [proc EXCEPT ![p].pc = "dns", ![p].seen = guard]
    /\ UNCHANGED <<World, svc, lock, faults>>
\* An existing continuation is kept; one of another observation is an error.
DnsExisting == \E p \in Procs :
    /\ At(p, "loaded") /\ proc[p].cmd = "dns" /\ Admitted("dns") /\ svc.dns # NoGuard
    /\ Exit(p) /\ UNCHANGED <<World, svc, faults>>
DnsWrite == \E p \in Procs :
    /\ At(p, "dns") /\ svc' = [svc EXCEPT !.dns = proc[p].seen] /\ Exit(p)
    /\ UNCHANGED <<World, faults>>

-----------------------------------------------------------------------------
ServiceLabels == {"load", "loaded", "relock", "create", "step", "append", "dns"}
\* The environment is not the recorded one, somebody else is logged in, or the
\* retired system extension is active.
EnvironmentRefused == Fault
SessionRefused == Fault
ExtensionRefused == Fault
ServiceFails == \E p \in Procs :
    /\ proc[p].pc \in ServiceLabels /\ (EnvironmentRefused \/ SessionRefused \/ ExtensionRefused) /\ Exit(p)
    /\ UNCHANGED <<World, svc>>
\* What the interrupted write of a label may leave on disk.
Interrupted(p) ==
    CASE At(p, "create") -> {svc, [svc EXCEPT !.dir = Torn],
                             [Initial(proc[p].seen) EXCEPT !.dir = "pending"]}
      [] At(p, "append") -> {svc, [svc EXCEPT !.pend = Torn], [svc EXCEPT !.pend = Baseline]}
      [] At(p, "dns") -> {svc, [svc EXCEPT !.dnsPend = Torn], [svc EXCEPT !.dnsPend = proc[p].seen]}
      [] OTHER -> {svc}
ServiceCrash == \E p \in Procs :
    /\ proc[p].pc \in ServiceLabels /\ Fault /\ Exit(p)
    /\ svc' \in Interrupted(p) /\ UNCHANGED World

\* The other client's network state changes (external).
GuardChanges == \E g \in Guards :
    /\ g # guard /\ Fault /\ guard' = g /\ UNCHANGED <<target, source, jobs, running, svc, lock, proc>>

\* The candidate's directory is rewritten (external).
CandidateDrifts ==
    /\ Fault /\ source' \in {Candidate, Torn} \ {source}
    /\ UNCHANGED <<target, jobs, running, guard, svc, lock, proc>>

ServiceNext ==
    /\ \/ BeginService \/ Load \/ LoadFails \/ Dispatch \/ Relock \/ RelockBusy \/ Refuse \/ Enter
       \/ Preflight \/ Create \/ Step \/ JobEnds \/ AppendEvent \/ Unsettled \/ Prove \/ GuardDrift
       \/ DnsObserve \/ DnsExisting \/ DnsWrite \/ ServiceFails \/ ServiceCrash \/ GuardChanges \/ CandidateDrifts
    /\ UNCHANGED <<journal, pending>>

-----------------------------------------------------------------------------
(* A registered job and its process always belong to the bundle that is    *)
(* installed: the bundle is not exchanged under either, and jobs are       *)
(* registered again only from the bundle that was exchanged in.            *)
JobsRunTheTarget == \A j \in DOMAIN jobs : {jobs[j], running[j]} \subseteq {Absent, target}

(* The journal is one lineage: the events of the teardown carry the first  *)
(* guard, the later ones the guard that was in force when the bundle was   *)
(* exchanged.                                                              *)
OneGuardLineage ==
    /\ \A i \in DOMAIN svc.events : i <= DECOMMISSIONED => svc.events[i] = svc.events[1]
    /\ \A i \in DOMAIN svc.events : i > DECOMMISSIONED => svc.events[i] = journal.guard
=============================================================================
