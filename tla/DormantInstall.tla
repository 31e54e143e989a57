---------------------------- MODULE DormantInstall ----------------------------
(***************************************************************************)
(* scripts/dormant_app_install.py: the candidate is copied beside the      *)
(* installed app and exchanged with it by one atomic rename, while both    *)
(* jobs are unregistered.  The journal is one file replaced through a      *)
(* pending file; recover continues whatever revision is on disk.  Together *)
(* with the service transaction of ServiceMaintenance this is the whole    *)
(* maintenance of an installed app.                                        *)
(***************************************************************************)
EXTENDS ServiceMaintenance

CONSTANT MAX_GUARD_SEGMENTS

ASSUME InstallAssumption ==
    /\ Nobody \notin Procs /\ Previous # Candidate /\ Absent \notin Bundles
    /\ Cardinality(Guards) = 3 /\ NoGuard \notin Guards
    /\ MAX_GUARD_SEGMENTS \in Nat /\ MaxInstallFaults \in Nat

VARIABLE staging    \* the transaction's private container

vars == <<target, source, jobs, running, guard, svc, journal, pending, lock, proc, faults, staging>>
NoStaging == [container |-> FALSE, partial |-> Absent, payload |-> Absent]
TornDoc == [NoDoc EXCEPT !.phase = Torn]
InstallPhases == <<"prepared", "staged", "swapped", "installed">>
Docs == [phase : {"none", Torn} \cup {InstallPhases[i] : i \in 1..4},
         segments : 0..MAX_GUARD_SEGMENTS, guard : Guards \cup {NoGuard}]

TypeOK ==
    /\ target \in {Previous, Candidate}
    /\ jobs \in [{"proxy", "authority"} -> {Absent, Previous, Candidate}]
    /\ running \in [{"proxy", "authority"} -> {Absent, Previous, Candidate}]
    /\ source \in {Candidate, Torn}
    /\ guard \in Guards
    /\ svc.dir \in {Absent, Torn, "pending", "published"} /\ svc.events \in Seq(Guards)
    /\ Phase <= Len(PHASES)
    /\ {svc.pend, svc.dnsPend} \subseteq Guards \cup {Absent, Torn} /\ svc.dns \in Guards \cup {NoGuard}
    /\ journal \in Docs /\ pending \in Docs
    /\ lock \in Procs \cup {Nobody} /\ faults \in 0..MaxInstallFaults
    /\ \A p \in Procs : proc[p].seen \in Guards \cup {NoGuard} /\ proc[p].doc \in Docs
    /\ staging.partial \in {Absent, Torn, Candidate} /\ staging.container \in BOOLEAN
    /\ staging.payload \in {Absent, Previous, Candidate}

-----------------------------------------------------------------------------
\* Mutant: the teardown need not be complete.
AnyTeardown == svc.dir = "published"
\* require_decommissioned_service_transaction: exactly four events, nothing pending.
TeardownReadable == svc.dir = "published"
TeardownInventory == TeardownReadable /\ svc.pend = Absent /\ svc.dnsPend = Absent
Decommissioned == TeardownInventory /\ Phase = DECOMMISSIONED
\* _capture_stable_dormant_guard against the recorded guard.
DormantAt(g) == Dormant /\ guard = g
Files == <<target, source, jobs, running, guard, svc, staging>>

\* install's first gate is outside every lock and writes nothing.
InstallPreflight == \E p \in Procs :
    /\ proc[p] = Idle /\ Supersedable(target) /\ CandidateAdmitted
    /\ Decommissioned /\ DormantAt(Baseline)
    /\ Goto(p, "install") /\ UNCHANGED <<Files, journal, pending, lock, faults>>
\* recover's first gate.
RecoverPreflight == \E p \in Procs :
    /\ proc[p] = Idle /\ Dormant
    /\ proc' = [proc EXCEPT ![p].pc = "recover", ![p].seen = guard]
    /\ UNCHANGED <<Files, journal, pending, lock, faults>>
\* The release maintenance lock and the store's own, both non-blocking.
TakesLock(p) == lock = Nobody /\ lock' = p
LockBusy == \E p \in Procs :
    /\ proc[p].pc \in {"install", "recover"} /\ lock # Nobody
    /\ Exit(p) /\ UNCHANGED <<Files, journal, pending, faults>>

\* peek: neither a journal nor a pending one.
PeekNone == journal = NoDoc /\ pending = NoDoc
InstallAdmitted == Decommissioned /\ DormantAt(Baseline) /\ PeekNone
WriteNext(p, d) == proc' = [proc EXCEPT ![p].pc = "write", ![p].doc = d]
InstallOpen == \E p \in Procs :
    /\ At(p, "install") /\ TakesLock(p) /\ InstallAdmitted
    /\ WriteNext(p, [phase |-> "prepared", segments |-> 1, guard |-> guard])
    /\ UNCHANGED <<Files, journal, pending, faults>>
InstallRefused == \E p \in Procs :
    /\ At(p, "install") /\ lock = Nobody /\ ~InstallAdmitted
    /\ Exit(p) /\ UNCHANGED <<Files, journal, pending, faults>>

\* validate_journal
JournalValid(d) == d # TornDoc
\* _require_journal_successor: the first revision, the next phase or one more guard segment.
Successor(d, e) ==
    IF d = NoDoc THEN e.phase = "prepared" /\ e.segments = 1
    ELSE /\ e.guard = d.guard
         /\ \/ /\ e.segments = d.segments
               /\ \E i \in 1..3 : d.phase = InstallPhases[i] /\ e.phase = InstallPhases[i + 1]
            \/ /\ e.segments = d.segments + 1
               /\ e.phase = d.phase /\ d.phase # "installed"
\* JournalStore.load: a whole pending revision wins, a torn one is an error.
Selected == IF pending = NoDoc THEN journal ELSE pending
RecoverAdmitted(p) ==
    /\ DormantAt(proc[p].seen) /\ JournalValid(pending) /\ Selected # NoDoc
    /\ pending # NoDoc => Successor(journal, pending)
    /\ Decommissioned /\ guard = Baseline
RecoverOpen == \E p \in Procs :
    /\ At(p, "recover") /\ TakesLock(p) /\ RecoverAdmitted(p)
    /\ journal' = Selected /\ pending' = NoDoc /\ Goto(p, "reopened")
    /\ UNCHANGED <<Files, faults>>
RecoverRefused == \E p \in Procs :
    /\ At(p, "recover") /\ lock = Nobody /\ ~RecoverAdmitted(p)
    /\ Exit(p) /\ UNCHANGED <<Files, journal, pending, faults>>
SegmentAdmitted ==
    /\ journal.phase # "installed" /\ journal.segments < MAX_GUARD_SEGMENTS
    /\ guard = journal.guard
RecoverSegment == \E p \in Procs :
    /\ At(p, "reopened") /\ SegmentAdmitted
    /\ WriteNext(p, [journal EXCEPT !.segments = @ + 1])
    /\ UNCHANGED <<Files, journal, pending, lock, faults>>
\* Terminal already, no segment left, or the guard differs.
RecoverEnds == \E p \in Procs :
    /\ At(p, "reopened") /\ ~SegmentAdmitted /\ Exit(p)
    /\ UNCHANGED <<Files, journal, pending, faults>>

\* write: the pending file is created exclusively and renamed over the journal.
Write == \E p \in Procs :
    /\ At(p, "write") /\ pending = NoDoc /\ journal' = proc[p].doc
    /\ IF proc[p].doc.phase = "installed" THEN Exit(p)
       ELSE proc' = [proc EXCEPT ![p].pc = "resume", ![p].doc = NoDoc] /\ UNCHANGED lock
    /\ UNCHANGED <<Files, pending, faults>>

-----------------------------------------------------------------------------
(* _resume, by the journal's phase.                                        *)

InPhase(p, phase) == At(p, "resume") /\ journal.phase = phase
Unswapped == VerifiedBundle(target, Previous) /\ VerifiedBundle(staging.payload, Candidate)
Swapped == VerifiedBundle(target, Candidate) /\ VerifiedBundle(staging.payload, Previous)
StagingOnly == UNCHANGED <<target, source, jobs, running, guard, svc, journal, pending, lock, proc, faults>>
EnterPrepared == \E p \in Procs :
    /\ InPhase(p, "prepared") /\ DormantAt(journal.guard) /\ target = Previous
    /\ Goto(p, "stage") /\ UNCHANGED <<Files, journal, pending, lock, faults>>
MakeContainer == \E p \in Procs :
    /\ At(p, "stage") /\ ~staging.container
    /\ staging' = [staging EXCEPT !.container = TRUE] /\ StagingOnly
RemovePartial == \E p \in Procs :
    /\ At(p, "stage") /\ staging.partial = Torn
    /\ staging' = [staging EXCEPT !.partial = Absent] /\ StagingOnly
CopyCandidate == \E p \in Procs :
    /\ At(p, "stage") /\ staging.container
    /\ staging.partial = Absent /\ staging.payload = Absent /\ CandidateAdmitted
    /\ staging' = [staging EXCEPT !.partial = Candidate] /\ StagingOnly
PublishStagedPayload == \E p \in Procs :
    /\ At(p, "stage") /\ staging.partial = Candidate /\ staging.payload = Absent
    /\ staging' = [staging EXCEPT !.partial = Absent, !.payload = Candidate] /\ StagingOnly
CopyRefused == \E p \in Procs :
    /\ At(p, "stage") /\ staging.container /\ staging.partial = Absent
    /\ staging.payload = Absent /\ ~CandidateAdmitted
    /\ Exit(p) /\ UNCHANGED <<Files, journal, pending, faults>>
RecordStaged == \E p \in Procs :
    /\ At(p, "stage") /\ staging.payload = Candidate
    /\ WriteNext(p, [journal EXCEPT !.phase = "staged"])
    /\ UNCHANGED <<Files, journal, pending, lock, faults>>
\* Mutant: the two names are replaced one after the other.
SwapOverwrites == \E p \in Procs :
    /\ InPhase(p, "staged") /\ Unswapped /\ DormantAt(journal.guard)
    /\ target' = Candidate /\ staging' = [staging EXCEPT !.payload = Absent]
    /\ UNCHANGED <<source, jobs, running, guard, svc, journal, pending, lock, proc, faults>>
Swap == \E p \in Procs :
    /\ InPhase(p, "staged") /\ Unswapped /\ DormantAt(journal.guard)
    /\ target' = Candidate /\ staging' = [staging EXCEPT !.payload = Previous]
    /\ UNCHANGED <<source, jobs, running, guard, svc, journal, pending, lock, proc, faults>>
RecordSwapped == \E p \in Procs :
    /\ InPhase(p, "staged") /\ Swapped
    /\ WriteNext(p, [journal EXCEPT !.phase = "swapped"])
    /\ UNCHANGED <<Files, journal, pending, lock, faults>>
RecordInstalled == \E p \in Procs :
    /\ InPhase(p, "swapped") /\ Swapped /\ DormantAt(journal.guard)
    /\ WriteNext(p, [journal EXCEPT !.phase = "installed"])
    /\ UNCHANGED <<Files, journal, pending, lock, faults>>
\* The guard moved, or the bundles are not where the phase says.
ResumeRefused == \E p \in Procs :
    /\ At(p, "resume")
    /\ \/ journal.phase = "prepared" /\ ~(DormantAt(journal.guard) /\ target = Previous)
       \/ journal.phase = "staged" /\ Unswapped /\ ~DormantAt(journal.guard)
       \/ journal.phase = "staged" /\ ~Unswapped /\ ~Swapped
       \/ journal.phase = "swapped" /\ ~(Swapped /\ DormantAt(journal.guard))
    /\ Exit(p) /\ UNCHANGED <<Files, journal, pending, faults>>

-----------------------------------------------------------------------------
InstallLabels == {"install", "recover", "reopened", "write", "resume", "stage"}
\* Environment drift, an inexact installed bundle, a failed command or disk write.
InstallFails == \E p \in Procs :
    /\ proc[p].pc \in InstallLabels \ {"write"} /\ Fault /\ Exit(p)
    /\ UNCHANGED <<Files, journal, pending>>
InstallCrash == \E p \in Procs :
    /\ proc[p].pc \in InstallLabels /\ Fault /\ Exit(p)
    /\ pending' \in {pending} \cup (IF At(p, "write") THEN {TornDoc, proc[p].doc} ELSE {})
    /\ \/ UNCHANGED staging
       \/ /\ At(p, "stage") /\ staging.container /\ staging.payload = Absent
          /\ staging.partial = Absent /\ staging' = [staging EXCEPT !.partial = Torn]
    /\ UNCHANGED <<target, source, jobs, running, guard, svc, journal>>

InstallNext ==
    \/ InstallPreflight \/ RecoverPreflight \/ LockBusy \/ InstallOpen \/ InstallRefused
    \/ RecoverOpen \/ RecoverRefused \/ RecoverSegment \/ RecoverEnds \/ Write
    \/ EnterPrepared \/ MakeContainer \/ RemovePartial \/ CopyCandidate \/ CopyRefused \/ PublishStagedPayload \/ RecordStaged
    \/ Swap \/ RecordSwapped \/ RecordInstalled \/ ResumeRefused \/ InstallFails \/ InstallCrash

Init ==
    /\ target = Previous /\ source = Candidate /\ guard = Base
    /\ jobs = [j \in DOMAIN NoJobs |-> Previous] /\ running = jobs
    /\ svc = NoSvc /\ journal = NoDoc /\ pending = NoDoc /\ lock = Nobody
    /\ proc = [p \in Procs |-> Idle] /\ faults = 0 /\ staging = NoStaging
Next == (ServiceNext /\ UNCHANGED staging) \/ InstallNext
Spec == Init /\ [][Next]_vars

-----------------------------------------------------------------------------
(* No bundle is lost: the previous app is at the target or in the staging  *)
(* container, and an installed journal describes the bundles on disk.      *)
NoBundleLost ==
    /\ Previous \in {target, staging.payload}
    /\ journal.phase \in {"swapped", "installed"} => Swapped

(* The bundle is exchanged only between a complete teardown and the first  *)
(* registration, by the one invocation that holds the lock.                *)
ExchangedWhileDormant ==
    [][target' # target =>
         Dormant /\ Phase = DECOMMISSIONED /\ lock # Nobody /\ svc' = svc]_vars

(* A published installation journal is only replaced by its successor; it  *)
(* is never restarted, and leaves its name only once it is terminal.       *)
JournalAdvances ==
    [][journal' # journal =>
         \/ journal.phase = "installed" /\ journal' = NoDoc /\ lock # Nobody
         \/ journal = NoDoc /\ journal'.phase = "prepared" /\ staging = NoStaging
         \/ journal'.phase = journal.phase /\ journal'.segments = journal.segments + 1
         \/ \E i \in 1..3 : journal.phase = InstallPhases[i] /\ journal'.phase = InstallPhases[i + 1]]_vars
=============================================================================
