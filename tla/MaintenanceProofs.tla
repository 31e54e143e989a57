------------------------- MODULE MaintenanceProofs -------------------------
(***************************************************************************)
(* Proofs about the maintenance of an installed app: the service           *)
(* transaction, the bundle exchange, the export of their journals and the  *)
(* history archive, run by any number of operators and cut off at any of   *)
(* their writes.                                                           *)
(*                                                                         *)
(* MaintenanceInv has a part for each piece of state (Machine,             *)
(* ServiceState, InstallState, Archived, Exported) and one for the         *)
(* invocations.  Local says what an invocation may still rely on at each   *)
(* label although others have run since it last looked: outside the lock   *)
(* nothing but what is never undone (Keeps: exchanged bundles stay         *)
(* exchanged, terminal journals stay what they are); inside it, what it    *)
(* checked when it took the lock.  A step therefore has to preserve the    *)
(* label of its own invocation and Keeps, and OwnerStep does the rest.     *)
(***************************************************************************)
EXTENDS BoundedCommand, JournalRetention, SequenceTheorems, TLAPS

\* Checks that are one comparison on the abstract state.
USE DEF TargetIs, Guarded, RegisteredFrom, RunsFrom, Whole, EventValid, DiscardedInitial,
        EnvironmentRefused, SessionRefused, ExtensionRefused, VerifiedBundle, VerifierAccepts,
        TeardownReadable, TakesLock, JournalValid, TerminalFiles, StrictJson

-----------------------------------------------------------------------------
(* The inductive invariant.                                                 *)

\* The labels at which an invocation does not hold the maintenance lock.
Free == {"idle", "relock", "install", "recover", "x.relock"}
IsSeq(s) == \E S : s \in Seq(S)
ProcFields == {"pc", "cmd", "seen", "doc"}
SvcFields == {"dir", "events", "pend", "dns", "dnsPend"}
DocFields == {"phase", "segments", "guard"}
ExportFields == {"intent", "intentPend", "pend", "dest"}
HistoryFields == {"intent", "svc", "install", "complete"}
StagingFields == {"container", "partial", "payload"}
JobNames == {"proxy", "authority"}
Shaped(r, F) == r = [f \in F |-> r[f]]

\* The bundle at the target and the jobs that run from it.
Machine ==
    /\ target \in Bundles /\ Shaped(jobs, JobNames) /\ Shaped(running, JobNames)
    /\ JobsRunTheTarget
\* The service journal: absent means empty, otherwise at least its first event.
ServiceState ==
    /\ Shaped(svc, SvcFields) /\ svc.dir \in {Absent, Torn, "pending", "published"}
    /\ svc.dir = Absent => svc = NoSvc
    /\ IsSeq(svc.events) /\ (svc.dir \in {"pending", "published"} => Len(svc.events) >= 1)
\* An installation journal that claims the exchange tells the truth.
DocTrue(d) == Shaped(d, DocFields) /\ (d.phase \in {"swapped", "installed"} => Swapped)
\* The two bundles and the journal of their exchange.
InstallState ==
    /\ Shaped(staging, StagingFields) /\ Previous \in {target, staging.payload}
    /\ DocTrue(journal) /\ DocTrue(pending)
    /\ journal.phase = "installed" => pending = NoDoc
\* Journals move only when both are terminal, the service journal first.
Archived ==
    /\ Shaped(history, HistoryFields)
    /\ ServiceMoved => svc = NoSvc /\ target = Candidate /\ TerminalPair(RetainedService, RetainedInstall)
    /\ InstallMoved => ServiceMoved /\ journal = NoDoc /\ pending = NoDoc
\* A whole record describes the journals as they are retained.
Good(r) ==
    r.whole => /\ TerminalPair(r.svc, r.install)
               /\ r.svc = RetainedService /\ r.install = RetainedInstall
\* Every record of the export is good, and a published container verifies.
Exported ==
    /\ Shaped(export, ExportFields) /\ \A f \in ExportFields : Good(export[f])
    /\ export.dest # NoRecord => Verified
\* What an invocation at a label may rely on; c is the record it carries.
Local(r, c) ==
    /\ Shaped(r, ProcFields) /\ DocTrue(r.doc) /\ Good(c)
    /\ r.pc = "loaded" => svc.dir \in {Absent, "published"}
    /\ r.pc \in {"step", "append", "dns"} => svc.dir = "published"
    /\ r.pc = "append" => Phase < Len(PHASES)
    /\ r.pc = "dns" => Phase = DECOMMISSIONED
    /\ r.pc = "create" => svc = NoSvc /\ target = Previous
    /\ r.pc \in {"reopened", "write", "resume", "stage"} => Decommissioned
    /\ r.pc \in {"write", "resume", "stage"} => journal.phase # "installed"
    /\ r.pc \in ExportLabels => c.whole
    /\ r.pc = "x.container" => export.intentPend = NoRecord /\ export.intent = c
    /\ r.pc = "h.move" => TerminalPair(RetainedService, RetainedInstall) /\ target = Candidate
                         /\ history.intent \in {NoRecord, HistoryIntent}
\* Only the holder of the lock is at a label inside it.
Invocations ==
    /\ Shaped(proc, Procs) /\ Shaped(carried, Procs)
    /\ \A p \in Procs : proc[p].pc \notin Free => lock = p
    /\ \A p \in Procs : Local(proc[p], carried[p])
MaintenanceInv == Machine /\ ServiceState /\ InstallState /\ Archived /\ Exported /\ Invocations
-----------------------------------------------------------------------------
(* What one invocation does to itself.                                      *)

Shared == <<target, jobs, running, svc, journal, pending, staging, export, history>>
Becomes(p, r) == proc' = [proc EXCEPT ![p] = r] /\ Shaped(r, ProcFields)
Carries(p, c) == carried' = [carried EXCEPT ![p] = c]
\* Terminal journals stay what they are; exchanged bundles stay exchanged.
Keeps ==
    /\ Swapped => Swapped'
    /\ TerminalPair(RetainedService, RetainedInstall) =>
          RetainedService' = RetainedService /\ RetainedInstall' = RetainedInstall

LEMMA IdleIs == Shaped(Idle, ProcFields) /\ Idle.pc = "idle" /\ Idle.doc = NoDoc /\ Shaped(NoDoc, DocFields) /\ NoDoc.phase = "none"
<1>1. Shaped(NoDoc, DocFields) /\ NoDoc.phase = "none"
  BY DEF Shaped, DocFields, NoDoc
<1>2. Shaped(Idle, ProcFields) /\ Idle.pc = "idle" /\ Idle.doc = NoDoc
  BY DEF Shaped, ProcFields, Idle
<1> QED
  BY <1>1, <1>2

LEMMA NoDocTrue == DocTrue(NoDoc)
  BY IdleIs DEF DocTrue

LEMMA NoRecordGood == Good(NoRecord)
  BY DEF Good, NoRecord

(* An invocation that is between its locks only needs what is kept.         *)
LEMMA FreeLocal ==
    ASSUME NEW r, NEW c, Shaped(r, ProcFields), DocTrue(r.doc), Good(c), r.pc \in Free, r.pc = "x.relock" => c.whole
    PROVE  Local(r, c)
  BY DEF Local, Free, ExportLabels

LEMMA KeptDoc == ASSUME NEW d, DocTrue(d), Keeps PROVE DocTrue(d)'
  BY DEF DocTrue, Keeps

LEMMA KeptGood == ASSUME NEW c, Good(c), Keeps PROVE Good(c)'
  BY DEF Good, Keeps

LEMMA FreeLocalKept ==
    ASSUME NEW r, NEW c, Local(r, c), r.pc \in Free, Keeps
    PROVE  Local(r, c)'
<1>1. DocTrue(r.doc)'
  BY KeptDoc DEF Local
<1>2. Good(c)'
  BY KeptGood DEF Local
<1>3. Shaped(r, ProcFields) /\ (r.pc = "x.relock" => c.whole)
  BY DEF Local, ExportLabels
<1> QED
  BY <1>1, <1>2, <1>3 DEF Local, Free, ExportLabels

LEMMA SameLocal == ASSUME NEW r, NEW c, Local(r, c), UNCHANGED Shared PROVE Local(r, c)'
<1> USE DEF Shared
<1>1. DocTrue(r.doc)'
  BY DEF Local, DocTrue, Swapped
<1>2. RetainedService' = RetainedService /\ RetainedInstall' = RetainedInstall /\ HistoryIntent' = HistoryIntent
  BY DEF RetainedService, RetainedInstall, ServiceMoved, InstallMoved, HistoryIntent
<1>3. Good(c)'
  BY <1>2 DEF Local, Good
<1>4. Phase' = Phase /\ (Decommissioned <=> Decommissioned')
  BY DEF Phase, Decommissioned, TeardownInventory
<1> QED
  BY <1>1, <1>2, <1>3, <1>4 DEF Local

LEMMA SameGlobal ==
    ASSUME Machine, ServiceState, InstallState, Archived, Exported, UNCHANGED Shared
    PROVE  (Machine /\ ServiceState /\ InstallState /\ Archived /\ Exported)'
<1> USE DEF Shared
<1>1. Machine' /\ ServiceState'
  BY DEF Machine, ServiceState, JobsRunTheTarget
<1>2. InstallState'
  BY DEF InstallState, DocTrue, Swapped
<1>3. RetainedService' = RetainedService /\ RetainedInstall' = RetainedInstall
  BY DEF RetainedService, RetainedInstall, ServiceMoved, InstallMoved
<1>4. Archived'
  BY <1>3 DEF Archived, ServiceMoved, InstallMoved
<1>5. Exported'
  BY <1>3 DEF Exported, Good, Verified
<1> QED
  BY <1>1, <1>2, <1>4, <1>5

(* The holder of the lock moves: everyone else is between locks.            *)
LEMMA OwnerStep ==
    ASSUME MaintenanceInv, NEW p \in Procs, NEW r, NEW c, Becomes(p, r), Carries(p, c), lock \in {p, Nobody},
           Local(r, c)', r.pc \notin Free => lock' = p, Keeps
    PROVE  Invocations'
<1>1. Invocations
  BY DEF MaintenanceInv
<1>2. /\ proc' = [q \in Procs |-> proc'[q]] /\ proc'[p] = r /\ \A q \in Procs \ {p} : proc'[q] = proc[q]
      /\ carried' = [q \in Procs |-> carried'[q]] /\ carried'[p] = c /\ \A q \in Procs \ {p} : carried'[q] = carried[q]
  BY <1>1 DEF Invocations, Becomes, Carries, Shaped
<1>3. \A q \in Procs \ {p} : proc[q].pc \in Free /\ Local(proc[q], carried[q])
  BY <1>1, InstallAssumption DEF Invocations
<1>4. ASSUME NEW q \in Procs PROVE Local(proc[q], carried[q])'
  <2>1. CASE q = p
    BY <1>2, <2>1
  <2>2. CASE q # p
    <3>1. PICK x, y : x = proc[q] /\ y = carried[q]
      OBVIOUS
    <3>2. Local(x, y)'
      BY <1>3, <2>2, <3>1, FreeLocalKept
    <3> QED
      BY <1>2, <2>2, <3>1, <3>2
  <2> QED
    BY <2>1, <2>2
<1>5. \A q \in Procs : proc'[q].pc \notin Free => lock' = q
  BY <1>2, <1>3
<1> QED
  BY <1>2, <1>4, <1>5 DEF Invocations, Shaped

(* An invocation that changes nothing but itself.                           *)
LEMMA OnlyStep ==
    ASSUME MaintenanceInv, NEW p \in Procs, NEW r, NEW c, Becomes(p, r), Carries(p, c), UNCHANGED Shared,
           Local(r, c), r.pc \notin Free => lock' = p, lock' = lock \/ lock \in {p, Nobody}
    PROVE  MaintenanceInv'
<1>1. Invocations
  BY DEF MaintenanceInv
<1>2. /\ proc' = [q \in Procs |-> proc'[q]] /\ proc'[p] = r /\ \A q \in Procs \ {p} : proc'[q] = proc[q]
      /\ carried' = [q \in Procs |-> carried'[q]] /\ carried'[p] = c /\ \A q \in Procs \ {p} : carried'[q] = carried[q]
  BY <1>1 DEF Invocations, Becomes, Carries, Shaped
<1>3. ASSUME NEW q \in Procs PROVE Local(proc[q], carried[q])'
  <2>1. PICK x, y : x = proc'[q] /\ y = carried'[q]
    OBVIOUS
  <2>2. Local(x, y)
    BY <1>1, <1>2, <2>1 DEF Invocations
  <2>3. Local(x, y)'
    BY <2>2, SameLocal
  <2> QED
    BY <2>1, <2>3
<1>4. \A q \in Procs : proc'[q].pc \notin Free => lock' = q
  BY <1>1, <1>2, InstallAssumption DEF Invocations
<1>5. Invocations'
  BY <1>2, <1>3, <1>4 DEF Invocations, Shaped
<1> QED
  BY <1>5, SameGlobal DEF MaintenanceInv

LEMMA CarriedSame == ASSUME MaintenanceInv, NEW p \in Procs, UNCHANGED carried PROVE Carries(p, carried[p])
  BY DEF MaintenanceInv, Invocations, Carries, Shaped

(* A command that ends, however it ends, and leaves everything as it is.    *)
LEMMA ExitOnly ==
    ASSUME MaintenanceInv, NEW p \in Procs, Exit(p), UNCHANGED Shared, UNCHANGED carried \/ Carry(p, NoRecord)
    PROVE  MaintenanceInv'
<1>1. Becomes(p, Idle)
  BY IdleIs DEF Exit, Becomes
<1>2. PICK c : Carries(p, c) /\ Good(c)
  <2>1. CASE UNCHANGED carried
    BY <2>1, CarriedSame DEF MaintenanceInv, Invocations, Local
  <2>2. CASE Carry(p, NoRecord)
    BY <2>2, NoRecordGood DEF Carry, Carries
  <2> QED
    BY <2>1, <2>2
<1>3. Local(Idle, c)
  BY <1>2, IdleIs, NoDocTrue, FreeLocal DEF Free
<1>4. lock' = lock \/ lock \in {p, Nobody}
  BY DEF Exit
<1> QED
  BY <1>1, <1>2, <1>3, <1>4, IdleIs, OnlyStep DEF Free

LEMMA GotoMoves ==
    ASSUME MaintenanceInv, NEW p \in Procs, NEW l, Goto(p, l)
    PROVE  \E r : Becomes(p, r) /\ r.pc = l /\ r.doc = proc[p].doc
<1> DEFINE r == [proc[p] EXCEPT !.pc = l]
<1>1. Shaped(proc[p], ProcFields)
  BY DEF MaintenanceInv, Invocations, Local
<1>2. Shaped(r, ProcFields) /\ r.pc = l /\ r.doc = proc[p].doc
  BY <1>1 DEF Shaped, ProcFields
<1>3. proc' = [proc EXCEPT ![p] = r]
  BY DEF Goto
<1> QED
  BY <1>2, <1>3 DEF Becomes

LEMMA SeenMoves ==
    ASSUME MaintenanceInv, NEW p \in Procs, NEW l, NEW g, proc' = [proc EXCEPT ![p].pc = l, ![p].seen = g]
    PROVE  \E r : Becomes(p, r) /\ r.pc = l /\ r.doc = proc[p].doc
<1> DEFINE r == [proc[p] EXCEPT !.pc = l, !.seen = g]
<1>1. Shaped(proc[p], ProcFields)
  BY DEF MaintenanceInv, Invocations, Local
<1>2. Shaped(r, ProcFields) /\ r.pc = l /\ r.doc = proc[p].doc
  BY <1>1 DEF Shaped, ProcFields
<1>3. proc' = [proc EXCEPT ![p] = r]
  BY DEF MaintenanceInv, Invocations, Shaped
<1> QED
  BY <1>2, <1>3 DEF Becomes

LEMMA WriteMoves ==
    ASSUME MaintenanceInv, NEW p \in Procs, NEW d, proc' = [proc EXCEPT ![p].pc = "write", ![p].doc = d]
    PROVE  \E r : Becomes(p, r) /\ r.pc = "write" /\ r.doc = d
<1> DEFINE r == [proc[p] EXCEPT !.pc = "write", !.doc = d]
<1>1. Shaped(proc[p], ProcFields)
  BY DEF MaintenanceInv, Invocations, Local
<1>2. Shaped(r, ProcFields) /\ r.pc = "write" /\ r.doc = d
  BY <1>1 DEF Shaped, ProcFields
<1>3. proc' = [proc EXCEPT ![p] = r]
  BY DEF MaintenanceInv, Invocations, Shaped
<1> QED
  BY <1>2, <1>3 DEF Becomes

(* What an invocation may rely on.                                          *)
LEMMA Mine ==
    ASSUME MaintenanceInv, NEW p \in Procs
    PROVE  /\ Local(proc[p], carried[p]) /\ DocTrue(proc[p].doc) /\ Good(carried[p])
           /\ (proc[p].pc \notin Free => lock = p)
  BY DEF MaintenanceInv, Invocations, Local

-----------------------------------------------------------------------------
(* Steps of the service transaction that only move the invocation.          *)

ServiceFrame == UNCHANGED <<journal, pending, staging, export, history, carried>>

LEMMA ServiceEnds ==
    ASSUME MaintenanceInv, ServiceFrame,
           LoadFails \/ RelockBusy \/ Refuse \/ Prove \/ Unsettled \/ GuardDrift \/ DnsExisting \/ ServiceFails
    PROVE  MaintenanceInv'
<1>1. PICK p \in Procs : Exit(p)
  BY DEF LoadFails, RelockBusy, Refuse, Prove, Unsettled, GuardDrift, DnsExisting, ServiceFails
<1>2. UNCHANGED Shared /\ UNCHANGED carried
  BY DEF LoadFails, RelockBusy, Refuse, Prove, Unsettled, GuardDrift, DnsExisting, ServiceFails, World, ServiceFrame, Shared
<1> QED
  BY <1>1, <1>2, ExitOnly

LEMMA BeginServiceStep == ASSUME MaintenanceInv, ServiceFrame, BeginService PROVE MaintenanceInv'
<1>1. PICK p \in Procs, c \in {"decommission", "recommission", "recover", "dns"} :
                            /\ lock = Nobody /\ lock' = p /\ UNCHANGED <<World, svc, faults>>
                            /\ proc' = [proc EXCEPT ![p] = [Idle EXCEPT !.pc = "load", !.cmd = c]]
  BY DEF BeginService
<1> DEFINE r == [Idle EXCEPT !.pc = "load", !.cmd = c]
<1>2. Shaped(r, ProcFields) /\ r.pc = "load" /\ r.doc = NoDoc
  BY IdleIs DEF Shaped, ProcFields
<1>3. Becomes(p, r)
  BY <1>1, <1>2 DEF Becomes
<1> HIDE DEF r
<1>4. Local(r, carried[p])
  BY <1>2, NoDocTrue, Mine DEF Local, ExportLabels
<1>5. UNCHANGED Shared /\ Carries(p, carried[p])
  BY <1>1, CarriedSame DEF ServiceFrame, Shared, World
<1> QED
  BY <1>1, <1>2, <1>3, <1>4, <1>5, OnlyStep

LEMMA DispatchStep == ASSUME MaintenanceInv, ServiceFrame, Dispatch PROVE MaintenanceInv'
<1>1. PICK p \in Procs : /\ At(p, "loaded") /\ lock' = Nobody /\ UNCHANGED <<World, svc, faults>>
                         /\ proc' = [proc EXCEPT ![p] = [Idle EXCEPT !.pc = "relock", !.cmd = RecoverCommand]]
  BY DEF Dispatch
<1> DEFINE r == [Idle EXCEPT !.pc = "relock", !.cmd = RecoverCommand]
<1>2. Shaped(r, ProcFields) /\ r.pc = "relock" /\ r.doc = NoDoc
  BY IdleIs DEF Shaped, ProcFields
<1>3. Becomes(p, r)
  BY <1>1, <1>2 DEF Becomes
<1> HIDE DEF r
<1>4. Local(r, carried[p])
  BY <1>2, NoDocTrue, Mine, FreeLocal DEF Free
<1>5. UNCHANGED Shared /\ Carries(p, carried[p])
  BY <1>1, CarriedSame DEF ServiceFrame, Shared, World
<1>6. lock = p
  BY <1>1, Mine DEF At, Free
<1>7. PICK x : x = r
  OBVIOUS
<1> QED
  BY <1>2, <1>3, <1>4, <1>5, <1>6, <1>7, OnlyStep DEF Free

LEMMA RelockStep == ASSUME MaintenanceInv, ServiceFrame, Relock PROVE MaintenanceInv'
<1>1. PICK p \in Procs : lock = Nobody /\ lock' = p /\ Goto(p, "load") /\ UNCHANGED <<World, svc, faults>>
  BY DEF Relock
<1>2. PICK r : Becomes(p, r) /\ r.pc = "load" /\ r.doc = proc[p].doc
  BY <1>1, GotoMoves
<1>3. Local(r, carried[p])
  BY <1>2, Mine DEF Local, ExportLabels, Becomes
<1>4. UNCHANGED Shared /\ Carries(p, carried[p])
  BY <1>1, CarriedSame DEF ServiceFrame, Shared, World
<1> QED
  BY <1>1, <1>2, <1>3, <1>4, OnlyStep

LEMMA EnterStep == ASSUME MaintenanceInv, ServiceFrame, Enter PROVE MaintenanceInv'
<1>1. PICK p \in Procs : /\ At(p, "loaded") /\ svc.dir = "published" /\ Goto(p, "step")
                         /\ UNCHANGED <<World, svc, lock, faults>>
  BY DEF Enter
<1>2. PICK r : Becomes(p, r) /\ r.pc = "step" /\ r.doc = proc[p].doc
  BY <1>1, GotoMoves
<1>3. Local(r, carried[p])
  BY <1>1, <1>2, Mine DEF Local, ExportLabels, Becomes
<1>4. UNCHANGED Shared /\ Carries(p, carried[p])
  BY <1>1, CarriedSame DEF ServiceFrame, Shared, World
<1>5. lock = p
  BY <1>1, Mine DEF At, Free
<1> QED
  BY <1>1, <1>2, <1>3, <1>4, <1>5, OnlyStep

LEMMA PreflightStep == ASSUME MaintenanceInv, ServiceFrame, Preflight PROVE MaintenanceInv'
<1>1. PICK p \in Procs : /\ At(p, "loaded") /\ PreflightOk /\ proc' = [proc EXCEPT ![p].pc = "create", ![p].seen = guard]
                         /\ UNCHANGED <<World, svc, lock, faults>>
  BY DEF Preflight
<1>2. PICK r : Becomes(p, r) /\ r.pc = "create" /\ r.doc = proc[p].doc
  BY <1>1, SeenMoves
<1>3. svc = NoSvc /\ target = Previous
  BY <1>1 DEF PreflightOk, Supersedable, MaintenanceInv, ServiceState
<1>4. Local(r, carried[p])
  BY <1>2, <1>3, Mine DEF Local, ExportLabels, Becomes
<1>5. UNCHANGED Shared /\ Carries(p, carried[p])
  BY <1>1, CarriedSame DEF ServiceFrame, Shared, World
<1>6. lock = p
  BY <1>1, Mine DEF At, Free
<1> QED
  BY <1>1, <1>2, <1>4, <1>5, <1>6, OnlyStep

LEMMA DnsObserveStep == ASSUME MaintenanceInv, ServiceFrame, DnsObserve PROVE MaintenanceInv'
<1>1. PICK p \in Procs : /\ At(p, "loaded") /\ DnsEligible /\ proc' = [proc EXCEPT ![p].pc = "dns", ![p].seen = guard]
                         /\ UNCHANGED <<World, svc, lock, faults>>
  BY DEF DnsObserve, Admitted
<1>2. PICK r : Becomes(p, r) /\ r.pc = "dns" /\ r.doc = proc[p].doc
  BY <1>1, SeenMoves
<1>3. svc.dir = "published" /\ Phase = DECOMMISSIONED
  BY <1>1 DEF DnsEligible
<1>4. Local(r, carried[p])
  BY <1>2, <1>3, Mine DEF Local, ExportLabels, Becomes
<1>5. UNCHANGED Shared /\ Carries(p, carried[p])
  BY <1>1, CarriedSame DEF ServiceFrame, Shared, World
<1>6. lock = p
  BY <1>1, Mine DEF At, Free
<1> QED
  BY <1>1, <1>2, <1>4, <1>5, <1>6, OnlyStep

(* The world moves on its own: a process ends, a guard or a candidate       *)
(* changes.                                                                 *)
LEMMA WorldStep ==
    ASSUME MaintenanceInv, ServiceFrame, JobEnds \/ GuardChanges \/ CandidateDrifts
    PROVE  MaintenanceInv'
<1>1. UNCHANGED <<target, jobs, svc, lock, proc>>
  BY DEF JobEnds, GuardChanges, CandidateDrifts
<1>2. Shaped(running, JobNames)' /\ \A j \in JobNames : running'[j] \in {running[j], Absent}
  BY DEF JobEnds, GuardChanges, CandidateDrifts, MaintenanceInv, Machine, Shaped
<1>3. Machine'
  BY <1>1, <1>2 DEF MaintenanceInv, Machine, JobsRunTheTarget, Shaped
<1>4. ServiceState'
  BY <1>1 DEF MaintenanceInv, ServiceState
<1>5. InstallState'
  BY <1>1 DEF MaintenanceInv, InstallState, DocTrue, Swapped, ServiceFrame
<1>6. RetainedService' = RetainedService /\ RetainedInstall' = RetainedInstall /\ HistoryIntent' = HistoryIntent
  BY <1>1 DEF RetainedService, RetainedInstall, ServiceMoved, InstallMoved, HistoryIntent, ServiceFrame
<1>7. Archived'
  BY <1>1, <1>6 DEF MaintenanceInv, Archived, ServiceMoved, InstallMoved, ServiceFrame
<1>8. Exported'
  BY <1>6 DEF MaintenanceInv, Exported, Good, Verified, ServiceFrame
<1>9. \A p \in Procs : Local(proc[p], carried[p])'
  BY <1>1, <1>6 DEF MaintenanceInv, Invocations, Local, DocTrue, Swapped, Good, Phase, Decommissioned, TeardownInventory, ServiceFrame
<1>10. Invocations'
  BY <1>1, <1>9 DEF MaintenanceInv, Invocations, ServiceFrame
<1> QED
  BY <1>3, <1>4, <1>5, <1>7, <1>8, <1>10 DEF MaintenanceInv

-----------------------------------------------------------------------------
(* Steps that write the service journal.                                    *)

(* Any journal written by the holder of the lock, unless it was moved away  *)
(* or is terminal.                                                          *)
LEMMA ServiceWrite ==
    ASSUME MaintenanceInv, ServiceFrame, UNCHANGED World, NEW p \in Procs, NEW r, Becomes(p, r), lock = p,
           r.pc \notin Free => lock' = p, ServiceState', Local(r, carried[p])',
           svc' = svc \/ (~TerminalService(svc) /\ ~ServiceMoved)
    PROVE  MaintenanceInv'
<1>1. Machine'
  BY DEF MaintenanceInv, Machine, JobsRunTheTarget, World
<1>2. InstallState'
  BY DEF MaintenanceInv, InstallState, DocTrue, Swapped, ServiceFrame, World
<1>3. TerminalPair(RetainedService, RetainedInstall) => RetainedService' = RetainedService /\ RetainedInstall' = RetainedInstall
  BY DEF TerminalPair, RetainedService, RetainedInstall, ServiceMoved, InstallMoved, ServiceFrame
<1>4. Keeps
  BY <1>3 DEF Keeps, Swapped, ServiceFrame, World
<1>5. Archived'
  <2>1. ServiceMoved' = ServiceMoved /\ InstallMoved' = InstallMoved
    BY DEF ServiceMoved, InstallMoved, ServiceFrame
  <2> QED
    BY <1>3, <2>1 DEF MaintenanceInv, Archived, ServiceFrame, World
<1>6. Exported'
  <2>1. \A f \in ExportFields : Good(export[f])'
    BY <1>3 DEF MaintenanceInv, Exported, Good, ServiceFrame
  <2> QED
    BY <2>1 DEF MaintenanceInv, Exported, Verified, ServiceFrame
<1>7. Carries(p, carried[p])
  BY CarriedSame DEF ServiceFrame
<1>8. PICK c : c = carried[p]
  OBVIOUS
<1>9. Local(r, c)'
  BY <1>8 DEF ServiceFrame
<1>10. Invocations'
  BY <1>4, <1>7, <1>8, <1>9, OwnerStep
<1> QED
  BY <1>1, <1>2, <1>5, <1>6, <1>10 DEF MaintenanceInv

(* Appending to any journal.                                                *)
LEMMA Appended ==
    ASSUME NEW s, IsSeq(s), NEW e
    PROVE  IsSeq(Append(s, e)) /\ Len(s) \in Nat /\ Len(Append(s, e)) = Len(s) + 1
<1>1. PICK S : s \in Seq(S)
  BY DEF IsSeq
<1> DEFINE T == S \cup {e}
<1>2. s \in Seq(T) /\ e \in T
  BY <1>1, SeqMonotonic
<1> HIDE DEF T
<1>3. Append(s, e) \in Seq(T)
  BY <1>2, AppendProperties
<1> QED
  BY <1>2, <1>3, AppendProperties, LenProperties DEF IsSeq

LEMMA NoSvcIs == Shaped(NoSvc, SvcFields) /\ NoSvc.dir = Absent /\ NoSvc.events = <<>> /\ IsSeq(<<>>)
<1>1. <<>> \in Seq({})
  OBVIOUS
<1> QED
  BY <1>1 DEF Shaped, SvcFields, NoSvc, IsSeq

(* A service directory is published, pending, torn or not there at all.     *)
LEMMA DirsDiffer == Absent # "published" /\ Absent # "pending" /\ Torn # "published" /\ Torn # "pending" /\ Absent # Torn
  BY DEF Absent, Torn

LEMMA EventWritten ==
    ASSUME ServiceState, NEW s, Shaped(s, SvcFields), s.dir = svc.dir, NEW e, s.events = svc.events \/ s.events = Append(svc.events, e),
           svc.dir = "published", svc' = s
    PROVE  ServiceState'
<1>1. IsSeq(s.events) /\ Len(s.events) >= 1
  <2>1. IsSeq(svc.events) /\ Len(svc.events) >= 1
    BY DEF ServiceState
  <2>2. IsSeq(Append(svc.events, e)) /\ Len(svc.events) \in Nat /\ Len(Append(svc.events, e)) = Len(svc.events) + 1
    BY <2>1, Appended
  <2>3. CASE s.events = svc.events
    BY <2>1, <2>3
  <2>4. CASE s.events = Append(svc.events, e)
    <3> DEFINE a == Append(svc.events, e)
    <3>1. IsSeq(a) /\ Len(a) = Len(svc.events) + 1 /\ Len(svc.events) \in Nat
      BY <2>2
    <3> HIDE DEF a
    <3>2. Len(a) >= 1
      BY <3>1
    <3> QED
      BY <2>4, <3>1, <3>2 DEF a
  <2> QED
    BY <2>3, <2>4
<1> QED
  BY <1>1, DirsDiffer DEF ServiceState

LEMMA LoadStep == ASSUME MaintenanceInv, ServiceFrame, Load PROVE MaintenanceInv'
<1>1. PICK p \in Procs : At(p, "load") /\ svc' = Loaded /\ Goto(p, "loaded") /\ UNCHANGED <<World, lock, faults>>
  BY DEF Load
<1>2. PICK r : Becomes(p, r) /\ r.pc = "loaded" /\ r.doc = proc[p].doc
  BY <1>1, GotoMoves
<1>3. lock = p
  BY <1>1, Mine DEF At, Free
<1>4. ServiceState /\ Shaped(svc, SvcFields)
  BY DEF MaintenanceInv, ServiceState
<1>5. /\ ServiceState' /\ svc'.dir \in {Absent, "published"}
      /\ svc' = svc \/ (~TerminalService(svc) /\ ~ServiceMoved)
  <2>1. CASE svc.dir = "published"
    <3>1. ~ServiceMoved
      BY <2>1, NoSvcIs, DirsDiffer DEF MaintenanceInv, Archived
    <3>2. svc' = WithPendingEvent
      BY <1>1, <2>1, DirsDiffer DEF Loaded
    <3> DEFINE w == WithDns
    <3>3. Shaped(w, SvcFields) /\ w.dir = svc.dir /\ w.events = svc.events
      BY <1>4 DEF WithDns, Shaped, SvcFields
    <3>4. svc' = [w EXCEPT !.events = Append(@, svc.pend), !.pend = Absent] \/ svc' = [w EXCEPT !.pend = Absent]
      BY <3>2 DEF WithPendingEvent
    <3>5. TerminalService(svc) => svc' = svc
      <4>1. ASSUME TerminalService(svc) PROVE svc' = [svc EXCEPT !.pend = Absent] /\ svc.pend = Absent
        BY <3>2, <4>1 DEF WithPendingEvent, WithDns, TerminalService
      <4> QED
        BY <1>4, <4>1 DEF Shaped, SvcFields
    <3> HIDE DEF w
    <3>6. PICK s : s = svc' 
      OBVIOUS
    <3>7. Shaped(s, SvcFields) /\ s.dir = svc.dir /\ (s.events = svc.events \/ s.events = Append(svc.events, svc.pend))
      BY <3>3, <3>4, <3>6 DEF Shaped, SvcFields
    <3>8. ServiceState'
      BY <1>4, <2>1, <3>6, <3>7, EventWritten
    <3> QED
      BY <2>1, <3>1, <3>5, <3>6, <3>7, <3>8
  <2>2. CASE svc.dir = "pending"
    <3>1. svc' = [svc EXCEPT !.dir = "published"]
      BY <1>1, <2>2, DirsDiffer DEF Loaded
    <3>2. Shaped(svc', SvcFields) /\ svc'.dir = "published" /\ svc'.events = svc.events
      BY <1>4, <3>1 DEF Shaped, SvcFields
    <3>3. ~TerminalService(svc) /\ ~ServiceMoved
      BY <2>2, NoSvcIs, DirsDiffer DEF MaintenanceInv, Archived, TerminalService
    <3> QED
      BY <1>4, <2>2, <3>2, <3>3, DirsDiffer DEF ServiceState
  <2>3. CASE svc.dir \in {Absent, Torn}
    <3>1. svc' = NoSvc
      BY <1>1, <2>3, DirsDiffer DEF Loaded
    <3>2. ServiceState'
      BY <3>1, NoSvcIs, DirsDiffer DEF ServiceState
    <3>3. ~TerminalService(svc) /\ (ServiceMoved => svc = NoSvc)
      BY <2>3, DirsDiffer DEF MaintenanceInv, Archived, TerminalService
    <3> QED
      BY <3>1, <3>2, <3>3, NoSvcIs
  <2> QED
    BY <1>4, <2>1, <2>2, <2>3 DEF ServiceState
<1>6. Keeps
  BY <1>1, <1>5 DEF Keeps, Swapped, TerminalPair, RetainedService, RetainedInstall, ServiceMoved, InstallMoved, ServiceFrame, World
<1>7. Local(r, carried[p])'
  <2>1. PICK c : c = carried[p]
    OBVIOUS
  <2>2. DocTrue(r.doc)' /\ Good(c)'
    BY <1>2, <1>6, <2>1, Mine, KeptDoc, KeptGood
  <2> QED
    BY <1>2, <1>5, <2>1, <2>2 DEF Local, ExportLabels, Becomes, ServiceFrame
<1> QED
  BY <1>1, <1>2, <1>3, <1>5, <1>7, ServiceWrite

(* The writer of an event of a published, unfinished transaction.           *)
LEMMA UnfinishedWrite ==
    ASSUME MaintenanceInv, ServiceFrame, UNCHANGED World, NEW p \in Procs, NEW r, Becomes(p, r), lock = p,
           r.pc \notin Free => lock' = p, ServiceState', DocTrue(r.doc), r.pc \in {"idle", "step"},
           r.pc = "step" => svc'.dir = "published", svc' = svc \/ (~TerminalService(svc) /\ ~ServiceMoved)
    PROVE  MaintenanceInv'
<1>1. Keeps
  BY DEF Keeps, Swapped, TerminalPair, RetainedService, RetainedInstall, ServiceMoved, InstallMoved, ServiceFrame, World
<1>2. PICK c, d : c = carried[p] /\ d = r.doc
  OBVIOUS
<1>3. DocTrue(d)' /\ Good(c)'
  BY <1>1, <1>2, Mine, KeptDoc, KeptGood
<1>4. Local(r, carried[p])'
  BY <1>2, <1>3 DEF Local, ExportLabels, Becomes, ServiceFrame
<1> QED
  BY <1>4, ServiceWrite

LEMMA Unfinished ==
    ASSUME MaintenanceInv, svc.dir = "published", Phase < Len(PHASES)
    PROVE  ~TerminalService(svc) /\ ~ServiceMoved
<1>1. Len(PHASES) = 7 /\ Len(svc.events) \in Nat
  BY Appended DEF PHASES, MaintenanceInv, ServiceState
<1>2. Len(svc.events) # Len(PHASES)
  <2>1. PICK n : n = Len(svc.events)
    OBVIOUS
  <2>2. n < 7 /\ n \in Nat
    BY <1>1, <2>1 DEF Phase
  <2>3. n # 7
    BY <2>2
  <2>4. PICK m : m = Len(PHASES)
    OBVIOUS
  <2>5. m = 7
    BY <1>1, <2>4
  <2> QED
    BY <2>1, <2>3, <2>4, <2>5, Zenon
<1>3. svc # NoSvc
  BY NoSvcIs, DirsDiffer
<1> QED
  BY <1>2, <1>3 DEF MaintenanceInv, Archived, TerminalService

LEMMA NotBegun ==
    ASSUME MaintenanceInv, svc = NoSvc, target = Previous
    PROVE  ~TerminalService(svc) /\ ~ServiceMoved
  BY NoSvcIs, DirsDiffer, InstallAssumption DEF MaintenanceInv, Archived, TerminalService

LEMMA Teardown == DECOMMISSIONED < Len(PHASES) /\ DECOMMISSIONED = 4 /\ Len(PHASES) = 7
<1>1. Len(PHASES) = 7
  BY DEF PHASES
<1> QED
  BY <1>1 DEF DECOMMISSIONED

LEMMA CreateStep == ASSUME MaintenanceInv, ServiceFrame, Create PROVE MaintenanceInv'
<1>1. PICK p \in Procs : At(p, "create") /\ svc' = Initial(guard) /\ Goto(p, "step") /\ UNCHANGED <<World, lock, faults>>
  BY DEF Create
<1>2. PICK r : Becomes(p, r) /\ r.pc = "step" /\ r.doc = proc[p].doc
  BY <1>1, GotoMoves
<1>3. lock = p /\ svc = NoSvc /\ target = Previous /\ DocTrue(r.doc)
  BY <1>1, <1>2, Mine DEF At, Free, Local
<1>4. Shaped(svc', SvcFields) /\ svc'.dir = "published" /\ svc'.events = <<guard>>
  BY <1>1, NoSvcIs DEF Initial, Shaped, SvcFields
<1>5. IsSeq(<<guard>>) /\ Len(<<guard>>) = 1
  <2>1. <<guard>> \in Seq({guard})
    OBVIOUS
  <2> QED
    BY <2>1 DEF IsSeq
<1>6. ServiceState'
  BY <1>4, <1>5, DirsDiffer DEF ServiceState
<1>7. ~TerminalService(svc) /\ ~ServiceMoved
  BY <1>3, NotBegun
<1> QED
  BY <1>1, <1>2, <1>3, <1>4, <1>6, <1>7, UnfinishedWrite

LEMMA AppendEventStep == ASSUME MaintenanceInv, ServiceFrame, AppendEvent PROVE MaintenanceInv'
<1>1. PICK p \in Procs : /\ At(p, "append") /\ svc' = [svc EXCEPT !.events = Append(@, guard)] /\ Goto(p, "step")
                         /\ UNCHANGED <<World, lock, faults>>
  BY DEF AppendEvent
<1>2. PICK r : Becomes(p, r) /\ r.pc = "step" /\ r.doc = proc[p].doc
  BY <1>1, GotoMoves
<1>3. lock = p /\ svc.dir = "published" /\ Phase < Len(PHASES) /\ DocTrue(r.doc) /\ ServiceState /\ Shaped(svc, SvcFields)
  BY <1>1, <1>2, Mine DEF At, Free, Local, MaintenanceInv, ServiceState
<1>4. PICK s : s = svc'
  OBVIOUS
<1>5. Shaped(s, SvcFields) /\ s.dir = svc.dir /\ s.events = Append(svc.events, guard)
  BY <1>1, <1>3, <1>4 DEF Shaped, SvcFields
<1>6. ServiceState'
  BY <1>3, <1>4, <1>5, EventWritten
<1>7. ~TerminalService(svc) /\ ~ServiceMoved
  BY <1>3, Unfinished
<1> QED
  BY <1>1, <1>2, <1>3, <1>4, <1>5, <1>6, <1>7, UnfinishedWrite

(* A service command that ends and leaves a write behind, whole or not.     *)
LEMMA ServiceLeft ==
    ASSUME MaintenanceInv, ServiceFrame, UNCHANGED World, NEW p \in Procs, Exit(p), lock = p, ServiceState',
           svc' = svc \/ (~TerminalService(svc) /\ ~ServiceMoved)
    PROVE  MaintenanceInv'
<1>1. Becomes(p, Idle)
  BY IdleIs DEF Exit, Becomes
<1> QED
  BY <1>1, IdleIs, NoDocTrue, UnfinishedWrite DEF Free

LEMMA DnsWriteStep == ASSUME MaintenanceInv, ServiceFrame, DnsWrite PROVE MaintenanceInv'
<1>1. PICK p \in Procs : At(p, "dns") /\ svc' = [svc EXCEPT !.dns = proc[p].seen] /\ Exit(p) /\ UNCHANGED <<World, faults>>
  BY DEF DnsWrite
<1>2. lock = p /\ svc.dir = "published" /\ Phase = DECOMMISSIONED /\ ServiceState /\ Shaped(svc, SvcFields)
  BY <1>1, Mine DEF At, Free, Local, MaintenanceInv, ServiceState
<1>3. PICK s : s = svc'
  OBVIOUS
<1>4. Shaped(s, SvcFields) /\ s.dir = svc.dir /\ s.events = svc.events
  BY <1>1, <1>2, <1>3 DEF Shaped, SvcFields
<1>5. ServiceState'
  BY <1>2, <1>3, <1>4, EventWritten
<1>6. Phase < Len(PHASES)
  BY <1>2, Teardown
<1>7. ~TerminalService(svc) /\ ~ServiceMoved
  BY <1>2, <1>6, Unfinished
<1> QED
  BY <1>1, <1>2, <1>5, <1>7, ServiceLeft

LEMMA ServiceCrashStep == ASSUME MaintenanceInv, ServiceFrame, ServiceCrash PROVE MaintenanceInv'
<1>1. PICK p \in Procs : proc[p].pc \in ServiceLabels /\ Exit(p) /\ svc' \in Interrupted(p) /\ UNCHANGED World
  BY DEF ServiceCrash
<1>2. ServiceState /\ Shaped(svc, SvcFields)
  BY DEF MaintenanceInv, ServiceState
<1>3. CASE svc' = svc
  BY <1>1, <1>3, ExitOnly DEF ServiceFrame, Shared, World
<1>4. CASE At(p, "create") /\ svc' # svc
  <2>1. lock = p /\ svc = NoSvc /\ target = Previous
    BY <1>4, Mine DEF At, Free, Local
  <2>2. svc' \in {[svc EXCEPT !.dir = Torn], [Initial(proc[p].seen) EXCEPT !.dir = "pending"]}
    BY <1>1, <1>4 DEF Interrupted, At
  <2>3. ServiceState'
    <3>1. CASE svc' = [svc EXCEPT !.dir = Torn]
      <4>1. Shaped(svc', SvcFields) /\ svc'.dir = Torn /\ svc'.events = <<>>
        BY <2>1, <3>1, NoSvcIs DEF Shaped, SvcFields
      <4> QED
        BY <4>1, NoSvcIs, DirsDiffer DEF ServiceState
    <3>2. CASE svc' = [Initial(proc[p].seen) EXCEPT !.dir = "pending"]
      <4> DEFINE g == proc[p].seen
      <4>1. Shaped(svc', SvcFields) /\ svc'.dir = "pending" /\ svc'.events = <<g>>
        BY <3>2, NoSvcIs DEF Initial, Shaped, SvcFields
      <4>2. IsSeq(<<g>>) /\ Len(<<g>>) = 1
        <5>1. <<g>> \in Seq({g})
          OBVIOUS
        <5> QED
          BY <5>1 DEF IsSeq
      <4> QED
        BY <4>1, <4>2, DirsDiffer DEF ServiceState
    <3> QED
      BY <2>2, <3>1, <3>2
  <2>4. ~TerminalService(svc) /\ ~ServiceMoved
    BY <2>1, NotBegun
  <2> QED
    BY <1>1, <2>1, <2>3, <2>4, ServiceLeft
<1>5. CASE proc[p].pc \in {"append", "dns"} /\ svc' # svc
  <2>1. lock = p /\ svc.dir = "published" /\ Phase < Len(PHASES)
    BY <1>5, Mine, Teardown DEF At, Free, Local
  <2>2. \E f \in {"pend", "dnsPend"} : \E v : svc' = [svc EXCEPT ![f] = v]
    BY <1>1, <1>5 DEF Interrupted, At
  <2>3. PICK s : s = svc'
    OBVIOUS
  <2>4. Shaped(s, SvcFields) /\ s.dir = svc.dir /\ s.events = svc.events
    BY <1>2, <2>2, <2>3 DEF Shaped, SvcFields
  <2>5. ServiceState'
    BY <1>2, <2>1, <2>3, <2>4, EventWritten
  <2>6. ~TerminalService(svc) /\ ~ServiceMoved
    BY <2>1, Unfinished
  <2> QED
    BY <1>1, <2>1, <2>5, <2>6, ServiceLeft
<1>6. CASE proc[p].pc \notin {"create", "append", "dns"}
  BY <1>1, <1>3, <1>6 DEF Interrupted, At
<1> QED
  BY <1>3, <1>4, <1>5, <1>6 DEF At

(* The Host command of a step registers a job from the installed bundle or  *)
(* unregisters it.                                                          *)
LEMMA StepStep == ASSUME MaintenanceInv, ServiceFrame, Step PROVE MaintenanceInv'
<1>1. PICK p \in Procs :
         /\ At(p, "step") /\ Phase < Finished(proc[p].cmd) /\ jobs' = Commanded(Phase)
         /\ running' = [j \in DOMAIN jobs |-> IF jobs'[j] = Absent THEN running[j] ELSE jobs'[j]]
         /\ Goto(p, "append") /\ UNCHANGED <<target, source, guard, svc, lock, faults>>
  BY DEF Step
<1>2. PICK r : Becomes(p, r) /\ r.pc = "append" /\ r.doc = proc[p].doc
  BY <1>1, GotoMoves
<1>3. lock = p /\ svc.dir = "published" /\ DocTrue(r.doc)
  BY <1>1, <1>2, Mine DEF At, Free, Local
<1>4. Phase \in 1..6 /\ Phase < Len(PHASES)
  <2>1. Finished(proc[p].cmd) \in {4, 7} /\ Len(PHASES) = 7
    BY DEF Finished, DECOMMISSIONED, PHASES
  <2>2. Len(svc.events) \in Nat /\ Len(svc.events) >= 1
    BY <1>3, Appended DEF MaintenanceInv, ServiceState
  <2>3. PICK n : n = Phase
    OBVIOUS
  <2>4. n \in Nat /\ n >= 1 /\ n < 7
    BY <1>1, <2>1, <2>2, <2>3 DEF Phase
  <2> QED
    BY <2>1, <2>3, <2>4
<1>5. Machine'
  <2>1. Machine
    BY DEF MaintenanceInv
  <2>2. jobs' = jobs \/ \E j \in JobNames, v \in {Absent, target} : jobs' = [jobs EXCEPT ![j] = v]
    <3>1. Job(Phase) \in JobNames
      BY DEF Job, JobNames
    <3>2. CASE Phase \in {1, 2}
      BY <1>1, <3>1, <3>2 DEF Commanded
    <3>3. CASE Phase \in {4, 5}
      BY <1>1, <3>1, <3>3 DEF Commanded
    <3>4. CASE Phase \in {3, 6}
      BY <1>1, <3>4 DEF Commanded
    <3> QED
      BY <1>4, <3>2, <3>3, <3>4
  <2>3. Shaped(jobs', JobNames) /\ \A j \in JobNames : jobs'[j] \in {Absent, target}
    BY <2>1, <2>2 DEF Machine, JobsRunTheTarget, Shaped
  <2>4. Shaped(running', JobNames) /\ \A j \in JobNames : running'[j] \in {Absent, target}
    BY <1>1, <2>1, <2>3 DEF Machine, JobsRunTheTarget, Shaped
  <2> QED
    BY <1>1, <2>1, <2>3, <2>4 DEF Machine, JobsRunTheTarget, Shaped
<1>6. ServiceState' /\ InstallState'
  BY <1>1 DEF MaintenanceInv, ServiceState, InstallState, DocTrue, Swapped, ServiceFrame
<1>7. RetainedService' = RetainedService /\ RetainedInstall' = RetainedInstall
  BY <1>1 DEF RetainedService, RetainedInstall, ServiceMoved, InstallMoved, ServiceFrame
<1>8. Archived'
  BY <1>1, <1>7 DEF MaintenanceInv, Archived, ServiceMoved, InstallMoved, ServiceFrame
<1>9. Exported'
  BY <1>7 DEF MaintenanceInv, Exported, Good, Verified, ServiceFrame
<1>10. Keeps
  BY <1>1, <1>7 DEF Keeps, Swapped, ServiceFrame
<1>11. PICK c : c = carried[p]
  OBVIOUS
<1>12. DocTrue(r.doc)' /\ Good(c)'
  BY <1>3, <1>10, <1>11, Mine, KeptDoc, KeptGood
<1>13. Phase' = Phase
  BY <1>1 DEF Phase
<1>14. Local(r, c)'
  BY <1>1, <1>2, <1>3, <1>4, <1>12, <1>13 DEF Local, ExportLabels, Becomes
<1>15. Carries(p, c)
  BY <1>11, CarriedSame DEF ServiceFrame
<1>16. Invocations'
  BY <1>1, <1>2, <1>3, <1>10, <1>14, <1>15, OwnerStep
<1> QED
  BY <1>5, <1>6, <1>8, <1>9, <1>16 DEF MaintenanceInv

(* The service transaction keeps the invariant.                             *)
LEMMA ServiceStep == ASSUME MaintenanceInv, ServiceNext, UNCHANGED staging, UNCHANGED retentionVars PROVE MaintenanceInv'
<1>1. ServiceFrame
  BY DEF ServiceNext, ServiceFrame, retentionVars
<1> QED
  BY <1>1, ServiceEnds, BeginServiceStep, DispatchStep, RelockStep, EnterStep, PreflightStep, DnsObserveStep, WorldStep,
     LoadStep, CreateStep, AppendEventStep, DnsWriteStep, ServiceCrashStep, StepStep DEF ServiceNext

-----------------------------------------------------------------------------
(* The installation.                                                        *)

LEMMA InstallEnds ==
    ASSUME MaintenanceInv, UNCHANGED retentionVars,
           LockBusy \/ InstallRefused \/ RecoverRefused \/ RecoverEnds \/ CopyRefused \/ ResumeRefused \/ InstallFails
    PROVE  MaintenanceInv'
<1>1. PICK p \in Procs : Exit(p)
  BY DEF LockBusy, InstallRefused, RecoverRefused, RecoverEnds, CopyRefused, ResumeRefused, InstallFails
<1>2. UNCHANGED Shared /\ UNCHANGED carried
  BY DEF LockBusy, InstallRefused, RecoverRefused, RecoverEnds, CopyRefused, ResumeRefused, InstallFails, Files, retentionVars, Shared
<1> QED
  BY <1>1, <1>2, ExitOnly

LEMMA InstallGates == ASSUME MaintenanceInv, UNCHANGED retentionVars, InstallPreflight \/ RecoverPreflight PROVE MaintenanceInv'
<1>1. PICK p \in Procs, l \in {"install", "recover"} :
         /\ Goto(p, l) \/ \E g : proc' = [proc EXCEPT ![p].pc = l, ![p].seen = g]
         /\ UNCHANGED <<Files, journal, pending, lock, faults>>
  BY DEF InstallPreflight, RecoverPreflight
<1>2. PICK r : Becomes(p, r) /\ r.pc = l /\ r.doc = proc[p].doc
  BY <1>1, GotoMoves, SeenMoves
<1>3. Local(r, carried[p])
  BY <1>2, Mine, FreeLocal DEF Free, Becomes
<1>4. UNCHANGED Shared /\ Carries(p, carried[p])
  BY <1>1, CarriedSame DEF retentionVars, Shared, Files
<1> QED
  BY <1>1, <1>2, <1>3, <1>4, OnlyStep DEF Free

(* A step that prepares the next revision of the installation journal.      *)
LEMMA NextRevision ==
    ASSUME MaintenanceInv, UNCHANGED retentionVars, NEW p \in Procs, NEW d, WriteNext(p, d), DocTrue(d), Decommissioned,
           journal.phase # "installed", UNCHANGED <<Files, journal, pending>>, lock \in {p, Nobody}, lock' = p
    PROVE  MaintenanceInv'
<1>1. PICK r : Becomes(p, r) /\ r.pc = "write" /\ r.doc = d
  BY WriteMoves DEF WriteNext
<1>2. Local(r, carried[p])
  BY <1>1, Mine DEF Local, ExportLabels, Becomes
<1>3. UNCHANGED Shared /\ Carries(p, carried[p])
  BY CarriedSame DEF retentionVars, Shared, Files
<1> QED
  BY <1>1, <1>2, <1>3, OnlyStep

LEMMA InstallOpenStep == ASSUME MaintenanceInv, UNCHANGED retentionVars, InstallOpen PROVE MaintenanceInv'
<1>1. PICK p \in Procs : /\ lock = Nobody /\ InstallAdmitted /\ lock' = p /\ UNCHANGED <<Files, journal, pending, faults>>
                         /\ WriteNext(p, [phase |-> "prepared", segments |-> 1, guard |-> guard])
  BY DEF InstallOpen
<1> DEFINE d == [phase |-> "prepared", segments |-> 1, guard |-> guard]
<1>2. DocTrue(d)
  BY DEF DocTrue, Shaped, DocFields
<1>3. Decommissioned /\ journal.phase # "installed"
  BY <1>1, IdleIs DEF InstallAdmitted, PeekNone
<1> QED
  BY <1>1, <1>2, <1>3, NextRevision

(* A revision of the journal changes its phase or its segments only.        *)
LEMMA Revised ==
    ASSUME MaintenanceInv, NEW v
    PROVE  /\ v \notin {"swapped", "installed"} \/ Swapped => DocTrue([journal EXCEPT !.phase = v])
           /\ DocTrue([journal EXCEPT !.segments = v])
<1>1. Shaped(journal, DocFields) /\ DocTrue(journal)
  BY DEF MaintenanceInv, InstallState, DocTrue
<1> DEFINE a == [journal EXCEPT !.phase = v]
           b == [journal EXCEPT !.segments = v]
<1>2. Shaped(a, DocFields) /\ a.phase = v /\ Shaped(b, DocFields) /\ b.phase = journal.phase
  BY <1>1 DEF Shaped, DocFields
<1> QED
  BY <1>1, <1>2 DEF DocTrue

LEMMA RevisionSteps ==
    ASSUME MaintenanceInv, UNCHANGED retentionVars, RecoverSegment \/ RecordStaged \/ RecordSwapped \/ RecordInstalled
    PROVE  MaintenanceInv'
<1>1. PICK p \in Procs :
         /\ proc[p].pc \in {"reopened", "stage", "resume"} /\ journal.phase # "installed"
         /\ \/ WriteNext(p, [journal EXCEPT !.segments = @ + 1]) \/ WriteNext(p, [journal EXCEPT !.phase = "staged"])
            \/ Swapped /\ \E v \in {"swapped", "installed"} : WriteNext(p, [journal EXCEPT !.phase = v])
         /\ UNCHANGED <<Files, journal, pending, lock, faults>>
  BY Mine DEF RecoverSegment, RecordStaged, RecordSwapped, RecordInstalled, SegmentAdmitted, At, InPhase, Local
<1>2. PICK d : WriteNext(p, d) /\ DocTrue(d)
  BY <1>1, Revised
<1>3. lock = p /\ Decommissioned
  BY <1>1, Mine DEF Free, Local
<1> QED
  BY <1>1, <1>2, <1>3, NextRevision

LEMMA EnterPreparedStep == ASSUME MaintenanceInv, UNCHANGED retentionVars, EnterPrepared PROVE MaintenanceInv'
<1>1. PICK p \in Procs : proc[p].pc = "resume" /\ Goto(p, "stage") /\ UNCHANGED <<Files, journal, pending, lock, faults>>
  BY DEF EnterPrepared, InPhase, At
<1>2. PICK r : Becomes(p, r) /\ r.pc = "stage" /\ r.doc = proc[p].doc
  BY <1>1, GotoMoves
<1>3. lock = p /\ Decommissioned /\ journal.phase # "installed"
  BY <1>1, Mine DEF Free, Local
<1>4. Local(r, carried[p])
  BY <1>2, <1>3, Mine DEF Local, ExportLabels, Becomes
<1>5. UNCHANGED Shared /\ Carries(p, carried[p])
  BY <1>1, CarriedSame DEF retentionVars, Shared, Files
<1> QED
  BY <1>1, <1>2, <1>3, <1>4, <1>5, OnlyStep

(* Between a teardown and the next registration nothing is terminal, moved  *)
(* or exported.                                                             *)
LEMMA NothingRetained ==
    ASSUME MaintenanceInv, Decommissioned
    PROVE  ~ServiceMoved /\ ~InstallMoved /\ ~TerminalPair(RetainedService, RetainedInstall)
<1>1. svc.dir = "published" /\ Phase = DECOMMISSIONED
  BY DEF Decommissioned, TeardownInventory
<1>2. ~TerminalService(svc) /\ ~ServiceMoved
  BY <1>1, Teardown, Unfinished
<1>3. ~InstallMoved
  BY <1>2 DEF MaintenanceInv, Archived
<1> QED
  BY <1>2, <1>3 DEF TerminalPair, RetainedService

(* What the holder of the lock does to the bundles and to the installation  *)
(* journal in that time.                                                    *)
LEMMA InstallWrite ==
    ASSUME MaintenanceInv, UNCHANGED retentionVars, UNCHANGED svc, NEW p \in Procs, NEW r, Becomes(p, r), lock \in {p, Nobody},
           Decommissioned, Machine', InstallState', Swapped => Swapped', r.pc \notin Free => lock' = p,
           DocTrue(r.doc)', r.pc \in {"idle", "reopened", "resume", "stage"},
           r.pc \in {"resume", "stage"} => journal'.phase # "installed"
    PROVE  MaintenanceInv'
<1>1. ~ServiceMoved /\ ~InstallMoved /\ ~TerminalPair(RetainedService, RetainedInstall)
  BY NothingRetained
<1>2. Keeps
  BY <1>1 DEF Keeps
<1>3. ServiceState'
  BY DEF MaintenanceInv, ServiceState
<1>4. Archived'
  BY <1>1 DEF MaintenanceInv, Archived, ServiceMoved, InstallMoved, retentionVars
<1>5. Exported'
  <2>1. \A f \in ExportFields : Good(export[f])'
    BY <1>1 DEF MaintenanceInv, Exported, Good, retentionVars
  <2> QED
    BY <2>1 DEF MaintenanceInv, Exported, Verified, retentionVars
<1>6. PICK c : c = carried[p]
  OBVIOUS
<1>7. Good(c)' /\ Carries(p, c)
  BY <1>2, <1>6, Mine, KeptGood, CarriedSame DEF retentionVars
<1>8. Decommissioned'
  BY DEF Decommissioned, TeardownInventory, Phase
<1>9. Local(r, c)'
  BY <1>7, <1>8 DEF Local, ExportLabels, Becomes
<1>10. Invocations'
  BY <1>2, <1>7, <1>9, OwnerStep
<1> QED
  BY <1>3, <1>4, <1>5, <1>10 DEF MaintenanceInv

LEMMA RecoverOpenStep == ASSUME MaintenanceInv, UNCHANGED retentionVars, RecoverOpen PROVE MaintenanceInv'
<1>1. PICK p \in Procs : /\ lock = Nobody /\ RecoverAdmitted(p) /\ lock' = p /\ journal' = Selected /\ pending' = NoDoc
                         /\ Goto(p, "reopened") /\ UNCHANGED <<Files, faults>>
  BY DEF RecoverOpen
<1>2. PICK r : Becomes(p, r) /\ r.pc = "reopened" /\ r.doc = proc[p].doc
  BY <1>1, GotoMoves
<1>3. Decommissioned
  BY <1>1 DEF RecoverAdmitted
<1>4. Swapped' = Swapped /\ Machine'
  BY <1>1 DEF Swapped, MaintenanceInv, Machine, JobsRunTheTarget, Files
<1>5. DocTrue(journal') /\ DocTrue(NoDoc) /\ DocTrue(r.doc)
  BY <1>1, <1>2, Mine, NoDocTrue DEF Selected, MaintenanceInv, InstallState
<1>6. InstallState' /\ DocTrue(r.doc)'
  BY <1>1, <1>4, <1>5 DEF MaintenanceInv, InstallState, DocTrue, Files
<1> QED
  BY <1>1, <1>2, <1>3, <1>4, <1>6, InstallWrite DEF Files

LEMMA WriteStep == ASSUME MaintenanceInv, UNCHANGED retentionVars, Write PROVE MaintenanceInv'
<1>1. PICK p \in Procs :
         /\ At(p, "write") /\ pending = NoDoc /\ journal' = proc[p].doc /\ UNCHANGED <<Files, pending, faults>>
         /\ IF proc[p].doc.phase = "installed" THEN Exit(p)
            ELSE proc' = [proc EXCEPT ![p].pc = "resume", ![p].doc = NoDoc] /\ UNCHANGED lock
  BY DEF Write
<1>2. lock = p /\ Decommissioned /\ DocTrue(proc[p].doc)
  BY <1>1, Mine DEF Free, Local, At
<1>3. Swapped' = Swapped /\ Machine'
  BY <1>1 DEF Swapped, MaintenanceInv, Machine, JobsRunTheTarget, Files
<1>4. InstallState' /\ DocTrue(NoDoc)'
  BY <1>1, <1>2, <1>3, NoDocTrue DEF MaintenanceInv, InstallState, DocTrue, Files
<1>5. CASE proc[p].doc.phase = "installed"
  <2>1. Becomes(p, Idle)
    BY <1>1, <1>5, IdleIs DEF Exit, Becomes
  <2> QED
    BY <1>1, <1>2, <1>3, <1>4, <2>1, IdleIs, InstallWrite DEF Files, Free
<1>6. CASE proc[p].doc.phase # "installed"
  <2> DEFINE r == [proc[p] EXCEPT !.pc = "resume", !.doc = NoDoc]
  <2>1. Shaped(proc[p], ProcFields)
    BY Mine DEF Local
  <2>2. Shaped(r, ProcFields) /\ r.pc = "resume" /\ r.doc = NoDoc
    BY <2>1 DEF Shaped, ProcFields
  <2>3. Becomes(p, r)
    BY <1>1, <1>6, <2>2 DEF Becomes, MaintenanceInv, Invocations, Shaped
  <2>4. PICK x : x = r
    OBVIOUS
  <2> HIDE DEF r
  <2>5. DocTrue(x.doc)'
    BY <1>4, <2>2, <2>4
  <2> QED
    BY <1>1, <1>2, <1>3, <1>4, <1>6, <2>2, <2>3, <2>4, <2>5, InstallWrite DEF Files
<1> QED
  BY <1>5, <1>6

(* The bundle is staged; its copy is published only where nothing stands.   *)
LEMMA StagingSteps ==
    ASSUME MaintenanceInv, UNCHANGED retentionVars, MakeContainer \/ RemovePartial \/ CopyCandidate \/ PublishStagedPayload
    PROVE  MaintenanceInv'
<1>1. PICK p \in Procs :
         /\ proc[p].pc = "stage" /\ StagingOnly
         /\ \/ \E f \in {"container", "partial"} : \E v : staging' = [staging EXCEPT ![f] = v]
            \/ staging.payload = Absent /\ staging' = [staging EXCEPT !.partial = Absent, !.payload = Candidate]
  BY DEF MakeContainer, RemovePartial, CopyCandidate, PublishStagedPayload, At
<1>2. lock = p /\ Decommissioned /\ journal.phase # "installed"
  BY <1>1, Mine DEF Free, Local
<1>3. InstallState /\ Shaped(staging, StagingFields)
  BY DEF MaintenanceInv, InstallState
<1>4. /\ Shaped(staging', StagingFields) /\ Previous \in {target, staging'.payload}
      /\ staging'.payload = staging.payload \/ staging.payload = Absent
  BY <1>1, <1>3, InstallAssumption DEF InstallState, Shaped, StagingFields, Bundles
<1>5. Swapped => Swapped'
  BY <1>1, <1>4, InstallAssumption DEF Swapped, StagingOnly, Bundles
<1>6. Machine'
  BY <1>1 DEF MaintenanceInv, Machine, JobsRunTheTarget, StagingOnly
<1>7. InstallState'
  BY <1>1, <1>3, <1>4, <1>5 DEF InstallState, DocTrue, StagingOnly
<1>8. PICK r : r = proc[p]
  OBVIOUS
<1>9. Becomes(p, r) /\ DocTrue(r.doc)
  BY <1>1, <1>8, Mine DEF Becomes, StagingOnly, MaintenanceInv, Invocations, Shaped, Local
<1>10. DocTrue(r.doc)'
  BY <1>5, <1>9 DEF DocTrue
<1>11. lock' = lock /\ svc' = svc /\ journal' = journal
  BY <1>1 DEF StagingOnly
<1> QED
  BY <1>1, <1>2, <1>5, <1>6, <1>7, <1>8, <1>9, <1>10, <1>11, InstallWrite

(* The exchange: no job is registered and no process runs, and neither      *)
(* bundle is lost.                                                          *)
LEMMA SwapStep == ASSUME MaintenanceInv, UNCHANGED retentionVars, Swap PROVE MaintenanceInv'
<1>1. PICK p \in Procs :
         /\ proc[p].pc = "resume" /\ journal.phase = "staged" /\ Unswapped /\ Dormant
         /\ target' = Candidate /\ staging' = [staging EXCEPT !.payload = Previous]
         /\ UNCHANGED <<source, jobs, running, guard, svc, journal, pending, lock, proc, faults>>
  BY DEF Swap, InPhase, At, DormantAt
<1>2. lock = p /\ Decommissioned
  BY <1>1, Mine DEF Free, Local
<1>3. InstallState /\ Shaped(staging, StagingFields)
  BY DEF MaintenanceInv, InstallState
<1>4. Shaped(staging', StagingFields) /\ staging'.payload = Previous /\ Swapped'
  BY <1>1, <1>3 DEF Shaped, StagingFields, Swapped
<1>5. Machine'
  <2>1. \A j \in JobNames : jobs[j] = Absent /\ running[j] = Absent
    BY <1>1 DEF Dormant, ServiceAbsent, ProcessAbsent, MaintenanceInv, Machine, Shaped
  <2>2. Shaped(jobs, JobNames) /\ Shaped(running, JobNames)
    BY DEF MaintenanceInv, Machine
  <2>3. DOMAIN jobs = JobNames
    BY <2>2 DEF Shaped
  <2> QED
    BY <1>1, <2>1, <2>2, <2>3 DEF Machine, JobsRunTheTarget, Bundles
<1>6. InstallState'
  BY <1>1, <1>3, <1>4 DEF InstallState, DocTrue
<1>7. PICK r : r = proc[p]
  OBVIOUS
<1>8. Becomes(p, r) /\ DocTrue(r.doc)
  BY <1>1, <1>7, Mine DEF Becomes, MaintenanceInv, Invocations, Shaped, Local
<1>9. DocTrue(r.doc)'
  BY <1>4, <1>8 DEF DocTrue
<1> QED
  BY <1>1, <1>2, <1>4, <1>5, <1>6, <1>7, <1>8, <1>9, InstallWrite

LEMMA InstallCrashStep == ASSUME MaintenanceInv, UNCHANGED retentionVars, InstallCrash PROVE MaintenanceInv'
<1>1. PICK p \in Procs :
         /\ proc[p].pc \in InstallLabels /\ Exit(p)
         /\ pending' \in {pending} \cup (IF At(p, "write") THEN {TornDoc, proc[p].doc} ELSE {})
         /\ \/ UNCHANGED staging
            \/ At(p, "stage") /\ staging' = [staging EXCEPT !.partial = Torn]
         /\ UNCHANGED <<target, source, jobs, running, guard, svc, journal>>
  BY DEF InstallCrash
<1>2. CASE UNCHANGED <<pending, staging>>
  BY <1>1, <1>2, ExitOnly DEF Shared, retentionVars
<1>3. CASE ~UNCHANGED <<pending, staging>>
  <2>1. proc[p].pc \in {"write", "stage"}
    BY <1>1, <1>3 DEF At
  <2>2. lock = p /\ Decommissioned /\ journal.phase # "installed" /\ DocTrue(proc[p].doc)
    BY <2>1, Mine DEF Free, Local
  <2>3. InstallState /\ Shaped(staging, StagingFields)
    BY DEF MaintenanceInv, InstallState
  <2>4. Shaped(staging', StagingFields) /\ staging'.payload = staging.payload
    BY <1>1, <2>3 DEF Shaped, StagingFields
  <2>5. Swapped' = Swapped /\ Machine'
    BY <1>1, <2>4 DEF Swapped, MaintenanceInv, Machine, JobsRunTheTarget
  <2>6. DocTrue(TornDoc)
    BY IdleIs DEF DocTrue, TornDoc, Torn, Shaped, DocFields
  <2>7. DocTrue(pending')
    BY <1>1, <2>2, <2>3, <2>6 DEF InstallState
  <2>8. InstallState' /\ DocTrue(NoDoc)'
    BY <1>1, <2>2, <2>3, <2>4, <2>5, <2>7, NoDocTrue DEF InstallState, DocTrue
  <2>9. Becomes(p, Idle)
    BY <1>1, IdleIs DEF Exit, Becomes
  <2> QED
    BY <1>1, <2>2, <2>5, <2>8, <2>9, IdleIs, InstallWrite DEF Free
<1> QED
  BY <1>2, <1>3

(* The installation keeps the invariant.                                    *)
LEMMA InstallStep == ASSUME MaintenanceInv, InstallNext, UNCHANGED retentionVars PROVE MaintenanceInv'
  BY InstallEnds, InstallGates, InstallOpenStep, RevisionSteps, EnterPreparedStep, RecoverOpenStep, WriteStep, StagingSteps,
     SwapStep, InstallCrashStep DEF InstallNext

-----------------------------------------------------------------------------
(* The export and the history.                                              *)

LEMMA ExportEnds ==
    ASSUME MaintenanceInv, IntentExists \/ RecoverExportRefused \/ ContainerRefused \/ VerifyExport
    PROVE  MaintenanceInv'
<1>1. PICK p \in Procs : Leave(p)
  BY DEF IntentExists, RecoverExportRefused, ContainerRefused, VerifyExport
<1>2. UNCHANGED Shared
  BY DEF IntentExists, RecoverExportRefused, ContainerRefused, VerifyExport, RetentionOnly, Shared
<1> QED
  BY <1>1, <1>2, ExitOnly DEF Leave

LEMMA IntentIs ==
    ASSUME NEW i, NEW s, NEW d
    PROVE  LET r == Intent(i, s, d) IN r.whole /\ r.svc = s /\ r.install = d /\ r # NoRecord
  BY DEF Intent, NoRecord

(* Live terminal journals are the retained ones.                            *)
LEMMA LiveRetained ==
    ASSUME MaintenanceInv, TerminalService(svc)
    PROVE  RetainedService = svc /\ RetainedInstall = journal
<1>1. svc # NoSvc
  BY NoSvcIs, DirsDiffer DEF TerminalService
<1> QED
  BY <1>1 DEF MaintenanceInv, Archived, RetainedService, RetainedInstall

LEMMA ExportBeginStep == ASSUME MaintenanceInv, ExportBegin PROVE MaintenanceInv'
<1>1. PICK p \in Procs : /\ SourceAdmitted /\ lock' = p /\ Goto(p, "x.intent") /\ Carry(p, Intent(p, svc, journal))
                         /\ RetentionOnly /\ UNCHANGED <<faults, export, history>>
  BY DEF ExportBegin
<1>2. PICK r : Becomes(p, r) /\ r.pc = "x.intent" /\ r.doc = proc[p].doc
  BY <1>1, GotoMoves
<1> DEFINE c == Intent(p, svc, journal)
<1>3. TerminalPair(svc, journal) /\ RetainedService = svc /\ RetainedInstall = journal /\ lock = Nobody
  BY <1>1, LiveRetained DEF SourceAdmitted, TerminalPair
<1>4. c.whole /\ Good(c)
  BY <1>3, IntentIs DEF Good
<1>5. Local(r, c)
  BY <1>2, <1>4, Mine DEF Local, ExportLabels, Becomes
<1>6. UNCHANGED Shared /\ Carries(p, c)
  BY <1>1 DEF RetentionOnly, Shared, Carry, Carries
<1>7. PICK y : y = c
  OBVIOUS
<1> HIDE DEF c
<1> QED
  BY <1>1, <1>2, <1>3, <1>5, <1>6, <1>7, OnlyStep

LEMMA RecoverExportStep == ASSUME MaintenanceInv, RecoverExport PROVE MaintenanceInv'
<1>1. PICK p \in Procs : /\ ExternalReadable /\ Goto(p, "x.relock") /\ Carry(p, ExternalIntent)
                         /\ RetentionOnly /\ UNCHANGED <<lock, faults, export, history>>
  BY DEF RecoverExport
<1>2. PICK r : Becomes(p, r) /\ r.pc = "x.relock" /\ r.doc = proc[p].doc
  BY <1>1, GotoMoves
<1>3. ExternalIntent.whole /\ Good(ExternalIntent)
  BY <1>1 DEF ExternalReadable, ExternalIntent, MaintenanceInv, Exported, ExportFields
<1>4. PICK c : c = ExternalIntent
  OBVIOUS
<1>5. Local(r, c)
  BY <1>2, <1>3, <1>4, Mine, FreeLocal DEF Free, Becomes
<1>6. UNCHANGED Shared /\ Carries(p, c)
  BY <1>1, <1>4 DEF RetentionOnly, Shared, Carry, Carries
<1> QED
  BY <1>1, <1>2, <1>5, <1>6, OnlyStep DEF Free

LEMMA RecoverLockedStep == ASSUME MaintenanceInv, RecoverLocked PROVE MaintenanceInv'
<1>1. PICK p \in Procs : /\ proc[p].pc = "x.relock" /\ lock = Nobody /\ lock' = p /\ Goto(p, "x.promote")
                         /\ RetentionOnly /\ UNCHANGED retentionVars
  BY DEF RecoverLocked, SourceAdmitted, At
<1>2. PICK r : Becomes(p, r) /\ r.pc = "x.promote" /\ r.doc = proc[p].doc
  BY <1>1, GotoMoves
<1>3. Local(r, carried[p])
  BY <1>1, <1>2, Mine DEF Local, ExportLabels, Becomes
<1>4. UNCHANGED Shared /\ Carries(p, carried[p])
  BY <1>1, CarriedSame DEF RetentionOnly, Shared, retentionVars
<1> QED
  BY <1>1, <1>2, <1>3, <1>4, OnlyStep

LEMMA ContainerExistsStep == ASSUME MaintenanceInv, ContainerExists PROVE MaintenanceInv'
<1>1. PICK p \in Procs : /\ proc[p].pc = "x.container" /\ Goto(p, "x.verify") /\ RetentionOnly /\ UNCHANGED <<lock, retentionVars>>
  BY DEF ContainerExists, At
<1>2. PICK r : Becomes(p, r) /\ r.pc = "x.verify" /\ r.doc = proc[p].doc
  BY <1>1, GotoMoves
<1>3. Local(r, carried[p]) /\ lock = p
  BY <1>1, <1>2, Mine DEF Local, ExportLabels, Becomes, Free
<1>4. UNCHANGED Shared /\ Carries(p, carried[p])
  BY <1>1, CarriedSame DEF RetentionOnly, Shared, retentionVars
<1> QED
  BY <1>1, <1>2, <1>3, <1>4, OnlyStep

LEMMA ArchiveBeginStep == ASSUME MaintenanceInv, ArchiveBegin PROVE MaintenanceInv'
<1>1. PICK p \in Procs : /\ lock = Nobody /\ lock' = p /\ ArchiveAdmitted /\ Goto(p, "h.move")
                         /\ RetentionOnly /\ UNCHANGED retentionVars
  BY DEF ArchiveBegin
<1>2. PICK r : Becomes(p, r) /\ r.pc = "h.move" /\ r.doc = proc[p].doc
  BY <1>1, GotoMoves
<1>3. TerminalPair(RetainedService, RetainedInstall) /\ target = Candidate /\ history.intent \in {NoRecord, HistoryIntent}
  BY <1>1 DEF ArchiveAdmitted, ArchivedInstalled, HistoryBound
<1>4. Local(r, carried[p])
  BY <1>2, <1>3, Mine DEF Local, ExportLabels, Becomes
<1>5. UNCHANGED Shared /\ Carries(p, carried[p])
  BY <1>1, CarriedSame DEF RetentionOnly, Shared, retentionVars
<1> QED
  BY <1>1, <1>2, <1>4, <1>5, OnlyStep

(* A write of the holder of the lock that keeps what is retained.           *)
LEMMA RetainStep ==
    ASSUME MaintenanceInv, NEW p \in Procs, NEW r, NEW c, Becomes(p, r), Carries(p, c), lock = p, r.pc \notin Free => lock' = p,
           UNCHANGED <<target, jobs, running, staging>>, ServiceState', InstallState', Archived', Exported', Local(r, c)',
           RetainedService' = RetainedService, RetainedInstall' = RetainedInstall
    PROVE  MaintenanceInv'
<1>1. Machine'
  BY DEF MaintenanceInv, Machine, JobsRunTheTarget
<1>2. Keeps
  BY DEF Keeps, Swapped
<1>3. Invocations'
  BY <1>2, OwnerStep
<1> QED
  BY <1>1, <1>3 DEF MaintenanceInv

(* A write of the export.                                                   *)
LEMMA ExportWrite ==
    ASSUME MaintenanceInv, NEW p \in Procs, NEW r, NEW c, Becomes(p, r), Carries(p, c), lock = p, r.pc \notin Free => lock' = p,
           RetentionOnly, UNCHANGED history, Shaped(export', ExportFields), \A f \in ExportFields : Good(export'[f]),
           export'.dest # NoRecord => Verified', DocTrue(r.doc), Good(c), r.pc \in {"idle", "x.container", "x.verify"},
           r.pc \in ExportLabels => c.whole,
           r.pc = "x.container" => export'.intentPend = NoRecord /\ export'.intent = c
    PROVE  MaintenanceInv'
<1>1. RetainedService' = RetainedService /\ RetainedInstall' = RetainedInstall
  BY DEF RetainedService, RetainedInstall, ServiceMoved, InstallMoved, RetentionOnly
<1>2. ServiceState' /\ InstallState'
  BY DEF MaintenanceInv, ServiceState, InstallState, DocTrue, Swapped, RetentionOnly
<1>3. Archived'
  BY <1>1 DEF MaintenanceInv, Archived, ServiceMoved, InstallMoved, RetentionOnly
<1>4. Exported'
  BY <1>1 DEF Exported, Good
<1>5. DocTrue(r.doc)' /\ Good(c)'
  BY <1>1 DEF DocTrue, Swapped, Good, RetentionOnly
<1>6. Local(r, c)'
  BY <1>5 DEF Local, ExportLabels, Becomes
<1> QED
  BY <1>1, <1>2, <1>3, <1>4, <1>6, RetainStep DEF RetentionOnly

LEMMA PublishIntentStep == ASSUME MaintenanceInv, PublishIntent PROVE MaintenanceInv'
<1>1. PICK p \in Procs : /\ proc[p].pc = "x.intent" /\ IntentAbsent /\ export' = [export EXCEPT !.intent = carried[p]]
                         /\ Goto(p, "x.container") /\ RetentionOnly /\ UNCHANGED <<lock, faults, history, carried>>
  BY DEF PublishIntent, At
<1>2. PICK r : Becomes(p, r) /\ r.pc = "x.container" /\ r.doc = proc[p].doc
  BY <1>1, GotoMoves
<1>3. PICK c : c = carried[p]
  OBVIOUS
<1>4. lock = p /\ c.whole /\ Good(c) /\ DocTrue(r.doc) /\ Carries(p, c)
  BY <1>1, <1>2, <1>3, Mine, CarriedSame DEF Free, Local, ExportLabels
<1>5. Exported
  BY DEF MaintenanceInv
<1>6. /\ Shaped(export', ExportFields) /\ export'.intent = c /\ export'.intentPend = NoRecord
      /\ export'.pend = export.pend /\ export'.dest = export.dest
  BY <1>1, <1>3, <1>5 DEF Exported, Shaped, ExportFields, IntentAbsent
<1>7. \A f \in ExportFields : Good(export'[f])
  BY <1>4, <1>5, <1>6, NoRecordGood DEF Exported, ExportFields
<1>8. export.dest = NoRecord
  <2>1. ~NoRecord.whole
    BY DEF NoRecord
  <2> QED
    BY <1>1, <1>5, <2>1 DEF Exported, Verified, IntentAbsent
<1> QED
  BY <1>1, <1>2, <1>4, <1>6, <1>7, <1>8, ExportWrite

LEMMA PromoteStep == ASSUME MaintenanceInv, PromoteIntent PROVE MaintenanceInv'
<1>1. PICK p \in Procs :
         /\ proc[p].pc = "x.promote" /\ export' = Promoted /\ RetentionOnly /\ UNCHANGED <<faults, history>>
         /\ IF Promoted.intent = carried[p] THEN Goto(p, "x.container") /\ UNCHANGED <<lock, carried>> ELSE Leave(p)
  BY DEF PromoteIntent, At
<1>2. lock = p /\ carried[p].whole /\ Good(carried[p]) /\ DocTrue(proc[p].doc)
  BY <1>1, Mine DEF Free, Local, ExportLabels
<1>3. Exported
  BY DEF MaintenanceInv
<1>4. /\ Shaped(export', ExportFields) /\ export'.intentPend = NoRecord
      /\ export'.intent \in {export.intent, export.intentPend} /\ export'.pend = export.pend /\ export'.dest = export.dest
      /\ export.intentPend = NoRecord => export' = export
  BY <1>1, <1>3 DEF Promoted, Exported, Shaped, ExportFields
<1>5. \A f \in ExportFields : Good(export'[f])
  BY <1>3, <1>4, NoRecordGood DEF Exported, ExportFields
<1>6. export'.dest # NoRecord => Verified'
  BY <1>3, <1>4 DEF Exported, Verified
<1>7. CASE Promoted.intent = carried[p]
  <2>1. PICK r : Becomes(p, r) /\ r.pc = "x.container" /\ r.doc = proc[p].doc
    BY <1>1, <1>7, GotoMoves
  <2>2. PICK c : c = carried[p]
    OBVIOUS
  <2>3. Carries(p, c) /\ lock' = p
    BY <1>1, <1>2, <1>7, <2>2, CarriedSame
  <2> QED
    BY <1>1, <1>2, <1>4, <1>5, <1>6, <1>7, <2>1, <2>2, <2>3, ExportWrite
<1>8. CASE Promoted.intent # carried[p]
  <2>1. Becomes(p, Idle) /\ Carries(p, NoRecord)
    BY <1>1, <1>8, IdleIs DEF Leave, Exit, Carry, Carries, Becomes
  <2>2. Idle.pc = "idle" /\ DocTrue(Idle.doc)
    BY IdleIs, NoDocTrue
  <2>3. PICK x : x = Idle
    OBVIOUS
  <2>4. x.pc \notin ExportLabels /\ x.pc \in Free
    BY <2>2, <2>3 DEF ExportLabels, Free
  <2> QED
    BY <1>1, <1>2, <1>4, <1>5, <1>6, <2>1, <2>2, <2>3, <2>4, NoRecordGood, ExportWrite
<1> QED
  BY <1>7, <1>8

LEMMA ContainerSteps == ASSUME MaintenanceInv, WriteContainer \/ PublishContainer PROVE MaintenanceInv'
<1>1. PICK p \in Procs :
         /\ proc[p].pc = "x.container" /\ export.dest = NoRecord /\ RetentionOnly /\ UNCHANGED <<lock, faults, history, carried>>
         /\ \/ export' = [export EXCEPT !.pend = carried[p]] /\ UNCHANGED proc
            \/ export.pend = carried[p] /\ export' = [export EXCEPT !.dest = export.pend, !.pend = NoRecord] /\ Goto(p, "x.verify")
  BY DEF WriteContainer, PublishContainer, At, PendingWhole
<1>2. PICK c : c = carried[p]
  OBVIOUS
<1>3. /\ lock = p /\ c.whole /\ Good(c) /\ DocTrue(proc[p].doc) /\ export.intentPend = NoRecord /\ export.intent = c /\ Carries(p, c)
  BY <1>1, <1>2, Mine, CarriedSame DEF Free, Local, ExportLabels
<1>4. Exported
  BY DEF MaintenanceInv
<1>5. CASE export' = [export EXCEPT !.pend = carried[p]] /\ UNCHANGED proc
  <2>1. /\ Shaped(export', ExportFields) /\ export'.pend = c /\ export'.dest = export.dest /\ export'.intent = export.intent
        /\ export'.intentPend = export.intentPend
    BY <1>2, <1>4, <1>5 DEF Exported, Shaped, ExportFields
  <2>2. \A f \in ExportFields : Good(export'[f])
    BY <1>3, <1>4, <2>1 DEF Exported, ExportFields
  <2>3. PICK r : r = proc[p]
    OBVIOUS
  <2>4. Becomes(p, r)
    BY <1>5, <2>3, Mine DEF Becomes, MaintenanceInv, Invocations, Shaped, Local
  <2> QED
    BY <1>1, <1>2, <1>3, <2>1, <2>2, <2>3, <2>4, ExportWrite
<1>6. CASE export.pend = carried[p] /\ export' = [export EXCEPT !.dest = export.pend, !.pend = NoRecord] /\ Goto(p, "x.verify")
  <2>1. /\ Shaped(export', ExportFields) /\ export'.pend = NoRecord /\ export'.dest = c /\ export'.intent = c
        /\ export'.intentPend = NoRecord
    BY <1>2, <1>3, <1>4, <1>6 DEF Exported, Shaped, ExportFields
  <2>2. \A f \in ExportFields : Good(export'[f])
    BY <1>3, <1>4, <2>1, NoRecordGood DEF Exported, ExportFields
  <2>3. Verified'
    BY <1>3, <2>1 DEF Verified
  <2>4. PICK r : Becomes(p, r) /\ r.pc = "x.verify" /\ r.doc = proc[p].doc
    BY <1>6, GotoMoves
  <2> QED
    BY <1>1, <1>2, <1>3, <2>1, <2>2, <2>3, <2>4, ExportWrite
<1> QED
  BY <1>1, <1>5, <1>6

LEMMA ExportInterruptedStep == ASSUME MaintenanceInv, ExportInterrupted PROVE MaintenanceInv'
<1>1. PICK p \in Procs : /\ proc[p].pc \in ExportLabels /\ Leave(p) /\ export' \in ExportLeft(p)
                         /\ RetentionOnly /\ UNCHANGED history
  BY DEF ExportInterrupted
<1>2. CASE export' = export
  BY <1>1, <1>2, ExitOnly DEF Leave, Shared, RetentionOnly
<1>3. CASE export' # export
  <2>1. Exported
    BY DEF MaintenanceInv
  <2>2. PICK v : /\ v \in {carried[p], TornRecord(p), TornRecord(carried[p].id)} /\ export.dest = NoRecord
                 /\ \E f \in {"intent", "intentPend", "pend"} : export' = [export EXCEPT ![f] = v]
                 /\ proc[p].pc \in {"x.intent", "x.container"}
    <3>1. CASE At(p, "x.intent") /\ IntentAbsent
      <4>1. export' \in {export, [export EXCEPT !.intent = carried[p]]}
                          \cup {[export EXCEPT !.intentPend = r] : r \in {carried[p], TornRecord(p)}}
        BY <1>1, <3>1 DEF ExportLeft, At
      <4>2. export.dest = NoRecord
        <5>1. ~NoRecord.whole
          BY DEF NoRecord
        <5> QED
          BY <2>1, <3>1, <5>1 DEF Exported, Verified, IntentAbsent
      <4> QED
        BY <1>3, <3>1, <4>1, <4>2 DEF At
    <3>2. CASE At(p, "x.container") /\ export.pend = NoRecord /\ export.dest = NoRecord
      <4>1. export' \in {export} \cup {[export EXCEPT !.pend = r] : r \in {carried[p], TornRecord(carried[p].id)}}
        BY <1>1, <3>2 DEF ExportLeft, At
      <4> QED
        BY <1>3, <3>2, <4>1 DEF At
    <3> QED
      BY <1>1, <1>3, <3>1, <3>2 DEF ExportLeft
  <2>3. Good(v)
    <3>1. \A x : ~TornRecord(x).whole
      BY DEF TornRecord, NoRecord
    <3> QED
      BY <2>2, <3>1, Mine DEF Good
  <2>4. /\ Shaped(export', ExportFields) /\ export'.dest = NoRecord
        /\ \A f \in ExportFields : export'[f] \in {export[f], v}
    BY <2>1, <2>2 DEF Exported, Shaped, ExportFields
  <2>5. \A f \in ExportFields : Good(export'[f])
    BY <2>1, <2>3, <2>4 DEF Exported
  <2>6. lock = p
    BY <2>2, Mine DEF Free
  <2>7. Becomes(p, Idle) /\ Carries(p, NoRecord)
    BY <1>1, IdleIs DEF Leave, Exit, Carry, Carries, Becomes
  <2>8. PICK x : x = Idle
    OBVIOUS
  <2>9. x.pc = "idle" /\ DocTrue(x.doc)
    BY <2>8, IdleIs, NoDocTrue
  <2>10. x.pc \notin ExportLabels /\ x.pc \in Free
    BY <2>9 DEF ExportLabels, Free
  <2> QED
    BY <1>1, <2>4, <2>5, <2>6, <2>7, <2>8, <2>9, <2>10, NoRecordGood, ExportWrite
<1> QED
  BY <1>2, <1>3

(* A write of the history's intent or receipt.                              *)
LEMMA HistoryWrite ==
    ASSUME MaintenanceInv, NEW p \in Procs, NEW r, NEW c, Becomes(p, r), Carries(p, c), lock = p, r.pc \notin Free => lock' = p,
           RetentionOnly, UNCHANGED export, Shaped(history', HistoryFields), history'.svc = history.svc,
           history'.install = history.install, DocTrue(r.doc), Good(c), r.pc \in {"idle", "h.move"},
           r.pc = "h.move" => /\ TerminalPair(RetainedService, RetainedInstall) /\ target = Candidate
                              /\ history'.intent \in {NoRecord, HistoryIntent}
    PROVE  MaintenanceInv'
<1>1. RetainedService' = RetainedService /\ RetainedInstall' = RetainedInstall /\ HistoryIntent' = HistoryIntent
  BY DEF RetainedService, RetainedInstall, ServiceMoved, InstallMoved, RetentionOnly, HistoryIntent
<1>2. ServiceState' /\ InstallState'
  BY DEF MaintenanceInv, ServiceState, InstallState, DocTrue, Swapped, RetentionOnly
<1>3. Archived'
  BY <1>1 DEF MaintenanceInv, Archived, ServiceMoved, InstallMoved, RetentionOnly
<1>4. Exported'
  BY <1>1 DEF MaintenanceInv, Exported, Good, Verified
<1>5. DocTrue(r.doc)' /\ Good(c)'
  BY <1>1 DEF DocTrue, Swapped, Good, RetentionOnly
<1>6. Local(r, c)'
  BY <1>1, <1>5 DEF Local, ExportLabels, Becomes, RetentionOnly
<1> QED
  BY <1>1, <1>2, <1>3, <1>4, <1>6, RetainStep DEF RetentionOnly

LEMMA WriteHistoryStep == ASSUME MaintenanceInv, WriteHistoryIntent PROVE MaintenanceInv'
<1>1. PICK p \in Procs : /\ proc[p].pc = "h.move" /\ history' = [history EXCEPT !.intent = HistoryIntent]
                         /\ RetentionOnly /\ UNCHANGED <<lock, proc, faults, export, carried>>
  BY DEF WriteHistoryIntent, At
<1>2. PICK r, c : r = proc[p] /\ c = carried[p]
  OBVIOUS
<1>3. /\ lock = p /\ Good(c) /\ DocTrue(r.doc) /\ TerminalPair(RetainedService, RetainedInstall) /\ target = Candidate
      /\ Carries(p, c) /\ Becomes(p, r)
  BY <1>1, <1>2, Mine, CarriedSame DEF Free, Local, Becomes, MaintenanceInv, Invocations, Shaped
<1>4. /\ Shaped(history', HistoryFields) /\ history'.svc = history.svc /\ history'.install = history.install
      /\ history'.intent = HistoryIntent
  BY <1>1 DEF MaintenanceInv, Archived, Shaped, HistoryFields
<1> QED
  BY <1>1, <1>2, <1>3, <1>4, HistoryWrite

LEMMA HistoryEnds == ASSUME MaintenanceInv, CompleteHistory \/ ArchiveInterrupted PROVE MaintenanceInv'
<1>1. PICK p \in Procs : /\ proc[p].pc = "h.move" /\ Leave(p) /\ RetentionOnly /\ UNCHANGED export
                         /\ history' = history \/ \E f \in {"intent", "complete"} : \E v : history' = [history EXCEPT ![f] = v]
  <2>1. CASE CompleteHistory
    BY <2>1 DEF CompleteHistory, At
  <2>2. CASE ArchiveInterrupted
    BY <2>2 DEF ArchiveInterrupted, At, HistoryLeft
  <2> QED
    BY <2>1, <2>2
<1>2. lock = p
  BY <1>1, Mine DEF Free
<1>3. Becomes(p, Idle) /\ Carries(p, NoRecord)
  BY <1>1, IdleIs DEF Leave, Exit, Carry, Carries, Becomes
<1>4. Shaped(history', HistoryFields) /\ history'.svc = history.svc /\ history'.install = history.install
  BY <1>1 DEF MaintenanceInv, Archived, Shaped, HistoryFields
<1>5. PICK x : x = Idle
  OBVIOUS
<1>6. x.pc = "idle" /\ DocTrue(x.doc) /\ x.pc \in Free
  BY <1>5, IdleIs, NoDocTrue DEF Free
<1> QED
  BY <1>1, <1>2, <1>3, <1>4, <1>5, <1>6, NoRecordGood, HistoryWrite

(* The two renames.                                                         *)
LEMMA MoveServiceStep == ASSUME MaintenanceInv, MoveService PROVE MaintenanceInv'
<1>1. PICK p \in Procs :
         /\ proc[p].pc = "h.move" /\ ~ServiceMoved /\ history' = [history EXCEPT !.svc = svc] /\ svc' = NoSvc
         /\ UNCHANGED <<target, jobs, running, journal, pending, staging, lock, proc, export, carried>>
  BY DEF MoveService, At
<1>2. PICK r, c : r = proc[p] /\ c = carried[p]
  OBVIOUS
<1>3. /\ lock = p /\ Good(c) /\ DocTrue(r.doc) /\ TerminalPair(RetainedService, RetainedInstall) /\ target = Candidate
      /\ Carries(p, c) /\ Becomes(p, r) /\ history.intent \in {NoRecord, HistoryIntent}
  BY <1>1, <1>2, Mine, CarriedSame DEF Free, Local, Becomes, MaintenanceInv, Invocations, Shaped
<1>4. /\ Shaped(history', HistoryFields) /\ history'.svc = svc /\ history'.install = history.install /\ history'.intent = history.intent
  BY <1>1 DEF MaintenanceInv, Archived, Shaped, HistoryFields
<1>5. svc # NoSvc
  BY <1>1, <1>3, NoSvcIs, DirsDiffer DEF RetainedService, TerminalPair, TerminalService
<1>6. ServiceMoved' /\ InstallMoved' = InstallMoved /\ ~InstallMoved
  BY <1>1, <1>4, <1>5 DEF ServiceMoved, InstallMoved, MaintenanceInv, Archived
<1>7. RetainedService' = RetainedService /\ RetainedInstall' = RetainedInstall
  BY <1>1, <1>4, <1>6 DEF RetainedService, RetainedInstall
<1>8. HistoryIntent' = HistoryIntent
  BY <1>7 DEF HistoryIntent
<1>9. ServiceState'
  BY <1>1, NoSvcIs, DirsDiffer DEF ServiceState
<1>10. InstallState'
  BY <1>1 DEF MaintenanceInv, InstallState, DocTrue, Swapped
<1>11. Archived'
  BY <1>1, <1>3, <1>4, <1>6, <1>7 DEF Archived
<1>12. Exported'
  BY <1>1, <1>7 DEF MaintenanceInv, Exported, Good, Verified
<1>13. DocTrue(r.doc)' /\ Good(c)'
  BY <1>1, <1>3, <1>7 DEF DocTrue, Swapped, Good
<1>14. Local(r, c)'
  BY <1>1, <1>2, <1>3, <1>4, <1>7, <1>8, <1>13 DEF Local, ExportLabels, Becomes
<1> QED
  BY <1>1, <1>3, <1>7, <1>9, <1>10, <1>11, <1>12, <1>14, RetainStep

LEMMA MoveInstallStep == ASSUME MaintenanceInv, MoveInstall PROVE MaintenanceInv'
<1>1. PICK p \in Procs :
         /\ proc[p].pc = "h.move" /\ ServiceMoved /\ ~InstallMoved /\ history' = [history EXCEPT !.install = journal] /\ journal' = NoDoc
         /\ UNCHANGED <<target, jobs, running, svc, pending, staging, lock, proc, export, carried>>
  BY DEF MoveInstall, At
<1>2. PICK r, c : r = proc[p] /\ c = carried[p]
  OBVIOUS
<1>3. /\ lock = p /\ Good(c) /\ DocTrue(r.doc) /\ TerminalPair(RetainedService, RetainedInstall) /\ target = Candidate
      /\ Carries(p, c) /\ Becomes(p, r) /\ history.intent \in {NoRecord, HistoryIntent}
  BY <1>1, <1>2, Mine, CarriedSame DEF Free, Local, Becomes, MaintenanceInv, Invocations, Shaped
<1>4. /\ Shaped(history', HistoryFields) /\ history'.svc = history.svc /\ history'.install = journal /\ history'.intent = history.intent
  BY <1>1 DEF MaintenanceInv, Archived, Shaped, HistoryFields
<1>5. journal.phase = "installed" /\ journal # NoDoc
  BY <1>1, <1>3, IdleIs DEF RetainedInstall, TerminalPair, TerminalInstall
<1>6. ServiceMoved' /\ InstallMoved' /\ pending = NoDoc
  BY <1>1, <1>4, <1>5 DEF ServiceMoved, InstallMoved, MaintenanceInv, InstallState
<1>7. RetainedService' = RetainedService /\ RetainedInstall' = RetainedInstall
  BY <1>1, <1>4, <1>6 DEF RetainedService, RetainedInstall
<1>8. HistoryIntent' = HistoryIntent
  BY <1>7 DEF HistoryIntent
<1>9. ServiceState'
  BY <1>1 DEF MaintenanceInv, ServiceState
<1>10. InstallState'
  BY <1>1, NoDocTrue, IdleIs DEF MaintenanceInv, InstallState, DocTrue, Swapped
<1>11. Archived'
  BY <1>1, <1>3, <1>4, <1>6, <1>7 DEF MaintenanceInv, Archived
<1>12. Exported'
  BY <1>1, <1>7 DEF MaintenanceInv, Exported, Good, Verified
<1>13. DocTrue(r.doc)' /\ Good(c)'
  BY <1>1, <1>3, <1>7 DEF DocTrue, Swapped, Good
<1>14. Local(r, c)'
  BY <1>1, <1>2, <1>3, <1>4, <1>7, <1>8, <1>13 DEF Local, ExportLabels, Becomes
<1> QED
  BY <1>1, <1>3, <1>7, <1>9, <1>10, <1>11, <1>12, <1>14, RetainStep

LEMMA RetentionStep == ASSUME MaintenanceInv, RetentionNext PROVE MaintenanceInv'
  BY ExportEnds, ExportBeginStep, RecoverExportStep, RecoverLockedStep, ContainerExistsStep, ArchiveBeginStep, PublishIntentStep,
     PromoteStep, ContainerSteps, ExportInterruptedStep, WriteHistoryStep, HistoryEnds, MoveServiceStep, MoveInstallStep
     DEF RetentionNext

-----------------------------------------------------------------------------
(* Every behaviour.                                                         *)

LEMMA MaintenanceStarts == MaintenanceInit => MaintenanceInv
<1> SUFFICES ASSUME MaintenanceInit PROVE MaintenanceInv
  OBVIOUS
<1>1. /\ target = Previous /\ jobs = [j \in JobNames |-> Previous] /\ running = jobs
      /\ svc = NoSvc /\ journal = NoDoc /\ pending = NoDoc /\ proc = [p \in Procs |-> Idle] /\ staging = NoStaging
      /\ export = NoExport /\ history = NoHistory /\ carried = [p \in Procs |-> NoRecord]
  BY DEF MaintenanceInit, Init, NoJobs, JobNames
<1>2. Machine
  BY <1>1 DEF Machine, Bundles, Shaped, JobNames, JobsRunTheTarget
<1>3. ServiceState
  BY <1>1, NoSvcIs, DirsDiffer DEF ServiceState
<1>4. InstallState
  <2>1. Shaped(staging, StagingFields)
    BY <1>1 DEF Shaped, StagingFields, NoStaging
  <2> QED
    BY <1>1, <2>1, NoDocTrue DEF InstallState
<1>5. /\ Shaped(history, HistoryFields) /\ history.svc = NoSvc /\ history.install = NoDoc
  BY <1>1 DEF Shaped, HistoryFields, NoHistory
<1>6. Archived
  BY <1>5 DEF Archived, ServiceMoved, InstallMoved
<1>7. Exported
  <2>1. Shaped(export, ExportFields) /\ export.dest = NoRecord /\ \A f \in ExportFields : export[f] = NoRecord
    BY <1>1 DEF Shaped, ExportFields, NoExport
  <2> QED
    BY <2>1, NoRecordGood DEF Exported
<1>8. Local(Idle, NoRecord)
  BY IdleIs, NoDocTrue, NoRecordGood, FreeLocal DEF Free
<1>9. Invocations
  BY <1>1, <1>8, IdleIs DEF Invocations, Shaped, Free
<1> QED
  BY <1>2, <1>3, <1>4, <1>6, <1>7, <1>9 DEF MaintenanceInv

LEMMA MaintenanceStutters == MaintenanceInv /\ UNCHANGED allVars => MaintenanceInv'
<1> SUFFICES ASSUME MaintenanceInv, UNCHANGED allVars PROVE MaintenanceInv'
  OBVIOUS
<1>1. UNCHANGED Shared /\ UNCHANGED <<lock, proc, carried>>
  BY DEF allVars, vars, retentionVars, Shared
<1>2. (Machine /\ ServiceState /\ InstallState /\ Archived /\ Exported)'
  BY <1>1, SameGlobal DEF MaintenanceInv
<1>3. ASSUME NEW p \in Procs PROVE Local(proc[p], carried[p])'
  <2>1. PICK r, c : r = proc[p] /\ c = carried[p]
    OBVIOUS
  <2>2. Local(r, c)'
    BY <1>1, <2>1, SameLocal DEF MaintenanceInv, Invocations
  <2> QED
    BY <1>1, <2>1, <2>2
<1>4. Invocations'
  BY <1>1, <1>3 DEF MaintenanceInv, Invocations, Shaped
<1> QED
  BY <1>2, <1>4 DEF MaintenanceInv

(* In every state of a maintenance, whatever was interrupted: the records   *)
(* on disk and what each invocation has read agree with the machine as      *)
(* MaintenanceInv says (current_service_transaction.py,                     *)
(* dormant_app_install.py, ga_acceptance_journal_export.py,                 *)
(* archive_install_history.py).                                             *)
THEOREM MaintenanceInvariant == MaintenanceSpec => []MaintenanceInv
<1>1. MaintenanceInv /\ [MaintenanceNext]_allVars => MaintenanceInv'
  BY ServiceStep, InstallStep, RetentionStep, MaintenanceStutters DEF MaintenanceNext, Next
<1> QED
  BY <1>1, MaintenanceStarts, PTL DEF MaintenanceSpec

(* A registered job and its process belong to the installed bundle, through *)
(* every teardown, exchange and setup (_step of                             *)
(* current_service_transaction.py, the exchange of dormant_app_install.py). *)
THEOREM JobsBelongToTheTarget == MaintenanceSpec => []JobsRunTheTarget
<1>1. MaintenanceInv => JobsRunTheTarget
  BY DEF MaintenanceInv, Machine
<1> QED
  BY <1>1, MaintenanceInvariant, PTL

(* The previous app is never lost, and a journal that says swapped or       *)
(* installed is true of the bundles on disk (_resume and recover of         *)
(* dormant_app_install.py).                                                 *)
THEOREM BundlesAreKept == MaintenanceSpec => []NoBundleLost
<1>1. MaintenanceInv => NoBundleLost
  BY DEF MaintenanceInv, InstallState, DocTrue, NoBundleLost
<1> QED
  BY <1>1, MaintenanceInvariant, PTL

(* A published export is one finished migration, the one retained live or   *)
(* in the history, and it keeps verifying (_complete_export and recover of  *)
(* ga_acceptance_journal_export.py).                                        *)
THEOREM ExportsAreOneMigration == MaintenanceSpec => []ExportIsOneMigration
<1>1. MaintenanceInv => ExportIsOneMigration
  <2> SUFFICES ASSUME MaintenanceInv, export.dest # NoRecord
               PROVE  /\ TerminalPair(export.dest.svc, export.dest.install)
                      /\ export.dest.svc = RetainedService /\ export.dest.install = RetainedInstall
                      /\ Verified
    BY DEF ExportIsOneMigration
  <2>1. Verified /\ Good(export.dest)
    BY DEF MaintenanceInv, Exported, ExportFields
  <2>2. export.dest.whole
    BY <2>1 DEF Verified
  <2> QED
    BY <2>1, <2>2 DEF Good
<1> QED
  BY <1>1, MaintenanceInvariant, PTL

(* Only the exchange itself moves the target.                               *)
LEMMA OnlySwapExchanges == MaintenanceNext /\ ~Swap => UNCHANGED target
<1>1. ServiceNext => UNCHANGED target
  BY DEF ServiceNext, World, BeginService, Load, LoadFails, Dispatch, Relock, RelockBusy, Refuse, Enter, Preflight, Create,
         Step, JobEnds, AppendEvent, Unsettled, Prove, GuardDrift, DnsObserve, DnsExisting, DnsWrite, ServiceFails,
         ServiceCrash, GuardChanges, CandidateDrifts
<1>2. InstallNext /\ ~Swap => UNCHANGED target
  BY DEF InstallNext, Files, StagingOnly, InstallPreflight, RecoverPreflight, LockBusy, InstallOpen, InstallRefused,
         RecoverOpen, RecoverRefused, RecoverSegment, RecoverEnds, Write, EnterPrepared, MakeContainer, RemovePartial,
         CopyCandidate, CopyRefused, PublishStagedPayload, RecordStaged, RecordSwapped, RecordInstalled, ResumeRefused,
         InstallFails, InstallCrash
<1>3. RetentionNext => UNCHANGED target
  BY DEF RetentionNext, RetentionOnly, ExportBegin, PublishIntent, IntentExists, RecoverExport, RecoverLocked,
         RecoverExportRefused, PromoteIntent, WriteContainer, PublishContainer, ContainerExists, ContainerRefused,
         VerifyExport, ArchiveBegin, WriteHistoryIntent, MoveService, MoveInstall, CompleteHistory, ExportInterrupted,
         ArchiveInterrupted
<1> QED
  BY <1>1, <1>2, <1>3 DEF MaintenanceNext, Next

(* The bundle is exchanged only while both jobs are down, the teardown is   *)
(* complete and the exchanging invocation holds the maintenance lock (the   *)
(* renameatx_np step of _resume in dormant_app_install.py).                 *)
THEOREM ExchangeIsDormant == MaintenanceSpec => ExchangedWhileDormant
<1>1. ASSUME MaintenanceInv, [MaintenanceNext]_allVars
      PROVE  [target' # target => Dormant /\ Phase = DECOMMISSIONED /\ lock # Nobody /\ svc' = svc]_vars
  <2>1. CASE Swap
    <3>1. PICK p \in Procs : proc[p].pc = "resume" /\ Dormant /\ UNCHANGED svc
      BY <2>1 DEF Swap, InPhase, At, DormantAt
    <3>2. lock = p /\ Decommissioned
      BY <1>1, <3>1, Mine DEF Free, Local
    <3> QED
      BY <3>1, <3>2, InstallAssumption DEF Decommissioned
  <2>2. CASE UNCHANGED target
    BY <2>2
  <2>3. MaintenanceNext \/ UNCHANGED target
    BY <1>1 DEF allVars, vars
  <2> QED
    BY <1>1, <2>1, <2>2, <2>3, OnlySwapExchanges
<1> QED
  BY <1>1, MaintenanceInvariant, PTL DEF MaintenanceSpec, ExchangedWhileDormant

-----------------------------------------------------------------------------
(* The terminal journals are kept.                                          *)

Retained == TerminalPair(RetainedService, RetainedInstall)
RetainedSame == RetainedService' = RetainedService /\ RetainedInstall' = RetainedInstall

LEMMA LoadedSame ==
    ASSUME MaintenanceInv, ServiceMoved \/ TerminalService(svc) PROVE Loaded = svc
<1>1. Shaped(svc, SvcFields)
  BY DEF MaintenanceInv, ServiceState
<1>2. CASE ServiceMoved
  <2>1. svc = NoSvc /\ svc.dir = Absent
    BY <1>2, NoSvcIs DEF MaintenanceInv, Archived
  <2> QED
    BY <2>1, DirsDiffer DEF Loaded
<1>3. CASE TerminalService(svc)
  <2>1. Loaded = WithPendingEvent
    BY <1>3, DirsDiffer DEF Loaded, TerminalService
  <2>2. Loaded = [svc EXCEPT !.pend = Absent] /\ svc.pend = Absent
    BY <1>3, <2>1 DEF WithPendingEvent, WithDns, TerminalService
  <2> QED
    BY <1>1, <2>2 DEF Shaped, SvcFields
<1> QED
  BY <1>2, <1>3

LEMMA ServiceJournalKept ==
    ASSUME MaintenanceInv, ServiceNext, Retained PROVE UNCHANGED <<svc, journal>>
<1>1. UNCHANGED journal
  BY DEF ServiceNext
<1>2. ServiceMoved \/ TerminalService(svc)
  BY DEF Retained, TerminalPair, RetainedService
<1>3. \A p \in Procs : proc[p].pc \notin {"create", "append", "dns"}
  <2>1. ASSUME NEW p \in Procs, proc[p].pc \in {"append", "dns"} PROVE FALSE
    <3>1. svc.dir = "published" /\ Phase < Len(PHASES)
      BY <2>1, Mine, Teardown DEF Local
    <3> QED
      BY <1>2, <3>1, Unfinished
  <2>2. ASSUME NEW p \in Procs, proc[p].pc = "create" PROVE FALSE
    <3>1. svc = NoSvc /\ target = Previous
      BY <2>2, Mine DEF Local
    <3> QED
      BY <1>2, <3>1, NotBegun
  <2> QED
    BY <2>1, <2>2
<1>4. Load => UNCHANGED svc
  BY <1>2, LoadedSame DEF Load
<1>5. ~Create /\ ~AppendEvent /\ ~DnsWrite
  BY <1>3 DEF Create, AppendEvent, DnsWrite, At
<1>6. ServiceCrash => UNCHANGED svc
  BY <1>3 DEF ServiceCrash, Interrupted, At
<1>7. UNCHANGED svc
  BY <1>4, <1>5, <1>6
     DEF ServiceNext, BeginService, LoadFails, Dispatch, Relock, RelockBusy, Refuse, Enter, Preflight,
         Step, JobEnds, Unsettled, Prove, GuardDrift, DnsObserve, DnsExisting, ServiceFails, GuardChanges, CandidateDrifts
<1> QED
  BY <1>1, <1>7

LEMMA InstallJournalKept ==
    ASSUME MaintenanceInv, InstallNext, Retained PROVE UNCHANGED <<svc, journal>>
<1>1. ~Decommissioned
  BY NothingRetained DEF Retained
<1>2. ~RecoverOpen
  BY <1>1 DEF RecoverOpen, RecoverAdmitted
<1>3. ~Write
  BY <1>1, Mine DEF Write, At, Local
<1> QED
  BY <1>2, <1>3
  DEF InstallNext, Files, StagingOnly, InstallPreflight, RecoverPreflight, LockBusy, InstallOpen, InstallRefused,
      RecoverRefused, RecoverSegment, RecoverEnds, EnterPrepared, MakeContainer, RemovePartial,
      CopyCandidate, CopyRefused, PublishStagedPayload, Swap, RecordStaged, RecordSwapped, RecordInstalled, ResumeRefused,
      InstallFails, InstallCrash

\* The intent that a moved journal is bound to.
Bound == ServiceMoved => history.intent = HistoryIntent

(* Everything but the two renames leaves the journals and their history.    *)
HistoryStays == UNCHANGED <<svc, journal>> /\ history'.svc = history.svc /\ history'.install = history.install
LEMMA StaysSame == HistoryStays => RetainedSame /\ HistoryIntent' = HistoryIntent /\ ServiceMoved' = ServiceMoved
<1> SUFFICES ASSUME HistoryStays PROVE RetainedSame /\ HistoryIntent' = HistoryIntent /\ ServiceMoved' = ServiceMoved
  OBVIOUS
<1>1. RetainedSame
  BY DEF HistoryStays, RetainedSame, RetainedService, RetainedInstall, ServiceMoved, InstallMoved
<1>2. HistoryIntent' = HistoryIntent
  BY <1>1 DEF HistoryIntent, RetainedSame
<1> QED
  BY <1>1, <1>2 DEF HistoryStays, ServiceMoved

LEMMA WholeIsRecord == HistoryIntent # NoRecord
<1>1. HistoryIntent.whole = TRUE /\ NoRecord.whole = FALSE
  BY DEF HistoryIntent, Intent, NoRecord
<1> QED
  BY <1>1

LEMMA RetentionKept ==
    ASSUME MaintenanceInv, Bound, RetentionNext
    PROVE  \/ HistoryStays /\ (ServiceMoved => history'.intent = history.intent)
           \/ MoveService \/ MoveInstall
<1>1. Shaped(history, HistoryFields) /\ (ServiceMoved => history.intent # NoRecord)
  BY WholeIsRecord DEF MaintenanceInv, Archived, Bound
<1>2. CASE UNCHANGED <<history, svc, journal>>
  BY <1>2 DEF HistoryStays
<1>3. CASE WriteHistoryIntent
  <2>1. history' = [history EXCEPT !.intent = HistoryIntent] /\ UNCHANGED <<svc, journal>> /\ history.intent = NoRecord
    BY <1>3 DEF WriteHistoryIntent, RetentionOnly
  <2> QED
    BY <1>1, <2>1 DEF HistoryStays, Shaped, HistoryFields
<1>4. CASE CompleteHistory
  <2>1. history' = [history EXCEPT !.complete = HistoryIntent] /\ UNCHANGED <<svc, journal>>
    BY <1>4 DEF CompleteHistory, RetentionOnly
  <2> QED
    BY <1>1, <2>1 DEF HistoryStays, Shaped, HistoryFields
<1>5. CASE ArchiveInterrupted
  <2>1. /\ UNCHANGED <<svc, journal>>
        /\ \/ history' = history
           \/ history.intent = NoRecord /\ \E v : history' = [history EXCEPT !.intent = v]
           \/ \E v : history' = [history EXCEPT !.complete = v]
    BY <1>5 DEF ArchiveInterrupted, RetentionOnly, HistoryLeft
  <2> QED
    BY <1>1, <2>1 DEF HistoryStays, Shaped, HistoryFields
<1> QED
  BY <1>2, <1>3, <1>4, <1>5
  DEF RetentionNext, RetentionOnly, retentionVars, ExportBegin, PublishIntent, IntentExists, RecoverExport, RecoverLocked,
      RecoverExportRefused, PromoteIntent, WriteContainer, PublishContainer, ContainerExists, ContainerRefused,
      VerifyExport, ArchiveBegin, ExportInterrupted

LEMMA MovesAreBound ==
    ASSUME MaintenanceInv, Bound, MoveService \/ MoveInstall
    PROVE  RetainedSame /\ history.intent = HistoryIntent /\ history'.intent = history.intent
<1>1. CASE MoveService
  <2>1. PICK p \in Procs : /\ proc[p].pc = "h.move" /\ history.intent # NoRecord /\ ~ServiceMoved
                           /\ history' = [history EXCEPT !.svc = svc] /\ svc' = NoSvc /\ UNCHANGED journal
    BY <1>1 DEF MoveService, At
  <2>2. /\ history.intent = HistoryIntent /\ TerminalPair(RetainedService, RetainedInstall)
    BY <2>1, Mine DEF Local
  <2>3. history'.svc = svc /\ history'.install = history.install /\ history'.intent = history.intent
    BY <2>1 DEF MaintenanceInv, Archived, Shaped, HistoryFields
  <2>4. svc # NoSvc
    BY <2>1, <2>2, NoSvcIs, DirsDiffer DEF RetainedService, TerminalPair, TerminalService
  <2> QED
    BY <2>1, <2>2, <2>3, <2>4 DEF RetainedSame, RetainedService, RetainedInstall, ServiceMoved, InstallMoved
<1>2. CASE MoveInstall
  <2>1. PICK p \in Procs : /\ proc[p].pc = "h.move" /\ ServiceMoved /\ ~InstallMoved
                           /\ history' = [history EXCEPT !.install = journal] /\ journal' = NoDoc /\ UNCHANGED svc
    BY <1>2 DEF MoveInstall, At
  <2>2. /\ history.intent = HistoryIntent /\ TerminalPair(RetainedService, RetainedInstall)
    BY <2>1, Mine DEF Local, Bound
  <2>3. history'.svc = history.svc /\ history'.install = journal /\ history'.intent = history.intent
    BY <2>1 DEF MaintenanceInv, Archived, Shaped, HistoryFields
  <2>4. journal # NoDoc
    BY <2>1, <2>2, IdleIs DEF RetainedInstall, TerminalPair, TerminalInstall
  <2> QED
    BY <2>1, <2>2, <2>3, <2>4 DEF RetainedSame, RetainedService, RetainedInstall, ServiceMoved, InstallMoved
<1> QED
  BY <1>1, <1>2

LEMMA BoundStep == ASSUME MaintenanceInv, Bound, [MaintenanceNext]_allVars PROVE Bound'
<1>1. CASE UNCHANGED history /\ ~ServiceMoved
  BY <1>1 DEF Bound, ServiceMoved
<1>2. CASE UNCHANGED history /\ ServiceMoved /\ UNCHANGED <<svc, journal>>
  <2>1. HistoryStays
    BY <1>2 DEF HistoryStays
  <2> QED
    BY <1>2, <2>1, StaysSame DEF Bound
<1>3. CASE Next /\ UNCHANGED retentionVars
  <2>1. UNCHANGED history
    BY <1>3 DEF retentionVars
  <2>2. ServiceMoved => Retained
    BY DEF MaintenanceInv, Archived, Retained
  <2>3. ServiceMoved => UNCHANGED <<svc, journal>>
    BY <1>3, <2>2, ServiceJournalKept, InstallJournalKept DEF Next
  <2> QED
    BY <1>1, <1>2, <2>1, <2>3
<1>4. CASE RetentionNext
  <2>1. CASE HistoryStays /\ (ServiceMoved => history'.intent = history.intent)
    BY <2>1, StaysSame DEF Bound
  <2>2. CASE MoveService \/ MoveInstall
    <3>1. RetainedSame /\ history.intent = HistoryIntent /\ history'.intent = history.intent
      BY <2>2, MovesAreBound
    <3>2. HistoryIntent' = HistoryIntent
      BY <3>1 DEF HistoryIntent, RetainedSame
    <3> QED
      BY <3>1, <3>2 DEF Bound
  <2> QED
    BY <1>4, <2>1, <2>2, RetentionKept
<1>5. CASE UNCHANGED allVars
  <2>1. UNCHANGED <<svc, journal, history>>
    BY <1>5 DEF allVars, vars, retentionVars
  <2> QED
    BY <1>1, <1>2, <2>1
<1> QED
  BY <1>3, <1>4, <1>5 DEF MaintenanceNext

(* Terminal journals never change and are never lost: they only move, and   *)
(* only under a durable intent that names both (archive_completed_history   *)
(* of archive_install_history.py, against every other command).             *)
THEOREM TerminalRecordsAreKept == MaintenanceSpec => RecordsAreKept
<1>1. MaintenanceInit => Bound
  <2>1. MaintenanceInit => history.svc = NoSvc
    BY DEF MaintenanceInit, NoHistory
  <2> QED
    BY <2>1 DEF Bound, ServiceMoved
<1>2. MaintenanceInv /\ Bound /\ [MaintenanceNext]_allVars => Bound'
  BY BoundStep
<1>3. ASSUME MaintenanceInv, Bound, [MaintenanceNext]_allVars
      PROVE  [/\ TerminalPair(RetainedService, RetainedInstall) =>
                    RetainedService' = RetainedService /\ RetainedInstall' = RetainedInstall
              /\ history'.svc # history.svc \/ history'.install # history.install =>
                    history.intent = Intent(Nobody, RetainedService, RetainedInstall)]_allVars
  <2>1. CASE UNCHANGED allVars
    BY <2>1
  <2>2. CASE Next /\ UNCHANGED retentionVars
    <3>1. UNCHANGED history
      BY <2>2 DEF retentionVars
    <3>2. Retained => HistoryStays
      BY <1>3, <2>2, <3>1, ServiceJournalKept, InstallJournalKept DEF Next, HistoryStays
    <3> QED
      BY <3>1, <3>2, StaysSame DEF Retained, RetainedSame
  <2>3. CASE HistoryStays
    BY <2>3, StaysSame DEF HistoryStays, RetainedSame
  <2>4. CASE MoveService \/ MoveInstall
    BY <1>3, <2>4, MovesAreBound DEF RetainedSame, HistoryIntent
  <2> QED
    BY <1>3, <2>1, <2>2, <2>3, <2>4, RetentionKept DEF MaintenanceNext
<1> QED
  BY <1>1, <1>2, <1>3, MaintenanceInvariant, PTL DEF MaintenanceSpec, RecordsAreKept

-----------------------------------------------------------------------------
(* The bounded command runner that the app maintenance starts its tools    *)
(* with (BoundedCommand), for any set of descendants.  The argument is one *)
(* invariant: the group id is free for somebody else only after the leader *)
(* was reaped, the leader is reaped only by a cleanup that was attempted,  *)
(* and nothing begins a second cleanup after that.                         *)

\* Nothing is left of the command's group, and nothing can rejoin it.
Ended == leader = "reaped" /\ Members = {}

\* Where the runner is tells what it knows about leader and group.
RunnerInv ==
    /\ run.exited => run.attempted
    /\ leader = "reaped" => run.attempted
    /\ run.pc \in {"signal", "wait", "probe"} => run.attempted
    /\ run.pc = "signal" => leader # "reaped"
    /\ run.pc = "read" /\ run.exited => Ended
    /\ run.pc \in {"read", "signal", "wait", "probe"} => run.outcome = "none"
    /\ run.outcome = "error" => run.pc = "done"
    /\ run.outcome = "result" => Ended /\ holds = {} /\ run.attempted

\* Somebody else has the group id only when the command's group had ended.
StrangerInv ==
    /\ stranger # "none" => leader = "reaped"
    /\ stranger # "killed"

CommandInv == CommandTypeOK /\ RunnerInv /\ StrangerInv

(* The invariant holds when the command has just been started.             *)
LEMMA CommandStarts == CommandInit => CommandInv
BY DEF CommandInit, CommandInv, CommandTypeOK, RunnerInv, StrangerInv, IdleRun, KidStates,
Leader, Members, Ended

(* A group that has ended stays ended: only a running leader or a member   *)
(* of the group forks, so no descendant joins it and no pipe is opened.    *)
LEMMA EndedStays ==
    ASSUME CommandTypeOK, Ended, Fork PROVE FALSE
BY DEF CommandTypeOK, Ended, Fork, Members

(* What the command and its descendants do keeps the invariant.            *)
LEMMA CommandSteps ==
    ASSUME CommandInv, Fork \/ KidEnds \/ LeaderEnds \/ Reuse
      \/ CommandDeadline \/ CleanupDeadline
    PROVE CommandInv'
<1> USE DEF CommandInv
<1>1. CASE Fork
  <2>1. ~Ended BY <1>1, EndedStays
  <2>2. CommandTypeOK' BY <1>1 DEF CommandTypeOK, Fork, KidStates
  <2>3. RunnerInv' BY <1>1, <2>1 DEF RunnerInv, Fork, Ended
  <2>4. StrangerInv' BY <1>1 DEF StrangerInv, Fork
  <2> QED BY <2>2, <2>3, <2>4
<1>2. CASE KidEnds
  <2>1. CommandTypeOK' BY <1>2 DEF CommandTypeOK, KidEnds, KidStates
  <2>2. Members' \subseteq Members BY <1>2 DEF CommandTypeOK, KidEnds, Members
  <2>3. Ended => Ended' BY <1>2, <2>2 DEF Ended, KidEnds
  <2>4. RunnerInv' BY <1>2, <2>3 DEF RunnerInv, KidEnds
  <2>5. StrangerInv' BY <1>2 DEF StrangerInv, KidEnds
  <2> QED BY <2>1, <2>4, <2>5
<1>3. CASE LeaderEnds
  <2>1. ~Ended BY <1>3 DEF LeaderEnds, Ended
  <2> QED BY <1>3, <2>1 DEF LeaderEnds, CommandTypeOK, RunnerInv, StrangerInv
<1>4. CASE Reuse
  <2>1. Ended' = Ended BY <1>4 DEF Reuse, Ended, Members
  <2> QED BY <1>4, <2>1 DEF Reuse, GroupExists, CommandTypeOK, RunnerInv, StrangerInv
<1>5. CASE CommandDeadline \/ CleanupDeadline
  <2>1. Ended' = Ended BY <1>5 DEF CommandDeadline, CleanupDeadline, Ended, Members
  <2> QED
      BY <1>5, <2>1 DEF CommandDeadline, CleanupDeadline, CommandTypeOK, RunnerInv, StrangerInv
<1> QED BY <1>1, <1>2, <1>3, <1>4, <1>5

(* Every step of the runner that leaves the processes alone keeps the      *)
(* invariant: reading, probing, closing and reporting.                     *)
LEMMA QuietSteps ==
    ASSUME CommandInv, UNCHANGED <<leader, kid, holds, stranger, clock>>,
           \/ Timeout \/ ReadFails \/ LeaderSeen \/ Complete
             \/ CleanupInterrupted
           \/ WaitDeadline \/ ProbeAbsent \/ ProbeDeadline \/ Cleanup
             \/ Report \/ CloseFails
    PROVE CommandInv'
<1> USE DEF CommandInv
<1>1. Ended' = Ended BY DEF Ended, Members
<1>2. StrangerInv' BY DEF StrangerInv
<1>3. CASE Timeout \/ ReadFails
  BY <1>1, <1>2, <1>3 DEF Timeout, ReadFails, Set, CommandTypeOK, RunnerInv
<1>4. CASE LeaderSeen
  BY <1>1, <1>2, <1>4 DEF LeaderSeen, Set, CommandTypeOK, RunnerInv
<1>5. CASE Complete
  BY <1>1, <1>2, <1>5 DEF Complete, Set, CommandTypeOK, RunnerInv
<1>6. CASE CleanupInterrupted \/ WaitDeadline \/ ProbeDeadline
  BY <1>1, <1>2, <1>6
  DEF CleanupInterrupted, WaitDeadline, ProbeDeadline, AfterCleanup, Set,
  CommandTypeOK, RunnerInv
<1>7. CASE ProbeAbsent
  <2>1. Ended BY <1>7 DEF ProbeAbsent, GroupExists, Ended
  <2> QED
      BY <1>1, <1>2, <1>7, <2>1 DEF ProbeAbsent, AfterCleanup, Set, CommandTypeOK,
      RunnerInv
<1>8. CASE Cleanup
  <2>1. leader # "reaped" BY <1>8 DEF Cleanup, CleanupDue, RunnerInv
  <2>2. run.outcome = "none" BY <1>8 DEF Cleanup, CleanupDue, RunnerInv, CommandTypeOK
  <2> QED
      BY <1>1, <1>2, <1>8, <2>1, <2>2 DEF Cleanup, CleanupDue, Set, CommandTypeOK,
      RunnerInv
<1>9. CASE Report \/ CloseFails
  BY <1>1, <1>2, <1>9 DEF Report, CloseFails, Set, CommandTypeOK, RunnerInv
<1> QED BY <1>3, <1>4, <1>5, <1>6, <1>7, <1>8, <1>9

(* The steps of _terminate_process_group that change processes.            *)
LEMMA CleanupSteps ==
    ASSUME CommandInv, Signal \/ SignalRefused \/ Reap PROVE CommandInv'
<1> USE DEF CommandInv
<1>1. CASE Signal
  <2>1. stranger = "none" BY <1>1 DEF Signal, RunnerInv, StrangerInv, CommandTypeOK
  <2>2. CommandTypeOK' BY <1>1 DEF Signal, Kill, Set, CommandTypeOK, KidStates
  <2>3. RunnerInv' BY <1>1 DEF Signal, Kill, Set, CommandTypeOK, RunnerInv
  <2>4. StrangerInv' BY <1>1, <2>1 DEF Signal, Kill, StrangerInv
  <2> QED BY <2>2, <2>3, <2>4
<1>2. CASE SignalRefused
  <2>1. CommandTypeOK' BY <1>2 DEF SignalRefused, KillUnreapedLeader, Set, CommandTypeOK
  <2>0. PICK r : r = run' /\ r \in {[run EXCEPT !.pc = "wait"], [run EXCEPT !.pc = "wait", !.failure = TRUE]}
    BY <1>2 DEF SignalRefused, Set
  <2>2. RunnerInv'
    <3>1. run.attempted /\ run.outcome = "none" BY <1>2 DEF SignalRefused, RunnerInv
    <3>2. r.pc = "wait" /\ r.attempted = run.attempted /\ r.exited = run.exited /\ r.outcome = run.outcome
      BY <2>0 DEF CommandTypeOK
    <3> QED BY <2>0, <3>1, <3>2 DEF RunnerInv
  <2>3. StrangerInv' BY <1>2 DEF SignalRefused, KillUnreapedLeader, StrangerInv, RunnerInv
  <2> QED BY <2>1, <2>2, <2>3
<1>3. CASE Reap
  BY <1>3 DEF Reap, Set, CommandTypeOK, RunnerInv, StrangerInv
<1> QED BY <1>1, <1>2, <1>3

(* The invariant is inductive.                                             *)
LEMMA CommandStep == CommandInv /\ [CommandNext]_(commandVars) => CommandInv'
<1> SUFFICES ASSUME CommandInv, [CommandNext]_(commandVars) PROVE CommandInv' OBVIOUS
<1>1. CASE Fork \/ KidEnds \/ LeaderEnds \/ Reuse \/ CommandDeadline
  \/ CleanupDeadline
  BY <1>1, CommandSteps
<1>2. CASE \/ Timeout \/ ReadFails \/ LeaderSeen \/ Complete
  \/ CleanupInterrupted
           \/ WaitDeadline \/ ProbeAbsent \/ ProbeDeadline \/ Cleanup
             \/ Report \/ CloseFails
  <2>1. UNCHANGED <<leader, kid, holds, stranger, clock>>
    BY <1>2 DEF Timeout, ReadFails, LeaderSeen, Complete,
    CleanupInterrupted, WaitDeadline,
                ProbeAbsent, ProbeDeadline, Cleanup, Report, CloseFails
  <2> QED BY <1>2, <2>1, QuietSteps
<1>3. CASE Signal \/ SignalRefused \/ Reap
  BY <1>3, CleanupSteps
<1>4. CASE UNCHANGED commandVars
  BY <1>4 DEF commandVars, CommandInv, CommandTypeOK, RunnerInv, StrangerInv, Ended, Members
<1> QED BY <1>1, <1>2, <1>3, <1>4 DEF CommandNext, Runner

(* The runner's invariant holds in every reachable state.                  *)
THEOREM CommandInvariant == CommandSpec => []CommandInv
BY CommandStarts, CommandStep, PTL DEF CommandSpec

(* Whatever the command leaves behind and however cleanup is interrupted,  *)
(* the runner's SIGKILL never reaches processes that are not the command's *)
(* (dormant_app_install.py, _terminate_process_group).                     *)
THEOREM StrangersAreSpared == CommandSpec => []NoStrangerKilled
<1>1. CommandInv => NoStrangerKilled BY DEF CommandInv, StrangerInv, NoStrangerKilled
<1> QED BY <1>1, CommandInvariant, PTL

(* A result is reported only for a command whose group has ended and whose *)
(* output is complete (dormant_app_install.py, _run_bounded_process).      *)
THEOREM ResultsAreFinal == CommandSpec => []ResultIsFinal
<1>1. CommandInv => ResultIsFinal BY DEF CommandInv, RunnerInv, ResultIsFinal, Ended
<1> QED BY <1>1, CommandInvariant, PTL
=============================================================================
