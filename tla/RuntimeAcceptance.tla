-------------------------- MODULE RuntimeAcceptance --------------------------
(***************************************************************************)
(* scripts/ga_runtime_acceptance.py: an operator launches the installed    *)
(* Host, collects evidence of it, stops it and seals the evidence.  collect *)
(* records a started and a completed event around every step; recover      *)
(* restores the machine after an interrupted collection and archives it;   *)
(* resume-seal finishes a collection whose raw evidence is published.      *)
(* Only single events and renames are locked, not whole invocations, so    *)
(* two invocations may overlap.                                            *)
(***************************************************************************)
EXTENDS Naturals, Sequences, FiniteSets

CONSTANTS
    Procs,
    MaxSessions,        \* collections that may be started
    MaxAcceptFaults,    \* crashes, failed commands and operator accidents
    MaxAcceptEvents     \* bound on the events of one collection

VARIABLES
    host,       \* who launched the running Host
    tunnel,     \* who switched the tunnel on; it survives an abrupt exit
    coll,       \* the collection directory
    raw,        \* the session whose raw evidence is published
    adapter,    \* the session whose acceptance adapter is published
    archived,   \* archived collections: their sessions and logs
    cap,        \* the packet capture of the traffic step
    proc,       \* the invocations
    overlapped, \* history: two invocations ran at the same time
    acceptFaults

world == <<host, tunnel>>
records == <<coll, raw, adapter, archived>>
acceptVars == <<world, records, cap, proc, overlapped, acceptFaults>>

\* COLLECTION_SUCCESS_STEPS; steps that are treated alike share a name.
STEPS == <<"gatekeeper", "launch", "services", "traffic", "stop", "quit", "off-proof">>
BOUNDARY == 2
STAGES == 3     \* the start, target and end markers
Off == "off"
Nobody == 0
\* COLLECTION_STEP_PAIRS
Pair(i) == IF i % 2 = 1 THEN <<"started", STEPS[(i + 1) \div 2]>> ELSE <<"completed", STEPS[i \div 2]>>
StepPairs == [i \in 1..(2 * Len(STEPS)) |-> Pair(i)]
Completed == Append(StepPairs, <<"raw_published", "collection">>)
Aborted == <<"aborted_before_mutation", "collection">>
RecoveredEarly == <<"recovered", "collection">>

NoColl == [ses |-> Nobody, log |-> <<>>, mixed |-> FALSE]
NoCap == [pc |-> "none", stage |-> 0, seen |-> {}, run |-> "none", end |-> "none", dropped |-> FALSE,
          early |-> FALSE]
IdleInvocation == [cmd |-> "none", pc |-> "idle", step |-> 0, ses |-> Nobody, seq |-> 0]

AcceptLabels == {"idle", "intent", "start", "act", "complete", "restore", "publish", "marker", "seal",
           "quit", "absent", "restored", "archive"}
AcceptTypeOK ==
    /\ host \in {Off, "collect", "operator"} /\ tunnel \in {Off, "collect", "operator"}
    /\ coll.ses \in 0..MaxSessions /\ Len(coll.log) <= MaxAcceptEvents
    /\ coll.mixed \in BOOLEAN
    /\ raw \in 0..MaxSessions /\ adapter \in 0..MaxSessions
    /\ cap.stage \in 0..STAGES /\ cap.seen \subseteq 1..STAGES
    /\ cap.pc \in {"none", "send", "find", "kill", "stopped", "accepted"}
    /\ cap.run \in {"none", "up", "zombie", "gone"}
    /\ cap.end \in {"none", "cap", "error", "signal", "interrupt"}
    /\ cap.dropped \in BOOLEAN /\ cap.early \in BOOLEAN
    /\ \A p \in Procs : proc[p].pc \in AcceptLabels /\ proc[p].step \in 0..(Len(STEPS) + 1)
    /\ overlapped \in BOOLEAN /\ acceptFaults \in 0..MaxAcceptFaults

-----------------------------------------------------------------------------
AcceptFault == acceptFaults < MaxAcceptFaults /\ acceptFaults' = acceptFaults + 1
PcIs(p, pc) == proc[p].pc = pc
GotoPc(p, pc) == proc' = [proc EXCEPT ![p].pc = pc]
EndCommand(p) == proc' = [proc EXCEPT ![p] = IdleInvocation]
BeginCommand(p, r) ==
    /\ proc[p] = IdleInvocation /\ proc' = [proc EXCEPT ![p] = r]
    /\ overlapped' = (overlapped \/ \E q \in Procs : proc[q] # IdleInvocation)
MyStep(p) == STEPS[proc[p].step]

\* _load_collection_intent: there is a collection, and its intent names its session.
IntentLoads == coll.ses # Nobody
\* _read_collection_events: every event is of the collection's own session.
LogValid == IntentLoads /\ ~coll.mixed
Log == coll.log
\* _aborted_before_mutation
AbortedEarly ==
    /\ \A i \in DOMAIN Log : Log[i] # <<"started", "launch">>
    /\ \E i \in DOMAIN Log : Log[i] = Aborted
AbortShape ==
    \E k \in DOMAIN Log :
        /\ Log[k] = Aborted /\ \A i \in 1..(k - 1) : Log[i] = StepPairs[i]
        /\ SubSeq(Log, k + 1, Len(Log)) \in {<<>>, <<RecoveredEarly>>}

\* _append_collection_event writes into whatever collection is there.  A log
\* that got an event of another session is refused by every reader from then
\* on, so what else it holds is not kept.
AppendTo(ph, st, s) ==
    /\ coll.ses # Nobody /\ Len(coll.log) < MaxAcceptEvents
    /\ coll' = IF s # coll.ses \/ coll.mixed THEN [coll EXCEPT !.log = <<>>, !.mixed = TRUE]
               ELSE [coll EXCEPT !.log = Append(@, <<ph, st>>)]

-----------------------------------------------------------------------------
(* collect.                                                                *)

\* _published_runtime_outputs and require_host_quit_and_tunnel_disconnected
MachineQuiet == host = Off /\ tunnel = Off
CollectBegin == \E p \in Procs :
    /\ raw = Nobody /\ adapter = Nobody /\ coll = NoColl /\ MachineQuiet
    /\ BeginCommand(p, [IdleInvocation EXCEPT !.cmd = "collect", !.pc = "intent"])
    /\ UNCHANGED <<world, records, cap, acceptFaults>>
\* _publish_collection_intent, once the capture password is proven.
Sessions == archived \cup {coll.ses, raw} \cup {proc[p].ses : p \in Procs}
PublishIntent == \E p \in Procs, s \in 1..MaxSessions :
    /\ PcIs(p, "intent") /\ coll = NoColl
    /\ s \notin Sessions /\ \A t \in 1..(s - 1) : t \in Sessions
    /\ coll' = [NoColl EXCEPT !.ses = s]
    /\ proc' = [proc EXCEPT ![p].pc = "start", ![p].ses = s, ![p].step = 1]
    /\ UNCHANGED <<world, raw, adapter, archived, cap, overlapped, acceptFaults>>
\* require_capture_authority: no password, or sudo does not take it.
AuthorityRefused == AcceptFault
IntentRefused == \E p \in Procs :
    /\ PcIs(p, "intent") /\ EndCommand(p)
    /\ \/ coll # NoColl /\ UNCHANGED acceptFaults
       \/ coll = NoColl /\ AuthorityRefused
    /\ UNCHANGED <<world, records, cap, overlapped>>

\* _settled_guard: the network is as it was at the baseline, without the tunnel.
SettledGuard == tunnel = Off
\* The launch is the mutation boundary: the guard and the check of the Host
\* are repeated after the minutes of the DMG proof.
MayStart(p) == MyStep(p) = "launch" => SettledGuard /\ MachineQuiet
StartStep == \E p \in Procs :
    /\ PcIs(p, "start") /\ MayStart(p) /\ AppendTo("started", MyStep(p), proc[p].ses)
    /\ GotoPc(p, "act") /\ UNCHANGED <<world, raw, adapter, archived, cap, overlapped, acceptFaults>>

\* The receipts that the steps accept, as what they say about the machine.
LaunchAccepted == host # Off
ServicesAccepted == host # Off
ProbesAccepted == host # Off
ExtensionAccepted == tunnel # Off
TrafficAccepted == cap.pc = "accepted"
\* The Host that ran the Packet transaction signed its end.
HostReceipt == host # Off
TrafficValid == TrafficAccepted /\ HostReceipt
HostAbsent == host = Off
OffProofAccepted == host = Off /\ tunnel = Off
RuntimeObserved == LaunchAccepted /\ ServicesAccepted /\ ProbesAccepted
TrafficObserved == TrafficValid /\ ExtensionAccepted
ShutdownObserved(st) == IF st = "quit" THEN HostAbsent ELSE OffProofAccepted
Accepted(st) ==
    CASE st = "gatekeeper" -> TRUE
      [] st = "services" -> RuntimeObserved
      [] st = "traffic" -> TrafficObserved
      [] st \in {"quit", "off-proof"} -> ShutdownObserved(st)
      [] OTHER -> FALSE
\* /usr/bin/open of the installed app.
Launch == \E p \in Procs :
    /\ PcIs(p, "act") /\ MyStep(p) = "launch" /\ host' = "collect"
    /\ GotoPc(p, "complete")
    /\ UNCHANGED <<tunnel, coll, raw, adapter, archived, cap, overlapped, acceptFaults>>
\* capture_stop_restore: the Host's own Off case.
StopRestore == \E p \in Procs :
    /\ PcIs(p, "act") /\ MyStep(p) = "stop" /\ host # Off /\ tunnel' = Off /\ GotoPc(p, "complete")
    /\ UNCHANGED <<host, records, cap, overlapped, acceptFaults>>
Observe == \E p \in Procs :
    /\ PcIs(p, "act") /\ Accepted(MyStep(p)) /\ GotoPc(p, "complete")
    /\ cap' = IF MyStep(p) = "traffic" THEN NoCap ELSE cap
    /\ UNCHANGED <<world, records, overlapped, acceptFaults>>
CompleteStep == \E p \in Procs :
    /\ PcIs(p, "complete") /\ AppendTo("completed", MyStep(p), proc[p].ses)
    /\ proc' = [proc EXCEPT ![p].step = @ + 1,
                            ![p].pc = IF proc[p].step = Len(STEPS) THEN "restore" ELSE "start"]
    /\ UNCHANGED <<world, raw, adapter, archived, cap, overlapped, acceptFaults>>

\* The collection was archived under a running collect.
LogAppendFails == \E p \in Procs :
    /\ proc[p].cmd = "collect" /\ proc[p].pc \in {"start", "complete"} /\ coll.ses = Nobody
    /\ EndCommand(p) /\ cap' = NoCap /\ UNCHANGED <<world, records, overlapped, acceptFaults>>
\* tcpdump's exit status and _require_capture_statistic: no drop by the
\* kernel, below the packet cap, every captured packet in the pcap.
CaptureExit == cap.run = "gone" /\ cap.end # "error"
CaptureStatistic == ~cap.dropped /\ cap.end # "cap"
CaptureReceipt == CaptureExit /\ CaptureStatistic /\ cap.seen = 1..STAGES
\* The capture that refuses itself: sudo ended before the poll, ps shows no
\* running tcpdump, no process is left to signal, or the receipt fails.
CaptureRefused(p) ==
    /\ PcIs(p, "act") /\ MyStep(p) = "traffic"
    /\ \/ cap.pc = "send" /\ cap.stage = STAGES /\ cap.run = "gone"
       \/ cap.pc = "find" /\ cap.run # "up"
       \/ cap.pc = "kill" /\ cap.run = "gone"
       \/ cap.pc = "stopped" /\ cap.run = "gone" /\ ~CaptureReceipt
\* _terminate_capture.  A root tcpdump that outlives it, or its collector,
\* writes an unlinked file that no later capture reads.
TerminateCapture == cap' = NoCap
\* The terminal event: mutation_started is set right before the launch's started event.
TerminalOutcome(p) ==
    IF proc[p].step > BOUNDARY \/ (proc[p].step = BOUNDARY /\ ~PcIs(p, "start"))
    THEN <<"recovery_required", "collection">> ELSE Aborted
\* _command: another exit status, too late, or an output that can not be read.
CommandRefused == AcceptFault
CollectFails == \E p \in Procs :
    /\ proc[p].cmd = "collect" /\ proc[p].pc \in {"start", "act", "complete", "restore", "publish"}
    /\ \/ CommandRefused
       \/ PcIs(p, "restore") /\ coll.ses # proc[p].ses /\ UNCHANGED acceptFaults
       \/ CaptureRefused(p) /\ UNCHANGED acceptFaults
    /\ IF coll.ses = Nobody THEN UNCHANGED coll
       ELSE AppendTo(TerminalOutcome(p)[1], TerminalOutcome(p)[2], proc[p].ses)
    /\ EndCommand(p) /\ TerminateCapture
    /\ UNCHANGED <<world, raw, adapter, archived, overlapped>>

\* _settled_guard against the baseline, then _validate_raw_evidence, which
\* also reopens the collection's intent.
Restored == \E p \in Procs :
    /\ PcIs(p, "restore") /\ SettledGuard /\ coll.ses = proc[p].ses /\ GotoPc(p, "publish")
    /\ UNCHANGED <<world, records, cap, overlapped, acceptFaults>>
\* _publish_collected_raw looks for an earlier tree only.
PublishRaw == \E p \in Procs :
    /\ PcIs(p, "publish") /\ raw = Nobody /\ raw' = proc[p].ses /\ GotoPc(p, "marker")
    /\ UNCHANGED <<world, coll, adapter, archived, cap, overlapped, acceptFaults>>
PublishRefused == \E p \in Procs :
    /\ PcIs(p, "publish") /\ raw # Nobody /\ EndCommand(p)
    /\ UNCHANGED <<world, records, cap, overlapped, acceptFaults>>

-----------------------------------------------------------------------------
(* The packet capture of the traffic step.                                 *)

Capturing(p) == PcIs(p, "act") /\ MyStep(p) = "traffic"
\* capture_traffic: only inside the signed Host's own Packet transaction, which
\* is retried while the Host is not ready, in its test state, on its one utun;
\* then tcpdump listens.
HostAnswers == host # Off
HostInTest == tunnel # Off
TunnelInterface == tunnel # Off
Listen == \E p \in Procs :
    /\ Capturing(p) /\ cap = NoCap /\ HostAnswers /\ HostInTest /\ TunnelInterface
    /\ cap' = [NoCap EXCEPT !.pc = "send", !.run = "up"]
    /\ UNCHANGED <<world, records, proc, overlapped, acceptFaults>>
SendMarker == \E p \in Procs :
    /\ Capturing(p) /\ cap.pc = "send" /\ cap.stage < STAGES
    /\ cap' = [cap EXCEPT !.stage = @ + 1,
                          !.seen = IF cap.run = "up" THEN @ \cup {cap.stage + 1} ELSE @]
    /\ UNCHANGED <<world, records, proc, overlapped, acceptFaults>>
\* tcpdump ends by itself, at its packet cap, on an error or on a signal of
\* somebody else (external).  It stays a zombie until its sudo reaps it.
CaptureEnds == \E how \in {"cap", "error", "signal"} :
    /\ cap.run = "up" /\ AcceptFault
    /\ cap' = [cap EXCEPT !.run = "zombie", !.end = how, !.early = cap.pc = "send"]
    /\ UNCHANGED <<world, records, proc, overlapped>>
KernelDrops ==
    /\ cap.run = "up" /\ ~cap.dropped /\ AcceptFault /\ cap' = [cap EXCEPT !.dropped = TRUE]
    /\ UNCHANGED <<world, records, proc, overlapped>>
SudoReaps ==
    /\ cap.run = "zombie" /\ cap' = [cap EXCEPT !.run = "gone"]
    /\ UNCHANGED <<world, records, proc, overlapped, acceptFaults>>
\* _interrupt_capture polls sudo, which outlives its tcpdump for a while,
PollCapture == \E p \in Procs :
    /\ Capturing(p) /\ cap.pc = "send" /\ cap.stage = STAGES /\ cap.run # "gone"
    /\ cap' = [cap EXCEPT !.pc = "find"]
    /\ UNCHANGED <<world, records, proc, overlapped, acceptFaults>>
\* looks its tcpdump up in the output of ps, which must show it running,
FindTcpdump == \E p \in Procs :
    /\ Capturing(p) /\ cap.pc = "find" /\ cap.run = "up" /\ cap' = [cap EXCEPT !.pc = "kill"]
    /\ UNCHANGED <<world, records, proc, overlapped, acceptFaults>>
\* and signals that pid, which succeeds for a zombie too.
Interrupt == \E p \in Procs :
    /\ Capturing(p) /\ cap.pc = "kill" /\ cap.run # "gone" /\ cap' = [cap EXCEPT !.pc = "stopped"]
    /\ UNCHANGED <<world, records, proc, overlapped, acceptFaults>>
\* The interrupted tcpdump prints its statistics and exits (external).
TcpdumpStops ==
    /\ cap.pc = "stopped" /\ cap.run = "up"
    /\ cap' = [cap EXCEPT !.run = "zombie", !.end = "interrupt"]
    /\ UNCHANGED <<world, records, proc, overlapped, acceptFaults>>
\* Mutant: the statistics that tcpdump printed are not read.
AcceptUncounted == \E p \in Procs :
    /\ Capturing(p) /\ cap.pc = "stopped" /\ CaptureExit /\ cap.seen = 1..STAGES
    /\ cap' = [cap EXCEPT !.pc = "accepted"]
    /\ UNCHANGED <<world, records, proc, overlapped, acceptFaults>>
\* The rest of _capture_traffic_bytes: what the stopped tcpdump left is
\* complete and holds every marker.
AcceptCapture == \E p \in Procs :
    /\ Capturing(p) /\ cap.pc = "stopped" /\ CaptureReceipt
    /\ cap' = [cap EXCEPT !.pc = "accepted"]
    /\ UNCHANGED <<world, records, proc, overlapped, acceptFaults>>

-----------------------------------------------------------------------------
(* The marker and the seal, by collect or by resume-seal.                  *)

SealBegin == \E p \in Procs :
    /\ raw # Nobody /\ LogValid /\ raw = coll.ses
    /\ \/ Log = StepPairs /\ adapter = Nobody
          /\ BeginCommand(p, [IdleInvocation EXCEPT !.cmd = "seal", !.pc = "marker", !.ses = raw])
       \/ Log = Completed
          /\ BeginCommand(p, [IdleInvocation EXCEPT !.cmd = "seal", !.pc = "seal", !.ses = raw])
    /\ UNCHANGED <<world, records, cap, acceptFaults>>
\* expected_sequence: the marker follows exactly the fixed steps.
MarkerDue == coll.ses # Nobody /\ (Len(coll.log) = Len(StepPairs) \/ coll.mixed)
Marker == \E p \in Procs :
    /\ PcIs(p, "marker") /\ MarkerDue /\ AppendTo("raw_published", "collection", proc[p].ses)
    /\ GotoPc(p, "seal") /\ UNCHANGED <<world, raw, adapter, archived, cap, overlapped, acceptFaults>>
MarkerRefused == \E p \in Procs :
    /\ PcIs(p, "marker") /\ ~MarkerDue /\ EndCommand(p)
    /\ UNCHANGED <<world, records, cap, overlapped, acceptFaults>>
\* seal_ga_runtime_acceptance: the adapter is derived from the reopened evidence.
Sealable == raw # Nobody /\ LogValid /\ coll.ses = raw /\ Log = Completed
\* An adapter that is there already must be the one of this evidence.
AdapterValid == adapter = raw
SealAdmitted == Sealable /\ (adapter = Nobody \/ AdapterValid)
Seal == \E p \in Procs :
    /\ PcIs(p, "seal") /\ SealAdmitted /\ adapter' = raw /\ EndCommand(p)
    /\ UNCHANGED <<world, coll, raw, archived, cap, overlapped, acceptFaults>>
SealRefused == \E p \in Procs :
    /\ PcIs(p, "seal") /\ ~SealAdmitted /\ EndCommand(p)
    /\ UNCHANGED <<world, records, cap, overlapped, acceptFaults>>

-----------------------------------------------------------------------------
(* recover.                                                                *)

\* Mutant: published evidence does not stop a recovery.
Recoverable == TRUE
\* _require_no_published_runtime_outputs
Unpublished == raw = Nobody /\ adapter = Nobody
RecoverBegin == \E p \in Procs :
    /\ Unpublished /\ LogValid /\ (AbortedEarly => AbortShape)
    /\ BeginCommand(p, [IdleInvocation EXCEPT !.cmd = "recover", !.ses = coll.ses, !.seq = Len(coll.log),
                             !.pc = IF AbortedEarly THEN "archive"
                                    ELSE IF host # Off THEN "quit" ELSE "absent"])
    /\ UNCHANGED <<world, records, cap, acceptFaults>>
\* The operator is asked to quit; only the process table is watched.
RecoverQuit == \E p \in Procs :
    /\ PcIs(p, "quit") /\ HostAbsent /\ AppendTo("completed", "recovery", proc[p].ses)
    /\ GotoPc(p, "absent") /\ UNCHANGED <<world, raw, adapter, archived, cap, overlapped, acceptFaults>>
\* _cfm_tunnel_remnants and _settle_without_cfm_remnants
TunnelRemnant == tunnel # Off
NoRemnant == ~TunnelRemnant
\* Mutant: the absence of the Host is proof enough.
RecoverByAbsence == \E p \in Procs :
    /\ PcIs(p, "absent") /\ HostAbsent /\ AppendTo("recovered", "runtime-cleanup", proc[p].ses)
    /\ GotoPc(p, "restored") /\ UNCHANGED <<world, raw, adapter, archived, cap, overlapped, acceptFaults>>
\* Host absence, signed Off proof, absence again, no network remnant.
RecoverProof == \E p \in Procs :
    /\ PcIs(p, "absent") /\ OffProofAccepted /\ NoRemnant /\ AppendTo("recovered", "runtime-cleanup", proc[p].ses)
    /\ GotoPc(p, "restored") /\ UNCHANGED <<world, raw, adapter, archived, cap, overlapped, acceptFaults>>
\* The marker of an attempt that is archived without any runtime work.
RecoverEarly == \E p \in Procs :
    /\ PcIs(p, "archive") /\ Len(coll.log) = proc[p].seq
    /\ IF Log # <<>> /\ Log[Len(Log)] = RecoveredEarly THEN UNCHANGED coll
       ELSE AppendTo("recovered", "collection", proc[p].ses)
    /\ GotoPc(p, "restored") /\ UNCHANGED <<world, raw, adapter, archived, cap, overlapped, acceptFaults>>
\* _archive_recovered_collection, under the parent lock.
Archive == \E p \in Procs :
    /\ PcIs(p, "restored") /\ Unpublished /\ coll.ses # Nobody /\ proc[p].ses \notin archived
    /\ archived' = archived \cup {proc[p].ses} /\ coll' = NoColl /\ EndCommand(p)
    /\ UNCHANGED <<world, raw, adapter, cap, overlapped, acceptFaults>>
RecoverFails == \E p \in Procs :
    /\ proc[p].cmd = "recover"
    /\ \/ AcceptFault
       \/ PcIs(p, "restored") /\ ~(Unpublished /\ coll.ses # Nobody) /\ UNCHANGED acceptFaults
       \/ proc[p].pc \in {"quit", "absent", "archive"} /\ coll.ses = Nobody /\ UNCHANGED acceptFaults
    /\ EndCommand(p) /\ UNCHANGED <<world, records, cap, overlapped>>

-----------------------------------------------------------------------------
Crash == \E p \in Procs :
    /\ proc[p] # IdleInvocation /\ AcceptFault /\ EndCommand(p) /\ cap' = IF Capturing(p) THEN NoCap ELSE cap
    /\ UNCHANGED <<world, records, overlapped>>
\* The operator at the dashboard (external).
TunnelOn ==
    /\ host # Off /\ tunnel = Off /\ tunnel' = host
    /\ \E p \in Procs : Capturing(p)
    /\ UNCHANGED <<host, records, cap, proc, overlapped, acceptFaults>>
Asked == \E p \in Procs : PcIs(p, "quit") \/ (PcIs(p, "act") /\ MyStep(p) = "quit")
GracefulQuit ==
    /\ host # Off /\ host' = Off /\ tunnel' = Off
    /\ (Asked /\ UNCHANGED acceptFaults) \/ (~Asked /\ AcceptFault)
    /\ UNCHANGED <<records, cap, proc, overlapped>>
AbruptExit ==
    /\ host # Off /\ tunnel # Off /\ AcceptFault /\ host' = Off
    /\ UNCHANGED <<tunnel, records, cap, proc, overlapped>>
\* The next launch reconciles a runtime that was left on.
OperatorOpens ==
    /\ host = Off /\ AcceptFault /\ host' = "operator" /\ tunnel' = Off
    /\ UNCHANGED <<records, cap, proc, overlapped>>

AcceptInit ==
    /\ host = Off /\ tunnel = Off /\ coll = NoColl /\ raw = Nobody /\ adapter = Nobody
    /\ archived = {} /\ cap = NoCap
    /\ proc = [p \in Procs |-> IdleInvocation] /\ overlapped = FALSE /\ acceptFaults = 0
AcceptNext ==
    \/ CollectBegin \/ PublishIntent \/ IntentRefused \/ StartStep \/ Launch \/ StopRestore
    \/ Observe \/ CompleteStep \/ LogAppendFails \/ CollectFails \/ Restored \/ PublishRaw
    \/ PublishRefused \/ Listen \/ SendMarker \/ CaptureEnds \/ KernelDrops \/ SudoReaps
    \/ PollCapture \/ FindTcpdump \/ Interrupt \/ TcpdumpStops \/ AcceptCapture
    \/ SealBegin \/ Marker \/ MarkerRefused \/ Seal \/ SealRefused
    \/ RecoverBegin \/ RecoverQuit \/ RecoverProof \/ RecoverEarly \/ Archive \/ RecoverFails
    \/ Crash \/ TunnelOn \/ GracefulQuit \/ AbruptExit \/ OperatorOpens
AcceptSpec == AcceptInit /\ [][AcceptNext]_acceptVars

-----------------------------------------------------------------------------
(* While invocations do not overlap, the acceptance adapter stays backed   *)
(* by the raw evidence and the complete log of the same collection, through *)
(* any failure and retry of collect, recover and resume-seal.              *)
SealedIsComplete ==
    adapter # Nobody /\ ~overlapped =>
        raw = adapter /\ coll.ses = adapter /\ LogValid /\ Log = Completed

(* When invocations do not overlap, an unfinished collection is archived   *)
(* only after the Host it launched and the tunnel are off again.           *)
ArchivedIsRestored ==
    [][archived' # archived /\ ~overlapped => host # "collect" /\ tunnel # "collect"]_acceptVars

(* Nothing that matched up to the settled end marker is missing from an    *)
(* accepted capture: it holds every marker, it did not end before the end  *)
(* marker had settled, the kernel dropped nothing and its packet cap did   *)
(* not cut it, whatever ended tcpdump between the collector's poll, ps and *)
(* signal (_interrupt_capture, _require_capture_statistic).                *)
CaptureSpansMarkers ==
    cap.pc = "accepted" =>
        cap.seen = 1..STAGES /\ ~cap.early /\ ~cap.dropped /\ cap.end # "cap"

(* No recovery touches a collection whose raw evidence is published: it    *)
(* stays in place with the fixed steps only, for resume-seal and for every *)
(* later validation.                                                       *)
EvidenceKeepsItsCollection ==
    raw # Nobody => coll.ses = raw /\ LogValid /\ Log \in {StepPairs, Completed}
=============================================================================
