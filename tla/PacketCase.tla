------------------------------ MODULE PacketCase ------------------------------
(***************************************************************************)
(* physical_capture/packet.py, packet_host.py and execution.py: the        *)
(* collector's side of one packet case.  begin_capture, exercise_test and  *)
(* finish_capture run between the frames of run_fixed_host_transaction; an *)
(* exception in one of them is answered as a cancelled stage.  tcpdump     *)
(* ends by itself at its record count.  The evidence is accepted when the  *)
(* harness's validator takes the archived records.                         *)
(***************************************************************************)
EXTENDS PacketHost

VARIABLES c, cap
caseVars == <<c, cap>>

\* Cases alike in their control: a LAN peer, a remote capture with its own key,
\* a local capture, and the two that prove that the target is absent.
CaseKinds == {"lan", "dns", "local", "absence"}
STAGES == <<"start", "target", "end">>
StagePlan(kind) == IF kind = "absence" THEN <<"baseline", "test", "restored">> ELSE <<"test", "test", "test">>
\* The packets of one stage at the capture point: a name lookup has two.
Legs(kind) == IF kind = "dns" THEN <<"query", "response">> ELSE <<"segment">>
\* tcpdump -c
RecordCount(kind) == IF kind = "absence" THEN 2 ELSE 3 * Len(Legs(kind))

\* What capture_packet_observations checks before the first case.
SourceChecks == {"source", "pins", "policy"}
NewCase(kind) ==
    [pc |-> "idle", kind |-> kind, at |-> "none", seq |-> 0, stages |-> <<>>, failed |-> FALSE, error |-> FALSE,
     begin |-> "none", test |-> "none", finish |-> "none", testHost |-> FALSE, terminal |-> "none",
     archived |-> FALSE, leaked |-> FALSE, key |-> FALSE, accepted |-> FALSE, unclean |-> FALSE,
     wrong |-> "none", observed |-> "none"]
NoCapture == [st |-> "none", recs |-> <<>>]
CaseTypeOK ==
    /\ c.kind \in CaseKinds /\ Len(c.stages) <= 3 /\ Len(cap.recs) <= RecordCount(c.kind)
    /\ cap.st \in {"none", "running", "exited", "cancelled", "orphan"}
CaseInit ==
    /\ \E k \in CaseKinds, w \in SourceChecks \cup {"none"} : c = [NewCase(k) EXCEPT !.wrong = w]
    /\ cap = NoCapture

CaseAt(pc) == c.pc = pc
CaseGo(rec, pc) == c' = [rec EXCEPT !.pc = pc]
NoFrames == UNCHANGED hostVars
OnlyCase == UNCHANGED <<peerVars, lease, hostVars, cap>>
ToHost(f) == toHost' = IF connected THEN Append(toHost, f) ELSE toHost

-----------------------------------------------------------------------------
(* Frames.                                                                 *)

\* invoke_stage and _send_stage_disposition: the answer to one Host stage.
Answer(rec, seq, doc, pc) ==
    /\ ToHost(Frame(seq, doc, IF doc = "ok" THEN "none" ELSE "cancelled"))
    /\ CaseGo(rec, pc) /\ UNCHANGED <<host, toCollector, connected>>
StageName(seq) == CASE seq = 3 -> "begin" [] seq = 5 -> "test" [] seq = 7 -> "finish"
AfterStage(seq) == CASE seq = 3 -> "await-progress" [] seq = 5 -> "await-terminal" [] seq = 7 -> "await-final"
\* The callback raises.
StageRaises ==
    Answer([c EXCEPT !.failed = TRUE, !.error = TRUE, ![StageName(c.seq)] = "cancelled"],
           c.seq, "failed", AfterStage(c.seq))
StageCompletes(rec) == Answer([rec EXCEPT ![StageName(c.seq)] = "complete"], c.seq, "ok", AfterStage(c.seq))
\* One step of a callback: it goes on or the callback raises.
StageStep(holds, good, next) ==
    IF holds THEN CaseGo(good, next) /\ NoFrames ELSE StageRaises

\* The Host transaction is over: its channel is closed and its proxy killed.
EndTransaction(rec, pc) ==
    /\ connected' = FALSE /\ toCollector' = <<>> /\ CaseGo(rec, pc) /\ UNCHANGED <<host, toHost>>
Raise == EndTransaction(c, "cleanup")
\* A frame of the Host, or none within the transaction's 180 seconds.
Receive(pc, then(_)) ==
    /\ CaseAt(pc) /\ UNCHANGED <<phone, tx, lease, cap>>
    /\ \/ toCollector # <<>> /\ UNCHANGED faults /\ then(Head(toCollector))
       \/ toCollector = <<>> /\ PeerFault /\ Raise
Taken == toCollector' = Tail(toCollector) /\ UNCHANGED <<host, toHost, connected>>

\* The exact frames of the Host, by sequence number and document.
IsBaseline(f) == f.seq = 2 /\ f.doc = "baseline"
IsTest(f) == f.seq = 4 /\ f.doc = "test"
IsRestored(f) == f.seq = 6 /\ f.doc = "restored"
IsAborted(f) == f.seq = 6 /\ f.doc = "aborted"
IsReceipt(f) == f.seq = 8 /\ f.doc = "completed"
\* cfw-packet-host-failed-v5, which may come instead of any of them.
IsFailure(f) == f.doc = "failed"

-----------------------------------------------------------------------------
(* begin_capture.                                                          *)

\* _source_endpoint_policy: the policy documents of the source tree are complete and of one kind.
SourcePolicy == c.wrong # "source"
\* _revalidate_source_pins: they are still the ones that were read first.
SourcePins == SourcePolicy /\ c.wrong # "pins"
EndpointPolicy == c.wrong # "policy"
SourceRefused == CaseAt("idle") /\ ~(SourcePins /\ EndpointPolicy) /\ OnlyCase /\ CaseGo(c, "ended")
\* run_fixed_host_transaction: spawn the proxy, exchange the hellos, ask.
Request ==
    /\ CaseAt("idle") /\ SourcePins /\ EndpointPolicy /\ host.pc \in {"idle", "done"} /\ UNCHANGED <<peerVars, lease, cap>>
    /\ connected' = TRUE /\ host' = NewHost /\ toCollector' = <<>>
    /\ toHost' = <<Frame(1, "request", "none")>> /\ CaseGo(c, "await-first")
AwaitFirst ==
    Receive("await-first", LAMBDA f :
        IF ~IsFailure(f) /\ IsBaseline(f) THEN Taken /\ CaseGo([c EXCEPT !.seq = 3, !.at = "baseline"], "admit-peer") ELSE Raise)
AdmitPeer ==
    /\ CaseAt("admit-peer") /\ UNCHANGED cap
    /\ \/ c.kind # "lan" /\ CaseGo(c, "remote-access") /\ NoFrames /\ UNCHANGED <<peerVars, lease>>
       \/ c.kind = "lan" /\ tx < MaxTransactions /\ AcquireLock(tx + 1) /\ CaseGo(c, "admitting") /\ NoFrames
PeerAdmitted ==
    /\ CaseAt("admitting") /\ lease.pc = "idle" /\ UNCHANGED <<peerVars, lease, cap>>
    /\ StageStep(lease.st = "admitted", c, "start-capture")
\* _prepare_remote_access: the key is on disk before it is imported.
PrepareRemoteAccess ==
    /\ CaseAt("remote-access") /\ UNCHANGED <<phone, tx, lease, cap>>
    /\ \/ c.kind # "dns" /\ CaseGo(c, "start-capture") /\ NoFrames /\ UNCHANGED faults
       \/ c.kind = "dns" /\ CaseGo([c EXCEPT !.key = TRUE], "start-capture") /\ NoFrames /\ UNCHANGED faults
       \/ /\ c.kind = "dns" /\ PeerFault
          /\ Answer([c EXCEPT !.key = TRUE, !.failed = TRUE, !.error = TRUE, !.begin = "cancelled"],
                    3, "failed", "await-progress")
\* start_fixed_command: the child has its own group and both pipes are read.
Spawned == [NoCapture EXCEPT !.st = "running"]
\* _start_capture: a capture that never becomes ready is cancelled.
StartCapture ==
    /\ CaseAt("start-capture") /\ UNCHANGED <<phone, tx, lease>>
    /\ \/ cap' = Spawned /\ CaseGo(c, "before") /\ NoFrames /\ UNCHANGED faults
       \/ cap' = [Spawned EXCEPT !.st = "cancelled"] /\ PeerFault /\ StageRaises
RevalidatePeerBefore ==
    /\ CaseAt("before") /\ UNCHANGED cap
    /\ \/ c.kind # "lan" /\ UNCHANGED <<peerVars, lease>> /\ CaseGo(c, "send") /\ NoFrames
       \/ c.kind = "lan" /\ RevalidateBefore /\ StageStep(lease'.st = "capture-ready", c, "send")

-----------------------------------------------------------------------------
(* _run_stage: the sender, the wire and tcpdump.                           *)

NextStage == Len(c.stages) + 1
Due == NextStage <= 3 /\ StagePlan(c.kind)[NextStage] = c.at
Packets(legs) == [k \in 1..Len(legs) |-> [stage |-> STAGES[NextStage], leg |-> legs[k]]]
\* A blocked target is not on the wire; it may leak, a packet may be sent twice.
OnWire(usual) ==
    IF c.kind = "absence" /\ NextStage = 2
    THEN Packets(IF usual THEN <<>> ELSE Legs(c.kind))
    ELSE Packets(IF usual THEN Legs(c.kind) ELSE <<Legs(c.kind)[1]>> \o Legs(c.kind))
\* tcpdump itself (external): it writes what it sees and ends at its count.
Captured(recs) ==
    LET room == RecordCount(c.kind) - Len(cap.recs)
    IN  IF cap.st # "running" THEN cap
        ELSE [st |-> IF Len(recs) >= room THEN "exited" ELSE "running",
              recs |-> cap.recs \o SubSeq(recs, 1, IF Len(recs) < room THEN Len(recs) ELSE room)]
\* The peer's server only takes connections of the process that serves the session.
Reachable == c.kind = "lan" => lease.packet \in phone.procs
\* The route, its interface and the sender's bind: a stage that is not sent
\* directly needs the address of the tunnel.
Tunnelled == c.kind \in {"dns", "local"} \/ (c.kind = "absence" /\ NextStage # 2)
\* Mutant: whatever interface the route names will do.
RoutedAnyhow == TRUE
Routed == Tunnelled => host.routed
\* _resolve_dns gets no answer, or one without the name.
ResolutionFails == c.kind = "dns" /\ PeerFault
\* _send_datagram, _send_tcp: the socket refuses.
SendFails == c.kind # "dns" /\ PeerFault
\* What a stage was sent in: a lapsed engine may still carry it.
StageState == IF host.snap = "lapsed" /\ host.routed THEN "carried" ELSE host.snap
RunStage ==
    /\ CaseAt("send") /\ Due /\ UNCHANGED <<tx, lease>>
    /\ \/ /\ Reachable /\ Routed /\ NoFrames
          /\ phone' = IF c.kind = "lan" /\ NextStage = 3 THEN [phone EXCEPT !.result = lease.packet] ELSE phone
          /\ \E usual \in BOOLEAN :
              /\ IF usual THEN UNCHANGED faults ELSE PeerFault
              /\ cap' = Captured(OnWire(usual))
              /\ CaseGo([c EXCEPT !.stages = Append(@, StageState),
                             !.leaked = @ \/ (c.kind = "absence" /\ NextStage = 2 /\ ~usual)], "send")
       \/ ~(Reachable /\ Routed) /\ StageRaises /\ UNCHANGED <<phone, faults, cap>>
       \/ Reachable /\ Routed /\ (ResolutionFails \/ SendFails) /\ StageRaises /\ UNCHANGED <<phone, cap>>
\* tcpdump or its remote shell dies.
CaptureDies == cap.st = "running" /\ PeerFault /\ cap' = [cap EXCEPT !.st = "cancelled"]
               /\ UNCHANGED <<phone, tx, lease, hostVars, c>>
StagesSent ==
    /\ CaseAt("send") /\ ~Due /\ UNCHANGED <<peerVars, lease, cap>>
    /\ IF c.seq = 7 THEN CaseGo(c, "archive") /\ NoFrames ELSE StageCompletes(c)

-----------------------------------------------------------------------------
(* The frames that follow, and exercise_test.                              *)

Finishing(f) == [c EXCEPT !.seq = 7, !.at = "restored", !.terminal = f.doc]
\* After a failed start only the terminal frame is accepted.
AwaitProgress ==
    Receive("await-progress", LAMBDA f :
        CASE IsRestored(f) \/ IsAborted(f) -> Taken /\ CaseGo(Finishing(f), "finish")
          [] IsTest(f) /\ c.begin = "complete" ->
                Taken /\ CaseGo([c EXCEPT !.seq = 5, !.at = "test", !.testHost = TRUE], "observe")
          [] OTHER -> Raise)
\* capture_product_state_observation: the newest product event must be that of
\* the Host's frame.  The event of a change by the engine itself may be late.
LatestProductEvent ==
    IF host.snap \in {"drifted", "lapsed"} THEN {host.snap, c.at} ELSE {host.snap}
ObserveProduct ==
    /\ CaseAt("observe") /\ UNCHANGED <<phone, tx, lease, cap>>
    /\ \/ /\ UNCHANGED faults
          /\ \E event \in LatestProductEvent :
              StageStep(event = c.at, [c EXCEPT !.observed = c.at], "send")
       \/ PeerFault /\ StageRaises
AwaitTerminal ==
    Receive("await-terminal", LAMBDA f :
        IF IsRestored(f) \/ IsAborted(f) THEN Taken /\ CaseGo(Finishing(f), "finish") ELSE Raise)

-----------------------------------------------------------------------------
(* finish_capture.                                                         *)

FinishCapture ==
    /\ CaseAt("finish") /\ UNCHANGED <<peerVars, lease, cap>>
    /\ CASE c.terminal = "aborted" -> CaseGo([c EXCEPT !.failed = TRUE], "cleanup-stage") /\ NoFrames
         [] c.terminal = "restored" /\ c.failed -> CaseGo(c, "cleanup-stage") /\ NoFrames
         [] OTHER -> StageStep(c.testHost, c, IF c.kind = "absence" THEN "observe" ELSE "send")
\* StartedCommand.finish drains both pipes and takes only an exit of its own.
CaptureExited == cap.st = "exited"
\* _finish_and_archive_capture waits for tcpdump to reach its count.
FinishAndArchive ==
    /\ CaseAt("archive") /\ UNCHANGED <<peerVars, lease, cap>>
    /\ StageStep(CaptureExited, [c EXCEPT !.archived = TRUE], "after")
RevalidatePeerAfter ==
    /\ CaseAt("after") /\ UNCHANGED cap
    /\ \/ c.kind # "lan" /\ UNCHANGED <<peerVars, lease>> /\ CaseGo(c, "keys") /\ NoFrames
       \/ c.kind = "lan" /\ RevalidateAfter(Len(c.stages))
          /\ StageStep(lease'.st = "capture-validated", c, "close-peer")
ClosePeer ==
    /\ CaseAt("close-peer") /\ UNCHANGED cap /\ NoFrames
    /\ Finish("capture-complete") /\ CaseGo(c, "closing")
PeerClosed ==
    /\ CaseAt("closing") /\ lease.st = "closed" /\ UNCHANGED <<peerVars, lease, cap>>
    /\ StageStep(~lease.unclean, c, "keys")
CleanupKeys ==
    /\ CaseAt("keys") /\ UNCHANGED <<phone, tx, lease, cap>>
    /\ \/ StageCompletes([c EXCEPT !.key = FALSE]) /\ UNCHANGED faults
       \/ c.key /\ PeerFault /\ StageRaises

-----------------------------------------------------------------------------
(* The last frame and finalize.                                            *)

\* _expected_final_failure_code and the checks of a reported success.  Every
\* failure raises, whichever code it names.
MayComplete(f) ==
    /\ IsReceipt(f) /\ ~c.error /\ c.testHost /\ c.terminal = "restored"
    /\ c.begin = "complete" /\ c.test = "complete" /\ c.finish = "complete"
AwaitFinal ==
    Receive("await-final", LAMBDA f :
        IF MayComplete(f) THEN EndTransaction(c, "finalize") ELSE Raise)
At(stage) == {k \in DOMAIN cap.recs : cap.recs[k].stage = stage}
\* One packet of each leg, in order: _tcp_stage_segments, _dns_exchange.
SeenOnce(stage) ==
    /\ Cardinality(At(stage)) = Len(Legs(c.kind))
    /\ \A k \in 1..Len(Legs(c.kind)) : \E j \in At(stage) : cap.recs[j].leg = Legs(c.kind)[k]
    /\ \A j, k \in At(stage) : cap.recs[j].leg = "query" /\ cap.recs[k].leg = "response" => j < k
\* staged_marker_window: exactly one start, then exactly one end.
MarkerWindow ==
    SeenOnce("start") /\ SeenOnce("end") /\ \A j \in At("start"), k \in At("end") : j < k
Finalize ==
    /\ CaseAt("finalize") /\ OnlyCase
    /\ IF ~c.failed /\ c.archived /\ Len(c.stages) = 3 /\ MarkerWindow
       THEN CaseGo(c, "validate") ELSE CaseGo(c, "cleanup")
\* validate_staged_capture_tokens: the target is seen once, or never.
StagedTokens == MarkerWindow /\ (IF c.kind = "absence" THEN At("target") = {} ELSE SeenOnce("target"))
\* harness/packet_evidence checks the case again from its archived documents.
ProductState == c.observed = IF c.kind = "absence" THEN "restored" ELSE "test"
CaptureProvenance == c.begin = "complete" /\ c.test = "complete" /\ c.terminal = "restored"
SendAttempt == Len(c.stages) = 3
LanPeerProvenance ==
    lease.outcome = "capture-complete" /\ lease.before = lease.packet /\ lease.after = lease.packet
ValidateEvidence ==
    /\ CaseAt("validate") /\ OnlyCase
    /\ CaseGo([c EXCEPT !.accepted = /\ StagedTokens /\ ProductState /\ CaptureProvenance /\ SendAttempt
                                     /\ c.kind = "lan" => LanPeerProvenance], "cleanup")

-----------------------------------------------------------------------------
(* cleanup, within finish_capture and after the transaction.               *)

InCleanup == CaseAt("cleanup") \/ CaseAt("cleanup-stage")
CancelCapture ==
    /\ InCleanup /\ cap.st = "running" /\ UNCHANGED <<phone, tx, lease, hostVars>>
    /\ \/ cap' = [cap EXCEPT !.st = "cancelled"] /\ UNCHANGED <<c, faults>>
       \/ PeerFault /\ cap' = [cap EXCEPT !.st = "orphan"] /\ c' = [c EXCEPT !.unclean = TRUE]
AbortLease ==
    /\ InCleanup /\ cap.st # "running" /\ Finish("aborted") /\ UNCHANGED <<cap, c, hostVars>>
LeaseSettled == lease.pc = "idle" /\ lease.st \in {"none", "closed"}
\* Only a lease that cleanup still held and aborted is reported by it: a failed
\* admission or close reported its own cleanup.
RemoveKeys == [c EXCEPT !.unclean = @ \/ (lease.outcome = "aborted" /\ lease.unclean), !.key = FALSE]
CleanupEnds ==
    /\ InCleanup /\ cap.st # "running" /\ LeaseSettled /\ UNCHANGED <<phone, tx, lease, cap>>
    /\ \E rec \in {RemoveKeys} \cup (IF c.key THEN {[RemoveKeys EXCEPT !.unclean = TRUE, !.key = TRUE]} ELSE {}) :
        /\ IF rec.key THEN PeerFault ELSE UNCHANGED faults
        /\ CASE c.pc = "cleanup" -> CaseGo(rec, "ended") /\ NoFrames
             [] c.pc = "cleanup-stage" /\ rec.unclean ->
                   Answer([rec EXCEPT !.error = TRUE, !.finish = "cancelled"], 7, "failed", "await-final")
             [] OTHER ->
                   LET d == IF c.terminal = "aborted" THEN "complete" ELSE "cancelled"
                   IN  Answer([rec EXCEPT !.finish = d], 7, IF d = "complete" THEN "ok" ELSE "failed", "await-final")

CollectorStep ==
    \/ SourceRefused \/ Request \/ AwaitFirst \/ AdmitPeer \/ PeerAdmitted \/ PrepareRemoteAccess \/ StartCapture
    \/ RevalidatePeerBefore \/ RunStage \/ CaptureDies \/ StagesSent \/ AwaitProgress \/ ObserveProduct
    \/ AwaitTerminal \/ FinishCapture \/ FinishAndArchive \/ RevalidatePeerAfter \/ ClosePeer \/ PeerClosed
    \/ CleanupKeys \/ AwaitFinal \/ Finalize \/ ValidateEvidence \/ CancelCapture \/ AbortLease \/ CleanupEnds

\* capture_packet_observations goes on with the next case, or a new collection starts.
NextCase ==
    /\ CaseAt("ended") /\ c.kind = "lan" /\ tx < MaxTransactions
    /\ c' = NewCase("lan") /\ cap' = NoCapture /\ LeaseLost /\ UNCHANGED <<peerVars, hostVars>>
\* The collector is killed: its proxy goes with it, tcpdump and the phone do not.
CollectorDies ==
    /\ c.pc \notin {"idle", "ended"} /\ PeerFault /\ UNCHANGED <<phone, tx, host, toHost>>
    /\ c' = [NewCase(c.kind) EXCEPT !.pc = "ended", !.unclean = TRUE] /\ LeaseLost
    /\ cap' = [cap EXCEPT !.st = IF @ = "running" THEN "orphan" ELSE @]
    /\ connected' = FALSE /\ toCollector' = <<>>

-----------------------------------------------------------------------------
\* What the code can know of a stage: the state the Host then had is that of the
\* plan, except that nothing observes the engine again once the Host observed it
\* restored; from then on the stage was still carried by the tunnel.
SentAsPlanned(k) ==
    LET plan == StagePlan(c.kind)[k]
    IN  c.stages[k] = plan \/ (plan = "restored" /\ c.stages[k] = "carried")
\* Evidence that the validator takes was made as it says: every stage was sent
\* as planned, an absent target was never on the wire, the Host completed and
\* restored, and the phone was cleaned up (packet.py, packet_host.py and the
\* Host's engine/packet_evidence).
AcceptedAsPlanned ==
    c.accepted =>
        /\ \A k \in 1..3 : SentAsPlanned(k)
        /\ ~c.leaked
        /\ host.outcome = "completed" /\ host.snap \in {"restored", "lapsed"}
        /\ c.kind = "lan" => lease.st = "closed" /\ ~lease.unclean /\ phone.app # tx

=============================================================================
