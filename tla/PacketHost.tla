------------------------------ MODULE PacketHost ------------------------------
(***************************************************************************)
(* The transaction the Host runs for one packet case (apps/cfw-tauri-shell *)
(* engine/packet_evidence) and the frames it exchanges with the collector. *)
(* The Host applies the test plan between two stages of the collector and  *)
(* always ends by restoring the baseline or by quarantining the engine.  A *)
(* stage of the collector is given 60 seconds; afterwards the Host goes on *)
(* alone, and the collector's late answer is still in the channel.         *)
(***************************************************************************)
EXTENDS PacketLanLease

VARIABLES host, toHost, toCollector, connected
hostVars == <<host, toHost, toCollector, connected>>

\* "drifted": the engine changed under the Host before it restored the baseline;
\* "lapsed": after the restored snapshot was observed.
Snapshots == {"baseline", "test", "failed", "drifted", "restored", "lapsed", "quarantined", "unproven"}
HostPcs == {"idle", "await-begin", "apply", "await-test", "restore", "quarantine", "finish",
            "await-finish", "done"}
\* routed: the tunnel and its routes are there.
NewHost == [pc |-> "idle", snap |-> "baseline", routed |-> TRUE, admitted |-> FALSE, begun |-> FALSE,
            tested |-> FALSE, code |-> "none", terminal |-> "none", outcome |-> "none"]
Frame(seq, doc, code) == [seq |-> seq, doc |-> doc, code |-> code]

HostTypeOK == host.pc \in HostPcs /\ host.snap \in Snapshots /\ Len(toHost) <= 3 /\ Len(toCollector) <= 3
HostInit == host = NewHost /\ toHost = <<>> /\ toCollector = <<>> /\ connected = FALSE

ToCollector(f) == toCollector' = IF connected THEN Append(toCollector, f) ELSE toCollector
HostGo(rec, pc) == host' = [rec EXCEPT !.pc = pc]
HostAt(pc) == host.pc = pc
\* The first error is kept, except where the code overwrites it.
Failing(rec, code) == [rec EXCEPT !.code = IF @ = "none" THEN code ELSE @]

-----------------------------------------------------------------------------
(* Stages of the collector.                                                *)

\* stage_result
StageResult(f, seq) ==
    IF f.seq # seq THEN "control_channel_failed" ELSE IF f.doc = "ok" THEN "none" ELSE f.code
\* run_stage: the answer, the end of the channel, or the timeout.
StageEnds(pc, seq, next(_)) ==
    /\ HostAt(pc) /\ UNCHANGED <<toCollector, connected>>
    /\ \/ /\ toHost # <<>> /\ toHost' = Tail(toHost) /\ UNCHANGED faults
          /\ next(StageResult(Head(toHost), seq))
       \/ toHost = <<>> /\ ~connected /\ UNCHANGED <<toHost, faults>> /\ next("control_channel_failed")
       \/ connected /\ PeerFault /\ UNCHANGED toHost /\ next("timeout")

\* execute_packet_evidence_transaction_with: the baseline is a ready tunnel or the
\* case is refused before anything was started.
HostAdmit ==
    /\ HostAt("idle") /\ toHost # <<>> /\ Head(toHost).seq = 1 /\ toHost' = Tail(toHost)
    /\ UNCHANGED connected
    /\ \/ /\ ToCollector(Frame(2, "baseline", "none")) /\ UNCHANGED faults
          /\ HostGo([host EXCEPT !.admitted = TRUE], "await-begin")
       \/ /\ PeerFault /\ ToCollector(Frame(8, "failed", "refused"))
          /\ HostGo([host EXCEPT !.outcome = "failed"], "done")
BeginEnds ==
    StageEnds("await-begin", 3,
        LAMBDA code : IF code = "none" THEN HostGo([host EXCEPT !.begun = TRUE], "apply")
                      ELSE HostGo(Failing(host, code), "restore"))
\* set_mode_if_snapshot with the baseline, then the observation of the test snapshot.
ApplyTest ==
    /\ HostAt("apply") /\ UNCHANGED <<toHost, connected>>
    /\ CASE host.snap = "drifted" ->
              /\ HostGo(Failing(host, "test_apply_failed"), "quarantine")
              /\ UNCHANGED <<toCollector, faults>>
         [] OTHER ->
              \/ /\ ToCollector(Frame(4, "test", "none")) /\ UNCHANGED faults
                 /\ HostGo([host EXCEPT !.snap = "test", !.tested = TRUE], "await-test")
              \/ /\ PeerFault /\ UNCHANGED toCollector
                 /\ \E s \in {"test", "failed"} :
                     HostGo(Failing([host EXCEPT !.snap = s], "test_apply_failed"), "restore")
\* Mutant: a test stage that failed is finished without restoring the baseline.
TestEndsInPlace ==
    StageEnds("await-test", 5, LAMBDA code :
        HostGo([Failing(host, code) EXCEPT !.terminal = "restored"], IF code = "none" THEN "restore" ELSE "finish"))
TestEnds == StageEnds("await-test", 5, LAMBDA code : HostGo(Failing(host, code), "restore"))

-----------------------------------------------------------------------------
(* Restoring, quarantining and the terminal stage.                         *)

\* The baseline is restored only over the snapshot the Host itself left.
\* restore_and_finish, after a begin stage that failed or a panic, takes the
\* snapshot as it is now.
Restores == ~(host.snap = "drifted" /\ host.begun /\ host.code # "panicked")
Back(terminal) == [host EXCEPT !.snap = "restored", !.routed = TRUE, !.terminal = terminal]
RestoreBaseline ==
    /\ HostAt("restore") /\ UNCHANGED <<toHost, toCollector, connected>>
    /\ \/ Restores /\ UNCHANGED faults /\ HostGo(Back("restored"), "finish")
       \/ /\ PeerFault   \* the restored snapshot could not be observed
          /\ Restores
          /\ HostGo([Back("aborted") EXCEPT !.code = "observation_failed"], "finish")
       \/ /\ PeerFault   \* the DNS transaction could not be observed
          /\ Restores /\ host.tested /\ host.code # "panicked"
          /\ HostGo([Back("restored") EXCEPT !.code = "observation_failed"], "finish")
       \/ /\ IF Restores THEN PeerFault ELSE UNCHANGED faults
          /\ HostGo([host EXCEPT !.code = "restore_unproven",
                          !.snap = IF @ = "drifted" THEN @ ELSE "failed"], "quarantine")
\* recover_after_panic: the admitted transaction panicked, at most once.  The
\* baseline is restored, unless the terminal callback was already taken.
PanicSnapshots ==
    IF host.snap = "drifted" THEN {"drifted"}
    ELSE {host.snap, "failed", IF HostAt("apply") THEN "test" ELSE "restored"}
RecoverAfterPanic ==
    /\ host.begun /\ host.code # "panicked" /\ PeerFault /\ UNCHANGED <<toHost, connected>>
    /\ \/ /\ host.pc \in {"apply", "restore"} /\ UNCHANGED toCollector
          /\ \E s \in PanicSnapshots : HostGo([host EXCEPT !.snap = s, !.code = "panicked"], "restore")
       \/ /\ HostAt("await-finish") /\ ToCollector(Frame(8, "failed", "panicked"))
          /\ HostGo([host EXCEPT !.code = "panicked", !.outcome = "failed"], "done")
Quarantine ==
    /\ HostAt("quarantine") /\ UNCHANGED <<toHost, toCollector, connected>>
    /\ \/ /\ UNCHANGED faults
          /\ HostGo([host EXCEPT !.snap = "quarantined", !.routed = FALSE, !.terminal = "aborted"], "finish")
       \/ /\ PeerFault
          /\ HostGo([host EXCEPT !.snap = "unproven", !.terminal = "aborted",
                          !.code = "quarantine_failed"], "finish")
\* finish_terminal: the terminal callback is taken once.
FinishTerminal ==
    /\ HostAt("finish") /\ UNCHANGED <<toHost, connected, faults>>
    /\ ToCollector(Frame(6, host.terminal, host.code)) /\ HostGo(host, "await-finish")
\* An error of the terminal stage hides the earlier one.
FinalCode(code) == IF code = "none" THEN host.code ELSE code
FinishEnds ==
    /\ HostAt("await-finish") /\ UNCHANGED connected
    /\ \E code \in {"none", "control_channel_failed", "timeout", "cancelled"} :
        /\ \/ /\ toHost # <<>> /\ code = StageResult(Head(toHost), 7)
              /\ toHost' = Tail(toHost) /\ UNCHANGED faults
           \/ toHost = <<>> /\ ~connected /\ code = "control_channel_failed" /\ UNCHANGED <<toHost, faults>>
           \/ connected /\ PeerFault /\ code = "timeout" /\ UNCHANGED toHost
        /\ LET ok == FinalCode(code) = "none" /\ host.tested
           IN  /\ ToCollector(Frame(8, IF ok THEN "completed" ELSE "failed", FinalCode(code)))
               /\ HostGo([host EXCEPT !.code = FinalCode(code),
                               !.outcome = IF ok THEN "completed" ELSE "failed"], "done")

\* The engine changes under the transaction by its own failure, at any time and
\* with or without its tunnel.
EngineDrifts ==
    /\ host.admitted /\ host.snap \in {"baseline", "test", "restored"} /\ host.pc # "done" /\ PeerFault
    /\ \E up \in BOOLEAN :
        host' = [host EXCEPT !.snap = IF @ = "restored" THEN "lapsed" ELSE "drifted", !.routed = up]
    /\ UNCHANGED <<toHost, toCollector, connected>>

HostStep ==
    \/ HostAdmit \/ BeginEnds \/ ApplyTest \/ TestEnds \/ RestoreBaseline \/ RecoverAfterPanic
    \/ Quarantine \/ FinishTerminal \/ FinishEnds \/ EngineDrifts

-----------------------------------------------------------------------------
\* Whatever the collector, the channel, the clock and a panic do, an admitted
\* transaction comes to its end with the baseline restored or the engine
\* quarantined, never in the test state or with a drift it did not settle; a
\* quarantine that failed is reported.
RestoredOrQuarantined ==
    host.pc \in {"finish", "await-finish", "done"} /\ host.admitted =>
        \/ host.snap \in {"restored", "lapsed", "quarantined"}
        \/ host.snap = "unproven" /\ host.code # "none"

=============================================================================
