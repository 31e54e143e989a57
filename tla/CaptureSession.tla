---------------------------- MODULE CaptureSession ----------------------------
(***************************************************************************)
(* scripts/physical_capture/session.py and archive.py: the journal of one  *)
(* physical collection attempt.  A file is written under a pending name    *)
(* and renamed exclusively, so a crash leaves no file, a torn or a whole   *)
(* pending file, or the final one.  open refuses a journal with a pending  *)
(* event; recover resolves it.  The session lock admits one command to an  *)
(* attempt, so there is at most one running command.                       *)
(***************************************************************************)
EXTENDS Naturals, FiniteSets, Sequences

CONSTANTS
    MaxAttempts,        \* attempts of one lane
    PlainProducers,     \* producers before performance; they are alike
    MaxEvents,          \* MAX_JOURNAL_EVENTS
    MaxCaptureFaults    \* crashes and failed commands

ASSUME CaptureAssumption ==
    /\ MaxAttempts \in Nat \ {0} /\ PlainProducers \in Nat
    /\ MaxEvents \in Nat /\ MaxCaptureFaults \in Nat

VARIABLES
    att,        \* the archive of every attempt
    run,        \* the running command
    shaped,     \* the attempt whose shaping rules are loaded, or 0
    faults
captureVars == <<att, run, shaped, faults>>

Attempts == 1..MaxAttempts
Producers == PlainProducers + 1
Performance == Producers
ROLES == {"nonce", "receipt"}
Absent == "absent"

-----------------------------------------------------------------------------
(* States and events.                                                      *)

PREPARED == [nonce |-> "nonce_request_prepared", receipt |-> "receipt_request_prepared"]
ATTEMPTED == [nonce |-> "nonce_attempted", receipt |-> "receipt_attempted"]
RECEIVED == [nonce |-> "nonce_received", receipt |-> "receipt_received"]
UNKNOWN == [nonce |-> "nonce_outcome_unknown", receipt |-> "receipt_outcome_unknown"]
BEFORE == [nonce |-> "raw_complete", receipt |-> "bindings_composed"]
TERMINAL_STATES == {"finalized", UNKNOWN["nonce"], UNKNOWN["receipt"], "abandoned"}
Linear == {"initialized", "collecting", "raw_complete", "reports_composed", "bindings_composed"}
ABANDONABLE == Linear \cup {PREPARED[r] : r \in ROLES} \cup {RECEIVED[r] : r \in ROLES}
States == ABANDONABLE \cup TERMINAL_STATES \cup {ATTEMPTED[r] : r \in ROLES}
\* The events of one role carry it; the others have role "-".
Event(e, r) == [ev |-> e, role |-> r]
Abandon == Event("session_abandoned", "-")
Discarded == Event("pre_send_attempt_discarded", "-")
Unknown(r) == Event("outcome_unknown", r)

\* _LINEAR_TRANSITIONS
LinearTransition(e) ==
    CASE e.ev = "session_started" -> <<Absent, "initialized">>
      [] e.ev = "collection_started" -> <<"initialized", "collecting">>
      [] e.ev = "raw_completed" -> <<"collecting", "raw_complete">>
      [] e.ev = "request_prepared" -> <<BEFORE[e.role], PREPARED[e.role]>>
      [] e.ev = "attempt_started" -> <<PREPARED[e.role], ATTEMPTED[e.role]>>
      [] e.ev = "pre_send_failed" -> <<ATTEMPTED[e.role], PREPARED[e.role]>>
      [] e.ev = "response_recorded" -> <<ATTEMPTED[e.role], RECEIVED[e.role]>>
      [] e.ev = "outcome_unknown" -> <<ATTEMPTED[e.role], UNKNOWN[e.role]>>
      [] e.ev = "reports_composed" -> <<RECEIVED["nonce"], "reports_composed">>
      [] e.ev = "bindings_composed" -> <<"reports_composed", "bindings_composed">>
      [] e.ev = "run_finalized" -> <<RECEIVED["receipt"], "finalized">>
\* _transition_for: the state after the event, or Absent if it is refused.
TransitionFor(e, st) ==
    CASE e = Discarded -> IF st \in {PREPARED[r] : r \in ROLES} THEN st ELSE Absent
      [] e = Abandon -> IF st \in ABANDONABLE THEN "abandoned" ELSE Absent
      [] OTHER -> IF LinearTransition(e)[1] = st THEN LinearTransition(e)[2] ELSE Absent

-----------------------------------------------------------------------------
(* One attempt's archive.                                                  *)

FileStates == {"none", "torn", "whole", "final"}
NoPend == [e |-> Event("none", "-"), bind |-> "none", torn |-> FALSE, resolution |-> FALSE]
NoIntent == [e |-> Event("none", "-"), seq |-> 0]
NoShaping == [intent |-> "none", failed |-> "none", restored |-> "none", ledger |-> "none",
              recoveries |-> 0, complete |-> FALSE, torn |-> FALSE]
NewAttempt ==
    [dir |-> Absent, st |-> Absent, from |-> Absent, seq |-> 0, bind |-> "none",
     pend |-> NoPend, intent |-> NoIntent, inputs |-> FALSE,
     done |-> 0, marker |-> "none", checkpoint |-> "none", ran |-> [h \in 1..Producers |-> 0],
     failure |-> "none", failureRecovery |-> FALSE, shaping |-> NoShaping,
     signingTime |-> "none", sent |-> [r \in ROLES |-> 0]]
Idle == [cmd |-> "none", a |-> 0, pc |-> "idle", h |-> 0, role |-> "-",
         bind |-> "none", failing |-> FALSE, unclean |-> FALSE]

CaptureTypeOK ==
    /\ \A a \in Attempts :
        /\ att[a].dir \in {Absent, "open", "quarantined"}
        /\ att[a].st \in States \cup {Absent} /\ att[a].seq \in 0..MaxEvents
        /\ att[a].done \in 0..Producers
        /\ {att[a].marker, att[a].checkpoint, att[a].signingTime} \subseteq FileStates
        /\ att[a].failure \in FileStates \cup {"stale"}
    /\ run.a \in 0..MaxAttempts /\ shaped \in 0..MaxAttempts
    /\ faults \in 0..MaxCaptureFaults

CaptureInit ==
    /\ att = [a \in Attempts |-> NewAttempt]
    /\ run = Idle /\ shaped = 0 /\ faults = 0

A == att[run.a]
At(pc) == run # Idle /\ run.pc = pc
Goto(pc) == run' = [run EXCEPT !.pc = pc]
Exit == run' = Idle
Fault == faults < MaxCaptureFaults /\ faults' = faults + 1
\* The running command changes one field of its attempt's archive.
Set(rec) == att' = [att EXCEPT ![run.a] = rec]
Same == UNCHANGED <<shaped, faults>>

\* last_event_view: the journal's tip.
LastEventView(rec) == [from |-> rec.from, to |-> rec.st, binding |-> rec.bind]
\* _append_locked: the event that is due goes to the next sequence number.
Appended(rec, e, bind) ==
    [rec EXCEPT !.st = TransitionFor(e, rec.st), !.from = rec.st, !.seq = @ + 1, !.bind = bind,
                !.pend = NoPend]
CanAppend(rec, e) == TransitionFor(e, rec.st) # Absent /\ rec.seq < MaxEvents
\* The event is published and the command goes on.
Append1(e, bind, pc) ==
    /\ CanAppend(A, e) /\ Set(Appended(A, e, bind)) /\ Goto(pc) /\ Same
\* write_bytes is cut off by a crash before its exclusive rename.
CrashAppending(e, bind, isResolution) ==
    /\ CanAppend(A, e) /\ Fault /\ Exit /\ UNCHANGED shaped
    /\ \E torn \in BOOLEAN :
        Set([A EXCEPT !.pend = [e |-> e, bind |-> bind, torn |-> torn, resolution |-> isResolution]])
\* write_bytes fails and unlinks its pending file, or the journal is full.  When it
\* raises after the rename and the command ends, the event is in the journal: that is
\* Append1 and CrashBetween.
AppendFails(e, pc) ==
    /\ UNCHANGED <<att, shaped>> /\ (IF CanAppend(A, e) THEN Fault ELSE UNCHANGED faults)
    /\ IF pc = "idle" THEN Exit ELSE run' = [run EXCEPT !.pc = pc, !.failing = TRUE]
\* It raises after the rename and the command goes on to record its failure, with the
\* snapshot that it had before the event.
AppendRaises(e, bind, pc) ==
    /\ CanAppend(A, e) /\ Set(Appended(A, e, bind)) /\ Goto(pc) /\ Fault /\ UNCHANGED shaped
\* An archive file that the next run reads only if it was published.
CrashWriting(rec) == Fault /\ Exit /\ Set(rec) /\ UNCHANGED shaped

-----------------------------------------------------------------------------
(* create, open and recover.                                               *)

\* _replay_resolution_intents: an intent whose event is not yet in the journal.
Unresolved(rec) == rec.intent.seq = rec.seq + 1
\* _validate_resolution_intent_value: the event may follow the state that it resolves.
ResolutionAllowed(e, st) == TransitionFor(e, st) # Absent
\* open
Opens(rec) == rec.dir = "open" /\ rec.st # Absent /\ rec.pend = NoPend /\ ~Unresolved(rec)
\* A resolved intent whose event is the journal's tip.
ResolutionAtTip(rec) == rec.intent.seq = rec.seq /\ rec.seq > 0

\* create: mkdir of the attempt, its lock and journal directory.
Create ==
    /\ At("create") /\ A.dir = Absent
    /\ Set([A EXCEPT !.dir = "open"]) /\ Goto("start") /\ Same
SessionStarted ==
    /\ At("start")
    /\ \/ Append1(Event("session_started", "-"), "intent", "inputs")
       \/ CrashAppending(Event("session_started", "-"), "intent", FALSE)
       \/ AppendFails(Event("session_started", "-"), "idle")

\* _has_uninitialized_tombstone, or a journal without its first event.
Uninitialized(rec) == rec.st = Absent
\* read_pending_fragment: what a crash left of an event.
Fragment(rec) == rec.pend.torn
\* discard_pending
Discard(rec) == [rec EXCEPT !.pend = NoPend]
\* recover with and without discard_incomplete.
Discards == run.cmd = "recover_journal"
\* _quarantine_uninitialized_session: a tombstone, then the discard; both are
\* repeated without effect after a crash.
Quarantine ==
    /\ At("recover") /\ Uninitialized(A)
    /\ A.pend = NoPend \/ (Fragment(A) /\ Discards)
    /\ Exit /\ Same
    /\ Set([Discard(A) EXCEPT !.dir = "quarantined"])
\* _recover_one_pending publishes a whole event other than an attempt.
RecoverWhole ==
    /\ At("recover") /\ A.pend # NoPend /\ ~Fragment(A) /\ A.pend.e.ev # "attempt_started"
    /\ Set(Appended(A, A.pend.e, A.pend.bind)) /\ Goto("intents") /\ Same
\* The event that closes a pending one: _recover_partial_pending.
Resolution(rec) ==
    IF ~Fragment(rec) THEN Discarded
    ELSE IF \E r \in ROLES : rec.st = ATTEMPTED[r]
         THEN Unknown(CHOOSE r \in ROLES : rec.st = ATTEMPTED[r])
         ELSE Abandon
MustResolve ==
    /\ A.pend # NoPend /\ A.st \notin TERMINAL_STATES \cup {Absent}
    /\ (IF Fragment(A) THEN Discards ELSE A.pend.e.ev = "attempt_started")
\* _write_or_reopen_resolution_intent: the intent names the pending file by
\* its name, size and digest; another pending file makes other bytes.
IntentReopens == Unresolved(A) => ~A.pend.resolution
WriteIntent ==
    /\ At("recover") /\ MustResolve /\ IntentReopens
    /\ Set([A EXCEPT !.intent = [e |-> IF Unresolved(A) THEN A.intent.e ELSE Resolution(A),
                                 seq |-> A.seq + 1]])
    /\ Goto("discard") /\ Same
DiscardPending ==
    /\ At("discard") /\ Set(Discard(A)) /\ Goto("intents") /\ Same
\* The recovery refuses; the command ends with an error.
RecoverRefused ==
    /\ At("recover") /\ A.pend # NoPend
    /\ \/ Fragment(A) /\ ~Discards
       \/ MustResolve /\ ~IntentReopens
    /\ Exit /\ Same /\ UNCHANGED att
\* recover goes on with the intents.
RecoverClean ==
    /\ At("recover") /\ ~Uninitialized(A) /\ A.pend = NoPend
    /\ Goto("intents") /\ Same /\ UNCHANGED att
\* _replay_resolution_intents with complete_unresolved.
ReplayIntents ==
    /\ At("intents")
    /\ \/ /\ ~Unresolved(A) /\ Goto("recovered") /\ Same /\ UNCHANGED att
       \/ /\ Unresolved(A) /\ ResolutionAllowed(A.intent.e, A.st)
          /\ \/ Append1(A.intent.e, "resolution", "recovered")
             \/ CrashAppending(A.intent.e, "resolution", TRUE)
             \/ AppendFails(A.intent.e, "idle")
\* The process dies between two writes.
CrashBetween ==
    /\ run # Idle /\ Fault /\ Exit /\ UNCHANGED <<att, shaped>>

SessionNext ==
    \/ Create \/ SessionStarted \/ Quarantine
    \/ RecoverWhole \/ WriteIntent \/ DiscardPending \/ RecoverRefused \/ RecoverClean
    \/ ReplayIntents \/ CrashBetween
=============================================================================
