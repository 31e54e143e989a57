---------------------------- MODULE CaptureProofs ----------------------------
(***************************************************************************)
(* Proofs about PhysicalCapture for every number of attempts, producers,   *)
(* events, recoveries and faults.  The inductive invariant says what an    *)
(* attempt's archive may hold whoever reads it (AttemptOK), what the       *)
(* attempts have to do with one another (Closings), what loaded rules mean *)
(* (Owed), and what the running command relies on at its label (RunOK).    *)
(* The second part is about RuntimeAcceptance.                             *)
(***************************************************************************)
EXTENDS RuntimeAcceptance, PhysicalCapture, TLAPS

\* Checks that are one comparison on the abstract state.
USE DEF IntentLoads, AuthorityRefused, HostReceipt, TrafficValid, CommandRefused, HostAnswers,
        TunnelInterface, AdapterValid, SealAdmitted, LastEventView, ResolutionAllowed, Uninitialized,
        Fragment, Discard, CompletedProducers, SessionIdentified, DescriptorsRefused, CompleteShaping,
        WriteOrReopenExact, RestorationFailure, RecoveryRecords, RecoveryComplete

-----------------------------------------------------------------------------
(* The inductive invariant.                                                *)

PlainEvents == {"session_started", "collection_started", "raw_completed", "reports_composed",
                "bindings_composed", "run_finalized"}
RoleEvents == {"request_prepared", "attempt_started", "pre_send_failed", "response_recorded",
               "outcome_unknown"}
Resolutions == {Discarded, Abandon} \cup {Unknown(r) : r \in ROLES}
Events == {Event(e, "-") : e \in PlainEvents} \cup {Event(e, r) : e \in RoleEvents, r \in ROLES}
            \cup {Discarded, Abandon}
Binds == {"none", "intent", "resolution", "failure", "failure_recovery", "shaping", "manifest",
          "request", "restart", "response", "reports", "bindings", "record"}
Closers == {"none", "failure", "failure_recovery", "shaping"}
Pends == [e : Events, bind : Binds, torn : BOOLEAN, resolution : BOOLEAN] \cup {NoPend}
Intents == [e : Resolutions, seq : Nat] \cup {NoIntent}
Shapings == [intent : FileStates, failed : FileStates, restored : FileStates, ledger : FileStates,
             recoveries : 0..MaxRecoveries, complete : BOOLEAN, torn : BOOLEAN]
Archives ==
    [dir : {Absent, "open", "quarantined"}, st : States \cup {Absent}, from : States \cup {Absent},
     seq : 0..MaxEvents, bind : Binds, pend : Pends, intent : Intents, inputs : BOOLEAN,
     done : 0..Producers, marker : FileStates, checkpoint : FileStates,
     ran : [1..Producers -> 0..1], failure : FileStates \cup {"stale"}, failureRecovery : BOOLEAN,
     shaping : Shapings, signingTime : FileStates, sent : [ROLES -> 0..1]]

\* The states in which nothing of the role was sent.
Unsent(r) ==
    {Absent, "initialized", "collecting", "raw_complete", PREPARED["nonce"]} \cup
    (IF r = "nonce" THEN {}
     ELSE {ATTEMPTED["nonce"], RECEIVED["nonce"], UNKNOWN["nonce"], "reports_composed",
           "bindings_composed", PREPARED["receipt"]})
SentOK(rec) == \A r \in ROLES : rec.st \in Unsent(r) => rec.sent[r] = 0
\* A pending event still fits the journal, and takes no POST back.
PendOK(rec) ==
    rec.pend # NoPend =>
        /\ TransitionFor(rec.pend.e, rec.st) # Absent /\ rec.seq < MaxEvents
        /\ rec.pend.e.ev = "pre_send_failed" => rec.sent[rec.pend.e.role] = 0
\* A handler ran only for a checkpoint, or behind the marker that is there.
RanOK(rec) ==
    \A h \in 1..Producers :
        rec.ran[h] = 1 => h <= rec.done \/ (h = rec.done + 1 /\ rec.marker = "final")
ShapingOK(rec) ==
    rec.shaping # NoShaping =>
        rec.done = Producers \/ (rec.done + 1 = Producers /\ rec.marker = "final")
AttemptOK(rec) ==
    /\ rec \in Archives
    /\ rec.intent.seq <= rec.seq + 1
    /\ rec.dir = Absent => rec = NewAttempt
    /\ SentOK(rec) /\ PendOK(rec) /\ RanOK(rec) /\ ShapingOK(rec)

IsClosed(rec) == rec.dir = "quarantined" \/ rec.st = "abandoned"
Closings == \A a, b \in Attempts : a < b /\ att[b].dir # Absent => IsClosed(att[a])

Owed(rec) ==
    /\ rec.dir = "open" /\ rec.st = "collecting" /\ rec.pend = NoPend /\ ~Unresolved(rec)
    /\ rec.done + 1 = Producers /\ rec.marker = "final" /\ ~Pending(rec.checkpoint) /\ NoFailure(rec)
    /\ rec.shaping.intent = "final" /\ rec.shaping.restored = "none" /\ rec.shaping.complete = FALSE

Recovering == {"recover", "discard", "intents", "recovered", "resume"}
Producing == {"handler", "checkpoint", "shaping_intent", "apply", "restore", "series",
              "record_failed", "ledger"}
Shaping == {"apply", "restore", "series", "record_failed"}
Unsending == {"client", "send", "pre_send_failed"}
\* Where the rules of the command's own attempt may be loaded.
MayOwe == {"recover", "intents", "recovered", "resume", "collect", "recover_shaping",
           "recover_journal", "reload", "record_recovery", "apply", "restore", "series", "record_failed",
           "done", "finalize"}
Roled == Unsending \cup {"interrupted", "prepare", "attempt", "response", "outcome_unknown",
                         "response_recorded"}
Labels == MayOwe \cup Producing \cup Roled \cup
          {"create", "start", "discard", "inputs", "begin", "fail", "stale_failure", "abandon",
           "freeze", "signing_time", "reports", "bindings", "record"}
Runs == [cmd : {"initialize", "collect", "recover_shaping", "recover_journal", "finalize"},
         a : Attempts, pc : Labels, h : 0..Producers, role : ROLES \cup {"-"},
         bind : Closers, failing : BOOLEAN, unclean : BOOLEAN]
RunOK(ru, rec, sh) ==
    /\ ru \in Runs
    /\ ru.pc \notin {"recover", "discard"} => rec.pend = NoPend
    /\ ru.pc \notin {"recover", "discard", "intents"} => ~Unresolved(rec)
    /\ ru.pc = "discard" => rec.pend # NoPend
    /\ ru.pc \notin MayOwe => sh # ru.a
    /\ rec.dir = IF ru.pc = "create" THEN Absent ELSE "open"
    /\ ru.pc \in Recovering => ru.cmd \in {"collect", "recover_shaping", "recover_journal"}
    /\ ru.pc \in Recovering \ {"resume"} => ru.cmd # "collect"
    /\ ru.pc = "collect" => (rec.st = "collecting" => NoFailure(rec)) /\ ru.h \in 1..Producers
    /\ ru.pc = "resume" => (ru.cmd = "collect" => ru.h \in 1..Producers)
    /\ ru.pc \in Producing =>
        /\ rec.st = "collecting" /\ NoFailure(rec) /\ rec.marker = "final"
        /\ ~Pending(rec.checkpoint) /\ ru.h = rec.done + 1
    /\ ru.pc \in {"handler", "shaping_intent"} => rec.ran[ru.h] = 0
    /\ ru.pc = "shaping_intent" => ru.h = Producers /\ rec.shaping = NoShaping
    /\ ru.pc \in Shaping \cup {"ledger"} => ru.h = Producers
    /\ ru.pc \in Shaping =>
        rec.shaping.intent = "final" /\ rec.shaping.restored = "none" /\ rec.shaping.complete = FALSE
    /\ ru.pc = "series" => ru.unclean \/ sh # ru.a
    /\ ru.pc \in {"reload", "record_recovery"} => rec.shaping.intent = "final"
    /\ ru.pc = "record_recovery" => ru.failing \/ sh # ru.a
    /\ ru.pc = "reload" => rec.shaping.recoveries < MaxRecoveries
    /\ ru.pc = "record_recovery" => rec.shaping.recoveries < MaxRecoveries
    /\ ru.pc \in Roled => ru.role \in ROLES
    /\ ru.pc \in Unsending => rec.st = ATTEMPTED[ru.role] /\ rec.sent[ru.role] = 0
CreateOK == run.pc = "create" => \A b \in Attempts : b < run.a => IsClosed(att[b])

ArchivesOK ==
    /\ DOMAIN att = Attempts /\ att = [a \in Attempts |-> att[a]]
    /\ \A a \in Attempts : AttemptOK(att[a])
    /\ Closings
    /\ shaped \in Attempts \cup {0} /\ (shaped # 0 => Owed(att[shaped]))
    /\ faults \in 0..MaxCaptureFaults
CommandOK == run # Idle => RunOK(run, A, shaped) /\ CreateOK
CaptureInv == ArchivesOK /\ CommandOK

-----------------------------------------------------------------------------
(* The events and the states they lead to.                                 *)

LEMMA Names ==
    /\ PREPARED["nonce"] = "nonce_request_prepared" /\ PREPARED["receipt"] = "receipt_request_prepared"
    /\ ATTEMPTED["nonce"] = "nonce_attempted" /\ ATTEMPTED["receipt"] = "receipt_attempted"
    /\ RECEIVED["nonce"] = "nonce_received" /\ RECEIVED["receipt"] = "receipt_received"
    /\ UNKNOWN["nonce"] = "nonce_outcome_unknown" /\ UNKNOWN["receipt"] = "receipt_outcome_unknown"
    /\ BEFORE["nonce"] = "raw_complete" /\ BEFORE["receipt"] = "bindings_composed"
BY DEF PREPARED, ATTEMPTED, RECEIVED, UNKNOWN, BEFORE

LEMMA PlainTransition ==
    \A st :
        /\ TransitionFor(Event("session_started", "-"), st) = IF Absent = st THEN "initialized" ELSE Absent
        /\ TransitionFor(Event("collection_started", "-"), st)
            = IF "initialized" = st THEN "collecting" ELSE Absent
        /\ TransitionFor(Event("raw_completed", "-"), st)
            = IF "collecting" = st THEN "raw_complete" ELSE Absent
        /\ TransitionFor(Event("reports_composed", "-"), st)
            = IF RECEIVED["nonce"] = st THEN "reports_composed" ELSE Absent
        /\ TransitionFor(Event("bindings_composed", "-"), st)
            = IF "reports_composed" = st THEN "bindings_composed" ELSE Absent
        /\ TransitionFor(Event("run_finalized", "-"), st)
            = IF RECEIVED["receipt"] = st THEN "finalized" ELSE Absent
BY DEF TransitionFor, LinearTransition, Event, Discarded, Abandon

LEMMA RoleTransition ==
    \A r \in ROLES : \A st :
        /\ TransitionFor(Event("request_prepared", r), st) = IF BEFORE[r] = st THEN PREPARED[r] ELSE Absent
        /\ TransitionFor(Event("attempt_started", r), st) = IF PREPARED[r] = st THEN ATTEMPTED[r] ELSE Absent
        /\ TransitionFor(Event("pre_send_failed", r), st) = IF ATTEMPTED[r] = st THEN PREPARED[r] ELSE Absent
        /\ TransitionFor(Event("response_recorded", r), st) = IF ATTEMPTED[r] = st THEN RECEIVED[r] ELSE Absent
        /\ TransitionFor(Event("outcome_unknown", r), st) = IF ATTEMPTED[r] = st THEN UNKNOWN[r] ELSE Absent
BY DEF TransitionFor, LinearTransition, Event, Discarded, Abandon

LEMMA ClosingTransition ==
    \A st :
        /\ TransitionFor(Discarded, st) = IF st \in {PREPARED[r] : r \in ROLES} THEN st ELSE Absent
        /\ TransitionFor(Abandon, st) = IF st \in ABANDONABLE THEN "abandoned" ELSE Absent
BY DEF TransitionFor, Event, Discarded, Abandon

LEMMA StateNames ==
    /\ ROLES = {"nonce", "receipt"}
    /\ {PREPARED[r] : r \in ROLES} = {"nonce_request_prepared", "receipt_request_prepared"}
    /\ TERMINAL_STATES = {"finalized", "nonce_outcome_unknown", "receipt_outcome_unknown", "abandoned"}
    /\ ABANDONABLE = {"initialized", "collecting", "raw_complete", "reports_composed",
                      "bindings_composed", "nonce_request_prepared", "receipt_request_prepared",
                      "nonce_received", "receipt_received"}
    /\ States = {"initialized", "collecting", "raw_complete", "reports_composed",
                      "bindings_composed", "nonce_request_prepared", "receipt_request_prepared",
                      "nonce_received", "receipt_received",
                      "finalized", "nonce_outcome_unknown", "receipt_outcome_unknown", "abandoned",
                      "nonce_attempted", "receipt_attempted"}
<1>1. {PREPARED[r] : r \in ROLES} = {"nonce_request_prepared", "receipt_request_prepared"}
    BY Names DEF ROLES
<1>2. {RECEIVED[r] : r \in ROLES} = {"nonce_received", "receipt_received"}
    BY Names DEF ROLES
<1>3. {ATTEMPTED[r] : r \in ROLES} = {"nonce_attempted", "receipt_attempted"}
    BY Names DEF ROLES
<1> QED BY <1>1, <1>2, <1>3, Names DEF ROLES, TERMINAL_STATES, ABANDONABLE, States, Linear

LEMMA EventCases ==
    ASSUME NEW e \in Events
    PROVE  \/ e \in {Event(x, "-") : x \in PlainEvents}
           \/ \E r \in ROLES : e \in {Event(x, r) : x \in RoleEvents}
           \/ e = Discarded \/ e = Abandon
BY DEF Events

\* A closed journal takes no event.
LEMMA TransitionTyped ==
    ASSUME NEW e \in Events, NEW st \in States \cup {Absent}, TransitionFor(e, st) # Absent
    PROVE  TransitionFor(e, st) \in States /\ st # "abandoned"
<1>1. CASE e \in {Event(x, "-") : x \in PlainEvents}
    BY <1>1, PlainTransition, StateNames, Names DEF PlainEvents, Absent
<1>2. ASSUME NEW r \in ROLES, e \in {Event(x, r) : x \in RoleEvents}
      PROVE  TransitionFor(e, st) \in States /\ st # "abandoned"
    BY <1>2, RoleTransition, StateNames, Names DEF RoleEvents, Absent
<1>3. CASE e = Discarded \/ e = Abandon
    BY <1>3, ClosingTransition, StateNames, Names DEF Absent
<1> QED BY <1>1, <1>2, <1>3, EventCases

\* No event but pre_send_failed leads back to a state in which nothing was sent.
LEMMA UnsentBack ==
    ASSUME NEW e \in Events, NEW st \in States \cup {Absent}, TransitionFor(e, st) # Absent,
           NEW r \in ROLES, TransitionFor(e, st) \in Unsent(r)
    PROVE  st \in Unsent(r) \/ (e = Event("pre_send_failed", r) /\ st = ATTEMPTED[r])
<1>1. CASE e \in {Event(x, "-") : x \in PlainEvents}
    BY <1>1, PlainTransition, StateNames, Names DEF PlainEvents, Absent, Unsent
<1>2. ASSUME NEW q \in ROLES, e \in {Event(x, q) : x \in RoleEvents}
      PROVE  st \in Unsent(r) \/ (e = Event("pre_send_failed", r) /\ st = ATTEMPTED[r])
    BY <1>2, RoleTransition, StateNames, Names DEF RoleEvents, Absent, Unsent
<1>3. CASE e = Discarded \/ e = Abandon
    BY <1>3, ClosingTransition, StateNames, Names DEF Absent, Unsent
<1> QED BY <1>1, <1>2, <1>3, EventCases

LEMMA ResolutionsAreEvents == Resolutions \subseteq Events /\ \A e \in Resolutions : e.ev # "pre_send_failed"
BY DEF Resolutions, Events, Unknown, RoleEvents, Event, Discarded, Abandon

\* Two archives that differ in the journal only.
SameWork(new, rec) ==
    /\ new.marker = rec.marker /\ new.checkpoint = rec.checkpoint /\ new.failure = rec.failure
    /\ new.failureRecovery = rec.failureRecovery /\ new.shaping = rec.shaping
    /\ new.done = rec.done /\ new.ran = rec.ran /\ new.sent = rec.sent

\* Appending an event to an archive: _append_locked keeps it well formed.
LEMMA AppendOK ==
    ASSUME NEW rec, AttemptOK(rec), rec.dir # Absent, NEW e \in Events, NEW bind \in Binds,
           CanAppend(rec, e),
           \A r \in ROLES : e = Event("pre_send_failed", r) => rec.sent[r] = 0
    PROVE  LET new == Appended(rec, e, bind) IN
           /\ AttemptOK(new) /\ ~Unresolved(new) /\ new.pend = NoPend
           /\ new.dir = rec.dir /\ new.st = TransitionFor(e, rec.st) /\ rec.st # "abandoned"
           /\ new.seq = rec.seq + 1
           /\ SameWork(new, rec)
<1> DEFINE new == Appended(rec, e, bind)
<1>1. rec \in Archives BY DEF AttemptOK
<1>2. TransitionFor(e, rec.st) \in States /\ rec.st # "abandoned"
    BY <1>1, TransitionTyped DEF CanAppend, Archives
<1>3. /\ new.pend = NoPend /\ new.dir = rec.dir /\ new.from = rec.st /\ new.bind = bind
      /\ new.st = TransitionFor(e, rec.st) /\ new.seq = rec.seq + 1 /\ new.intent = rec.intent
      /\ new.inputs = rec.inputs /\ new.signingTime = rec.signingTime
      /\ SameWork(new, rec)
    BY <1>1 DEF SameWork, Appended, Archives
<1>31. rec.seq + 1 \in 0..MaxEvents
    BY <1>1, CaptureAssumption DEF CanAppend, Archives
<1>32. new \in Archives
    BY <1>1, <1>2, <1>31 DEF Appended, Archives, Pends
<1>4. SentOK(new)
    <2> SUFFICES ASSUME NEW r \in ROLES, new.st \in Unsent(r) PROVE new.sent[r] = 0
        BY DEF SentOK
    <2>1. rec.st \in Unsent(r) \/ e = Event("pre_send_failed", r)
        BY <1>1, <1>3, UnsentBack DEF CanAppend, Archives
    <2> QED BY <2>1, <1>3 DEF AttemptOK, SentOK, SameWork
<1>5. rec.intent.seq \in Nat /\ rec.seq \in Nat /\ rec.intent.seq <= rec.seq + 1
    BY <1>1, CaptureAssumption DEF AttemptOK, Archives, Intents, NoIntent
<1>6. ~Unresolved(new) /\ new.intent.seq <= new.seq + 1
    BY <1>3, <1>5 DEF Unresolved
<1>7. PendOK(new) /\ RanOK(new) /\ ShapingOK(new)
    BY <1>3 DEF AttemptOK, PendOK, RanOK, ShapingOK, SameWork
<1> QED BY <1>2, <1>3, <1>32, <1>4, <1>6, <1>7 DEF AttemptOK

-----------------------------------------------------------------------------
(* A step changes the archive of the running command's attempt only.       *)

LEMMA Sizes == Producers \in Nat \ {0} /\ Performance = Producers /\ 0 \notin Attempts
BY CaptureAssumption DEF Producers, Performance, Attempts

LEMMA Running ==
    ASSUME CaptureInv, run # Idle
    PROVE  /\ run \in Runs /\ run.a \in Attempts /\ RunOK(run, A, shaped)
           /\ AttemptOK(A) /\ A \in Archives /\ (shaped = run.a => Owed(A))
           /\ shaped \in Attempts \cup {0} /\ faults \in 0..MaxCaptureFaults
BY Sizes DEF CaptureInv, CommandOK, ArchivesOK, RunOK, Runs, AttemptOK, A

FaultsStep == UNCHANGED faults \/ Fault

LEMMA FaultsTyped ==
    ASSUME faults \in 0..MaxCaptureFaults, FaultsStep PROVE faults' \in 0..MaxCaptureFaults
BY CaptureAssumption DEF FaultsStep, Fault

\* The archive changes, and the rules stay as they are.
LEMMA ArchiveStep ==
    ASSUME CaptureInv, run # Idle, NEW rec, Set(rec), AttemptOK(rec), rec.dir # Absent,
           A.st = "abandoned" => IsClosed(rec), shaped' = shaped, shaped = run.a => Owed(rec),
           FaultsStep
    PROVE  ArchivesOK' /\ att'[run.a] = rec
<1>1. run.a \in Attempts /\ ArchivesOK BY Running DEF CaptureInv
<1>2. att' = [att EXCEPT ![run.a] = rec] BY DEF Set
<1>3. /\ DOMAIN att' = Attempts /\ att'[run.a] = rec
      /\ \A a \in Attempts : a # run.a => att'[a] = att[a]
    BY <1>1, <1>2 DEF ArchivesOK
<1>4. att' = [a \in Attempts |-> att'[a]]
    BY <1>1, <1>2 DEF ArchivesOK
<1>5. \A a \in Attempts : AttemptOK(att'[a])
    BY <1>1, <1>3 DEF ArchivesOK
<1>6. ASSUME NEW a \in Attempts, NEW b \in Attempts, a < b, att'[b].dir # Absent
      PROVE  IsClosed(att'[a])
    <2>1. CASE a = run.a
        <3>1. att[b].dir # Absent BY <1>3, <1>6, <2>1 DEF Attempts
        <3>2. IsClosed(A) BY <1>1, <3>1, <1>6, <2>1 DEF ArchivesOK, Closings, A
        <3>3. A.dir # "quarantined" BY Running DEF RunOK, Absent
        <3> QED BY <1>3, <2>1, <3>2, <3>3 DEF IsClosed
    <2>2. CASE a # run.a
        <3>1. CASE b = run.a /\ A.dir = Absent
            BY <1>3, <1>6, <2>2, <3>1, Running DEF RunOK, CaptureInv, CommandOK, CreateOK, Absent
        <3>2. CASE b = run.a /\ A.dir # Absent
            BY <1>1, <1>3, <1>6, <2>2, <3>2 DEF ArchivesOK, Closings, A
        <3>3. CASE b # run.a
            BY <1>1, <1>3, <1>6, <2>2, <3>3 DEF ArchivesOK, Closings
        <3> QED BY <3>1, <3>2, <3>3
    <2> QED BY <2>1, <2>2
<1>7. shaped' # 0 => Owed(att'[shaped'])
    BY <1>1, <1>3 DEF ArchivesOK
<1>8. faults' \in 0..MaxCaptureFaults
    BY <1>1, FaultsTyped DEF ArchivesOK
<1> QED BY <1>1, <1>3, <1>4, <1>5, <1>6, <1>7, <1>8 DEF ArchivesOK, Closings

\* The archives stay; the rules may be taken away, or loaded where they are owed.
LEMMA QuietStep ==
    ASSUME CaptureInv, att' = att, FaultsStep,
           shaped' = shaped \/ shaped' = 0 \/ (run # Idle /\ shaped' = run.a /\ Owed(A))
    PROVE  ArchivesOK'
<1>1. run # Idle => run.a \in Attempts BY Running
<1>2. faults' \in 0..MaxCaptureFaults BY FaultsTyped DEF CaptureInv, ArchivesOK
<1> QED BY <1>1, <1>2 DEF CaptureInv, ArchivesOK, Closings, A

LEMMA Exits == ASSUME ArchivesOK', run' = Idle PROVE CaptureInv'
BY DEF CaptureInv, CommandOK

LEMMA GoesOn ==
    ASSUME ArchivesOK', NEW ru, NEW rec, run' = ru, att'[ru.a] = rec, RunOK(ru, rec, shaped'),
           ru.pc # "create"
    PROVE  CaptureInv'
BY DEF CaptureInv, CommandOK, CreateOK, A

LEMMA GotoEffect ==
    ASSUME run \in Runs, NEW pc \in Labels, NEW ru, ru = [run EXCEPT !.pc = pc]
    PROVE  /\ ru \in Runs /\ ru.pc = pc /\ ru.a = run.a /\ ru.cmd = run.cmd /\ ru.h = run.h
           /\ ru.role = run.role /\ ru.bind = run.bind /\ ru.failing = run.failing
           /\ ru.unclean = run.unclean
BY DEF Runs

\* A command goes on to a label without touching anything.
LEMMA QuietGoto ==
    ASSUME CaptureInv, run # Idle, att' = att, shaped' = shaped, FaultsStep,
           NEW pc \in Labels, pc # "create", Goto(pc), RunOK([run EXCEPT !.pc = pc], A, shaped)
    PROVE  CaptureInv'
<1>1. ArchivesOK' BY QuietStep
<1>2. PICK ru : ru = [run EXCEPT !.pc = pc] OBVIOUS
<1>3. ru.pc = pc /\ ru.a = run.a BY <1>2, GotoEffect, Running
<1> QED BY <1>1, <1>2, <1>3, GoesOn DEF Goto, A

-----------------------------------------------------------------------------
(* Appending an event.                                                     *)

Appending(e) ==
    /\ CaptureInv /\ run # Idle /\ run.pc # "create" /\ e \in Events /\ A.pend = NoPend
    /\ shaped # run.a
    /\ \A r \in ROLES : e = Event("pre_send_failed", r) => A.sent[r] = 0

LEMMA CrashStep ==
    ASSUME NEW e, Appending(e), NEW bind \in Binds, NEW b \in BOOLEAN, CrashAppending(e, bind, b)
    PROVE  CaptureInv'
<1>1. PICK torn \in BOOLEAN :
        Set([A EXCEPT !.pend = [e |-> e, bind |-> bind, torn |-> torn, resolution |-> b]])
    BY DEF CrashAppending
<1>2. PICK rec : rec = [A EXCEPT !.pend = [e |-> e, bind |-> bind, torn |-> torn, resolution |-> b]]
    OBVIOUS
<1>3. AttemptOK(A) /\ A \in Archives /\ A.dir = "open" /\ CanAppend(A, e)
    BY Running DEF Appending, RunOK, CrashAppending
<1>4. rec \in Archives
    BY <1>2, <1>3 DEF Archives, Pends, Appending
<1>5. /\ rec.pend = [e |-> e, bind |-> bind, torn |-> torn, resolution |-> b]
      /\ rec.dir = A.dir /\ rec.st = A.st /\ rec.seq = A.seq /\ rec.intent = A.intent
      /\ SameWork(rec, A)
    BY <1>2, <1>3 DEF Archives, SameWork
<1>6. PendOK(rec)
    <2>1. \A r \in ROLES : Event("pre_send_failed", r).role = r BY DEF Event
    <2>2. e.ev = "pre_send_failed" => \E r \in ROLES : e = Event("pre_send_failed", r)
        BY DEF Appending, Events, PlainEvents, RoleEvents, Event, Discarded, Abandon
    <2> QED BY <1>3, <1>5, <2>1, <2>2 DEF PendOK, CanAppend, Appending, SameWork
<1>7. AttemptOK(rec)
    BY <1>3, <1>4, <1>5, <1>6 DEF AttemptOK, SentOK, RanOK, ShapingOK, SameWork, Absent
<1>8. ArchivesOK'
    BY <1>1, <1>2, <1>3, <1>5, <1>7, ArchiveStep
        DEF Appending, CrashAppending, IsClosed, FaultsStep, Absent
<1> QED BY <1>8, Exits DEF CrashAppending, Exit

LEMMA FailsStep ==
    ASSUME CaptureInv, NEW e, AppendFails(e, "idle") PROVE CaptureInv'
<1>1. FaultsStep /\ att' = att /\ shaped' = shaped /\ run' = Idle
    BY DEF AppendFails, FaultsStep, Exit
<1> QED BY <1>1, QuietStep, Exits

LEMMA AppendStep ==
    ASSUME NEW e, Appending(e), NEW bind \in Binds, NEW pc, Append1(e, bind, pc)
    PROVE  /\ ArchivesOK' /\ att'[run.a] = Appended(A, e, bind)
           /\ shaped' = shaped /\ run' = [run EXCEPT !.pc = pc]
<1>1. AttemptOK(A) /\ A.dir = "open" /\ CanAppend(A, e) /\ A.dir # Absent
    BY Running DEF Appending, RunOK, Append1, Absent
<1>2. PICK rec : rec = Appended(A, e, bind) OBVIOUS
<1>3. AttemptOK(rec) /\ rec.dir = A.dir /\ A.st # "abandoned"
    BY <1>1, <1>2, AppendOK DEF Appending
<1>4. Set(rec) /\ FaultsStep /\ shaped' = shaped
    BY <1>2 DEF Append1, Same, FaultsStep
<1> QED BY <1>1, <1>2, <1>3, <1>4, ArchiveStep DEF Appending, Append1, Goto

\* After the event the command is at a label that relies on the journal only.
LEMMA AppendGoto ==
    ASSUME NEW e, Appending(e), NEW bind \in Binds, NEW pc, Append1(e, bind, pc),
           \/ pc \in {"done", "finalize", "inputs"}
           \/ pc = "recovered" /\ run.pc \in Recovering \ {"resume"}
           \/ pc = "attempt" /\ run.role \in ROLES
    PROVE  CaptureInv'
<1>1. ArchivesOK' /\ att'[run.a] = Appended(A, e, bind) /\ shaped' = shaped
    BY AppendStep
<1>2. PICK ru : ru = [run EXCEPT !.pc = pc] OBVIOUS
<1>3. pc \in Labels BY DEF Labels, MayOwe, Roled
<1>4. PICK rec : rec = Appended(A, e, bind) OBVIOUS
<1>5. run \in Runs /\ AttemptOK(A) /\ A.dir = "open" /\ RunOK(run, A, shaped)
    BY Running DEF Appending, RunOK
<1>6. /\ ru \in Runs /\ ru.pc = pc /\ ru.a = run.a /\ ru.cmd = run.cmd
      /\ ru.role = run.role
    BY <1>2, <1>3, <1>5, GotoEffect
<1>7. ~Unresolved(rec) /\ rec.pend = NoPend /\ rec.dir = "open"
    BY <1>4, <1>5, AppendOK DEF Appending, Append1, Absent
<1>8. RunOK(ru, rec, shaped)
    BY <1>5, <1>6, <1>7
        DEF RunOK, Appending, Recovering, Producing, Shaping, Unsending, Roled, MayOwe
<1> QED BY <1>1, <1>2, <1>4, <1>6, <1>8, GoesOn DEF Append1, Goto

-----------------------------------------------------------------------------
(* create, open and recover.                                               *)

LEMMA CreateStep == ASSUME CaptureInv, Create PROVE CaptureInv'
<1>1. run # Idle /\ run.pc = "create" /\ run' = [run EXCEPT !.pc = "start"]
    BY DEF Create, At, Goto
<1>2. PICK rec : rec = [A EXCEPT !.dir = "open"] OBVIOUS
<1>3. AttemptOK(A) /\ A.dir = Absent /\ A = NewAttempt /\ run \in Runs /\ RunOK(run, A, shaped)
    BY <1>1, Running DEF RunOK, AttemptOK
<1>4. /\ rec.dir = "open" /\ rec.st = Absent /\ rec.pend = NoPend /\ rec.seq = A.seq
      /\ rec.intent = A.intent /\ SameWork(rec, A)
    BY <1>2, <1>3 DEF NewAttempt, SameWork
<1>5. rec \in Archives
    BY <1>2, <1>3 DEF AttemptOK, Archives
<1>6. AttemptOK(rec) /\ ~Unresolved(rec)
    BY <1>3, <1>4, <1>5
        DEF AttemptOK, SentOK, RanOK, ShapingOK, PendOK, SameWork, NewAttempt, Absent, Unresolved,
            NoIntent
<1>7. shaped # run.a BY <1>1, <1>3 DEF RunOK, MayOwe
<1>8. ArchivesOK' /\ att'[run.a] = rec /\ shaped' = shaped
    BY <1>1, <1>2, <1>3, <1>4, <1>6, <1>7, ArchiveStep
        DEF Create, Same, FaultsStep, Absent, NewAttempt
<1>9. PICK ru : ru = [run EXCEPT !.pc = "start"] OBVIOUS
<1>10. ru \in Runs /\ ru.pc = "start" /\ ru.a = run.a
    BY <1>3, <1>9, GotoEffect DEF Labels
<1>11. RunOK(ru, rec, shaped)
    BY <1>4, <1>6, <1>7, <1>10 DEF RunOK, Recovering, Producing, Shaping, Unsending, Roled, MayOwe
<1> QED BY <1>1, <1>8, <1>9, <1>10, <1>11, GoesOn

LEMMA PlainAppending ==
    ASSUME CaptureInv, run # Idle, run.pc # "create", A.pend = NoPend, shaped # run.a,
           NEW x \in PlainEvents
    PROVE  Appending(Event(x, "-"))
BY DEF Appending, Events, Event, ROLES

\* The event is published and its writer raises: the old snapshot is what is recorded.
LEMMA AppendRaisesStep ==
    ASSUME NEW e, Appending(e), NEW bind \in Binds, AppendRaises(e, bind, "stale_failure")
    PROVE  CaptureInv'
<1>1. AttemptOK(A) /\ A.dir = "open" /\ CanAppend(A, e) /\ A.dir # Absent /\ run \in Runs
    BY Running DEF Appending, RunOK, AppendRaises, Absent
<1>2. PICK rec : rec = Appended(A, e, bind) OBVIOUS
<1>3. AttemptOK(rec) /\ rec.dir = A.dir /\ A.st # "abandoned" /\ ~Unresolved(rec) /\ rec.pend = NoPend
    BY <1>1, <1>2, AppendOK DEF Appending
<1>4. Set(rec) /\ FaultsStep /\ shaped' = shaped
    BY <1>2 DEF AppendRaises, FaultsStep
<1>5. ArchivesOK' /\ att'[run.a] = rec
    BY <1>1, <1>3, <1>4, ArchiveStep DEF Appending
<1>6. PICK ru : ru = [run EXCEPT !.pc = "stale_failure"] OBVIOUS
<1>7. ru \in Runs /\ ru.pc = "stale_failure" /\ ru.a = run.a
    BY <1>1, <1>6, GotoEffect DEF Labels
<1>8. RunOK(ru, rec, shaped)
    BY <1>1, <1>3, <1>7
        DEF RunOK, Appending, Recovering, Producing, Shaping, Unsending, Roled, MayOwe
<1> QED BY <1>4, <1>5, <1>6, <1>7, <1>8, GoesOn DEF AppendRaises, Goto

LEMMA SessionStartedStep == ASSUME CaptureInv, SessionStarted PROVE CaptureInv'
<1>1. run # Idle /\ run.pc = "start" BY DEF SessionStarted, At
<1>2. A.pend = NoPend /\ shaped # run.a BY <1>1, Running DEF RunOK, MayOwe
<1>3. Appending(Event("session_started", "-")) BY <1>1, <1>2, PlainAppending DEF PlainEvents
<1>4. "intent" \in Binds BY DEF Binds
<1> QED BY <1>3, <1>4, CrashStep, FailsStep, AppendGoto DEF SessionStarted

LEMMA QuarantineStep == ASSUME CaptureInv, Quarantine PROVE CaptureInv'
<1>1. run # Idle /\ run.pc = "recover" /\ A.st = Absent BY DEF Quarantine, At
<1>2. AttemptOK(A) /\ A \in Archives BY <1>1, Running
<1>3. PICK rec : rec = [A EXCEPT !.dir = "quarantined", !.pend = NoPend] OBVIOUS
<1>4. rec \in Archives BY <1>2, <1>3 DEF Archives, Pends
<1>5. /\ rec.dir = "quarantined" /\ rec.st = A.st /\ rec.pend = NoPend /\ rec.seq = A.seq
      /\ rec.intent = A.intent /\ SameWork(rec, A)
    BY <1>2, <1>3 DEF Archives, SameWork
<1>6. AttemptOK(rec)
    BY <1>2, <1>4, <1>5 DEF AttemptOK, SentOK, RanOK, ShapingOK, PendOK, SameWork, Absent
<1>7. shaped # run.a BY <1>1, Running DEF Owed, Absent
<1>8. ArchivesOK'
    BY <1>1, <1>3, <1>5, <1>6, <1>7, ArchiveStep DEF Quarantine, Same, FaultsStep, Absent
<1> QED BY <1>8, Exits DEF Quarantine, Exit

LEMMA RecoverWholeStep == ASSUME CaptureInv, RecoverWhole PROVE CaptureInv'
<1>1. run # Idle /\ run.pc = "recover" /\ A.pend # NoPend BY DEF RecoverWhole, At
<1>2. AttemptOK(A) /\ A \in Archives /\ RunOK(run, A, shaped) /\ run \in Runs BY <1>1, Running
<1>3. A.pend.e \in Events /\ A.pend.bind \in Binds /\ A.dir = "open"
    BY <1>1, <1>2 DEF Archives, Pends, RunOK
<1>4. CanAppend(A, A.pend.e) BY <1>1, <1>2 DEF AttemptOK, PendOK, CanAppend
<1>5. \A r \in ROLES : A.pend.e = Event("pre_send_failed", r) => A.sent[r] = 0
    BY <1>1, <1>2 DEF AttemptOK, PendOK, Event
<1>6. PICK rec : rec = Appended(A, A.pend.e, A.pend.bind) OBVIOUS
<1>7. AttemptOK(rec) /\ rec.pend = NoPend /\ rec.dir = "open" /\ A.st # "abandoned"
    BY <1>2, <1>3, <1>4, <1>5, <1>6, AppendOK DEF Absent
<1>8. shaped # run.a BY <1>1, Running DEF Owed
<1>9. ArchivesOK' /\ att'[run.a] = rec /\ shaped' = shaped
    BY <1>1, <1>6, <1>7, <1>8, ArchiveStep DEF RecoverWhole, Same, FaultsStep, Absent
<1>10. PICK ru : ru = [run EXCEPT !.pc = "intents"] OBVIOUS
<1>11. ru \in Runs /\ ru.pc = "intents" /\ ru.a = run.a /\ ru.cmd = run.cmd
    BY <1>2, <1>10, GotoEffect DEF Labels, MayOwe
<1>12. RunOK(ru, rec, shaped)
    BY <1>1, <1>2, <1>7, <1>11 DEF RunOK, Recovering, Producing, Shaping, Unsending, Roled, MayOwe
<1> QED BY <1>9, <1>10, <1>11, <1>12, GoesOn DEF RecoverWhole, Goto

LEMMA ResolutionTyped == \A rec : Resolution(rec) \in Resolutions
<1> SUFFICES ASSUME NEW rec PROVE Resolution(rec) \in Resolutions OBVIOUS
<1>1. (\E r \in ROLES : rec.st = ATTEMPTED[r]) => (CHOOSE r \in ROLES : rec.st = ATTEMPTED[r]) \in ROLES
    OBVIOUS
<1> QED BY <1>1 DEF Resolution, Resolutions

LEMMA UnresolvedIntent ==
    ASSUME NEW rec \in Archives, Unresolved(rec) PROVE rec.intent.e \in Resolutions
BY CaptureAssumption DEF Archives, Intents, NoIntent, Unresolved

LEMMA WriteIntentStep == ASSUME CaptureInv, WriteIntent PROVE CaptureInv'
<1>1. run # Idle /\ run.pc = "recover" /\ A.pend # NoPend BY DEF WriteIntent, At, MustResolve
<1>2. AttemptOK(A) /\ A \in Archives /\ RunOK(run, A, shaped) /\ run \in Runs BY <1>1, Running
<1>3. PICK i : i = [e |-> IF Unresolved(A) THEN A.intent.e ELSE Resolution(A), seq |-> A.seq + 1]
    OBVIOUS
<1>4. i \in Intents /\ i.seq = A.seq + 1 /\ A.seq \in Nat
    <2>1. A.seq \in Nat BY <1>2, CaptureAssumption DEF Archives
    <2>2. (IF Unresolved(A) THEN A.intent.e ELSE Resolution(A)) \in Resolutions
        BY <1>2, ResolutionTyped, UnresolvedIntent
    <2> QED BY <1>3, <2>1, <2>2 DEF Intents
<1>5. PICK rec : rec = [A EXCEPT !.intent = i] OBVIOUS
<1>6. rec \in Archives BY <1>2, <1>4, <1>5 DEF Archives
<1>7. /\ rec.dir = A.dir /\ rec.st = A.st /\ rec.pend = A.pend /\ rec.seq = A.seq
      /\ rec.intent = i /\ SameWork(rec, A)
    BY <1>2, <1>5 DEF Archives, SameWork
<1>8. A.dir = "open" BY <1>1, <1>2 DEF RunOK
<1>9. AttemptOK(rec)
    BY <1>2, <1>4, <1>6, <1>7, <1>8
        DEF AttemptOK, SentOK, RanOK, ShapingOK, PendOK, SameWork, Absent
<1>10. shaped # run.a BY <1>1, Running DEF Owed
<1>11. ArchivesOK' /\ att'[run.a] = rec /\ shaped' = shaped
    BY <1>1, <1>3, <1>5, <1>7, <1>8, <1>9, <1>10, ArchiveStep
        DEF WriteIntent, Same, FaultsStep, Absent, IsClosed
<1>12. PICK ru : ru = [run EXCEPT !.pc = "discard"] OBVIOUS
<1>13. ru \in Runs /\ ru.pc = "discard" /\ ru.a = run.a /\ ru.cmd = run.cmd
    BY <1>2, <1>12, GotoEffect DEF Labels
<1>14. RunOK(ru, rec, shaped)
    BY <1>1, <1>2, <1>7, <1>8, <1>10, <1>13
        DEF RunOK, Recovering, Producing, Shaping, Unsending, Roled, MayOwe
<1> QED BY <1>11, <1>12, <1>13, <1>14, GoesOn DEF WriteIntent, Goto

LEMMA DiscardPendingStep == ASSUME CaptureInv, DiscardPending PROVE CaptureInv'
<1>1. run # Idle /\ run.pc = "discard" BY DEF DiscardPending, At
<1>2. AttemptOK(A) /\ A \in Archives /\ RunOK(run, A, shaped) /\ run \in Runs BY <1>1, Running
<1>3. A.dir = "open" /\ shaped # run.a BY <1>1, <1>2 DEF RunOK, MayOwe
<1>4. PICK rec : rec = [A EXCEPT !.pend = NoPend] OBVIOUS
<1>5. rec \in Archives BY <1>2, <1>4 DEF Archives, Pends
<1>6. /\ rec.dir = A.dir /\ rec.st = A.st /\ rec.pend = NoPend /\ rec.seq = A.seq
      /\ rec.intent = A.intent /\ SameWork(rec, A)
    BY <1>2, <1>4 DEF Archives, SameWork
<1>7. AttemptOK(rec)
    BY <1>2, <1>3, <1>5, <1>6 DEF AttemptOK, SentOK, RanOK, ShapingOK, PendOK, SameWork, Absent
<1>8. ArchivesOK' /\ att'[run.a] = rec /\ shaped' = shaped
    BY <1>1, <1>3, <1>4, <1>6, <1>7, ArchiveStep
        DEF DiscardPending, Same, FaultsStep, Absent, IsClosed
<1>9. PICK ru : ru = [run EXCEPT !.pc = "intents"] OBVIOUS
<1>10. ru \in Runs /\ ru.pc = "intents" /\ ru.a = run.a /\ ru.cmd = run.cmd
    BY <1>2, <1>9, GotoEffect DEF Labels, MayOwe
<1>11. RunOK(ru, rec, shaped)
    BY <1>1, <1>2, <1>3, <1>6, <1>10
        DEF RunOK, Recovering, Producing, Shaping, Unsending, Roled, MayOwe
<1> QED BY <1>8, <1>9, <1>10, <1>11, GoesOn DEF DiscardPending, Goto

LEMMA QuietExit ==
    ASSUME CaptureInv, att' = att, shaped' = shaped, FaultsStep, Exit PROVE CaptureInv'
BY QuietStep, Exits DEF Exit

LEMMA RecoverCleanStep == ASSUME CaptureInv, RecoverClean PROVE CaptureInv'
<1>1. run # Idle /\ run.pc = "recover" /\ A.pend = NoPend /\ FaultsStep
    BY DEF RecoverClean, At, FaultsStep, Same
<1>2. RunOK(run, A, shaped) /\ run \in Runs BY <1>1, Running
<1>3. PICK ru : ru = [run EXCEPT !.pc = "intents"] OBVIOUS
<1>4. ru \in Runs /\ ru.pc = "intents" /\ ru.a = run.a /\ ru.cmd = run.cmd
    BY <1>2, <1>3, GotoEffect DEF Labels, MayOwe
<1>5. RunOK(ru, A, shaped)
    BY <1>1, <1>2, <1>4 DEF RunOK, Recovering, Producing, Shaping, Unsending, Roled, MayOwe
<1>6. "intents" \in Labels BY DEF Labels, MayOwe
<1> QED BY <1>1, <1>3, <1>5, <1>6, QuietGoto DEF RecoverClean, Same

LEMMA ReplayIntentsStep == ASSUME CaptureInv, ReplayIntents PROVE CaptureInv'
<1>1. run # Idle /\ run.pc = "intents" BY DEF ReplayIntents, At
<1>2. RunOK(run, A, shaped) /\ run \in Runs /\ A \in Archives /\ A.pend = NoPend
    BY <1>1, Running DEF RunOK
<1>3. CASE ~Unresolved(A) /\ Goto("recovered") /\ Same /\ UNCHANGED att
    <2>1. PICK ru : ru = [run EXCEPT !.pc = "recovered"] OBVIOUS
    <2>2. ru \in Runs /\ ru.pc = "recovered" /\ ru.a = run.a /\ ru.cmd = run.cmd
        BY <1>2, <2>1, GotoEffect DEF Labels, MayOwe
    <2>3. RunOK(ru, A, shaped)
        BY <1>1, <1>2, <1>3, <2>2
            DEF RunOK, Recovering, Producing, Shaping, Unsending, Roled, MayOwe
    <2>4. "recovered" \in Labels BY DEF Labels, MayOwe
    <2> QED BY <1>1, <1>3, <2>1, <2>3, <2>4, QuietGoto DEF Same, FaultsStep
<1>4. CASE Unresolved(A)
    <2>1. A.intent.e \in Events /\ A.intent.e.ev # "pre_send_failed"
        BY <1>2, <1>4, UnresolvedIntent, ResolutionsAreEvents
    <2>2. shaped # run.a BY <1>1, <1>4, Running DEF Owed
    <2>3. Appending(A.intent.e) BY <1>1, <1>2, <2>1, <2>2 DEF Appending, Event
    <2>4. "resolution" \in Binds BY DEF Binds
    <2>5. run.pc \in Recovering \ {"resume"} BY <1>1 DEF Recovering
    <2> QED BY <1>3, <1>4, <2>3, <2>4, <2>5, CrashStep, FailsStep, AppendGoto DEF ReplayIntents
<1> QED BY <1>3, <1>4 DEF ReplayIntents

LEMMA SessionStep == ASSUME CaptureInv, SessionNext PROVE CaptureInv'
<1>1. CASE RecoverRefused
    BY <1>1, QuietExit DEF RecoverRefused, Same, FaultsStep
<1>2. CASE CrashBetween
    BY <1>2, QuietExit DEF CrashBetween, FaultsStep
<1> QED BY <1>1, <1>2, CreateStep, SessionStartedStep, QuarantineStep, RecoverWholeStep,
           WriteIntentStep, DiscardPendingStep, RecoverCleanStep, ReplayIntentsStep DEF SessionNext

-----------------------------------------------------------------------------
(* What most steps of the collector have in common.                        *)

\* Labels that rely on the journal only, and those that also need the rules away.
Plain == {"done", "finalize", "recover_journal", "recover_shaping"}
Unloaded == {"inputs", "begin", "fail", "stale_failure", "abandon", "freeze", "signing_time", "reports", "bindings",
             "record"}

LEMMA PlainRun ==
    ASSUME NEW ru \in Runs, NEW rec, NEW sh, rec.pend = NoPend, ~Unresolved(rec), rec.dir = "open",
           ru.pc \in Plain \/ (ru.pc \in Unloaded /\ sh # ru.a)
    PROVE  RunOK(ru, rec, sh)
BY DEF RunOK, Plain, Unloaded, Recovering, Producing, Shaping, Unsending, Roled, MayOwe

\* The command is not in the recovery of the journal: there is nothing pending.
LEMMA Settled ==
    ASSUME CaptureInv, run # Idle, run.pc \notin {"recover", "discard", "intents", "create"}
    PROVE  A.pend = NoPend /\ ~Unresolved(A) /\ A.dir = "open"
BY Running DEF RunOK

LEMMA PlainGoto ==
    ASSUME CaptureInv, run # Idle, run.pc \notin {"recover", "discard", "intents", "create"},
           att' = att, shaped' = shaped, FaultsStep, NEW ru \in Runs, run' = ru, ru.a = run.a,
           ru.pc \in Plain \/ (ru.pc \in Unloaded /\ shaped # run.a)
    PROVE  CaptureInv'
<1>1. ArchivesOK' BY QuietStep
<1>2. RunOK(ru, A, shaped) BY Settled, PlainRun
<1>3. ru.pc # "create" BY DEF Plain, Unloaded
<1> QED BY <1>1, <1>2, <1>3, GoesOn DEF A

LEMMA GotoPlain ==
    ASSUME CaptureInv, run # Idle, run.pc \notin {"recover", "discard", "intents", "create"},
           att' = att, shaped' = shaped, FaultsStep, NEW pc, Goto(pc),
           pc \in Plain \/ (pc \in Unloaded /\ shaped # run.a)
    PROVE  CaptureInv'
<1>1. pc \in Labels BY DEF Plain, Unloaded, Labels, MayOwe
<1>2. PICK ru : ru = [run EXCEPT !.pc = pc] OBVIOUS
<1>3. ru \in Runs /\ ru.pc = pc /\ ru.a = run.a BY <1>1, <1>2, GotoEffect, Running
<1> QED BY <1>2, <1>3, PlainGoto DEF Goto

LEMMA FailsTo ==
    ASSUME CaptureInv, run # Idle, run.pc \notin {"recover", "discard", "intents", "create"},
           shaped # run.a, NEW e, AppendFails(e, "fail")
    PROVE  CaptureInv'
<1>1. FaultsStep /\ att' = att /\ shaped' = shaped BY DEF AppendFails, FaultsStep
<1>2. PICK ru : ru = [run EXCEPT !.pc = "fail", !.failing = TRUE] OBVIOUS
<1>3. run' = ru BY <1>2 DEF AppendFails
<1>4. ru \in Runs /\ ru.pc = "fail" /\ ru.a = run.a BY <1>2, Running DEF Runs, Labels
<1> QED BY <1>1, <1>3, <1>4, PlainGoto DEF Unloaded

\* Two archives that differ in fields that AttemptOK says nothing of.
SameJournal(new, rec) ==
    /\ new.dir = rec.dir /\ new.st = rec.st /\ new.pend = rec.pend /\ new.seq = rec.seq
    /\ new.intent = rec.intent
SameRest(new, rec) ==
    /\ SameJournal(new, rec)
    /\ new.marker = rec.marker /\ new.done = rec.done /\ new.ran = rec.ran
    /\ new.shaping = rec.shaping /\ new.sent = rec.sent
LEMMA FreeChange ==
    ASSUME NEW rec, AttemptOK(rec), NEW new \in Archives, rec.dir # Absent, SameRest(new, rec)
    PROVE  AttemptOK(new)
BY DEF AttemptOK, SentOK, RanOK, ShapingOK, PendOK, SameRest, SameJournal

\* The archive is changed in its working part; the command ends or goes on.
WorkStep(rec) ==
    /\ CaptureInv /\ run # Idle /\ run.pc \notin {"recover", "discard", "intents", "create"}
    /\ Set(rec) /\ AttemptOK(rec) /\ shaped' = shaped /\ FaultsStep
    /\ SameJournal(rec, A) /\ (shaped = run.a => Owed(rec))

LEMMA WorkArchives ==
    ASSUME NEW rec, WorkStep(rec)
    PROVE  ArchivesOK' /\ att'[run.a] = rec /\ rec.pend = NoPend /\ ~Unresolved(rec) /\ rec.dir = "open"
<1>1. A.pend = NoPend /\ ~Unresolved(A) /\ A.dir = "open" BY Settled DEF WorkStep
<1>2. rec.pend = NoPend /\ ~Unresolved(rec) /\ rec.dir = "open" BY <1>1 DEF WorkStep, Unresolved, SameJournal
<1>3. rec.dir # Absent BY <1>2 DEF Absent
<1> QED BY <1>2, <1>3, ArchiveStep DEF WorkStep, IsClosed, SameJournal

LEMMA WorkExit == ASSUME NEW rec, WorkStep(rec), Exit PROVE CaptureInv'
BY WorkArchives, Exits DEF Exit

LEMMA WorkGoto ==
    ASSUME NEW rec, WorkStep(rec), NEW ru \in Runs, run' = ru, ru.a = run.a,
           ru.pc \in Plain \/ (ru.pc \in Unloaded /\ shaped # run.a)
    PROVE  CaptureInv'
<1>1. RunOK(ru, rec, shaped') BY WorkArchives, PlainRun DEF WorkStep
<1>2. ru.pc # "create" BY DEF Plain, Unloaded
<1> QED BY <1>1, <1>2, WorkArchives, GoesOn DEF WorkStep

-----------------------------------------------------------------------------
(* initialize and its failure.                                             *)

Begun(c, a, h, pc) ==
    [cmd |-> c, a |-> a, pc |-> pc, h |-> h, role |-> "-", bind |-> "none", failing |-> FALSE,
     unclean |-> FALSE]
LEMMA BeginTyped ==
    ASSUME NEW c \in {"initialize", "collect", "recover_shaping", "recover_journal", "finalize"},
           NEW a \in Attempts, NEW h \in 0..Producers, NEW pc \in Labels
    PROVE  Begun(c, a, h, pc) \in Runs
<1>1. "-" \in ROLES \cup {"-"} /\ "none" \in Closers /\ FALSE \in BOOLEAN BY DEF Closers
<1> QED BY <1>1 DEF Runs, Begun

LEMMA BeginEffect ==
    ASSUME NEW c, NEW a, NEW h, NEW pc, Begin(c, a, h, pc)
    PROVE  /\ run' = Begun(c, a, h, pc) /\ run = Idle
           /\ LET ru == Begun(c, a, h, pc) IN ru.cmd = c /\ ru.a = a /\ ru.h = h /\ ru.pc = pc
BY DEF Begin, Idle, Begun

LEMMA InitializeStep == ASSUME CaptureInv, Initialize PROVE CaptureInv'
<1>1. PICK a \in Attempts : att[a].dir = Absent /\ PreviousClosed(a)
                            /\ Begin("initialize", a, 0, "create") /\ Quiet
    BY DEF Initialize
<1>2. PICK ru : ru = Begun("initialize", a, 0, "create") OBVIOUS
<1>3. run' = ru /\ att' = att /\ shaped' = shaped BY <1>1, <1>2, BeginEffect DEF Quiet
<1>4. ru.a = a /\ ru.pc = "create" /\ ru \in Runs
    <2>1. "create" \in Labels /\ 0 \in 0..Producers BY Sizes DEF Labels
    <2> QED BY <1>1, <1>2, <2>1, BeginTyped, BeginEffect
<1>5. ArchivesOK' BY <1>1, QuietStep DEF Quiet, FaultsStep
<1>6. AttemptOK(att[a]) /\ (shaped # 0 => Owed(att[shaped])) /\ Closings
    BY DEF CaptureInv, ArchivesOK
<1>7. att[a].pend = NoPend /\ ~Unresolved(att[a]) /\ shaped # a
    BY <1>1, <1>6, Sizes DEF AttemptOK, NewAttempt, Unresolved, NoIntent, Owed, Absent
<1>8. RunOK(ru, att[a], shaped)
    BY <1>1, <1>4, <1>7 DEF RunOK, Recovering, Producing, Shaping, Unsending, Roled, MayOwe
<1>9. ASSUME NEW b \in Attempts, b < a PROVE IsClosed(att[b])
    <2>1. a > 1 /\ a - 1 \in Attempts /\ b <= a - 1 BY <1>9, CaptureAssumption DEF Attempts
    <2>2. Closed(att[a - 1]) BY <1>1, <2>1 DEF PreviousClosed
    <2>3. IsClosed(att[a - 1]) /\ att[a - 1].dir # Absent
        BY <2>2 DEF Closed, IsClosed, Opens, Absent
    <2>4. CASE b = a - 1 BY <2>3, <2>4
    <2>5. CASE b # a - 1
        <3>1. b < a - 1 BY <2>1, <2>5, CaptureAssumption DEF Attempts
        <3> QED BY <3>1, <2>1, <2>3, <1>6 DEF Closings
    <2> QED BY <2>4, <2>5
<1> QED BY <1>3, <1>4, <1>5, <1>8, <1>9 DEF CaptureInv, CommandOK, CreateOK, A

LEMMA WriteInputsStep == ASSUME CaptureInv, WriteInputs PROVE CaptureInv'
<1>1. run # Idle /\ run.pc = "inputs" BY DEF WriteInputs, At
<1>2. AttemptOK(A) /\ A \in Archives /\ shaped # run.a BY <1>1, Running DEF RunOK, MayOwe
<1>3. CASE Set([A EXCEPT !.inputs = TRUE]) /\ Goto("begin") /\ Same
    <2>1. PICK rec : rec = [A EXCEPT !.inputs = TRUE] OBVIOUS
    <2>2. rec \in Archives BY <1>2, <2>1 DEF Archives
    <2>3. SameRest(rec, A)
        BY <1>2, <2>1 DEF Archives, SameRest, SameJournal
    <2>31. A.dir # Absent BY <1>1, Settled DEF Absent
    <2>4. WorkStep(rec)
        BY <1>1, <1>2, <1>3, <2>1, <2>2, <2>3, <2>31, FreeChange DEF WorkStep, Same, FaultsStep, SameRest
    <2>5. PICK ru : ru = [run EXCEPT !.pc = "begin"] OBVIOUS
    <2>6. ru \in Runs /\ ru.pc = "begin" /\ ru.a = run.a
        BY <1>1, <2>5, GotoEffect, Running DEF Labels
    <2> QED BY <1>2, <1>3, <2>4, <2>5, <2>6, WorkGoto DEF Goto, Unloaded
<1>4. CASE Fault /\ Goto("fail") /\ UNCHANGED <<att, shaped>>
    BY <1>1, <1>2, <1>4, GotoPlain DEF FaultsStep, Unloaded
<1> QED BY <1>3, <1>4 DEF WriteInputs

LEMMA CollectionStartedStep == ASSUME CaptureInv, CollectionStarted PROVE CaptureInv'
<1>1. run # Idle /\ run.pc = "begin" BY DEF CollectionStarted, At
<1>2. A.pend = NoPend /\ shaped # run.a BY <1>1, Running DEF RunOK, MayOwe
<1>3. Appending(Event("collection_started", "-")) BY <1>1, <1>2, PlainAppending DEF PlainEvents
<1>4. "intent" \in Binds BY DEF Binds
<1> QED BY <1>1, <1>2, <1>3, <1>4, CrashStep, FailsStep, FailsTo, AppendGoto,
       AppendRaisesStep DEF CollectionStarted

LEMMA FinishStep == ASSUME CaptureInv, Finish PROVE CaptureInv'
BY QuietExit DEF Finish, Quiet, FaultsStep

\* The failure record is written where no rules are loaded.
LEMMA FailureWork ==
    ASSUME CaptureInv, run # Idle, run.pc \notin {"recover", "discard", "intents", "create"},
           shaped # run.a, NEW f \in FileStates \cup {"stale"}, NEW rec,
           rec = [A EXCEPT !.failure = f],
           Set(rec), shaped' = shaped, FaultsStep
    PROVE  WorkStep(rec)
<1>1. AttemptOK(A) /\ A \in Archives BY Running
<1>2. rec \in Archives BY <1>1 DEF Archives
<1>3. SameRest(rec, A) BY <1>1 DEF Archives, SameRest, SameJournal
<1>4. A.dir # Absent BY Settled DEF Absent
<1> QED BY <1>1, <1>2, <1>3, <1>4, FreeChange DEF WorkStep, SameRest

LEMMA AbandonRun ==
    ASSUME run \in Runs, NEW b \in Closers, NEW ru, ru = [run EXCEPT !.pc = "abandon", !.bind = b]
    PROVE  ru \in Runs /\ ru.pc = "abandon" /\ ru.a = run.a
<1>1. "abandon" \in Labels BY DEF Labels
<1> QED BY <1>1 DEF Runs

LEMMA WriteFailureStep == ASSUME CaptureInv, WriteFailure PROVE CaptureInv'
<1>1. run # Idle /\ run.pc = "fail" BY DEF WriteFailure, At
<1>2. shaped # run.a /\ run \in Runs BY <1>1, Running DEF RunOK, MayOwe
<1>3. CASE /\ Set([A EXCEPT !.failure = "final"]) /\ Same
           /\ run' = [run EXCEPT !.pc = "abandon", !.bind = "failure"]
    <2>1. PICK rec : rec = [A EXCEPT !.failure = "final"] OBVIOUS
    <2>2. WorkStep(rec) BY <1>1, <1>2, <1>3, <2>1, FailureWork DEF FileStates, Same, FaultsStep
    <2>3. PICK ru : ru = [run EXCEPT !.pc = "abandon", !.bind = "failure"] OBVIOUS
    <2> QED BY <1>2, <1>3, <2>2, <2>3, WorkGoto, AbandonRun DEF Closers, Unloaded
<1>4. ASSUME NEW f \in {"torn", "whole"}, CrashWriting([A EXCEPT !.failure = f]) PROVE CaptureInv'
    <2>1. PICK rec : rec = [A EXCEPT !.failure = f] OBVIOUS
    <2>2. WorkStep(rec)
        BY <1>1, <1>2, <1>4, <2>1, FailureWork DEF FileStates, CrashWriting, FaultsStep
    <2> QED BY <1>4, <2>2, WorkExit DEF CrashWriting
<1>5. CASE Fault /\ Exit /\ UNCHANGED <<att, shaped>> BY <1>5, QuietExit DEF FaultsStep
<1> QED BY <1>3, <1>4, <1>5 DEF WriteFailure

LEMMA WriteStaleFailureStep == ASSUME CaptureInv, WriteStaleFailure PROVE CaptureInv'
<1>1. run # Idle /\ run.pc = "stale_failure" BY DEF WriteStaleFailure, At
<1>2. shaped # run.a /\ run \in Runs BY <1>1, Running DEF RunOK, MayOwe
<1>3. CASE Set([A EXCEPT !.failure = "stale"]) /\ Exit /\ Same
    <2>1. PICK rec : rec = [A EXCEPT !.failure = "stale"] OBVIOUS
    <2>2. WorkStep(rec) BY <1>1, <1>2, <1>3, <2>1, FailureWork DEF Same, FaultsStep
    <2> QED BY <1>3, <2>2, WorkExit
<1>4. CASE CrashWriting([A EXCEPT !.failure = "torn"])
    <2>1. PICK rec : rec = [A EXCEPT !.failure = "torn"] OBVIOUS
    <2>2. WorkStep(rec)
        BY <1>1, <1>2, <1>4, <2>1, FailureWork DEF FileStates, CrashWriting, FaultsStep
    <2> QED BY <1>4, <2>2, WorkExit DEF CrashWriting
<1>5. CASE Fault /\ Exit /\ UNCHANGED <<att, shaped>> BY <1>5, QuietExit DEF FaultsStep
<1> QED BY <1>3, <1>4, <1>5 DEF WriteStaleFailure

LEMMA AbandonmentStep == ASSUME CaptureInv, Abandonment PROVE CaptureInv'
<1>1. run # Idle /\ run.pc = "abandon" BY DEF Abandonment, At
<1>2. A.pend = NoPend /\ shaped # run.a /\ run \in Runs BY <1>1, Running DEF RunOK, MayOwe
<1>3. Appending(Abandon) BY <1>1, <1>2 DEF Appending, Events, Abandon, Event, ROLES
<1>4. run.bind \in Binds BY <1>2 DEF Runs, Closers, Binds
<1> QED BY <1>3, <1>4, CrashStep, FailsStep, AppendGoto DEF Abandonment

-----------------------------------------------------------------------------
(* _resume_failure_abandonment.                                            *)

LEMMA NothingToResumeStep == ASSUME CaptureInv, NothingToResume PROVE CaptureInv'
<1>1. run # Idle /\ run.pc = "resume" /\ Goto(run.cmd) /\ att' = att /\ shaped' = shaped /\ FaultsStep
    BY DEF NothingToResume, At, Quiet, FaultsStep
<1>2. run \in Runs /\ RunOK(run, A, shaped) BY <1>1, Running
<1>3. run.cmd \in {"collect", "recover_shaping", "recover_journal"}
    BY <1>1, <1>2 DEF RunOK, Recovering
<1>4. CASE run.cmd \in Plain BY <1>1, <1>4, GotoPlain
<1>5. CASE run.cmd = "collect"
    <2>1. PICK ru : ru = [run EXCEPT !.pc = run.cmd] OBVIOUS
    <2>2. "collect" \in Labels BY DEF Labels, MayOwe
    <2>3. ru \in Runs /\ ru.pc = "collect" /\ ru.a = run.a /\ ru.cmd = run.cmd /\ ru.h = run.h
        BY <1>2, <1>5, <2>1, <2>2, GotoEffect
    <2>4. A.st = "collecting" => NoFailure(A)
        BY StateNames DEF NothingToResume, Terminal
    <2>5. RunOK(ru, A, shaped)
        BY <1>1, <1>2, <1>5, <2>3, <2>4
            DEF RunOK, Recovering, Producing, Shaping, Unsending, Roled, MayOwe
    <2> QED BY <1>1, <1>5, <2>1, <2>2, <2>5, QuietGoto
<1> QED BY <1>3, <1>4, <1>5 DEF Plain

LEMMA ResumeFinalStep == ASSUME CaptureInv, ResumeFinal PROVE CaptureInv'
<1>1. run # Idle /\ run.pc = "resume" /\ A.failure \in {"whole", "final"}
    BY DEF ResumeFinal, Resuming, At
<1>2. shaped # run.a /\ run \in Runs BY <1>1, Running DEF Owed, NoFailure
<1>3. PICK rec : rec = [A EXCEPT !.failure = "final"] OBVIOUS
<1>4. WorkStep(rec) BY <1>1, <1>2, <1>3, FailureWork DEF FileStates, Same, FaultsStep, ResumeFinal
<1>5. PICK ru : ru = [run EXCEPT !.pc = "abandon", !.bind = "failure"] OBVIOUS
<1> QED BY <1>2, <1>4, <1>5, WorkGoto, AbandonRun DEF Closers, Unloaded, ResumeFinal

LEMMA ResumeTornStep == ASSUME CaptureInv, ResumeTorn PROVE CaptureInv'
<1>1. run # Idle /\ run.pc = "resume" /\ A.failure = "torn" /\ run' = run
    BY DEF ResumeTorn, Resuming, At
<1>2. shaped # run.a /\ AttemptOK(A) /\ A \in Archives /\ RunOK(run, A, shaped)
    BY <1>1, Running DEF Owed, NoFailure
<1>3. PICK rec : rec = [A EXCEPT !.failureRecovery = TRUE] OBVIOUS
<1>4. rec \in Archives BY <1>2, <1>3 DEF Archives
<1>5. SameRest(rec, A) BY <1>2, <1>3 DEF Archives, SameRest, SameJournal
<1>6. A.dir # Absent BY <1>1, Settled DEF Absent
<1>7. WorkStep(rec)
    BY <1>1, <1>2, <1>3, <1>4, <1>5, <1>6, FreeChange
        DEF WorkStep, SameRest, ResumeTorn, Same, FaultsStep
<1>8. RunOK(run, rec, shaped)
    BY <1>1, <1>2, <1>7, WorkArchives
        DEF RunOK, Recovering, Producing, Shaping, Unsending, Roled, MayOwe
<1> QED BY <1>1, <1>7, <1>8, WorkArchives, GoesOn DEF WorkStep

LEMMA ResumeRecoveredStep == ASSUME CaptureInv, ResumeRecovered PROVE CaptureInv'
<1>1. run # Idle /\ run.pc = "resume" /\ A.failureRecovery
    BY DEF ResumeRecovered, Resuming, At
<1>2. shaped # run.a /\ run \in Runs BY <1>1, Running DEF Owed, NoFailure
<1>3. PICK rec : rec = [A EXCEPT !.failure = "none"] OBVIOUS
<1>4. WorkStep(rec)
    BY <1>1, <1>2, <1>3, FailureWork DEF FileStates, Same, FaultsStep, ResumeRecovered
<1>5. PICK ru : ru = [run EXCEPT !.pc = "abandon", !.bind = "failure_recovery"] OBVIOUS
<1> QED BY <1>2, <1>4, <1>5, WorkGoto, AbandonRun DEF Closers, Unloaded, ResumeRecovered

-----------------------------------------------------------------------------
(* collect: before a producer runs.                                        *)

LEMMA CollectStep == ASSUME CaptureInv, Collect PROVE CaptureInv'
<1>1. PICK a \in Attempts, h \in 1..Producers : Opens(att[a]) /\ Begin("collect", a, h, "resume") /\ Quiet
    BY DEF Collect
<1>2. PICK ru : ru = Begun("collect", a, h, "resume") OBVIOUS
<1>3. run' = ru /\ att' = att /\ shaped' = shaped /\ FaultsStep
    BY <1>1, <1>2, BeginEffect DEF Quiet, FaultsStep
<1>4. ru.cmd = "collect" /\ ru.a = a /\ ru.h = h /\ ru.pc = "resume" BY <1>1, <1>2, BeginEffect
<1>5. ru \in Runs
    <2>1. "resume" \in Labels /\ h \in 0..Producers BY Sizes DEF Labels, MayOwe
    <2> QED BY <1>2, <2>1, BeginTyped
<1>6. ArchivesOK' BY <1>3, QuietStep
<1>7. RunOK(ru, att[a], shaped)
    BY <1>1, <1>4, <1>5 DEF RunOK, Recovering, Producing, Shaping, Unsending, Roled, MayOwe, Opens
<1> QED BY <1>3, <1>4, <1>6, <1>7, GoesOn

LEMMA OpenedRecovery ==
    ASSUME CaptureInv, NEW c \in {"recover_shaping", "recover_journal"}, NEW a \in Attempts,
           att[a].dir = "open", Begin(c, a, 0, "recover"), Quiet
    PROVE  CaptureInv'
<1>2. PICK ru : ru = Begun(c, a, 0, "recover") OBVIOUS
<1>3. run' = ru /\ att' = att /\ shaped' = shaped /\ FaultsStep
    BY <1>2, BeginEffect DEF Quiet, FaultsStep
<1>4. ru.cmd = c /\ ru.a = a /\ ru.pc = "recover" BY <1>2, BeginEffect
<1>5. ru \in Runs
    <2>1. "recover" \in Labels /\ 0 \in 0..Producers BY Sizes DEF Labels, MayOwe
    <2> QED BY <1>2, <2>1, BeginTyped
<1>6. ArchivesOK' BY <1>3, QuietStep
<1>7. RunOK(ru, att[a], shaped)
    BY <1>4, <1>5 DEF RunOK, Recovering, Producing, Shaping, Unsending, Roled, MayOwe
<1> QED BY <1>3, <1>4, <1>6, <1>7, GoesOn

\* The facts at the label "collect".
LEMMA CollectFacts ==
    ASSUME CaptureInv, Collecting
    PROVE  /\ run # Idle /\ run.pc = "collect" /\ A.st = "collecting" /\ NoFailure(A)
           /\ run.h \in 1..Producers /\ run \in Runs /\ AttemptOK(A) /\ A \in Archives
           /\ A.pend = NoPend /\ ~Unresolved(A) /\ A.dir = "open" /\ (shaped = run.a => Owed(A))
BY Running DEF Collecting, At, RunOK

LEMMA MarkerWork ==
    ASSUME CaptureInv, Collecting, A.marker # "final", NEW f \in FileStates, NEW rec,
           rec = [A EXCEPT !.marker = f], Set(rec), shaped' = shaped, FaultsStep
    PROVE  /\ WorkStep(rec) /\ shaped # run.a /\ rec \in Archives /\ rec.marker = f
           /\ rec.checkpoint = A.checkpoint /\ rec.failure = A.failure
           /\ rec.failureRecovery = A.failureRecovery /\ rec.done = A.done /\ rec.ran = A.ran
           /\ rec.shaping = A.shaping
<1>1. rec \in Archives BY CollectFacts DEF Archives
<1>2. SameJournal(rec, A) BY CollectFacts DEF Archives, SameJournal
<1>3. /\ rec.marker = f /\ rec.checkpoint = A.checkpoint /\ rec.failure = A.failure
      /\ rec.failureRecovery = A.failureRecovery /\ rec.done = A.done /\ rec.ran = A.ran
      /\ rec.shaping = A.shaping /\ rec.sent = A.sent
    <2>1. A \in Archives BY CollectFacts
    <2> QED BY <2>1 DEF Archives
<1>4. shaped # run.a BY CollectFacts DEF Owed
<1>5. AttemptOK(rec)
    BY <1>1, <1>2, <1>3, CollectFacts
        DEF AttemptOK, SameJournal, SentOK, PendOK, RanOK, ShapingOK, Absent
<1> QED BY <1>1, <1>2, <1>3, <1>4, <1>5, CollectFacts DEF WorkStep

LEMMA DiscardMarkerStep == ASSUME CaptureInv, DiscardMarker PROVE CaptureInv'
<1>1. Collecting /\ Pending(A.marker) /\ run' = run BY DEF DiscardMarker
<1>2. A.marker # "final" BY <1>1 DEF Pending
<1>3. PICK rec : rec = [A EXCEPT !.marker = "none"] OBVIOUS
<1>4. Set(rec) /\ shaped' = shaped /\ FaultsStep BY <1>3 DEF DiscardMarker, Same, FaultsStep
<1>5. "none" \in FileStates BY DEF FileStates
<1>6. WorkStep(rec) /\ rec.failure = A.failure /\ rec.failureRecovery = A.failureRecovery
    BY <1>1, <1>2, <1>3, <1>4, <1>5, MarkerWork
<1>7. RunOK(run, rec, shaped)
    BY <1>1, <1>6, CollectFacts, WorkArchives
        DEF RunOK, Recovering, Producing, Shaping, Unsending, Roled, MayOwe, NoFailure
<1>8. run.pc # "create" BY <1>1, CollectFacts
<1> QED BY <1>1, <1>6, <1>7, <1>8, WorkArchives, GoesOn DEF WorkStep

LEMMA AmbiguousCheckpointStep == ASSUME CaptureInv, AmbiguousCheckpoint PROVE CaptureInv'
<1>1. Collecting /\ shaped # run.a
    BY CollectFacts DEF AmbiguousCheckpoint, Owed
<1> QED BY <1>1, CollectFacts, GotoPlain DEF AmbiguousCheckpoint, Quiet, FaultsStep, Unloaded

LEMMA AllDoneStep == ASSUME CaptureInv, AllDone PROVE CaptureInv'
<1>1. Collecting /\ A.done = Producers BY DEF AllDone, Progress
<1>2. shaped # run.a
    <2>1. Producers \in Nat /\ Producers + 1 # Producers BY Sizes
    <2> QED BY <1>1, <2>1, CollectFacts DEF Owed
<1> QED BY <1>1, <1>2, CollectFacts, GotoPlain DEF AllDone, Quiet, FaultsStep, Unloaded

LEMMA FreezeObservationsStep == ASSUME CaptureInv, FreezeObservations PROVE CaptureInv'
<1>1. run # Idle /\ run.pc = "freeze" BY DEF FreezeObservations, At
<1>2. A.pend = NoPend /\ shaped # run.a BY <1>1, Running DEF RunOK, MayOwe
<1>3. Appending(Event("raw_completed", "-")) BY <1>1, <1>2, PlainAppending DEF PlainEvents
<1>4. "manifest" \in Binds BY DEF Binds
<1> QED BY <1>1, <1>2, <1>3, <1>4, CrashStep, FailsTo, AppendGoto, AppendRaisesStep
       DEF FreezeObservations

\* What is owed is never taken for a finished or a fresh archive.
LEMMA OwedState ==
    ASSUME NEW s, s.intent = "final", s.restored = "none" PROVE ArchiveState(s) = "recovery_required"
<1>1. {s.ledger, s.intent, s.restored} # {"final"} OBVIOUS
<1>2. s # NoShaping BY DEF NoShaping
<1> QED BY <1>1, <1>2 DEF ArchiveState, Published

LEMMA InterruptedStep == ASSUME CaptureInv, Interrupted PROVE CaptureInv'
<1>1. Progress /\ Collecting /\ A.marker = "final" /\ att' = att /\ shaped' = shaped /\ FaultsStep
    BY DEF Interrupted, Progress, Started, Published, Quiet, FaultsStep
<1>2. PICK kind : kind = IF A.done + 1 = Performance THEN ArchiveState(A.shaping) ELSE "plain" OBVIOUS
<1>3. shaped = run.a => kind = "recovery_required"
    BY <1>1, <1>2, CollectFacts, OwedState, Sizes DEF Owed
<1>4. CASE kind = "recovery_required" BY <1>1, <1>2, <1>4, QuietExit DEF Interrupted
<1>5. CASE kind = "complete"
    <2>1. CASE run.h # Performance BY <1>1, <1>2, <1>5, <2>1, QuietExit DEF Interrupted
    <2>2. CASE run.h = Performance
        <3>1. Goto("checkpoint") /\ A.done + 1 = Producers
            BY <1>2, <1>5, <2>2, Sizes DEF Interrupted
        <3>2. PICK ru : ru = [run EXCEPT !.pc = "checkpoint"] OBVIOUS
        <3>3. "checkpoint" \in Labels BY DEF Labels, Producing
        <3>4. ru \in Runs /\ ru.pc = "checkpoint" /\ ru.a = run.a /\ ru.h = run.h
            BY <1>1, <3>2, <3>3, GotoEffect, CollectFacts
        <3>5. RunOK(ru, A, shaped)
            BY <1>1, <1>3, <1>5, <2>2, <3>1, <3>4, CollectFacts, Sizes
                DEF RunOK, Recovering, Producing, Shaping, Unsending, Roled, MayOwe, Progress
        <3> QED BY <1>1, <3>1, <3>2, <3>3, <3>5, CollectFacts, QuietGoto
    <2> QED BY <2>1, <2>2
<1>6. CASE kind \notin {"recovery_required", "complete"}
    <2>1. Goto("fail") BY <1>2, <1>6 DEF Interrupted
    <2> QED BY <1>1, <1>3, <1>6, <2>1, CollectFacts, GotoPlain DEF Unloaded
<1> QED BY <1>4, <1>5, <1>6

LEMMA WriteMarkerStep == ASSUME CaptureInv, WriteMarker PROVE CaptureInv'
<1>1. Collecting /\ A.marker # "final" /\ run.h = A.done + 1 /\ ~Pending(A.checkpoint)
    BY DEF WriteMarker, InOrder, Progress, Started, Published
<1>2. shaped # run.a BY <1>1, CollectFacts DEF Owed
<1>3. CASE /\ Set([A EXCEPT !.marker = "final"]) /\ Same
           /\ Goto(IF run.h = Performance THEN "shaping_intent" ELSE "handler")
    <2>1. PICK rec : rec = [A EXCEPT !.marker = "final"] OBVIOUS
    <2>2. Set(rec) /\ shaped' = shaped /\ FaultsStep BY <1>3, <2>1 DEF Same, FaultsStep
    <2>3. "final" \in FileStates BY DEF FileStates
    <2>4. /\ WorkStep(rec) /\ rec \in Archives /\ rec.marker = "final"
          /\ rec.checkpoint = A.checkpoint /\ rec.failure = A.failure
          /\ rec.failureRecovery = A.failureRecovery /\ rec.done = A.done /\ rec.ran = A.ran
          /\ rec.shaping = A.shaping
        BY <1>1, <2>1, <2>2, <2>3, MarkerWork
    <2>5. A.ran[run.h] = 0
        BY <1>1, CollectFacts, Sizes DEF AttemptOK, RanOK, Archives
    <2>6. run.h = Producers => A.shaping = NoShaping
        BY <1>1, CollectFacts, Sizes DEF AttemptOK, ShapingOK
    <2>7. PICK pc : pc = IF run.h = Performance THEN "shaping_intent" ELSE "handler" OBVIOUS
    <2>8. PICK ru : ru = [run EXCEPT !.pc = pc] OBVIOUS
    <2>9. pc \in Labels BY <2>7 DEF Labels, Producing
    <2>10. ru \in Runs /\ ru.pc = pc /\ ru.a = run.a /\ ru.h = run.h
        BY <1>1, <2>8, <2>9, GotoEffect, CollectFacts
    <2>11. rec.st = "collecting" /\ NoFailure(rec)
        BY <1>1, <2>4, CollectFacts DEF WorkStep, SameJournal, NoFailure
    <2>12. rec.pend = NoPend /\ ~Unresolved(rec) /\ rec.dir = "open" BY <2>4, WorkArchives
    <2>13. RunOK(ru, rec, shaped)
        BY <1>1, <1>2, <2>4, <2>5, <2>6, <2>7, <2>10, <2>11, <2>12, Sizes
            DEF RunOK, Recovering, Producing, Shaping, Unsending, Roled, MayOwe
    <2>14. run' = ru /\ ru.pc # "create" BY <1>3, <2>7, <2>8, <2>10 DEF Goto
    <2> QED BY <2>2, <2>4, <2>10, <2>13, <2>14, WorkArchives, GoesOn
<1>4. ASSUME NEW f \in {"torn", "whole"}, CrashWriting([A EXCEPT !.marker = f]) PROVE CaptureInv'
    <2>1. PICK rec : rec = [A EXCEPT !.marker = f] OBVIOUS
    <2>2. WorkStep(rec)
        BY <1>1, <1>4, <2>1, MarkerWork DEF FileStates, CrashWriting, FaultsStep
    <2> QED BY <1>4, <2>2, WorkExit DEF CrashWriting
<1>5. CASE Fault /\ Goto("fail") /\ UNCHANGED shaped /\ UNCHANGED att
    BY <1>1, <1>2, <1>5, CollectFacts, GotoPlain DEF FaultsStep, Unloaded
<1>6. CASE Fault /\ Goto("fail") /\ UNCHANGED shaped /\ Set([A EXCEPT !.marker = "final"])
    <2>1. PICK rec : rec = [A EXCEPT !.marker = "final"] OBVIOUS
    <2>2. WorkStep(rec) BY <1>1, <1>6, <2>1, MarkerWork DEF FileStates, FaultsStep
    <2>3. PICK ru : ru = [run EXCEPT !.pc = "fail"] OBVIOUS
    <2>4. ru \in Runs /\ ru.pc = "fail" /\ ru.a = run.a
        BY <1>1, <2>3, GotoEffect, CollectFacts DEF Labels
    <2> QED BY <1>2, <1>6, <2>2, <2>3, <2>4, WorkGoto DEF Goto, Unloaded
<1> QED BY <1>3, <1>4, <1>5, <1>6 DEF WriteMarker

-----------------------------------------------------------------------------
(* collect: a producer runs.                                               *)

LEMMA ProducingFacts ==
    ASSUME CaptureInv, run # Idle, run.pc \in Producing
    PROVE  /\ A.st = "collecting" /\ NoFailure(A) /\ A.marker = "final" /\ ~Pending(A.checkpoint)
           /\ run.h = A.done + 1 /\ run.h \in 1..Producers /\ A.done \in 0..(Producers - 1)
           /\ AttemptOK(A) /\ A \in Archives /\ run \in Runs /\ RunOK(run, A, shaped)
           /\ A.pend = NoPend /\ ~Unresolved(A) /\ A.dir = "open"
           /\ run.pc \notin {"recover", "discard", "intents", "create"}
<1>1. /\ A.st = "collecting" /\ NoFailure(A) /\ A.marker = "final" /\ ~Pending(A.checkpoint)
      /\ run.h = A.done + 1 /\ AttemptOK(A) /\ A \in Archives /\ run \in Runs /\ RunOK(run, A, shaped)
    BY Running DEF RunOK
<1>2. run.pc \notin {"recover", "discard", "intents", "create"} BY DEF Producing
<1>3. run.h \in 0..Producers /\ A.done \in 0..Producers BY <1>1 DEF Archives, Runs
<1>4. run.h \in 1..Producers /\ A.done \in 0..(Producers - 1) BY <1>1, <1>3, Sizes
<1> QED BY <1>1, <1>2, <1>4, Settled

\* The handler ran: the attempt is still the one its marker names.
LEMMA RanWork ==
    ASSUME CaptureInv, run # Idle, run.pc \in {"handler", "shaping_intent"}, NEW rec, rec = Ran(A)
    PROVE  /\ rec \in Archives /\ AttemptOK(rec) /\ SameJournal(rec, A) /\ rec.marker = A.marker
           /\ rec.checkpoint = A.checkpoint /\ rec.failure = A.failure
           /\ rec.failureRecovery = A.failureRecovery /\ rec.done = A.done
           /\ rec.shaping = A.shaping /\ shaped # run.a
<1>1. run.pc \in Producing BY DEF Producing
<1>2. A \in Archives /\ run.h \in 1..Producers BY <1>1, ProducingFacts
<1>3. A.ran[run.h] = 0 /\ shaped # run.a BY <1>1, ProducingFacts DEF RunOK, MayOwe
<1>4. rec = [A EXCEPT !.ran = [A.ran EXCEPT ![run.h] = 1]] BY <1>2, <1>3 DEF Ran, Archives
<1>5. [A.ran EXCEPT ![run.h] = 1] \in [1..Producers -> 0..1] BY <1>2 DEF Archives
<1>6. rec \in Archives BY <1>2, <1>4, <1>5 DEF Archives
<1>7. SameJournal(rec, A) BY <1>2, <1>4 DEF Archives, SameJournal
<1>8. /\ rec.marker = A.marker /\ rec.checkpoint = A.checkpoint /\ rec.failure = A.failure
      /\ rec.failureRecovery = A.failureRecovery /\ rec.done = A.done
      /\ rec.shaping = A.shaping /\ rec.sent = A.sent /\ rec.ran = [A.ran EXCEPT ![run.h] = 1]
    BY <1>2, <1>4 DEF Archives
<1>9. RanOK(rec)
    <2> SUFFICES ASSUME NEW h \in 1..Producers, rec.ran[h] = 1
                 PROVE  h <= rec.done \/ (h = rec.done + 1 /\ rec.marker = "final")
        BY DEF RanOK
    <2>1. CASE h = run.h BY <1>1, <1>8, <2>1, ProducingFacts
    <2>2. CASE h # run.h
        <3>1. A.ran[h] = 1 BY <1>2, <1>8, <2>2 DEF Archives
        <3> QED BY <1>1, <1>8, <3>1, ProducingFacts DEF AttemptOK, RanOK
    <2> QED BY <2>1, <2>2
<1>10. AttemptOK(rec)
    BY <1>1, <1>6, <1>7, <1>8, <1>9, ProducingFacts
        DEF AttemptOK, SameJournal, SentOK, PendOK, ShapingOK, Absent
<1> QED BY <1>3, <1>6, <1>7, <1>8, <1>10

\* The labels of a producer that rely on nothing but its marker.
LEMMA ProducerRun ==
    ASSUME CaptureInv, run # Idle, run.pc \in Producing, NEW rec, SameJournal(rec, A),
           rec.marker = A.marker, rec.checkpoint = A.checkpoint, rec.failure = A.failure,
           rec.failureRecovery = A.failureRecovery, rec.done = A.done, NEW sh,
           NEW ru \in Runs, ru.a = run.a, ru.h = run.h,
           \/ ru.pc \in {"checkpoint", "ledger"} /\ sh # run.a
           \/ ru.pc \in Shaping /\ ru.h = Producers
              /\ rec.shaping.intent = "final" /\ rec.shaping.restored = "none"
              /\ rec.shaping.complete = FALSE,
           ru.pc = "ledger" => ru.h = Producers, ru.pc = "series" => ru.unclean \/ sh # run.a
    PROVE  RunOK(ru, rec, sh)
<1>1. /\ rec.st = "collecting" /\ NoFailure(rec) /\ rec.marker = "final" /\ ~Pending(rec.checkpoint)
      /\ ru.h = rec.done + 1 /\ rec.pend = NoPend /\ ~Unresolved(rec) /\ rec.dir = "open"
    BY ProducingFacts DEF SameJournal, NoFailure, Unresolved
<1> QED BY <1>1 DEF RunOK, Recovering, Producing, Shaping, Unsending, Roled, MayOwe

LEMMA HandlerStep == ASSUME CaptureInv, Handler PROVE CaptureInv'
<1>1. run # Idle /\ run.pc = "handler" /\ shaped' = shaped BY DEF Handler, At
<1>2. PICK rec : rec = Ran(A) OBVIOUS
<1>3. run.pc \in Producing BY <1>1 DEF Producing
<1>4. FaultsStep BY DEF Handler, FaultsStep
<1>5. WorkStep(rec)
    BY <1>1, <1>2, <1>3, <1>4, RanWork, ProducingFacts DEF WorkStep, Handler
<1>6. CASE Goto("checkpoint")
    <2>1. PICK ru : ru = [run EXCEPT !.pc = "checkpoint"] OBVIOUS
    <2>2. "checkpoint" \in Labels BY DEF Labels, Producing
    <2>3. ru \in Runs /\ ru.pc = "checkpoint" /\ ru.a = run.a /\ ru.h = run.h
        BY <1>3, <2>1, <2>2, GotoEffect, ProducingFacts, <1>1
    <2>4. RunOK(ru, rec, shaped) BY <1>1, <1>2, <1>3, <2>3, RanWork, ProducerRun
    <2> QED BY <1>1, <1>5, <1>6, <2>1, <2>3, <2>4, WorkArchives, GoesOn DEF Goto
<1>7. CASE Goto("fail")
    <2>1. PICK ru : ru = [run EXCEPT !.pc = "fail"] OBVIOUS
    <2>2. "fail" \in Labels BY DEF Labels
    <2>3. ru \in Runs /\ ru.pc = "fail" /\ ru.a = run.a
        BY <1>3, <2>1, <2>2, GotoEffect, ProducingFacts, <1>1
    <2>4. shaped # run.a BY <1>1, <1>2, RanWork
    <2> QED BY <1>5, <1>7, <2>1, <2>3, <2>4, WorkGoto DEF Goto, Unloaded
<1>8. CASE Exit BY <1>5, <1>8, WorkExit
<1> QED BY <1>6, <1>7, <1>8 DEF Handler

LEMMA WriteCheckpointStep == ASSUME CaptureInv, WriteCheckpoint PROVE CaptureInv'
<1>1. run # Idle /\ run.pc = "checkpoint" BY DEF WriteCheckpoint, At
<1>2. run.pc \in Producing BY <1>1 DEF Producing
<1>3. shaped # run.a BY <1>1, Running DEF RunOK, MayOwe
<1>4. A \in Archives /\ AttemptOK(A) /\ A.done \in 0..(Producers - 1) /\ A.dir # Absent
    BY <1>1, <1>2, ProducingFacts DEF Absent
<1>5. ASSUME Set([A EXCEPT !.done = @ + 1, !.marker = "none"]), shaped' = shaped, FaultsStep,
             NEW pc \in Unloaded \cup Plain, Goto(pc)
      PROVE  CaptureInv'
    <2>1. PICK rec : rec = [A EXCEPT !.done = @ + 1, !.marker = "none"] OBVIOUS
    <2>2. A.done + 1 \in 0..Producers BY <1>4, Sizes
    <2>3. rec \in Archives BY <1>4, <2>1, <2>2 DEF Archives, FileStates
    <2>4. SameJournal(rec, A) BY <1>4, <2>1 DEF Archives, SameJournal
    <2>5. /\ rec.marker = "none" /\ rec.done = A.done + 1 /\ rec.ran = A.ran
          /\ rec.shaping = A.shaping /\ rec.sent = A.sent
        BY <1>4, <2>1 DEF Archives
    <2>6. RanOK(rec) BY <1>4, <2>5, Sizes DEF AttemptOK, RanOK
    <2>7. ShapingOK(rec) BY <1>4, <2>5, Sizes DEF AttemptOK, ShapingOK
    <2>8. AttemptOK(rec)
        BY <1>4, <2>3, <2>4, <2>5, <2>6, <2>7 DEF AttemptOK, SameJournal, SentOK, PendOK
    <2>9. WorkStep(rec) BY <1>1, <1>3, <1>5, <2>1, <2>4, <2>8 DEF WorkStep
    <2>10. PICK ru : ru = [run EXCEPT !.pc = pc] OBVIOUS
    <2>11. pc \in Labels BY DEF Labels, MayOwe, Unloaded, Plain
    <2>12. ru \in Runs /\ ru.pc = pc /\ ru.a = run.a BY <1>1, <2>10, <2>11, GotoEffect, Running
    <2> QED BY <1>3, <1>5, <2>9, <2>10, <2>12, WorkGoto DEF Goto
<1>6. ASSUME NEW f \in {"torn", "whole"}, CrashWriting([A EXCEPT !.checkpoint = f]) PROVE CaptureInv'
    <2>1. PICK rec : rec = [A EXCEPT !.checkpoint = f] OBVIOUS
    <2>2. rec \in Archives BY <1>4, <2>1 DEF Archives, FileStates
    <2>3. SameRest(rec, A) BY <1>4, <2>1 DEF Archives, SameRest, SameJournal
    <2>4. WorkStep(rec)
        BY <1>1, <1>3, <1>4, <1>6, <2>1, <2>2, <2>3, FreeChange
            DEF WorkStep, SameRest, CrashWriting, FaultsStep
    <2> QED BY <1>6, <2>4, WorkExit DEF CrashWriting
<1>7. CASE Fault /\ Goto("fail") /\ UNCHANGED shaped /\ UNCHANGED att
    BY <1>1, <1>3, <1>7, GotoPlain DEF FaultsStep, Unloaded
<1>8. CASE Fault /\ Goto("fail") /\ UNCHANGED shaped
           /\ Set([A EXCEPT !.done = @ + 1, !.marker = "none"])
    BY <1>5, <1>8 DEF FaultsStep, Unloaded
<1>9. CASE /\ Set([A EXCEPT !.done = @ + 1, !.marker = "none"]) /\ Same
           /\ Goto(IF A.done + 1 = Producers THEN "freeze" ELSE "done")
    <2>1. PICK pc : pc = IF A.done + 1 = Producers THEN "freeze" ELSE "done" OBVIOUS
    <2>2. pc \in Unloaded \cup Plain /\ Goto(pc) BY <1>9, <2>1 DEF Unloaded, Plain
    <2> QED BY <1>5, <1>9, <2>2 DEF Same, FaultsStep
<1> QED BY <1>6, <1>7, <1>8, <1>9 DEF WriteCheckpoint

-----------------------------------------------------------------------------
(* capture_performance_observations.                                       *)

Documents == {"intent", "failed", "restored", "ledger"}

Filed(new, s, field, f) ==
    /\ new \in Shapings /\ new.complete = s.complete
    /\ new.intent = IF field = "intent" THEN f ELSE s.intent
    /\ new.restored = IF field = "restored" THEN f ELSE s.restored

LEMMA DocumentTyped ==
    \A s \in Shapings, field \in Documents, f \in FileStates :
        Filed([s EXCEPT ![field] = f], s, field, f)
<1> SUFFICES ASSUME NEW s \in Shapings, NEW field \in Documents, NEW f \in FileStates
             PROVE  Filed([s EXCEPT ![field] = f], s, field, f)
    OBVIOUS
<1>1. CASE field = "intent" BY <1>1 DEF Shapings, Filed
<1>2. CASE field = "failed" BY <1>2 DEF Shapings, Filed
<1>3. CASE field = "restored" BY <1>3 DEF Shapings, Filed
<1>4. CASE field = "ledger" BY <1>4 DEF Shapings, Filed
<1> QED BY <1>1, <1>2, <1>3, <1>4 DEF Documents

Document(rec, field, f) == [rec EXCEPT !.shaping[field] = f]

\* A document of the performance archive is published, or its write is cut off.
LEMMA DocumentWork ==
    ASSUME NEW rec, AttemptOK(rec), rec.dir # Absent, rec.done + 1 = Producers, rec.marker = "final",
           NEW field \in Documents, NEW f \in FileStates,
           NEW new, new = Document(rec, field, f)
    PROVE  /\ AttemptOK(new) /\ SameJournal(new, rec) /\ new.marker = rec.marker
           /\ new.checkpoint = rec.checkpoint /\ new.failure = rec.failure
           /\ new.failureRecovery = rec.failureRecovery /\ new.done = rec.done
           /\ new.shaping.intent = IF field = "intent" THEN f ELSE rec.shaping.intent
           /\ new.shaping.restored = IF field = "restored" THEN f ELSE rec.shaping.restored
           /\ new.shaping.complete = rec.shaping.complete
<1>1. rec \in Archives BY DEF AttemptOK
<1>2. PICK s : s = [rec.shaping EXCEPT ![field] = f] OBVIOUS
<1>3. rec.shaping \in Shapings BY <1>1 DEF Archives
<1>4. Filed(s, rec.shaping, field, f)
    BY <1>2, <1>3, DocumentTyped, Zenon
<1>5. new = [rec EXCEPT !.shaping = s] BY <1>1, <1>2 DEF Archives, Document
<1>6. new \in Archives BY <1>1, <1>4, <1>5 DEF Archives, Filed
<1>7. SameJournal(new, rec) BY <1>1, <1>5 DEF Archives, SameJournal
<1>8. /\ new.marker = rec.marker /\ new.checkpoint = rec.checkpoint /\ new.failure = rec.failure
      /\ new.failureRecovery = rec.failureRecovery /\ new.done = rec.done /\ new.shaping = s
      /\ new.ran = rec.ran /\ new.sent = rec.sent
    BY <1>1, <1>5 DEF Archives
<1>9. AttemptOK(new)
    BY <1>6, <1>7, <1>8 DEF AttemptOK, SameJournal, SentOK, PendOK, RanOK, ShapingOK
<1> QED BY <1>4, <1>7, <1>8, <1>9 DEF Filed

SameProducer(new, rec) ==
    /\ SameJournal(new, rec) /\ new.marker = rec.marker /\ new.checkpoint = rec.checkpoint
    /\ new.failure = rec.failure /\ new.failureRecovery = rec.failureRecovery /\ new.done = rec.done

\* The facts of a performance label.
PerformanceAt(rec0) ==
    /\ CaptureInv /\ run # Idle /\ run.pc \in Producing /\ run.h = Producers
    /\ AttemptOK(rec0) /\ SameProducer(rec0, A)

LEMMA OwedKept ==
    ASSUME NEW rec, Owed(rec), NEW new, SameProducer(new, rec), new.shaping.intent = "final",
           new.shaping.restored = "none", new.shaping.complete = FALSE
    PROVE  Owed(new)
BY DEF Owed, SameProducer, SameJournal, NoFailure, Unresolved

LEMMA DocumentStep ==
    ASSUME NEW rec0, PerformanceAt(rec0), NEW field \in Documents, NEW f \in FileStates,
           NEW new, new = Document(rec0, field, f), Set(new), shaped' = shaped, FaultsStep,
           shaped = run.a => rec0 = A /\ field = "failed"
    PROVE  WorkStep(new) /\ SameProducer(new, A)
<1>1. /\ A.done + 1 = Producers /\ A.marker = "final" /\ A.dir = "open"
      /\ run.pc \notin {"recover", "discard", "intents", "create"}
    BY ProducingFacts DEF PerformanceAt
<1>2. rec0.done + 1 = Producers /\ rec0.marker = "final" /\ rec0.dir # Absent
    BY <1>1 DEF PerformanceAt, SameProducer, SameJournal, Absent
<1>3. /\ AttemptOK(new) /\ SameProducer(new, rec0)
      /\ new.shaping.intent = IF field = "intent" THEN f ELSE rec0.shaping.intent
      /\ new.shaping.restored = IF field = "restored" THEN f ELSE rec0.shaping.restored
      /\ new.shaping.complete = rec0.shaping.complete
    BY <1>2, DocumentWork DEF PerformanceAt, SameProducer
<1>4. SameProducer(new, A) BY <1>3 DEF PerformanceAt, SameProducer, SameJournal
<1>5. shaped = run.a => Owed(new)
    <2> SUFFICES ASSUME shaped = run.a PROVE Owed(new) OBVIOUS
    <2>1. Owed(A) BY Running DEF PerformanceAt
    <2>2. /\ new.shaping.intent = A.shaping.intent /\ new.shaping.restored = A.shaping.restored
          /\ new.shaping.complete = A.shaping.complete
        BY <1>3
    <2> QED BY <1>4, <2>1, <2>2, OwedKept DEF Owed
<1> QED BY <1>1, <1>3, <1>4, <1>5 DEF WorkStep, PerformanceAt, SameProducer

LEMMA PublishStep ==
    ASSUME NEW rec0, PerformanceAt(rec0), NEW field \in Documents, NEW pc, PublishDocument(rec0, field, pc),
           shaped = run.a => rec0 = A /\ field = "failed" /\ pc = "done",
           \/ pc \in {"checkpoint", "ledger", "done"}
           \/ pc = "apply" /\ field = "intent" /\ rec0.shaping = NoShaping
    PROVE  CaptureInv'
<1>1. CaptureInv /\ run # Idle /\ run.pc \in Producing /\ run \in Runs
      /\ run.pc \notin {"recover", "discard", "intents", "create"}
    BY ProducingFacts DEF PerformanceAt
<1>2. CASE Set([rec0 EXCEPT !.shaping[field] = "final"]) /\ Goto(pc) /\ Same
    <2>1. PICK new : new = Document(rec0, field, "final") OBVIOUS
    <2>2. "final" \in FileStates BY DEF FileStates
    <2>3. Set(new) /\ shaped' = shaped /\ FaultsStep BY <1>2, <2>1 DEF Same, FaultsStep, Document
    <2>4. WorkStep(new) /\ SameProducer(new, A) BY <2>1, <2>2, <2>3, DocumentStep
    <2>5. PICK ru : ru = [run EXCEPT !.pc = pc] OBVIOUS
    <2>6. pc \in Labels BY DEF Labels, Producing, MayOwe
    <2>7. ru \in Runs /\ ru.pc = pc /\ ru.a = run.a /\ ru.h = run.h
        BY <1>1, <2>5, <2>6, GotoEffect
    <2>8. CASE pc = "done" BY <1>2, <2>4, <2>5, <2>7, <2>8, WorkGoto DEF Goto, Plain
    <2>9. CASE pc # "done"
        <3>1. shaped # run.a BY <2>9
        <3>2. pc = "apply" => /\ new.shaping.intent = "final" /\ new.shaping.restored = "none"
                              /\ new.shaping.complete = FALSE
            <4>1. rec0.done + 1 = Producers /\ rec0.marker = "final" /\ rec0.dir # Absent
                BY <1>1, ProducingFacts DEF PerformanceAt, SameProducer, SameJournal, Absent
            <4> QED BY <2>1, <2>2, <4>1, DocumentWork DEF PerformanceAt, NoShaping
        <3>3. RunOK(ru, new, shaped)
            <4>1. /\ SameJournal(new, A) /\ new.marker = A.marker /\ new.checkpoint = A.checkpoint
                  /\ new.failure = A.failure /\ new.failureRecovery = A.failureRecovery
                  /\ new.done = A.done
                BY <2>4 DEF SameProducer
            <4>2. ru.h = Producers BY <2>7 DEF PerformanceAt
            <4>3. CASE pc = "apply"
                <5>1. ru.pc \in Shaping BY <4>3, <2>7 DEF Shaping
                <5> QED BY <1>1, <2>7, <3>1, <3>2, <4>1, <4>2, <4>3, <5>1, ProducerRun
            <4>4. CASE pc # "apply"
                <5>1. ru.pc \in {"checkpoint", "ledger"} BY <4>4, <2>7, <2>9
                <5> QED BY <1>1, <2>7, <3>1, <4>1, <4>2, <5>1, ProducerRun
            <4> QED BY <4>3, <4>4
        <3> QED BY <1>2, <2>3, <2>4, <2>5, <2>7, <3>3, WorkArchives, GoesOn DEF Goto
    <2> QED BY <2>8, <2>9
<1>3. ASSUME NEW f \in {"torn", "whole"}, CrashWriting([rec0 EXCEPT !.shaping[field] = f])
      PROVE  CaptureInv'
    <2>1. PICK new : new = Document(rec0, field, f) OBVIOUS
    <2>2. f \in FileStates BY DEF FileStates
    <2>3. Set(new) /\ shaped' = shaped /\ FaultsStep BY <1>3, <2>1 DEF CrashWriting, FaultsStep, Document
    <2>4. WorkStep(new) BY <2>1, <2>2, <2>3, DocumentStep
    <2> QED BY <1>3, <2>4, WorkExit DEF CrashWriting
<1>4. ASSUME NEW new \in {rec0, Document(rec0, field, "final")},
             Fault, Set(new), AfterError(new.shaping), UNCHANGED shaped
      PROVE  CaptureInv'
    <2>1. WorkStep(new)
        <3>1. CASE new = rec0
            BY <1>1, <1>4, <3>1, Running DEF WorkStep, PerformanceAt, FaultsStep, SameProducer
        <3>2. CASE new = Document(rec0, field, "final")
            BY <1>4, <3>2, DocumentStep DEF FaultsStep, FileStates
        <3> QED BY <1>4, <3>1, <3>2
    <2>2. CASE Exit BY <2>1, <2>2, WorkExit
    <2>3. CASE Goto("fail") /\ ArchiveState(new.shaping) # "recovery_required"
        <3>1. shaped # run.a BY <2>1, <2>3, OwedState DEF Owed, WorkStep
        <3>2. PICK ru : ru = [run EXCEPT !.pc = "fail"] OBVIOUS
        <3>3. "fail" \in Labels BY DEF Labels
        <3>4. ru \in Runs /\ ru.pc = "fail" /\ ru.a = run.a BY <1>1, <3>2, <3>3, GotoEffect
        <3> QED BY <2>1, <2>3, <3>1, <3>2, <3>4, WorkGoto DEF Goto, Unloaded
    <2> QED BY <1>4, <2>2, <2>3 DEF AfterError
<1> QED BY <1>2, <1>3, <1>4 DEF PublishDocument, Document

LEMMA ShapingIntentStep == ASSUME CaptureInv, ShapingIntent PROVE CaptureInv'
<1>1. run # Idle /\ run.pc = "shaping_intent" BY DEF ShapingIntent, At
<1>2. run.pc \in Producing BY <1>1 DEF Producing
<1>3. run.h = Producers /\ A.shaping = NoShaping BY <1>1, Running DEF RunOK
<1>4. PICK rec0 : rec0 = Ran(A) OBVIOUS
<1>5. PerformanceAt(rec0) /\ rec0.shaping = NoShaping /\ shaped # run.a
    BY <1>1, <1>2, <1>3, <1>4, RanWork DEF PerformanceAt, SameProducer
<1> QED BY <1>1, <1>4, <1>5, PublishStep DEF ShapingIntent, Documents

LEMMA PerformanceHere ==
    ASSUME CaptureInv, run # Idle, run.pc \in Shaping \cup {"ledger"}
    PROVE  /\ PerformanceAt(A) /\ (run.pc \notin MayOwe => shaped # run.a)
           /\ (run.pc = "series" => run.unclean \/ shaped # run.a)
           /\ run.pc \in Shaping => /\ A.shaping.intent = "final" /\ A.shaping.restored = "none"
                                    /\ A.shaping.complete = FALSE
<1>1. run.pc \in Producing BY DEF Shaping, Producing
<1> QED BY <1>1, Running DEF RunOK, PerformanceAt, SameProducer, SameJournal

\* Between two labels of the shaping transaction the archive does not change.
LEMMA ShapingGoto ==
    ASSUME CaptureInv, run # Idle, run.pc \in Shaping, att' = att, FaultsStep,
           shaped' \in {shaped, 0, run.a}, NEW ru \in Runs, run' = ru, ru.a = run.a, ru.h = run.h,
           ru.pc \in Shaping, ru.pc = "series" => ru.unclean \/ shaped' # run.a
    PROVE  CaptureInv'
<1>1. run.pc \in Producing /\ run.h = Producers BY PerformanceHere DEF PerformanceAt
<1>2. /\ A.shaping.intent = "final" /\ A.shaping.restored = "none" /\ A.shaping.complete = FALSE
    BY PerformanceHere
<1>3. Owed(A) BY <1>1, <1>2, ProducingFacts, Sizes DEF Owed
<1>4. ArchivesOK' BY <1>3, QuietStep
<1>5. RunOK(ru, A, shaped') BY <1>1, <1>2, ProducerRun DEF SameJournal, Shaping
<1>6. ru.pc # "create" BY DEF Shaping
<1> QED BY <1>4, <1>5, <1>6, GoesOn DEF A

LEMMA ApplyStep == ASSUME CaptureInv, Apply PROVE CaptureInv'
<1>1. run # Idle /\ run.pc = "apply" /\ run.pc \in Shaping /\ run \in Runs
    BY Running DEF Apply, At, Shaping
<1>2. PICK ru : ru = run' OBVIOUS
<1>3. ru \in Runs /\ ru.pc = "restore" /\ ru.a = run.a /\ ru.h = run.h
    BY <1>1, <1>2 DEF Apply, Goto, Runs, Labels, Producing
<1>4. FaultsStep /\ att' = att /\ shaped' = run.a BY DEF Apply, FaultsStep
<1> QED BY <1>1, <1>2, <1>3, <1>4, ShapingGoto DEF Shaping

LEMMA RestoreProfileStep == ASSUME CaptureInv, RestoreProfile PROVE CaptureInv'
<1>1. run # Idle /\ run.pc = "restore" /\ run.pc \in Shaping /\ run \in Runs /\ run.a # 0
    BY Running, Sizes DEF RestoreProfile, At, Shaping
<1>2. PICK ru : ru = run' OBVIOUS
<1>3. /\ ru \in Runs /\ ru.a = run.a /\ ru.h = run.h
      /\ ru.pc = "record_failed" \/ (ru.pc = "series" /\ (ru.unclean \/ shaped' = 0))
    BY <1>1, <1>2 DEF RestoreProfile, Goto, Runs, Labels, Producing
<1>4. FaultsStep /\ att' = att /\ shaped' \in {shaped, 0} BY DEF RestoreProfile, FaultsStep
<1> QED BY <1>1, <1>2, <1>3, <1>4, ShapingGoto DEF Shaping

LEMMA CaptureSeriesStep == ASSUME CaptureInv, CaptureSeries PROVE CaptureInv'
<1>1. run # Idle /\ run.pc = "series" /\ run.pc \in Shaping /\ run \in Runs
    BY Running DEF CaptureSeries, At, Shaping
<1>2. (run.unclean \/ shaped # run.a) /\ PerformanceAt(A) BY <1>1, PerformanceHere
<1>3. CASE Goto("apply") /\ Quiet
    <2>1. PICK ru : ru = [run EXCEPT !.pc = "apply"] OBVIOUS
    <2>2. "apply" \in Labels BY DEF Labels, Producing
    <2>3. ru \in Runs /\ ru.pc = "apply" /\ ru.a = run.a /\ ru.h = run.h
        BY <1>1, <2>1, <2>2, GotoEffect
    <2>4. FaultsStep /\ att' = att /\ shaped' = shaped /\ run' = ru
        BY <1>3, <2>1 DEF Quiet, Goto, FaultsStep
    <2> QED BY <1>1, <2>3, <2>4, ShapingGoto DEF Shaping
<1>4. CASE ~run.unclean /\ PublishDocument(A, "restored", "ledger")
    BY <1>2, <1>4, PublishStep DEF Documents
<1>5. CASE run.unclean /\ AfterError(A.shaping) /\ Quiet
    <2>1. ArchiveState(A.shaping) = "recovery_required" BY <1>1, PerformanceHere, OwedState
    <2> QED BY <1>5, <2>1, QuietExit DEF AfterError, Quiet, FaultsStep
<1> QED BY <1>3, <1>4, <1>5 DEF CaptureSeries

LEMMA RecordFailedStep == ASSUME CaptureInv, RecordFailed PROVE CaptureInv'
<1>1. run # Idle /\ run.pc = "record_failed" /\ run.pc \in Shaping BY DEF RecordFailed, At, Shaping
<1>2. PerformanceAt(A) BY <1>1, PerformanceHere
<1> QED BY <1>2, PublishStep DEF Documents, RecordFailed

LEMMA CompleteLedgerStep == ASSUME CaptureInv, CompleteLedger PROVE CaptureInv'
<1>1. run # Idle /\ run.pc = "ledger" BY DEF CompleteLedger, At
<1>2. PerformanceAt(A) /\ shaped # run.a BY <1>1, PerformanceHere DEF MayOwe
<1> QED BY <1>2, PublishStep DEF Documents, CompleteLedger

-----------------------------------------------------------------------------
(* recover and recover-journal.                                            *)

LEMMA RecoveredStep == ASSUME CaptureInv, Recovered PROVE CaptureInv'
<1>1. run # Idle /\ run.pc = "recovered" /\ Goto("resume") /\ att' = att /\ shaped' = shaped /\ FaultsStep
    BY DEF Recovered, At, Quiet, FaultsStep
<1>2. RunOK(run, A, shaped) /\ run \in Runs BY <1>1, Running
<1>3. PICK ru : ru = [run EXCEPT !.pc = "resume"] OBVIOUS
<1>4. "resume" \in Labels BY DEF Labels, MayOwe
<1>5. ru \in Runs /\ ru.pc = "resume" /\ ru.a = run.a /\ ru.cmd = run.cmd
    BY <1>2, <1>3, <1>4, GotoEffect
<1>6. RunOK(ru, A, shaped)
    BY <1>1, <1>2, <1>5 DEF RunOK, Recovering, Producing, Shaping, Unsending, Roled, MayOwe
<1> QED BY <1>1, <1>3, <1>4, <1>6, QuietGoto

LEMMA RecoverShapingStep == ASSUME CaptureInv, RecoverShaping PROVE CaptureInv'
<1>1. run # Idle /\ run.pc = "recover_shaping" /\ att' = att /\ shaped' = shaped /\ FaultsStep
    BY DEF RecoverShaping, At, Quiet, FaultsStep
<1>2. run \in Runs /\ A \in Archives /\ RunOK(run, A, shaped) BY <1>1, Running
<1>3. CASE Exit BY <1>1, <1>3, QuietExit
<1>4. CASE MayRecover /\ A.shaping.complete /\ run' = [run EXCEPT !.pc = "abandon", !.bind = "shaping"]
    <2>1. shaped # run.a BY <1>1, <1>4, Running DEF Owed
    <2>2. PICK ru : ru = [run EXCEPT !.pc = "abandon", !.bind = "shaping"] OBVIOUS
    <2>3. ru \in Runs /\ ru.pc = "abandon" /\ ru.a = run.a BY <1>2, <2>2, AbandonRun DEF Closers
    <2> QED BY <1>1, <1>4, <2>1, <2>2, <2>3, PlainGoto DEF Unloaded
<1>5. CASE MayRecover /\ A.shaping.recoveries < MaxRecoveries /\ Goto("reload")
    <2>1. PICK ru : ru = [run EXCEPT !.pc = "reload"] OBVIOUS
    <2>2. "reload" \in Labels BY DEF Labels, MayOwe
    <2>3. ru \in Runs /\ ru.pc = "reload" /\ ru.a = run.a BY <1>2, <2>1, <2>2, GotoEffect
    <2>4. A.shaping.intent = "final" BY <1>5 DEF MayRecover, RecoveryReopens, Published
    <2>5. A.pend = NoPend /\ ~Unresolved(A) /\ A.dir = "open" BY <1>1, Settled
    <2>6. RunOK(ru, A, shaped)
        BY <1>5, <2>3, <2>4, <2>5
            DEF RunOK, Recovering, Producing, Shaping, Unsending, Roled, MayOwe
    <2> QED BY <1>1, <1>5, <2>1, <2>2, <2>6, QuietGoto
<1> QED BY <1>3, <1>4, <1>5 DEF RecoverShaping

LEMMA ReloadStep == ASSUME CaptureInv, Reload PROVE CaptureInv'
<1>1. run # Idle /\ run.pc = "reload" /\ att' = att BY DEF Reload, At
<1>2. run \in Runs /\ RunOK(run, A, shaped) /\ run.a # 0 BY <1>1, Running, Sizes
<1>3. PICK ru : ru = run' OBVIOUS
<1>4. /\ ru \in Runs /\ ru.a = run.a /\ ru.pc = "record_recovery"
      /\ ru.failing \/ shaped' = 0
    BY <1>2, <1>3 DEF Reload, Goto, Runs, Labels, MayOwe
<1>5. FaultsStep /\ shaped' \in {shaped, 0} BY DEF Reload, FaultsStep
<1>6. A.pend = NoPend /\ ~Unresolved(A) /\ A.dir = "open" BY <1>1, Settled
<1>7. A.shaping.intent = "final" /\ A.shaping.recoveries < MaxRecoveries BY <1>1, <1>2 DEF RunOK
<1>8. RunOK(ru, A, shaped')
    BY <1>2, <1>4, <1>6, <1>7 DEF RunOK, Recovering, Producing, Shaping, Unsending, Roled, MayOwe
<1>9. ArchivesOK' BY <1>1, <1>5, QuietStep
<1> QED BY <1>1, <1>3, <1>4, <1>8, <1>9, GoesOn DEF A

\* The record of a recovery is written into an archive that has an intent.
LEMMA RecoveryWork ==
    ASSUME CaptureInv, run # Idle, run.pc = "record_recovery", NEW s \in Shapings,
           s.intent = A.shaping.intent, s.restored = A.shaping.restored,
           shaped = run.a => s.complete = FALSE,
           NEW rec, rec = [A EXCEPT !.shaping = s], Set(rec), shaped' = shaped, FaultsStep
    PROVE  WorkStep(rec)
<1>1. AttemptOK(A) /\ A \in Archives /\ A.shaping.intent = "final" /\ (shaped = run.a => Owed(A))
    BY Running DEF RunOK
<1>2. rec \in Archives BY <1>1 DEF Archives
<1>3. SameJournal(rec, A) BY <1>1 DEF Archives, SameJournal
<1>4. /\ rec.marker = A.marker /\ rec.checkpoint = A.checkpoint /\ rec.failure = A.failure
      /\ rec.failureRecovery = A.failureRecovery /\ rec.done = A.done /\ rec.shaping = s
      /\ rec.ran = A.ran /\ rec.sent = A.sent
    BY <1>1 DEF Archives
<1>5. A.shaping # NoShaping BY <1>1 DEF NoShaping
<1>6. A.dir # Absent BY Settled DEF Absent
<1>7. AttemptOK(rec)
    BY <1>1, <1>2, <1>3, <1>4, <1>5, <1>6
        DEF AttemptOK, SameJournal, SentOK, PendOK, RanOK, ShapingOK
<1>8. shaped = run.a => Owed(rec)
    BY <1>1, <1>3, <1>4, OwedKept DEF SameProducer, Owed
<1> QED BY <1>3, <1>7, <1>8 DEF WorkStep

LEMMA RecordRecoveryStep == ASSUME CaptureInv, RecordRecovery PROVE CaptureInv'
<1>1. run # Idle /\ run.pc = "record_recovery" BY DEF RecordRecovery, At
<1>2. /\ run \in Runs /\ A \in Archives /\ (run.failing \/ shaped # run.a)
      /\ A.shaping.recoveries < MaxRecoveries
    BY <1>1, Running DEF RunOK
<1>3. A.shaping \in Shapings BY <1>2 DEF Archives
<1>4. CASE /\ Set([A EXCEPT !.shaping.recoveries = @ + 1, !.shaping.complete = ~run.failing])
           /\ IF run.failing THEN Exit ELSE run' = [run EXCEPT !.pc = "abandon", !.bind = "shaping"]
           /\ Same
    <2>1. PICK s : s = [A.shaping EXCEPT !.recoveries = @ + 1, !.complete = ~run.failing] OBVIOUS
    <2>2. A.shaping.recoveries + 1 \in 0..MaxRecoveries
        BY <1>2, <1>3, RecoveriesAssumption DEF Shapings
    <2>3. run.failing \in BOOLEAN BY <1>2 DEF Runs
    <2>4. (~run.failing) \in BOOLEAN BY <2>3
    <2>5. s \in Shapings BY <1>3, <2>1, <2>2, <2>4 DEF Shapings
    <2>6. /\ s.intent = A.shaping.intent /\ s.restored = A.shaping.restored
          /\ s.complete = ~run.failing
        BY <1>3, <2>1 DEF Shapings
    <2>7. PICK rec : rec = [A EXCEPT !.shaping = s] OBVIOUS
    <2>8. Set(rec) /\ shaped' = shaped /\ FaultsStep
        BY <1>2, <1>3, <1>4, <2>1, <2>7 DEF Same, FaultsStep, Archives, Shapings
    <2>9. WorkStep(rec) BY <1>1, <1>2, <2>3, <2>5, <2>6, <2>7, <2>8, RecoveryWork
    <2>10. CASE run.failing BY <1>4, <2>9, <2>10, WorkExit
    <2>11. CASE ~run.failing
        <3>1. PICK ru : ru = [run EXCEPT !.pc = "abandon", !.bind = "shaping"] OBVIOUS
        <3>2. ru \in Runs /\ ru.pc = "abandon" /\ ru.a = run.a BY <1>2, <3>1, AbandonRun DEF Closers
        <3> QED BY <1>2, <1>4, <2>9, <2>11, <3>1, <3>2, WorkGoto DEF Unloaded
    <2> QED BY <2>10, <2>11
<1>5. CASE CrashWriting([A EXCEPT !.shaping.torn = TRUE])
    <2>1. PICK s : s = [A.shaping EXCEPT !.torn = TRUE] OBVIOUS
    <2>2. s \in Shapings BY <1>3, <2>1 DEF Shapings
    <2>3. /\ s.intent = A.shaping.intent /\ s.restored = A.shaping.restored
          /\ s.complete = A.shaping.complete
        BY <1>3, <2>1 DEF Shapings
    <2>4. PICK rec : rec = [A EXCEPT !.shaping = s] OBVIOUS
    <2>5. Set(rec) /\ shaped' = shaped /\ FaultsStep
        BY <1>2, <1>3, <1>5, <2>1, <2>4 DEF CrashWriting, FaultsStep, Archives, Shapings
    <2>6. shaped = run.a => s.complete = FALSE BY <1>1, <2>3, Running DEF Owed
    <2>7. WorkStep(rec) BY <1>1, <2>2, <2>3, <2>4, <2>5, <2>6, RecoveryWork
    <2> QED BY <1>5, <2>7, WorkExit DEF CrashWriting
<1> QED BY <1>4, <1>5 DEF RecordRecovery

LEMMA FinishInitializationStep == ASSUME CaptureInv, FinishInitialization PROVE CaptureInv'
<1>1. run # Idle /\ run.pc = "recover_journal" /\ att' = att /\ shaped' = shaped /\ FaultsStep
    BY DEF FinishInitialization, At, Quiet, FaultsStep
<1>2. CASE A.st # "initialized" BY <1>1, <1>2, QuietExit DEF FinishInitialization
<1>3. CASE A.st = "initialized"
    <2>1. shaped # run.a BY <1>1, <1>3, Running DEF Owed
    <2>2. Goto("begin") \/ Goto("fail") BY <1>3 DEF FinishInitialization
    <2> QED BY <1>1, <2>1, <2>2, GotoPlain DEF Unloaded
<1> QED BY <1>2, <1>3

LEMMA CollectorStep == ASSUME CaptureInv, CollectorNext PROVE CaptureInv'
<1>1. CASE CollectClosed BY <1>1, QuietExit DEF CollectClosed, Quiet, FaultsStep
<1>2. CASE OutOfOrder BY <1>2, QuietExit DEF OutOfOrder, Quiet, FaultsStep
<1>3. CASE Recover BY <1>3, OpenedRecovery DEF Recover
<1>4. CASE RecoverJournal BY <1>4, OpenedRecovery DEF RecoverJournal
<1>5. CASE ResumeRefused BY <1>5, QuietExit DEF ResumeRefused, Quiet, FaultsStep
<1> QED BY <1>1, <1>2, <1>3, <1>4, <1>5, InitializeStep, WriteInputsStep, CollectionStartedStep, FinishStep,
           WriteFailureStep, AbandonmentStep, NothingToResumeStep, ResumeFinalStep, ResumeTornStep,
           ResumeRecoveredStep, WriteStaleFailureStep, CollectStep, DiscardMarkerStep, AmbiguousCheckpointStep, AllDoneStep,
           FreezeObservationsStep, InterruptedStep, WriteMarkerStep, HandlerStep, WriteCheckpointStep,
           ShapingIntentStep, ApplyStep, RestoreProfileStep, CaptureSeriesStep, RecordFailedStep,
           CompleteLedgerStep, RecoveredStep, RecoverShapingStep, ReloadStep, RecordRecoveryStep,
           FinishInitializationStep
       DEF CollectorNext

-----------------------------------------------------------------------------
(* finalize.                                                               *)

LEMMA FinalizeBegins == ASSUME CaptureInv, Finalize PROVE CaptureInv'
<1>1. PICK a \in Attempts : Opens(att[a]) /\ Begin("finalize", a, 0, "finalize") /\ Quiet
    BY DEF Finalize
<1>2. PICK ru : ru = Begun("finalize", a, 0, "finalize") OBVIOUS
<1>3. run' = ru /\ att' = att /\ shaped' = shaped /\ FaultsStep
    BY <1>1, <1>2, BeginEffect DEF Quiet, FaultsStep
<1>4. ru.a = a /\ ru.pc = "finalize" BY <1>1, <1>2, BeginEffect
<1>5. ru \in Runs
    <2>1. "finalize" \in Labels /\ 0 \in 0..Producers BY Sizes DEF Labels, MayOwe
    <2> QED BY <1>2, <2>1, BeginTyped
<1>6. ArchivesOK' BY <1>3, QuietStep
<1>7. RunOK(ru, att[a], shaped) BY <1>1, <1>4, <1>5, PlainRun DEF Opens, Plain
<1> QED BY <1>3, <1>4, <1>6, <1>7, GoesOn

\* The labels of one role that rely on nothing but the role.
Roles == {"interrupted", "prepare", "attempt", "response", "outcome_unknown", "response_recorded"}

LEMMA RoleRun ==
    ASSUME NEW ru \in Runs, NEW rec, NEW sh, rec.pend = NoPend, ~Unresolved(rec), rec.dir = "open",
           ru.role \in ROLES, sh # ru.a,
           \/ ru.pc \in Roles
           \/ ru.pc \in Unsending /\ rec.st = ATTEMPTED[ru.role] /\ rec.sent[ru.role] = 0
    PROVE  RunOK(ru, rec, sh)
BY DEF RunOK, Roles, Recovering, Producing, Shaping, Unsending, Roled, MayOwe

LEMMA RoleGoto ==
    ASSUME CaptureInv, run # Idle, run.pc \notin {"recover", "discard", "intents", "create"},
           att' = att, shaped' = shaped, FaultsStep, shaped # run.a,
           NEW ru \in Runs, run' = ru, ru.a = run.a, ru.role \in ROLES,
           ru.pc \in Roles \/ (ru.pc \in Unsending /\ A.st = ATTEMPTED[ru.role] /\ A.sent[ru.role] = 0)
    PROVE  CaptureInv'
<1>1. ArchivesOK' BY QuietStep
<1>2. RunOK(ru, A, shaped) BY Settled, RoleRun
<1>3. ru.pc # "create" BY DEF Roles, Unsending
<1> QED BY <1>1, <1>2, <1>3, GoesOn DEF A

LEMMA FinalizeStepStep == ASSUME CaptureInv, FinalizeStep PROVE CaptureInv'
<1>1. run # Idle /\ run.pc = "finalize" /\ att' = att /\ shaped' = shaped /\ FaultsStep
    BY DEF FinalizeStep, At, Quiet, FaultsStep
<1>2. run \in Runs /\ (A.st # "collecting" => shaped # run.a) BY <1>1, Running DEF Owed
<1>3. ASSUME NEW r \in ROLES, NEW pc \in {"interrupted", "prepare", "attempt"},
             A.st # "collecting", InRole(r, pc)
      PROVE  CaptureInv'
    <2>1. PICK ru : ru = [run EXCEPT !.role = r, !.pc = pc] OBVIOUS
    <2>2. pc \in Labels /\ pc \in Roles BY DEF Labels, Roled, Roles
    <2>3. ru \in Runs /\ ru.pc = pc /\ ru.a = run.a /\ ru.role = r
        BY <1>2, <2>1, <2>2 DEF Runs
    <2> QED BY <1>1, <1>2, <1>3, <2>1, <2>2, <2>3, RoleGoto DEF InRole
<1>4. \A r \in ROLES : "collecting" \notin {ATTEMPTED[r], BEFORE[r], PREPARED[r]}
    BY Names DEF ROLES
<1>5. ASSUME NEW pc \in {"signing_time", "bindings", "record"}, A.st # "collecting", Goto(pc)
      PROVE  CaptureInv'
    BY <1>1, <1>2, <1>5, GotoPlain DEF Unloaded
<1>6. "collecting" \notin {RECEIVED["nonce"], "reports_composed", RECEIVED["receipt"]}
    BY Names
<1> QED BY <1>3, <1>4, <1>5, <1>6 DEF FinalizeStep

\* An event of finalize that leads to a label which relies on the journal only.
LEMMA JournalStep ==
    ASSUME CaptureInv, NEW pc, NEW e, NEW bind \in Binds, NEW next, Journal(pc, e, bind, next),
           pc \in Labels \ (MayOwe \cup {"create", "discard"}), e \in Events,
           \A r \in ROLES : e = Event("pre_send_failed", r) => A.sent[r] = 0,
           next \in {"done", "finalize"} \/ (next = "attempt" /\ run.role \in ROLES)
    PROVE  CaptureInv'
<1>1. run # Idle /\ run.pc = pc BY DEF Journal, At
<1>2. A.pend = NoPend /\ shaped # run.a BY <1>1, Running DEF RunOK, MayOwe
<1>3. Appending(e) BY <1>1, <1>2 DEF Appending
<1> QED BY <1>3, CrashStep, FailsStep, AppendGoto DEF Journal

LEMMA RoleFacts ==
    ASSUME CaptureInv, run # Idle, run.pc \in Roled
    PROVE  /\ run.role \in ROLES /\ run \in Runs /\ shaped # run.a
           /\ run.pc \notin {"recover", "discard", "intents", "create"}
           /\ run.pc \in Labels \ (MayOwe \cup {"create", "discard"})
           /\ \A x \in RoleEvents : RoleEvent(x) \in Events
           /\ run.pc \in Unsending => A.st = ATTEMPTED[run.role] /\ A.sent[run.role] = 0
<1>1. run.pc \in Labels \ (MayOwe \cup {"create", "discard"})
    BY DEF Roled, Unsending, Labels, MayOwe
<1>2. run.role \in ROLES /\ run \in Runs /\ RunOK(run, A, shaped) BY Running DEF RunOK
<1>3. \A x \in RoleEvents : RoleEvent(x) \in Events BY <1>2 DEF RoleEvent, Events
<1> QED BY <1>1, <1>2, <1>3 DEF RunOK, MayOwe

LEMMA RoleJournal ==
    ASSUME CaptureInv, NEW pc \in Roled, NEW x \in RoleEvents, NEW bind \in Binds, NEW next,
           Journal(pc, RoleEvent(x), bind, next), x = "pre_send_failed" => pc = "pre_send_failed",
           next \in {"done", "finalize", "attempt"}
    PROVE  CaptureInv'
<1>1. run # Idle /\ run.pc = pc BY DEF Journal, At
<1>2. \A r \in ROLES : RoleEvent(x) = Event("pre_send_failed", r) => A.sent[r] = 0
    <2>1. \A r \in ROLES : RoleEvent(x) = Event("pre_send_failed", r) => x = "pre_send_failed" /\ r = run.role
        BY DEF RoleEvent, Event
    <2>2. pc = "pre_send_failed" => A.sent[run.role] = 0 BY <1>1, RoleFacts DEF Unsending
    <2> QED BY <2>1, <2>2
<1>3. pc \in Labels \ (MayOwe \cup {"create", "discard"}) /\ RoleEvent(x) \in Events
      /\ run.role \in ROLES
    BY <1>1, RoleFacts
<1> QED BY <1>1, <1>2, <1>3, JournalStep

LEMMA AppendAttemptStep == ASSUME CaptureInv, AppendAttempt PROVE CaptureInv'
<1>1. run # Idle /\ run.pc = "attempt" /\ run.pc \in Roled BY DEF AppendAttempt, Journal, At, Roled
<1>2. run.role \in ROLES /\ run \in Runs /\ shaped # run.a BY <1>1, RoleFacts
<1>3. A.pend = NoPend /\ AttemptOK(A) /\ A.dir = "open" BY <1>1, Running, Settled
<1>4. PICK e : e = RoleEvent("attempt_started") OBVIOUS
<1>5. e \in Events BY <1>1, <1>4, RoleFacts DEF RoleEvents
<1>6. \A r \in ROLES : e # Event("pre_send_failed", r) BY <1>4 DEF RoleEvent, Event
<1>7. Appending(e) BY <1>1, <1>2, <1>3, <1>5, <1>6 DEF Appending
<1>8. "request" \in Binds BY DEF Binds
<1>9. CASE Append1(e, "request", "client")
    <2>1. ArchivesOK' /\ att'[run.a] = Appended(A, e, "request") /\ shaped' = shaped
        BY <1>7, <1>8, <1>9, AppendStep
    <2>2. PICK rec : rec = Appended(A, e, "request") OBVIOUS
    <2>3. CanAppend(A, e) /\ A.dir # Absent BY <1>3, <1>9 DEF Append1, Absent
    <2>4. /\ rec.pend = NoPend /\ ~Unresolved(rec) /\ rec.dir = "open"
          /\ rec.st = TransitionFor(e, A.st) /\ rec.sent = A.sent
        BY <1>3, <1>5, <1>6, <1>8, <2>2, <2>3, AppendOK DEF SameWork
    <2>5. A.st = PREPARED[run.role] /\ rec.st = ATTEMPTED[run.role]
        BY <1>2, <1>4, <2>3, <2>4, RoleTransition DEF CanAppend, RoleEvent
    <2>6. A.st \in Unsent(run.role) BY <1>2, <2>5, Names DEF Unsent, ROLES
    <2>7. rec.sent[run.role] = 0 BY <1>2, <1>3, <2>4, <2>6 DEF AttemptOK, SentOK
    <2>8. PICK ru : ru = [run EXCEPT !.pc = "client"] OBVIOUS
    <2>9. "client" \in Labels BY DEF Labels, Roled, Unsending
    <2>10. ru \in Runs /\ ru.pc = "client" /\ ru.a = run.a /\ ru.role = run.role
        BY <1>2, <2>8, <2>9, GotoEffect
    <2>11. RunOK(ru, rec, shaped)
        BY <1>2, <2>4, <2>5, <2>7, <2>10, RoleRun DEF Unsending
    <2> QED BY <1>9, <2>1, <2>2, <2>8, <2>10, <2>11, GoesOn DEF Append1, Goto
<1> QED BY <1>4, <1>7, <1>8, <1>9, CrashStep, FailsStep DEF AppendAttempt, Journal

LEMMA RoleMove ==
    ASSUME CaptureInv, run # Idle, run.pc \in Roled, att' = att, shaped' = shaped, FaultsStep,
           NEW pc, Goto(pc), pc \in Roles \/ (pc \in Unsending /\ run.pc \in Unsending)
    PROVE  CaptureInv'
<1>1. PICK ru : ru = [run EXCEPT !.pc = pc] OBVIOUS
<1>2. pc \in Labels BY DEF Labels, Roled, Unsending, Roles
<1>3. ru \in Runs /\ ru.pc = pc /\ ru.a = run.a /\ ru.role = run.role
    BY <1>1, <1>2, GotoEffect, RoleFacts
<1> QED BY <1>1, <1>3, RoleFacts, RoleGoto DEF Goto

\* The POST: nothing of this role was sent before.
LEMMA PostStep == ASSUME CaptureInv, Post PROVE CaptureInv'
<1>1. run # Idle /\ run.pc = "send" /\ run.pc \in Roled /\ run.pc \in Unsending
    BY DEF Post, At, Roled, Unsending
<1>2. /\ run.role \in ROLES /\ run \in Runs /\ shaped # run.a /\ A.st = ATTEMPTED[run.role]
      /\ A.sent[run.role] = 0 /\ run.pc \notin {"recover", "discard", "intents", "create"}
    BY <1>1, RoleFacts
<1>3. AttemptOK(A) /\ A \in Archives /\ A.dir = "open" /\ A.pend = NoPend BY <1>1, <1>2, Running, Settled
<1>4. PICK rec : rec = [A EXCEPT !.sent[run.role] = @ + 1] OBVIOUS
<1>5. rec = [A EXCEPT !.sent = [A.sent EXCEPT ![run.role] = 1]] BY <1>2, <1>3, <1>4 DEF Archives
<1>6. [A.sent EXCEPT ![run.role] = 1] \in [ROLES -> 0..1] BY <1>2, <1>3 DEF Archives
<1>7. rec \in Archives BY <1>3, <1>5, <1>6 DEF Archives
<1>8. SameJournal(rec, A) BY <1>3, <1>5 DEF Archives, SameJournal
<1>9. /\ rec.marker = A.marker /\ rec.done = A.done /\ rec.ran = A.ran /\ rec.shaping = A.shaping
      /\ rec.sent = [A.sent EXCEPT ![run.role] = 1]
    BY <1>3, <1>5 DEF Archives
<1>10. SentOK(rec)
    <2> SUFFICES ASSUME NEW r \in ROLES, rec.st \in Unsent(r) PROVE rec.sent[r] = 0 BY DEF SentOK
    <2>1. A.st \in Unsent(r) BY <1>8 DEF SameJournal
    <2>2. r # run.role BY <1>2, <2>1, Names DEF Unsent, ROLES, Absent
    <2> QED BY <1>3, <1>9, <2>1, <2>2 DEF AttemptOK, SentOK, Archives
<1>11. AttemptOK(rec)
    BY <1>3, <1>7, <1>8, <1>9, <1>10 DEF AttemptOK, SameJournal, PendOK, RanOK, ShapingOK, Absent
<1>12. WorkStep(rec) BY <1>1, <1>2, <1>4, <1>8, <1>11 DEF WorkStep, Post, Same, FaultsStep
<1>13. PICK ru : ru = [run EXCEPT !.pc = "response"] OBVIOUS
<1>14. "response" \in Labels BY DEF Labels, Roled
<1>15. ru \in Runs /\ ru.pc = "response" /\ ru.a = run.a /\ ru.role = run.role
    BY <1>2, <1>13, <1>14, GotoEffect
<1>16. RunOK(ru, rec, shaped') BY <1>2, <1>12, <1>15, WorkArchives, RoleRun DEF Roles, WorkStep
<1> QED BY <1>12, <1>13, <1>15, <1>16, WorkArchives, GoesOn DEF Post, Goto

LEMMA SigningTimeStep == ASSUME CaptureInv, SigningTime PROVE CaptureInv'
<1>1. run # Idle /\ run.pc = "signing_time" BY DEF SigningTime, At
<1>2. shaped # run.a /\ run \in Runs /\ AttemptOK(A) /\ A \in Archives
    BY <1>1, Running DEF RunOK, MayOwe
<1>3. A.dir # Absent BY <1>1, Settled DEF Absent
<1>4. ASSUME NEW f \in FileStates, Set([A EXCEPT !.signingTime = f]), shaped' = shaped, FaultsStep,
             Exit \/ UNCHANGED run \/ Goto("reports")
      PROVE  CaptureInv'
    <2>1. PICK rec : rec = [A EXCEPT !.signingTime = f] OBVIOUS
    <2>2. rec \in Archives BY <1>2, <2>1 DEF Archives
    <2>3. SameRest(rec, A) BY <1>2, <2>1 DEF Archives, SameRest, SameJournal
    <2>4. WorkStep(rec)
        BY <1>1, <1>2, <1>3, <1>4, <2>1, <2>2, <2>3, FreeChange DEF WorkStep, SameRest
    <2>5. CASE Exit BY <2>4, <2>5, WorkExit
    <2>6. CASE UNCHANGED run BY <1>1, <1>2, <2>4, <2>6, WorkGoto DEF Unloaded
    <2>7. CASE Goto("reports")
        <3>1. PICK ru : ru = [run EXCEPT !.pc = "reports"] OBVIOUS
        <3>2. "reports" \in Labels BY DEF Labels
        <3>3. ru \in Runs /\ ru.pc = "reports" /\ ru.a = run.a BY <1>2, <3>1, <3>2, GotoEffect
        <3> QED BY <1>2, <2>4, <2>7, <3>1, <3>3, WorkGoto DEF Goto, Unloaded
    <2> QED BY <1>4, <2>5, <2>6, <2>7
<1>5. CASE A.signingTime = "final" /\ Goto("reports") /\ Quiet
    BY <1>1, <1>2, <1>5, GotoPlain DEF Quiet, FaultsStep, Unloaded
<1>6. CASE Exit /\ Quiet BY <1>6, QuietExit DEF Quiet, FaultsStep
<1>7. CASE Set([A EXCEPT !.signingTime = "final"]) /\ Goto("reports") /\ Same
    BY <1>4, <1>7 DEF FileStates, Same, FaultsStep
<1>8. ASSUME NEW f \in {"torn", "whole"}, CrashWriting([A EXCEPT !.signingTime = f]) PROVE CaptureInv'
    <2>1. f \in FileStates BY DEF FileStates
    <2> QED BY <1>4, <1>8, <2>1 DEF CrashWriting, FaultsStep
<1>9. CASE Set([A EXCEPT !.signingTime = "none"]) /\ UNCHANGED run /\ Same
    BY <1>4, <1>9 DEF FileStates, Same, FaultsStep
<1> QED BY <1>5, <1>6, <1>7, <1>8, <1>9 DEF SigningTime

LEMMA FinalizeNextStep == ASSUME CaptureInv, FinalizeNext PROVE CaptureInv'
<1>1. CASE FinalizeRefused BY <1>1, QuietExit DEF FinalizeRefused, Quiet, FaultsStep
<1>2. CASE ResolveInterrupted
    BY <1>2, RoleJournal DEF ResolveInterrupted, Roled, RoleEvents, Binds
<1>3. CASE Prepare BY <1>3, RoleJournal DEF Prepare, Roled, RoleEvents, Binds
<1>4. CASE PreSend
    BY <1>4, RoleMove DEF PreSend, At, Quiet, FaultsStep, Roled, Unsending
<1>5. CASE PreSendError
    BY <1>5, RoleMove DEF PreSendError, At, FaultsStep, Roled, Unsending
<1>6. CASE RecordPreSendFailure
    BY <1>6, RoleJournal DEF RecordPreSendFailure, Roled, Unsending, RoleEvents, Binds
<1>7. CASE Response
    BY <1>7, RoleMove DEF Response, At, Quiet, FaultsStep, Roled, Roles
<1>8. CASE OutcomeUnknown
    BY <1>8, RoleMove DEF OutcomeUnknown, At, FaultsStep, Roled, Roles
<1>9. CASE RecordOutcomeUnknown
    BY <1>9, RoleJournal DEF RecordOutcomeUnknown, Roled, RoleEvents, Binds
<1>10. CASE ResponseRecorded
    BY <1>10, RoleJournal DEF ResponseRecorded, Roled, RoleEvents, Binds
<1>11. ASSUME NEW x \in PlainEvents PROVE Event(x, "-") \in Events
              /\ \A r \in ROLES : Event(x, "-") # Event("pre_send_failed", r)
    BY DEF Events, PlainEvents, Event
<1>12. CASE EnsureReports
    <2>1. "reports" \in Labels \ (MayOwe \cup {"create", "discard"}) /\ "reports" \in Binds
          /\ "reports_composed" \in PlainEvents
        BY DEF Labels, MayOwe, Binds, PlainEvents
    <2>2. CASE Journal("reports", Event("reports_composed", "-"), "reports", "finalize")
        BY <1>11, <2>1, <2>2, JournalStep
    <2>3. CASE ReportSetInvalid /\ Exit /\ UNCHANGED <<att, shaped>>
        BY <2>3, QuietExit DEF ReportSetInvalid, Fault, FaultsStep
    <2> QED BY <1>12, <2>2, <2>3 DEF EnsureReports
<1>13. CASE EnsureBindings
    <2>1. "bindings" \in Labels \ (MayOwe \cup {"create", "discard"}) /\ "bindings" \in Binds
          /\ "bindings_composed" \in PlainEvents
        BY DEF Labels, MayOwe, Binds, PlainEvents
    <2> QED BY <1>11, <1>13, <2>1, JournalStep DEF EnsureBindings
<1>14. CASE RunFinalized
    <2>1. "record" \in Labels \ (MayOwe \cup {"create", "discard"}) /\ "record" \in Binds
          /\ "run_finalized" \in PlainEvents
        BY DEF Labels, MayOwe, Binds, PlainEvents
    <2> QED BY <1>11, <1>14, <2>1, JournalStep DEF RunFinalized
<1> QED BY <1>1, <1>2, <1>3, <1>4, <1>5, <1>6, <1>7, <1>8, <1>9, <1>10, <1>12, <1>13, <1>14,
           FinalizeBegins, FinalizeStepStep, AppendAttemptStep, PostStep, SigningTimeStep
       DEF FinalizeNext

-----------------------------------------------------------------------------
(* The theorems.                                                           *)

LEMMA CaptureInvInit == Init => CaptureInv
<1> SUFFICES ASSUME Init PROVE CaptureInv OBVIOUS
<1>1. att = [a \in Attempts |-> NewAttempt] /\ run = Idle /\ shaped = 0 /\ faults = 0
    BY DEF Init, CaptureInit
<1>2. [h \in 1..Producers |-> 0] \in [1..Producers -> 0..1] /\ [r \in ROLES |-> 0] \in [ROLES -> 0..1]
    OBVIOUS
<1>3. NoShaping \in Shapings BY RecoveriesAssumption DEF NoShaping, Shapings, FileStates
<1>4. /\ 0 \in 0..MaxEvents /\ 0 \in 0..Producers /\ "none" \in Binds /\ "none" \in FileStates
      /\ NoPend \in Pends /\ NoIntent \in Intents
    BY CaptureAssumption, Sizes DEF Binds, FileStates, Pends, Intents
<1>5. NewAttempt \in Archives BY <1>2, <1>3, <1>4 DEF NewAttempt, Archives
<1>6. AttemptOK(NewAttempt)
    BY <1>5, CaptureAssumption
        DEF AttemptOK, SentOK, PendOK, RanOK, ShapingOK, NewAttempt, NoIntent
<1>7. \A a \in Attempts : att[a] = NewAttempt /\ att[a].dir = Absent BY <1>1 DEF NewAttempt
<1> QED BY <1>1, <1>6, <1>7, CaptureAssumption
        DEF CaptureInv, ArchivesOK, CommandOK, Closings

LEMMA CaptureInvStep == CaptureInv /\ [Next]_captureVars => CaptureInv'
<1> SUFFICES ASSUME CaptureInv, [Next]_captureVars PROVE CaptureInv' OBVIOUS
<1>1. CASE UNCHANGED captureVars
    <2>1. att' = att /\ run' = run /\ shaped' = shaped /\ faults' = faults BY <1>1 DEF captureVars
    <2> QED BY <2>1 DEF CaptureInv, ArchivesOK, CommandOK, CreateOK, Closings, A
<1> QED BY <1>1, SessionStep, CollectorStep, FinalizeNextStep DEF Next

(* session.py, collector.py, finalize.py: what an archive holds, what the   *)
(* attempts have to do with one another, what loaded rules mean and what    *)
(* the running command relies on, in every reachable state.                 *)
THEOREM CaptureInvariant == Spec => []CaptureInv
BY CaptureInvInit, CaptureInvStep, PTL DEF Spec

(* session.py, collector.py: every field of every archive keeps its type;   *)
(* the journal and the recoveries stay within their limits.                 *)
THEOREM CaptureTypeCorrect == Spec => []TypeOK
<1>1. CaptureInv => TypeOK
    <2> SUFFICES ASSUME CaptureInv PROVE TypeOK OBVIOUS
    <2>1. \A a \in Attempts : att[a] \in Archives BY DEF CaptureInv, ArchivesOK, AttemptOK
    <2>2. \A a \in Attempts : att[a].shaping \in Shapings BY <2>1 DEF Archives
    <2>3. \A a \in Attempts : att[a].shaping.recoveries \in 0..MaxRecoveries BY <2>2 DEF Shapings
    <2>4. run.a \in 0..MaxAttempts
        <3>1. CASE run = Idle BY <3>1, CaptureAssumption DEF Idle
        <3>2. CASE run # Idle BY <3>2, Running, CaptureAssumption DEF Attempts
        <3> QED BY <3>1, <3>2
    <2>5. shaped \in 0..MaxAttempts /\ faults \in 0..MaxCaptureFaults
        BY CaptureAssumption DEF CaptureInv, ArchivesOK, Attempts
    <2>6. ASSUME NEW a \in Attempts
          PROVE  /\ att[a].dir \in {Absent, "open", "quarantined"}
                 /\ att[a].st \in States \cup {Absent} /\ att[a].seq \in 0..MaxEvents
                 /\ att[a].done \in 0..Producers
                 /\ {att[a].marker, att[a].checkpoint, att[a].signingTime} \subseteq FileStates
                 /\ att[a].failure \in FileStates \cup {"stale"}
        BY <2>1 DEF Archives
    <2> QED BY <2>3, <2>4, <2>5, <2>6 DEF TypeOK, CaptureTypeOK
<1> QED BY <1>1, CaptureInvariant, PTL

(* collector.py: attempts of a lane are consecutive; before a later one     *)
(* exists each earlier one is abandoned or was never initialized.           *)
THEOREM AttemptsAreConsecutive == Spec => []Closings
BY CaptureInvariant, PTL DEF CaptureInv, ArchivesOK

(* transaction.py: no POST is repeated, and one that is only prepared was   *)
(* not sent, through any crashes and recoveries.                            *)
THEOREM PostsAreSentOnce == Spec => []SentAtMostOnce
<1>1. CaptureInv => SentAtMostOnce
    <2> SUFFICES ASSUME CaptureInv, NEW a \in Attempts, NEW r \in ROLES
                 PROVE  att[a].sent[r] <= 1 /\ (att[a].st = PREPARED[r] => att[a].sent[r] = 0)
        BY DEF SentAtMostOnce
    <2>1. AttemptOK(att[a]) BY DEF CaptureInv, ArchivesOK
    <2>2. att[a].sent[r] \in 0..1 BY <2>1 DEF AttemptOK, Archives
    <2>3. PREPARED[r] \in Unsent(r) BY Names DEF Unsent, ROLES
    <2> QED BY <2>1, <2>2, <2>3 DEF AttemptOK, SentOK
<1> QED BY <1>1, CaptureInvariant, PTL

(* collector.py: no handler runs twice in one attempt.                      *)
THEOREM ProducersRunOnce == Spec => []HandlersRunOnce
<1>1. CaptureInv => HandlersRunOnce
    <2> SUFFICES ASSUME CaptureInv, NEW a \in Attempts, NEW h \in 1..Producers
                 PROVE  att[a].ran[h] <= 1
        BY DEF HandlersRunOnce
    <2>1. AttemptOK(att[a]) BY DEF CaptureInv, ArchivesOK
    <2>2. att[a].ran \in [1..Producers -> 0..1] BY <2>1 DEF AttemptOK, Archives
    <2>3. att[a].ran[h] \in 0..1 BY <2>2
    <2> QED BY <2>3
<1> QED BY <1>1, CaptureInvariant, PTL

(* performance.py, collector.py: loaded shaping rules are owed by the one   *)
(* attempt that is still collecting, and its archive says so.               *)
THEOREM RulesAreOwed == Spec => []ShapingIsOwed
<1>1. CaptureInv => ShapingIsOwed
    <2> SUFFICES ASSUME CaptureInv, shaped # 0
                 PROVE  /\ att[shaped].st = "collecting" /\ Published(att[shaped].shaping.intent)
                        /\ ArchiveState(att[shaped].shaping) = "recovery_required"
                        /\ \A b \in Attempts : b > shaped => att[b].dir = Absent
        BY DEF ShapingIsOwed
    <2>1. Owed(att[shaped]) /\ shaped \in Attempts /\ Closings BY DEF CaptureInv, ArchivesOK
    <2>2. ~IsClosed(att[shaped]) BY <2>1 DEF Owed, IsClosed
    <2>3. ASSUME NEW b \in Attempts, b > shaped PROVE att[b].dir = Absent
        <3>1. shaped < b BY <2>1, <2>3, CaptureAssumption DEF Attempts
        <3> QED BY <2>1, <2>2, <3>1 DEF Closings
    <2> QED BY <2>1, <2>3, OwedState DEF Owed, Published
<1> QED BY <1>1, CaptureInvariant, PTL

-----------------------------------------------------------------------------
(* The runtime acceptance, for any number of invocations, collections,     *)
(* events and faults.                                                      *)
(*                                                                         *)
(* CaptureState follows the packet capture of the traffic step and holds   *)
(* whoever overlaps with whom.  Orderly is what holds as long as no two    *)
(* invocations ran at the same time: the one that runs owns the collection *)
(* (Kept), a Host or tunnel that collect left on is witnessed by the log   *)
(* (Launched), and a published adapter is backed by the log it was derived *)
(* from.  The witness is what makes recover's short cut sound: it archives *)
(* without looking at the machine when the log shows no launch.            *)

-----------------------------------------------------------------------------
(* The inductive invariant.                                                *)

CollectLabels == {"intent", "start", "act", "complete", "restore", "publish", "marker", "seal"}
SealLabels == {"marker", "seal"}
RecoverLabels == {"quit", "absent", "restored", "archive"}
Invocations == [cmd : {"none", "collect", "seal", "recover"}, pc : AcceptLabels, step : Nat,
                ses : Nat, seq : Nat]
Captures == [pc : {"none", "send", "find", "kill", "stopped", "accepted"}, stage : Nat, seen : SUBSET Nat,
             run : {"none", "up", "zombie", "gone"}, end : {"none", "cap", "error", "signal", "interrupt"},
             dropped : BOOLEAN, early : BOOLEAN]
IsSeq(s) == \E S : s \in Seq(S)

\* The labels at which an invocation of each command can be.
Placed(r) ==
    /\ r.cmd = "none" => r = IdleInvocation
    /\ r.cmd = "collect" => r.pc \in CollectLabels
    /\ r.cmd = "seal" => r.pc \in SealLabels
    /\ r.cmd = "recover" => r.pc \in RecoverLabels

Typed ==
    /\ proc \in [Procs -> Invocations] /\ \A p \in Procs : Placed(proc[p])
    /\ coll.ses \in Nat /\ coll.mixed \in BOOLEAN /\ IsSeq(coll.log)
    /\ coll = [ses |-> coll.ses, log |-> coll.log, mixed |-> coll.mixed]
    /\ raw \in Nat /\ adapter \in Nat /\ overlapped \in BOOLEAN

\* A tcpdump that still runs did not end early, and one that ps showed running
\* when the end marker had settled can only end later.
CaptureState ==
    /\ cap \in Captures
    /\ cap.run = "up" => ~cap.early /\ cap.pc # "accepted"
    /\ cap.pc \in {"kill", "stopped", "accepted"} => ~cap.early
    /\ CaptureSpansMarkers

\* The log shows that the Host may have been launched.
Launched == \E i \in DOMAIN coll.log : coll.log[i] = <<"started", "launch">>
\* What collect started on the machine is still on.
LeftOn == host = "collect" \/ tunnel = "collect"
\* The adapter and what it was derived from.
Backed == adapter # Nobody => raw = adapter /\ coll.ses = adapter /\ LogValid /\ Log = Completed
\* What the only invocation may rely on.
Kept(r) ==
    /\ r # IdleInvocation /\ r.pc # "intent" => coll.ses = r.ses /\ r.ses # Nobody
    /\ r.pc = "act" /\ STEPS[r.step] = "launch" => Launched
    /\ r.pc \in {"archive", "restored"} => ~LeftOn
    /\ r # IdleInvocation /\ adapter # Nobody => r.pc = "seal"
Alone == \A p, q \in Procs : proc[p] # IdleInvocation /\ proc[q] # IdleInvocation => p = q
Witnessed == ~coll.mixed /\ (LeftOn => Launched) /\ Backed
Orderly == ~overlapped => Alone /\ Witnessed /\ \A p \in Procs : Kept(proc[p])

AcceptInv == Typed /\ CaptureState /\ Orderly

-----------------------------------------------------------------------------
(* Records and logs.                                                       *)

(* The idle invocation and the absent capture have their types.            *)
LEMMA IdleIs ==
    /\ IdleInvocation \in Invocations /\ Placed(IdleInvocation) /\ IdleInvocation.pc = "idle" /\ IdleInvocation.cmd = "none"
    /\ NoCap \in Captures /\ NoCap.run = "none" /\ NoCap.pc = "none" /\ NoCap.early = FALSE
BY DEF IdleInvocation, Invocations, AcceptLabels, Placed, NoCap, Captures, Nobody

(* An event is added at the end and nothing before it changes.             *)
LEMMA AppendIs ==
    ASSUME NEW s, IsSeq(s), NEW e
    PROVE  /\ IsSeq(Append(s, e)) /\ Len(s) \in Nat /\ DOMAIN Append(s, e) = 1..(Len(s) + 1)
           /\ DOMAIN s = 1..Len(s) /\ Append(s, e)[Len(s) + 1] = e
           /\ \A i \in DOMAIN s : Append(s, e)[i] = s[i]
<1>1. PICK S : s \in Seq(S) BY DEF IsSeq
<1>2. s \in Seq(S \cup {e}) /\ e \in S \cup {e} BY <1>1
<1>3. Append(s, e) \in Seq(S \cup {e}) BY <1>2
<1> QED BY <1>2, <1>3 DEF IsSeq

(* A label is moved by rewriting one record.                               *)
LEMMA GotoIs ==
    ASSUME Typed, NEW p \in Procs, NEW l \in AcceptLabels, GotoPc(p, l)
    PROVE  \E r \in Invocations : /\ proc' = [proc EXCEPT ![p] = r] /\ r.pc = l
                                  /\ r.cmd = proc[p].cmd /\ r.step = proc[p].step
                                  /\ r.ses = proc[p].ses
<1> DEFINE r == [proc[p] EXCEPT !.pc = l]
<1>1. proc[p] \in Invocations BY DEF Typed
<1>2. r \in Invocations /\ r.pc = l /\ r.cmd = proc[p].cmd /\ r.step = proc[p].step /\ r.ses = proc[p].ses
  BY <1>1 DEF Invocations
<1>3. proc' = [proc EXCEPT ![p] = r] BY DEF GotoPc
<1> QED BY <1>2, <1>3

(* The label of an invocation that runs is not the idle one.               *)
LEMMA InvocationRuns ==
    ASSUME Typed, NEW p \in Procs, proc[p].pc # "idle" \/ proc[p].cmd # "none"
    PROVE  proc[p] # IdleInvocation
BY IdleIs

(* A step of the only invocation keeps the rest of an orderly run.         *)
LEMMA AloneStep ==
    ASSUME Typed, Orderly, NEW p \in Procs, proc[p] # IdleInvocation, NEW r,
           proc' = [proc EXCEPT ![p] = r], overlapped' = overlapped,
           ~overlapped => Witnessed' /\ Kept(r)'
    PROVE  Orderly'
<1> SUFFICES ASSUME ~overlapped' PROVE Alone' /\ Witnessed' /\ \A q \in Procs : Kept(proc[q])'
  BY DEF Orderly
<1>1. proc'[p] = r /\ \A q \in Procs \ {p} : proc'[q] = proc[q] BY DEF Typed
<1>2. \A q \in Procs \ {p} : proc[q] = IdleInvocation BY DEF Orderly, Alone
<1>3. Alone' BY <1>1, <1>2 DEF Alone
<1>4. \A q \in Procs : Kept(proc[q])'
  <2> TAKE q \in Procs
  <2>1. CASE q = p BY <1>1, <2>1 DEF Kept
  <2>2. CASE q # p
    <3>1. proc'[q] = IdleInvocation BY <1>1, <1>2, <2>2
    <3> QED BY <3>1, IdleIs DEF Kept
  <2> QED BY <2>1, <2>2
<1> QED BY <1>3, <1>4

(* The types and the places follow the one record that changes.            *)
LEMMA TypedStep ==
    ASSUME Typed, NEW p \in Procs, NEW r \in Invocations, Placed(r),
           proc' = [proc EXCEPT ![p] = r], UNCHANGED <<raw, adapter, overlapped, coll>>
    PROVE  Typed'
BY DEF Typed, Placed

(* An end of an invocation changes nothing that another relies on.         *)
LEMMA ExitStep ==
    ASSUME AcceptInv, NEW p \in Procs, proc[p] # IdleInvocation, EndCommand(p), UNCHANGED <<world, records, overlapped>>,
           CaptureState'
    PROVE  AcceptInv'
<1>1. Typed' BY IdleIs, TypedStep DEF AcceptInv, EndCommand, records
<1>2. Kept(IdleInvocation)' BY IdleIs DEF Kept
<1>3. ~overlapped => Witnessed'
  BY DEF AcceptInv, Orderly, Witnessed, LeftOn, Launched, Backed, LogValid, Log, world,
      records
<1>4. Orderly' BY <1>2, <1>3, AloneStep DEF AcceptInv, EndCommand
<1> QED BY <1>1, <1>4 DEF AcceptInv

-----------------------------------------------------------------------------
(* Appending to the log.                                                   *)

(* The owner's append goes to the end of its own log, and keeps a launch   *)
(* that the log shows.                                                     *)
LEMMA EventStep ==
    ASSUME Typed, NEW ph, NEW st, NEW s \in Nat, AppendTo(ph, st, s)
    PROVE  /\ coll'.ses = coll.ses /\ coll.ses # Nobody
           /\ coll'.mixed \in BOOLEAN /\ IsSeq(coll'.log)
           /\ coll' = [ses |-> coll'.ses, log |-> coll'.log, mixed |-> coll'.mixed]
           /\ s = coll.ses /\ ~coll.mixed =>
                ~coll'.mixed /\ coll'.log = Append(coll.log, <<ph, st>>) /\ (Launched => Launched')
           /\ s = coll.ses /\ ~coll.mixed /\ ph = "started" /\ st = "launch" => Launched'
<1>0. IsSeq(<<>>) BY DEF IsSeq
<1>1. CASE s # coll.ses \/ coll.mixed
  <2>1. coll' = [coll EXCEPT !.log = <<>>, !.mixed = TRUE] BY <1>1 DEF AppendTo
  <2> QED BY <1>0, <1>1, <2>1 DEF Typed, AppendTo
<1>2. CASE s = coll.ses /\ ~coll.mixed
  <2>1. coll' = [coll EXCEPT !.log = Append(@, <<ph, st>>)] BY <1>2 DEF AppendTo
  <2>2. coll'.log = Append(coll.log, <<ph, st>>) /\ coll'.ses = coll.ses /\ coll'.mixed = coll.mixed
        /\ coll' = [ses |-> coll'.ses, log |-> coll'.log, mixed |-> coll'.mixed]
    BY <2>1 DEF Typed
  <2> DEFINE l == coll.log
             e == <<ph, st>>
  <2>3. IsSeq(l) BY DEF Typed
  <2>4. /\ IsSeq(Append(l, e)) /\ Len(l) \in Nat /\ DOMAIN Append(l, e) = 1..(Len(l) + 1)
        /\ DOMAIN l = 1..Len(l) /\ Append(l, e)[Len(l) + 1] = e
        /\ \A i \in DOMAIN l : Append(l, e)[i] = l[i]
    BY <2>3, AppendIs
  <2>5. Launched => Launched'
    <3> SUFFICES ASSUME Launched PROVE Launched' OBVIOUS
    <3>1. PICK i \in DOMAIN l : l[i] = <<"started", "launch">> BY DEF Launched
    <3>2. i \in DOMAIN Append(l, e) /\ Append(l, e)[i] = <<"started", "launch">> BY <2>4, <3>1
    <3> QED BY <2>2, <3>2 DEF Launched
  <2>6. ph = "started" /\ st = "launch" => Launched'
    <3> SUFFICES ASSUME ph = "started", st = "launch" PROVE Launched' OBVIOUS
    <3>1. Len(l) + 1 \in DOMAIN Append(l, e) /\ Append(l, e)[Len(l) + 1] = <<"started", "launch">> BY <2>4
    <3> QED BY <2>2, <3>1 DEF Launched
  <2> QED BY <1>2, <2>2, <2>4, <2>5, <2>6 DEF Typed, AppendTo
<1> QED BY <1>1, <1>2 DEF Typed

(* An append by the invocation that owns the collection, on its way to a   *)
(* label other than the ones that only a published or restored run has.    *)
LEMMA OwnerAppends ==
    ASSUME AcceptInv, NEW p \in Procs, proc[p] # IdleInvocation, proc[p].pc \notin {"intent", "seal"},
           NEW ph, NEW st, AppendTo(ph, st, proc[p].ses),
           NEW r \in Invocations, Placed(r), proc' = [proc EXCEPT ![p] = r],
           r = IdleInvocation \/ (r.ses = proc[p].ses /\ r.pc # "intent"),
           r.pc = "act" /\ STEPS[r.step] = "launch" => ph = "started" /\ st = "launch",
           r.pc \in {"archive", "restored"} => ~LeftOn,
           UNCHANGED <<world, raw, adapter, overlapped>>, CaptureState'
    PROVE  AcceptInv'
<1>1. proc[p].ses \in Nat BY DEF AcceptInv, Typed, Invocations
<1>2. /\ coll'.ses = coll.ses /\ coll.ses # Nobody
      /\ coll'.mixed \in BOOLEAN /\ IsSeq(coll'.log)
      /\ coll' = [ses |-> coll'.ses, log |-> coll'.log, mixed |-> coll'.mixed]
      /\ proc[p].ses = coll.ses /\ ~coll.mixed => ~coll'.mixed /\ (Launched => Launched')
      /\ proc[p].ses = coll.ses /\ ~coll.mixed /\ ph = "started" /\ st = "launch" => Launched'
  BY <1>1, EventStep DEF AcceptInv
<1>3. Typed' BY <1>2 DEF AcceptInv, Typed, Placed
<1>4. ASSUME ~overlapped PROVE Witnessed' /\ Kept(r)'
  <2>1. Kept(proc[p]) /\ Witnessed BY <1>4 DEF AcceptInv, Orderly
  <2>2. proc[p].ses = coll.ses /\ ~coll.mixed /\ adapter = Nobody BY <2>1 DEF Kept, Witnessed
  <2>3. LeftOn' = LeftOn BY DEF LeftOn, world
  <2>4. Witnessed' BY <1>2, <2>1, <2>2, <2>3 DEF Witnessed, Backed
  <2>5. Kept(r)'
    <3>1. r # IdleInvocation => coll'.ses = r.ses /\ r.ses # Nobody BY <1>2, <2>2
    <3>2. r.pc = "act" /\ STEPS[r.step] = "launch" => Launched' BY <1>2, <2>2
    <3>3. adapter' = Nobody BY <2>2
    <3> QED BY <2>3, <3>1, <3>2, <3>3 DEF Kept
  <2> QED BY <2>4, <2>5
<1>5. Orderly' BY <1>4, AloneStep DEF AcceptInv
<1> QED BY <1>3, <1>5 DEF AcceptInv

(* A move of the only invocation that touches neither log nor machine.     *)
LEMMA OwnerMoves ==
    ASSUME AcceptInv, NEW p \in Procs, proc[p].pc \notin {"idle", "intent", "seal"},
           NEW l \in AcceptLabels \ {"idle", "intent", "act", "archive", "restored"}, GotoPc(p, l),
           proc[p].cmd = "collect" => l \in CollectLabels,
           proc[p].cmd = "seal" => l \in SealLabels,
           proc[p].cmd = "recover" => l \in RecoverLabels,
           UNCHANGED <<coll, adapter, overlapped>>, raw' \in Nat, (LeftOn => Launched)', CaptureState'
    PROVE  AcceptInv'
<1>1. PICK r \in Invocations : /\ proc' = [proc EXCEPT ![p] = r] /\ r.pc = l
                               /\ r.cmd = proc[p].cmd /\ r.step = proc[p].step
                               /\ r.ses = proc[p].ses
  BY GotoIs DEF AcceptInv
<1>2. proc[p] # IdleInvocation /\ Placed(proc[p]) BY IdleIs DEF AcceptInv, Typed
<1>3. Placed(r) BY <1>1, <1>2 DEF Placed
<1>4. Typed' BY <1>1, <1>3 DEF AcceptInv, Typed, Placed
<1>5. ASSUME ~overlapped PROVE Witnessed' /\ Kept(r)'
  <2>1. Kept(proc[p]) /\ Witnessed BY <1>5 DEF AcceptInv, Orderly
  <2>2. adapter = Nobody BY <1>2, <2>1 DEF Kept
  <2>3. Witnessed' BY <2>1, <2>2 DEF Witnessed, Backed
  <2>4. Kept(r)' BY <1>1, <1>2, <2>1, <2>2 DEF Kept
  <2> QED BY <2>3, <2>4
<1>6. Orderly' BY <1>1, <1>2, <1>5, AloneStep DEF AcceptInv
<1> QED BY <1>4, <1>6 DEF AcceptInv

-----------------------------------------------------------------------------
(* The packet capture.                                                     *)

(* The steps of the capture.                                              *)
CaptureMoves ==
    \/ Listen \/ SendMarker \/ CaptureEnds \/ KernelDrops \/ SudoReaps
    \/ PollCapture \/ FindTcpdump \/ Interrupt \/ TcpdumpStops \/ AcceptCapture

(* Every change of the capture keeps what an accepted one stands for.      *)
LEMMA CaptureSteps == ASSUME CaptureState, CaptureMoves PROVE CaptureState'
<1> USE DEF CaptureState, CaptureSpansMarkers
<1>1. CASE Listen
  <2>1. cap' = [NoCap EXCEPT !.pc = "send", !.run = "up"] BY <1>1 DEF Listen
  <2> QED BY <2>1 DEF NoCap, Captures
<1>2. CASE SendMarker
  <2> DEFINE seen == IF cap.run = "up" THEN cap.seen \cup {cap.stage + 1} ELSE cap.seen
  <2>1. cap.pc = "send" /\ cap' = [cap EXCEPT !.stage = cap.stage + 1, !.seen = seen]
    BY <1>2 DEF SendMarker
  <2>2. cap.stage + 1 \in Nat /\ cap.seen \in SUBSET Nat BY DEF Captures
  <2>3. seen \in SUBSET Nat BY <2>2
  <2> HIDE DEF seen
  <2>4. cap' \in Captures /\ cap'.pc = "send" /\ cap'.run = cap.run /\ cap'.early = cap.early
    BY <2>1, <2>2, <2>3 DEF Captures
  <2> QED BY <2>4
<1>3. CASE CaptureEnds
  <2>1. PICK how \in {"cap", "error", "signal"} :
          /\ cap.run = "up"
          /\ cap' = [cap EXCEPT !.run = "zombie", !.end = how, !.early = cap.pc = "send"]
    BY <1>3 DEF CaptureEnds
  <2>2. (cap.pc = "send") \in BOOLEAN OBVIOUS
  <2>3. PICK e \in BOOLEAN : e = (cap.pc = "send") BY <2>2, Zenon
  <2>4. cap' = [cap EXCEPT !.run = "zombie", !.end = how, !.early = e] BY <2>1, <2>3, Zenon
  <2>5. e => cap.pc = "send" BY <2>3
  <2>6. cap' \in Captures /\ cap'.pc = cap.pc /\ cap'.run = "zombie" /\ cap'.early = e
    BY <2>4 DEF Captures
  <2> QED BY <2>1, <2>5, <2>6
<1>4. CASE KernelDrops
  <2>1. cap.run = "up" /\ cap' = [cap EXCEPT !.dropped = TRUE] BY <1>4 DEF KernelDrops
  <2> QED BY <2>1 DEF Captures
<1>5. CASE SudoReaps
  <2>1. cap.run = "zombie" /\ cap' = [cap EXCEPT !.run = "gone"] BY <1>5 DEF SudoReaps
  <2> QED BY <2>1 DEF Captures
<1>6. CASE PollCapture
  <2>1. cap' = [cap EXCEPT !.pc = "find"] BY <1>6 DEF PollCapture
  <2> QED BY <2>1 DEF Captures
<1>7. CASE FindTcpdump
  <2>1. cap.run = "up" /\ cap' = [cap EXCEPT !.pc = "kill"] BY <1>7 DEF FindTcpdump
  <2> QED BY <2>1 DEF Captures
<1>8. CASE Interrupt
  <2>1. cap.pc = "kill" /\ cap' = [cap EXCEPT !.pc = "stopped"] BY <1>8 DEF Interrupt
  <2> QED BY <2>1 DEF Captures
<1>9. CASE TcpdumpStops
  <2>1. cap.pc = "stopped" /\ cap' = [cap EXCEPT !.run = "zombie", !.end = "interrupt"]
    BY <1>9 DEF TcpdumpStops
  <2> QED BY <2>1 DEF Captures
<1>10. CASE AcceptCapture
  <2>1. cap.pc = "stopped" /\ CaptureReceipt /\ cap' = [cap EXCEPT !.pc = "accepted"]
    BY <1>10 DEF AcceptCapture
  <2>2. cap.seen = 1..STAGES /\ ~cap.dropped /\ cap.end # "cap" /\ cap.run = "gone"
    BY <2>1 DEF CaptureReceipt, CaptureExit, CaptureStatistic
  <2> QED BY <2>1, <2>2 DEF Captures
<1> QED BY <1>1, <1>2, <1>3, <1>4, <1>5, <1>6, <1>7, <1>8, <1>9, <1>10 DEF CaptureMoves

(* A capture that stays or is torn down keeps CaptureState.                *)
LEMMA CaptureSame == CaptureState /\ (cap' = cap \/ cap' = NoCap) => CaptureState'
BY IdleIs DEF CaptureState, CaptureSpansMarkers

(* Everything but the capture is as it was.                                *)
LEMMA CaptureOnly ==
    ASSUME AcceptInv, CaptureState', UNCHANGED <<world, records, proc, overlapped>>
    PROVE  AcceptInv'
<1>1. Typed' BY DEF AcceptInv, Typed, records, Placed
<1>2. Orderly'
  BY DEF AcceptInv, Orderly, Alone, Witnessed, LeftOn, Launched, Backed, Kept, LogValid,
      Log, world, records
<1> QED BY <1>1, <1>2 DEF AcceptInv

(* The steps of the capture keep the invariant.                            *)
LEMMA CaptureStep ==
    ASSUME AcceptInv, CaptureMoves PROVE AcceptInv'
<1>1. CaptureState' BY CaptureSteps DEF AcceptInv
<1>2. UNCHANGED <<world, records, proc, overlapped>>
  BY DEF CaptureMoves, Listen, SendMarker, CaptureEnds, KernelDrops, SudoReaps, PollCapture, FindTcpdump,
      Interrupt, TcpdumpStops, AcceptCapture, world, records
<1> QED BY <1>1, <1>2, CaptureOnly

-----------------------------------------------------------------------------
(* collect.                                                                *)

(* An invocation that begins while another runs ends the orderly run; one  *)
(* that begins alone owns what it found.                                   *)
LEMMA BeginStep ==
    ASSUME AcceptInv, NEW p \in Procs, NEW r \in Invocations, Placed(r), BeginCommand(p, r),
           UNCHANGED <<world, records, cap>>, ~overlapped /\ Witnessed => Kept(r)
    PROVE  AcceptInv'
<1>1. proc' = [proc EXCEPT ![p] = r] /\ overlapped' = (overlapped \/ \E q \in Procs : proc[q] # IdleInvocation)
  BY DEF BeginCommand
<1>2. overlapped' \in BOOLEAN BY <1>1 DEF AcceptInv, Typed
<1>3. Typed' BY <1>1, <1>2 DEF AcceptInv, Typed, records, Placed
<1>4. CaptureState' BY CaptureSame DEF AcceptInv
<1>5. Orderly'
  <2> SUFFICES ASSUME ~overlapped' PROVE Alone' /\ Witnessed' /\ \A q \in Procs : Kept(proc[q])'
    BY DEF Orderly
  <2>1. ~overlapped /\ \A q \in Procs : proc[q] = IdleInvocation BY <1>1
  <2>2. proc'[p] = r /\ \A q \in Procs \ {p} : proc'[q] = IdleInvocation BY <1>1, <2>1 DEF AcceptInv, Typed
  <2>3. Alone' BY <2>2 DEF Alone
  <2>4. Witnessed BY <2>1 DEF AcceptInv, Orderly
  <2>5. Witnessed'
    BY <2>4 DEF Witnessed, LeftOn, Launched, Backed, LogValid, Log, world, records
  <2>6. Kept(r)' BY <2>1, <2>4 DEF Kept, LeftOn, Launched, world, records
  <2>7. \A q \in Procs : Kept(proc[q])'
    <3> TAKE q \in Procs
    <3>1. CASE q = p BY <2>2, <2>6, <3>1 DEF Kept
    <3>2. CASE q # p BY <2>2, <3>2, IdleIs DEF Kept
    <3> QED BY <3>1, <3>2
  <2> QED BY <2>3, <2>5, <2>7
<1> QED BY <1>3, <1>4, <1>5 DEF AcceptInv

(* collect begins over no collection and no published output.              *)
LEMMA CollectBeginStep == ASSUME AcceptInv, CollectBegin PROVE AcceptInv'
<1> DEFINE r == [IdleInvocation EXCEPT !.cmd = "collect", !.pc = "intent"]
<1>1. PICK p \in Procs : BeginCommand(p, r) /\ adapter = Nobody /\ UNCHANGED <<world, records, cap>> BY DEF CollectBegin
<1>2. r \in Invocations /\ r.pc = "intent" /\ r.cmd = "collect"
  BY DEF IdleInvocation, Invocations, AcceptLabels, Nobody
<1>3. Placed(r) BY <1>2 DEF Placed, CollectLabels
<1>4. Kept(r) BY <1>1, <1>2 DEF Kept
<1> HIDE DEF r
<1> QED BY <1>1, <1>2, <1>3, <1>4, BeginStep

(* A new collection: nothing was left on, or the old one would be there.   *)
LEMMA PublishIntentStep == ASSUME AcceptInv, PublishIntent PROVE AcceptInv'
<1>1. PICK p \in Procs, s \in 1..MaxSessions :
        /\ proc[p].pc = "intent" /\ coll = NoColl /\ coll' = [NoColl EXCEPT !.ses = s]
        /\ proc' = [proc EXCEPT ![p].pc = "start", ![p].ses = s, ![p].step = 1]
        /\ UNCHANGED <<world, raw, adapter, archived, cap, overlapped, acceptFaults>>
  BY DEF PublishIntent, PcIs
<1>2. PICK r : r = [proc[p] EXCEPT !.pc = "start", !.ses = s, !.step = 1] OBVIOUS
<1>3. proc' = [proc EXCEPT ![p] = r] BY <1>1, <1>2
<1>4. proc[p] \in Invocations /\ Placed(proc[p]) BY DEF AcceptInv, Typed
<1>5. s \in Nat /\ s # Nobody BY DEF Nobody
<1>6. r \in Invocations /\ r.pc = "start" /\ r.ses = s /\ r.cmd = proc[p].cmd
  BY <1>2, <1>4, <1>5 DEF Invocations, AcceptLabels
<1>7. proc[p] # IdleInvocation /\ proc[p].cmd = "collect"
  BY <1>1, <1>4, IdleIs DEF Placed, Invocations, SealLabels, RecoverLabels
<1>8. Placed(r) BY <1>6, <1>7 DEF Placed, CollectLabels
<1>9. coll' = [ses |-> s, log |-> <<>>, mixed |-> FALSE] BY <1>1 DEF NoColl
<1>10. IsSeq(<<>>) BY DEF IsSeq
<1>11. Typed'
  <2>1. proc' \in [Procs -> Invocations] /\ \A q \in Procs : Placed(proc'[q])
    BY <1>3, <1>6, <1>8 DEF AcceptInv, Typed, Placed
  <2>2. coll'.ses = s /\ coll'.log = <<>> /\ coll'.mixed = FALSE BY <1>9
  <2>3. raw' \in Nat /\ adapter' \in Nat /\ overlapped' \in BOOLEAN BY <1>1 DEF AcceptInv, Typed
  <2> QED BY <1>5, <1>9, <1>10, <2>1, <2>2, <2>3 DEF Typed, Placed
<1>12. CaptureState' BY <1>1, CaptureSame DEF AcceptInv
<1>13. ASSUME ~overlapped PROVE Witnessed' /\ Kept(r)'
  <2>1. Kept(proc[p]) /\ Witnessed BY <1>13 DEF AcceptInv, Orderly
  <2>2. adapter = Nobody BY <1>1, <1>7, <2>1 DEF Kept
  <2>3. ~Launched BY <1>1 DEF Launched, NoColl
  <2>4. ~LeftOn' BY <1>1, <2>1, <2>3 DEF Witnessed, LeftOn, world
  <2>5. Witnessed' BY <1>1, <1>9, <2>2, <2>4 DEF Witnessed, Backed
  <2>6. Kept(r)' BY <1>1, <1>5, <1>6, <1>9, <2>2 DEF Kept
  <2> QED BY <2>5, <2>6
<1>14. Orderly' BY <1>1, <1>3, <1>7, <1>13, AloneStep DEF AcceptInv
<1> QED BY <1>11, <1>12, <1>14 DEF AcceptInv

(* The refusals and ends that leave the records alone.                     *)
LEMMA EndSteps ==
    ASSUME AcceptInv,
           IntentRefused \/ LogAppendFails \/ PublishRefused \/ MarkerRefused \/ SealRefused \/ RecoverFails \/ Crash
    PROVE  AcceptInv'
<1>1. PICK p \in Procs : /\ EndCommand(p) /\ UNCHANGED <<world, records, overlapped>>
                         /\ proc[p] # IdleInvocation /\ (cap' = cap \/ cap' = NoCap)
  BY IdleIs DEF IntentRefused, LogAppendFails, PublishRefused, MarkerRefused,
      SealRefused, RecoverFails, Crash, PcIs
<1> QED BY <1>1, CaptureSame, ExitStep DEF AcceptInv

(* A step's started event: for the launch it is the witness.               *)
LEMMA StartStepStep == ASSUME AcceptInv, StartStep PROVE AcceptInv'
<1>1. PICK p \in Procs : /\ proc[p].pc = "start" /\ AppendTo("started", STEPS[proc[p].step], proc[p].ses)
                         /\ GotoPc(p, "act") /\ UNCHANGED <<world, raw, adapter, archived, cap, overlapped, acceptFaults>>
  BY DEF StartStep, PcIs, MyStep
<1>2. "act" \in AcceptLabels BY DEF AcceptLabels
<1>3. PICK r \in Invocations : /\ proc' = [proc EXCEPT ![p] = r] /\ r.pc = "act"
                               /\ r.cmd = proc[p].cmd /\ r.step = proc[p].step /\ r.ses = proc[p].ses
  BY <1>1, <1>2, GotoIs DEF AcceptInv
<1>4. proc[p] # IdleInvocation /\ Placed(proc[p]) /\ proc[p] \in Invocations BY <1>1, IdleIs DEF AcceptInv, Typed
<1>5. proc[p].cmd = "collect" BY <1>1, <1>4, IdleIs DEF Placed, Invocations, SealLabels,
    RecoverLabels
<1>6. Placed(r) BY <1>3, <1>5 DEF Placed, CollectLabels
<1>7. CaptureState' BY <1>1, CaptureSame DEF AcceptInv
<1>8. PICK st : st = STEPS[proc[p].step] OBVIOUS
<1>9. AppendTo("started", st, proc[p].ses) BY <1>1, <1>8
<1> QED BY <1>1, <1>3, <1>4, <1>6, <1>7, <1>8, <1>9, OwnerAppends

(* What a step does to the machine.                                        *)
LEMMA ActSteps ==
    ASSUME AcceptInv, Launch \/ StopRestore \/ Observe PROVE AcceptInv'
<1>1. PICK p \in Procs : /\ proc[p].pc = "act" /\ GotoPc(p, "complete")
                         /\ UNCHANGED <<records, overlapped>> /\ (cap' = cap \/ cap' = NoCap)
                         /\ \/ STEPS[proc[p].step] = "launch" /\ host' = "collect" /\ UNCHANGED tunnel
                            \/ tunnel' = Off /\ UNCHANGED host
                            \/ UNCHANGED <<host, tunnel>>
  BY DEF Launch, StopRestore, Observe, PcIs, MyStep, records, world
<1>2. CaptureState' BY <1>1, CaptureSame DEF AcceptInv
<1>3. "complete" \in AcceptLabels \ {"idle", "intent", "act", "archive", "restored"} /\ "complete" \in CollectLabels
  BY DEF AcceptLabels, CollectLabels
<1>4. Placed(proc[p]) /\ raw' \in Nat BY <1>1 DEF AcceptInv, Typed, records
<1>5. proc[p].cmd # "seal" /\ proc[p].cmd # "recover" BY <1>1, <1>4 DEF Placed, SealLabels,
    RecoverLabels
<1>6. CASE ~overlapped
  <2>1. Kept(proc[p]) /\ Witnessed BY <1>6 DEF AcceptInv, Orderly
  <2>2. STEPS[proc[p].step] = "launch" => Launched BY <1>1, <2>1 DEF Kept
  <2>3. Launched' = Launched BY <1>1 DEF Launched, records
  <2>4. (LeftOn => Launched)' BY <1>1, <2>1, <2>2, <2>3 DEF Witnessed, LeftOn, Off
  <2> QED BY <1>1, <1>2, <1>3, <1>4, <1>5, <2>4, OwnerMoves DEF records
<1>7. CASE overlapped
  <2>1. PICK r \in Invocations : proc' = [proc EXCEPT ![p] = r] /\ r.pc = "complete" /\ r.cmd = proc[p].cmd
    BY <1>1, <1>3, GotoIs DEF AcceptInv
  <2>2. r # IdleInvocation /\ proc[p] # IdleInvocation BY <1>1, <2>1, IdleIs
  <2>3. proc[p].cmd # "none" BY <1>4, <2>2 DEF Placed
  <2>4. Placed(r) BY <1>3, <1>5, <2>1, <2>3 DEF Placed
  <2>5. Typed' BY <1>1, <2>1, <2>4, TypedStep DEF AcceptInv, records
  <2> QED BY <1>1, <1>2, <1>7, <2>5 DEF AcceptInv, Orderly
<1> QED BY <1>6, <1>7 DEF AcceptInv, Typed

(* A step's completed event.                                               *)
LEMMA CompleteStepStep == ASSUME AcceptInv, CompleteStep PROVE AcceptInv'
<1>1. PICK p \in Procs : /\ proc[p].pc = "complete" /\ AppendTo("completed", MyStep(p), proc[p].ses)
                         /\ proc' = [proc EXCEPT ![p].step = @ + 1,
                              ![p].pc = IF proc[p].step = Len(STEPS) THEN "restore" ELSE "start"]
                         /\ UNCHANGED <<world, raw, adapter, archived, cap, overlapped, acceptFaults>>
  BY DEF CompleteStep, PcIs
<1>2. PICK l : l = IF proc[p].step = Len(STEPS) THEN "restore" ELSE "start" OBVIOUS
<1>3. l \in {"restore", "start"} BY <1>2
<1>4. l \in AcceptLabels /\ l \in CollectLabels /\ l \notin {"idle", "intent", "act", "archive", "restored"}
  BY <1>3 DEF AcceptLabels, CollectLabels
<1>5. PICK r : r = [proc[p] EXCEPT !.step = @ + 1, !.pc = l] OBVIOUS
<1>6. proc' = [proc EXCEPT ![p] = r] BY <1>1, <1>2, <1>5
<1>7. proc[p] # IdleInvocation /\ Placed(proc[p]) /\ proc[p] \in Invocations BY <1>1, IdleIs DEF AcceptInv, Typed
<1>8. r \in Invocations /\ r.pc = l /\ r.cmd = proc[p].cmd /\ r.ses = proc[p].ses
  <2>1. proc[p].step + 1 \in Nat BY <1>7 DEF Invocations
  <2>2. r = [proc[p] EXCEPT !.step = proc[p].step + 1, !.pc = l] BY <1>5
  <2>3. l \in AcceptLabels BY <1>4
  <2> QED BY <1>7, <2>1, <2>2, <2>3 DEF Invocations
<1>9. proc[p].cmd = "collect" BY <1>1, <1>7, IdleIs DEF Placed, Invocations, SealLabels,
    RecoverLabels
<1>10. Placed(r) BY <1>4, <1>8, <1>9 DEF Placed
<1>11. CaptureState' BY <1>1, CaptureSame DEF AcceptInv
<1>12. PICK st : st = MyStep(p) OBVIOUS
<1>13. AppendTo("completed", st, proc[p].ses) BY <1>1, <1>12
<1> QED BY <1>1, <1>4, <1>6, <1>7, <1>8, <1>10, <1>11, <1>13, OwnerAppends

(* A failed collection: its terminal event, and the collection in place.   *)
LEMMA CollectFailsStep == ASSUME AcceptInv, CollectFails PROVE AcceptInv'
<1>1. PICK p \in Procs :
        /\ proc[p].cmd = "collect" /\ proc[p].pc \in {"start", "act", "complete", "restore", "publish"}
        /\ IF coll.ses = Nobody THEN UNCHANGED coll ELSE AppendTo(TerminalOutcome(p)[1], TerminalOutcome(p)[2], proc[p].ses)
        /\ EndCommand(p) /\ TerminateCapture /\ UNCHANGED <<world, raw, adapter, archived, overlapped>>
  BY DEF CollectFails
<1>2. CaptureState' BY <1>1, CaptureSame DEF AcceptInv, TerminateCapture
<1>3. proc[p] # IdleInvocation /\ proc' = [proc EXCEPT ![p] = IdleInvocation] BY <1>1, IdleIs DEF EndCommand
<1>4. CASE coll.ses = Nobody
  BY <1>1, <1>2, <1>3, <1>4, ExitStep DEF records
<1>5. CASE coll.ses # Nobody
  <2>1. PICK ph, st : ph = TerminalOutcome(p)[1] /\ st = TerminalOutcome(p)[2] OBVIOUS
  <2>2. AppendTo(ph, st, proc[p].ses) BY <1>1, <1>5, <2>1
  <2>3. proc[p].pc \notin {"intent", "seal"} BY <1>1
  <2> QED BY <1>1, <1>2, <1>3, <2>2, <2>3, IdleIs, OwnerAppends
<1> QED BY <1>4, <1>5

(* The settled machine, and the raw evidence.                              *)
LEMMA PublishSteps == ASSUME AcceptInv, Restored \/ PublishRaw PROVE AcceptInv'
<1>1. PICK p \in Procs, l \in {"publish", "marker"} :
        /\ proc[p].pc \in {"restore", "publish"} /\ GotoPc(p, l) /\ raw' \in {raw, proc[p].ses}
        /\ UNCHANGED <<world, coll, adapter, archived, cap, overlapped>>
  BY DEF Restored, PublishRaw, PcIs, records
<1>2. CaptureState' BY <1>1, CaptureSame DEF AcceptInv
<1>3. l \in AcceptLabels \ {"idle", "intent", "act", "archive", "restored"} /\ l \in CollectLabels
  BY DEF AcceptLabels, CollectLabels
<1>4. Placed(proc[p]) /\ proc[p] \in Invocations /\ raw \in Nat BY DEF AcceptInv, Typed
<1>5. raw' \in Nat BY <1>1, <1>4 DEF Invocations
<1>6. proc[p].cmd # "seal" /\ proc[p].cmd # "recover" BY <1>1, <1>4 DEF Placed, SealLabels,
    RecoverLabels
<1>7. LeftOn' = LeftOn /\ Launched' = Launched BY <1>1 DEF LeftOn, Launched, world
<1>8. CASE ~overlapped
  <2>1. (LeftOn => Launched)' BY <1>7, <1>8 DEF AcceptInv, Orderly, Witnessed
  <2> QED BY <1>1, <1>2, <1>3, <1>5, <1>6, <2>1, OwnerMoves
<1>9. CASE overlapped
  <2>1. PICK r \in Invocations : proc' = [proc EXCEPT ![p] = r] /\ r.pc = l /\ r.cmd = proc[p].cmd
    BY <1>1, <1>3, GotoIs DEF AcceptInv
  <2>2. proc[p] # IdleInvocation BY <1>1, IdleIs
  <2>3. proc[p].cmd # "none" BY <1>4, <2>2 DEF Placed
  <2>4. Placed(r) BY <1>3, <1>6, <2>1, <2>3 DEF Placed
  <2>5. Typed' BY <1>1, <1>5, <2>1, <2>4 DEF AcceptInv, Typed, Placed
  <2> QED BY <1>1, <1>2, <1>9, <2>5 DEF AcceptInv, Orderly
<1> QED BY <1>8, <1>9 DEF AcceptInv, Typed

-----------------------------------------------------------------------------
(* The marker and the seal.                                                *)

(* resume-seal takes over the published session.                           *)
LEMMA SealBeginStep == ASSUME AcceptInv, SealBegin PROVE AcceptInv'
<1>1. PICK p \in Procs, l \in {"marker", "seal"} :
        /\ raw # Nobody /\ raw = coll.ses /\ (adapter # Nobody => l = "seal")
        /\ BeginCommand(p, [IdleInvocation EXCEPT !.cmd = "seal", !.pc = l, !.ses = raw])
        /\ UNCHANGED <<world, records, cap>>
  BY DEF SealBegin
<1>2. PICK r : r = [IdleInvocation EXCEPT !.cmd = "seal", !.pc = l, !.ses = raw] OBVIOUS
<1>3. l \in AcceptLabels /\ l \in SealLabels /\ raw \in Nat BY DEF AcceptLabels, SealLabels, AcceptInv,
    Typed
<1>4. r \in Invocations /\ r.pc = l /\ r.cmd = "seal" /\ r.ses = raw
  BY <1>2, <1>3, IdleIs DEF Invocations
<1>5. Placed(r) BY <1>3, <1>4 DEF Placed
<1>6. Kept(r) BY <1>1, <1>4 DEF Kept
<1>7. BeginCommand(p, r) BY <1>1, <1>2
<1> QED BY <1>1, <1>4, <1>5, <1>6, <1>7, BeginStep

(* The marker of the published evidence.                                   *)
LEMMA MarkerStep == ASSUME AcceptInv, Marker PROVE AcceptInv'
<1>1. PICK p \in Procs :
        /\ proc[p].pc = "marker" /\ AppendTo("raw_published", "collection", proc[p].ses) /\ GotoPc(p, "seal")
        /\ UNCHANGED <<world, raw, adapter, archived, cap, overlapped, acceptFaults>>
  BY DEF Marker, PcIs
<1>2. "seal" \in AcceptLabels /\ "seal" \in CollectLabels /\ "seal" \in SealLabels BY DEF AcceptLabels,
    CollectLabels, SealLabels
<1>3. PICK r \in Invocations : /\ proc' = [proc EXCEPT ![p] = r] /\ r.pc = "seal"
                               /\ r.cmd = proc[p].cmd /\ r.ses = proc[p].ses
  BY <1>1, <1>2, GotoIs DEF AcceptInv
<1>4. proc[p] # IdleInvocation /\ Placed(proc[p]) /\ proc[p] \in Invocations BY <1>1, IdleIs DEF AcceptInv, Typed
<1>5. proc[p].cmd \in {"collect", "seal"} BY <1>1, <1>4 DEF Placed, Invocations, RecoverLabels
<1>6. Placed(r) BY <1>2, <1>3, <1>5 DEF Placed
<1>7. CaptureState' BY <1>1, CaptureSame DEF AcceptInv
<1> QED BY <1>1, <1>3, <1>4, <1>6, <1>7, OwnerAppends

(* The adapter is published over the very log that was just read.          *)
LEMMA SealStep == ASSUME AcceptInv, Seal PROVE AcceptInv'
<1>1. PICK p \in Procs : /\ proc[p].pc = "seal" /\ Sealable /\ adapter' = raw /\ EndCommand(p)
                         /\ UNCHANGED <<world, coll, raw, archived, cap, overlapped, acceptFaults>>
  BY DEF Seal, PcIs
<1>2. proc[p] # IdleInvocation /\ proc' = [proc EXCEPT ![p] = IdleInvocation] BY <1>1, IdleIs DEF EndCommand
<1>3. Typed' BY <1>1, <1>2, IdleIs DEF AcceptInv, Typed, Placed
<1>4. CaptureState' BY <1>1, CaptureSame DEF AcceptInv
<1>5. ASSUME ~overlapped PROVE Witnessed' /\ Kept(IdleInvocation)'
  <2>1. Witnessed BY <1>5 DEF AcceptInv, Orderly
  <2>2. Backed' BY <1>1 DEF Backed, Sealable, LogValid, Log
  <2>3. Witnessed' BY <1>1, <2>1, <2>2 DEF Witnessed, LeftOn, Launched, world
  <2> QED BY <2>3, IdleIs DEF Kept
<1>6. Orderly' BY <1>1, <1>2, <1>5, AloneStep DEF AcceptInv
<1> QED BY <1>3, <1>4, <1>6 DEF AcceptInv

-----------------------------------------------------------------------------
(* recover.                                                                *)

(* A log that shows an abort and no launch proves that collect left        *)
(* nothing on.                                                             *)
LEMMA RecoverBeginStep == ASSUME AcceptInv, RecoverBegin PROVE AcceptInv'
<1>1. PICK p \in Procs :
        /\ Unpublished /\ LogValid
        /\ BeginCommand(p, [IdleInvocation EXCEPT !.cmd = "recover", !.ses = coll.ses, !.seq = Len(coll.log),
                             !.pc = IF AbortedEarly THEN "archive"
                                    ELSE IF host # Off THEN "quit" ELSE "absent"])
        /\ UNCHANGED <<world, records, cap, acceptFaults>>
  BY DEF RecoverBegin
<1>2. PICK l : l = IF AbortedEarly THEN "archive" ELSE IF host # Off THEN "quit" ELSE "absent" OBVIOUS
<1>3. l \in {"archive", "quit", "absent"} /\ (l = "archive" => AbortedEarly) BY <1>2
<1>4. PICK r : r = [IdleInvocation EXCEPT !.cmd = "recover", !.ses = coll.ses, !.seq = Len(coll.log), !.pc = l] OBVIOUS
<1>5. l \in AcceptLabels /\ l \in RecoverLabels BY <1>3 DEF AcceptLabels, RecoverLabels
<1>6. coll.ses \in Nat /\ Len(coll.log) \in Nat BY AppendIs DEF AcceptInv, Typed
<1>7. r \in Invocations /\ r.pc = l /\ r.cmd = "recover" /\ r.ses = coll.ses
  BY <1>4, <1>5, <1>6, IdleIs DEF Invocations
<1>8. Placed(r) BY <1>5, <1>7 DEF Placed
<1>9. ASSUME Witnessed PROVE Kept(r)
  <2>1. l = "archive" => ~Launched BY <1>3 DEF AbortedEarly, Launched, Log
  <2>2. l = "archive" => ~LeftOn BY <1>9, <2>1 DEF Witnessed
  <2>3. adapter = Nobody /\ coll.ses # Nobody BY <1>1 DEF Unpublished, LogValid
  <2> QED BY <1>3, <1>7, <2>2, <2>3 DEF Kept
<1>10. BeginCommand(p, r) BY <1>1, <1>2, <1>4
<1> QED BY <1>1, <1>7, <1>8, <1>9, <1>10, BeginStep

(* The three records of recover; the runtime is off when the last of them  *)
(* is written, or was never started.                                       *)
LEMMA RecoverRecords == ASSUME AcceptInv, RecoverQuit \/ RecoverProof PROVE AcceptInv'
<1>1. PICK p \in Procs, l \in {"absent", "restored"}, ph \in {"completed", "recovered"},
           st \in {"recovery", "runtime-cleanup"} :
        /\ proc[p].pc \in {"quit", "absent"} /\ AppendTo(ph, st, proc[p].ses) /\ GotoPc(p, l)
        /\ l = "restored" => host = Off /\ tunnel = Off
        /\ UNCHANGED <<world, raw, adapter, archived, cap, overlapped, acceptFaults>>
  <2>1. CASE RecoverQuit BY <2>1 DEF RecoverQuit, PcIs
  <2>2. CASE RecoverProof BY <2>2 DEF RecoverProof, PcIs, OffProofAccepted
  <2> QED BY <2>1, <2>2
<1>2. l \in AcceptLabels /\ l \in RecoverLabels BY DEF AcceptLabels, RecoverLabels
<1>3. PICK r \in Invocations : /\ proc' = [proc EXCEPT ![p] = r] /\ r.pc = l
                               /\ r.cmd = proc[p].cmd /\ r.ses = proc[p].ses
  BY <1>1, <1>2, GotoIs DEF AcceptInv
<1>4. proc[p] # IdleInvocation /\ Placed(proc[p]) /\ proc[p] \in Invocations BY <1>1, IdleIs DEF AcceptInv, Typed
<1>5. proc[p].cmd = "recover" BY <1>1, <1>4 DEF Placed, Invocations, CollectLabels, SealLabels
<1>6. Placed(r) BY <1>2, <1>3, <1>5 DEF Placed
<1>7. CaptureState' BY <1>1, CaptureSame DEF AcceptInv
<1>8. r.pc \in {"archive", "restored"} => ~LeftOn BY <1>1, <1>3 DEF LeftOn, Off
<1>9. proc[p].pc \notin {"intent", "seal"} /\ r.pc # "intent" /\ r.pc # "act" BY <1>1, <1>3
<1> QED BY <1>1, <1>3, <1>4, <1>6, <1>7, <1>8, <1>9, OwnerAppends

(* The short cut of recover writes its record or finds it written.         *)
LEMMA RecoverEarlyStep == ASSUME AcceptInv, RecoverEarly PROVE AcceptInv'
<1>1. PICK p \in Procs :
        /\ proc[p].pc = "archive"
        /\ coll' = coll \/ AppendTo("recovered", "collection", proc[p].ses)
        /\ GotoPc(p, "restored") /\ UNCHANGED <<world, raw, adapter, archived, cap, overlapped, acceptFaults>>
  BY DEF RecoverEarly, PcIs
<1>2. "restored" \in AcceptLabels /\ "restored" \in RecoverLabels BY DEF AcceptLabels, RecoverLabels
<1>3. PICK r \in Invocations : /\ proc' = [proc EXCEPT ![p] = r] /\ r.pc = "restored"
                               /\ r.cmd = proc[p].cmd /\ r.ses = proc[p].ses
  BY <1>1, <1>2, GotoIs DEF AcceptInv
<1>4. proc[p] # IdleInvocation /\ Placed(proc[p]) /\ proc[p] \in Invocations BY <1>1, IdleIs DEF AcceptInv, Typed
<1>5. proc[p].cmd = "recover" BY <1>1, <1>4 DEF Placed, Invocations, CollectLabels, SealLabels
<1>6. Placed(r) BY <1>2, <1>3, <1>5 DEF Placed
<1>7. CaptureState' BY <1>1, CaptureSame DEF AcceptInv
<1>8. CASE ~overlapped
  <2>1. ~LeftOn /\ Kept(proc[p]) /\ Witnessed BY <1>1, <1>8 DEF AcceptInv, Orderly, Kept
  <2>2. CASE AppendTo("recovered", "collection", proc[p].ses)
    BY <1>1, <1>3, <1>4, <1>6, <1>7, <2>1, <2>2, OwnerAppends
  <2>3. CASE coll' = coll
    <3>1. Typed' BY <1>1, <1>3, <1>6, <2>3, TypedStep DEF AcceptInv
    <3>2. LeftOn' = LeftOn /\ Launched' = Launched BY <1>1, <2>3 DEF LeftOn, Launched, world
    <3>3. Witnessed' BY <1>1, <2>1, <2>3, <3>2 DEF Witnessed, Backed, LogValid, Log
    <3>4. Kept(r)' BY <1>1, <1>3, <1>4, <2>1, <2>3, <3>2 DEF Kept
    <3>5. Orderly' BY <1>1, <1>3, <1>4, <3>3, <3>4, AloneStep DEF AcceptInv
    <3> QED BY <1>7, <3>1, <3>5 DEF AcceptInv
  <2> QED BY <1>1, <2>2, <2>3
<1>9. CASE overlapped
  <2>1. proc[p].ses \in Nat BY <1>4 DEF Invocations
  <2>2. /\ coll'.ses \in Nat /\ coll'.mixed \in BOOLEAN /\ IsSeq(coll'.log)
        /\ coll' = [ses |-> coll'.ses, log |-> coll'.log, mixed |-> coll'.mixed]
    BY <1>1, <2>1, EventStep DEF AcceptInv, Typed
  <2>3. Typed' BY <1>1, <1>3, <1>6, <2>2 DEF AcceptInv, Typed, Placed
  <2> QED BY <1>1, <1>7, <1>9, <2>3 DEF AcceptInv, Orderly
<1> QED BY <1>8, <1>9 DEF AcceptInv, Typed

(* The collection moves to the archive.                                    *)
LEMMA ArchivalStep == ASSUME AcceptInv, Archive PROVE AcceptInv'
<1>1. PICK p \in Procs : /\ proc[p].pc = "restored" /\ Unpublished /\ coll' = NoColl /\ EndCommand(p)
                         /\ UNCHANGED <<world, raw, adapter, cap, overlapped, acceptFaults>>
  BY DEF Archive, PcIs
<1>2. proc[p] # IdleInvocation /\ proc' = [proc EXCEPT ![p] = IdleInvocation] BY <1>1, IdleIs DEF EndCommand
<1>3. coll' = [ses |-> 0, log |-> <<>>, mixed |-> FALSE] /\ IsSeq(<<>>) BY <1>1 DEF NoColl,
    Nobody, IsSeq
<1>4. Typed'
  <2>1. proc' \in [Procs -> Invocations] /\ \A q \in Procs : Placed(proc'[q])
    BY <1>2, IdleIs DEF AcceptInv, Typed, Placed
  <2>2. coll'.ses = 0 /\ coll'.log = <<>> /\ coll'.mixed = FALSE BY <1>3
  <2>3. raw' \in Nat /\ adapter' \in Nat /\ overlapped' \in BOOLEAN BY <1>1 DEF AcceptInv, Typed
  <2> QED BY <1>3, <2>1, <2>2, <2>3 DEF Typed, Placed
<1>5. CaptureState' BY <1>1, CaptureSame DEF AcceptInv
<1>6. ASSUME ~overlapped PROVE Witnessed' /\ Kept(IdleInvocation)'
  <2>1. ~LeftOn BY <1>1, <1>6 DEF AcceptInv, Orderly, Kept
  <2>2. Witnessed' BY <1>1, <1>3, <2>1 DEF Witnessed, LeftOn, world, Backed, Unpublished
  <2> QED BY <2>2, IdleIs DEF Kept
<1>7. Orderly' BY <1>1, <1>2, <1>6, AloneStep DEF AcceptInv
<1> QED BY <1>4, <1>5, <1>7 DEF AcceptInv

-----------------------------------------------------------------------------
(* The operator at the dashboard.                                          *)

(* The operator never turns on what counts as left on by collect.          *)
LEMMA OperatorSteps ==
    ASSUME AcceptInv, TunnelOn \/ GracefulQuit \/ AbruptExit \/ OperatorOpens PROVE AcceptInv'
<1>1. UNCHANGED <<records, cap, proc, overlapped>>
  BY DEF TunnelOn, GracefulQuit, AbruptExit, OperatorOpens, records
<1>2. Typed' BY <1>1 DEF AcceptInv, Typed, records, Placed
<1>3. CaptureState' BY <1>1, CaptureSame DEF AcceptInv
<1>4. LeftOn' => LeftOn
  BY DEF TunnelOn, GracefulQuit, AbruptExit, OperatorOpens, LeftOn, Off
<1>5. Launched' = Launched BY <1>1 DEF Launched, records
<1>6. Orderly'
  <2> SUFFICES ASSUME ~overlapped PROVE Alone' /\ Witnessed' /\ \A q \in Procs : Kept(proc[q])'
    BY <1>1 DEF Orderly
  <2>1. Alone' BY <1>1 DEF AcceptInv, Orderly, Alone
  <2>2. Witnessed' BY <1>1, <1>4, <1>5 DEF AcceptInv, Orderly, Witnessed, Backed, LogValid,
      Log, records
  <2>3. \A q \in Procs : Kept(proc[q])' BY <1>1, <1>4, <1>5 DEF AcceptInv, Orderly, Kept, records
  <2> QED BY <2>1, <2>2, <2>3
<1> QED BY <1>2, <1>3, <1>6 DEF AcceptInv

-----------------------------------------------------------------------------
(* The theorems.                                                           *)

(* The invariant holds at the start.                                       *)
LEMMA AcceptStarts == AcceptInit => AcceptInv
<1> SUFFICES ASSUME AcceptInit PROVE AcceptInv OBVIOUS
<1>1. \A p \in Procs : proc[p] = IdleInvocation BY DEF AcceptInit
<1>2. IsSeq(<<>>) BY DEF IsSeq
<1>3. coll = [ses |-> 0, log |-> <<>>, mixed |-> FALSE] BY DEF AcceptInit, NoColl, Nobody
<1>4. Typed
  <2>1. proc \in [Procs -> Invocations] BY IdleIs DEF AcceptInit
  <2>2. \A p \in Procs : Placed(proc[p]) BY <1>1, IdleIs
  <2>3. coll.ses = 0 /\ coll.log = <<>> /\ coll.mixed = FALSE BY <1>3
  <2>4. raw \in Nat /\ adapter \in Nat /\ overlapped \in BOOLEAN BY DEF AcceptInit, Nobody
  <2> QED BY <1>2, <1>3, <2>1, <2>2, <2>3, <2>4 DEF Typed
<1>5. CaptureState BY IdleIs DEF AcceptInit, CaptureState, CaptureSpansMarkers
<1>6. Orderly BY <1>1, <1>3, IdleIs DEF Orderly, Alone, Witnessed, Kept, Backed, LeftOn, AcceptInit,
    Off
<1> QED BY <1>4, <1>5, <1>6 DEF AcceptInv

(* The invariant is inductive.                                             *)
LEMMA AcceptStep == AcceptInv /\ [AcceptNext]_(acceptVars) => AcceptInv'
<1> SUFFICES ASSUME AcceptInv, [AcceptNext]_(acceptVars) PROVE AcceptInv' OBVIOUS
<1>1. CASE AcceptNext
  BY <1>1, CollectBeginStep, PublishIntentStep, EndSteps, StartStepStep, ActSteps, CompleteStepStep,
     CollectFailsStep, PublishSteps, CaptureStep, SealBeginStep, MarkerStep, SealStep, RecoverBeginStep,
     RecoverRecords, RecoverEarlyStep, ArchivalStep, OperatorSteps
  DEF AcceptNext, CaptureMoves
<1>2. CASE UNCHANGED acceptVars
  <2>1. CaptureState' BY <1>2, CaptureSame DEF AcceptInv, acceptVars
  <2> QED BY <1>2, <2>1, CaptureOnly DEF acceptVars
<1> QED BY <1>1, <1>2

(* The invariant holds in every reachable state.                           *)
THEOREM AcceptanceInvariant == AcceptSpec => []AcceptInv
BY AcceptStarts, AcceptStep, PTL DEF AcceptSpec

(* While invocations do not overlap, the published adapter stays backed by *)
(* the raw evidence and the complete log of its own collection, for any    *)
(* number of collections, retries and faults (ga_runtime_acceptance.py,    *)
(* seal_ga_runtime_acceptance and the guards of collect and recover).      *)
THEOREM AdapterIsBacked == AcceptSpec => []SealedIsComplete
<1>1. AcceptInv => SealedIsComplete BY DEF AcceptInv, Orderly, Witnessed, Backed,
    SealedIsComplete
<1> QED BY <1>1, AcceptanceInvariant, PTL

(* An accepted capture misses nothing that matched up to the settled end   *)
(* marker, also when tcpdump ends at its cap, on an error or on a signal   *)
(* between the collector's poll, ps and signal, and even when invocations  *)
(* overlap (_interrupt_capture, _tcpdump_process_id,                       *)
(* _require_capture_statistic).                                            *)
THEOREM CapturesAreWhole == AcceptSpec => []CaptureSpansMarkers
<1>1. AcceptInv => CaptureSpansMarkers BY DEF AcceptInv, CaptureState
<1> QED BY <1>1, AcceptanceInvariant, PTL

(* While invocations do not overlap, a collection is archived only when    *)
(* the Host and the tunnel that it may have started are off again, also by *)
(* the short cut for an attempt that was aborted before the launch         *)
(* (_archive_recovered_collection, _aborted_before_mutation).              *)
THEOREM ArchivesAreRestored == AcceptSpec => ArchivedIsRestored
<1>1. ASSUME AcceptInv, [AcceptNext]_(acceptVars)
      PROVE  [archived' # archived /\ ~overlapped => host # "collect" /\ tunnel # "collect"]_(acceptVars)
  <2> SUFFICES ASSUME archived' # archived, ~overlapped PROVE host # "collect" /\ tunnel # "collect"
    BY SMTT(30)
  <2>1. Archive
    BY <1>1 DEF AcceptNext, acceptVars, records, CollectBegin, PublishIntent,
        IntentRefused, StartStep, Launch, StopRestore,
           Observe, CompleteStep, LogAppendFails, CollectFails, Restored, PublishRaw, PublishRefused, Listen,
           SendMarker, CaptureEnds, KernelDrops, SudoReaps, PollCapture, FindTcpdump, Interrupt,
           TcpdumpStops, AcceptCapture, SealBegin, Marker, MarkerRefused, Seal,
           SealRefused, RecoverBegin, RecoverQuit, RecoverProof, RecoverEarly, RecoverFails, Crash, TunnelOn,
           GracefulQuit, AbruptExit, OperatorOpens
  <2>2. PICK p \in Procs : proc[p].pc = "restored" BY <2>1 DEF Archive, PcIs
  <2> QED BY <1>1, <2>2 DEF AcceptInv, Orderly, Kept, LeftOn
<1> QED BY <1>1, AcceptanceInvariant, PTL DEF AcceptSpec, ArchivedIsRestored
=============================================================================
