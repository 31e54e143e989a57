------------------------- MODULE NotarizationProofs -------------------------
(***************************************************************************)
(* Proofs about the attempts of notarization_transaction.py, of either     *)
(* layout and for any number of invocations, recovery tools, faults and    *)
(* event documents.                                                        *)
(*                                                                         *)
(* The older layout: LegacyInv says which journals, receipts and places    *)
(* occur together; every crash leaves one that the next resumption takes   *)
(* up.                                                                     *)
(*                                                                         *)
(* The current layout: AttemptInv says that only the holder of the flock   *)
(* is past the lock, that nobody on the way to the upload has uploaded,    *)
(* and that the journal has room for everything its holder still owes:     *)
(* Owed(label) counts the events from a label to the end of what it does,  *)
(* the outcome of a failure included.  The three capacity checks (before   *)
(* the upload, before a boundary is completed, before a recovery is        *)
(* anchored) establish it, and every append uses up one of what is owed.   *)
(*                                                                         *)
(* Publication: PublicationInv says what an invocation has established at  *)
(* each label: an execute that was never recovered has recorded the one    *)
(* journal that leads to a publication (AsPlanned) and written the         *)
(* documents that go with it, a recovery is bound to its submission before *)
(* it finalizes, and only the run that is about to be published has a      *)
(* receipt for the last events of the journal.  Once a run is published    *)
(* it stands (Stands): in the journal, in the journal with the event left  *)
(* pending, and in the one with the event that is being recorded; or the   *)
(* journal has been closed twice, which no later event undoes.             *)
(***************************************************************************)
EXTENDS NotarizationAttempts, SequenceTheorems, FiniteSetTheorems, TLAPS

-----------------------------------------------------------------------------
(* The older layout.                                                        *)

(* Short journals, put together.                                            *)
LEMMA JoinTwo ==
    ASSUME NEW S, NEW r \in S, NEW t \in S
    PROVE  Append(<<r>>, t) = <<r, t>> /\ <<r>> \o <<t>> = <<r, t>>
<1>1. <<r>> \in Seq(S) /\ <<t>> \in Seq(S) /\ <<r, t>> \in Seq(S) /\ Len(<<r>>) = 1 /\ Len(<<r, t>>) = 2
      /\ <<r>>[1] = r /\ <<r, t>>[1] = r /\ <<r, t>>[2] = t
  OBVIOUS
<1> DEFINE a == Append(<<r>>, t)
<1>2. a \in Seq(S) /\ Len(a) = 2 /\ a[1] = r /\ a[2] = t
  BY <1>1, AppendProperties
<1>3. a = <<r>> \o <<t>>
  BY <1>1, AppendIsConcat
<1> HIDE DEF a
<1>4. a = <<r, t>>
  BY <1>1, <1>2, SeqEqual
<1> QED
  BY <1>3, <1>4 DEF a

LEMMA JoinThree ==
    ASSUME NEW S, NEW r \in S, NEW t \in S, NEW q \in S
    PROVE  <<r>> \o <<t, q>> = <<r, t, q>>
<1>1. <<r>> \in Seq(S) /\ <<t, q>> \in Seq(S) /\ <<r, t, q>> \in Seq(S) /\ Len(<<r>>) = 1 /\ Len(<<t, q>>) = 2 /\ Len(<<r, t, q>>) = 3
      /\ <<r>>[1] = r /\ <<t, q>>[1] = t /\ <<t, q>>[2] = q /\ <<r, t, q>>[1] = r /\ <<r, t, q>>[2] = t /\ <<r, t, q>>[3] = q
  OBVIOUS
<1> DEFINE a == <<r>> \o <<t, q>>
<1>2. a \in Seq(S) /\ Len(a) = 3 /\ a[1] = r /\ a[2] = t /\ a[3] = q
  BY <1>1, ConcatProperties
<1> HIDE DEF a
<1>3. a = <<r, t, q>>
  BY <1>1, <1>2, SeqEqual
<1> QED
  BY <1>3 DEF a

SealedTails ==
    {<<"sealed">>, <<"receiptUnknown", "sealed">>} \cup
    {<<"sealed", t>> : t \in Terminals} \cup {<<"receiptUnknown", "sealed", t>> : t \in Terminals}

(* The journals that the grammar accepts, one by one.                       *)
LEMMA GrammarIs ==
    ASSUME NEW head \in BOOLEAN
    PROVE  DirectGrammar(head) <=> (head /\ Unsealed) \/ tail \in SealedTails
<1> DEFINE S == {"receiptUnknown", "sealed"} \cup Terminals
<1>1. "receiptUnknown" \in S /\ "sealed" \in S /\ Terminals \subseteq S
  OBVIOUS
<1> HIDE DEF S
<1>2. <<>> \o <<"sealed">> = <<"sealed">> /\ \A t \in Terminals : <<>> \o <<"sealed", t>> = <<"sealed", t>>
  <2>1. <<"sealed">> \in Seq(S) /\ \A t \in Terminals : <<"sealed", t>> \in Seq(S)
    BY <1>1
  <2> QED
    BY <2>1, ConcatEmptySeq
<1>3. /\ <<"receiptUnknown">> \o <<"sealed">> = <<"receiptUnknown", "sealed">>
      /\ \A t \in Terminals : <<"receiptUnknown">> \o <<"sealed", t>> = <<"receiptUnknown", "sealed", t>>
  BY <1>1, JoinTwo, JoinThree
<1> QED
  BY <1>2, <1>3 DEF DirectGrammar, Unsealed, SealedTails

LEMMA SealedIsNot == tail \in SealedTails => ~Unsealed
  BY DEF SealedTails, Unsealed, Terminals

LEMMA SealingTails == ASSUME Unsealed PROVE Append(tail, "sealed") \in SealedTails
<1>1. Append(<<>>, "sealed") = <<"sealed">>
  OBVIOUS
<1>2. Append(<<"receiptUnknown">>, "sealed") = <<"receiptUnknown", "sealed">>
  <2>1. "receiptUnknown" \in {"receiptUnknown", "sealed"} /\ "sealed" \in {"receiptUnknown", "sealed"}
    OBVIOUS
  <2> QED
    BY <2>1, JoinTwo
<1> QED
  BY <1>1, <1>2 DEF Unsealed, SealedTails

\* A sealed journal has its receipt; an unsealed tree is not published.
LegacyInv ==
    /\ Unsealed \/ tail \in SealedTails
    /\ tail # <<>> => receipt = "final"
    /\ place \in {"ready", "final"} /\ (place = "final" => tail \in SealedTails)
    /\ resume \in Resumptions
    /\ resume \in {"receipt", "seal"} => Unsealed /\ place = "ready"
    /\ resume = "seal" => receipt = "final"

LEMMA LegacyUsable == LegacyInv => LegacyStaysUsable
<1>1. ASSUME LegacyInv PROVE Resumable
  <2>1. DirectGrammar(place = "ready")
    BY <1>1, GrammarIs DEF LegacyInv
  <2>2. tail = <<"receiptUnknown">> => receipt = "final"
    BY <1>1 DEF LegacyInv
  <2>3. ~Unsealed => receipt = "final"
    BY <1>1 DEF LegacyInv, Unsealed
  <2>4. Unsealed => place = "ready"
    BY <1>1, SealedIsNot DEF LegacyInv
  <2> QED
    BY <2>1, <2>2, <2>3, <2>4 DEF Resumable, Repairable
<1>2. ASSUME LegacyInv, place = "final" PROVE DirectEvidence
  <2>1. tail # <<>>
    BY <1>2, SealedIsNot DEF LegacyInv, Unsealed
  <2> QED
    BY <1>2, <2>1, GrammarIs DEF LegacyInv, DirectEvidence
<1> QED
  BY <1>1, <1>2 DEF LegacyStaysUsable

LEMMA LegacyStep == LegacyInv /\ LegacyNext => LegacyInv'
<1> SUFFICES ASSUME LegacyInv, LegacyNext PROVE LegacyInv'
  OBVIOUS
<1>1. CASE AppendSealed
  <2>1. tail' \in SealedTails /\ receipt' = "final" /\ place' = "ready" /\ resume' = "publish"
    BY <1>1, SealingTails DEF AppendSealed, LegacyInv
  <2> QED
    BY <2>1 DEF LegacyInv, Resumptions
<1>2. CASE BeginResume
  BY <1>2 DEF BeginResume, LegacyInv, Resumable, Repairable, Resumptions, Unsealed
<1>3. CASE RepairReceipt
  BY <1>3 DEF RepairReceipt, LegacyInv, Resumptions, Unsealed
<1>4. CASE PublishTree
  <2>1. tail \in SealedTails
    BY <1>4, GrammarIs DEF PublishTree, SealedTree
  <2> QED
    BY <1>4, <2>1 DEF PublishTree, LegacyInv, Resumptions, Unsealed
<1>5. CASE ConfirmTree
  BY <1>5 DEF ConfirmTree, LegacyInv, Resumptions, Unsealed
<1>6. CASE ResumeEnds
  BY <1>6 DEF ResumeEnds, LegacyInv, Resumptions, Unsealed
<1>7. CASE RenameLost
  BY <1>7 DEF RenameLost, LegacyInv, Resumptions, Unsealed
<1> QED
  BY <1>1, <1>2, <1>3, <1>4, <1>5, <1>6, <1>7 DEF LegacyNext

(* Wherever a resumption of the older layout stops, the next one can take   *)
(* the attempt up, and what stands at the final root is sealed evidence     *)
(* (notarization_transaction.py, the older direct layout).*)
THEOREM OlderLayoutStaysUsable == AttemptSpec => []LegacyStaysUsable
<1>1. AttemptInit => LegacyInv
  BY DEF AttemptInit, NoLegacy, LegacyInit, LegacyInv, SealedTails, Unsealed, Terminals, Resumptions
<1>2. LegacyInv /\ [AttemptNext]_<<vars, legacyVars, layout>> => LegacyInv'
  <2>1. LegacyInv /\ UNCHANGED legacyVars => LegacyInv'
    BY DEF legacyVars, LegacyInv, Unsealed
  <2> QED
    BY <2>1, LegacyStep DEF AttemptNext
<1> QED
  BY <1>1, <1>2, LegacyUsable, PTL DEF AttemptSpec
-----------------------------------------------------------------------------
(* The current layout.  Whoever holds the lock owes the journal the events  *)
(* up to the end of what it is doing.                                       *)

IsSeq(s) == \E S : s \in Seq(S)
ProcFields == {"pc", "sub", "tool", "adopt", "run", "reply", "buf", "next"}
Shaped(r) == r = [f \in ProcFields |-> r[f]]
DiskFields == {"claimed", "staged", "intent", "source", "observation", "receipt", "acquisition",
               "rintent", "rtool", "cont", "contPending"}
DiskShaped(d) == d = [f \in DiskFields |-> d[f]] /\ d.claimed \in BOOLEAN

\* The labels from which the archive may still be uploaded.
BeforeUpload == {"transfer", "archive", "noticeReady", "submitting", "submit"}
\* A finalization's events from its last one on, with the outcome of a failure.
StageStates == {"finalization_started", "accepted", "log_verified", "stapling", "stapled",
                "gatekeeper_verified", "app_verified"}
OwedAfter(st) ==
    CASE st = "finalization_started" -> 9
      [] st = "accepted" -> 8
      [] st = "log_verified" -> 7
      [] st = "stapling" -> 6
      [] st = "stapled" -> 5
      [] st = "gatekeeper_verified" -> 4
      [] st = "app_verified" -> 3
      [] OTHER -> 0
\* The events that recovery and finalization of journal ev may still record.
ToRecover(ev) == IF Reconciled(ev) THEN 10 ELSE 12
Continues(r, ev, d) == d.rtool # r.tool /\ d.cont = NoTool /\ Markers(ev) = {}
Owed(label, r, ev, d) ==
    CASE label \in {"transfer", "archive"} -> 3
      [] label = "noticeReady" -> 2
      [] label \in {"submitting", "publish"} -> 1
      [] label \in {"submit", "reply", "receive"} -> 13
      [] label \in {"wait", "reload"} -> 12
      [] label \in {"preserve", "ready"} -> 11
      [] label = "start" -> 10
      [] label \in {"allocate", "copy"} -> 9
      [] label = "stage" -> OwedAfter(ev[Len(ev)].st)
      [] label = "receipt" -> 2
      [] label = "continue" -> ToRecover(ev) + One(Continues(r, ev, d))
      [] label \in {"continuation", "reconcile"} -> ToRecover(ev)
      [] label = "evidence" -> IF Reconciled(ev) THEN 10 ELSE 11
      [] OTHER -> 0
\* Where a process goes on after it recorded an event.
Successors ==
    {"noticeReady", "submitting", "submit", "wait", "preserve", "start", "allocate", "stage", "receipt", "publish",
     "verify", "continue", "continuation", "evidence", "cleanup", "exit"}
\* The second outcome of an execute, for which no room was reserved.
Unreserved(r, ev) == r.tool = NoTool /\ r.next = "exit" /\ ClosedTwice(Append(ev, r.buf))
RoomFor(r, ev, d) ==
    /\ r.pc \notin {"idle", "lock", "append"} => Len(ev) + Owed(r.pc, r, ev, d) <= MAX_EVENT_DOCUMENTS
    /\ r.pc = "append" =>
          /\ r.next \in Successors
          /\ \/ Unreserved(r, ev)
             \/ Len(ev) + 1 + (IF r.next = "stage" THEN OwedAfter(r.buf.st) ELSE Owed(r.next, r, ev, d))
                   <= MAX_EVENT_DOCUMENTS
          /\ r.next = "allocate" => r.buf.st = "finalization_started"
          /\ r.next = "stage" => r.buf.st \in StageStates
          /\ r.next = "cleanup" => r.buf.st \in TerminalStates
    /\ r.pc = "cleanup" => Len(ev) > 0 /\ ev[Len(ev)].st \in TerminalStates
    /\ r.pc \in {"allocate", "copy"} => ev[Len(ev)].st = "finalization_started"
    /\ r.pc = "stage" => ev[Len(ev)].st \in StageStates
Local(r, ev, pd, d, up) ==
    /\ r.pc \notin {"idle", "lock", "claim"} => d.claimed
    /\ r.pc \notin {"idle", "lock", "claim", "load"} => pd = NoEvent
    /\ r.pc \in BeforeUpload \/ (r.pc = "append" /\ r.next \in BeforeUpload) => up = 0
    /\ RoomFor(r, ev, d)
Journaled(ev, pd, d, up) ==
    /\ DiskShaped(d) /\ up \in {0, 1} /\ (up = 1 => d.claimed) /\ (d.intent => d.claimed)
    /\ ~d.claimed => ev = <<>> /\ pd = NoEvent
    /\ IsSeq(ev) /\ Len(ev) \in 0..MAX_EVENT_DOCUMENTS
    /\ pd # NoEvent => Len(ev) < MAX_EVENT_DOCUMENTS
AttemptInv ==
    /\ proc = [p \in Procs |-> proc[p]] /\ \A p \in Procs : Shaped(proc[p])
    /\ Journaled(events, pending, disk, uploads)
    /\ \A p \in Procs : proc[p].pc \notin {"idle", "lock"} => lock = p
    /\ \A p \in Procs : Local(proc[p], events, pending, disk, uploads)

(* Appending to any journal.                                                *)
LEMMA Appended ==
    ASSUME NEW s, IsSeq(s), NEW e
    PROVE  /\ IsSeq(Append(s, e)) /\ Len(s) \in Nat /\ Len(Append(s, e)) = Len(s) + 1
           /\ DOMAIN s = 1..Len(s) /\ DOMAIN Append(s, e) = 1..(Len(s) + 1)
           /\ \A i \in 1..Len(s) : Append(s, e)[i] = s[i]
           /\ Append(s, e)[Len(s) + 1] = e
<1>1. PICK S : s \in Seq(S)
  BY DEF IsSeq
<1> DEFINE T == S \cup {e}
<1>2. s \in Seq(T) /\ e \in T
  BY <1>1, SeqMonotonic
<1> HIDE DEF T
<1>3. Append(s, e) \in Seq(T)
  BY <1>2, AppendProperties
<1> QED
  BY <1>2, <1>3, AppendProperties, LenProperties DEF IsSeq

(* Two outcomes in a row.                                                   *)
LEMMA ClosingTwice ==
    ASSUME NEW s, IsSeq(s), NEW e
    PROVE  /\ ClosedTwice(s) => ClosedTwice(Append(s, e))
           /\ Len(s) > 0 /\ s[Len(s)].st \in TerminalStates /\ e.st \in TerminalStates => ClosedTwice(Append(s, e))
<1>1. PICK a : a = Append(s, e)
  OBVIOUS
<1>2. PICK n : n = Len(s)
  OBVIOUS
<1>3. /\ n \in Nat /\ Len(a) = n + 1 /\ DOMAIN s = 1..n /\ DOMAIN a = 1..(n + 1)
      /\ (\A i \in 1..n : a[i] = s[i]) /\ a[n + 1] = e
  BY <1>1, <1>2, Appended
<1>4. ASSUME ClosedTwice(s) PROVE ClosedTwice(a)
  <2>1. PICK i \in 1..n : StateAt(s, i) \in TerminalStates /\ StateAt(s, i + 1) \in TerminalStates
    BY <1>2, <1>4 DEF ClosedTwice
  <2>2. i + 1 \in 1..n
    BY <1>3, <2>1 DEF StateAt, TerminalStates
  <2>3. StateAt(a, i) = StateAt(s, i) /\ StateAt(a, i + 1) = StateAt(s, i + 1) /\ i \in 1..(n + 1)
    BY <1>3, <2>2 DEF StateAt
  <2> QED
    BY <1>3, <2>1, <2>3 DEF ClosedTwice
<1>5. ASSUME n > 0, s[n].st \in TerminalStates, e.st \in TerminalStates PROVE ClosedTwice(a)
  <2>1. n \in 1..n /\ n \in 1..(n + 1) /\ n + 1 \in 1..(n + 1)
    BY <1>3, <1>5
  <2>2. StateAt(a, n) \in TerminalStates /\ StateAt(a, n + 1) \in TerminalStates
    BY <1>3, <1>5, <2>1 DEF StateAt
  <2> QED
    BY <1>3, <2>1, <2>2 DEF ClosedTwice
<1> QED
  BY <1>1, <1>2, <1>4, <1>5

(* A journal that is reconciled stays so, and no event makes a continuation *)
(* necessary.                                                               *)
LEMMA AppendKeeps ==
    ASSUME NEW ev, IsSeq(ev), NEW e
    PROVE  /\ Reconciled(ev) => Reconciled(Append(ev, e))
           /\ Markers(ev) # {} => Markers(Append(ev, e)) # {}
<1> DEFINE a == Append(ev, e)
<1>1. /\ IsSeq(a) /\ Len(ev) \in Nat /\ DOMAIN ev = 1..Len(ev) /\ DOMAIN a = 1..(Len(ev) + 1)
      /\ \A i \in 1..Len(ev) : a[i] = ev[i]
  BY Appended
<1>2. \A st : Indices(ev, st) \subseteq Indices(a, st)
  BY <1>1 DEF Indices
<1>3. ASSUME NEW i \in ReadyAt(ev) PROVE i \in ReadyAt(a)
  <2>1. i \in 1..Len(ev) /\ i >= 5 /\ Submitted(ev) /\ DirectPrefixSupported(SubSeq(ev, 5, i - 1))
        /\ i \in Indices(ev, "direct_finalization_ready")
    BY <1>1, <1>3 DEF ReadyAt, Indices
  <2>2. Submitted(a)
    BY <1>1, <2>1 DEF Submitted, StateAt
  <2>3. SubSeq(a, 5, i - 1) = SubSeq(ev, 5, i - 1)
    <3>1. PICK S : a \in Seq(S)
      BY <1>1 DEF IsSeq
    <3>2. PICK U : ev \in Seq(U)
      BY DEF IsSeq
    <3> DEFINE T == S \cup U
    <3>3. a \in Seq(T) /\ ev \in Seq(T)
      BY <3>1, <3>2, SeqMonotonic
    <3> HIDE DEF T, a
    <3>4. /\ SubSeq(a, 5, i - 1) \in Seq(T) /\ SubSeq(ev, 5, i - 1) \in Seq(T)
          /\ Len(SubSeq(a, 5, i - 1)) = Len(SubSeq(ev, 5, i - 1))
          /\ \A j \in 1..Len(SubSeq(a, 5, i - 1)) : SubSeq(a, 5, i - 1)[j] = SubSeq(ev, 5, i - 1)[j]
      BY <1>1, <2>1, <3>3
    <3> QED
      BY <3>4, SeqEqual
  <2> QED
    BY <1>2, <2>1, <2>2, <2>3 DEF ReadyAt
<1> QED
  BY <1>2, <1>3 DEF Reconciled, DirectReady, Markers

(* How much each label still owes.                                          *)
LEMMA OwedTable ==
    ASSUME NEW r, NEW ev, NEW d
    PROVE  /\ Owed("transfer", r, ev, d) = 3 /\ Owed("archive", r, ev, d) = 3
           /\ Owed("noticeReady", r, ev, d) = 2 /\ Owed("submitting", r, ev, d) = 1
           /\ Owed("submit", r, ev, d) = 13 /\ Owed("reply", r, ev, d) = 13 /\ Owed("receive", r, ev, d) = 13
           /\ Owed("wait", r, ev, d) = 12 /\ Owed("reload", r, ev, d) = 12
           /\ Owed("preserve", r, ev, d) = 11 /\ Owed("ready", r, ev, d) = 11
           /\ Owed("start", r, ev, d) = 10 /\ Owed("allocate", r, ev, d) = 9 /\ Owed("copy", r, ev, d) = 9
           /\ Owed("stage", r, ev, d) = OwedAfter(ev[Len(ev)].st)
           /\ Owed("receipt", r, ev, d) = 2 /\ Owed("publish", r, ev, d) = 1
           /\ Owed("continue", r, ev, d) = ToRecover(ev) + One(Continues(r, ev, d))
           /\ Owed("continuation", r, ev, d) = ToRecover(ev) /\ Owed("reconcile", r, ev, d) = ToRecover(ev)
           /\ Owed("evidence", r, ev, d) = (IF Reconciled(ev) THEN 10 ELSE 11)
           /\ \A l \in {"claim", "load", "adopt", "boundary", "verify", "anchor", "cleanup", "exit"} :
                 Owed(l, r, ev, d) = 0
<1> DEFINE T(l) == Owed(l, r, ev, d)
<1>1. T("transfer") = 3 /\ T("archive") = 3 /\ T("noticeReady") = 2 /\ T("submitting") = 1 /\ T("publish") = 1
  BY DEF Owed
<1>2. T("submit") = 13 /\ T("reply") = 13 /\ T("receive") = 13 /\ T("wait") = 12 /\ T("reload") = 12
  BY DEF Owed
<1>3. T("preserve") = 11 /\ T("ready") = 11 /\ T("start") = 10 /\ T("allocate") = 9 /\ T("copy") = 9
  BY DEF Owed
<1>4. T("stage") = OwedAfter(ev[Len(ev)].st) /\ T("receipt") = 2
  BY DEF Owed
<1>5. T("continue") = ToRecover(ev) + One(Continues(r, ev, d))
  BY DEF Owed
<1>6. T("continuation") = ToRecover(ev) /\ T("reconcile") = ToRecover(ev)
  BY DEF Owed
<1>7. T("evidence") = (IF Reconciled(ev) THEN 10 ELSE 11)
  BY DEF Owed
<1>8. \A l \in {"claim", "load", "adopt", "boundary", "verify", "anchor", "cleanup", "exit"} : T(l) = 0
  BY DEF Owed
<1> QED
  BY <1>1, <1>2, <1>3, <1>4, <1>5, <1>6, <1>7, <1>8

LEMMA OwedAfterTable ==
    /\ OwedAfter("finalization_started") = 9 /\ OwedAfter("accepted") = 8 /\ OwedAfter("log_verified") = 7
    /\ OwedAfter("stapling") = 6 /\ OwedAfter("stapled") = 5 /\ OwedAfter("gatekeeper_verified") = 4
    /\ OwedAfter("app_verified") = 3
  BY DEF OwedAfter

\* What a step does to the process that takes it.
Moves(p, r) == proc' = [proc EXCEPT ![p] = r] /\ Shaped(r) /\ r.tool = proc[p].tool

LEMMA GotoMoves ==
    ASSUME AttemptInv, NEW p \in Procs, NEW l, Goto(p, l)
    PROVE  \E r : Moves(p, r) /\ r.pc = l
<1> DEFINE r == [proc[p] EXCEPT !.pc = l]
<1>1. Shaped(proc[p])
  BY DEF AttemptInv
<1>2. Shaped(r) /\ r.pc = l /\ r.tool = proc[p].tool
  BY <1>1 DEF Shaped, ProcFields
<1>3. proc' = [proc EXCEPT ![p] = r]
  BY DEF Goto
<1> QED
  BY <1>2, <1>3 DEF Moves

LEMMA RecordMoves ==
    ASSUME AttemptInv, NEW p \in Procs, NEW st, NEW sub, NEW code, NEW next, Record(p, st, sub, code, next)
    PROVE  \E r : Moves(p, r) /\ r.pc = "append" /\ r.next = next /\ r.buf.st = st
<1> DEFINE r == [proc[p] EXCEPT !.pc = "append", !.next = next, !.buf = [st |-> st, sub |-> sub, code |-> code]]
<1>1. Shaped(proc[p])
  BY DEF AttemptInv
<1>2. Shaped(r) /\ r.pc = "append" /\ r.tool = proc[p].tool /\ r.next = next /\ r.buf.st = st
  BY <1>1 DEF Shaped, ProcFields
<1>3. proc' = [proc EXCEPT ![p] = r]
  BY DEF Record, AttemptInv
<1> QED
  BY <1>2, <1>3 DEF Moves

LEMMA IdleShaped == Shaped(IdleProc) /\ IdleProc.pc = "idle"
  BY DEF Shaped, IdleProc, ProcFields

(* A process that does not hold the lock owes nothing.                      *)
LEMMA QuietLocal == ASSUME NEW r, r.pc \in {"idle", "lock"}, NEW ev, NEW pd, NEW d, NEW up PROVE Local(r, ev, pd, d, up)
  BY DEF Local, RoomFor, BeforeUpload

(* Only the holder of the lock moves; everyone else is quiet.               *)
LEMMA ProcessStep ==
    ASSUME AttemptInv, NEW p \in Procs, NEW r, proc' = [proc EXCEPT ![p] = r], Shaped(r),
           Journaled(events, pending, disk, uploads)', lock \in {p, Nobody},
           Local(r, events', pending', disk', uploads'),
           r.pc \notin {"idle", "lock"} => lock' = p
    PROVE  AttemptInv'
<1>1. \A q \in Procs \ {p} : proc'[q] = proc[q] /\ proc[q].pc \in {"idle", "lock"}
  BY ProcAssumption DEF AttemptInv
<1>2. proc' = [q \in Procs |-> proc'[q]] /\ proc'[p] = r
  BY DEF AttemptInv
<1>3. \A q \in Procs : Shaped(proc'[q])
  BY <1>1, <1>2 DEF AttemptInv
<1>4. \A q \in Procs : proc'[q].pc \notin {"idle", "lock"} => lock' = q
  BY <1>1, <1>2
<1>5. \A q \in Procs : Local(proc'[q], events', pending', disk', uploads')
  BY <1>1, <1>2, QuietLocal
<1> QED
  BY <1>2, <1>3, <1>4, <1>5 DEF AttemptInv

(* The holder of the lock lets go of it.                                    *)
LEMMA ExitStep ==
    ASSUME AttemptInv, NEW p \in Procs, Exit(p), lock = p, Journaled(events, pending, disk, uploads)'
    PROVE  AttemptInv'
<1>1. Local(IdleProc, events', pending', disk', uploads')
  BY IdleShaped, QuietLocal
<1>2. proc' = [proc EXCEPT ![p] = IdleProc]
  BY DEF Exit
<1> QED
  BY <1>1, <1>2, IdleShaped, ProcessStep

\* A step inside a claimed attempt that records nothing yet.
Inside(p) ==
    /\ lock = p /\ lock' = p /\ disk.claimed /\ pending = NoEvent
    /\ UNCHANGED <<events, pending>> /\ DiskShaped(disk') /\ disk'.claimed
    /\ uploads' \in {0, 1}

LEMMA InsideJournaled ==
    ASSUME AttemptInv, disk.claimed, UNCHANGED <<events, pending>>, DiskShaped(disk'), disk'.claimed, uploads' \in {0, 1}
    PROVE  Journaled(events, pending, disk, uploads)'
  BY DEF AttemptInv, Journaled

(* Going on at a label needs the room that the label owes.                  *)
LEMMA GotoStep ==
    ASSUME AttemptInv, NEW p \in Procs, NEW l, Goto(p, l), Inside(p),
           l \notin {"idle", "lock", "append", "cleanup"}, l \in BeforeUpload => uploads' = 0,
           \A r : r.tool = proc[p].tool => Len(events) + Owed(l, r, events, disk') <= MAX_EVENT_DOCUMENTS,
           l \in {"allocate", "copy"} => events[Len(events)].st = "finalization_started",
           l = "stage" => events[Len(events)].st \in StageStates
    PROVE  AttemptInv'
<1>1. PICK r : Moves(p, r) /\ r.pc = l
  BY GotoMoves
<1>2. RoomFor(r, events', disk')
  BY <1>1 DEF RoomFor, Inside, Moves
<1>3. Local(r, events', pending', disk', uploads')
  BY <1>1, <1>2 DEF Local, Inside
<1>4. Journaled(events, pending, disk, uploads)'
  BY InsideJournaled DEF Inside
<1> QED
  BY <1>1, <1>3, <1>4, ProcessStep DEF Moves, Inside

(* Recording an event needs room for it and for what its successor owes.    *)
LEMMA RecordStep ==
    ASSUME AttemptInv, NEW p \in Procs, NEW st, NEW sub, NEW code, NEW next, Record(p, st, sub, code, next), Inside(p),
           next \in Successors, next \in BeforeUpload => uploads' = 0,
           next # "stage" =>
              \A r : r.tool = proc[p].tool => Len(events) + 1 + Owed(next, r, events, disk') <= MAX_EVENT_DOCUMENTS,
           next = "stage" => st \in StageStates /\ Len(events) + 1 + OwedAfter(st) <= MAX_EVENT_DOCUMENTS,
           next = "allocate" => st = "finalization_started",
           next = "cleanup" => st \in TerminalStates
    PROVE  AttemptInv'
<1>1. PICK r : Moves(p, r) /\ r.pc = "append" /\ r.next = next /\ r.buf.st = st
  BY RecordMoves
<1>2. RoomFor(r, events', disk')
  BY <1>1 DEF RoomFor, Inside, Moves
<1>3. Local(r, events', pending', disk', uploads')
  BY <1>1, <1>2 DEF Local, Inside, BeforeUpload
<1>4. Journaled(events, pending, disk, uploads)'
  BY InsideJournaled DEF Inside
<1> QED
  BY <1>1, <1>3, <1>4, ProcessStep DEF Moves, Inside

(* What the holder of the lock may rely on.                                 *)
LEMMA Holding ==
    ASSUME AttemptInv, NEW p \in Procs, NEW l, Holds(p, l), l \notin {"idle", "lock", "claim", "load"}
    PROVE  /\ lock = p /\ proc[p].pc = l /\ disk.claimed /\ pending = NoEvent /\ DiskShaped(disk) /\ uploads \in {0, 1}
           /\ IsSeq(events) /\ Len(events) \in 0..MAX_EVENT_DOCUMENTS
           /\ (l \in BeforeUpload => uploads = 0)
           /\ (l # "append" => Len(events) + Owed(l, proc[p], events, disk) <= MAX_EVENT_DOCUMENTS)
           /\ (l \in {"allocate", "copy"} => events[Len(events)].st = "finalization_started")
           /\ (l = "stage" => events[Len(events)].st \in StageStates)
           /\ (l = "cleanup" => Len(events) > 0 /\ events[Len(events)].st \in TerminalStates)
<1>1. Local(proc[p], events, pending, disk, uploads) /\ Journaled(events, pending, disk, uploads)
  BY DEF AttemptInv
<1> QED
  BY <1>1 DEF Holds, Local, Journaled, RoomFor

(* Changing any other entry of the attempt keeps its claim.                 *)
LEMMA DiskKept ==
    ASSUME DiskShaped(disk), disk.claimed, NEW f \in DiskFields \ {"claimed"}, NEW v, disk' = [disk EXCEPT ![f] = v]
    PROVE  DiskShaped(disk') /\ disk'.claimed
  BY DEF DiskShaped, DiskFields

(* The outcome of a failed step is recorded wherever one event is owed.     *)
LEMMA RaiseStep ==
    ASSUME AttemptInv, NEW p \in Procs, NEW st \in TerminalStates, NEW code, Raise(p, st, code), Inside(p),
           Len(events) + 1 <= MAX_EVENT_DOCUMENTS
    PROVE  AttemptInv'
<1> DEFINE next == IF proc[p].run > 0 THEN "cleanup" ELSE "exit"
<1>1. next \in {"cleanup", "exit"}
  OBVIOUS
<1>2. Record(p, st, proc[p].sub, code, next)
  BY DEF Raise
<1> HIDE DEF next
<1>3. \A r : Owed(next, r, events, disk') = 0
  BY <1>1, OwedTable
<1>4. Len(events) \in Nat
  BY DEF AttemptInv, Journaled
<1>5. next \in Successors /\ next \notin BeforeUpload /\ next \notin {"stage", "allocate"}
  BY <1>1 DEF BeforeUpload, Successors
<1>6. \A r : Len(events) + 1 + Owed(next, r, events, disk') <= MAX_EVENT_DOCUMENTS
  BY <1>3, <1>4
<1> QED
  BY <1>2, <1>5, <1>6, RecordStep

-----------------------------------------------------------------------------
(* execute_transaction keeps the invariant.                                 *)

LEMMA BeginExecuteStep == ASSUME AttemptInv, NEW p \in Procs, BeginExecute(p) \/ (AcquireLock(p) /\ lock # Nobody) PROVE AttemptInv'
<1>1. PICK l \in {"idle", "lock"} : Goto(p, l)
  BY DEF BeginExecute, AcquireLock
<1>2. proc[p].pc \in {"idle", "lock"} /\ UNCHANGED <<events, pending, disk, uploads, lock>>
  BY DEF BeginExecute, AcquireLock, Journal, Outside
<1>3. PICK r : Moves(p, r) /\ r.pc = l
  BY <1>1, GotoMoves
<1>4. proc' = [q \in Procs |-> proc'[q]] /\ \A q \in Procs : proc'[q] = proc[q] \/ proc'[q] = r
  BY <1>3 DEF Moves, AttemptInv
<1>5. \A q \in Procs : Shaped(proc'[q]) /\ (proc'[q].pc \notin {"idle", "lock"} => lock' = q)
  BY <1>2, <1>3, <1>4 DEF Moves, AttemptInv
<1>6. \A q \in Procs : Local(proc'[q], events', pending', disk', uploads')
  BY <1>2, <1>3, <1>4, QuietLocal DEF AttemptInv
<1>7. Journaled(events, pending, disk, uploads)'
  BY <1>2 DEF AttemptInv
<1> QED
  BY <1>4, <1>5, <1>6, <1>7 DEF AttemptInv

LEMMA AcquireLockStep == ASSUME AttemptInv, NEW p \in Procs, AcquireLock(p) PROVE AttemptInv'
<1>1. CASE lock = Nobody
  <2>1. Goto(p, "claim") /\ lock' = p /\ UNCHANGED <<events, pending, disk, uploads>>
    BY <1>1 DEF AcquireLock, Journal, Outside
  <2>2. PICK r : Moves(p, r) /\ r.pc = "claim"
    BY <2>1, GotoMoves
  <2>3. Journaled(events, pending, disk, uploads)' /\ Journaled(events, pending, disk, uploads)
    BY <2>1 DEF AttemptInv
  <2>4. Len(events) + Owed("claim", r, events, disk) <= MAX_EVENT_DOCUMENTS
    BY <2>3, OwedTable, BoundAssumption DEF Journaled
  <2>5. Local(r, events', pending', disk', uploads')
    BY <2>1, <2>2, <2>4 DEF Local, RoomFor, BeforeUpload
  <2> QED
    BY <1>1, <2>1, <2>2, <2>3, <2>5, ProcessStep DEF Moves
<1>2. CASE lock # Nobody
  BY <1>2, BeginExecuteStep
<1> QED
  BY <1>1, <1>2

LEMMA ClaimStep == ASSUME AttemptInv, NEW p \in Procs, Claim(p) PROVE AttemptInv'
<1>1. lock = p /\ UNCHANGED <<events, pending, uploads>> /\ Journaled(events, pending, disk, uploads)
  BY DEF Claim, Holds, Journal, Outside, AttemptInv
<1>2. CASE Exit(p) /\ UNCHANGED disk
  BY <1>1, <1>2, ExitStep
<1>3. CASE ContextValid /\ disk' = [disk EXCEPT !.claimed = TRUE] /\ Goto(p, "transfer") /\ UNCHANGED lock
  <2>1. ~disk.claimed /\ events = <<>> /\ pending = NoEvent /\ uploads = 0
    BY <1>1, <1>3 DEF ContextValid, Journaled
  <2>2. DiskShaped(disk') /\ disk'.claimed
    BY <1>1, <1>3 DEF Journaled, DiskShaped, DiskFields
  <2>3. PICK r : Moves(p, r) /\ r.pc = "transfer"
    BY <1>3, GotoMoves
  <2>4. Journaled(events, pending, disk, uploads)'
    BY <1>1, <2>1, <2>2 DEF Journaled
  <2>5. Len(events) = 0
    BY <2>1
  <2>6. Len(events) + Owed("transfer", r, events', disk') <= MAX_EVENT_DOCUMENTS
    BY <2>5, OwedTable, BoundAssumption
  <2>7. Local(r, events', pending', disk', uploads')
    BY <1>1, <2>1, <2>2, <2>3, <2>6 DEF Local, RoomFor
  <2> QED
    BY <1>1, <1>3, <2>3, <2>4, <2>7, ProcessStep DEF Moves
<1> QED
  BY <1>2, <1>3 DEF Claim

\* A step that keeps what the journal and the uploads are.
Unrecorded(p) == lock = p /\ UNCHANGED <<events, pending, uploads>>

LEMMA UnrecordedExit ==
    ASSUME AttemptInv, NEW p \in Procs, Unrecorded(p), Exit(p), disk.claimed, DiskShaped(disk'), disk'.claimed
    PROVE  AttemptInv'
<1>1. Journaled(events, pending, disk, uploads)'
  BY InsideJournaled DEF Unrecorded, AttemptInv, Journaled
<1> QED
  BY <1>1, ExitStep DEF Unrecorded

LEMMA TransferStep == ASSUME AttemptInv, NEW p \in Procs, TransferApp(p) PROVE AttemptInv'
<1>1. /\ Unrecorded(p) /\ disk.claimed /\ pending = NoEvent /\ DiskShaped(disk) /\ uploads = 0
      /\ Len(events) + Owed("transfer", proc[p], events, disk) <= MAX_EVENT_DOCUMENTS
  BY Holding DEF TransferApp, Unrecorded, Journal, Outside, BeforeUpload
<1>2. CASE Exit(p) /\ UNCHANGED disk
  BY <1>1, <1>2, UnrecordedExit
<1>3. CASE disk' = [disk EXCEPT !.staged = FALSE, !.source = "work"] /\ Goto(p, "archive") /\ UNCHANGED lock
  <2>1. DiskShaped(disk') /\ disk'.claimed
    BY <1>1, <1>3 DEF DiskShaped, DiskFields
  <2>2. Inside(p)
    BY <1>1, <1>3, <2>1 DEF Inside, Unrecorded
  <2>3. \A r : Len(events) + Owed("archive", r, events, disk') <= MAX_EVENT_DOCUMENTS
    BY <1>1, OwedTable
  <2> QED
    BY <1>1, <1>3, <2>2, <2>3, GotoStep DEF Unrecorded
<1> QED
  BY <1>2, <1>3 DEF TransferApp

LEMMA ArchiveStep == ASSUME AttemptInv, NEW p \in Procs, BuildArchive(p) PROVE AttemptInv'
<1>1. /\ Unrecorded(p) /\ disk.claimed /\ pending = NoEvent /\ DiskShaped(disk) /\ uploads = 0
      /\ Len(events) \in Nat /\ Len(events) + Owed("archive", proc[p], events, disk) <= MAX_EVENT_DOCUMENTS
  BY Holding DEF BuildArchive, Unrecorded, Journal, Outside, BeforeUpload
<1>2. CASE Exit(p) /\ UNCHANGED disk
  BY <1>1, <1>2, UnrecordedExit
<1>3. CASE disk' = [disk EXCEPT !.intent = TRUE] /\ Record(p, "prepared", NoId, "none", "noticeReady") /\ UNCHANGED lock
  <2>1. DiskShaped(disk') /\ disk'.claimed
    BY <1>1, <1>3 DEF DiskShaped, DiskFields
  <2>2. Inside(p)
    BY <1>1, <1>3, <2>1 DEF Inside, Unrecorded
  <2>3. \A r : Len(events) + 1 + Owed("noticeReady", r, events, disk') <= MAX_EVENT_DOCUMENTS
    BY <1>1, OwedTable
  <2> QED
    BY <1>1, <1>3, <2>2, <2>3, RecordStep DEF Unrecorded, Successors
<1> QED
  BY <1>2, <1>3 DEF BuildArchive

LEMMA NotaryReadyStep == ASSUME AttemptInv, NEW p \in Procs, NotaryReady(p) PROVE AttemptInv'
<1>1. /\ Inside(p) /\ uploads' = 0 /\ Len(events) \in Nat
      /\ Len(events) + Owed("noticeReady", proc[p], events, disk) <= MAX_EVENT_DOCUMENTS
  BY Holding DEF NotaryReady, Inside, Journal, Outside, BeforeUpload
<1>2. \A r : Len(events) + 1 + Owed("submitting", r, events, disk') <= MAX_EVENT_DOCUMENTS
  BY <1>1, OwedTable
<1> QED
  BY <1>1, <1>2, RecordStep DEF NotaryReady, Successors

LEMMA BeginSubmitStep == ASSUME AttemptInv, NEW p \in Procs, BeginSubmit(p) PROVE AttemptInv'
<1>1. /\ Inside(p) /\ uploads' = 0 /\ Len(events) \in Nat
      /\ Len(events) + Owed("submitting", proc[p], events, disk) <= MAX_EVENT_DOCUMENTS
  BY Holding DEF BeginSubmit, Inside, Journal, Outside, BeforeUpload
<1>2. CASE Len(events) + 2 + DIRECT_FINALIZATION_EVENT_RESERVE <= MAX_EVENT_DOCUMENTS /\ Record(p, "submitting", NoId, "none", "submit")
  <2>1. DIRECT_FINALIZATION_EVENT_RESERVE = 12
    BY DEF DIRECT_FINALIZATION_EVENT_RESERVE, FinalizationStates
  <2>2. \A r : Len(events) + 1 + Owed("submit", r, events, disk') <= MAX_EVENT_DOCUMENTS
    BY <1>1, <1>2, <2>1, OwedTable
  <2> QED
    BY <1>1, <1>2, <2>2, RecordStep DEF Successors
<1>3. CASE Raise(p, "failed", "other")
  <2>1. Len(events) + 1 <= MAX_EVENT_DOCUMENTS
    BY <1>1, OwedTable
  <2> QED
    BY <1>1, <1>3, <2>1, RaiseStep DEF TerminalStates
<1> QED
  BY <1>2, <1>3 DEF BeginSubmit

LEMMA SubmitStep == ASSUME AttemptInv, NEW p \in Procs, Submit(p) PROVE AttemptInv'
<1>1. /\ Inside(p) /\ uploads' = 1 /\ Len(events) \in Nat
      /\ Len(events) + Owed("submit", proc[p], events, disk) <= MAX_EVENT_DOCUMENTS
  <2>1. Holds(p, "submit") /\ uploads' = uploads + 1 /\ UNCHANGED <<events, pending, disk, lock>>
    BY DEF Submit, Journal
  <2>2. /\ lock = p /\ disk.claimed /\ pending = NoEvent /\ DiskShaped(disk) /\ uploads = 0
        /\ Len(events) \in Nat /\ Len(events) + Owed("submit", proc[p], events, disk) <= MAX_EVENT_DOCUMENTS
    BY <2>1, Holding DEF BeforeUpload
  <2> QED
    BY <2>1, <2>2 DEF Inside
<1>2. Len(events) + 13 <= MAX_EVENT_DOCUMENTS
  BY <1>1, OwedTable
<1>3. CASE Raise(p, "outcome_unknown", "submit")
  <2>1. Len(events) + 1 <= MAX_EVENT_DOCUMENTS
    BY <1>1, <1>2, BoundAssumption
  <2> QED
    BY <1>1, <1>3, <2>1, RaiseStep DEF TerminalStates
<1>4. ASSUME NEW v, proc' = [proc EXCEPT ![p].pc = "reply", ![p].reply = v, ![p].sub = Orig] PROVE AttemptInv'
  <2> DEFINE r == [proc[p] EXCEPT !.pc = "reply", !.reply = v, !.sub = Orig]
  <2>1. Shaped(proc[p])
    BY DEF AttemptInv
  <2>2. Shaped(r) /\ r.pc = "reply"
    BY <2>1 DEF Shaped, ProcFields
  <2>3. proc' = [proc EXCEPT ![p] = r]
    BY <1>4 DEF AttemptInv
  <2> HIDE DEF r
  <2>4. Local(r, events', pending', disk', uploads')
    BY <1>1, <1>2, <2>2, OwedTable DEF Local, RoomFor, Inside, BeforeUpload, Successors
  <2>5. Journaled(events, pending, disk, uploads)'
    BY <1>1, InsideJournaled DEF Inside
  <2> QED
    BY <1>1, <2>2, <2>3, <2>4, <2>5, ProcessStep DEF Inside
<1> QED
  BY <1>3, <1>4 DEF Submit

LEMMA ObserveStep == ASSUME AttemptInv, NEW p \in Procs, ObserveSubmission(p) PROVE AttemptInv'
<1>1. /\ Holds(p, "reply") /\ UNCHANGED <<events, pending, uploads, lock>>
  BY DEF ObserveSubmission, Journal, Outside
<1>2. /\ lock = p /\ disk.claimed /\ pending = NoEvent /\ DiskShaped(disk) /\ uploads \in {0, 1}
      /\ Len(events) \in Nat /\ Len(events) + Owed("reply", proc[p], events, disk) <= MAX_EVENT_DOCUMENTS
  BY <1>1, Holding
<1>3. disk' = disk \/ disk' = [disk EXCEPT !.observation = proc[p].sub]
  BY DEF ObserveSubmission
<1>4. DiskShaped(disk') /\ disk'.claimed
  BY <1>2, <1>3, DiskKept DEF DiskFields
<1>5. Inside(p) /\ Len(events) + 13 <= MAX_EVENT_DOCUMENTS /\ Len(events) + 1 <= MAX_EVENT_DOCUMENTS
  BY <1>1, <1>2, <1>4, OwedTable, BoundAssumption DEF Inside
<1>6. CASE Goto(p, "receive")
  <2>1. \A r : Len(events) + Owed("receive", r, events, disk') <= MAX_EVENT_DOCUMENTS
    BY <1>5, OwedTable
  <2> QED
    BY <1>5, <1>6, <2>1, GotoStep DEF BeforeUpload
<1>7. CASE \E c : Raise(p, "outcome_unknown", c)
  BY <1>5, <1>7, RaiseStep DEF TerminalStates
<1> QED
  BY <1>6, <1>7 DEF ObserveSubmission

LEMMA ReceiveStep == ASSUME AttemptInv, NEW p \in Procs, ReceiveSubmission(p) PROVE AttemptInv'
<1>1. /\ Holds(p, "receive") /\ UNCHANGED <<events, pending, uploads, lock>>
  BY DEF ReceiveSubmission, Journal, Outside
<1>2. /\ lock = p /\ disk.claimed /\ pending = NoEvent /\ DiskShaped(disk) /\ uploads \in {0, 1}
      /\ Len(events) \in Nat /\ Len(events) + Owed("receive", proc[p], events, disk) <= MAX_EVENT_DOCUMENTS
  BY <1>1, Holding
<1>3. disk' = disk \/ disk' = [disk EXCEPT !.receipt = proc[p].sub, !.acquisition = "submit-no-wait"]
  BY DEF ReceiveSubmission
<1>4. DiskShaped(disk') /\ disk'.claimed
  BY <1>2, <1>3 DEF DiskShaped, DiskFields
<1>5. Inside(p) /\ Len(events) + 13 <= MAX_EVENT_DOCUMENTS /\ Len(events) + 1 <= MAX_EVENT_DOCUMENTS
  BY <1>1, <1>2, <1>4, OwedTable, BoundAssumption DEF Inside
<1>6. CASE Record(p, "submitted", proc[p].sub, "none", "wait")
  <2>1. \A r : Len(events) + 1 + Owed("wait", r, events, disk') <= MAX_EVENT_DOCUMENTS
    BY <1>2, <1>5, OwedTable
  <2> QED
    BY <1>5, <1>6, <2>1, RecordStep DEF BeforeUpload, Successors
<1>7. CASE Raise(p, "outcome_unknown", "submit")
  BY <1>5, <1>7, RaiseStep DEF TerminalStates
<1> QED
  BY <1>6, <1>7 DEF ReceiveSubmission

LEMMA WaitStep == ASSUME AttemptInv, NEW p \in Procs, WaitForApple(p) PROVE AttemptInv'
<1>1. /\ Inside(p) /\ Len(events) \in Nat /\ Len(events) + Owed("wait", proc[p], events, disk) <= MAX_EVENT_DOCUMENTS
  BY Holding DEF WaitForApple, Inside, Journal, Outside
<1>2. Len(events) + 12 <= MAX_EVENT_DOCUMENTS /\ Len(events) + 1 <= MAX_EVENT_DOCUMENTS
  BY <1>1, OwedTable, BoundAssumption
<1>3. CASE Goto(p, "reload")
  <2>1. \A r : Len(events) + Owed("reload", r, events, disk') <= MAX_EVENT_DOCUMENTS
    BY <1>2, OwedTable
  <2> QED
    BY <1>1, <1>3, <2>1, GotoStep DEF BeforeUpload
<1>4. CASE \E st \in TerminalStates : \E c : Raise(p, st, c)
  BY <1>1, <1>2, <1>4, RaiseStep
<1> QED
  BY <1>3, <1>4 DEF WaitForApple, TerminalStates

LEMMA PrepareDirectStep == ASSUME AttemptInv, NEW p \in Procs, PrepareDirect(p) PROVE AttemptInv'
<1>1. /\ Holds(p, "reload") /\ UNCHANGED <<events, pending, disk, uploads>>
  BY DEF PrepareDirect, Journal, Outside
<1>2. /\ lock = p /\ disk.claimed /\ pending = NoEvent /\ DiskShaped(disk) /\ uploads \in {0, 1}
      /\ Len(events) \in Nat /\ Len(events) + Owed("reload", proc[p], events, disk) <= MAX_EVENT_DOCUMENTS
  BY <1>1, Holding
<1>3. Len(events) + 12 <= MAX_EVENT_DOCUMENTS /\ Len(events) + 1 <= MAX_EVENT_DOCUMENTS
  BY <1>2, OwedTable, BoundAssumption
<1>4. CASE Record(p, "direct_finalization_preparing", proc[p].sub, "none", "preserve") /\ UNCHANGED lock
  <2>1. \A r : Len(events) + 1 + Owed("preserve", r, events, disk') <= MAX_EVENT_DOCUMENTS
    BY <1>2, <1>3, OwedTable
  <2>2. Inside(p)
    BY <1>1, <1>2, <1>4 DEF Inside
  <2> QED
    BY <1>4, <2>1, <2>2, RecordStep DEF BeforeUpload, Successors
<1>5. CASE Raise(p, "failed", "other") /\ UNCHANGED lock
  BY <1>1, <1>2, <1>3, <1>5, RaiseStep DEF Inside, TerminalStates
<1>6. CASE Exit(p)
  BY <1>1, <1>2, <1>6, UnrecordedExit DEF Unrecorded
<1> QED
  BY <1>4, <1>5, <1>6 DEF PrepareDirect

LEMMA PreserveStep == ASSUME AttemptInv, NEW p \in Procs, PreserveSource(p) PROVE AttemptInv'
<1>1. /\ Holds(p, "preserve") /\ UNCHANGED <<events, pending, uploads, lock>>
  BY DEF PreserveSource, Journal, Outside
<1>2. /\ lock = p /\ disk.claimed /\ pending = NoEvent /\ DiskShaped(disk) /\ uploads \in {0, 1}
      /\ Len(events) \in Nat /\ Len(events) + Owed("preserve", proc[p], events, disk) <= MAX_EVENT_DOCUMENTS
  BY <1>1, Holding
<1>3. disk' = disk \/ disk' = [disk EXCEPT !.source = "recovery-source"]
  BY DEF PreserveSource, Preserved, HalfPreserved
<1>4. DiskShaped(disk') /\ disk'.claimed
  BY <1>2, <1>3, DiskKept DEF DiskFields
<1>5. Inside(p) /\ Len(events) + 11 <= MAX_EVENT_DOCUMENTS /\ Len(events) + 1 <= MAX_EVENT_DOCUMENTS
  BY <1>1, <1>2, <1>4, OwedTable, BoundAssumption DEF Inside
<1>6. CASE Goto(p, "ready")
  <2>1. \A r : Len(events) + Owed("ready", r, events, disk') <= MAX_EVENT_DOCUMENTS
    BY <1>5, OwedTable
  <2> QED
    BY <1>5, <1>6, <2>1, GotoStep DEF BeforeUpload
<1>7. CASE Raise(p, "outcome_unknown", "source")
  BY <1>5, <1>7, RaiseStep DEF TerminalStates
<1> QED
  BY <1>6, <1>7 DEF PreserveSource, Preserved

LEMMA DirectBoundaryStep == ASSUME AttemptInv, NEW p \in Procs, DirectBoundary(p) PROVE AttemptInv'
<1>1. /\ Inside(p) /\ Len(events) \in Nat /\ Len(events) + Owed("ready", proc[p], events, disk) <= MAX_EVENT_DOCUMENTS
  BY Holding DEF DirectBoundary, Inside, Journal, Outside
<1>2. \A r : Len(events) + 1 + Owed("start", r, events, disk') <= MAX_EVENT_DOCUMENTS
  BY <1>1, OwedTable
<1> QED
  BY <1>1, <1>2, RecordStep DEF DirectBoundary, BeforeUpload, Successors

-----------------------------------------------------------------------------
(* A finalization keeps it.                                                 *)

LEMMA StartStep == ASSUME AttemptInv, NEW p \in Procs, StartFinalization(p) PROVE AttemptInv'
<1>1. /\ Inside(p) /\ Len(events) \in Nat /\ Len(events) + Owed("start", proc[p], events, disk) <= MAX_EVENT_DOCUMENTS
  BY Holding DEF StartFinalization, Inside, Journal, Outside
<1>2. \A r : Len(events) + 1 + Owed("allocate", r, events, disk') <= MAX_EVENT_DOCUMENTS
  BY <1>1, OwedTable
<1> QED
  BY <1>1, <1>2, RecordStep DEF StartFinalization, BeforeUpload, Successors

LEMMA AllocateStep == ASSUME AttemptInv, NEW p \in Procs, AllocateRun(p) PROVE AttemptInv'
<1>1. /\ Holds(p, "allocate") /\ UNCHANGED <<events, pending, uploads, lock>>
      /\ disk' = disk \/ disk' = [disk EXCEPT !.source = "recovery-source"]
  BY DEF AllocateRun, ByteQuotaExceeded, Journal, Outside, HalfPreserved, Preserved
<1>2. /\ lock = p /\ disk.claimed /\ pending = NoEvent /\ DiskShaped(disk) /\ uploads \in {0, 1}
      /\ Len(events) \in Nat /\ Len(events) + Owed("allocate", proc[p], events, disk) <= MAX_EVENT_DOCUMENTS
      /\ events[Len(events)].st = "finalization_started"
  BY <1>1, Holding
<1>3. DiskShaped(disk') /\ disk'.claimed
  BY <1>1, <1>2, DiskKept DEF DiskFields
<1>4. Inside(p) /\ Len(events) + 9 <= MAX_EVENT_DOCUMENTS /\ Len(events) + 1 <= MAX_EVENT_DOCUMENTS
  BY <1>1, <1>2, <1>3, OwedTable, BoundAssumption DEF Inside
<1>5. CASE Raise(p, "failed", "other")
  BY <1>4, <1>5, RaiseStep DEF TerminalStates
<1>6. ASSUME NEW v, proc' = [proc EXCEPT ![p].pc = "copy", ![p].run = v] PROVE AttemptInv'
  <2> DEFINE r == [proc[p] EXCEPT !.pc = "copy", !.run = v]
  <2>1. Shaped(proc[p])
    BY DEF AttemptInv
  <2>2. Shaped(r) /\ r.pc = "copy"
    BY <2>1 DEF Shaped, ProcFields
  <2>3. proc' = [proc EXCEPT ![p] = r]
    BY <1>6 DEF AttemptInv
  <2> HIDE DEF r
  <2>4. Local(r, events', pending', disk', uploads')
    BY <1>2, <1>4, <2>2, OwedTable DEF Local, RoomFor, Inside, BeforeUpload
  <2>5. Journaled(events, pending, disk, uploads)'
    BY <1>4, InsideJournaled DEF Inside
  <2> QED
    BY <1>4, <2>2, <2>3, <2>4, <2>5, ProcessStep DEF Inside
<1> QED
  BY <1>5, <1>6 DEF AllocateRun, ByteQuotaExceeded

LEMMA CopyStep == ASSUME AttemptInv, NEW p \in Procs, CopySource(p) PROVE AttemptInv'
<1>1. Holds(p, "copy") /\ UNCHANGED <<events, pending, disk, uploads>>
  BY DEF CopySource, Journal, Outside
<1>2. /\ lock = p /\ disk.claimed /\ pending = NoEvent /\ DiskShaped(disk) /\ uploads \in {0, 1}
      /\ Len(events) \in Nat /\ Len(events) + Owed("copy", proc[p], events, disk) <= MAX_EVENT_DOCUMENTS
      /\ events[Len(events)].st = "finalization_started"
  BY <1>1, Holding
<1>3. Len(events) + 9 <= MAX_EVENT_DOCUMENTS /\ Len(events) + 1 <= MAX_EVENT_DOCUMENTS
  BY <1>2, OwedTable, BoundAssumption
<1>4. UNCHANGED lock => Inside(p)
  BY <1>1, <1>2 DEF Inside
<1>5. CASE Goto(p, "stage") /\ UNCHANGED lock
  <2>1. \A r : Len(events) + Owed("stage", r, events, disk') <= MAX_EVENT_DOCUMENTS
    BY <1>2, <1>3, OwedTable, OwedAfterTable
  <2> QED
    BY <1>2, <1>4, <1>5, <2>1, GotoStep DEF BeforeUpload, StageStates
<1>6. CASE Record(p, "failed", proc[p].sub, "other", "exit") /\ UNCHANGED lock
  <2>1. \A r : Len(events) + 1 + Owed("exit", r, events, disk') <= MAX_EVENT_DOCUMENTS
    BY <1>2, <1>3, OwedTable
  <2> QED
    BY <1>4, <1>6, <2>1, RecordStep DEF BeforeUpload, Successors
<1>7. CASE Raise(p, "failed", "other") /\ UNCHANGED lock
  BY <1>3, <1>4, <1>7, RaiseStep DEF TerminalStates
<1>8. CASE Exit(p)
  BY <1>1, <1>2, <1>8, UnrecordedExit DEF Unrecorded
<1> QED
  BY <1>5, <1>6, <1>7, <1>8 DEF CopySource, CleanupRaises

(* The stage that a finalization is at says how much it still owes.         *)
LEMMA StageOwes ==
    ASSUME events[Len(events)].st \in StageStates
    PROVE  /\ NextStage \in 1..7 /\ OwedAfter(events[Len(events)].st) = 10 - NextStage
           /\ \A k \in 1..6 : FinalizationStates[k] \in StageStates /\ OwedAfter(FinalizationStates[k]) = 9 - k
<1> DEFINE last == events[Len(events)].st
           F == FinalizationStates
<1>1. /\ DOMAIN F = 1..8 /\ F[1] = "accepted" /\ F[2] = "log_verified" /\ F[3] = "stapling" /\ F[4] = "stapled"
      /\ F[5] = "gatekeeper_verified" /\ F[6] = "app_verified" /\ F[7] = "distribution_verified" /\ F[8] = "sealed"
  BY DEF FinalizationStates
<1> HIDE DEF F
<1>2. \A i, j \in 1..8 : F[i] = F[j] => i = j
  BY <1>1
<1>3. \A k \in 1..6 : F[k] \in StageStates /\ OwedAfter(F[k]) = 9 - k
  BY <1>1, OwedAfterTable DEF StageStates
<1>4. CASE last = "finalization_started"
  <2>1. NextStage = 1
    BY <1>4 DEF NextStage
  <2> QED
    BY <1>3, <1>4, <2>1, OwedAfterTable DEF F
<1>5. CASE last # "finalization_started"
  <2>1. PICK k \in 1..6 : F[k] = last
    BY <1>1, <1>5 DEF StageStates
  <2>2. (CHOOSE i \in DOMAIN F : F[i] = last) = k
    BY <1>1, <1>2, <2>1
  <2>3. NextStage = 1 + k
    BY <1>5, <2>2 DEF NextStage, F
  <2> QED
    BY <1>3, <2>1, <2>3 DEF F
<1> QED
  BY <1>4, <1>5

LEMMA StageStep ==
    ASSUME AttemptInv, NEW p \in Procs, NEW k \in 1..7, NEW next, next = (IF k = 7 THEN "receipt" ELSE "stage"), Stage(p, k, next)
    PROVE  AttemptInv'
<1>1. /\ Inside(p) /\ Len(events) \in Nat /\ Len(events) + Owed("stage", proc[p], events, disk) <= MAX_EVENT_DOCUMENTS
      /\ events[Len(events)].st \in StageStates
  BY Holding DEF Stage, Inside, Journal, Outside
<1>2. Len(events) + (10 - k) <= MAX_EVENT_DOCUMENTS
  BY <1>1, OwedTable, StageOwes DEF Stage
<1>3. Len(events) + 1 <= MAX_EVENT_DOCUMENTS
  BY <1>1, <1>2, BoundAssumption
<1>4. CASE Record(p, FinalizationStates[k], proc[p].sub, "none", next)
  <2>1. CASE k = 7
    <3>1. \A r : Len(events) + 1 + Owed("receipt", r, events, disk') <= MAX_EVENT_DOCUMENTS
      BY <1>1, <1>2, <2>1, OwedTable
    <3> QED
      BY <1>1, <1>4, <2>1, <3>1, RecordStep DEF BeforeUpload, Successors
  <2>2. CASE k # 7
    <3>1. FinalizationStates[k] \in StageStates /\ OwedAfter(FinalizationStates[k]) = 9 - k
      BY <1>1, <2>2, StageOwes
    <3>2. Len(events) + 1 + OwedAfter(FinalizationStates[k]) <= MAX_EVENT_DOCUMENTS
      BY <1>1, <1>2, <3>1
    <3> QED
      BY <1>1, <1>4, <2>2, <3>1, <3>2, RecordStep DEF BeforeUpload, Successors
  <2> QED
    BY <2>1, <2>2
<1>5. CASE Raise(p, "failed", "other")
  BY <1>1, <1>3, <1>5, RaiseStep DEF TerminalStates
<1> QED
  BY <1>4, <1>5 DEF Stage

LEMMA StagesStep ==
    ASSUME AttemptInv, NEW p \in Procs, VerifyLog(p) \/ StapleTicket(p) \/ AssessApp(p) \/ PrepareDistribution(p)
    PROVE  AttemptInv'
<1>1. CASE \E k \in 1..6 : Stage(p, k, "stage")
  BY <1>1, StageStep
<1>2. CASE Stage(p, 7, "receipt")
  BY <1>2, StageStep
<1>3. CASE Holds(p, "stage") /\ Raise(p, "failed", "other") /\ UNCHANGED <<Journal, disk, final, Outside, lock, faults>>
  <2>1. /\ Inside(p) /\ Len(events) \in Nat /\ Len(events) + Owed("stage", proc[p], events, disk) <= MAX_EVENT_DOCUMENTS
        /\ events[Len(events)].st \in StageStates
    BY <1>3, Holding DEF Inside, Journal, Outside
  <2>2. Len(events) + 1 <= MAX_EVENT_DOCUMENTS
    BY <2>1, OwedTable, StageOwes, BoundAssumption
  <2> QED
    BY <1>3, <2>1, <2>2, RaiseStep DEF TerminalStates
<1> QED
  BY <1>1, <1>2, <1>3 DEF VerifyLog, StapleTicket, AssessApp, PrepareDistribution

LEMMA SealStep == ASSUME AttemptInv, NEW p \in Procs, SealReceipt(p) PROVE AttemptInv'
<1>1. /\ Inside(p) /\ Len(events) \in Nat /\ Len(events) + Owed("receipt", proc[p], events, disk) <= MAX_EVENT_DOCUMENTS
  BY Holding DEF SealReceipt, Inside, Journal, Outside
<1>2. Len(events) + 2 <= MAX_EVENT_DOCUMENTS /\ Len(events) + 1 <= MAX_EVENT_DOCUMENTS
  BY <1>1, OwedTable, BoundAssumption
<1>3. CASE Record(p, "sealed", proc[p].sub, "none", "publish")
  <2>1. \A r : Len(events) + 1 + Owed("publish", r, events, disk') <= MAX_EVENT_DOCUMENTS
    BY <1>1, <1>2, OwedTable
  <2> QED
    BY <1>1, <1>3, <2>1, RecordStep DEF BeforeUpload, Successors
<1>4. CASE \E st \in TerminalStates : Raise(p, st, "other")
  BY <1>1, <1>2, <1>4, RaiseStep
<1> QED
  BY <1>3, <1>4 DEF SealReceipt, TerminalStates

LEMMA PublishStep == ASSUME AttemptInv, NEW p \in Procs, PublishSealed(p) PROVE AttemptInv'
<1>1. Holds(p, "publish") /\ UNCHANGED <<events, pending, disk, uploads>>
  BY DEF PublishSealed, Journal, Outside
<1>2. /\ lock = p /\ disk.claimed /\ pending = NoEvent /\ DiskShaped(disk) /\ uploads \in {0, 1}
      /\ Len(events) \in Nat /\ Len(events) + Owed("publish", proc[p], events, disk) <= MAX_EVENT_DOCUMENTS
  BY <1>1, Holding
<1>3. Len(events) + 1 <= MAX_EVENT_DOCUMENTS
  BY <1>2, OwedTable
<1>4. CASE Exit(p)
  BY <1>1, <1>2, <1>4, UnrecordedExit DEF Unrecorded
<1>5. CASE \E st \in TerminalStates : \E c : Raise(p, st, c) /\ UNCHANGED lock
  BY <1>1, <1>2, <1>3, <1>5, RaiseStep DEF Inside
<1> QED
  BY <1>4, <1>5 DEF PublishSealed, TerminalStates

LEMMA LeaveStep == ASSUME AttemptInv, NEW p \in Procs, CleanupFailedRun(p) \/ Leave(p) PROVE AttemptInv'
<1>1. PICK l \in {"cleanup", "exit"} : Holds(p, l) /\ (Exit(p) \/ (l = "cleanup" /\ CleanupRaises(p)))
  BY DEF CleanupFailedRun, Leave
<1>2. UNCHANGED <<events, pending, disk, uploads>>
  BY DEF CleanupFailedRun, Leave, Journal, Outside
<1>3. lock = p /\ disk.claimed /\ DiskShaped(disk) /\ pending = NoEvent /\ uploads \in {0, 1} /\ IsSeq(events)
  BY <1>1, Holding
<1>4. CASE Exit(p)
  BY <1>2, <1>3, <1>4, UnrecordedExit DEF Unrecorded
<1>5. CASE l = "cleanup" /\ proc[p].tool = NoTool /\ Record(p, "failed", proc[p].sub, "other", "exit") /\ UNCHANGED lock
  <2>1. PICK r : Moves(p, r) /\ r.pc = "append" /\ r.next = "exit" /\ r.buf.st = "failed"
    BY <1>5, RecordMoves
  <2>2. Len(events) > 0 /\ events[Len(events)].st \in TerminalStates
    BY <1>1, <1>5, Holding
  <2>3. ClosedTwice(Append(events, r.buf))
    BY <1>3, <2>1, <2>2, ClosingTwice DEF TerminalStates
  <2>4. Unreserved(r, events')
    BY <1>2, <1>5, <2>1, <2>3 DEF Unreserved, Moves
  <2>5. RoomFor(r, events', disk')
    BY <2>1, <2>4 DEF RoomFor, Successors
  <2>6. Local(r, events', pending', disk', uploads')
    BY <1>2, <1>3, <2>1, <2>5 DEF Local, BeforeUpload
  <2>7. Journaled(events, pending, disk, uploads)'
    BY <1>2 DEF AttemptInv
  <2> QED
    BY <1>3, <1>5, <2>1, <2>6, <2>7, ProcessStep DEF Moves
<1> QED
  BY <1>1, <1>4, <1>5 DEF CleanupRaises

-----------------------------------------------------------------------------
(* recover_transaction keeps it.                                            *)

LEMMA BeginRecoverStep == ASSUME AttemptInv, NEW p \in Procs, BeginRecover(p) PROVE AttemptInv'
<1>1. lock = Nobody /\ lock' = p /\ disk.intent /\ UNCHANGED <<events, pending, disk, uploads>>
  BY DEF BeginRecover, Journal, Outside
<1>2. PICK s, t, a : proc' = [proc EXCEPT ![p].pc = "load", ![p].sub = s, ![p].tool = t, ![p].adopt = a]
  BY DEF BeginRecover
<1> DEFINE r == [proc[p] EXCEPT !.pc = "load", !.sub = s, !.tool = t, !.adopt = a]
<1>3. Shaped(proc[p])
  BY DEF AttemptInv
<1>4. Shaped(r) /\ r.pc = "load"
  BY <1>3 DEF Shaped, ProcFields
<1>5. proc' = [proc EXCEPT ![p] = r]
  BY <1>2 DEF AttemptInv
<1> HIDE DEF r
<1>6. Journaled(events, pending, disk, uploads) /\ Journaled(events, pending, disk, uploads)'
  BY <1>1 DEF AttemptInv
<1>7. disk.claimed /\ Len(events) + Owed("load", r, events, disk) <= MAX_EVENT_DOCUMENTS
  BY <1>1, <1>6, OwedTable, BoundAssumption DEF Journaled
<1>8. Local(r, events', pending', disk', uploads')
  BY <1>1, <1>4, <1>7 DEF Local, RoomFor, BeforeUpload
<1> QED
  BY <1>1, <1>4, <1>5, <1>6, <1>8, ProcessStep

LEMMA LoadStep == ASSUME AttemptInv, NEW p \in Procs, LoadAttempt(p) PROVE AttemptInv'
<1>1. lock = p /\ proc[p].pc = "load" /\ pending' = NoEvent /\ events' = LoadedJournal /\ UNCHANGED <<disk, uploads>>
  BY DEF LoadAttempt, Holds, Outside
<1>2. disk.claimed /\ Journaled(events, pending, disk, uploads)
  BY <1>1 DEF AttemptInv, Local
<1>3. IsSeq(events') /\ Len(events') \in 0..MAX_EVENT_DOCUMENTS
  <2>1. CASE pending \in {NoEvent, PartialEvent}
    BY <1>1, <1>2, <2>1 DEF LoadedJournal, PendingWhole, Journaled
  <2>2. CASE pending \notin {NoEvent, PartialEvent}
    <3>1. events' = Append(events, pending) /\ Len(events) < MAX_EVENT_DOCUMENTS /\ IsSeq(events)
      BY <1>1, <1>2, <2>2 DEF LoadedJournal, PendingWhole, Journaled
    <3>2. IsSeq(events') /\ Len(events) \in Nat /\ Len(events') = Len(events) + 1
      BY <3>1, Appended
    <3> QED
      BY <3>1, <3>2, BoundAssumption
  <2> QED
    BY <2>1, <2>2
<1>4. Journaled(events, pending, disk, uploads)'
  BY <1>1, <1>2, <1>3 DEF Journaled
<1>5. CASE Exit(p)
  BY <1>1, <1>4, <1>5, ExitStep
<1>6. CASE Goto(p, "adopt") /\ UNCHANGED lock
  <2>1. PICK r : Moves(p, r) /\ r.pc = "adopt"
    BY <1>6, GotoMoves
  <2>2. Len(events') + Owed("adopt", r, events', disk') <= MAX_EVENT_DOCUMENTS
    BY <1>3, OwedTable, BoundAssumption
  <2>3. Local(r, events', pending', disk', uploads')
    BY <1>1, <1>2, <2>1, <2>2 DEF Local, RoomFor, BeforeUpload
  <2> QED
    BY <1>1, <1>4, <1>6, <2>1, <2>3, ProcessStep DEF Moves
<1> QED
  BY <1>5, <1>6 DEF LoadAttempt

(* A label that owes nothing can always be reached.                         *)
LEMMA FreeGoto ==
    ASSUME AttemptInv, NEW p \in Procs, NEW l \in {"boundary", "verify", "anchor", "exit"}, Goto(p, l), Inside(p)
    PROVE  AttemptInv'
<1>1. \A r : Len(events) + Owed(l, r, events, disk') <= MAX_EVENT_DOCUMENTS
  <2>1. \A r : Owed(l, r, events, disk') = 0
    BY OwedTable
  <2> QED
    BY <2>1, BoundAssumption DEF AttemptInv, Journaled
<1> QED
  BY <1>1, GotoStep DEF BeforeUpload

LEMMA AdoptStep == ASSUME AttemptInv, NEW p \in Procs, AdoptUpload(p) PROVE AttemptInv'
<1>1. Holds(p, "adopt") /\ UNCHANGED <<events, pending, uploads>>
  BY DEF AdoptUpload, Journal, Outside
<1>2. lock = p /\ disk.claimed /\ pending = NoEvent /\ DiskShaped(disk) /\ uploads \in {0, 1}
  BY <1>1, Holding
<1>3. disk' = disk \/ disk' = [disk EXCEPT !.observation = Retry]
  BY DEF AdoptUpload
<1>4. DiskShaped(disk') /\ disk'.claimed
  BY <1>2, <1>3, DiskKept DEF DiskFields
<1>5. CASE Exit(p)
  BY <1>1, <1>2, <1>4, <1>5, UnrecordedExit DEF Unrecorded
<1>6. CASE Goto(p, "boundary") /\ UNCHANGED lock
  BY <1>1, <1>2, <1>4, <1>6, FreeGoto DEF Inside
<1> QED
  BY <1>5, <1>6 DEF AdoptUpload

LEMMA BoundaryStep == ASSUME AttemptInv, NEW p \in Procs, CompleteBoundary(p) PROVE AttemptInv'
<1>1. Holds(p, "boundary") /\ UNCHANGED <<events, pending, uploads>>
  BY DEF CompleteBoundary, Journal, Outside
<1>2. lock = p /\ disk.claimed /\ pending = NoEvent /\ DiskShaped(disk) /\ uploads \in {0, 1} /\ Len(events) \in Nat
  BY <1>1, Holding
<1>3. CASE Exit(p) /\ disk' \in {disk, [disk EXCEPT !.source = "recovery-source"]}
  <2>1. DiskShaped(disk') /\ disk'.claimed
    BY <1>2, <1>3, DiskKept DEF DiskFields
  <2> QED
    BY <1>1, <1>2, <1>3, <2>1, UnrecordedExit DEF Unrecorded
<1>4. CASE Goto(p, "verify") /\ UNCHANGED <<disk, lock>>
  BY <1>1, <1>2, <1>4, FreeGoto DEF Inside
<1>5. CASE /\ disk' = [disk EXCEPT !.source = "recovery-source"] /\ UNCHANGED lock
           /\ ~(Len(events) + DIRECT_BOUNDARY_RECOVERY_EVENT_RESERVE > MAX_EVENT_DOCUMENTS)
           /\ Record(p, "direct_finalization_ready", proc[p].sub, "none", IF final > 0 THEN "exit" ELSE "verify")
  <2> DEFINE next == IF final > 0 THEN "exit" ELSE "verify"
  <2>1. next \in {"exit", "verify"} /\ Record(p, "direct_finalization_ready", proc[p].sub, "none", next)
    BY <1>5
  <2> HIDE DEF next
  <2>2. DiskShaped(disk') /\ disk'.claimed
    BY <1>2, <1>5, DiskKept DEF DiskFields
  <2>3. Inside(p)
    BY <1>1, <1>2, <1>5, <2>2 DEF Inside
  <2>4. Len(events) + 1 <= MAX_EVENT_DOCUMENTS
    BY <1>2, <1>5, BoundAssumption DEF DIRECT_BOUNDARY_RECOVERY_EVENT_RESERVE, RECOVERY_SUCCESS_EVENT_RESERVE
  <2>5. \A r : Owed(next, r, events, disk') = 0
    BY <2>1, OwedTable
  <2>6. \A r : Len(events) + 1 + Owed(next, r, events, disk') <= MAX_EVENT_DOCUMENTS
    BY <1>2, <2>4, <2>5
  <2>7. next \in Successors /\ next \notin BeforeUpload /\ next \notin {"stage", "allocate"}
    BY <2>1 DEF BeforeUpload, Successors
  <2> QED
    BY <2>1, <2>3, <2>6, <2>7, RecordStep
<1> QED
  BY <1>3, <1>4, <1>5 DEF CompleteBoundary, Preserved, HalfPreserved

LEMMA BindStep == ASSUME AttemptInv, NEW p \in Procs, VerifyAndBind(p) PROVE AttemptInv'
<1>1. Holds(p, "verify") /\ UNCHANGED <<events, pending, uploads>>
  BY DEF VerifyAndBind, Journal, Outside
<1>2. lock = p /\ disk.claimed /\ pending = NoEvent /\ DiskShaped(disk) /\ uploads \in {0, 1}
  BY <1>1, Holding
<1>3. disk' = disk \/ disk' = [disk EXCEPT !.rintent = proc[p].sub, !.rtool = proc[p].tool]
  BY DEF VerifyAndBind
<1>4. DiskShaped(disk') /\ disk'.claimed
  BY <1>2, <1>3 DEF DiskShaped, DiskFields
<1>5. CASE Exit(p)
  BY <1>1, <1>2, <1>4, <1>5, UnrecordedExit DEF Unrecorded
<1>6. CASE Goto(p, "anchor") /\ UNCHANGED lock
  BY <1>1, <1>2, <1>4, <1>6, FreeGoto DEF Inside
<1> QED
  BY <1>5, <1>6 DEF VerifyAndBind

LEMMA AnchorStep == ASSUME AttemptInv, NEW p \in Procs, AnchorIntent(p) PROVE AttemptInv'
<1>1. Holds(p, "anchor") /\ UNCHANGED <<events, pending, disk, uploads>>
  BY DEF AnchorIntent, Journal, Outside
<1>2. lock = p /\ disk.claimed /\ pending = NoEvent /\ DiskShaped(disk) /\ uploads \in {0, 1} /\ Len(events) \in Nat
  BY <1>1, Holding
<1>3. CASE Exit(p)
  BY <1>1, <1>2, <1>3, UnrecordedExit DEF Unrecorded
<1>4. CASE /\ Len(events) + RequiredEvents(p) <= MAX_EVENT_DOCUMENTS /\ UNCHANGED lock
           /\ IF AnchorMissing THEN Record(p, "recovery_intent_anchored", proc[p].sub, "none", "continue")
              ELSE Goto(p, "continue")
  <2>1. Inside(p)
    BY <1>1, <1>2, <1>4 DEF Inside
  <2>2. \A r : r.tool = proc[p].tool =>
           Owed("continue", r, events, disk') = ToRecover(events) + One(ContinuationRequired(p))
    BY <1>1, OwedTable DEF Continues, ContinuationRequired
  <2>3. RequiredEvents(p) = ToRecover(events) + One(AnchorMissing) + One(ContinuationRequired(p))
    BY DEF RequiredEvents, ToRecover, RECOVERY_SUCCESS_EVENT_RESERVE
  <2>4. ToRecover(events) \in {10, 12} /\ One(ContinuationRequired(p)) \in {0, 1}
    BY DEF ToRecover, One
  <2>5. CASE AnchorMissing
    <3>1. One(AnchorMissing) = 1
      BY <2>5 DEF One
    <3>2. Len(events) + 1 + (ToRecover(events) + One(ContinuationRequired(p))) <= MAX_EVENT_DOCUMENTS
      BY <1>2, <1>4, <2>3, <2>4, <3>1
    <3> QED
      BY <1>4, <2>1, <2>2, <2>5, <3>2, RecordStep DEF BeforeUpload, Successors
  <2>6. CASE ~AnchorMissing
    <3>1. One(AnchorMissing) = 0
      BY <2>6 DEF One
    <3>2. Len(events) + (ToRecover(events) + One(ContinuationRequired(p))) <= MAX_EVENT_DOCUMENTS
      BY <1>2, <1>4, <2>3, <2>4, <3>1
    <3> QED
      BY <1>4, <2>1, <2>2, <2>6, <3>2, GotoStep DEF BeforeUpload
  <2> QED
    BY <2>5, <2>6
<1> QED
  BY <1>3, <1>4 DEF AnchorIntent

LEMMA ContinueStep == ASSUME AttemptInv, NEW p \in Procs, ContinueTool(p) PROVE AttemptInv'
<1>1. Holds(p, "continue") /\ UNCHANGED <<events, pending, disk, uploads>>
  BY DEF ContinueTool, Journal, Outside
<1>2. /\ lock = p /\ disk.claimed /\ pending = NoEvent /\ DiskShaped(disk) /\ uploads \in {0, 1} /\ Len(events) \in Nat
      /\ Len(events) + Owed("continue", proc[p], events, disk) <= MAX_EVENT_DOCUMENTS
  BY <1>1, Holding
<1>3. /\ ToRecover(events) \in {10, 12} /\ One(Continues(proc[p], events, disk)) \in {0, 1}
      /\ Len(events) + (ToRecover(events) + One(Continues(proc[p], events, disk))) <= MAX_EVENT_DOCUMENTS
  BY <1>2, OwedTable DEF ToRecover, One
<1>4. Len(events) + ToRecover(events) <= MAX_EVENT_DOCUMENTS
  BY <1>2, <1>3, BoundAssumption
<1>5. CASE Exit(p)
  BY <1>1, <1>2, <1>5, UnrecordedExit DEF Unrecorded
<1>6. CASE UNCHANGED lock /\ \E l \in {"reconcile", "continuation"} : Goto(p, l)
  <2>1. Inside(p)
    BY <1>1, <1>2, <1>6 DEF Inside
  <2>2. \A r : \A l \in {"reconcile", "continuation"} : Len(events) + Owed(l, r, events, disk') <= MAX_EVENT_DOCUMENTS
    BY <1>4, OwedTable
  <2>3. PICK l \in {"reconcile", "continuation"} : Goto(p, l)
    BY <1>6
  <2>4. \A r : Len(events) + Owed(l, r, events, disk') <= MAX_EVENT_DOCUMENTS
    BY <2>2
  <2> QED
    BY <2>1, <2>3, <2>4, GotoStep DEF BeforeUpload
<1>7. CASE UNCHANGED lock /\ Goto(p, "exit")
  BY <1>1, <1>2, <1>7, FreeGoto DEF Inside
<1>8. CASE /\ UNCHANGED lock /\ ContinuationAllowed(p) /\ disk.rtool # proc[p].tool /\ disk.cont # proc[p].tool
           /\ ~(disk.cont = NoTool /\ Markers(events) # {})
           /\ Record(p, "recovery_tool_continued", proc[p].sub, proc[p].tool, "continuation")
  <2>1. One(Continues(proc[p], events, disk)) = 1
    BY <1>8 DEF ContinuationAllowed, Continues, One
  <2>2. \A r : Len(events) + 1 + Owed("continuation", r, events, disk') <= MAX_EVENT_DOCUMENTS
    BY <1>2, <1>3, <2>1, OwedTable
  <2>3. Inside(p)
    BY <1>1, <1>2, <1>8 DEF Inside
  <2> QED
    BY <1>8, <2>2, <2>3, RecordStep DEF BeforeUpload, Successors
<1> QED
  BY <1>5, <1>6, <1>7, <1>8 DEF ContinueTool

LEMMA WriteContinuationStep == ASSUME AttemptInv, NEW p \in Procs, WriteContinuation(p) PROVE AttemptInv'
<1>1. /\ Holds(p, "continuation") /\ UNCHANGED <<events, pending, uploads, lock>> /\ Goto(p, "reconcile")
      /\ disk' = [disk EXCEPT !.cont = proc[p].tool, !.contPending = FALSE]
  BY DEF WriteContinuation, Journal, Outside
<1>2. /\ lock = p /\ disk.claimed /\ pending = NoEvent /\ DiskShaped(disk) /\ uploads \in {0, 1}
      /\ Len(events) + Owed("continuation", proc[p], events, disk) <= MAX_EVENT_DOCUMENTS
  BY <1>1, Holding
<1>3. DiskShaped(disk') /\ disk'.claimed
  BY <1>1, <1>2 DEF DiskShaped, DiskFields
<1>4. \A r : Len(events) + Owed("reconcile", r, events, disk') <= MAX_EVENT_DOCUMENTS
  BY <1>2, OwedTable
<1>5. Inside(p)
  BY <1>1, <1>2, <1>3 DEF Inside
<1> QED
  BY <1>1, <1>4, <1>5, GotoStep DEF BeforeUpload

LEMMA ReconcileStep == ASSUME AttemptInv, NEW p \in Procs, BeginReconciliation(p) PROVE AttemptInv'
<1>1. /\ Inside(p) /\ Len(events) \in Nat /\ Len(events) + Owed("reconcile", proc[p], events, disk) <= MAX_EVENT_DOCUMENTS
  BY Holding DEF BeginReconciliation, Inside, Journal, Outside
<1>2. Len(events) + (IF Reconciled(events) THEN 10 ELSE 12) <= MAX_EVENT_DOCUMENTS
  BY <1>1, OwedTable DEF ToRecover
<1>3. CASE Reconciled(events)
  <2>1. \A r : Len(events) + Owed("evidence", r, events, disk') <= MAX_EVENT_DOCUMENTS
    BY <1>2, <1>3, OwedTable
  <2> QED
    BY <1>1, <1>3, <2>1, GotoStep DEF BeginReconciliation, BeforeUpload
<1>4. CASE ~Reconciled(events)
  <2>1. \A r : Len(events) + 1 + Owed("evidence", r, events, disk') <= MAX_EVENT_DOCUMENTS
    BY <1>1, <1>2, <1>4, OwedTable
  <2> QED
    BY <1>1, <1>4, <2>1, RecordStep DEF BeginReconciliation, BeforeUpload, Successors
<1> QED
  BY <1>3, <1>4

LEMMA EvidenceStep == ASSUME AttemptInv, NEW p \in Procs, ReadEvidence(p) PROVE AttemptInv'
<1>1. /\ Holds(p, "evidence") /\ UNCHANGED <<events, pending, uploads, lock>>
  BY DEF ReadEvidence, Journal, Outside
<1>2. /\ lock = p /\ disk.claimed /\ pending = NoEvent /\ DiskShaped(disk) /\ uploads \in {0, 1}
      /\ Len(events) \in Nat /\ Len(events) + Owed("evidence", proc[p], events, disk) <= MAX_EVENT_DOCUMENTS
  BY <1>1, Holding
<1>3. disk' = disk \/ disk' = [disk EXCEPT !.receipt = proc[p].sub, !.acquisition = "explicit-recovery"]
  BY DEF ReadEvidence, ReconciliationFails, RecoveryReceipt
<1>4. DiskShaped(disk') /\ disk'.claimed
  BY <1>2, <1>3 DEF DiskShaped, DiskFields
<1>5. Inside(p) /\ Len(events) + (IF Reconciled(events) THEN 10 ELSE 11) <= MAX_EVENT_DOCUMENTS
  BY <1>1, <1>2, <1>4, OwedTable DEF Inside
<1>6. Len(events) + 1 <= MAX_EVENT_DOCUMENTS
  BY <1>2, <1>5, BoundAssumption
<1>7. CASE \E st : ReconciliationFails(p, st)
  <2>1. PICK st : Record(p, st, proc[p].sub, "other", "exit")
    BY <1>7 DEF ReconciliationFails
  <2>2. \A r : Len(events) + 1 + Owed("exit", r, events, disk') <= MAX_EVENT_DOCUMENTS
    BY <1>2, <1>6, OwedTable
  <2> QED
    BY <1>5, <2>1, <2>2, RecordStep DEF BeforeUpload, Successors
<1>8. CASE Reconciled(events) /\ Goto(p, "start")
  <2>1. \A r : Len(events) + Owed("start", r, events, disk') <= MAX_EVENT_DOCUMENTS
    BY <1>5, <1>8, OwedTable
  <2> QED
    BY <1>5, <1>8, <2>1, GotoStep DEF BeforeUpload
<1>9. CASE ~Reconciled(events) /\ Record(p, "submission_reconciled", proc[p].sub, "none", "start")
  <2>1. \A r : Len(events) + 1 + Owed("start", r, events, disk') <= MAX_EVENT_DOCUMENTS
    BY <1>2, <1>5, <1>9, OwedTable
  <2> QED
    BY <1>5, <1>9, <2>1, RecordStep DEF BeforeUpload, Successors
<1> QED
  BY <1>7, <1>8, <1>9 DEF ReadEvidence

-----------------------------------------------------------------------------
(* An append, a crash, and what happens outside.                            *)

(* What is owed does not grow when an event is recorded.                    *)
LEMMA OwedShrinks ==
    ASSUME NEW ev, IsSeq(ev), NEW e, NEW r, NEW s, s.tool = r.tool, NEW d, NEW l \in Successors \ {"stage"}
    PROVE  /\ Owed(l, s, Append(ev, e), d) \in Nat /\ Owed(l, r, ev, d) \in Nat
           /\ Owed(l, s, Append(ev, e), d) <= Owed(l, r, ev, d)
<1> DEFINE a == Append(ev, e)
<1>1. /\ Reconciled(ev) => Reconciled(a)
      /\ Markers(ev) # {} => Markers(a) # {}
  BY AppendKeeps
<1> HIDE DEF a
<1>2. ToRecover(a) \in Nat /\ ToRecover(ev) \in Nat /\ ToRecover(a) <= ToRecover(ev)
  BY <1>1 DEF ToRecover
<1>3. LET x == One(Continues(s, a, d)) y == One(Continues(r, ev, d)) IN x \in Nat /\ y \in Nat /\ x <= y
  BY <1>1 DEF One, Continues
<1>4. CASE l = "continue"
  BY <1>2, <1>3, <1>4, OwedTable, SMTT(30) DEF a
<1>5. CASE l \in {"continuation"}
  BY <1>2, <1>5, OwedTable DEF a
<1>6. CASE l = "evidence"
  BY <1>1, <1>6, OwedTable DEF a
<1>7. CASE l \in {"noticeReady", "submitting", "submit", "wait", "preserve", "start", "allocate", "receipt", "publish"}
  BY <1>7, OwedTable
<1>8. CASE l \in {"verify", "cleanup", "exit"}
  BY <1>8, OwedTable
<1> QED
  BY <1>4, <1>5, <1>6, <1>7, <1>8 DEF Successors

(* The capacity checks leave a place for every event that is recorded.      *)
LEMMA RoomForAppend ==
    ASSUME NEW r, NEW ev, IsSeq(ev), NEW d, RoomFor(r, ev, d), r.pc = "append", ~Unreserved(r, ev)
    PROVE  Len(ev) \in Nat /\ Len(ev) < MAX_EVENT_DOCUMENTS
<1>1. Len(ev) \in Nat
  BY Appended
<1>2. CASE r.next = "stage"
  <2>1. r.buf.st \in StageStates /\ Len(ev) + 1 + OwedAfter(r.buf.st) <= MAX_EVENT_DOCUMENTS
    BY <1>2 DEF RoomFor
  <2>2. OwedAfter(r.buf.st) \in 3..9
    BY <2>1, OwedAfterTable DEF StageStates
  <2> QED
    BY <1>1, <2>1, <2>2, BoundAssumption
<1>3. CASE r.next # "stage"
  <2>1. r.next \in Successors \ {"stage"} /\ Len(ev) + 1 + Owed(r.next, r, ev, d) <= MAX_EVENT_DOCUMENTS
    BY <1>3 DEF RoomFor
  <2>2. Owed(r.next, r, ev, d) \in Nat
    BY <2>1, OwedShrinks
  <2> QED
    BY <1>1, <2>1, <2>2, BoundAssumption
<1> QED
  BY <1>2, <1>3

LEMMA AppendStep == ASSUME AttemptInv, NEW p \in Procs, EventAppend(p) PROVE AttemptInv'
<1>1. Holds(p, "append") /\ UNCHANGED <<pending, disk, uploads>>
  BY DEF EventAppend, Outside
<1>2. /\ lock = p /\ proc[p].pc = "append" /\ disk.claimed /\ pending = NoEvent /\ DiskShaped(disk) /\ uploads \in {0, 1}
      /\ IsSeq(events)
  BY <1>1, Holding
<1>3. Local(proc[p], events, pending, disk, uploads) /\ RoomFor(proc[p], events, disk)
  BY DEF AttemptInv, Local
<1>4. CASE Exit(p) /\ UNCHANGED events
  BY <1>1, <1>2, <1>4, UnrecordedExit DEF Unrecorded
<1> SUFFICES ASSUME Len(events) < MAX_EVENT_DOCUMENTS, AppendCommits(p) PROVE AttemptInv'
  BY <1>4 DEF EventAppend
<1>0. Len(events) \in Nat
  BY <1>2, Appended
<1>5. events' = Append(events, proc[p].buf) /\ lock' = lock
      /\ proc' = [proc EXCEPT ![p].pc = proc[p].next, ![p].buf = NoEvent, ![p].next = "idle"]
  BY DEF AppendCommits
<1> DEFINE r == [proc[p] EXCEPT !.pc = proc[p].next, !.buf = NoEvent, !.next = "idle"]
<1>6. Shaped(proc[p])
  BY DEF AttemptInv
<1>7. Shaped(r) /\ r.pc = proc[p].next /\ r.tool = proc[p].tool
  BY <1>6 DEF Shaped, ProcFields
<1>8. proc' = [proc EXCEPT ![p] = r]
  BY <1>5 DEF AttemptInv
<1> HIDE DEF r
<1>9. /\ IsSeq(events') /\ Len(events') = Len(events) + 1 /\ events'[Len(events')] = proc[p].buf
  BY <1>2, <1>5, Appended
<1>10. Journaled(events, pending, disk, uploads)'
  BY <1>0, <1>1, <1>2, <1>9, BoundAssumption DEF Journaled, AttemptInv
<1>11. r.pc \in Successors
  BY <1>2, <1>3, <1>7 DEF RoomFor
<1>12. Len(events') + Owed(r.pc, r, events', disk') <= MAX_EVENT_DOCUMENTS
  <2>0. CASE r.pc = "exit"
    <3>1. Owed("exit", r, events', disk') = 0
      BY OwedTable
    <3> QED
      BY <1>0, <1>9, <2>0, <3>1, BoundAssumption
  <2>1. CASE r.pc = "stage"
    <3>1. Len(events) + 1 + OwedAfter(proc[p].buf.st) <= MAX_EVENT_DOCUMENTS
      BY <1>2, <1>3, <1>7, <2>1 DEF RoomFor, Unreserved
    <3> QED
      BY <1>9, <2>1, <3>1, OwedTable
  <2>2. CASE r.pc \notin {"stage", "exit"}
    <3>1. Len(events) + 1 + Owed(r.pc, proc[p], events, disk) <= MAX_EVENT_DOCUMENTS
      BY <1>2, <1>3, <1>7, <2>2 DEF RoomFor, Unreserved
    <3>2. /\ Owed(r.pc, r, events', disk') \in Nat /\ Owed(r.pc, proc[p], events, disk) \in Nat
          /\ Owed(r.pc, r, events', disk') <= Owed(r.pc, proc[p], events, disk)
      BY <1>1, <1>2, <1>5, <1>7, <1>11, <2>2, OwedShrinks
    <3> QED
      BY <1>0, <1>9, <3>1, <3>2, BoundAssumption
  <2> QED
    BY <2>0, <2>1, <2>2
<1>13. /\ r.pc \in {"allocate", "copy"} => events'[Len(events')].st = "finalization_started"
       /\ r.pc = "stage" => events'[Len(events')].st \in StageStates
       /\ r.pc = "cleanup" => Len(events') > 0 /\ events'[Len(events')].st \in TerminalStates
  BY <1>0, <1>2, <1>3, <1>7, <1>9, <1>11 DEF RoomFor, Successors
<1>14. RoomFor(r, events', disk')
  BY <1>11, <1>12, <1>13 DEF RoomFor, Successors
<1>15. Local(r, events', pending', disk', uploads')
  BY <1>1, <1>2, <1>3, <1>7, <1>11, <1>14 DEF Local, Successors
<1> QED
  BY <1>2, <1>5, <1>7, <1>8, <1>10, <1>15, ProcessStep

LEMMA CrashStep == ASSUME AttemptInv, NEW p \in Procs, Crash(p) PROVE AttemptInv'
<1>1. /\ proc[p].pc \notin {"idle", "lock"} /\ lock = p /\ Exit(p) /\ UNCHANGED <<events, uploads>>
      /\ pending' \in IF proc[p].pc = "append" /\ Len(events) < MAX_EVENT_DOCUMENTS
                      THEN {NoEvent, PartialEvent, proc[p].buf} ELSE {pending}
  BY DEF Crash, Outside
<1>2. Journaled(events, pending, disk, uploads) /\ Local(proc[p], events, pending, disk, uploads)
  BY DEF AttemptInv
<1>3. disk' = disk \/ (proc[p].pc = "continuation" /\ disk' = [disk EXCEPT !.contPending = TRUE])
  BY DEF Crash
<1>4. DiskShaped(disk') /\ disk'.claimed = disk.claimed /\ (disk'.intent => disk'.claimed)
  <2>1. DiskShaped(disk) /\ (disk.intent => disk.claimed)
    BY <1>2 DEF Journaled
  <2> QED
    BY <1>3, <2>1 DEF DiskShaped, DiskFields
<1>5. proc[p].pc = "append" => disk.claimed
  BY <1>2 DEF Local
<1>6. Journaled(events, pending, disk, uploads)'
  BY <1>1, <1>2, <1>4, <1>5 DEF Journaled
<1> QED
  BY <1>1, <1>6, ExitStep

(* AttemptInv holds in every state of either layout.                        *)
LEMMA AttemptStarts == AttemptInit => AttemptInv
<1> SUFFICES ASSUME AttemptInit PROVE AttemptInv
  OBVIOUS
<1>1. Init
  BY DEF AttemptInit
<1>2. DiskShaped(disk) /\ ~disk.claimed /\ ~disk.intent /\ uploads = 0 /\ events = <<>> /\ pending = NoEvent
  BY <1>1 DEF Init, DiskShaped, DiskFields
<1>3. IsSeq(events) /\ Len(events) = 0
  <2>1. <<>> \in Seq({})
    OBVIOUS
  <2> QED
    BY <1>2, <2>1 DEF IsSeq
<1>4. Journaled(events, pending, disk, uploads)
  BY <1>2, <1>3, BoundAssumption DEF Journaled
<1>5. proc = [p \in Procs |-> IdleProc]
  BY <1>1 DEF Init
<1>6. \A p \in Procs : proc[p] = IdleProc
  BY <1>5
<1> QED
  BY <1>4, <1>5, <1>6, IdleShaped, QuietLocal DEF AttemptInv

LEMMA AttemptStep == AttemptInv /\ [Next]_vars => AttemptInv'
<1> SUFFICES ASSUME AttemptInv, [Next]_vars PROVE AttemptInv'
  OBVIOUS
<1>1. CASE UNCHANGED <<events, pending, disk, uploads, lock, proc>>
  BY <1>1 DEF AttemptInv
<1>2. ASSUME NEW p \in Procs, EventAppend(p) \/ Leave(p) \/ Crash(p) PROVE AttemptInv'
  BY <1>2, AppendStep, LeaveStep, CrashStep
<1>3. ASSUME NEW p \in Procs, Execute(p) PROVE AttemptInv'
  BY <1>3, BeginExecuteStep, AcquireLockStep, ClaimStep, TransferStep, ArchiveStep, NotaryReadyStep, BeginSubmitStep,
     SubmitStep, ObserveStep, ReceiveStep, WaitStep, PrepareDirectStep, PreserveStep, DirectBoundaryStep DEF Execute
<1>4. ASSUME NEW p \in Procs, Finalize(p) PROVE AttemptInv'
  BY <1>4, StartStep, AllocateStep, CopyStep, StagesStep, SealStep, PublishStep, LeaveStep DEF Finalize
<1>5. ASSUME NEW p \in Procs, Recover(p) PROVE AttemptInv'
  BY <1>5, BeginRecoverStep, LoadStep, AdoptStep, BoundaryStep, BindStep, AnchorStep, ContinueStep,
     WriteContinuationStep, ReconcileStep, EvidenceStep DEF Recover
<1>6. CASE AppleDecides \/ OperatorUpload
  BY <1>1, <1>6 DEF AppleDecides, OperatorUpload, Journal
<1>7. CASE UNCHANGED vars
  BY <1>1, <1>7 DEF vars
<1> QED
  BY <1>2, <1>3, <1>4, <1>5, <1>6, <1>7 DEF Next

(* The inductive invariant of the current layout; an attempt of the older   *)
(* one never moves it.                                                      *)
THEOREM AttemptInvariant == AttemptSpec => []AttemptInv
<1>1. AttemptInv /\ [AttemptNext]_<<vars, legacyVars, layout>> => AttemptInv'
  BY AttemptStep DEF AttemptNext
<1> QED
  BY <1>1, AttemptStarts, PTL DEF AttemptSpec

(* notarytool submit runs at most once for an attempt, however many         *)
(* invocations race for its lock, crash or recover: the claim is checked    *)
(* under the lock, and only the invocation that made it goes on to upload.  *)
THEOREM UploadedAtMostOnce == AttemptSpec => []SubmitOnce
<1>1. AttemptInv => SubmitOnce
  BY DEF AttemptInv, Journaled, SubmitOnce
<1> QED
  BY <1>1, AttemptInvariant, PTL

(* EventJournal.append never meets a full journal, whatever the limit: what *)
(* an upload, a completed boundary or a recovery reserved covers every      *)
(* event up to its terminal one.  Only what execute_transaction records     *)
(* after that, when its cleanup fails too, is not covered.                  *)
THEOREM EveryOutcomeHasRoom == AttemptSpec => []RoomReserved
<1>1. AttemptInv => RoomReserved
  BY RoomForAppend DEF AttemptInv, Local, Journaled, RoomReserved, Unreserved
<1> QED
  BY <1>1, AttemptInvariant, PTL

-----------------------------------------------------------------------------
(* Publication.                                                             *)

\* The journal of an execute that publishes without a recovery.
PlanState(i) ==
    CASE i = 1 -> "prepared" [] i = 2 -> "notary_ready" [] i = 3 -> "submitting" [] i = 4 -> "submitted"
      [] i = 5 -> "direct_finalization_preparing" [] i = 6 -> "direct_finalization_ready"
      [] i = 7 -> "finalization_started" [] i = 8 -> "accepted" [] i = 9 -> "log_verified"
      [] i = 10 -> "stapling" [] i = 11 -> "stapled" [] i = 12 -> "gatekeeper_verified"
      [] i = 13 -> "app_verified" [] i = 14 -> "distribution_verified" [] i = 15 -> "sealed"
      [] i = 16 -> "outcome_unknown" [] OTHER -> "none"
AsPlanned(ev) ==
    /\ IsSeq(ev) /\ Len(ev) \in 0..16
    /\ \A i \in 1..Len(ev) : ev[i].st = PlanState(i) /\ ev[i].sub = (IF i < 4 THEN NoId ELSE Orig)
    /\ Len(ev) = 16 => ev[16].code = "publish"

ExecLabels == {"transfer", "archive", "noticeReady", "submitting", "submit", "reply", "receive", "wait", "reload",
               "preserve", "ready"}
FinalLabels == {"start", "allocate", "copy", "stage", "receipt", "publish"}
BoundLabels == {"anchor", "continue", "continuation", "reconcile", "evidence"}
RecoverLabels == {"load", "adopt", "boundary", "verify"} \cup BoundLabels
\* Where an invocation may be once the candidate is published.
AfterPublication == {"idle", "lock", "claim", "load", "adopt", "boundary", "cleanup", "exit"}

\* How many events such an execute has recorded at a label.
PlanLength(l, n) ==
    /\ l \in {"transfer", "archive"} => n = 0
    /\ l = "noticeReady" => n = 1
    /\ l = "submitting" => n = 2
    /\ l \in {"submit", "reply", "receive"} => n = 3
    /\ l \in {"wait", "reload"} => n = 4
    /\ l \in {"preserve", "ready"} => n = 5
    /\ l = "start" => n = 6
    /\ l \in {"allocate", "copy"} => n = 7
    /\ l = "stage" => n \in 7..13
    /\ l = "receipt" => n = 14
    /\ l = "publish" => n = 15
\* What its directory holds there.
Unbound(d) == d.rintent = NoId /\ d.cont = NoTool /\ d.contPending = FALSE
PlanDisk(l, d) ==
    /\ Unbound(d)
    /\ l \notin {"transfer", "archive"} => d.intent
    /\ l \notin {"transfer", "archive", "noticeReady", "submitting", "submit", "reply"} => d.observation = Orig
    /\ l \in {"wait", "reload", "preserve", "ready"} \cup FinalLabels =>
          d.receipt = Orig /\ d.acquisition = "submit-no-wait"
    /\ l \in {"ready"} \cup FinalLabels => d.source = "recovery-source"
DirectAt(l, r, ev, d) ==
    /\ AsPlanned(ev) /\ PlanLength(l, Len(ev)) /\ PlanDisk(l, d)
    /\ l \in {"reply", "receive", "wait", "reload", "preserve", "ready"} \cup FinalLabels => r.sub = Orig

\* What the receipts of the runs have to do with the journal at a label.
RunsAt(l, r, ev, rs) ==
    /\ l \in {"copy", "stage", "receipt", "publish"} => r.run \in DOMAIN rs
    /\ l \in {"allocate", "copy", "stage", "receipt"} =>
          Len(ev) > 0 /\ \A x \in DOMAIN rs : rs[x].receipt < Len(ev)
    /\ l = "publish" => /\ rs[r.run].receipt = Len(ev) - 1
                        /\ \A x \in DOMAIN rs : x # r.run => rs[x].receipt < Len(ev) - 1
BoundAt(l, r, ev, d, ap) ==
    /\ l \in ExecLabels => d.rintent = NoId
    /\ l \in BoundLabels => d.rintent # NoId
    /\ l \in RecoverLabels \cup FinalLabels => r.sub \in Ids
    /\ l \in {"reload", "preserve", "ready"} \cup FinalLabels => ap[r.sub] = "Accepted"
    /\ l \in {"receipt", "publish"} \/ (l = "stage" /\ ev[Len(ev)].st # "finalization_started") => d.receipt = r.sub
Course(l, r, ev, d, rs, ap, fin) ==
    /\ l \in ExecLabels \cup FinalLabels /\ d.rintent = NoId => DirectAt(l, r, ev, d)
    /\ RunsAt(l, r, ev, rs) /\ BoundAt(l, r, ev, d, ap)
    /\ fin > 0 => l \in AfterPublication /\ (l \in {"adopt", "boundary"} => ~r.adopt)

\* The published run and its journal.
Stands(ev, d, rs, ap, fin) ==
    /\ fin \in DOMAIN rs /\ rs[fin].receipt > 0
    /\ \A x \in DOMAIN rs : x # fin => rs[x].receipt # rs[fin].receipt
    /\ d.receipt \in Ids /\ ap[d.receipt] = "Accepted"
    /\ \/ ClosedTwice(ev)
       \/ /\ SealedLineage(ev, rs[fin].receipt)
          /\ d.rintent = NoId => AsPlanned(ev) /\ PlanDisk("publish", d)
\* The journal with the event that an invocation is about to record.
Going(r, ev) == IF r.pc = "append" THEN Append(ev, r.buf) ELSE ev
Towards(r) == IF r.pc = "append" THEN r.next ELSE r.pc
RunFields == {"files", "pend", "receipt"}
RunsKnown(rs, ev) ==
    /\ rs = [x \in DOMAIN rs |-> rs[x]]
    /\ \A x \in DOMAIN rs : rs[x] = [f \in RunFields |-> rs[x][f]] /\ rs[x].receipt \in 0..Len(ev)
PublicationInv ==
    /\ RunsKnown(runs, events) /\ apple = [s \in Ids |-> apple[s]]
    /\ ~disk.claimed => Unbound(disk)
    /\ final > 0 => /\ Stands(events, disk, runs, apple, final)
                    /\ pending \notin {NoEvent, PartialEvent} =>
                          Stands(Append(events, pending), disk, runs, apple, final)
    /\ \A p \in Procs :
          /\ Course(Towards(proc[p]), proc[p], Going(proc[p], events), disk, runs, apple, final)
          /\ final > 0 => Stands(Going(proc[p], events), disk, runs, apple, final)

-----------------------------------------------------------------------------
(* The states of the plan, and what is recorded next.                       *)
LEMMA PlanTable ==
    /\ PlanState(1) = "prepared" /\ PlanState(2) = "notary_ready" /\ PlanState(3) = "submitting"
    /\ PlanState(4) = "submitted" /\ PlanState(5) = "direct_finalization_preparing"
    /\ PlanState(6) = "direct_finalization_ready" /\ PlanState(7) = "finalization_started"
    /\ PlanState(8) = "accepted" /\ PlanState(9) = "log_verified" /\ PlanState(10) = "stapling"
    /\ PlanState(11) = "stapled" /\ PlanState(12) = "gatekeeper_verified" /\ PlanState(13) = "app_verified"
    /\ PlanState(14) = "distribution_verified" /\ PlanState(15) = "sealed" /\ PlanState(16) = "outcome_unknown"
BY DEF PlanState

(* The plan's next event keeps the journal as planned.                      *)
LEMMA PlannedAppend ==
    ASSUME NEW ev, AsPlanned(ev), NEW e, Len(ev) < 16, e.st = PlanState(Len(ev) + 1),
           e.sub = (IF Len(ev) + 1 < 4 THEN NoId ELSE Orig), Len(ev) = 15 => e.code = "publish"
    PROVE  AsPlanned(Append(ev, e)) /\ Len(Append(ev, e)) = Len(ev) + 1
<1>0. PICK a : a = Append(ev, e)
  OBVIOUS
<1>1. /\ IsSeq(a) /\ Len(ev) \in Nat /\ Len(a) = Len(ev) + 1
      /\ (\A i \in 1..Len(ev) : a[i] = ev[i]) /\ a[Len(ev) + 1] = e
  BY <1>0, Appended DEF AsPlanned
<1>2. ASSUME NEW i \in 1..Len(a)
      PROVE  a[i].st = PlanState(i) /\ a[i].sub = (IF i < 4 THEN NoId ELSE Orig)
  <2>1. CASE i \in 1..Len(ev)
    BY <1>1, <2>1 DEF AsPlanned
  <2>2. CASE i = Len(ev) + 1
    BY <1>1, <2>2
  <2> QED
    BY <1>1, <2>1, <2>2
<1>3. ASSUME Len(a) = 16 PROVE a[16].code = "publish"
  <2>1. PICK n : n = Len(ev)
    OBVIOUS
  <2>2. n \in Nat /\ n + 1 = 16
    BY <1>1, <1>3, <2>1
  <2>3. n = 15
    BY <2>2
  <2>4. e.code = "publish" /\ a[n + 1] = e
    BY <1>1, <2>1, <2>3, Zenon
  <2> QED
    BY <2>2, <2>4, Zenon
<1>4. Len(a) \in 0..16
  BY <1>1
<1> QED
  BY <1>0, <1>1, <1>2, <1>3, <1>4 DEF AsPlanned

(* A course is that of an invocation with the same request and run.         *)
LEMMA Alike ==
    ASSUME NEW l, NEW q, NEW r, NEW ev, NEW d, NEW rs, NEW ap, NEW fin, Course(l, q, ev, d, rs, ap, fin),
           r.sub = q.sub, r.run = q.run, r.adopt = q.adopt
    PROVE  Course(l, r, ev, d, rs, ap, fin)
BY DEF Course, DirectAt, RunsAt, BoundAt

(* An invocation without the lock has no course to keep.                    *)
LEMMA QuietlyOn ==
    ASSUME NEW l \in {"idle", "lock", "claim", "cleanup", "exit"}, NEW r, NEW ev, NEW d, NEW rs, NEW ap, NEW fin
    PROVE  Course(l, r, ev, d, rs, ap, fin)
BY DEF Course, RunsAt, BoundAt, ExecLabels, FinalLabels, BoundLabels, RecoverLabels, AfterPublication

\* What a step leaves behind apart from the invocation that takes it.
Surroundings ==
    /\ RunsKnown(runs, events) /\ apple = [s \in Ids |-> apple[s]]
    /\ ~disk.claimed => Unbound(disk)
    /\ final > 0 => /\ Stands(events, disk, runs, apple, final)
                    /\ pending \notin {NoEvent, PartialEvent} =>
                          Stands(Append(events, pending), disk, runs, apple, final)
Goes(r) ==
    /\ Course(Towards(r), r, Going(r, events), disk, runs, apple, final)
    /\ final > 0 => Stands(Going(r, events), disk, runs, apple, final)

LEMMA PublicationIs == PublicationInv <=> Surroundings /\ \A p \in Procs : Goes(proc[p])
BY DEF PublicationInv, Surroundings, Goes

(* Only the holder of the lock moves.                                       *)
LEMMA PublicationStep ==
    ASSUME AttemptInv, PublicationInv, NEW p \in Procs, NEW r, proc' = [proc EXCEPT ![p] = r],
           lock \in {p, Nobody}, Surroundings',
           Course(Towards(r), r, Going(r, events'), disk', runs', apple', final'),
           final' > 0 => Stands(Going(r, events'), disk', runs', apple', final')
    PROVE  PublicationInv'
<1>1. \A q \in Procs \ {p} : proc'[q] = proc[q] /\ proc[q].pc \in {"idle", "lock"}
  BY ProcAssumption DEF AttemptInv
<1>2. proc'[p] = r
  BY DEF AttemptInv
<1>3. ASSUME NEW q \in Procs \ {p} PROVE Goes(proc[q])'
  <2>1. Towards(proc'[q]) \in {"idle", "lock"} /\ Going(proc'[q], events') = events'
    BY <1>1 DEF Towards, Going
  <2>2. Course(Towards(proc'[q]), proc'[q], Going(proc'[q], events'), disk', runs', apple', final')
    BY <2>1, QuietlyOn
  <2> QED
    BY <2>1, <2>2 DEF Goes, Surroundings
<1>4. Goes(proc[p])'
  BY <1>2 DEF Goes
<1> QED
  BY <1>3, <1>4 DEF PublicationInv, Surroundings, Goes

(* Where the holder of the lock is on its course.                           *)
LEMMA Coursing ==
    ASSUME AttemptInv, PublicationInv, NEW p \in Procs, NEW l, Holds(p, l)
    PROVE  /\ lock = p /\ proc[p].pc = l /\ Surroundings /\ Shaped(proc[p])
           /\ l # "append" => Course(l, proc[p], events, disk, runs, apple, final)
           /\ l # "append" /\ l \notin AfterPublication => ~(final > 0)
           /\ l = "append" => Goes(proc[p])
<1>1. Goes(proc[p]) /\ Surroundings /\ proc[p].pc = l /\ lock = p /\ Shaped(proc[p])
  BY PublicationIs DEF Holds, AttemptInv
<1>2. ASSUME l # "append" PROVE Course(l, proc[p], events, disk, runs, apple, final)
  BY <1>1, <1>2 DEF Goes, Towards, Going
<1> QED
  BY <1>1, <1>2 DEF Course

\* Nothing is published, before the step and after it.
Unpublished ==
    /\ ~(final > 0) /\ ~(final' > 0) /\ disk'.claimed
    /\ RunsKnown(runs', events') /\ apple' = [s \in Ids |-> apple'[s]]

LEMMA UnpublishedSurroundings == Unpublished => Surroundings'
BY DEF Unpublished, Surroundings

(* Going on at a label.                                                     *)
LEMMA PublicationGoto ==
    ASSUME AttemptInv, PublicationInv, NEW p \in Procs, NEW l, l # "append", Goto(p, l), lock = p, Surroundings',
           Course(l, proc[p], events', disk', runs', apple', final')
    PROVE  PublicationInv'
<1>1. PICK r : r = [proc[p] EXCEPT !.pc = l]
  OBVIOUS
<1>2. proc' = [proc EXCEPT ![p] = r]
  BY <1>1 DEF Goto
<1>3. r.pc = l /\ r.sub = proc[p].sub /\ r.run = proc[p].run /\ r.adopt = proc[p].adopt
  BY <1>1 DEF AttemptInv, Shaped, ProcFields
<1>4. Course(l, r, events', disk', runs', apple', final')
  BY <1>3, Alike
<1>5. Towards(r) = l /\ Going(r, events') = events'
  BY <1>3 DEF Towards, Going
<1> QED
  BY <1>2, <1>4, <1>5, PublicationStep DEF Surroundings

(* Recording an event.                                                      *)
LEMMA PublicationRecord ==
    ASSUME AttemptInv, PublicationInv, NEW p \in Procs, NEW st, NEW sub, NEW code, NEW next, Record(p, st, sub, code, next),
           lock = p, Surroundings', NEW e, e = [st |-> st, sub |-> sub, code |-> code],
           Course(next, proc[p], Append(events', e), disk', runs', apple', final'),
           final' > 0 => Stands(Append(events', e), disk', runs', apple', final')
    PROVE  PublicationInv'
<1>1. PICK r : r = [proc[p] EXCEPT !.pc = "append", !.next = next, !.buf = e]
  OBVIOUS
<1>2. proc' = [proc EXCEPT ![p] = r]
  <2>1. proc' = [proc EXCEPT ![p].pc = "append", ![p].next = next, ![p].buf = e]
    BY Zenon DEF Record
  <2> QED
    BY <1>1, <2>1 DEF AttemptInv
<1>3. /\ r.pc = "append" /\ r.next = next /\ r.buf = e
      /\ r.sub = proc[p].sub /\ r.run = proc[p].run /\ r.adopt = proc[p].adopt
  BY <1>1 DEF AttemptInv, Shaped, ProcFields
<1>4. Course(next, r, Append(events', e), disk', runs', apple', final')
  BY <1>3, Alike
<1>5. Towards(r) = next /\ Going(r, events') = Append(events', e)
  BY <1>3 DEF Towards, Going
<1> QED
  BY <1>2, <1>4, <1>5, PublicationStep

(* Letting go of the lock.                                                  *)
LEMMA PublicationExit ==
    ASSUME AttemptInv, PublicationInv, NEW p \in Procs, Exit(p), lock = p, Surroundings'
    PROVE  PublicationInv'
<1>1. proc' = [proc EXCEPT ![p] = IdleProc]
  BY DEF Exit
<1>2. Towards(IdleProc) = "idle" /\ Going(IdleProc, events') = events'
  BY DEF IdleProc, Towards, Going
<1>3. Course(Towards(IdleProc), IdleProc, Going(IdleProc, events'), disk', runs', apple', final')
  BY <1>2, QuietlyOn
<1>4. final' > 0 => Stands(Going(IdleProc, events'), disk', runs', apple', final')
  BY <1>2 DEF Surroundings
<1> QED
  BY <1>1, <1>3, <1>4, PublicationStep

(* The outcome of a failed step of an attempt that is not published.        *)
LEMMA PublicationRaise ==
    ASSUME AttemptInv, PublicationInv, NEW p \in Procs, NEW st, NEW code, Raise(p, st, code), lock = p, Unpublished
    PROVE  PublicationInv'
<1>1. PICK next : next = IF proc[p].run > 0 THEN "cleanup" ELSE "exit"
  OBVIOUS
<1>2. next \in {"cleanup", "exit"} /\ Record(p, st, proc[p].sub, code, next)
  BY <1>1 DEF Raise
<1>3. PICK e : e = [st |-> st, sub |-> proc[p].sub, code |-> code]
  OBVIOUS
<1>4. Course(next, proc[p], Append(events', e), disk', runs', apple', final')
  BY <1>2, QuietlyOn
<1>5. Surroundings' /\ ~(final' > 0)
  BY UnpublishedSurroundings DEF Unpublished
<1> QED
  BY <1>2, <1>3, <1>4, <1>5, PublicationRecord

-----------------------------------------------------------------------------
(* What the holder of the lock may rely on while nothing is published.      *)
LEMMA Working ==
    ASSUME AttemptInv, PublicationInv, NEW p \in Procs, NEW l, Holds(p, l), l # "append", l \notin AfterPublication
    PROVE  /\ lock = p /\ disk.claimed /\ pending = NoEvent /\ DiskShaped(disk)
           /\ IsSeq(events) /\ Len(events) \in Nat
           /\ Course(l, proc[p], events, disk, runs, apple, final) /\ ~(final > 0)
           /\ RunsKnown(runs, events) /\ apple = [s \in Ids |-> apple[s]]
<1>1. l \notin {"idle", "lock", "claim", "load"}
  BY DEF AfterPublication
<1>2. lock = p /\ disk.claimed /\ pending = NoEvent /\ DiskShaped(disk) /\ IsSeq(events)
  BY <1>1, Holding
<1>3. Len(events) \in Nat
  BY <1>2, Appended
<1>4. Course(l, proc[p], events, disk, runs, apple, final) /\ ~(final > 0) /\ Surroundings
  BY Coursing
<1> QED
  BY <1>2, <1>3, <1>4 DEF Surroundings

(* The course of an execute.                                                *)
LEMMA ExecuteCourse ==
    ASSUME NEW l \in ExecLabels \cup {"start"}, NEW r, NEW ev, NEW d, NEW rs, NEW ap, NEW fin, ~(fin > 0),
           DirectAt(l, r, ev, d),
           l \in {"reload", "preserve", "ready", "start"} => ap[r.sub] = "Accepted"
    PROVE  Course(l, r, ev, d, rs, ap, fin)
<1>1. d.rintent = NoId
  BY DEF DirectAt, PlanDisk, Unbound
<1>2. l = "start" => r.sub \in Ids
  BY DEF DirectAt, Ids, FinalLabels
<1>3. RunsAt(l, r, ev, rs)
  BY DEF RunsAt, ExecLabels
<1>4. BoundAt(l, r, ev, d, ap)
  BY <1>1, <1>2 DEF BoundAt, ExecLabels, BoundLabels, RecoverLabels, FinalLabels
<1> QED
  BY <1>3, <1>4 DEF Course

(* An execute has recorded what was planned.                                *)
LEMMA Executing ==
    ASSUME AttemptInv, PublicationInv, NEW p \in Procs, NEW l \in ExecLabels, Holds(p, l)
    PROVE  /\ DirectAt(l, proc[p], events, disk) /\ disk.rintent = NoId
           /\ l \in {"reload", "preserve", "ready"} => apple[proc[p].sub] = "Accepted"
           /\ l # "append" /\ l \notin AfterPublication
<1>1. l # "append" /\ l \notin AfterPublication
  BY DEF ExecLabels, AfterPublication
<1>2. Course(l, proc[p], events, disk, runs, apple, final)
  BY <1>1, Working
<1> QED
  BY <1>1, <1>2 DEF Course, BoundAt

(* The plan's next event.                                                   *)
LEMMA DirectRecord ==
    ASSUME AttemptInv, PublicationInv, NEW p \in Procs, NEW l \in ExecLabels, Holds(p, l),
           NEW st, NEW sub, NEW next \in ExecLabels \cup {"start"}, Record(p, st, sub, "none", next),
           UNCHANGED <<events, pending, runs, final, apple>>,
           Len(events) < 15, st = PlanState(Len(events) + 1), sub = (IF Len(events) + 1 < 4 THEN NoId ELSE Orig),
           PlanLength(next, Len(events) + 1), PlanDisk(next, disk'), disk'.claimed,
           next \in {"reply", "receive", "wait", "reload", "preserve", "ready", "start"} => proc[p].sub = Orig,
           next \in {"reload", "preserve", "ready", "start"} => apple[proc[p].sub] = "Accepted"
    PROVE  PublicationInv'
<1>1. /\ DirectAt(l, proc[p], events, disk) /\ l # "append" /\ l \notin AfterPublication
  BY Executing
<1>2. /\ lock = p /\ ~(final > 0) /\ RunsKnown(runs, events) /\ apple = [s \in Ids |-> apple[s]] /\ Len(events) \in Nat
  BY <1>1, Working
<1>3. PICK e : e = [st |-> st, sub |-> sub, code |-> "none"]
  OBVIOUS
<1>4. e.st = st /\ e.sub = sub
  BY <1>3
<1>5. AsPlanned(Append(events, e)) /\ Len(Append(events, e)) = Len(events) + 1
  <2>0. \A n \in Nat : n < 15 => n < 16 /\ n # 15
    OBVIOUS
  <2>1. Len(events) < 16 /\ Len(events) # 15 /\ AsPlanned(events)
    BY <1>1, <1>2, <2>0, Zenon DEF DirectAt
  <2>2. e.st = PlanState(Len(events) + 1) /\ e.sub = (IF Len(events) + 1 < 4 THEN NoId ELSE Orig)
    BY <1>4, Zenon
  <2> QED
    BY <2>1, <2>2, PlannedAppend
<1>6. DirectAt(next, proc[p], Append(events, e), disk')
  BY <1>5 DEF DirectAt, FinalLabels, ExecLabels
<1>7. Course(next, proc[p], Append(events', e), disk', runs', apple', final')
  BY <1>2, <1>6, ExecuteCourse
<1>8. Surroundings' /\ ~(final' > 0)
  BY <1>2, UnpublishedSurroundings DEF Unpublished
<1> QED
  BY <1>2, <1>3, <1>7, <1>8, PublicationRecord

(* A label of an execute without an event.                                  *)
LEMMA DirectGoto ==
    ASSUME AttemptInv, PublicationInv, NEW p \in Procs, NEW l \in ExecLabels, Holds(p, l),
           NEW next \in ExecLabels, Goto(p, next),
           UNCHANGED <<events, pending, runs, final, apple>>,
           PlanLength(next, Len(events)), PlanDisk(next, disk'), disk'.claimed,
           next \in {"reply", "receive", "wait", "reload", "preserve", "ready"} => proc[p].sub = Orig,
           next \in {"reload", "preserve", "ready"} => apple[proc[p].sub] = "Accepted"
    PROVE  PublicationInv'
<1>1. /\ DirectAt(l, proc[p], events, disk) /\ l # "append" /\ l \notin AfterPublication
  BY Executing
<1>2. /\ lock = p /\ ~(final > 0) /\ RunsKnown(runs, events) /\ apple = [s \in Ids |-> apple[s]]
  BY <1>1, Working
<1>3. DirectAt(next, proc[p], events, disk')
  BY <1>1 DEF DirectAt, FinalLabels, ExecLabels
<1>4. Course(next, proc[p], events', disk', runs', apple', final')
  BY <1>2, <1>3, ExecuteCourse DEF ExecLabels
<1>5. Surroundings'
  BY <1>2, UnpublishedSurroundings DEF Unpublished
<1>6. next # "append"
  BY DEF ExecLabels
<1> QED
  BY <1>2, <1>4, <1>5, <1>6, PublicationGoto

(* A step that fails, or ends, before anything is published.                *)
LEMMA WorkingEnds ==
    ASSUME AttemptInv, PublicationInv, NEW p \in Procs, NEW l, Holds(p, l), l # "append", l \notin AfterPublication,
           UNCHANGED <<events, final>>, disk'.claimed, RunsKnown(runs', events), apple' = [s \in Ids |-> apple'[s]],
           Exit(p) \/ \E st, code : Raise(p, st, code)
    PROVE  PublicationInv'
<1>1. lock = p /\ ~(final > 0)
  BY Working
<1>2. Unpublished
  BY <1>1 DEF Unpublished
<1>3. CASE Exit(p)
  BY <1>1, <1>2, <1>3, UnpublishedSurroundings, PublicationExit
<1>4. CASE \E st, code : Raise(p, st, code)
  BY <1>1, <1>2, <1>4, PublicationRaise
<1> QED
  BY <1>3, <1>4

LEMMA SameSurroundings ==
    ASSUME Surroundings, UNCHANGED <<events, pending, disk, runs, apple, final>> PROVE Surroundings'
BY DEF Surroundings

(* An invocation that only comes, waits or takes the lock.                  *)
LEMMA QuietMove ==
    ASSUME AttemptInv, PublicationInv, NEW p \in Procs, NEW l \in {"idle", "lock", "claim"}, Goto(p, l),
           UNCHANGED <<events, pending, disk, runs, apple, final>>
    PROVE  PublicationInv'
<1>1. Surroundings /\ \A q \in Procs : Goes(proc[q])
  BY PublicationIs
<1>2. Surroundings'
  BY <1>1, SameSurroundings
<1>3. PICK r : r = [proc[p] EXCEPT !.pc = l]
  OBVIOUS
<1>4. proc' = [proc EXCEPT ![p] = r]
  BY <1>3 DEF Goto
<1>5. r.pc = l
  BY <1>3 DEF AttemptInv, Shaped, ProcFields
<1>6. Towards(r) = l /\ Going(r, events') = events'
  BY <1>5 DEF Towards, Going
<1>7. Course(Towards(r), r, Going(r, events'), disk', runs', apple', final')
  BY <1>6, QuietlyOn
<1>8. ASSUME NEW q \in Procs PROVE Goes(proc[q])'
  <2>1. CASE q = p
    <3>1. proc'[q] = r
      BY <1>4, <2>1 DEF AttemptInv
    <3> QED
      BY <1>2, <1>6, <1>7, <3>1 DEF Goes, Surroundings
  <2>2. CASE q # p
    <3>1. proc'[q] = proc[q]
      BY <1>4, <2>2 DEF AttemptInv
    <3> QED
      BY <1>1, <3>1 DEF Goes
  <2> QED
    BY <2>1, <2>2
<1> QED
  BY <1>2, <1>8 DEF PublicationInv, Surroundings, Goes

LEMMA BeginsCourse ==
    ASSUME AttemptInv, PublicationInv, NEW p \in Procs, BeginExecute(p) \/ AcquireLock(p) PROVE PublicationInv'
<1>1. \E l \in {"idle", "lock", "claim"} : Goto(p, l)
  BY DEF BeginExecute, AcquireLock
<1>2. UNCHANGED <<events, pending, disk, runs, apple, final>>
  BY DEF BeginExecute, AcquireLock, Journal, Outside
<1> QED
  BY <1>1, <1>2, QuietMove

(* An invocation that ends and changes nothing.                             *)
LEMMA SameExit ==
    ASSUME AttemptInv, PublicationInv, NEW p \in Procs, lock = p, Exit(p),
           UNCHANGED <<events, pending, disk, runs, apple, final>>
    PROVE  PublicationInv'
<1>1. Surroundings'
  BY PublicationIs, SameSurroundings
<1> QED
  BY <1>1, PublicationExit

LEMMA ClaimCourse == ASSUME AttemptInv, PublicationInv, NEW p \in Procs, Claim(p) PROVE PublicationInv'
<1>1. lock = p /\ UNCHANGED <<events, pending, runs, final, apple>> /\ Surroundings
  BY PublicationIs DEF Claim, Holds, Journal, Outside
<1>2. CASE Exit(p) /\ UNCHANGED disk
  BY <1>1, <1>2, SameExit
<1>3. CASE ContextValid /\ disk' = [disk EXCEPT !.claimed = TRUE] /\ Goto(p, "transfer")
  <2>1. ~disk.claimed /\ final = 0 /\ DiskShaped(disk) /\ events = <<>>
    BY <1>3 DEF ContextValid, AttemptInv, Journaled
  <2>2. Unbound(disk)
    BY <1>1, <2>1 DEF Surroundings
  <2>3. Unbound(disk') /\ disk'.claimed
    BY <1>3, <2>1, <2>2 DEF DiskShaped, DiskFields, Unbound
  <2>4. AsPlanned(<<>>)
    <3>1. IsSeq(<<>>) /\ Len(<<>>) = 0
      BY DEF IsSeq
    <3> QED
      BY <3>1 DEF AsPlanned
  <2>5. DirectAt("transfer", proc[p], events', disk')
    BY <1>1, <2>1, <2>3, <2>4 DEF DirectAt, PlanLength, PlanDisk, FinalLabels
  <2>6. Course("transfer", proc[p], events', disk', runs', apple', final')
    BY <1>1, <2>1, <2>5, ExecuteCourse DEF ExecLabels
  <2>7. Surroundings'
    BY <1>1, <2>1, <2>3 DEF Surroundings
  <2> QED
    BY <1>1, <1>3, <2>6, <2>7, PublicationGoto
<1> QED
  BY <1>2, <1>3 DEF Claim

LEMMA TransferCourse == ASSUME AttemptInv, PublicationInv, NEW p \in Procs, TransferApp(p) PROVE PublicationInv'
<1>1. Holds(p, "transfer") /\ UNCHANGED <<events, pending, runs, final, apple>> /\ "transfer" \in ExecLabels
  BY DEF TransferApp, Journal, Outside, ExecLabels
<1>2. DirectAt("transfer", proc[p], events, disk) /\ "transfer" # "append" /\ "transfer" \notin AfterPublication
  BY <1>1, Executing
<1>3. DiskShaped(disk) /\ disk.claimed /\ RunsKnown(runs, events) /\ apple = [s \in Ids |-> apple[s]]
  BY <1>1, <1>2, Working
<1>4. CASE Exit(p) /\ UNCHANGED disk
  BY <1>1, <1>2, <1>3, <1>4, WorkingEnds
<1>5. CASE disk' = [disk EXCEPT !.staged = FALSE, !.source = "work"] /\ Goto(p, "archive")
  <2>1. Unbound(disk') /\ disk'.claimed
    BY <1>2, <1>3, <1>5 DEF DiskShaped, DiskFields, Unbound, DirectAt, PlanDisk
  <2>2. PlanLength("archive", Len(events)) /\ PlanDisk("archive", disk')
    BY <1>2, <2>1 DEF DirectAt, PlanLength, PlanDisk, FinalLabels
  <2> QED
    BY <1>1, <1>5, <2>1, <2>2, DirectGoto DEF ExecLabels
<1> QED
  BY <1>4, <1>5 DEF TransferApp

LEMMA ArchiveCourse == ASSUME AttemptInv, PublicationInv, NEW p \in Procs, BuildArchive(p) PROVE PublicationInv'
<1>1. Holds(p, "archive") /\ UNCHANGED <<events, pending, runs, final, apple>> /\ "archive" \in ExecLabels
  BY DEF BuildArchive, Journal, Outside, ExecLabels
<1>2. DirectAt("archive", proc[p], events, disk) /\ "archive" # "append" /\ "archive" \notin AfterPublication
  BY <1>1, Executing
<1>3. DiskShaped(disk) /\ disk.claimed /\ RunsKnown(runs, events) /\ apple = [s \in Ids |-> apple[s]]
  BY <1>1, <1>2, Working
<1>4. CASE Exit(p) /\ UNCHANGED disk
  BY <1>1, <1>2, <1>3, <1>4, WorkingEnds
<1>5. CASE disk' = [disk EXCEPT !.intent = TRUE] /\ Record(p, "prepared", NoId, "none", "noticeReady")
  <2>1. Unbound(disk') /\ disk'.claimed /\ disk'.intent
    BY <1>2, <1>3, <1>5 DEF DiskShaped, DiskFields, Unbound, DirectAt, PlanDisk
  <2>2. Len(events) = 0
    BY <1>2 DEF DirectAt, PlanLength
  <2>3. PlanLength("noticeReady", Len(events) + 1) /\ PlanDisk("noticeReady", disk')
    BY <2>1, <2>2 DEF PlanLength, PlanDisk, FinalLabels
  <2>4. Len(events) < 15 /\ "prepared" = PlanState(Len(events) + 1) /\ NoId = (IF Len(events) + 1 < 4 THEN NoId ELSE Orig)
    BY <2>2, PlanTable
  <2> QED
    BY <1>1, <1>5, <2>1, <2>3, <2>4, DirectRecord DEF ExecLabels
<1> QED
  BY <1>4, <1>5 DEF BuildArchive

LEMMA NoticeCourse == ASSUME AttemptInv, PublicationInv, NEW p \in Procs, NotaryReady(p) PROVE PublicationInv'
<1>1. /\ Holds(p, "noticeReady") /\ UNCHANGED <<events, pending, disk, runs, final, apple>> /\ "noticeReady" \in ExecLabels
      /\ Record(p, "notary_ready", NoId, "none", "submitting")
  BY DEF NotaryReady, Journal, Outside, ExecLabels
<1>2. DirectAt("noticeReady", proc[p], events, disk) /\ "noticeReady" # "append" /\ "noticeReady" \notin AfterPublication
  BY <1>1, Executing
<1>3. disk.claimed
  BY <1>1, <1>2, Working
<1>4. Len(events) = 1
  BY <1>2 DEF DirectAt, PlanLength
<1>5. PlanLength("submitting", Len(events) + 1) /\ PlanDisk("submitting", disk')
  BY <1>1, <1>2, <1>4 DEF PlanLength, PlanDisk, DirectAt, FinalLabels
<1>6. Len(events) < 15 /\ "notary_ready" = PlanState(Len(events) + 1) /\ NoId = (IF Len(events) + 1 < 4 THEN NoId ELSE Orig)
  BY <1>4, PlanTable
<1> QED
  BY <1>1, <1>3, <1>5, <1>6, DirectRecord DEF ExecLabels

LEMMA BeginSubmitCourse == ASSUME AttemptInv, PublicationInv, NEW p \in Procs, BeginSubmit(p) PROVE PublicationInv'
<1>1. /\ Holds(p, "submitting") /\ UNCHANGED <<events, pending, disk, runs, final, apple>> /\ "submitting" \in ExecLabels
  BY DEF BeginSubmit, Journal, Outside, ExecLabels
<1>2. DirectAt("submitting", proc[p], events, disk) /\ "submitting" # "append" /\ "submitting" \notin AfterPublication
  BY <1>1, Executing
<1>3. disk.claimed /\ RunsKnown(runs, events) /\ apple = [s \in Ids |-> apple[s]]
  BY <1>1, <1>2, Working
<1>4. CASE \E st, code : Raise(p, st, code)
  BY <1>1, <1>2, <1>3, <1>4, WorkingEnds
<1>5. CASE Record(p, "submitting", NoId, "none", "submit")
  <2>1. Len(events) = 2
    BY <1>2 DEF DirectAt, PlanLength
  <2>2. PlanLength("submit", Len(events) + 1) /\ PlanDisk("submit", disk')
    BY <1>1, <1>2, <2>1 DEF PlanLength, PlanDisk, DirectAt, FinalLabels
  <2>3. Len(events) < 15 /\ "submitting" = PlanState(Len(events) + 1) /\ NoId = (IF Len(events) + 1 < 4 THEN NoId ELSE Orig)
    BY <2>1, PlanTable
  <2> QED
    BY <1>1, <1>3, <1>5, <2>2, <2>3, DirectRecord DEF ExecLabels
<1> QED
  BY <1>4, <1>5 DEF BeginSubmit

LEMMA SubmitCourse == ASSUME AttemptInv, PublicationInv, NEW p \in Procs, Submit(p) PROVE PublicationInv'
<1>1. /\ Holds(p, "submit") /\ UNCHANGED <<events, pending, disk, runs, final>> /\ "submit" \in ExecLabels
  BY DEF Submit, Journal, ExecLabels
<1>2. DirectAt("submit", proc[p], events, disk) /\ "submit" # "append" /\ "submit" \notin AfterPublication
  BY <1>1, Executing
<1>3. lock = p /\ disk.claimed /\ RunsKnown(runs, events) /\ apple = [s \in Ids |-> apple[s]] /\ ~(final > 0)
  BY <1>1, <1>2, Working
<1>4. apple' = [s \in Ids |-> apple'[s]]
  BY <1>3 DEF Submit
<1>5. CASE \E st, code : Raise(p, st, code)
  BY <1>1, <1>2, <1>3, <1>4, <1>5, WorkingEnds
<1>6. CASE \E y : proc' = [proc EXCEPT ![p].pc = "reply", ![p].reply = y, ![p].sub = Orig]
  <2>1. PICK y : proc' = [proc EXCEPT ![p].pc = "reply", ![p].reply = y, ![p].sub = Orig]
    BY <1>6
  <2>2. PICK r : r = [proc[p] EXCEPT !.pc = "reply", !.reply = y, !.sub = Orig]
    OBVIOUS
  <2>3. proc' = [proc EXCEPT ![p] = r]
    BY <2>1, <2>2 DEF AttemptInv
  <2>4. r.pc = "reply" /\ r.sub = Orig
    BY <2>2 DEF AttemptInv, Shaped, ProcFields
  <2>5. Towards(r) = "reply" /\ Going(r, events') = events'
    BY <2>4 DEF Towards, Going
  <2>6. DirectAt("reply", r, events', disk')
    BY <1>1, <1>2, <2>4 DEF DirectAt, PlanLength, PlanDisk, FinalLabels
  <2>7. Course("reply", r, events', disk', runs', apple', final')
    BY <1>1, <1>3, <2>6, ExecuteCourse DEF ExecLabels
  <2>8. Surroundings' /\ ~(final' > 0)
    BY <1>1, <1>3, <1>4, UnpublishedSurroundings DEF Unpublished
  <2> QED
    BY <1>3, <2>3, <2>5, <2>7, <2>8, PublicationStep
<1> QED
  BY <1>5, <1>6 DEF Submit

LEMMA ObserveCourse == ASSUME AttemptInv, PublicationInv, NEW p \in Procs, ObserveSubmission(p) PROVE PublicationInv'
<1>1. Holds(p, "reply") /\ UNCHANGED <<events, pending, runs, final, apple>> /\ "reply" \in ExecLabels
  BY DEF ObserveSubmission, Journal, Outside, ExecLabels
<1>2. DirectAt("reply", proc[p], events, disk) /\ "reply" # "append" /\ "reply" \notin AfterPublication
  BY <1>1, Executing
<1>3. DiskShaped(disk) /\ disk.claimed /\ RunsKnown(runs, events) /\ apple = [s \in Ids |-> apple[s]]
  BY <1>1, <1>2, Working
<1>4. disk' = disk \/ disk' = [disk EXCEPT !.observation = proc[p].sub]
  BY DEF ObserveSubmission
<1>5. disk'.claimed
  BY <1>3, <1>4 DEF DiskShaped, DiskFields
<1>6. CASE \E st, code : Raise(p, st, code)
  BY <1>1, <1>2, <1>3, <1>5, <1>6, WorkingEnds
<1>7. CASE disk' = [disk EXCEPT !.observation = proc[p].sub] /\ Goto(p, "receive")
  <2>1. proc[p].sub = Orig
    BY <1>2 DEF DirectAt
  <2>2. Unbound(disk') /\ disk'.intent = disk.intent /\ disk'.observation = Orig
    BY <1>2, <1>3, <1>7, <2>1 DEF DiskShaped, DiskFields, Unbound, DirectAt, PlanDisk
  <2>3. PlanLength("receive", Len(events)) /\ PlanDisk("receive", disk')
    BY <1>2, <2>2 DEF DirectAt, PlanLength, PlanDisk, FinalLabels
  <2> QED
    BY <1>1, <1>5, <1>7, <2>1, <2>3, DirectGoto DEF ExecLabels
<1> QED
  BY <1>6, <1>7 DEF ObserveSubmission

LEMMA ReceiveCourse == ASSUME AttemptInv, PublicationInv, NEW p \in Procs, ReceiveSubmission(p) PROVE PublicationInv'
<1>1. Holds(p, "receive") /\ UNCHANGED <<events, pending, runs, final, apple>> /\ "receive" \in ExecLabels
  BY DEF ReceiveSubmission, Journal, Outside, ExecLabels
<1>2. DirectAt("receive", proc[p], events, disk) /\ "receive" # "append" /\ "receive" \notin AfterPublication
  BY <1>1, Executing
<1>3. DiskShaped(disk) /\ disk.claimed /\ RunsKnown(runs, events) /\ apple = [s \in Ids |-> apple[s]]
  BY <1>1, <1>2, Working
<1>4. CASE (\E st, code : Raise(p, st, code)) /\ UNCHANGED disk
  BY <1>1, <1>2, <1>3, <1>4, WorkingEnds
<1>5. CASE /\ disk' = [disk EXCEPT !.receipt = proc[p].sub, !.acquisition = "submit-no-wait"]
           /\ Record(p, "submitted", proc[p].sub, "none", "wait")
  <2>1. proc[p].sub = Orig
    BY <1>2 DEF DirectAt
  <2>2. /\ Unbound(disk') /\ disk'.intent = disk.intent /\ disk'.observation = disk.observation
        /\ disk'.receipt = Orig /\ disk'.acquisition = "submit-no-wait" /\ disk'.claimed
    BY <1>2, <1>3, <1>5, <2>1 DEF DiskShaped, DiskFields, Unbound, DirectAt, PlanDisk
  <2>3. Len(events) = 3
    BY <1>2 DEF DirectAt, PlanLength
  <2>4. PlanLength("wait", Len(events) + 1) /\ PlanDisk("wait", disk')
    BY <1>2, <2>2, <2>3 DEF DirectAt, PlanLength, PlanDisk, FinalLabels
  <2>5. Len(events) < 15 /\ "submitted" = PlanState(Len(events) + 1) /\ Orig = (IF Len(events) + 1 < 4 THEN NoId ELSE Orig)
    BY <2>3, PlanTable
  <2> QED
    BY <1>1, <1>5, <2>1, <2>2, <2>4, <2>5, DirectRecord DEF ExecLabels
<1> QED
  BY <1>4, <1>5 DEF ReceiveSubmission

LEMMA WaitCourse == ASSUME AttemptInv, PublicationInv, NEW p \in Procs, WaitForApple(p) PROVE PublicationInv'
<1>1. Holds(p, "wait") /\ UNCHANGED <<events, pending, disk, runs, final, apple>> /\ "wait" \in ExecLabels
  BY DEF WaitForApple, Journal, Outside, ExecLabels
<1>2. DirectAt("wait", proc[p], events, disk) /\ "wait" # "append" /\ "wait" \notin AfterPublication
  BY <1>1, Executing
<1>3. DiskShaped(disk) /\ disk.claimed /\ RunsKnown(runs, events) /\ apple = [s \in Ids |-> apple[s]]
  BY <1>1, <1>2, Working
<1>4. CASE \E st, code : Raise(p, st, code)
  BY <1>1, <1>2, <1>3, <1>4, WorkingEnds
<1>5. CASE apple[proc[p].sub] = "Accepted" /\ Goto(p, "reload")
  <2>1. proc[p].sub = Orig
    BY <1>2 DEF DirectAt
  <2>2. PlanLength("reload", Len(events)) /\ PlanDisk("reload", disk')
    BY <1>1, <1>2 DEF DirectAt, PlanLength, PlanDisk, FinalLabels
  <2> QED
    BY <1>1, <1>3, <1>5, <2>1, <2>2, DirectGoto DEF ExecLabels
<1> QED
  BY <1>4, <1>5 DEF WaitForApple, AppleStatus

LEMMA PrepareCourse == ASSUME AttemptInv, PublicationInv, NEW p \in Procs, PrepareDirect(p) PROVE PublicationInv'
<1>1. Holds(p, "reload") /\ UNCHANGED <<events, pending, disk, runs, final, apple>> /\ "reload" \in ExecLabels
  BY DEF PrepareDirect, Journal, Outside, ExecLabels
<1>2. /\ DirectAt("reload", proc[p], events, disk) /\ "reload" # "append" /\ "reload" \notin AfterPublication
      /\ apple[proc[p].sub] = "Accepted"
  BY <1>1, Executing
<1>3. DiskShaped(disk) /\ disk.claimed /\ RunsKnown(runs, events) /\ apple = [s \in Ids |-> apple[s]]
  BY <1>1, <1>2, Working
<1>4. CASE Exit(p) \/ \E st, code : Raise(p, st, code)
  BY <1>1, <1>2, <1>3, <1>4, WorkingEnds, SMTT(30)
<1>5. CASE Record(p, "direct_finalization_preparing", proc[p].sub, "none", "preserve")
  <2>1. proc[p].sub = Orig
    BY <1>2 DEF DirectAt
  <2>2. Len(events) = 4
    BY <1>2 DEF DirectAt, PlanLength
  <2>3. PlanLength("preserve", Len(events) + 1) /\ PlanDisk("preserve", disk')
    BY <1>1, <1>2, <2>2 DEF DirectAt, PlanLength, PlanDisk, FinalLabels
  <2>4. Len(events) < 15 /\ "direct_finalization_preparing" = PlanState(Len(events) + 1) /\ Orig = (IF Len(events) + 1 < 4 THEN NoId ELSE Orig)
    BY <2>2, PlanTable
  <2> QED
    BY <1>1, <1>2, <1>3, <1>5, <2>1, <2>3, <2>4, DirectRecord DEF ExecLabels
<1> QED
  BY <1>4, <1>5 DEF PrepareDirect

LEMMA PreserveCourse == ASSUME AttemptInv, PublicationInv, NEW p \in Procs, PreserveSource(p) PROVE PublicationInv'
<1>1. Holds(p, "preserve") /\ UNCHANGED <<events, pending, runs, final, apple>> /\ "preserve" \in ExecLabels
  BY DEF PreserveSource, Journal, Outside, ExecLabels
<1>2. /\ DirectAt("preserve", proc[p], events, disk) /\ "preserve" # "append" /\ "preserve" \notin AfterPublication
      /\ apple[proc[p].sub] = "Accepted"
  BY <1>1, Executing
<1>3. DiskShaped(disk) /\ disk.claimed /\ RunsKnown(runs, events) /\ apple = [s \in Ids |-> apple[s]]
  BY <1>1, <1>2, Working
<1>4. disk' = disk \/ disk' = [disk EXCEPT !.source = "recovery-source"]
  BY DEF PreserveSource, Preserved, HalfPreserved
<1>5. disk'.claimed
  BY <1>3, <1>4 DEF DiskShaped, DiskFields
<1>6. CASE \E st, code : Raise(p, st, code)
  BY <1>1, <1>2, <1>3, <1>5, <1>6, WorkingEnds
<1>7. CASE disk' = [disk EXCEPT !.source = "recovery-source"] /\ Goto(p, "ready")
  <2>1. proc[p].sub = Orig
    BY <1>2 DEF DirectAt
  <2>2. /\ Unbound(disk') /\ disk'.intent = disk.intent /\ disk'.observation = disk.observation
        /\ disk'.receipt = disk.receipt /\ disk'.acquisition = disk.acquisition /\ disk'.source = "recovery-source"
    BY <1>2, <1>3, <1>7 DEF DiskShaped, DiskFields, Unbound, DirectAt, PlanDisk
  <2>3. PlanLength("ready", Len(events)) /\ PlanDisk("ready", disk')
    BY <1>2, <2>2 DEF DirectAt, PlanLength, PlanDisk, FinalLabels
  <2> QED
    BY <1>1, <1>2, <1>5, <1>7, <2>1, <2>3, DirectGoto DEF ExecLabels
<1> QED
  BY <1>6, <1>7 DEF PreserveSource, Preserved

LEMMA BoundaryCourse == ASSUME AttemptInv, PublicationInv, NEW p \in Procs, DirectBoundary(p) PROVE PublicationInv'
<1>1. /\ Holds(p, "ready") /\ UNCHANGED <<events, pending, disk, runs, final, apple>> /\ "ready" \in ExecLabels
      /\ Record(p, "direct_finalization_ready", proc[p].sub, "none", "start")
  BY DEF DirectBoundary, Journal, Outside, ExecLabels
<1>2. /\ DirectAt("ready", proc[p], events, disk) /\ "ready" # "append" /\ "ready" \notin AfterPublication
      /\ apple[proc[p].sub] = "Accepted"
  BY <1>1, Executing
<1>3. disk.claimed
  BY <1>1, <1>2, Working
<1>4. proc[p].sub = Orig
  BY <1>2 DEF DirectAt
<1>5. Len(events) = 5
  BY <1>2 DEF DirectAt, PlanLength
<1>6. PlanLength("start", Len(events) + 1) /\ PlanDisk("start", disk')
  BY <1>1, <1>2, <1>5 DEF DirectAt, PlanLength, PlanDisk, FinalLabels
<1>7. Len(events) < 15 /\ "direct_finalization_ready" = PlanState(Len(events) + 1) /\ Orig = (IF Len(events) + 1 < 4 THEN NoId ELSE Orig)
  BY <1>5, PlanTable
<1> QED
  BY <1>1, <1>2, <1>3, <1>4, <1>6, <1>7, DirectRecord DEF ExecLabels

-----------------------------------------------------------------------------
(* The finalization.                                                        *)
LEMMA Finalizing ==
    ASSUME AttemptInv, PublicationInv, NEW p \in Procs, NEW l \in FinalLabels, Holds(p, l)
    PROVE  /\ l # "append" /\ l \notin AfterPublication
           /\ disk.rintent = NoId => DirectAt(l, proc[p], events, disk)
           /\ RunsAt(l, proc[p], events, runs) /\ BoundAt(l, proc[p], events, disk, apple)
           /\ proc[p].sub \in Ids /\ apple[proc[p].sub] = "Accepted"
<1>1. l # "append" /\ l \notin AfterPublication
  BY DEF FinalLabels, AfterPublication
<1>2. Course(l, proc[p], events, disk, runs, apple, final)
  BY <1>1, Working
<1> QED
  BY <1>1, <1>2 DEF Course, BoundAt

(* An event of a finalization.                                              *)
LEMMA FinalRecord ==
    ASSUME AttemptInv, PublicationInv, NEW p \in Procs, NEW l \in FinalLabels, Holds(p, l),
           NEW st, NEW next \in {"allocate", "stage", "receipt", "publish"}, Record(p, st, proc[p].sub, "none", next),
           UNCHANGED <<events, pending, disk, final, apple>>, RunsKnown(runs', events),
           disk.rintent = NoId =>
              PlanLength(next, Len(events) + 1) /\ st = PlanState(Len(events) + 1) /\ Len(events) \in 6..14,
           \A e : RunsAt(next, proc[p], Append(events, e), runs'),
           next \in {"receipt", "publish"} \/ (next = "stage" /\ st # "finalization_started") => disk.receipt = proc[p].sub
    PROVE  PublicationInv'
<1>1. /\ l # "append" /\ l \notin AfterPublication
      /\ disk.rintent = NoId => DirectAt(l, proc[p], events, disk)
      /\ proc[p].sub \in Ids /\ apple[proc[p].sub] = "Accepted"
  BY Finalizing
<1>2. /\ lock = p /\ ~(final > 0) /\ apple = [s \in Ids |-> apple[s]] /\ Len(events) \in Nat /\ disk.claimed /\ IsSeq(events)
  BY <1>1, Working
<1>3. PICK e : e = [st |-> st, sub |-> proc[p].sub, code |-> "none"]
  OBVIOUS
<1>4. e.st = st /\ e.sub = proc[p].sub
  BY <1>3
<1>5. PICK a : a = Append(events, e)
  OBVIOUS
<1>6. Len(a) = Len(events) + 1 /\ a[Len(events) + 1] = e
  BY <1>2, <1>5, Appended
<1>7. a[Len(a)].st = st
  BY <1>4, <1>6, Zenon
<1>8. ASSUME disk.rintent = NoId PROVE DirectAt(next, proc[p], a, disk)
  <2>1. DirectAt(l, proc[p], events, disk) /\ proc[p].sub = Orig
    BY <1>1, <1>8 DEF DirectAt
  <2>2. \A n \in Nat : n \in 6..14 => n < 16 /\ n # 15 /\ ~(n + 1 < 4)
    OBVIOUS
  <2>3. /\ Len(events) < 16 /\ Len(events) # 15 /\ AsPlanned(events)
        /\ e.st = PlanState(Len(events) + 1) /\ e.sub = (IF Len(events) + 1 < 4 THEN NoId ELSE Orig)
    <3>1. Len(events) < 16 /\ Len(events) # 15 /\ ~(Len(events) + 1 < 4)
      BY <1>2, <1>8, <2>2
    <3>2. AsPlanned(events)
      BY <2>1 DEF DirectAt
    <3>3. e.st = PlanState(Len(events) + 1)
      BY <1>4, <1>8, Zenon
    <3>4. e.sub = (IF Len(events) + 1 < 4 THEN NoId ELSE Orig)
      BY <1>4, <2>1, <3>1
    <3> QED
      BY <3>1, <3>2, <3>3, <3>4
  <2>4. AsPlanned(a)
    BY <1>5, <2>3, PlannedAppend
  <2>5. PlanDisk(next, disk)
    BY <2>1 DEF DirectAt, PlanDisk, FinalLabels
  <2>6. PlanLength(next, Len(a))
    BY <1>6, <1>8
  <2> QED
    BY <2>1, <2>4, <2>5, <2>6 DEF DirectAt
<1>9. RunsAt(next, proc[p], a, runs')
  BY <1>5
<1>10. BoundAt(next, proc[p], a, disk, apple)
  BY <1>1, <1>7 DEF BoundAt, ExecLabels, BoundLabels
<1>11. Course(next, proc[p], Append(events', e), disk', runs', apple', final')
  BY <1>2, <1>5, <1>8, <1>9, <1>10 DEF Course
<1>12. Surroundings' /\ ~(final' > 0)
  BY <1>2, UnpublishedSurroundings DEF Unpublished
<1> QED
  BY <1>2, <1>3, <1>11, <1>12, PublicationRecord

(* The receipts of the runs point into the journal.                         *)
LEMMA ReceiptsBelow ==
    ASSUME IsSeq(events), RunsKnown(runs, events), NEW e
    PROVE  /\ Len(events) \in Nat /\ Len(Append(events, e)) = Len(events) + 1
           /\ \A x \in DOMAIN runs : runs[x].receipt \in Nat /\ runs[x].receipt <= Len(events)
           /\ \A x \in DOMAIN runs : runs[x].receipt < Len(Append(events, e))
<1>1. Len(events) \in Nat /\ Len(Append(events, e)) = Len(events) + 1
  BY Appended
<1>2. \A x \in DOMAIN runs : runs[x].receipt \in 0..Len(events)
  BY DEF RunsKnown
<1> QED
  BY <1>1, <1>2

LEMMA StartCourse == ASSUME AttemptInv, PublicationInv, NEW p \in Procs, StartFinalization(p) PROVE PublicationInv'
<1>1. /\ Holds(p, "start") /\ UNCHANGED <<events, pending, disk, runs, final, apple>> /\ "start" \in FinalLabels
      /\ Record(p, "finalization_started", proc[p].sub, "none", "allocate")
  BY DEF StartFinalization, Journal, Outside, FinalLabels
<1>2. /\ "start" # "append" /\ "start" \notin AfterPublication
      /\ disk.rintent = NoId => DirectAt("start", proc[p], events, disk)
  BY <1>1, Finalizing
<1>3. IsSeq(events) /\ RunsKnown(runs, events)
  BY <1>1, <1>2, Working
<1>4. ASSUME NEW e PROVE RunsAt("allocate", proc[p], Append(events, e), runs')
  BY <1>1, <1>3, ReceiptsBelow DEF RunsAt
<1>5. ASSUME disk.rintent = NoId
      PROVE  PlanLength("allocate", Len(events) + 1) /\ "finalization_started" = PlanState(Len(events) + 1) /\ Len(events) \in 6..14
  <2>1. Len(events) = 6
    BY <1>2, <1>5 DEF DirectAt, PlanLength
  <2> QED
    BY <2>1, PlanTable DEF PlanLength
<1> QED
  BY <1>1, <1>3, <1>4, <1>5, FinalRecord

LEMMA AllocateCourse == ASSUME AttemptInv, PublicationInv, NEW p \in Procs, AllocateRun(p) PROVE PublicationInv'
<1>1. /\ Holds(p, "allocate") /\ UNCHANGED <<events, pending, final, apple>> /\ "allocate" \in FinalLabels
      /\ disk' = disk \/ disk' = [disk EXCEPT !.source = "recovery-source"]
  BY DEF AllocateRun, ByteQuotaExceeded, Journal, Outside, FinalLabels, HalfPreserved, Preserved
<1>2. /\ "allocate" # "append" /\ "allocate" \notin AfterPublication
      /\ disk.rintent = NoId => DirectAt("allocate", proc[p], events, disk)
      /\ RunsAt("allocate", proc[p], events, runs) /\ BoundAt("allocate", proc[p], events, disk, apple)
  BY <1>1, Finalizing
<1>3. /\ DiskShaped(disk) /\ disk.claimed /\ RunsKnown(runs, events) /\ apple = [s \in Ids |-> apple[s]]
      /\ lock = p /\ ~(final > 0) /\ IsSeq(events) /\ Len(events) \in Nat
  BY <1>1, <1>2, Working
<1>4. /\ disk'.claimed /\ disk'.rintent = disk.rintent /\ disk'.receipt = disk.receipt
      /\ disk'.cont = disk.cont /\ disk'.contPending = disk.contPending /\ disk'.intent = disk.intent
      /\ disk'.observation = disk.observation /\ disk'.acquisition = disk.acquisition
      /\ disk' # disk => disk'.source = "recovery-source"
  BY <1>1, <1>3 DEF DiskShaped, DiskFields
<1>5. CASE UNCHANGED runs /\ \E st, code : Raise(p, st, code)
  BY <1>1, <1>2, <1>3, <1>4, <1>5, WorkingEnds
<1>6. CASE \E n : /\ runs' = [x \in DOMAIN runs \cup {n} |->
                            IF x = n THEN [files |-> "empty", pend |-> FALSE, receipt |-> 0] ELSE runs[x]]
                  /\ proc' = [proc EXCEPT ![p].pc = "copy", ![p].run = n]
  <2>1. PICK n : /\ runs' = [x \in DOMAIN runs \cup {n} |->
                            IF x = n THEN [files |-> "empty", pend |-> FALSE, receipt |-> 0] ELSE runs[x]]
                 /\ proc' = [proc EXCEPT ![p].pc = "copy", ![p].run = n]
    BY <1>6
  <2>2. PICK r : r = [proc[p] EXCEPT !.pc = "copy", !.run = n]
    OBVIOUS
  <2>3. proc' = [proc EXCEPT ![p] = r]
    BY <2>1, <2>2 DEF AttemptInv
  <2>4. r.pc = "copy" /\ r.run = n /\ r.sub = proc[p].sub
    BY <2>2 DEF AttemptInv, Shaped, ProcFields
  <2>5. Towards(r) = "copy" /\ Going(r, events') = events'
    BY <2>4 DEF Towards, Going
  <2>6. /\ DOMAIN runs' = DOMAIN runs \cup {n}
        /\ \A x \in DOMAIN runs' : \/ runs'[x] = [files |-> "empty", pend |-> FALSE, receipt |-> 0]
                                   \/ x \in DOMAIN runs /\ runs'[x] = runs[x]
    BY <2>1
  <2>7. RunsAt("copy", r, events, runs')
    BY <1>2, <1>3, <2>4, <2>6 DEF RunsAt
  <2>8. RunsKnown(runs', events)
    <3>1. runs' = [x \in DOMAIN runs' |-> runs'[x]]
      BY <2>1
    <3>2. ASSUME NEW x \in DOMAIN runs' PROVE runs'[x] = [f \in RunFields |-> runs'[x][f]] /\ runs'[x].receipt \in 0..Len(events)
      BY <1>3, <2>6 DEF RunsKnown, RunFields
    <3> QED
      BY <3>1, <3>2 DEF RunsKnown
  <2>9. disk'.rintent = NoId => DirectAt("copy", r, events, disk')
    BY <1>2, <1>4, <2>4 DEF DirectAt, PlanLength, PlanDisk, Unbound, FinalLabels
  <2>10. BoundAt("copy", r, events, disk', apple)
    BY <1>2, <2>4 DEF BoundAt, FinalLabels, ExecLabels, BoundLabels
  <2>11. Course("copy", r, events', disk', runs', apple', final')
    BY <1>1, <1>3, <2>7, <2>9, <2>10 DEF Course
  <2>12. Surroundings' /\ ~(final' > 0)
    BY <1>1, <1>3, <1>4, <2>8, UnpublishedSurroundings DEF Unpublished
  <2> QED
    BY <1>3, <2>3, <2>5, <2>11, <2>12, PublicationStep
<1> QED
  BY <1>5, <1>6 DEF AllocateRun, ByteQuotaExceeded

(* A run is removed.                                                        *)
LEMMA RunRemoved ==
    ASSUME NEW r, NEW ev, RunsKnown(runs, ev) PROVE RunsKnown(WithoutRun(r), ev)
<1>1. PICK w : w = WithoutRun(r)
  OBVIOUS
<1>2. DOMAIN w \subseteq DOMAIN runs /\ (\A x \in DOMAIN w : w[x] = runs[x]) /\ w = [x \in DOMAIN w |-> w[x]]
  BY <1>1 DEF WithoutRun
<1> QED
  BY <1>1, <1>2 DEF RunsKnown

LEMMA CopyCourse == ASSUME AttemptInv, PublicationInv, NEW p \in Procs, CopySource(p) PROVE PublicationInv'
<1>1. Holds(p, "copy") /\ UNCHANGED <<events, pending, disk, final, apple>> /\ "copy" \in FinalLabels
  BY DEF CopySource, Journal, Outside, FinalLabels
<1>2. /\ "copy" # "append" /\ "copy" \notin AfterPublication
      /\ disk.rintent = NoId => DirectAt("copy", proc[p], events, disk)
      /\ RunsAt("copy", proc[p], events, runs) /\ BoundAt("copy", proc[p], events, disk, apple)
  BY <1>1, Finalizing
<1>3. /\ disk.claimed /\ RunsKnown(runs, events) /\ apple = [s \in Ids |-> apple[s]]
      /\ lock = p /\ ~(final > 0)
  BY <1>1, <1>2, Working
<1>4. CASE runs' = [runs EXCEPT ![proc[p].run].files = "work"] /\ Goto(p, "stage")
  <2>1. DOMAIN runs' = DOMAIN runs /\ \A x \in DOMAIN runs : runs'[x] = [runs[x] EXCEPT !.files = "work"] \/ runs'[x] = runs[x]
    BY <1>4
  <2>2. \A x \in DOMAIN runs : runs'[x] = [f \in RunFields |-> runs'[x][f]] /\ runs'[x].receipt = runs[x].receipt
    BY <1>3, <2>1 DEF RunsKnown, RunFields
  <2>3. runs' = [x \in DOMAIN runs' |-> runs'[x]]
    BY <1>4
  <2>4. RunsKnown(runs', events)
    BY <1>3, <2>1, <2>2, <2>3 DEF RunsKnown
  <2>5. RunsAt("stage", proc[p], events, runs')
    BY <1>2, <2>1, <2>2 DEF RunsAt
  <2>6. events[Len(events)].st = "finalization_started"
    BY <1>1, Holding
  <2>7. BoundAt("stage", proc[p], events, disk, apple)
    BY <1>2, <2>6 DEF BoundAt, FinalLabels, ExecLabels, BoundLabels
  <2>8. disk.rintent = NoId => DirectAt("stage", proc[p], events, disk)
    BY <1>2 DEF DirectAt, PlanLength, PlanDisk, FinalLabels
  <2>9. Course("stage", proc[p], events', disk', runs', apple', final')
    BY <1>1, <1>3, <2>5, <2>7, <2>8 DEF Course
  <2>10. Surroundings'
    BY <1>1, <1>3, <2>4, UnpublishedSurroundings DEF Unpublished
  <2> QED
    BY <1>3, <1>4, <2>9, <2>10, PublicationGoto
<1>5. ASSUME runs' \in {runs, [runs EXCEPT ![proc[p].run].files = "work"], WithoutRun(proc[p].run)} PROVE RunsKnown(runs', events)
  <2>1. CASE runs' = runs
    BY <1>3, <2>1
  <2>2. CASE runs' = [runs EXCEPT ![proc[p].run].files = "work"]
    <3>1. DOMAIN runs' = DOMAIN runs /\ \A x \in DOMAIN runs : runs'[x] = [runs[x] EXCEPT !.files = "work"] \/ runs'[x] = runs[x]
      BY <2>2
    <3>2. \A x \in DOMAIN runs : runs'[x] = [f \in RunFields |-> runs'[x][f]] /\ runs'[x].receipt = runs[x].receipt
      BY <1>3, <3>1 DEF RunsKnown, RunFields
    <3>3. runs' = [x \in DOMAIN runs' |-> runs'[x]]
      BY <2>2
    <3> QED
      BY <1>3, <3>1, <3>2, <3>3 DEF RunsKnown
  <2>3. CASE runs' = WithoutRun(proc[p].run)
    BY <1>3, <2>3, RunRemoved
  <2> QED
    BY <1>5, <2>1, <2>2, <2>3
<1>6. CASE /\ Exit(p) \/ (\E st, code : Raise(p, st, code)) \/ Record(p, "failed", proc[p].sub, "other", "exit")
           /\ runs' \in {runs, [runs EXCEPT ![proc[p].run].files = "work"], WithoutRun(proc[p].run)}
  <2>1. RunsKnown(runs', events)
    BY <1>5, <1>6
  <2>2. CASE Exit(p) \/ \E st, code : Raise(p, st, code)
    BY <1>1, <1>2, <1>3, <2>1, <2>2, WorkingEnds
  <2>3. CASE Record(p, "failed", proc[p].sub, "other", "exit")
    <3>1. PICK e : e = [st |-> "failed", sub |-> proc[p].sub, code |-> "other"]
      OBVIOUS
    <3>2. Course("exit", proc[p], Append(events', e), disk', runs', apple', final')
      BY QuietlyOn
    <3>3. Surroundings' /\ ~(final' > 0)
      BY <1>1, <1>3, <2>1, UnpublishedSurroundings DEF Unpublished
    <3> QED
      BY <1>3, <2>3, <3>1, <3>2, <3>3, PublicationRecord
  <2> QED
    BY <1>6, <2>2, <2>3
<1> QED
  BY <1>4, <1>6 DEF CopySource, CleanupRaises

(* The stage of a planned journal is the plan's next state.                 *)
LEMMA PlannedStage ==
    ASSUME AsPlanned(events), Len(events) \in 7..13
    PROVE  NextStage = Len(events) - 6 /\ FinalizationStates[Len(events) - 6] = PlanState(Len(events) + 1)
<1>1. PICK n \in 7..13 : n = Len(events)
  OBVIOUS
<1>2. PICK F : F = FinalizationStates
  OBVIOUS
<1>3. /\ DOMAIN F = 1..8 /\ F[1] = "accepted" /\ F[2] = "log_verified" /\ F[3] = "stapling" /\ F[4] = "stapled"
      /\ F[5] = "gatekeeper_verified" /\ F[6] = "app_verified" /\ F[7] = "distribution_verified" /\ F[8] = "sealed"
  BY <1>2 DEF FinalizationStates
<1>4. \A i, j \in 1..8 : F[i] = F[j] => i = j
  BY <1>3
<1>5. events[n].st = PlanState(n)
  BY <1>1 DEF AsPlanned
<1>6. \A m \in 7..13 : F[m - 6] = PlanState(m + 1) /\ (m > 7 => PlanState(m) = F[m - 7] /\ F[m - 7] # "finalization_started")
  <2> TAKE m \in 7..13
  <2>1. m = 7 \/ m = 8 \/ m = 9 \/ m = 10 \/ m = 11 \/ m = 12 \/ m = 13
    OBVIOUS
  <2> QED
    BY <1>3, <2>1, PlanTable
<1>7. CASE n = 7
  <2>1. events[Len(events)].st = "finalization_started"
    BY <1>1, <1>5, <1>7, PlanTable
  <2>2. NextStage = 1
    BY <2>1 DEF NextStage
  <2> QED
    BY <1>1, <1>2, <1>6, <1>7, <2>2
<1>8. CASE n > 7
  <2>1. PICK k \in 1..6 : k = n - 7
    BY <1>8
  <2>2. events[Len(events)].st = F[k] /\ F[k] # "finalization_started"
    BY <1>1, <1>5, <1>6, <1>8, <2>1
  <2>3. (CHOOSE i \in DOMAIN F : F[i] = F[k]) = k
    BY <1>3, <1>4, <2>1
  <2>4. NextStage = 1 + k
    BY <1>2, <2>2, <2>3 DEF NextStage
  <2>5. NextStage = n - 6
    BY <2>1, <2>4
  <2>6. F[n - 6] = PlanState(n + 1)
    BY <1>6
  <2> QED
    BY <1>1, <1>2, <2>5, <2>6, Zenon
<1> QED
  BY <1>7, <1>8

(* A stage of the finalization, with a receipt for the submission.          *)
LEMMA StageCourse ==
    ASSUME AttemptInv, PublicationInv, NEW p \in Procs, NEW k \in 1..7, NEW next, next = (IF k = 7 THEN "receipt" ELSE "stage"),
           Stage(p, k, next), k = 1 => disk.receipt = proc[p].sub,
           RunsKnown(runs', events), DOMAIN runs' = DOMAIN runs, \A x \in DOMAIN runs : runs'[x].receipt = runs[x].receipt
    PROVE  PublicationInv'
<1>1. Holds(p, "stage") /\ UNCHANGED <<events, pending, disk, final, apple>> /\ "stage" \in FinalLabels /\ NextStage = k
  BY DEF Stage, Journal, Outside, FinalLabels
<1>2. /\ "stage" # "append" /\ "stage" \notin AfterPublication
      /\ disk.rintent = NoId => DirectAt("stage", proc[p], events, disk)
      /\ RunsAt("stage", proc[p], events, runs) /\ BoundAt("stage", proc[p], events, disk, apple)
  BY <1>1, Finalizing
<1>3. /\ disk.claimed /\ RunsKnown(runs, events) /\ apple = [s \in Ids |-> apple[s]]
      /\ lock = p /\ ~(final > 0) /\ IsSeq(events) /\ Len(events) \in Nat
  BY <1>1, <1>2, Working
<1>4. CASE Raise(p, "failed", "other")
  BY <1>1, <1>2, <1>3, <1>4, WorkingEnds
<1>5. CASE Record(p, FinalizationStates[k], proc[p].sub, "none", next)
  <2>1. next \in {"stage", "receipt"}
    OBVIOUS
  <2>2. ASSUME NEW e PROVE RunsAt(next, proc[p], Append(events, e), runs')
    <3>1. Len(Append(events, e)) = Len(events) + 1 /\ \A x \in DOMAIN runs : runs[x].receipt < Len(Append(events, e))
      BY <1>3, ReceiptsBelow
    <3> QED
      BY <1>2, <1>3, <2>1, <3>1 DEF RunsAt
  <2>3. disk.receipt = proc[p].sub
    <3>1. CASE k = 1
      BY <3>1
    <3>2. CASE k # 1
      <4>1. events[Len(events)].st # "finalization_started"
        BY <1>1, <3>2 DEF NextStage
      <4> QED
        BY <1>2, <4>1 DEF BoundAt
    <3> QED
      BY <3>1, <3>2
  <2>4. ASSUME disk.rintent = NoId
        PROVE  PlanLength(next, Len(events) + 1) /\ FinalizationStates[k] = PlanState(Len(events) + 1) /\ Len(events) \in 6..14
    <3>1. Len(events) \in 7..13 /\ AsPlanned(events)
      BY <1>2, <2>4 DEF DirectAt, PlanLength
    <3>2. NextStage = Len(events) - 6 /\ FinalizationStates[Len(events) - 6] = PlanState(Len(events) + 1)
      BY <3>1, PlannedStage
    <3>3. k = Len(events) - 6
      BY <1>1, <3>2
    <3>4. FinalizationStates[k] = PlanState(Len(events) + 1)
      BY <3>2, <3>3, Zenon
    <3>5. PICK n \in 7..13 : n = Len(events)
      BY <3>1
    <3>6. Len(events) \in 6..14
      <4>1. \A m \in 7..13 : m \in 6..14
        OBVIOUS
      <4> QED
        BY <3>1, <4>1, Zenon
    <3>7. PlanLength(next, n + 1)
      <4>1. k = n - 6
        BY <3>3, <3>5, Zenon
      <4>2. CASE k = 7
        <5>1. next = "receipt" /\ n + 1 = 14
          BY <4>1, <4>2
        <5> QED
          BY <5>1 DEF PlanLength
      <4>3. CASE k # 7
        <5>1. next = "stage" /\ n + 1 \in 7..13
          BY <4>1, <4>3
        <5> QED
          BY <5>1 DEF PlanLength
      <4> QED
        BY <4>2, <4>3
    <3> QED
      BY <3>4, <3>5, <3>6, <3>7
  <2> QED
    BY <1>1, <1>5, <2>1, <2>2, <2>3, <2>4, FinalRecord
<1> QED
  BY <1>4, <1>5 DEF Stage

LEMMA StagesCourse ==
    ASSUME AttemptInv, PublicationInv, NEW p \in Procs, VerifyLog(p) \/ StapleTicket(p) \/ AssessApp(p) \/ PrepareDistribution(p)
    PROVE  PublicationInv'
<1>0. Holds(p, "stage") /\ UNCHANGED <<events, pending, disk, final, apple>> /\ "stage" \in FinalLabels
  BY DEF VerifyLog, StapleTicket, AssessApp, PrepareDistribution, Stage, Journal, Outside, FinalLabels
<1>1. "stage" # "append" /\ "stage" \notin AfterPublication /\ RunsAt("stage", proc[p], events, runs)
  BY <1>0, Finalizing
<1>2. RunsKnown(runs, events) /\ disk.claimed /\ apple = [s \in Ids |-> apple[s]]
  BY <1>0, <1>1, Working
<1>3. CASE UNCHANGED runs /\ \E k \in 1..6 : Stage(p, k, "stage") /\ (k = 1 => disk.receipt = proc[p].sub)
  <2>1. PICK k \in 1..6 : Stage(p, k, "stage") /\ (k = 1 => disk.receipt = proc[p].sub)
    BY <1>3
  <2>2. k \in 1..7 /\ "stage" = (IF k = 7 THEN "receipt" ELSE "stage")
    BY <2>1
  <2>3. RunsKnown(runs', events) /\ DOMAIN runs' = DOMAIN runs /\ \A x \in DOMAIN runs : runs'[x].receipt = runs[x].receipt
    BY <1>2, <1>3
  <2> QED
    BY <2>1, <2>2, <2>3, StageCourse
<1>4. CASE PrepareDistribution(p)
  <2>1. Stage(p, 7, "receipt") /\ (runs' = [runs EXCEPT ![proc[p].run].files = "ready"] \/ runs' = runs)
    BY <1>4 DEF PrepareDistribution
  <2>2. DOMAIN runs' = DOMAIN runs /\ \A x \in DOMAIN runs : runs'[x] = [runs[x] EXCEPT !.files = "ready"] \/ runs'[x] = runs[x]
    BY <2>1
  <2>3. \A x \in DOMAIN runs : runs'[x] = [f \in RunFields |-> runs'[x][f]] /\ runs'[x].receipt = runs[x].receipt
    BY <1>2, <2>2 DEF RunsKnown, RunFields
  <2>4. runs' = [x \in DOMAIN runs' |-> runs'[x]]
    BY <1>2, <2>1 DEF RunsKnown
  <2>5. RunsKnown(runs', events)
    BY <1>2, <2>2, <2>3, <2>4 DEF RunsKnown
  <2> QED
    BY <2>1, <2>2, <2>3, <2>5, StageCourse
<1>5. CASE UNCHANGED runs /\ \E st, code : Raise(p, st, code)
  BY <1>0, <1>1, <1>2, <1>5, WorkingEnds
<1> QED
  BY <1>3, <1>4, <1>5 DEF VerifyLog, StapleTicket, AssessApp, AcquisitionEvidence

LEMMA SealCourse == ASSUME AttemptInv, PublicationInv, NEW p \in Procs, SealReceipt(p) PROVE PublicationInv'
<1>1. Holds(p, "receipt") /\ UNCHANGED <<events, pending, disk, final, apple>> /\ "receipt" \in FinalLabels
  BY DEF SealReceipt, Journal, Outside, FinalLabels
<1>2. /\ "receipt" # "append" /\ "receipt" \notin AfterPublication
      /\ disk.rintent = NoId => DirectAt("receipt", proc[p], events, disk)
      /\ RunsAt("receipt", proc[p], events, runs) /\ BoundAt("receipt", proc[p], events, disk, apple)
  BY <1>1, Finalizing
<1>3. /\ disk.claimed /\ RunsKnown(runs, events) /\ apple = [s \in Ids |-> apple[s]]
      /\ lock = p /\ ~(final > 0) /\ IsSeq(events) /\ Len(events) \in Nat
  BY <1>1, <1>2, Working
<1>4. runs' = runs \/ runs' = [runs EXCEPT ![proc[p].run].receipt = Len(events)]
  BY DEF SealReceipt, BoundReceipt
<1>5. RunsKnown(runs', events)
  <2>1. DOMAIN runs' = DOMAIN runs /\ \A x \in DOMAIN runs : runs'[x] = [runs[x] EXCEPT !.receipt = Len(events)] \/ runs'[x] = runs[x]
    BY <1>4
  <2>2. \A x \in DOMAIN runs : runs'[x] = [f \in RunFields |-> runs'[x][f]] /\ runs'[x].receipt \in 0..Len(events)
    BY <1>3, <2>1 DEF RunsKnown, RunFields
  <2>3. runs' = [x \in DOMAIN runs' |-> runs'[x]]
    BY <1>3, <1>4 DEF RunsKnown
  <2> QED
    BY <1>3, <2>1, <2>2, <2>3 DEF RunsKnown
<1>6. CASE \E st, code : Raise(p, st, code)
  BY <1>1, <1>2, <1>3, <1>5, <1>6, WorkingEnds
<1>7. CASE runs' = BoundReceipt(proc[p].run) /\ Record(p, "sealed", proc[p].sub, "none", "publish")
  <2>1. /\ DOMAIN runs' = DOMAIN runs /\ proc[p].run \in DOMAIN runs
        /\ runs'[proc[p].run] = [runs[proc[p].run] EXCEPT !.receipt = Len(events)]
        /\ \A x \in DOMAIN runs : x # proc[p].run => runs'[x] = runs[x]
    BY <1>2, <1>7 DEF BoundReceipt, RunsAt
  <2>2. runs'[proc[p].run].receipt = Len(events)
    BY <1>3, <2>1 DEF RunsKnown, RunFields
  <2>3. \A x \in DOMAIN runs : x # proc[p].run => runs'[x].receipt < Len(events)
    BY <1>2, <2>1 DEF RunsAt
  <2>4. ASSUME NEW e PROVE RunsAt("publish", proc[p], Append(events, e), runs')
    <3>1. Len(Append(events, e)) - 1 = Len(events)
      BY <1>3, Appended
    <3> QED
      BY <2>1, <2>2, <2>3, <3>1 DEF RunsAt
  <2>5. disk.receipt = proc[p].sub
    BY <1>2 DEF BoundAt
  <2>6. ASSUME disk.rintent = NoId
        PROVE  PlanLength("publish", Len(events) + 1) /\ "sealed" = PlanState(Len(events) + 1) /\ Len(events) \in 6..14
    <3>1. Len(events) = 14
      BY <1>2, <2>6 DEF DirectAt, PlanLength
    <3> QED
      BY <3>1, PlanTable DEF PlanLength
  <2> QED
    BY <1>1, <1>5, <1>7, <2>4, <2>5, <2>6, FinalRecord
<1> QED
  BY <1>6, <1>7 DEF SealReceipt

(* The outcome of a publication leaves its receipt matched.                 *)
LEMMA LineageAppend ==
    ASSUME NEW ev, IsSeq(ev), NEW j \in Nat, j = Len(ev) - 1, SealedLineage(ev, j),
           NEW e, e.st = "outcome_unknown", e.code = "publish"
    PROVE  SealedLineage(Append(ev, e), j)
<1>1. PICK a : a = Append(ev, e)
  OBVIOUS
<1>2. /\ Len(ev) \in Nat /\ Len(a) = Len(ev) + 1 /\ DOMAIN ev = 1..Len(ev) /\ DOMAIN a = 1..(Len(ev) + 1)
      /\ (\A i \in 1..Len(ev) : a[i] = ev[i]) /\ a[Len(ev) + 1] = e
  BY <1>1, Appended
<1>3. StateAt(a, j) = StateAt(ev, j) /\ StateAt(a, j + 1) = StateAt(ev, j + 1)
  <2>1. j \in DOMAIN ev /\ j + 1 \in DOMAIN ev
    BY <1>2 DEF SealedLineage, StateAt
  <2> QED
    BY <1>2, <2>1 DEF StateAt
<1>4. Len(a) = j + 2 /\ a[j + 2] = e
  <2>1. Len(ev) + 1 = j + 2
    BY <1>2
  <2> QED
    BY <1>2, <2>1
<1> QED
  BY <1>1, <1>3, <1>4 DEF SealedLineage

LEMMA PublishCourse == ASSUME AttemptInv, PublicationInv, NEW p \in Procs, PublishSealed(p) PROVE PublicationInv'
<1>1. Holds(p, "publish") /\ UNCHANGED <<events, pending, disk, runs, apple>> /\ "publish" \in FinalLabels
  BY DEF PublishSealed, Journal, Outside, FinalLabels
<1>2. /\ "publish" # "append" /\ "publish" \notin AfterPublication
      /\ disk.rintent = NoId => DirectAt("publish", proc[p], events, disk)
      /\ RunsAt("publish", proc[p], events, runs) /\ BoundAt("publish", proc[p], events, disk, apple)
      /\ proc[p].sub \in Ids /\ apple[proc[p].sub] = "Accepted"
  BY <1>1, Finalizing
<1>3. /\ disk.claimed /\ RunsKnown(runs, events) /\ apple = [s \in Ids |-> apple[s]]
      /\ lock = p /\ ~(final > 0) /\ IsSeq(events) /\ Len(events) \in Nat /\ pending = NoEvent
  BY <1>1, <1>2, Working
<1>4. CASE Raise(p, "failed", "other") /\ UNCHANGED final
  BY <1>1, <1>2, <1>3, <1>4, WorkingEnds
<1>5. ASSUME SealedPublication(proc[p].run, events), final' = proc[p].run
      PROVE  Stands(events', disk', runs', apple', final') /\ Surroundings'
  <2>1. /\ proc[p].run \in DOMAIN runs /\ runs[proc[p].run].receipt > 0 /\ SealedLineage(events, runs[proc[p].run].receipt)
    BY <1>2, <1>5 DEF RunsAt, SealedPublication
  <2>2. runs[proc[p].run].receipt = Len(events) - 1 /\ \A x \in DOMAIN runs : x # proc[p].run => runs[x].receipt < Len(events) - 1
    BY <1>2 DEF RunsAt
  <2>3. \A x \in DOMAIN runs : x # proc[p].run => runs[x].receipt # runs[proc[p].run].receipt
    <3>1. \A x \in DOMAIN runs : runs[x].receipt \in 0..Len(events)
      BY <1>3 DEF RunsKnown
    <3> QED
      BY <1>3, <2>2, <3>1
  <2>4. disk.receipt = proc[p].sub
    BY <1>2 DEF BoundAt
  <2>5. disk.rintent = NoId => AsPlanned(events) /\ PlanDisk("publish", disk)
    BY <1>2 DEF DirectAt
  <2>6. Stands(events', disk', runs', apple', final')
    BY <1>1, <1>2, <1>5, <2>1, <2>3, <2>4, <2>5 DEF Stands
  <2> QED
    BY <1>1, <1>3, <2>6 DEF Surroundings
<1>6. CASE SealedPublication(proc[p].run, events) /\ final' = proc[p].run /\ Exit(p)
  BY <1>3, <1>5, <1>6, PublicationExit
<1>7. CASE SealedPublication(proc[p].run, events) /\ final' = proc[p].run /\ Raise(p, "outcome_unknown", "publish")
  <2>1. PICK next : next = IF proc[p].run > 0 THEN "cleanup" ELSE "exit"
    OBVIOUS
  <2>2. next \in {"cleanup", "exit"} /\ Record(p, "outcome_unknown", proc[p].sub, "publish", next)
    BY <1>7, <2>1 DEF Raise
  <2>3. PICK e : e = [st |-> "outcome_unknown", sub |-> proc[p].sub, code |-> "publish"]
    OBVIOUS
  <2>4. e.st = "outcome_unknown" /\ e.code = "publish" /\ e.sub = proc[p].sub
    BY <2>3
  <2>5. Course(next, proc[p], Append(events', e), disk', runs', apple', final')
    BY <2>2, QuietlyOn
  <2>6. Stands(events', disk', runs', apple', final') /\ Surroundings'
    BY <1>5, <1>7
  <2>7. SealedLineage(Append(events, e), runs[proc[p].run].receipt)
    <3>1. runs[proc[p].run].receipt = Len(events) - 1 /\ proc[p].run \in DOMAIN runs
      BY <1>2 DEF RunsAt
    <3>2. runs[proc[p].run].receipt \in Nat
      BY <1>3, <3>1 DEF RunsKnown
    <3>3. SealedLineage(events, runs[proc[p].run].receipt)
      BY <1>7 DEF SealedPublication
    <3> QED
      BY <1>3, <2>4, <3>1, <3>2, <3>3, LineageAppend
  <2>8. ASSUME disk.rintent = NoId PROVE AsPlanned(Append(events, e))
    <3>1. AsPlanned(events) /\ Len(events) = 15 /\ proc[p].sub = Orig
      BY <1>1, <1>2, <2>8 DEF DirectAt, PlanLength
    <3>2. e.st = PlanState(Len(events) + 1) /\ e.sub = (IF Len(events) + 1 < 4 THEN NoId ELSE Orig) /\ Len(events) < 16
      BY <2>4, <3>1, PlanTable
    <3> QED
      BY <2>4, <3>1, <3>2, PlannedAppend
  <2>9. Stands(Append(events', e), disk', runs', apple', final')
    <3>1. disk.rintent = NoId => PlanDisk("publish", disk)
      BY <1>2 DEF DirectAt
    <3> QED
      BY <1>1, <1>7, <2>6, <2>7, <2>8, <3>1 DEF Stands
  <2> QED
    BY <1>3, <2>2, <2>3, <2>5, <2>6, <2>9, PublicationRecord
<1> QED
  BY <1>4, <1>6, <1>7 DEF PublishSealed, RenameExclusive

LEMMA CleanupCourse == ASSUME AttemptInv, PublicationInv, NEW p \in Procs, CleanupFailedRun(p) \/ Leave(p) PROVE PublicationInv'
<1>1. UNCHANGED <<events, pending, disk, final, apple>> /\ lock = p
  BY DEF CleanupFailedRun, Leave, Holds, Journal, Outside
<1>2. runs' = runs \/ (final = 0 /\ runs' = WithoutRun(proc[p].run))
  BY DEF CleanupFailedRun, Leave, Removable
<1>3. Surroundings
  BY PublicationIs
<1>4. Surroundings' /\ (final' > 0 => runs' = runs)
  <2>1. CASE runs' = runs
    BY <1>1, <1>3, <2>1, SameSurroundings
  <2>2. CASE final = 0 /\ runs' = WithoutRun(proc[p].run)
    <3>1. RunsKnown(runs', events) /\ ~(final' > 0)
      BY <1>1, <1>3, <2>2, RunRemoved DEF Surroundings
    <3> QED
      BY <1>1, <1>3, <3>1 DEF Surroundings
  <2> QED
    BY <1>2, <2>1, <2>2
<1>5. CASE Exit(p)
  BY <1>1, <1>4, <1>5, PublicationExit
<1>6. CASE Holds(p, "cleanup") /\ Record(p, "failed", proc[p].sub, "other", "exit")
  <2>1. PICK e : e = [st |-> "failed", sub |-> proc[p].sub, code |-> "other"]
    OBVIOUS
  <2>2. IsSeq(events) /\ Len(events) > 0 /\ events[Len(events)].st \in TerminalStates
    BY <1>6, Holding
  <2>3. ClosedTwice(Append(events, e))
    BY <2>1, <2>2, ClosingTwice DEF TerminalStates
  <2>4. final' > 0 => Stands(Append(events', e), disk', runs', apple', final')
    BY <1>1, <1>3, <1>4, <2>3 DEF Surroundings, Stands
  <2>5. Course("exit", proc[p], Append(events', e), disk', runs', apple', final')
    BY QuietlyOn
  <2> QED
    BY <1>1, <1>4, <1>6, <2>1, <2>4, <2>5, PublicationRecord
<1> QED
  BY <1>5, <1>6 DEF CleanupFailedRun, CleanupRaises, Leave

-----------------------------------------------------------------------------
(* The course of a recovery before it finalizes.                            *)
LEMMA RecoverCourse ==
    ASSUME NEW l \in RecoverLabels, NEW r, NEW ev, NEW d, NEW rs, NEW ap, NEW fin, r.sub \in Ids,
           l \in BoundLabels => d.rintent # NoId,
           fin > 0 => l \in AfterPublication /\ (l \in {"adopt", "boundary"} => ~r.adopt)
    PROVE  Course(l, r, ev, d, rs, ap, fin)
<1>1. l \notin ExecLabels /\ l \notin FinalLabels /\ RunsAt(l, r, ev, rs)
  BY DEF RecoverLabels, BoundLabels, ExecLabels, FinalLabels, RunsAt
<1>2. BoundAt(l, r, ev, d, ap)
  BY <1>1 DEF BoundAt, RecoverLabels, BoundLabels, FinalLabels
<1> QED
  BY <1>1, <1>2 DEF Course

LEMMA BeginRecoverCourse == ASSUME AttemptInv, PublicationInv, NEW p \in Procs, BeginRecover(p) PROVE PublicationInv'
<1>1. lock = Nobody /\ UNCHANGED <<events, pending, disk, runs, apple, final>>
  BY DEF BeginRecover, Journal, Outside
<1>2. PICK s, t, a : /\ s \in Ids
                     /\ proc' = [proc EXCEPT ![p].pc = "load", ![p].sub = s, ![p].tool = t, ![p].adopt = a]
  BY DEF BeginRecover
<1>3. PICK r : r = [proc[p] EXCEPT !.pc = "load", !.sub = s, !.tool = t, !.adopt = a]
  OBVIOUS
<1>4. proc' = [proc EXCEPT ![p] = r]
  BY <1>2, <1>3 DEF AttemptInv
<1>5. r.pc = "load" /\ r.sub = s
  BY <1>3 DEF AttemptInv, Shaped, ProcFields
<1>6. Towards(r) = "load" /\ Going(r, events') = events'
  BY <1>5 DEF Towards, Going
<1>7. Course("load", r, events', disk', runs', apple', final')
  BY <1>2, <1>5, RecoverCourse DEF RecoverLabels, BoundLabels, AfterPublication
<1>8. Surroundings'
  BY <1>1, PublicationIs, SameSurroundings
<1> QED
  BY <1>1, <1>4, <1>6, <1>7, <1>8, PublicationStep DEF Surroundings

(* The runs point into a longer journal as well.                            *)
LEMMA RunsLonger ==
    ASSUME NEW rs, NEW ev, IsSeq(ev), RunsKnown(rs, ev), NEW e PROVE RunsKnown(rs, Append(ev, e))
<1>1. Len(ev) \in Nat /\ Len(Append(ev, e)) = Len(ev) + 1
  BY Appended
<1>2. \A x \in DOMAIN rs : rs[x].receipt \in 0..Len(Append(ev, e))
  BY <1>1 DEF RunsKnown
<1> QED
  BY <1>2 DEF RunsKnown

LEMMA LoadCourse == ASSUME AttemptInv, PublicationInv, NEW p \in Procs, LoadAttempt(p) PROVE PublicationInv'
<1>1. Holds(p, "load") /\ events' = LoadedJournal /\ pending' = NoEvent /\ UNCHANGED <<disk, runs, final, apple>>
  BY DEF LoadAttempt, Outside
<1>2. lock = p /\ Surroundings /\ Course("load", proc[p], events, disk, runs, apple, final)
  BY <1>1, Coursing
<1>3. IsSeq(events)
  BY DEF AttemptInv, Journaled
<1>4. Surroundings'
  <2>1. CASE pending \in {NoEvent, PartialEvent}
    <3>1. events' = events
      BY <1>1, <2>1 DEF LoadedJournal, PendingWhole
    <3> QED
      BY <1>1, <1>2, <3>1 DEF Surroundings
  <2>2. CASE pending \notin {NoEvent, PartialEvent}
    <3>1. events' = Append(events, pending)
      BY <1>1, <2>2 DEF LoadedJournal, PendingWhole
    <3>2. RunsKnown(runs', events')
      BY <1>1, <1>2, <1>3, <3>1, RunsLonger DEF Surroundings
    <3> QED
      BY <1>1, <1>2, <2>2, <3>1, <3>2 DEF Surroundings
  <2> QED
    BY <2>1, <2>2
<1>5. CASE Exit(p)
  BY <1>2, <1>4, <1>5, PublicationExit
<1>6. CASE Goto(p, "adopt") /\ ~(proc[p].adopt /\ final > 0)
  <2>1. proc[p].sub \in Ids
    BY <1>2 DEF Course, BoundAt, RecoverLabels
  <2>2. final' > 0 => ~proc[p].adopt
    BY <1>1, <1>6
  <2>3. Course("adopt", proc[p], events', disk', runs', apple', final')
    BY <2>1, <2>2, RecoverCourse DEF RecoverLabels, BoundLabels, AfterPublication
  <2> QED
    BY <1>2, <1>4, <1>6, <2>3, PublicationGoto
<1> QED
  BY <1>5, <1>6 DEF LoadAttempt

LEMMA AdoptCourse == ASSUME AttemptInv, PublicationInv, NEW p \in Procs, AdoptUpload(p) PROVE PublicationInv'
<1>1. Holds(p, "adopt") /\ UNCHANGED <<events, pending, runs, final, apple>>
  BY DEF AdoptUpload, Journal, Outside
<1>2. lock = p /\ Surroundings /\ Course("adopt", proc[p], events, disk, runs, apple, final)
  BY <1>1, Coursing
<1>3. disk.claimed /\ DiskShaped(disk)
  BY <1>1, Holding
<1>4. proc[p].sub \in Ids /\ (final > 0 => ~proc[p].adopt)
  BY <1>2 DEF Course, BoundAt, RecoverLabels
<1>5. Surroundings'
  <2>1. CASE UNCHANGED disk
    BY <1>1, <1>2, <2>1, SameSurroundings
  <2>2. CASE proc[p].adopt /\ disk' = [disk EXCEPT !.observation = Retry]
    <3>1. disk'.claimed
      BY <1>3, <2>2 DEF DiskShaped, DiskFields
    <3> QED
      BY <1>1, <1>2, <1>4, <2>2, <3>1 DEF Surroundings
  <2> QED
    BY <2>1, <2>2 DEF AdoptUpload
<1>6. CASE Exit(p)
  BY <1>2, <1>5, <1>6, PublicationExit
<1>7. CASE Goto(p, "boundary")
  <2>1. Course("boundary", proc[p], events', disk', runs', apple', final')
    BY <1>1, <1>4, RecoverCourse DEF RecoverLabels, BoundLabels, AfterPublication
  <2> QED
    BY <1>2, <1>5, <1>7, <2>1, PublicationGoto
<1> QED
  BY <1>6, <1>7 DEF AdoptUpload

(* Where the plan is in which state.                                        *)
LEMMA PlanStates ==
    ASSUME NEW i \in 1..16
    PROVE  /\ PlanState(i) = "distribution_verified" => i = 14
           /\ PlanState(i) = "direct_finalization_ready" => i = 6
           /\ PlanState(i) \notin {"recovery_intent_anchored", "recovery_tool_continued", "submission_reconciled"}
           /\ PlanState(i) = "finalization_started" => i = 7
<1>1. \/ i = 1 \/ i = 2 \/ i = 3 \/ i = 4 \/ i = 5 \/ i = 6 \/ i = 7 \/ i = 8 \/ i = 9 \/ i = 10
      \/ i = 11 \/ i = 12 \/ i = 13 \/ i = 14 \/ i = 15 \/ i = 16
  OBVIOUS
<1> QED
  BY <1>1, PlanTable

(* A planned journal that supports a receipt is complete.                   *)
LEMMA PlannedSealed ==
    ASSUME NEW ev, AsPlanned(ev), NEW i, SealedLineage(ev, i) PROVE i = 14 /\ Len(ev) \in 15..16
<1>1. IsSeq(ev) /\ Len(ev) \in 0..16 /\ DOMAIN ev = 1..Len(ev)
  BY Appended DEF AsPlanned
<1>2. i \in 1..Len(ev)
  BY <1>1 DEF SealedLineage, StateAt
<1>3. PlanState(i) = "distribution_verified"
  BY <1>1, <1>2 DEF SealedLineage, StateAt, AsPlanned
<1>4. i = 14
  BY <1>1, <1>2, <1>3, PlanStates, SMTT(30)
<1> QED
  BY <1>1, <1>4, SMTT(30) DEF SealedLineage

(* A part of a journal.                                                     *)
LEMMA Sliced ==
    ASSUME NEW ev, IsSeq(ev), NEW m \in 1..Len(ev), NEW n \in m..Len(ev), NEW q, q = SubSeq(ev, m, n)
    PROVE  /\ IsSeq(q) /\ Len(q) = n - m + 1 /\ DOMAIN q = 1..(n - m + 1)
           /\ \A i \in 1..(n - m + 1) : q[i] = ev[m + i - 1]
<1>1. PICK S : ev \in Seq(S)
  BY DEF IsSeq
<1>2. Len(ev) \in Nat /\ \A i \in 1..Len(ev) : ev[i] \in S
  BY <1>1, LenProperties, ElementOfSeq
<1>3. m \in Int /\ n \in Int /\ m <= n /\ \A i \in m..n : ev[i] \in S
  BY <1>2
<1>4. /\ q \in Seq(S) /\ Len(q) = n - m + 1
      /\ \A i \in 1..(n - m + 1) : q[i] = ev[m + i - 1]
  BY <1>3, SubSeqProperties
<1>5. DOMAIN q = 1..Len(q)
  BY <1>4, LenProperties
<1> QED
  BY <1>4, <1>5 DEF IsSeq

(* Its boundary was completed, by the event of execute itself.              *)
LEMMA PlannedReady ==
    ASSUME NEW ev, AsPlanned(ev), Len(ev) \in 15..16
    PROVE  ReadyAt(ev) = {6} /\ Submitted(ev) /\ DirectReady(ev)
<1>1. IsSeq(ev) /\ DOMAIN ev = 1..Len(ev)
  BY Appended DEF AsPlanned
<1>2. \A i \in 1..16 : i \in DOMAIN ev => ev[i].st = PlanState(i)
  BY <1>1 DEF AsPlanned
<1>3. 4 \in DOMAIN ev /\ 5 \in DOMAIN ev /\ 6 \in DOMAIN ev
  BY <1>1
<1>4. Submitted(ev)
  BY <1>2, <1>3, PlanTable DEF Submitted, StateAt
<1>6. PICK q : q = SubSeq(ev, 5, 5)
  OBVIOUS
<1>7. Len(q) = 1 /\ q[1] = ev[5]
  <2>1. 5 \in 1..Len(ev) /\ 5 \in 5..Len(ev)
    BY <1>1, <1>3
  <2>2. Len(q) = 5 - 5 + 1 /\ \A i \in 1..(5 - 5 + 1) : q[i] = ev[5 + i - 1]
    BY <1>1, <1>6, <2>1, Sliced
  <2> QED
    BY <2>2
<1>8. DirectPrefixSupported(SubSeq(ev, 5, 6 - 1))
  <2>1. q[1].st = "direct_finalization_preparing"
    BY <1>2, <1>3, <1>7, PlanTable
  <2>2. DirectPrefixSupported(q)
    BY <1>7, <2>1 DEF DirectPrefixSupported
  <2> QED
    BY <1>6, <2>2
<1>9. ASSUME NEW i \in DOMAIN ev, ev[i].st = "direct_finalization_ready" PROVE i = 6
  <2>1. i \in 1..16 /\ PlanState(i) = "direct_finalization_ready"
    BY <1>1, <1>2, <1>9, SMTT(30) DEF AsPlanned
  <2> QED
    BY <2>1, PlanStates
<1>10. ev[6].st = "direct_finalization_ready"
  BY <1>2, <1>3, PlanTable
<1>11. Indices(ev, "direct_finalization_ready") = {6}
  BY <1>3, <1>9, <1>10 DEF Indices
<1>12. ReadyAt(ev) = {6}
  BY <1>4, <1>8, <1>11 DEF ReadyAt
<1> QED
  BY <1>4, <1>12 DEF DirectReady

LEMMA CompleteCourse == ASSUME AttemptInv, PublicationInv, NEW p \in Procs, CompleteBoundary(p) PROVE PublicationInv'
<1>1. Holds(p, "boundary") /\ UNCHANGED <<events, pending, runs, final, apple>>
  BY DEF CompleteBoundary, Journal, Outside
<1>2. lock = p /\ Surroundings /\ Course("boundary", proc[p], events, disk, runs, apple, final)
  BY <1>1, Coursing
<1>3. disk.claimed /\ DiskShaped(disk) /\ pending = NoEvent /\ IsSeq(events)
  BY <1>1, Holding
<1>4. proc[p].sub \in Ids
  BY <1>2 DEF Course, BoundAt, RecoverLabels
<1>5. ASSUME final > 0 PROVE ~BoundaryInterrupted \/ ClosedTwice(events)
  <2>1. Stands(events, disk, runs, apple, final)
    BY <1>2, <1>5 DEF Surroundings
  <2>2. ASSUME ~ClosedTwice(events), disk.rintent = NoId PROVE DirectReady(events)
    <3>1. AsPlanned(events) /\ SealedLineage(events, runs[final].receipt)
      BY <2>1, <2>2 DEF Stands
    <3> QED
      BY <3>1, PlannedSealed, PlannedReady
  <2> QED
    BY <2>2 DEF BoundaryInterrupted
<1>6. CASE Exit(p) /\ UNCHANGED disk
  BY <1>1, <1>2, <1>6, SameExit
<1>7. CASE ~(final > 0) /\ UNCHANGED disk /\ Goto(p, "verify")
  <2>1. Course("verify", proc[p], events', disk', runs', apple', final')
    BY <1>1, <1>4, <1>7, RecoverCourse DEF RecoverLabels, BoundLabels
  <2>2. Surroundings'
    BY <1>1, <1>2, <1>7, SameSurroundings
  <2> QED
    BY <1>2, <1>7, <2>1, <2>2, PublicationGoto
<1>8. CASE /\ BoundaryInterrupted /\ disk' \in {disk, [disk EXCEPT !.source = "recovery-source"]}
           /\ \/ Exit(p)
              \/ Record(p, "direct_finalization_ready", proc[p].sub, "none", IF final > 0 THEN "exit" ELSE "verify")
  <2>1. final > 0 => ClosedTwice(events)
    BY <1>5, <1>8
  <2>2. disk'.claimed /\ disk'.receipt = disk.receipt
    BY <1>3, <1>8 DEF DiskShaped, DiskFields
  <2>3. ASSUME NEW ev, final > 0, ClosedTwice(ev) PROVE Stands(ev, disk', runs', apple', final')
    <3>1. Stands(events, disk, runs, apple, final)
      BY <1>2, <2>3 DEF Surroundings
    <3> QED
      BY <1>1, <2>2, <2>3, <3>1 DEF Stands
  <2>4. Surroundings'
    BY <1>1, <1>2, <1>3, <2>1, <2>2, <2>3 DEF Surroundings
  <2>5. CASE Exit(p)
    BY <1>2, <2>4, <2>5, PublicationExit
  <2>6. CASE Record(p, "direct_finalization_ready", proc[p].sub, "none", IF final > 0 THEN "exit" ELSE "verify")
    <3>1. PICK next : next = IF final > 0 THEN "exit" ELSE "verify"
      OBVIOUS
    <3>2. PICK e : e = [st |-> "direct_finalization_ready", sub |-> proc[p].sub, code |-> "none"]
      OBVIOUS
    <3>3. Course(next, proc[p], Append(events', e), disk', runs', apple', final')
      <4>1. CASE final > 0
        BY <3>1, <4>1, QuietlyOn
      <4>2. CASE ~(final > 0)
        BY <1>1, <1>4, <3>1, <4>2, RecoverCourse DEF RecoverLabels, BoundLabels
      <4> QED
        BY <4>1, <4>2
    <3>4. final' > 0 => Stands(Append(events', e), disk', runs', apple', final')
      BY <1>1, <1>3, <2>1, <2>3, ClosingTwice
    <3>5. Record(p, "direct_finalization_ready", proc[p].sub, "none", next)
      BY <2>6, <3>1
    <3> QED
      BY <1>2, <2>4, <3>2, <3>3, <3>4, <3>5, PublicationRecord
  <2> QED
    BY <1>8, <2>5, <2>6
<1> QED
  BY <1>6, <1>7, <1>8 DEF CompleteBoundary, Preserved, HalfPreserved

(* A recovery goes on, or records an event first, while nothing is          *)
(* published.                                                               *)
LEMMA RecoverMoves ==
    ASSUME AttemptInv, PublicationInv, NEW p \in Procs, NEW l, Holds(p, l), l # "append", l \notin AfterPublication,
           UNCHANGED <<events, pending, runs, final, apple>>, disk'.claimed,
           NEW next, next # "append",
           \A e : ~(final > 0) => Course(next, proc[p], e, disk', runs, apple, final),
           Goto(p, next) \/ \E st, sub, code : Record(p, st, sub, code, next)
    PROVE  PublicationInv'
<1>1. lock = p /\ ~(final > 0) /\ RunsKnown(runs, events) /\ apple = [s \in Ids |-> apple[s]]
  BY Working
<1>2. Surroundings' /\ ~(final' > 0)
  BY <1>1, UnpublishedSurroundings DEF Unpublished
<1>3. \A e : Course(next, proc[p], e, disk', runs', apple', final')
  BY <1>1
<1>4. CASE Goto(p, next)
  BY <1>1, <1>2, <1>3, <1>4, PublicationGoto
<1>5. CASE \E st, sub, code : Record(p, st, sub, code, next)
  <2>1. PICK st, sub, code : Record(p, st, sub, code, next)
    BY <1>5
  <2>2. PICK e : e = [st |-> st, sub |-> sub, code |-> code]
    OBVIOUS
  <2> QED
    BY <1>1, <1>2, <1>3, <2>1, <2>2, PublicationRecord
<1> QED
  BY <1>4, <1>5

(* Where it goes on as a recovery, or leaves.                               *)
LEMMA RecoverGoes ==
    ASSUME NEW r, NEW d, NEW rs, NEW ap, NEW next \in RecoverLabels \cup {"exit"},
           r.sub \in Ids, next \in BoundLabels => d.rintent # NoId
    PROVE  next # "append" /\ \A e : ~(final > 0) => Course(next, r, e, d, rs, ap, final)
<1>1. next # "append"
  BY DEF RecoverLabels, BoundLabels
<1>2. CASE next = "exit"
  BY <1>1, <1>2, QuietlyOn
<1>3. CASE next \in RecoverLabels
  BY <1>1, <1>3, RecoverCourse
<1> QED
  BY <1>2, <1>3

(* What a recovery that is bound may rely on.                               *)
LEMMA Recovering ==
    ASSUME AttemptInv, PublicationInv, NEW p \in Procs, NEW l \in BoundLabels \cup {"verify"}, Holds(p, l)
    PROVE  /\ l # "append" /\ l \notin AfterPublication /\ proc[p].sub \in Ids /\ lock = p
           /\ l # "verify" => disk.rintent # NoId
           /\ DiskShaped(disk) /\ disk.claimed /\ RunsKnown(runs, events) /\ apple = [s \in Ids |-> apple[s]]
<1>1. l # "append" /\ l \notin AfterPublication
  BY DEF BoundLabels, AfterPublication
<1>2. /\ Course(l, proc[p], events, disk, runs, apple, final) /\ DiskShaped(disk) /\ disk.claimed /\ lock = p
      /\ RunsKnown(runs, events) /\ apple = [s \in Ids |-> apple[s]]
  BY <1>1, Working
<1> QED
  BY <1>1, <1>2 DEF Course, BoundAt, RecoverLabels, BoundLabels

LEMMA BindCourse == ASSUME AttemptInv, PublicationInv, NEW p \in Procs, VerifyAndBind(p) PROVE PublicationInv'
<1>1. Holds(p, "verify") /\ UNCHANGED <<events, pending, runs, final, apple>>
  BY DEF VerifyAndBind, Journal, Outside
<1>2. /\ "verify" # "append" /\ "verify" \notin AfterPublication /\ proc[p].sub \in Ids
      /\ DiskShaped(disk) /\ disk.claimed /\ RunsKnown(runs, events) /\ apple = [s \in Ids |-> apple[s]]
  BY <1>1, Recovering
<1>3. CASE Exit(p) /\ UNCHANGED disk
  BY <1>1, <1>2, <1>3, WorkingEnds
<1>4. CASE /\ disk' = IF disk.rintent # NoId THEN disk
                      ELSE [disk EXCEPT !.rintent = proc[p].sub, !.rtool = proc[p].tool]
           /\ Goto(p, "anchor")
  <2>1. disk'.claimed /\ disk'.rintent # NoId
    <3>1. CASE disk.rintent # NoId
      BY <1>2, <1>4, <3>1
    <3>2. CASE disk.rintent = NoId
      <4>1. disk'.claimed /\ disk'.rintent = proc[p].sub
        BY <1>2, <1>4, <3>2 DEF DiskShaped, DiskFields
      <4> QED
        BY <1>2, <4>1, IdAssumption DEF Ids
    <3> QED
      BY <3>1, <3>2
  <2>2. "anchor" # "append" /\ \A e : ~(final > 0) => Course("anchor", proc[p], e, disk', runs, apple, final)
    BY <1>2, <2>1, RecoverGoes DEF RecoverLabels, BoundLabels
  <2> QED
    BY <1>1, <1>2, <1>4, <2>1, <2>2, RecoverMoves
<1> QED
  BY <1>3, <1>4 DEF VerifyAndBind

(* A step of a bound recovery that leaves the attempt's entries alone.      *)
LEMMA BoundMoves ==
    ASSUME AttemptInv, PublicationInv, NEW p \in Procs, NEW l \in BoundLabels, Holds(p, l),
           UNCHANGED <<events, pending, disk, runs, final, apple>>,
           \/ Exit(p)
           \/ \E next \in BoundLabels \cup {"exit"} :
                 Goto(p, next) \/ \E st, sub, code : Record(p, st, sub, code, next)
    PROVE  PublicationInv'
<1>1. /\ l # "append" /\ l \notin AfterPublication /\ proc[p].sub \in Ids /\ disk.rintent # NoId
      /\ disk.claimed /\ RunsKnown(runs, events) /\ apple = [s \in Ids |-> apple[s]]
  BY Recovering DEF BoundLabels
<1>2. CASE Exit(p)
  BY <1>1, <1>2, WorkingEnds
<1>3. CASE \E next \in BoundLabels \cup {"exit"} :
              Goto(p, next) \/ \E st, sub, code : Record(p, st, sub, code, next)
  <2>1. PICK next \in BoundLabels \cup {"exit"} :
              Goto(p, next) \/ \E st, sub, code : Record(p, st, sub, code, next)
    BY <1>3
  <2>2. next # "append" /\ \A e : ~(final > 0) => Course(next, proc[p], e, disk', runs, apple, final)
    BY <1>1, RecoverGoes DEF RecoverLabels
  <2> QED
    BY <1>1, <2>1, <2>2, RecoverMoves
<1> QED
  BY <1>2, <1>3

LEMMA AnchorCourse == ASSUME AttemptInv, PublicationInv, NEW p \in Procs, AnchorIntent(p) PROVE PublicationInv'
<1>1. Holds(p, "anchor") /\ UNCHANGED <<events, pending, disk, runs, final, apple>> /\ "anchor" \in BoundLabels
  BY DEF AnchorIntent, Journal, Outside, BoundLabels
<1>2. \/ Exit(p) \/ Goto(p, "continue")
      \/ Record(p, "recovery_intent_anchored", proc[p].sub, "none", "continue")
  BY DEF AnchorIntent
<1>3. "continue" \in BoundLabels \cup {"exit"}
  BY DEF BoundLabels
<1> QED
  BY <1>1, <1>2, <1>3, BoundMoves

LEMMA ContinueCourse == ASSUME AttemptInv, PublicationInv, NEW p \in Procs, ContinueTool(p) PROVE PublicationInv'
<1>1. Holds(p, "continue") /\ UNCHANGED <<events, pending, disk, runs, final, apple>> /\ "continue" \in BoundLabels
  BY DEF ContinueTool, Journal, Outside, BoundLabels
<1>2. \/ Exit(p) \/ Goto(p, "reconcile") \/ Goto(p, "continuation") \/ Goto(p, "exit")
      \/ Record(p, "recovery_tool_continued", proc[p].sub, proc[p].tool, "continuation")
  BY DEF ContinueTool
<1>3. {"reconcile", "continuation", "exit"} \subseteq BoundLabels \cup {"exit"}
  BY DEF BoundLabels
<1> QED
  BY <1>1, <1>2, <1>3, BoundMoves

LEMMA ReconcileCourse == ASSUME AttemptInv, PublicationInv, NEW p \in Procs, BeginReconciliation(p) PROVE PublicationInv'
<1>1. Holds(p, "reconcile") /\ UNCHANGED <<events, pending, disk, runs, final, apple>> /\ "reconcile" \in BoundLabels
  BY DEF BeginReconciliation, Journal, Outside, BoundLabels
<1>2. Goto(p, "evidence") \/ Record(p, "reconciliation_started", proc[p].sub, "none", "evidence")
  BY DEF BeginReconciliation
<1>3. "evidence" \in BoundLabels \cup {"exit"}
  BY DEF BoundLabels
<1> QED
  BY <1>1, <1>2, <1>3, BoundMoves

LEMMA ContinuationCourse == ASSUME AttemptInv, PublicationInv, NEW p \in Procs, WriteContinuation(p) PROVE PublicationInv'
<1>1. /\ Holds(p, "continuation") /\ UNCHANGED <<events, pending, runs, final, apple>> /\ "continuation" \in BoundLabels
      /\ disk' = [disk EXCEPT !.cont = proc[p].tool, !.contPending = FALSE] /\ Goto(p, "reconcile")
  BY DEF WriteContinuation, Journal, Outside, BoundLabels
<1>2. /\ "continuation" # "append" /\ "continuation" \notin AfterPublication /\ proc[p].sub \in Ids
      /\ disk.rintent # NoId /\ DiskShaped(disk) /\ disk.claimed
  BY <1>1, Recovering
<1>3. disk'.claimed /\ disk'.rintent # NoId
  BY <1>1, <1>2 DEF DiskShaped, DiskFields
<1>4. "reconcile" # "append" /\ \A e : ~(final > 0) => Course("reconcile", proc[p], e, disk', runs, apple, final)
  BY <1>2, <1>3, RecoverGoes DEF RecoverLabels, BoundLabels
<1> QED
  BY <1>1, <1>2, <1>3, <1>4, RecoverMoves

LEMMA EvidenceCourse == ASSUME AttemptInv, PublicationInv, NEW p \in Procs, ReadEvidence(p) PROVE PublicationInv'
<1>1. Holds(p, "evidence") /\ UNCHANGED <<events, pending, runs, final, apple>> /\ "evidence" \in BoundLabels
  BY DEF ReadEvidence, Journal, Outside, BoundLabels
<1>2. /\ "evidence" # "append" /\ "evidence" \notin AfterPublication /\ proc[p].sub \in Ids
      /\ disk.rintent # NoId /\ DiskShaped(disk) /\ disk.claimed
  BY <1>1, Recovering
<1>3. CASE UNCHANGED disk /\ \E st : Record(p, st, proc[p].sub, "other", "exit")
  BY <1>1, <1>3, BoundMoves
<1>4. CASE /\ AppleStatus(proc[p].sub) = "Accepted" /\ disk' = RecoveryReceipt(proc[p].sub)
           /\ Goto(p, "start") \/ Record(p, "submission_reconciled", proc[p].sub, "none", "start")
  <2>1. disk'.claimed /\ disk'.rintent # NoId
    BY <1>2, <1>4 DEF RecoveryReceipt, DiskShaped, DiskFields
  <2>2. apple[proc[p].sub] = "Accepted"
    BY <1>2, <1>4 DEF AppleStatus
  <2>3. ASSUME NEW e, ~(final > 0) PROVE Course("start", proc[p], e, disk', runs, apple, final)
    <3>1. RunsAt("start", proc[p], e, runs)
      BY DEF RunsAt
    <3>2. BoundAt("start", proc[p], e, disk', apple)
      BY <1>2, <2>1, <2>2 DEF BoundAt, ExecLabels
    <3> QED
      BY <2>1, <2>3, <3>1, <3>2 DEF Course
  <2>4. \A e : ~(final > 0) => Course("start", proc[p], e, disk', runs, apple, final)
    BY <2>3
  <2>5. Goto(p, "start") \/ \E st, sub, code : Record(p, st, sub, code, "start")
    BY <1>4
  <2> QED
    BY <1>1, <1>2, <2>1, <2>4, <2>5, RecoverMoves
<1> QED
  BY <1>3, <1>4 DEF ReadEvidence, ReconciliationFails

-----------------------------------------------------------------------------
(* The event that an invocation was about to record is in the journal.      *)
LEMMA AppendCourse == ASSUME AttemptInv, PublicationInv, NEW p \in Procs, EventAppend(p) PROVE PublicationInv'
<1>1. Holds(p, "append") /\ UNCHANGED <<pending, disk, runs, final, apple>>
  BY DEF EventAppend, Outside
<1>2. lock = p /\ proc[p].pc = "append" /\ Surroundings /\ Shaped(proc[p]) /\ Goes(proc[p])
  BY <1>1, Coursing
<1>3. pending = NoEvent /\ IsSeq(events)
  BY <1>1, Holding
<1>4. CASE Exit(p) /\ UNCHANGED events
  BY <1>1, <1>2, <1>4, SameExit
<1>5. CASE AppendCommits(p)
  <2>1. events' = Append(events, proc[p].buf)
    BY <1>5 DEF AppendCommits
  <2>2. PICK next : next = proc[p].next
    OBVIOUS
  <2>3. next \in Successors
    BY <1>2, <2>2 DEF AttemptInv, Local, RoomFor
  <2>4. next # "append"
    BY <2>3 DEF Successors
  <2>5. PICK r : r = [proc[p] EXCEPT !.pc = next, !.buf = NoEvent, !.next = "idle"]
    OBVIOUS
  <2>6. proc' = [proc EXCEPT ![p] = r]
    BY <1>5, <2>2, <2>5 DEF AppendCommits, AttemptInv
  <2>7. r.pc = next /\ r.sub = proc[p].sub /\ r.run = proc[p].run /\ r.adopt = proc[p].adopt
    BY <1>2, <2>5 DEF Shaped, ProcFields
  <2>8. Towards(r) = next /\ Going(r, events') = events'
    BY <2>4, <2>7 DEF Towards, Going
  <2>9. /\ Course(next, proc[p], events', disk', runs', apple', final')
        /\ final' > 0 => Stands(events', disk', runs', apple', final')
    BY <1>1, <1>2, <2>1, <2>2 DEF Goes, Towards, Going
  <2>10. Course(next, r, events', disk', runs', apple', final')
    BY <2>7, <2>9, Alike
  <2>11. RunsKnown(runs', events')
    BY <1>1, <1>2, <1>3, <2>1, RunsLonger DEF Surroundings
  <2>12. Surroundings'
    BY <1>1, <1>2, <1>3, <2>9, <2>11 DEF Surroundings
  <2> QED
    BY <1>2, <2>6, <2>8, <2>9, <2>10, <2>12, PublicationStep
<1> QED
  BY <1>4, <1>5 DEF EventAppend

(* A crash leaves at most the event that was being recorded.                *)
LEMMA CrashCourse == ASSUME AttemptInv, PublicationInv, NEW p \in Procs, Crash(p) PROVE PublicationInv'
<1>1. /\ proc[p].pc \notin {"idle", "lock"} /\ lock = p /\ Exit(p) /\ UNCHANGED <<events, final, apple>>
      /\ pending' \in IF proc[p].pc = "append" /\ Len(events) < MAX_EVENT_DOCUMENTS
                      THEN {NoEvent, PartialEvent, proc[p].buf} ELSE {pending}
  BY DEF Crash, Outside
<1>2. PICK l : l = proc[p].pc
  OBVIOUS
<1>3. Holds(p, l)
  BY <1>1, <1>2 DEF Holds
<1>4. /\ Surroundings /\ (l = "append" => Goes(proc[p]))
      /\ (l # "append" /\ l \notin AfterPublication => ~(final > 0))
      /\ (l # "append" => Course(l, proc[p], events, disk, runs, apple, final))
  BY <1>3, Coursing
<1>5. CASE UNCHANGED <<disk, runs>>
  <2>1. final > 0 /\ pending' \notin {NoEvent, PartialEvent} => Stands(Append(events, pending'), disk, runs, apple, final)
    <3>1. CASE l = "append" /\ Len(events) < MAX_EVENT_DOCUMENTS
      BY <1>1, <1>2, <1>4, <3>1 DEF Goes, Going
    <3>2. CASE ~(l = "append" /\ Len(events) < MAX_EVENT_DOCUMENTS)
      <4>1. pending' = pending
        BY <1>1, <1>2, <3>2
      <4> QED
        BY <1>4, <4>1 DEF Surroundings
    <3> QED
      BY <3>1, <3>2
  <2>2. Surroundings'
    BY <1>1, <1>4, <1>5, <2>1 DEF Surroundings
  <2> QED
    BY <1>1, <2>2, PublicationExit
<1>6. CASE l = "continuation" /\ disk' = [disk EXCEPT !.contPending = TRUE] /\ UNCHANGED runs
  <2>1. ~(final > 0)
    BY <1>4, <1>6 DEF AfterPublication
  <2>2. disk'.claimed
    BY <1>3, <1>6, Holding DEF DiskShaped, DiskFields
  <2>3. Surroundings'
    BY <1>1, <1>4, <1>6, <2>1, <2>2 DEF Surroundings
  <2> QED
    BY <1>1, <2>3, PublicationExit
<1>7. CASE /\ l = "receipt" /\ UNCHANGED disk
           /\ runs' \in {[runs EXCEPT ![proc[p].run].pend = TRUE], [runs EXCEPT ![proc[p].run].receipt = Len(events)]}
  <2>1. ~(final > 0)
    BY <1>4, <1>7 DEF AfterPublication
  <2>2. Len(events) \in Nat /\ RunsKnown(runs, events)
    BY <1>3, <1>4, <1>7, Holding DEF Surroundings, AttemptInv, Journaled
  <2>3. RunsKnown(runs', events)
    <3>1. /\ DOMAIN runs' = DOMAIN runs
          /\ \A x \in DOMAIN runs : \/ runs'[x] = [runs[x] EXCEPT !.receipt = Len(events)]
                                    \/ runs'[x] = [runs[x] EXCEPT !.pend = TRUE]
                                    \/ runs'[x] = runs[x]
      BY <1>7
    <3>2. \A x \in DOMAIN runs : runs'[x] = [f \in RunFields |-> runs'[x][f]] /\ runs'[x].receipt \in 0..Len(events)
      BY <2>2, <3>1 DEF RunsKnown, RunFields
    <3>3. runs' = [x \in DOMAIN runs' |-> runs'[x]]
      BY <1>7
    <3> QED
      BY <3>1, <3>2, <3>3 DEF RunsKnown
  <2>4. Surroundings'
    BY <1>1, <1>4, <1>7, <2>1, <2>3 DEF Surroundings
  <2> QED
    BY <1>1, <2>4, PublicationExit
<1> QED
  BY <1>2, <1>5, <1>6, <1>7 DEF Crash

(* Apple never takes an acceptance back.                                    *)
LEMMA AcceptedStays ==
    ASSUME NEW ap, NEW am, \A s \in Ids : ap[s] = "Accepted" => am[s] = "Accepted"
    PROVE  /\ \A l, r, ev, d, rs, fin : Course(l, r, ev, d, rs, ap, fin) => Course(l, r, ev, d, rs, am, fin)
           /\ \A ev, d, rs, fin : Stands(ev, d, rs, ap, fin) => Stands(ev, d, rs, am, fin)
<1>1. ASSUME NEW l, NEW r, NEW ev, NEW d, NEW rs, NEW fin, Course(l, r, ev, d, rs, ap, fin)
      PROVE  Course(l, r, ev, d, rs, am, fin)
  <2>1. BoundAt(l, r, ev, d, ap)
    BY <1>1 DEF Course
  <2>2. l \in {"reload", "preserve", "ready"} \cup FinalLabels => r.sub \in Ids /\ ap[r.sub] = "Accepted"
    <3>1. CASE l \in FinalLabels
      BY <2>1, <3>1 DEF BoundAt
    <3>2. CASE l \in {"reload", "preserve", "ready"}
      <4>1. l \in ExecLabels
        BY <3>2 DEF ExecLabels
      <4>2. d.rintent = NoId
        BY <2>1, <4>1 DEF BoundAt
      <4>3. DirectAt(l, r, ev, d)
        BY <1>1, <4>1, <4>2 DEF Course
      <4>4. r.sub = Orig
        BY <3>2, <4>3 DEF DirectAt
      <4> QED
        BY <2>1, <3>2, <4>4 DEF BoundAt, Ids
    <3> QED
      BY <3>1, <3>2
  <2>3. BoundAt(l, r, ev, d, am)
    BY <2>1, <2>2 DEF BoundAt
  <2> QED
    BY <1>1, <2>3 DEF Course
<1>2. ASSUME NEW ev, NEW d, NEW rs, NEW fin, Stands(ev, d, rs, ap, fin) PROVE Stands(ev, d, rs, am, fin)
  BY <1>2 DEF Stands
<1> QED
  BY <1>1, <1>2

LEMMA AppleCourse == ASSUME AttemptInv, PublicationInv, AppleDecides \/ OperatorUpload PROVE PublicationInv'
<1>1. UNCHANGED <<events, pending, disk, runs, final, proc>>
  BY DEF AppleDecides, OperatorUpload, Journal
<1>2. Surroundings /\ \A p \in Procs : Goes(proc[p])
  BY PublicationIs
<1>3. apple = [s \in Ids |-> apple[s]]
  BY <1>2 DEF Surroundings
<1>4. PICK s, v : s \in Ids /\ apple[s] # "Accepted" /\ apple' = [apple EXCEPT ![s] = v]
  BY DEF AppleDecides, OperatorUpload, Ids
<1>5. apple' = [x \in Ids |-> apple'[x]] /\ \A x \in Ids : apple[x] = "Accepted" => apple'[x] = "Accepted"
  BY <1>3, <1>4
<1>6. /\ \A l, r, ev, d, rs, fin : Course(l, r, ev, d, rs, apple, fin) => Course(l, r, ev, d, rs, apple', fin)
      /\ \A ev, d, rs, fin : Stands(ev, d, rs, apple, fin) => Stands(ev, d, rs, apple', fin)
  BY <1>5, AcceptedStays
<1>7. Surroundings'
  BY <1>1, <1>2, <1>5, <1>6 DEF Surroundings
<1>8. ASSUME NEW p \in Procs PROVE Goes(proc[p])'
  BY <1>1, <1>2, <1>6 DEF Goes
<1> QED
  BY <1>7, <1>8 DEF PublicationInv, Surroundings, Goes

LEMMA PublicationStarts == AttemptInit => PublicationInv
<1> SUFFICES ASSUME AttemptInit PROVE PublicationInv
  OBVIOUS
<1>1. Init
  BY DEF AttemptInit
<1>2. /\ runs = <<>> /\ final = 0 /\ events = <<>> /\ Unbound(disk) /\ apple = [s \in Ids |-> "absent"]
      /\ proc = [p \in Procs |-> IdleProc]
  BY <1>1 DEF Init, Unbound
<1>3. RunsKnown(runs, events)
  <2>1. DOMAIN runs = {} /\ runs = [x \in DOMAIN runs |-> runs[x]]
    BY <1>2
  <2> QED
    BY <2>1 DEF RunsKnown
<1>4. apple = [s \in Ids |-> apple[s]] /\ ~(final > 0)
  BY <1>2
<1>5. Surroundings
  BY <1>2, <1>3, <1>4 DEF Surroundings
<1>6. ASSUME NEW p \in Procs PROVE Goes(proc[p])
  <2>1. Towards(proc[p]) = "idle"
    BY <1>2 DEF IdleProc, Towards
  <2>2. Course(Towards(proc[p]), proc[p], Going(proc[p], events), disk, runs, apple, final)
    BY <2>1, QuietlyOn
  <2> QED
    BY <1>4, <2>2 DEF Goes
<1> QED
  BY <1>5, <1>6, PublicationIs

LEMMA PublicationNext == AttemptInv /\ PublicationInv /\ [Next]_vars => PublicationInv'
<1> SUFFICES ASSUME AttemptInv, PublicationInv, [Next]_vars PROVE PublicationInv'
  OBVIOUS
<1>1. ASSUME NEW p \in Procs, EventAppend(p) \/ Leave(p) \/ Crash(p) PROVE PublicationInv'
  BY <1>1, AppendCourse, CleanupCourse, CrashCourse
<1>2. ASSUME NEW p \in Procs, Execute(p) PROVE PublicationInv'
  BY <1>2, BeginsCourse, ClaimCourse, TransferCourse, ArchiveCourse, NoticeCourse, BeginSubmitCourse, SubmitCourse,
     ObserveCourse, ReceiveCourse, WaitCourse, PrepareCourse, PreserveCourse, BoundaryCourse DEF Execute
<1>3. ASSUME NEW p \in Procs, Finalize(p) PROVE PublicationInv'
  BY <1>3, StartCourse, AllocateCourse, CopyCourse, StagesCourse, SealCourse, PublishCourse, CleanupCourse DEF Finalize
<1>4. ASSUME NEW p \in Procs, Recover(p) PROVE PublicationInv'
  BY <1>4, BeginRecoverCourse, LoadCourse, AdoptCourse, CompleteCourse, BindCourse, AnchorCourse, ContinueCourse,
     ContinuationCourse, ReconcileCourse, EvidenceCourse DEF Recover
<1>5. CASE AppleDecides \/ OperatorUpload
  BY <1>5, AppleCourse
<1>6. CASE UNCHANGED vars
  BY <1>6 DEF PublicationInv, vars
<1> QED
  BY <1>1, <1>2, <1>3, <1>4, <1>5, <1>6 DEF Next

-----------------------------------------------------------------------------
(* A journal supports the receipt of one event.                             *)
LEMMA LineageUnique ==
    ASSUME NEW ev, NEW i \in Nat, NEW j \in Nat, SealedLineage(ev, i), SealedLineage(ev, j) PROVE i = j
<1>1. i + 1 \in DOMAIN ev /\ ev[i + 1].st = "sealed" /\ j + 1 \in DOMAIN ev /\ ev[j + 1].st = "sealed"
  BY DEF SealedLineage, StateAt
<1>2. PICK n : n = Len(ev)
  OBVIOUS
<1>3. /\ n = i + 1 \/ (n = i + 2 /\ ev[n].st = "outcome_unknown")
      /\ n = j + 1 \/ (n = j + 2 /\ ev[n].st = "outcome_unknown")
  BY <1>2 DEF SealedLineage
<1> QED
  BY <1>1, <1>3

(* What a published run and its journal mean.                               *)
LEMMA StandsMatched ==
    ASSUME RunsKnown(runs, events), Stands(events, disk, runs, apple, final), ~ClosedTwice(events)
    PROVE  MatchingReceipts(events) = {final}
<1>1. final \in MatchingReceipts(events)
  BY DEF Stands, MatchingReceipts
<1>2. ASSUME NEW r \in MatchingReceipts(events) PROVE r = final
  <2>1. r \in DOMAIN runs /\ SealedLineage(events, runs[r].receipt) /\ runs[r].receipt \in 0..Len(events)
    BY <1>2 DEF MatchingReceipts, RunsKnown
  <2>2. final \in DOMAIN runs /\ SealedLineage(events, runs[final].receipt) /\ runs[final].receipt \in 0..Len(events)
    BY DEF Stands, RunsKnown
  <2>4. runs[r].receipt = runs[final].receipt
    BY <2>1, <2>2, LineageUnique
  <2> QED
    BY <2>1, <2>4 DEF Stands
<1> QED
  BY <1>1, <1>2

(* The finalization of the plan is a history of one attempt.                *)
LEMMA PlannedHistory ==
    ASSUME NEW q, DOMAIN q = 1..Len(q), Len(q) \in 9..10, \A i \in 1..Len(q) : q[i].st = PlanState(i + 6)
    PROVE  /\ Indices(q, "recovery_tool_continued") = {} /\ Indices(q, "recovery_intent_anchored") = {}
           /\ Indices(q, "finalization_started") = {1} /\ AttemptHistory(q, FALSE)
<1>1. ASSUME NEW i \in 1..Len(q)
      PROVE  /\ q[i].st \notin {"recovery_tool_continued", "recovery_intent_anchored"}
             /\ q[i].st = "finalization_started" <=> i = 1
  <2>0. PICK n \in 9..10 : n = Len(q)
    OBVIOUS
  <2>1. q[i].st = PlanState(i + 6) /\ i + 6 \in 1..16
    <3>1. i \in 1..n
      BY <2>0, Zenon
    <3>2. i + 6 \in 1..16
      BY <3>1
    <3> QED
      BY <3>2
  <2>2. i = 1 => q[i].st = "finalization_started"
    BY <2>1, PlanTable
  <2> QED
    BY <2>1, <2>2, PlanStates, SMTT(30)
<1>2. Indices(q, "recovery_tool_continued") = {} /\ Indices(q, "recovery_intent_anchored") = {}
  BY <1>1 DEF Indices
<1>3. Indices(q, "finalization_started") = {1}
  BY <1>1 DEF Indices
<1>4. Cardinality(Indices(q, "recovery_tool_continued")) = 0
  BY <1>2, FS_EmptySet
<1>5. PICK F : F = FinalizationStates
  OBVIOUS
<1>6. /\ DOMAIN F = 1..8 /\ F[1] = "accepted" /\ F[2] = "log_verified" /\ F[3] = "stapling" /\ F[4] = "stapled"
      /\ F[5] = "gatekeeper_verified" /\ F[6] = "app_verified" /\ F[7] = "distribution_verified" /\ F[8] = "sealed"
  BY <1>5 DEF FinalizationStates
<1>7. ASSUME NEW i \in DOMAIN q
      PROVE  LET before == StateAt(q, i - 1) IN
             CASE q[i].st = "finalization_started" ->
                       before \in TerminalStates \cup {"none", "recovery_tool_continued"}
               [] q[i].st = "recovery_tool_continued" -> before \in TerminalStates \cup {"none"}
               [] q[i].st \in TerminalStates ->
                       \/ before = "finalization_started"
                       \/ \E k \in DOMAIN F : before = F[k]
               [] OTHER -> \E k \in DOMAIN F :
                             /\ q[i].st = F[k]
                             /\ before = IF k = 1 THEN "finalization_started" ELSE F[k - 1]
  <2>1. PICK b : b = StateAt(q, i - 1)
    OBVIOUS
  <2>2. q[i].st = PlanState(i + 6)
    BY <1>7
  <2>3. IF i = 1 THEN b = "none" ELSE b = PlanState(i + 5)
    <3>1. CASE i = 1
      BY <2>1, <3>1 DEF StateAt
    <3>2. CASE i # 1
      <4>1. i - 1 \in 1..Len(q) /\ (i - 1) + 6 = i + 5
        BY <3>2
      <4> QED
        BY <2>1, <3>2, <4>1 DEF StateAt
    <3> QED
      BY <3>1, <3>2
  <2>4. CASE i = 1
    BY <2>1, <2>2, <2>3, <2>4, PlanTable DEF TerminalStates
  <2>5. CASE i \in 2..9
    <3>1. PICK k \in 1..8 : k = i - 1
      BY <2>5
    <3>2. q[i].st = F[k] /\ b = (IF k = 1 THEN "finalization_started" ELSE F[k - 1])
      <4>1. k = 1 \/ k = 2 \/ k = 3 \/ k = 4 \/ k = 5 \/ k = 6 \/ k = 7 \/ k = 8
        OBVIOUS
      <4>2. q[i].st = PlanState(k + 7) /\ b = PlanState(k + 6)
        BY <2>2, <2>3, <2>5, <3>1
      <4>3. /\ PlanState(1 + 7) = F[1] /\ PlanState(2 + 7) = F[2] /\ PlanState(3 + 7) = F[3] /\ PlanState(4 + 7) = F[4]
            /\ PlanState(5 + 7) = F[5] /\ PlanState(6 + 7) = F[6] /\ PlanState(7 + 7) = F[7] /\ PlanState(8 + 7) = F[8]
            /\ PlanState(1 + 6) = "finalization_started"
        BY <1>6, PlanTable
      <4>4. q[i].st = F[k]
        BY <4>1, <4>2, <4>3
      <4>5. CASE k = 1
        BY <4>2, <4>3, <4>4, <4>5
      <4>6. CASE k # 1
        <5>1. PICK m \in 1..7 : m = k - 1
          BY <4>6
        <5>2. m = 1 \/ m = 2 \/ m = 3 \/ m = 4 \/ m = 5 \/ m = 6 \/ m = 7
          OBVIOUS
        <5>3. b = PlanState(m + 7)
          <6>1. m + 7 = k + 6
            BY <5>1
          <6> QED
            BY <4>2, <6>1, Zenon
        <5>4. b = F[m]
          BY <4>3, <5>2, <5>3
        <5> QED
          BY <4>4, <4>6, <5>1, <5>4
      <4> QED
        BY <4>5, <4>6
    <3>3. q[i].st \notin TerminalStates \cup {"finalization_started", "recovery_tool_continued"}
      <4>1. k = 1 \/ k = 2 \/ k = 3 \/ k = 4 \/ k = 5 \/ k = 6 \/ k = 7 \/ k = 8
        OBVIOUS
      <4> QED
        BY <1>6, <3>2, <4>1 DEF TerminalStates
    <3> QED
      BY <1>6, <2>1, <3>2, <3>3
  <2>6. CASE i = 10
    <3>1. q[i].st = "outcome_unknown" /\ b = F[8]
      BY <1>6, <2>2, <2>3, <2>6, PlanTable
    <3> QED
      BY <1>6, <2>1, <3>1 DEF TerminalStates
  <2> QED
    BY <2>4, <2>5, <2>6
<1>8. AttemptHistory(q, FALSE)
  BY <1>4, <1>5, <1>7 DEF AttemptHistory
<1> QED
  BY <1>2, <1>3, <1>8

(* A planned journal is accepted by the reducer, with the submission of     *)
(* execute at its boundary.                                                 *)
LEMMA PlannedReducible ==
    ASSUME NEW ev, AsPlanned(ev), Len(ev) \in 15..16
    PROVE  /\ RecoveryStart(ev) = 6 /\ BoundaryId(ev) = Orig /\ Reducible(ev, NoId)
           /\ Anchors(ev) = {} /\ Markers(ev) = {}
<1>1. IsSeq(ev) /\ DOMAIN ev = 1..Len(ev)
  BY Appended DEF AsPlanned
<1>2. \A i \in 1..Len(ev) : i \in 1..16 /\ ev[i].st = PlanState(i) /\ ev[i].sub = (IF i < 4 THEN NoId ELSE Orig)
  BY SMTT(30) DEF AsPlanned
<1>3. ReadyAt(ev) = {6} /\ Submitted(ev) /\ DirectReady(ev)
  BY PlannedReady
<1>0. PICK len \in 15..16 : len = Len(ev)
  OBVIOUS
<1>4. 1 \in 1..Len(ev) /\ 2 \in 1..Len(ev) /\ 3 \in 1..Len(ev) /\ 4 \in 1..Len(ev) /\ 5 \in 1..Len(ev)
  BY <1>0
<1>5. /\ ev[1].st = "prepared" /\ ev[2].st = "notary_ready" /\ ev[3].st = "submitting" /\ ev[4].st = "submitted"
      /\ ev[5].st = "direct_finalization_preparing" /\ ev[4].sub = Orig
  BY <1>2, <1>4, PlanTable, SMTT(30)
<1>6. RecoveryStart(ev) = 6
  <2>1. (CHOOSE i \in ReadyAt(ev) : TRUE) = 6
    BY <1>3
  <2>2. /\ ~(Len(ev) < 3) /\ <<ev[1].st, ev[2].st, ev[3].st>> = <<"prepared", "notary_ready", "submitting">>
        /\ ~SourcePreparationIncomplete(ev)
    BY <1>3, <1>5 DEF SourcePreparationIncomplete
  <2>3. /\ StateAt(ev, 5) \notin ReconciliationStates \cup {"none"} /\ ~IsWaitOutcome(ev[5])
        /\ StateAt(ev, 4) \notin ReconciliationStates \cup {"none"} /\ ~IsSubmitOutcome(ev[4])
    BY <1>1, <1>4, <1>5 DEF StateAt, ReconciliationStates, IsWaitOutcome, IsSubmitOutcome
  <2> QED
    BY <1>3, <2>1, <2>2, <2>3 DEF RecoveryStart
<1>7. BoundaryId(ev) = Orig
  BY <1>5, <1>6 DEF BoundaryId
<1>8. Anchors(ev) = {} /\ Markers(ev) = {}
  <2>1. \A i \in DOMAIN ev : ev[i].st \notin {"recovery_intent_anchored", "recovery_tool_continued"}
    BY <1>1, <1>2, PlanStates
  <2> QED
    BY <2>1 DEF Anchors, Markers, Indices
<1>9. Cardinality(JournalIds(ev) \cup ({NoId} \ {NoId})) <= 1
  <2>1. JournalIds(ev) \cup ({NoId} \ {NoId}) = {Orig}
    <3>1. \A i \in DOMAIN ev : ev[i].sub \in {NoId, Orig}
      BY <1>1, <1>2
    <3>2. 4 \in DOMAIN ev /\ ev[4].sub = Orig /\ Orig # NoId
      BY <1>1, <1>4, <1>5, IdAssumption
    <3> QED
      BY <3>1, <3>2 DEF JournalIds
  <2>2. Cardinality({Orig}) = 1
    BY FS_Singleton
  <2> QED
    BY <2>1, <2>2
<1>10. PICK s : s = SubSeq(ev, 7, Len(ev))
  OBVIOUS
<1>11. /\ IsSeq(s) /\ Len(s) \in 9..10 /\ DOMAIN s = 1..Len(s)
       /\ \A i \in 1..Len(s) : s[i].st = PlanState(i + 6)
  <2>1. 7 \in 1..Len(ev) /\ Len(ev) \in 7..Len(ev)
    BY <1>0
  <2>2. /\ IsSeq(s) /\ Len(s) = Len(ev) - 7 + 1 /\ DOMAIN s = 1..(Len(ev) - 7 + 1)
        /\ \A i \in 1..(Len(ev) - 7 + 1) : s[i] = ev[7 + i - 1]
    <3>1. ASSUME NEW u \in 1..Len(ev), NEW v \in u..Len(ev), s = SubSeq(ev, u, v)
          PROVE  /\ IsSeq(s) /\ Len(s) = v - u + 1 /\ DOMAIN s = 1..(v - u + 1)
                 /\ \A i \in 1..(v - u + 1) : s[i] = ev[u + i - 1]
      <4>1. IsSeq(s)
        BY <1>1, <3>1, Sliced
      <4>2. Len(s) = v - u + 1
        BY <1>1, <3>1, Sliced
      <4>3. DOMAIN s = 1..(v - u + 1)
        BY <1>1, <3>1, Sliced
      <4>4. \A i \in 1..(v - u + 1) : s[i] = ev[u + i - 1]
        BY <1>1, <3>1, Sliced
      <4> QED
        BY <4>1, <4>2, <4>3, <4>4
    <3> QED
      BY <1>10, <2>1, <3>1
  <2>3. ASSUME NEW i \in 1..Len(s) PROVE s[i].st = PlanState(i + 6)
    <3>1. s[i] = ev[i + 6] /\ i + 6 \in 1..Len(ev)
      <4>1. 7 + i - 1 = i + 6 /\ i + 6 \in 1..Len(ev) /\ i \in 1..(Len(ev) - 7 + 1)
        BY <2>2
      <4> QED
        BY <2>2, <4>1
    <3> QED
      BY <1>2, <3>1
  <2> QED
    BY <2>2, <2>3, SMTT(30)
<1>12. /\ Indices(s, "recovery_tool_continued") = {} /\ Indices(s, "recovery_intent_anchored") = {}
       /\ Indices(s, "finalization_started") = {1} /\ AttemptHistory(s, FALSE)
  BY <1>11, PlannedHistory
<1>13. PICK d : d = SubSeq(s, 1, Len(s))
  OBVIOUS
<1>14. /\ Len(d) = Len(s) /\ DOMAIN d = 1..Len(d) /\ \A i \in 1..Len(d) : d[i].st = PlanState(i + 6)
  <2>1. 1 \in 1..Len(s) /\ Len(s) \in 1..Len(s)
    BY <1>11
  <2>2. /\ Len(d) = Len(s) - 1 + 1 /\ DOMAIN d = 1..(Len(s) - 1 + 1)
        /\ \A i \in 1..(Len(s) - 1 + 1) : d[i] = s[1 + i - 1]
    BY <1>11, <1>13, <2>1, Sliced
  <2>3. \A n \in Nat : n - 1 + 1 = n /\ 1 + n - 1 = n
    OBVIOUS
  <2>4. Len(d) = Len(s) /\ DOMAIN d = 1..Len(d) /\ \A i \in 1..Len(d) : d[i] = s[i]
    BY <1>11, <2>2, <2>3
  <2> QED
    BY <1>11, <2>4
<1>15. AttemptHistory(d, FALSE) /\ Indices(d, "finalization_started") = {1}
  BY <1>11, <1>14, PlannedHistory
<1>16. AttemptHistory(<<>>, TRUE)
  <2>1. Indices(<<>>, "recovery_tool_continued") = {} /\ DOMAIN <<>> = {}
    BY DEF Indices
  <2>2. Cardinality(Indices(<<>>, "recovery_tool_continued")) = 0
    BY <2>1, FS_EmptySet
  <2> QED
    BY <2>1, <2>2 DEF AttemptHistory
<1>17. DirectSuffix(s)
  <2>1. SubSeq(s, (Len(s) + 1) + 1, Len(s)) = <<>>
    <3>1. (Len(s) + 1) + 1 \in Int /\ Len(s) \in Int /\ Len(s) < (Len(s) + 1) + 1
      BY <1>11
    <3> QED
      BY <3>1, SubSeqEmpty
  <2>2. SubSeq(s, 1, (Len(s) + 1) - 1) = d
    <3>1. (Len(s) + 1) - 1 = Len(s)
      BY <1>11
    <3> QED
      BY <1>13, <3>1
  <2>3. Cardinality({1}) = 1 /\ Cardinality({}) = 0
    BY FS_Singleton, FS_EmptySet
  <2>4. Cardinality(Indices(s, "recovery_intent_anchored")) <= 1 /\ Cardinality(Indices(d, "finalization_started")) <= 1
    BY <1>12, <1>15, <2>3
  <2> QED
    BY <1>12, <1>15, <1>16, <2>1, <2>2, <2>4, Zenon DEF DirectSuffix
<1>18. SubSeq(ev, RecoveryStart(ev) + 1, Len(ev)) = s
  <2>1. RecoveryStart(ev) + 1 = 7
    BY <1>6
  <2> QED
    BY <1>10, <2>1
<1>19. Reducible(ev, NoId)
  <2>1. RecoveryStart(ev) > 0
    BY <1>6
  <2> QED
    BY <1>3, <1>9, <1>17, <1>18, <2>1 DEF Reducible
<1> QED
  BY <1>6, <1>7, <1>8, <1>19

(* The evidence consumer accepts what execute published.                    *)
LEMMA PlannedValidates ==
    ASSUME RunsKnown(runs, events), Stands(events, disk, runs, apple, final), ~ClosedTwice(events), disk.rintent = NoId
    PROVE  PublicationValidates
<1>1. AsPlanned(events) /\ PlanDisk("publish", disk) /\ SealedLineage(events, runs[final].receipt)
  BY DEF Stands
<1>2. Len(events) \in 15..16
  BY <1>1, PlannedSealed
<1>3. ReadyAt(events) = {6} /\ Submitted(events) /\ DirectReady(events)
  BY <1>1, <1>2, PlannedReady
<1>4. /\ RecoveryStart(events) = 6 /\ BoundaryId(events) = Orig /\ Reducible(events, NoId)
      /\ Anchors(events) = {} /\ Markers(events) = {}
  BY <1>1, <1>2, PlannedReducible
<1>5. /\ disk.intent /\ disk.observation = Orig /\ disk.receipt = Orig /\ disk.acquisition = "submit-no-wait"
      /\ disk.source = "recovery-source" /\ disk.cont = NoTool /\ disk.contPending = FALSE
  BY <1>1 DEF PlanDisk, Unbound, FinalLabels
<1>6. ObservationAgrees(events) /\ ReceiptAgrees(events)
  BY <1>4, <1>5, IdAssumption DEF ObservationAgrees, ReceiptAgrees
<1>7. LoadSucceeds(events)
  BY <1>4, <1>5, <1>6 DEF LoadSucceeds, InventoryComplete, IntentDocument, ContinuationPendingAllowed
<1>8. DirectPublication
  BY <1>3, <1>4, <1>5 DEF DirectPublication
<1>9. MatchingReceipts(events) = {final}
  BY StandsMatched
<1> QED
  BY <1>3, <1>5, <1>7, <1>8, <1>9, IdAssumption DEF PublicationValidates, SealStands, Reconciled

LEMMA PublicationSealed == PublicationInv => PublishedIsSealed
<1> SUFFICES ASSUME PublicationInv, final > 0 PROVE PublishedIsSealed
  BY DEF PublishedIsSealed
<1>1. RunsKnown(runs, events) /\ Stands(events, disk, runs, apple, final)
  BY DEF PublicationInv
<1>2. ClosedTwice(events) \/ MatchingReceipts(events) = {final}
  BY <1>1, StandsMatched
<1>3. disk.rintent = NoId => ClosedTwice(events) \/ PublicationValidates
  BY <1>1, PlannedValidates
<1> QED
  BY <1>1, <1>2, <1>3 DEF PublishedIsSealed, Stands

(* PublicationInv holds in every state of either layout.                    *)
LEMMA PublicationInvariant == AttemptSpec => []PublicationInv
<1>1. AttemptInv /\ PublicationInv /\ [AttemptNext]_<<vars, legacyVars, layout>> => PublicationInv'
  BY PublicationNext DEF AttemptNext
<1> QED
  BY <1>1, PublicationStarts, AttemptInvariant, PTL DEF AttemptSpec

(* What publish_exclusive put at the final root is the run of the only      *)
(* receipt that the journal still supports, and Apple accepted the          *)
(* submission its attempt is bound to: no later recovery, crash, cleanup or *)
(* recorded outcome undoes that.  What execute_transaction published        *)
(* without a recovery, validate_published_transaction_receipt accepts.  The *)
(* one exception is the journal that execute closed twice (ClosedTwice).    *)
THEOREM PublicationsAreSealed == AttemptSpec => []PublishedIsSealed
  BY PublicationSealed, PublicationInvariant, PTL
=============================================================================
