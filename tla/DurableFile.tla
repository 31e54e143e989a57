----------------------------- MODULE DurableFile -----------------------------
(***************************************************************************)
(* publication/durable_file.py: a file or a directory of files is written  *)
(* under another name and renamed to the name it is published under, with  *)
(* fsyncs in an order that lets a caller rely on it after a loss of power. *)
(* Four operations share the code:                                         *)
(*   "directory"  publish_private_directory_locked                         *)
(*   "file"       publish_private_file_locked                              *)
(*   "pending"    write_private_pending, then promote_private_pending, the *)
(*                one whose unfinished file is kept for recovery           *)
(*   "tree"       publish_private_directory_exclusive of a tree that its   *)
(*                caller wrote, without a lock and without clean-up        *)
(* The directory's flock admits one command at a time.  A tree is modelled *)
(* by its entries, what of it is on disk, and the name it is found under.  *)
(***************************************************************************)
EXTENDS Naturals, FiniteSets

CONSTANTS Entries,      \* the files of a published directory
          MaxAttempts,  \* publications tried
          MaxIOFaults   \* errors, interrupts, crashes and losses of power

ASSUME DurableFileAssumption ==
    Entries # {} /\ MaxAttempts \in Nat \ {0} /\ MaxIOFaults \in Nat

VARIABLES tree, cmd, told, foreign, faults
vars == <<tree, cmd, told, foreign, faults>>

Attempts == 1..MaxAttempts
Ops == {"directory", "file", "pending", "tree"}
\* "work" is the staging name of an attempt, or the pending file's name.
Places == {"none", "work", "published"}
Contents == {"absent", "torn", "full"}

\* place and ent are what programs see; onDisk is the place a loss of power may
\* still bring back; safe holds the entries whose bytes, and listed those whose
\* names in the tree, are on disk; gone marks a removed tree.
NewTree == [op |-> "file", place |-> "none", onDisk |-> "none", ent |-> [e \in Entries |-> "absent"],
            safe |-> {}, listed |-> {}, gone |-> FALSE]
Idle == [pc |-> "idle", at |-> 1, outcome |-> "none"]
Pcs == {"idle", "absent", "create", "write", "finish", "sync", "list", "readback", "flush", "recheck",
        "rename", "barrier", "verify", "tell", "remove", "read", "promise"}
Outcomes == {"none", "ok", "refused", "failed", "unknown", "unread", "interrupted", "cleanup"}

\* A single file is a tree with one entry.
Files(i) == IF tree[i].op \in {"directory", "tree"} THEN Entries ELSE {CHOOSE e \in Entries : TRUE}
Whole(i) == \A e \in Files(i) : tree[i].ent[e] = "full"
Published == {i \in Attempts : tree[i].place = "published"}
\* foreign: another program, which does not take the lock, has taken the name.
Taken == Published # {} \/ foreign

TypeOK ==
    /\ tree \in [Attempts -> [op : Ops, place : Places, onDisk : Places, ent : [Entries -> Contents],
                              safe : SUBSET Entries, listed : SUBSET Entries, gone : BOOLEAN]]
    /\ cmd \in [pc : Pcs, at : Attempts, outcome : Outcomes]
    /\ told \subseteq Attempts /\ foreign \in BOOLEAN /\ faults \in 0..MaxIOFaults

Init == tree = [i \in Attempts |-> NewTree] /\ cmd = Idle /\ told = {} /\ foreign = FALSE /\ faults = 0

Fault == faults < MaxIOFaults /\ faults' = faults + 1
Quiet == UNCHANGED <<told, foreign, faults>>
At(pc) == cmd.pc = pc
Go(pc) == cmd' = [cmd EXCEPT !.pc = pc]
End(outcome) == cmd' = [cmd EXCEPT !.pc = "idle", !.outcome = outcome]
This == tree[cmd.at]
Put(t) == tree' = [tree EXCEPT ![cmd.at] = t]
Files1 == Files(cmd.at)

-----------------------------------------------------------------------------
(* Writing the tree under its other name.                                  *)

\* The lock is taken and a publication begins; a pending file that is there is
\* resumed, never written again.
Begin(op, i) ==
    /\ At("idle") /\ tree[i] = NewTree
    /\ \A j \in Attempts : (j < i => tree[j] # NewTree)
    /\ op = "pending" => \A j \in Attempts : ~(tree[j].op = "pending" /\ tree[j].place = "work")
    /\ cmd' = [pc |-> IF op \in {"pending", "tree"} THEN "create" ELSE "absent", at |-> i, outcome |-> "none"]
    /\ tree' = [tree EXCEPT ![i].op = op] /\ Quiet
\* The published tree is the caller's, already there when the call begins.
TakesTree == This.op = "tree"
RequireAbsent ==
    /\ At("absent") /\ UNCHANGED tree /\ Quiet
    /\ IF Taken THEN End("refused") ELSE Go(IF TakesTree THEN "flush" ELSE "create")
Create ==
    /\ At("create") /\ Quiet
    /\ Put([This EXCEPT !.place = "work"]) /\ Go("write")
Write ==
    /\ At("write") /\ Quiet
    /\ \/ \E e \in Files1 : /\ This.ent[e] = "absent"
                            /\ Put([This EXCEPT !.ent[e] = "torn"]) /\ Go("finish")
       \/ Whole(cmd.at) /\ UNCHANGED tree /\ Go(CASE This.op = "directory" -> "readback" [] TakesTree -> "absent" [] OTHER -> "flush")
Finish ==
    /\ At("finish") /\ Quiet /\ Go(IF TakesTree THEN "write" ELSE "sync")
    /\ Put([This EXCEPT !.ent = [e \in Entries |-> IF @[e] = "torn" THEN "full" ELSE @[e]]])
\* full_fsync of the file that was written.
Sync ==
    /\ At("sync") /\ Quiet
    /\ Put([This EXCEPT !.safe = {e \in Entries : This.ent[e] = "full"}])
    /\ Go(IF This.op = "file" THEN "write" ELSE "list")
\* A file that is not a staging file is also made durable in its directory.
List ==
    /\ At("list") /\ Quiet /\ Go("write")
    /\ Put(IF This.op = "pending" THEN [This EXCEPT !.onDisk = "work"]
           ELSE [This EXCEPT !.listed = {e \in Entries : This.ent[e] # "absent"}])

-----------------------------------------------------------------------------
(* Promotion to the published name.                                        *)

\* _read_private_directory_contents_at: the whole tree is read, and made durable
\* with its directory and the parent's entry before it is believed.
Settled(t) == [t EXCEPT !.safe = Entries, !.listed = Entries, !.onDisk = t.place]
ReadBack ==
    /\ At("readback") /\ Whole(cmd.at) /\ Put(Settled(This)) /\ Go("flush") /\ Quiet
\* fsync_private_tree: every file, then the directories from the leaves up.
TreeSynced(t) == [t EXCEPT !.safe = Entries, !.listed = Entries]
\* What is renamed is first made durable; a staged file already was.
Flush ==
    /\ At("flush") /\ Go(IF TakesTree THEN "rename" ELSE "recheck") /\ Quiet
    /\ Put(CASE This.op = "file" -> This
             [] This.op = "pending" -> [This EXCEPT !.safe = Files1]
             [] OTHER -> TreeSynced(This))
\* A raise before the rename: staging is removed, a pending file and a caller's tree stay.
Abandon == IF This.op \in {"directory", "file"} THEN Go("remove") ELSE End("failed")
Recheck ==
    /\ At("recheck") /\ UNCHANGED tree /\ Quiet
    /\ IF Taken THEN Abandon ELSE Go("rename")
\* Mutant: the rename replaces what has the name.
RenameOver ==
    /\ At("rename") /\ Go("barrier") /\ foreign' = FALSE /\ UNCHANGED <<told, faults>>
    /\ tree' = [i \in Attempts |-> IF i = cmd.at THEN [This EXCEPT !.place = "published"]
                                  ELSE IF i \in Published THEN [tree[i] EXCEPT !.place = "none"] ELSE tree[i]]
\* renameatx_np with RENAME_EXCL.
Rename ==
    /\ At("rename") /\ Quiet
    /\ IF Taken THEN UNCHANGED tree /\ Abandon
       ELSE Put([This EXCEPT !.place = "published"]) /\ Go("barrier")
\* Mutant: the parent directory is not synced after the rename.
BarrierSkipped ==
    /\ At("barrier") /\ UNCHANGED tree /\ Quiet /\ Go("tell")
\* fsync_locked_directory of the parent, and of the staging directory.
NamesSynced(t) == [t EXCEPT !.onDisk = t.place]
Barrier ==
    /\ At("barrier") /\ Quiet /\ Put(NamesSynced(This))
    /\ Go(IF This.op = "directory" THEN "verify" ELSE "tell")
Verify ==
    /\ At("verify") /\ Put(Settled(This)) /\ Go("tell") /\ Quiet
\* The call returns: its caller now relies on the publication.
Tell ==
    /\ At("tell") /\ told' = told \cup {cmd.at} /\ End("ok")
    /\ UNCHANGED <<tree, foreign, faults>>

\* _remove_created_pending: only what this attempt made.
Emptied(t) == IF t.place = "work" THEN [NewTree EXCEPT !.op = t.op, !.gone = TRUE] ELSE t
Remove == At("remove") /\ Quiet /\ End("failed") /\ Put(Emptied(This))

-----------------------------------------------------------------------------
(* Errors, interrupts, crashes and losses of power.                        *)

\* Mutant: an error after the rename is reported like any other.
FailsPlainly ==
    /\ Fault /\ UNCHANGED <<told, foreign, tree>> /\ ~At("idle")
    /\ IF This.place = "work" THEN Go("remove") ELSE End("failed")
\* A system call fails.  After the rename that is reported as an unknown outcome,
\* except by the directory's last read, which finds the rename durable already.
Fails ==
    /\ Fault /\ UNCHANGED <<told, foreign>>
    /\ \/ /\ cmd.pc \in {"absent", "create"} /\ UNCHANGED tree /\ End("failed")
       \/ At("create") /\ This.op = "directory" /\ Put([This EXCEPT !.place = "work"]) /\ End("failed")
       \/ /\ cmd.pc \in {"write", "finish", "sync", "readback", "flush", "recheck", "rename"}
          /\ UNCHANGED tree
          /\ IF This.op = "pending" /\ cmd.pc \in {"write", "finish", "sync"} THEN Go("remove") ELSE Abandon
       \/ At("list") /\ UNCHANGED tree /\ Abandon
       \/ At("barrier") /\ UNCHANGED tree /\ End("unknown")
       \/ cmd.pc \in {"verify", "remove"} /\ UNCHANGED tree /\ End("failed")
       \/ At("read") /\ UNCHANGED tree /\ End("unread")
\* KeyboardInterrupt: staging is removed, a pending file is kept.  A directory that
\* is already renamed is not found by its removal, whose error replaces the interrupt.
Interrupted ==
    /\ Fault /\ UNCHANGED <<tree, told, foreign>> /\ cmd.pc \notin {"idle", "remove"}
    /\ IF This.op \in {"directory", "file"} /\ This.place = "work" THEN Go("remove")
       ELSE End(IF At("barrier") /\ This.op = "directory" THEN "cleanup" ELSE "interrupted")
Crash == ~At("idle") /\ Fault /\ End("none") /\ UNCHANGED <<tree, told, foreign>>
\* What was not yet on disk may be lost, in part: contents c may be left of t.
MayBeLeft(t, c) ==
    \A e \in Entries : \/ c[e] = t.ent[e]
                       \/ c[e] = "torn" /\ t.ent[e] = "full" /\ e \notin t.safe
                       \/ c[e] = "absent" /\ t.op \in {"directory", "tree"} /\ e \notin t.listed
Left(t, p, c) == [t EXCEPT !.place = p, !.onDisk = p, !.ent = c, !.safe = Entries, !.listed = Entries]
LostPower(t) ==
    IF t.place = "none" THEN {t}
    ELSE {Left(t, p, c) : p \in {t.place, t.onDisk}, c \in {c \in [Entries -> Contents] : MayBeLeft(t, c)}}
PowerLoss ==
    /\ Fault /\ UNCHANGED <<told, foreign>> /\ End("none")
    /\ \E f \in [Attempts -> UNION {LostPower(tree[i]) : i \in Attempts}] :
          (\A i \in Attempts : f[i] \in LostPower(tree[i])) /\ tree' = f
\* Another program takes the name without the lock.
ForeignTakes == Fault /\ ~Taken /\ foreign' = TRUE /\ UNCHANGED <<tree, cmd, told>>

-----------------------------------------------------------------------------
(* Recovery and reading.                                                   *)

\* A pending file found later: promoted when its caller finds it whole, and
\* discarded otherwise.
ResumePending(i) ==
    /\ At("idle") /\ tree[i].op = "pending" /\ tree[i].place = "work" /\ Whole(i)
    /\ cmd' = [pc |-> "flush", at |-> i, outcome |-> "none"] /\ UNCHANGED tree /\ Quiet
\* confirm_private_directory_published: after an unknown outcome, a tree that is only
\* under its published name is made durable with its name.
Confirm(i) ==
    /\ At("idle") /\ tree[i].op = "tree" /\ i \in Published
    /\ cmd' = [pc |-> "read", at |-> i, outcome |-> "none"] /\ UNCHANGED tree /\ Quiet
\* discard_private_pending: unlinks the file and makes that durable.
DiscardPending(i) ==
    /\ At("idle") /\ tree[i].op = "pending" /\ tree[i].place = "work" /\ ~Whole(i)
    /\ tree' = [tree EXCEPT ![i] = Emptied(@)] /\ UNCHANGED cmd /\ Quiet
\* read_private_directory_contents_locked, read_private_pending_locked: another
\* command reads what is published, and makes it durable before it returns it.
ReadLocked(i) ==
    /\ At("idle") /\ i \in Published /\ tree[i].op # "tree" /\ Whole(i)
    /\ cmd' = [pc |-> "read", at |-> i, outcome |-> "none"] /\ UNCHANGED tree /\ Quiet
ReadSettles == At("read") /\ Put(Settled(This)) /\ Go("promise") /\ Quiet
ReadReturns == At("promise") /\ told' = told \cup {cmd.at} /\ End("ok")
    /\ UNCHANGED <<tree, foreign, faults>>

Step ==
    \/ RequireAbsent \/ Create \/ Write \/ Finish \/ Sync \/ List \/ ReadBack \/ Flush \/ Recheck
    \/ Rename \/ Barrier \/ Verify \/ Tell \/ Remove \/ ReadSettles \/ ReadReturns
Next ==
    \/ Step
    \/ \E i \in Attempts : (\E op \in Ops : Begin(op, i)) \/ ResumePending(i)
                         \/ Confirm(i) \/ DiscardPending(i) \/ ReadLocked(i)
    \/ Fails \/ Interrupted \/ Crash \/ PowerLoss \/ ForeignTakes
Spec == Init /\ [][Next]_vars

-----------------------------------------------------------------------------
(* Properties.                                                             *)

\* What stands under the published name is every byte of one publication, also
\* after a loss of power at any point: the tree is on disk before the rename can be.
DestinationIsComplete == \A i \in Published : Whole(i)

\* A publication whose caller was told of it, by the publishing call or by one
\* that read it, is there, whole and on disk, whatever fails or stops later.
AcknowledgedSurvives ==
    \A i \in told : i \in Published /\ Whole(i) /\ tree[i].onDisk = "published"

\* A call that reports plain failure left nothing that a loss of power could take
\* back or bring back: either the name was not given, or it was and is on disk.
\* Anything between the two is reported as DurabilityOutcomeUnknown.  (An interrupt
\* right after a directory's rename is reported as a failed cleanup and is not covered.)
FailureIsDefinite ==
    cmd.outcome = "failed" => ~(tree[cmd.at].place = "published" /\ tree[cmd.at].onDisk # "published")

\* 0 stands for nothing, MaxAttempts + 1 for what another program put there.
Shown == IF foreign THEN MaxAttempts + 1 ELSE IF Published = {} THEN 0 ELSE CHOOSE i \in Published : TRUE
Promise == INSTANCE AtomicPublication
              WITH Attempts <- 1..(MaxAttempts + 1), Nothing <- 0, shown <- Shown, told <- told
\* The name is given once, atomically and never over another's; it is taken back
\* only by a loss of power and only when nobody was told.
ImplementsPublication == Promise!Spec
=============================================================================
