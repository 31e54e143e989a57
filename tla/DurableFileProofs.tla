-------------------------- MODULE DurableFileProofs --------------------------
(***************************************************************************)
(* Proofs about DurableFile, for any set of entries and any number of      *)
(* publications and faults.  The inductive invariant says three things:    *)
(* what has the published name, or is about to get it, is whole and on     *)
(* disk (Good and Ready, on one tree); the name has one holder (Sole); and *)
(* what was told is on disk (Relied).  Every action but the loss of power  *)
(* changes one tree, so one lemma (OneTreeStep) carries the invariant over *)
(* and each action only shows what it makes of its own tree.               *)
(***************************************************************************)
EXTENDS DurableFile, SequenceTheorems, TLAPS

Trees == [op : Ops, place : Places, onDisk : Places, ent : [Entries -> Contents],
          safe : SUBSET Entries, listed : SUBSET Entries, gone : BOOLEAN]
Commands == [pc : Pcs, at : Attempts, outcome : Outcomes]

\* Files and Whole, of a tree rather than of an attempt.
FilesOf(t) == IF t.op \in {"directory", "tree"} THEN Entries ELSE {CHOOSE e \in Entries : TRUE}
Full(t) == \A e \in FilesOf(t) : t.ent[e] = "full"
\* No byte and no name inside the tree can be lost.
OnDisk(t) == FilesOf(t) \subseteq t.safe /\ (t.op \in {"directory", "tree"} => Entries \subseteq t.listed)

\* A published tree is whole and on disk, and only a published tree can come
\* back published.
Good(t) ==
    /\ t.place = "published" => Full(t) /\ OnDisk(t)
    /\ t.onDisk = "published" => t.place = "published"

\* What the running command has made of its tree when it reaches a label.
Ready(pc, t) ==
    /\ pc \in {"write", "finish", "sync", "list", "readback", "flush", "recheck", "rename", "remove"}
          => t.place = "work"
    /\ pc = "create" => t.place = "none" /\ \A e \in Entries : t.ent[e] = "absent"
    /\ pc = "absent" => /\ t.op = "tree" => t.place = "work" /\ Full(t)
                        /\ t.op # "tree" => t.place = "none" /\ \A e \in Entries : t.ent[e] = "absent"
    /\ pc \in {"write", "finish"} /\ t.op = "file" => \A e \in FilesOf(t) : t.ent[e] = "full" => e \in t.safe
    /\ pc = "list" => t.op # "file"
    /\ pc = "flush" => Full(t) /\ (t.op = "file" => FilesOf(t) \subseteq t.safe)
    /\ pc \in {"recheck", "rename"} => Full(t) /\ OnDisk(t)
    /\ pc \in {"barrier", "verify", "tell", "read", "promise"} => t.place = "published"
    /\ pc \in {"verify", "tell", "promise"} => t.onDisk = "published"

\* An outcome is that of an ended command, and a plain failure is definite.
Definite(c, t) ==
    /\ c.pc # "idle" => c.outcome = "none"
    /\ c.outcome = "failed" => ~(t.place = "published" /\ t.onDisk # "published")

\* One publication, or another program, has the name.
Sole == (\A i, j \in Published : i = j) /\ (foreign => Published = {})
\* What was told is published on disk.
Relied == \A i \in told : tree[i].place = "published" /\ tree[i].onDisk = "published"

DurableInv ==
    /\ TypeOK /\ Sole /\ Relied
    /\ \A i \in Attempts : Good(tree[i])
    /\ Ready(cmd.pc, This) /\ Definite(cmd, This)

-----------------------------------------------------------------------------
(* The model's names for the files of an attempt and of its tree agree.    *)
LEMMA WholeIsFull == \A i \in Attempts : Files(i) = FilesOf(tree[i]) /\ (Whole(i) <=> Full(tree[i]))
BY DEF Files, FilesOf, Whole, Full

(* The files of a tree are entries.                                        *)
LEMMA FilesAreEntries == ASSUME NEW t PROVE FilesOf(t) \subseteq Entries
BY DurableFileAssumption DEF FilesOf

(* Nothing is published, written or told at first.                         *)
LEMMA DurableInit == Init => DurableInv
<1> SUFFICES ASSUME Init PROVE DurableInv
  OBVIOUS
<1> USE DurableFileAssumption
<1>1. 1 \in Attempts
  BY DEF Attempts
<1>2. NewTree \in Trees /\ Good(NewTree)
  BY DEF NewTree, Trees, Ops, Places, Contents, Good
<1>3. TypeOK
  <2>1. tree \in [Attempts -> Trees]
    BY <1>2 DEF Init
  <2>2. cmd \in [pc : Pcs, at : Attempts, outcome : Outcomes]
    BY <1>1 DEF Init, Idle, Pcs, Outcomes
  <2>3. told \subseteq Attempts /\ foreign \in BOOLEAN
    BY DEF Init
  <2>4. faults \in 0..MaxIOFaults
    BY DEF Init
  <2> QED
    BY <2>1, <2>2, <2>3, <2>4 DEF TypeOK, Trees
<1>4. \A i \in Attempts : tree[i] = NewTree
  BY DEF Init
<1>5. Published = {}
  BY <1>4 DEF Published, NewTree
<1>6. Ready(cmd.pc, This) /\ Definite(cmd, This)
  BY DEF Init, Idle, Ready, Definite
<1> QED
  BY <1>2, <1>3, <1>4, <1>5, <1>6 DEF DurableInv, Sole, Relied, Init

(* A step that changes one tree keeps the invariant when the tree it       *)
(* leaves is good, ready for where its command stands, not less on disk    *)
(* under the published name than before, and published only if it was or   *)
(* if the name was free.                                                   *)
LEMMA OneTreeStep ==
    ASSUME DurableInv, NEW a \in Attempts, NEW t \in Trees, NEW c \in Commands,
           tree' = [tree EXCEPT ![a] = t], cmd' = c, UNCHANGED <<told, foreign>>, faults' \in 0..MaxIOFaults,
           Good(t), tree[a].onDisk = "published" => t.onDisk = "published",
           t.place = "published" => tree[a].place = "published" \/ ~Taken,
           IF c.at = a THEN Ready(c.pc, t) /\ Definite(c, t)
           ELSE Ready(c.pc, tree[c.at]) /\ Definite(c, tree[c.at])
    PROVE  DurableInv'
<1>0. tree \in [Attempts -> Trees]
  BY DEF DurableInv, TypeOK, Trees
<1>1. tree' \in [Attempts -> Trees] /\ tree'[a] = t /\ \A i \in Attempts : i # a => tree'[i] = tree[i]
  BY <1>0
<1>2. TypeOK'
  BY <1>1 DEF DurableInv, TypeOK, Trees, Commands
<1>3. Sole'
  <2>1. Published' \subseteq Published \cup {a}
    BY <1>1 DEF Published
  <2>2. a \in Published' => a \in Published \/ ~Taken
    BY <1>1 DEF Published
  <2> QED
    BY <2>1, <2>2 DEF DurableInv, Sole, Taken
<1>4. Relied'
  BY <1>1 DEF DurableInv, Relied, TypeOK, Good
<1>5. \A i \in Attempts : Good(tree'[i])
  BY <1>1 DEF DurableInv
<1>6. cmd'.at \in Attempts
  BY DEF Commands
<1>7. Ready(cmd'.pc, tree'[cmd'.at]) /\ Definite(cmd', tree'[cmd'.at])
  BY <1>1, <1>6
<1> QED
  BY <1>2, <1>3, <1>4, <1>5, <1>7 DEF DurableInv, This

(* The same for the tree of the running command: a step that ends at a     *)
(* label, or that ends the command with an outcome.                        *)
LEMMA OwnTreeStep ==
    ASSUME DurableInv, NEW t \in Trees, NEW pc \in Pcs, NEW o \in Outcomes,
           Put(t), cmd' = [cmd EXCEPT !.pc = pc, !.outcome = o],
           UNCHANGED <<told, foreign>>, faults' \in 0..MaxIOFaults,
           Good(t), This.onDisk = "published" => t.onDisk = "published",
           t.place = "published" => This.place = "published" \/ ~Taken,
           Ready(pc, t), pc # "idle" => o = "none",
           o = "failed" => ~(t.place = "published" /\ t.onDisk # "published")
    PROVE  DurableInv'
<1>1. cmd \in Commands /\ cmd.at \in Attempts
  BY DEF DurableInv, TypeOK, Commands
<1> DEFINE c == [cmd EXCEPT !.pc = pc, !.outcome = o]
<1>2. c \in Commands /\ c.at = cmd.at /\ c.pc = pc /\ c.outcome = o
  BY <1>1 DEF Commands
<1>3. Definite(c, t)
  BY <1>2 DEF Definite
<1> HIDE DEF c
<1>4. cmd' = c
  BY DEF c
<1> QED
  BY <1>1, <1>2, <1>3, <1>4, OneTreeStep DEF Put, This

(* What the invariant says of the running command's tree.                  *)
LEMMA OwnTree ==
    ASSUME DurableInv
    PROVE  /\ This \in Trees /\ Good(This) /\ Ready(cmd.pc, This) /\ cmd.pc \in Pcs /\ cmd.outcome \in Outcomes
           /\ cmd \in Commands /\ cmd.at \in Attempts /\ faults \in 0..MaxIOFaults
           /\ tree = [tree EXCEPT ![cmd.at] = This]
           /\ (cmd.pc # "idle" => cmd.outcome = "none")
           /\ Files1 = FilesOf(This) /\ (Whole(cmd.at) <=> Full(This))
<1>1. cmd \in Commands /\ cmd.at \in Attempts /\ tree \in [Attempts -> Trees] /\ faults \in 0..MaxIOFaults
  BY DEF DurableInv, TypeOK, Commands, Trees
<1>2. Files1 = FilesOf(This) /\ (Whole(cmd.at) <=> Full(This))
  BY <1>1, WholeIsFull DEF Files1, This
<1> QED
  BY <1>1, <1>2 DEF DurableInv, Commands, This, Definite

(* Go and End as one form.                                                 *)
LEMMA GoEnd ==
    ASSUME DurableInv, cmd.pc # "idle"
    PROVE  /\ \A pc \in Pcs : Go(pc) => cmd' = [cmd EXCEPT !.pc = pc, !.outcome = "none"]
           /\ \A o \in Outcomes : End(o) => cmd' = [cmd EXCEPT !.pc = "idle", !.outcome = o]
<1>1. cmd \in Commands /\ cmd.outcome = "none"
  BY OwnTree
<1>2. ASSUME NEW pc \in Pcs, Go(pc) PROVE cmd' = [cmd EXCEPT !.pc = pc, !.outcome = "none"]
  BY <1>1, <1>2 DEF Go, Commands
<1>3. ASSUME NEW o \in Outcomes, End(o) PROVE cmd' = [cmd EXCEPT !.pc = "idle", !.outcome = o]
  BY <1>3 DEF End
<1> QED
  BY <1>2, <1>3

(* A command that only moves on, its tree being ready there.               *)
LEMMA MoveOn ==
    ASSUME DurableInv, cmd.pc # "idle", UNCHANGED <<tree, told, foreign>>, faults' \in 0..MaxIOFaults,
           NEW pc \in Pcs, Go(pc), Ready(pc, This)
    PROVE  DurableInv'
<1>1. /\ This \in Trees /\ Good(This) /\ Put(This) /\ "none" \in Outcomes
      /\ cmd' = [cmd EXCEPT !.pc = pc, !.outcome = "none"]
  BY OwnTree, GoEnd DEF Put, Outcomes
<1> QED
  BY <1>1, OwnTreeStep

(* A command that ends and leaves its tree: a plain failure needs a tree   *)
(* that is not published, or is on disk.                                   *)
LEMMA Ends ==
    ASSUME DurableInv, UNCHANGED <<tree, told, foreign>>, faults' \in 0..MaxIOFaults,
           NEW o \in Outcomes, End(o), o = "failed" => This.place # "published" \/ This.onDisk = "published"
    PROVE  DurableInv'
<1>1. /\ This \in Trees /\ Good(This) /\ Put(This) /\ "idle" \in Pcs
      /\ cmd' = [cmd EXCEPT !.pc = "idle", !.outcome = o]
  BY OwnTree DEF Put, Pcs, End
<1>2. Ready("idle", This)
  BY DEF Ready
<1> QED
  BY <1>1, <1>2, OwnTreeStep

(* A raise before the rename removes staging and leaves a pending file.    *)
LEMMA AbandonKeeps ==
    ASSUME DurableInv, cmd.pc # "idle", This.place = "work",
           UNCHANGED <<tree, told, foreign>>, faults' \in 0..MaxIOFaults, Abandon
    PROVE  DurableInv'
<1>1. "remove" \in Pcs /\ Ready("remove", This) /\ "failed" \in Outcomes
  BY DEF Pcs, Ready, Outcomes
<1>2. CASE Go("remove")
  BY <1>1, <1>2, MoveOn
<1>3. CASE End("failed")
  BY <1>1, <1>3, Ends
<1> QED
  BY <1>2, <1>3 DEF Abandon

-----------------------------------------------------------------------------
(* Writing the tree under its other name keeps the invariant: the file is  *)
(* synced before the next is written, and only a whole tree goes on.       *)
LEMMA WritingKeeps ==
    ASSUME DurableInv, RequireAbsent \/ Create \/ Write \/ Finish \/ Sync \/ List \/ ReadBack
    PROVE  DurableInv'
<1> USE OwnTree DEF Quiet, At, TakesTree
<1>0. /\ {"create", "write", "finish", "sync", "list", "readback", "flush", "absent"} \subseteq Pcs
      /\ {"none", "refused"} \subseteq Outcomes /\ FilesOf(This) \subseteq Entries
  BY FilesAreEntries DEF Pcs, Outcomes
<1>1. CASE RequireAbsent
  <2>1. CASE End("refused")
    BY <1>0, <1>1, <2>1, Ends DEF RequireAbsent
  <2>2. CASE TakesTree /\ Go("flush")
    <3>1. Ready("flush", This)
      BY <1>1, <2>2 DEF RequireAbsent, Ready
    <3> QED
      BY <1>0, <1>1, <2>2, <3>1, MoveOn DEF RequireAbsent
  <2>3. CASE ~TakesTree /\ Go("create")
    <3>1. Ready("create", This)
      BY <1>1, <2>3 DEF RequireAbsent, Ready
    <3> QED
      BY <1>0, <1>1, <2>3, <3>1, MoveOn DEF RequireAbsent
  <2> QED
    BY <1>1, <2>1, <2>2, <2>3 DEF RequireAbsent
<1>2. CASE Create
  <2> DEFINE t == [This EXCEPT !.place = "work"]
  <2>1. t \in Trees /\ t.place = "work" /\ t.onDisk = This.onDisk /\ t.ent = This.ent /\ FilesOf(t) = FilesOf(This)
    BY DEF Trees, Places, FilesOf
  <2>2. This.place = "none" /\ \A e \in Entries : This.ent[e] = "absent"
    BY <1>2 DEF Create, Ready
  <2> HIDE DEF t
  <2>3. Good(t) /\ Ready("write", t) /\ This.onDisk # "published"
    BY <1>0, <2>1, <2>2 DEF Good, Ready
  <2>4. Put(t) /\ cmd' = [cmd EXCEPT !.pc = "write", !.outcome = "none"]
    BY <1>0, <1>2, GoEnd DEF Create, t
  <2> QED
    BY <1>0, <1>2, <2>1, <2>3, <2>4, OwnTreeStep DEF Create
<1>3. CASE Write
  <2>0. This.place = "work"
    BY <1>3 DEF Write, Ready
  <2>1. ASSUME NEW e \in Files1, This.ent[e] = "absent", Put([This EXCEPT !.ent[e] = "torn"]), Go("finish")
        PROVE  DurableInv'
    <3> DEFINE t == [This EXCEPT !.ent[e] = "torn"]
    <3>1. /\ t \in Trees /\ t.place = This.place /\ t.onDisk = This.onDisk /\ t.op = This.op /\ t.safe = This.safe
          /\ \A x \in Entries : t.ent[x] = IF x = e THEN "torn" ELSE This.ent[x]
          /\ FilesOf(t) = FilesOf(This)
      BY <1>0 DEF Trees, Contents, FilesOf
    <3> HIDE DEF t
    <3>2. Good(t) /\ Ready("finish", t)
      BY <1>0, <1>3, <2>0, <3>1 DEF Good, Ready, Write
    <3>3. Put(t) /\ cmd' = [cmd EXCEPT !.pc = "finish", !.outcome = "none"]
      BY <1>0, <1>3, <2>1, GoEnd DEF Write, t
    <3> QED
      BY <1>0, <1>3, <2>0, <3>1, <3>2, <3>3, OwnTreeStep DEF Write
  <2>2. ASSUME NEW pc \in {"readback", "absent", "flush"}, Full(This), UNCHANGED tree, Go(pc),
               pc = "absent" => This.op = "tree"
        PROVE  DurableInv'
    <3>1. Ready(pc, This)
      BY <1>3, <2>0, <2>2 DEF Ready, Write, Full
    <3> QED
      BY <1>0, <1>3, <2>2, <3>1, MoveOn DEF Write
  <2> QED
    BY <1>3, <2>1, <2>2 DEF Write
<1>4. CASE Finish
  <2> DEFINE t == [This EXCEPT !.ent = [e \in Entries |-> IF @[e] = "torn" THEN "full" ELSE @[e]]]
  <2>0. This.place = "work"
    BY <1>4 DEF Finish, Ready
  <2>1. /\ t \in Trees /\ t.place = This.place /\ t.onDisk = This.onDisk /\ t.op = This.op /\ t.safe = This.safe
        /\ FilesOf(t) = FilesOf(This)
    BY DEF Trees, Contents, FilesOf
  <2> HIDE DEF t
  <2>2. ASSUME NEW pc \in {"write", "sync"}, Go(pc), pc = "write" => This.op = "tree"
        PROVE  DurableInv'
    <3>1. Good(t) /\ Ready(pc, t)
      BY <2>0, <2>1, <2>2 DEF Good, Ready
    <3>2. Put(t) /\ cmd' = [cmd EXCEPT !.pc = pc, !.outcome = "none"]
      BY <1>0, <1>4, <2>2, GoEnd DEF Finish, t
    <3> QED
      BY <1>0, <1>4, <2>0, <2>1, <3>1, <3>2, OwnTreeStep DEF Finish
  <2> QED
    BY <1>4, <2>2 DEF Finish
<1>5. CASE Sync
  <2> DEFINE t == [This EXCEPT !.safe = {e \in Entries : This.ent[e] = "full"}]
  <2>0. This.place = "work"
    BY <1>5 DEF Sync, Ready
  <2>1. /\ t \in Trees /\ t.place = This.place /\ t.onDisk = This.onDisk /\ t.op = This.op /\ t.ent = This.ent
        /\ t.safe = {e \in Entries : This.ent[e] = "full"} /\ FilesOf(t) = FilesOf(This)
    BY DEF Trees, FilesOf
  <2> HIDE DEF t
  <2>2. ASSUME NEW pc \in {"write", "list"}, Go(pc), pc = "list" => This.op # "file"
        PROVE  DurableInv'
    <3>1. Good(t) /\ Ready(pc, t)
      BY <1>0, <2>0, <2>1, <2>2 DEF Good, Ready
    <3>2. Put(t) /\ cmd' = [cmd EXCEPT !.pc = pc, !.outcome = "none"]
      BY <1>0, <1>5, <2>2, GoEnd DEF Sync, t
    <3> QED
      BY <1>0, <1>5, <2>0, <2>1, <3>1, <3>2, OwnTreeStep DEF Sync
  <2> QED
    BY <1>5, <2>2 DEF Sync
<1>6. CASE List
  <2>0. This.place = "work" /\ This.op # "file"
    BY <1>6 DEF List, Ready
  <2>1. ASSUME NEW t \in Trees, t.place = "work", t.onDisk \in {"work", This.onDisk}, t.op # "file", Put(t)
        PROVE  DurableInv'
    <3>1. This.onDisk # "published"
      BY <2>0 DEF Good
    <3>2. Good(t) /\ Ready("write", t)
      BY <2>1, <3>1 DEF Good, Ready
    <3>3. cmd' = [cmd EXCEPT !.pc = "write", !.outcome = "none"]
      BY <1>0, <1>6, GoEnd DEF List
    <3> QED
      BY <1>0, <1>6, <2>0, <2>1, <3>1, <3>2, <3>3, OwnTreeStep DEF List
  <2>2. CASE This.op = "pending"
    <3>1. [This EXCEPT !.onDisk = "work"] \in Trees
      BY DEF Trees, Places
    <3> QED
      BY <1>6, <2>0, <2>1, <2>2, <3>1 DEF List, Trees
  <2>3. CASE This.op # "pending"
    <3>1. [This EXCEPT !.listed = {e \in Entries : This.ent[e] # "absent"}] \in Trees
      BY DEF Trees
    <3> QED
      BY <1>6, <2>0, <2>1, <2>3, <3>1 DEF List, Trees
  <2> QED
    BY <2>2, <2>3
<1>7. CASE ReadBack
  <2>0. This.place = "work" /\ Full(This)
    BY <1>7 DEF ReadBack, Ready
  <2> DEFINE t == Settled(This)
  <2>1. t \in Trees /\ t.place = "work" /\ t.onDisk = "work" /\ t.ent = This.ent /\ t.safe = Entries
        /\ FilesOf(t) = FilesOf(This)
    BY <2>0 DEF Settled, Trees, Places, FilesOf
  <2> HIDE DEF t
  <2>2. Good(t) /\ Ready("flush", t) /\ This.onDisk # "published"
    BY <1>0, <2>0, <2>1 DEF Good, Ready, Full
  <2>3. Put(t) /\ cmd' = [cmd EXCEPT !.pc = "flush", !.outcome = "none"]
    BY <1>0, <1>7, GoEnd DEF ReadBack, t
  <2> QED
    BY <1>0, <1>7, <2>0, <2>1, <2>2, <2>3, OwnTreeStep DEF ReadBack
<1> QED
  BY <1>1, <1>2, <1>3, <1>4, <1>5, <1>6, <1>7

(* Promotion keeps the invariant: what is renamed is on disk, the name is  *)
(* free when it is given, and a caller is told after the parent was synced.*)
LEMMA PromotionKeeps ==
    ASSUME DurableInv, Flush \/ Recheck \/ Rename \/ Barrier \/ Verify \/ Remove
    PROVE  DurableInv'
<1> USE OwnTree DEF Quiet, At, TakesTree
<1>0. /\ {"idle", "recheck", "rename", "barrier", "verify", "tell", "remove"} \subseteq Pcs
      /\ {"none", "failed"} \subseteq Outcomes /\ FilesOf(This) \subseteq Entries
  BY FilesAreEntries DEF Pcs, Outcomes
<1>1. CASE Flush
  <2>0. This.place = "work" /\ Full(This) /\ (This.op = "file" => FilesOf(This) \subseteq This.safe)
    BY <1>1 DEF Flush, Ready
  <2>1. ASSUME NEW t \in Trees, t.place = This.place, t.onDisk = This.onDisk, t.op = This.op, t.ent = This.ent,
               FilesOf(This) \subseteq t.safe, t.op \in {"directory", "tree"} => t.listed = Entries, Put(t)
        PROVE  DurableInv'
    <3>1. FilesOf(t) = FilesOf(This)
      BY <2>1 DEF FilesOf
    <3>2. Full(t) /\ OnDisk(t)
      BY <2>0, <2>1, <3>1 DEF Full, OnDisk
    <3>3. Good(t) /\ Ready("rename", t) /\ Ready("recheck", t)
      BY <2>0, <2>1, <3>2 DEF Good, Ready
    <3>4. PICK pc \in {"rename", "recheck"} : Go(pc)
      BY <1>1 DEF Flush
    <3>5. cmd' = [cmd EXCEPT !.pc = pc, !.outcome = "none"]
      BY <1>0, <1>1, <3>4, GoEnd DEF Flush
    <3> QED
      BY <1>0, <1>1, <2>0, <2>1, <3>3, <3>5, OwnTreeStep DEF Flush
  <2>2. CASE This.op = "file"
    BY <1>1, <2>0, <2>1, <2>2 DEF Flush
  <2>3. CASE This.op = "pending"
    <3>1. [This EXCEPT !.safe = Files1] \in Trees
      BY <1>0 DEF Trees
    <3> QED
      BY <1>1, <2>0, <2>1, <2>3, <3>1 DEF Flush, Trees
  <2>4. CASE This.op \in {"directory", "tree"}
    <3>1. TreeSynced(This) \in Trees
      BY DEF TreeSynced, Trees
    <3>2. Put(TreeSynced(This))
      BY <1>1, <2>4 DEF Flush
    <3> QED
      BY <1>0, <2>0, <2>1, <2>4, <3>1, <3>2 DEF TreeSynced, Trees
  <2> QED
    BY <2>2, <2>3, <2>4 DEF Trees, Ops
<1>2. CASE Recheck
  <2>0. This.place = "work" /\ Ready("rename", This)
    BY <1>2 DEF Recheck, Ready
  <2>1. CASE Abandon
    BY <1>2, <2>0, <2>1, AbandonKeeps DEF Recheck
  <2>2. CASE Go("rename")
    BY <1>0, <1>2, <2>0, <2>2, MoveOn DEF Recheck
  <2> QED
    BY <1>2, <2>1, <2>2 DEF Recheck
<1>3. CASE Rename
  <2>0. This.place = "work" /\ Full(This) /\ OnDisk(This)
    BY <1>3 DEF Rename, Ready
  <2>1. CASE Taken
    BY <1>3, <2>0, <2>1, AbandonKeeps DEF Rename
  <2>2. CASE ~Taken
    <3> DEFINE t == [This EXCEPT !.place = "published"]
    <3>1. /\ t \in Trees /\ t.place = "published" /\ t.onDisk = This.onDisk /\ t.op = This.op
          /\ t.ent = This.ent /\ t.safe = This.safe /\ t.listed = This.listed
      BY DEF Trees, Places
    <3> HIDE DEF t
    <3>2. Full(t) /\ OnDisk(t)
      BY <2>0, <3>1 DEF Full, OnDisk, FilesOf
    <3>3. Good(t) /\ Ready("barrier", t)
      BY <3>1, <3>2 DEF Good, Ready
    <3>4. Put(t) /\ cmd' = [cmd EXCEPT !.pc = "barrier", !.outcome = "none"]
      BY <1>0, <1>3, <2>2, GoEnd DEF Rename, t
    <3> QED
      BY <1>0, <1>3, <2>2, <3>1, <3>3, <3>4, OwnTreeStep DEF Rename
  <2> QED
    BY <2>1, <2>2
<1>4. CASE Barrier
  <2>0. This.place = "published" /\ Full(This) /\ OnDisk(This)
    BY <1>4 DEF Barrier, Ready, Good
  <2> DEFINE t == NamesSynced(This)
  <2>1. /\ t \in Trees /\ t.place = "published" /\ t.onDisk = "published" /\ t.op = This.op
        /\ t.ent = This.ent /\ t.safe = This.safe /\ t.listed = This.listed
    BY <2>0 DEF NamesSynced, Trees, Places
  <2> HIDE DEF t
  <2>2. Full(t) /\ OnDisk(t)
    BY <2>0, <2>1 DEF Full, OnDisk, FilesOf
  <2>3. Good(t) /\ Ready("verify", t) /\ Ready("tell", t)
    BY <2>1, <2>2 DEF Good, Ready
  <2>4. PICK pc \in {"verify", "tell"} : Go(pc)
    BY <1>4 DEF Barrier
  <2>5. Put(t) /\ cmd' = [cmd EXCEPT !.pc = pc, !.outcome = "none"]
    BY <1>0, <1>4, <2>4, GoEnd DEF Barrier, t
  <2> QED
    BY <1>0, <1>4, <2>0, <2>1, <2>3, <2>5, OwnTreeStep DEF Barrier
<1>5. CASE Verify
  <2>0. This.place = "published" /\ Full(This)
    BY <1>5 DEF Verify, Ready, Good
  <2> DEFINE t == Settled(This)
  <2>1. /\ t \in Trees /\ t.place = "published" /\ t.onDisk = "published" /\ t.op = This.op
        /\ t.ent = This.ent /\ t.safe = Entries /\ t.listed = Entries /\ FilesOf(t) = FilesOf(This)
    BY <2>0 DEF Settled, Trees, Places, FilesOf
  <2> HIDE DEF t
  <2>2. Full(t) /\ OnDisk(t)
    BY <1>0, <2>0, <2>1 DEF Full, OnDisk
  <2>3. Good(t) /\ Ready("tell", t)
    BY <2>1, <2>2 DEF Good, Ready
  <2>4. Put(t) /\ cmd' = [cmd EXCEPT !.pc = "tell", !.outcome = "none"]
    BY <1>0, <1>5, GoEnd DEF Verify, t
  <2> QED
    BY <1>0, <1>5, <2>0, <2>1, <2>3, <2>4, OwnTreeStep DEF Verify
<1>6. CASE Remove
  <2>0. This.place = "work"
    BY <1>6 DEF Remove, Ready
  <2> DEFINE t == Emptied(This)
  <2>1. t \in Trees /\ t.place = "none" /\ t.onDisk = "none"
    BY <2>0 DEF Emptied, NewTree, Trees, Places, Contents
  <2> HIDE DEF t
  <2>2. Good(t) /\ Ready("idle", t) /\ This.onDisk # "published"
    BY <2>0, <2>1 DEF Good, Ready
  <2>3. Put(t) /\ cmd' = [cmd EXCEPT !.pc = "idle", !.outcome = "failed"]
    BY <1>0, <1>6, GoEnd DEF Remove, t
  <2> QED
    BY <1>0, <1>6, <2>1, <2>2, <2>3, OwnTreeStep DEF Remove
<1> QED
  BY <1>1, <1>2, <1>3, <1>4, <1>5, <1>6

(* A caller is told of a tree whose published name is on disk.             *)
LEMMA TellingKeeps ==
    ASSUME DurableInv, Tell \/ ReadReturns PROVE DurableInv'
<1> USE OwnTree DEF At
<1>1. /\ This.place = "published" /\ This.onDisk = "published" /\ told' = told \cup {cmd.at}
      /\ cmd' = [cmd EXCEPT !.pc = "idle", !.outcome = "ok"] /\ UNCHANGED <<tree, foreign, faults>>
  BY DEF Tell, ReadReturns, End, Ready
<1>2. cmd' \in Commands /\ cmd'.at = cmd.at /\ cmd'.pc = "idle" /\ cmd'.outcome = "ok"
  BY <1>1 DEF Commands, Pcs, Outcomes
<1>3. TypeOK'
  BY <1>1, <1>2 DEF DurableInv, TypeOK, Commands
<1>4. Sole' /\ \A i \in Attempts : Good(tree'[i])
  BY <1>1 DEF DurableInv, Sole, Published
<1>5. Relied'
  BY <1>1 DEF DurableInv, Relied, This
<1>6. Ready(cmd'.pc, This') /\ Definite(cmd', This')
  BY <1>2 DEF Ready, Definite
<1> QED
  BY <1>3, <1>4, <1>5, <1>6 DEF DurableInv

(* Reading what is published, and making it durable before it is returned. *)
LEMMA ReadingKeeps ==
    ASSUME DurableInv, ReadSettles PROVE DurableInv'
<1> USE OwnTree DEF Quiet, At
<1>0. "promise" \in Pcs /\ "none" \in Outcomes /\ FilesOf(This) \subseteq Entries
  BY FilesAreEntries DEF Pcs, Outcomes
<1>1. This.place = "published" /\ Full(This)
  BY DEF ReadSettles, Ready, Good
<1> DEFINE t == Settled(This)
<1>2. /\ t \in Trees /\ t.place = "published" /\ t.onDisk = "published" /\ t.op = This.op
      /\ t.ent = This.ent /\ t.safe = Entries /\ t.listed = Entries /\ FilesOf(t) = FilesOf(This)
  BY <1>1 DEF Settled, Trees, Places, FilesOf
<1> HIDE DEF t
<1>3. Full(t) /\ OnDisk(t)
  BY <1>0, <1>1, <1>2 DEF Full, OnDisk
<1>4. Good(t) /\ Ready("promise", t)
  BY <1>2, <1>3 DEF Good, Ready
<1>5. Put(t) /\ cmd' = [cmd EXCEPT !.pc = "promise", !.outcome = "none"]
  BY <1>0, GoEnd DEF ReadSettles, t
<1> QED
  BY <1>0, <1>1, <1>2, <1>4, <1>5, OwnTreeStep DEF ReadSettles

-----------------------------------------------------------------------------
(* An error, an interrupt or a crash of the running command keeps the      *)
(* invariant; a plain failure is reported only when its outcome is known.  *)
LEMMA FailingKeeps ==
    ASSUME DurableInv, Fails \/ Interrupted \/ Crash PROVE DurableInv'
<1> USE OwnTree DEF At
<1>0. /\ "remove" \in Pcs /\ "idle" \in Pcs
      /\ {"none", "failed", "unknown", "unread", "interrupted", "cleanup"} \subseteq Outcomes
  BY DEF Pcs, Outcomes
<1>1. UNCHANGED <<told, foreign>> /\ faults' \in 0..MaxIOFaults
  BY DurableFileAssumption DEF Fails, Interrupted, Crash, Fault
<1>2. CASE Fails
  <2>1. CASE cmd.pc \in {"absent", "create"} /\ UNCHANGED tree /\ End("failed")
    <3>1. This.place # "published"
      BY <2>1 DEF Ready
    <3> QED
      BY <1>0, <1>1, <2>1, <3>1, Ends
  <2>2. CASE At("create") /\ Put([This EXCEPT !.place = "work"]) /\ End("failed")
    <3> DEFINE t == [This EXCEPT !.place = "work"]
    <3>1. t \in Trees /\ t.place = "work" /\ t.onDisk = This.onDisk
      BY DEF Trees, Places
    <3>2. This.place = "none"
      BY <2>2 DEF Ready
    <3> HIDE DEF t
    <3>3. Good(t) /\ Ready("idle", t)
      BY <3>1, <3>2 DEF Good, Ready
    <3>4. Put(t) /\ cmd' = [cmd EXCEPT !.pc = "idle", !.outcome = "failed"]
      BY <1>0, <2>2, GoEnd DEF t
    <3> QED
      BY <1>0, <1>1, <3>1, <3>3, <3>4, OwnTreeStep
  <2>3. CASE /\ cmd.pc \in {"write", "finish", "sync", "list", "readback", "flush", "recheck", "rename"}
             /\ UNCHANGED tree /\ (Go("remove") \/ Abandon)
    <3>1. This.place = "work" /\ Ready("remove", This)
      BY <2>3 DEF Ready
    <3> QED
      BY <1>0, <1>1, <2>3, <3>1, MoveOn, AbandonKeeps
  <2>4. CASE UNCHANGED tree /\ (End("unknown") \/ End("unread"))
    BY <1>0, <1>1, <2>4, Ends
  <2>5. CASE cmd.pc \in {"verify", "remove"} /\ UNCHANGED tree /\ End("failed")
    <3>1. This.place # "published" \/ This.onDisk = "published"
      BY <2>5 DEF Ready
    <3> QED
      BY <1>0, <1>1, <2>5, <3>1, Ends
  <2> QED
    BY <1>2, <2>1, <2>2, <2>3, <2>4, <2>5 DEF Fails
<1>3. CASE Interrupted
  <2>1. CASE This.place = "work" /\ Go("remove")
    <3>1. Ready("remove", This)
      BY <2>1 DEF Ready
    <3> QED
      BY <1>0, <1>1, <1>3, <2>1, <3>1, MoveOn DEF Interrupted
  <2>2. CASE End("cleanup") \/ End("interrupted")
    BY <1>0, <1>1, <1>3, <2>2, Ends DEF Interrupted
  <2> QED
    BY <1>3, <2>1, <2>2 DEF Interrupted
<1>4. CASE Crash
  BY <1>0, <1>1, <1>4, Ends DEF Crash
<1> QED
  BY <1>2, <1>3, <1>4

(* What a loss of power leaves of a good tree: it is good, its place is    *)
(* the one it had or an unpublished one, and what was on disk under the    *)
(* published name keeps it.                                                *)
LEMMA LostPowerKeeps ==
    ASSUME NEW t \in Trees, Good(t), NEW u \in LostPower(t)
    PROVE  /\ u \in Trees /\ Good(u)
           /\ u.place = "published" => t.place = "published"
           /\ t.onDisk = "published" => u.place = "published" /\ u.onDisk = "published"
<1>1. CASE t.place = "none"
  BY <1>1 DEF LostPower, Good
<1>2. CASE t.place # "none"
  <2>1. PICK p \in {t.place, t.onDisk}, c \in [Entries -> Contents] : MayBeLeft(t, c) /\ u = Left(t, p, c)
    BY <1>2 DEF LostPower
  <2>2. u \in Trees
    BY <2>1 DEF Trees, Left
  <2>3. u.place = p /\ u.onDisk = p /\ u.ent = c /\ u.safe = Entries /\ u.listed = Entries /\ u.op = t.op
    BY <2>1 DEF Trees, Left
  <2>4. p = "published" => t.place = "published"
    BY <2>1 DEF Good
  <2>5. t.place = "published" => Full(u)
    <3> SUFFICES ASSUME t.place = "published", NEW e \in FilesOf(u) PROVE c[e] = "full"
      BY <2>3 DEF Full
    <3>1. FilesOf(u) = FilesOf(t) /\ e \in Entries
      BY <2>3, FilesAreEntries DEF FilesOf
    <3>2. t.ent[e] = "full" /\ e \in t.safe /\ (t.op \in {"directory", "tree"} => e \in t.listed)
      BY <3>1 DEF Good, Full, OnDisk
    <3> QED
      BY <2>1, <3>1, <3>2 DEF MayBeLeft
  <2>6. OnDisk(u)
    BY <2>3, FilesAreEntries DEF OnDisk
  <2>7. Good(u)
    BY <2>3, <2>4, <2>5, <2>6 DEF Good
  <2>8. t.onDisk = "published" => u.place = "published" /\ u.onDisk = "published"
    BY <2>1, <2>3 DEF Good
  <2> QED
    BY <2>2, <2>3, <2>4, <2>7, <2>8
<1> QED
  BY <1>1, <1>2

(* A loss of power takes back no tree whose published name is on disk.     *)
LEMMA PowerLossLeaves ==
    ASSUME DurableInv, PowerLoss
    PROVE  /\ tree' \in [Attempts -> Trees] /\ \A i \in Attempts : Good(tree'[i])
           /\ Published' \subseteq Published
           /\ \A i \in Attempts : tree[i].onDisk = "published" => tree'[i].place = "published" /\ tree'[i].onDisk = "published"
<1>1. tree \in [Attempts -> Trees] /\ \A i \in Attempts : Good(tree[i])
  BY DEF DurableInv, TypeOK, Trees
<1>2. PICK f \in [Attempts -> UNION {LostPower(tree[i]) : i \in Attempts}] :
         (\A i \in Attempts : f[i] \in LostPower(tree[i])) /\ tree' = f
  BY DEF PowerLoss
<1>3. \A i \in Attempts : /\ tree'[i] \in Trees /\ Good(tree'[i])
                          /\ tree'[i].place = "published" => tree[i].place = "published"
                          /\ tree[i].onDisk = "published" => tree'[i].place = "published" /\ tree'[i].onDisk = "published"
  <2> TAKE i \in Attempts
  <2>1. tree[i] \in Trees /\ Good(tree[i]) /\ tree'[i] \in LostPower(tree[i])
    BY <1>1, <1>2
  <2> QED
    BY <2>1, LostPowerKeeps
<1>4. tree' \in [Attempts -> Trees]
  BY <1>2, <1>3
<1> QED
  BY <1>3, <1>4 DEF Published

(* A loss of power keeps the invariant.                                    *)
LEMMA PowerLossKeeps ==
    ASSUME DurableInv, PowerLoss PROVE DurableInv'
<1> USE OwnTree
<1>1. cmd' \in Commands /\ cmd'.at = cmd.at /\ cmd'.pc = "idle" /\ cmd'.outcome = "none"
  BY DEF PowerLoss, End, Commands, Pcs, Outcomes
<1>2. UNCHANGED <<told, foreign>> /\ faults' \in 0..MaxIOFaults
  BY DurableFileAssumption DEF PowerLoss, Fault
<1>3. TypeOK'
  BY <1>1, <1>2, PowerLossLeaves DEF DurableInv, TypeOK, Trees, Commands
<1>4. Sole'
  BY <1>2, PowerLossLeaves DEF DurableInv, Sole
<1>5. Relied'
  BY <1>2, PowerLossLeaves DEF DurableInv, Relied, TypeOK
<1>6. Ready(cmd'.pc, This') /\ Definite(cmd', This')
  BY <1>1 DEF Ready, Definite
<1> QED
  BY <1>3, <1>4, <1>5, <1>6, PowerLossLeaves DEF DurableInv

(* Another program that takes the free name keeps the invariant.           *)
LEMMA ForeignKeeps ==
    ASSUME DurableInv, ForeignTakes PROVE DurableInv'
<1>1. /\ UNCHANGED <<tree, cmd, told>> /\ foreign' = TRUE /\ Published = {}
  BY DEF ForeignTakes, Taken
<1>2. faults' \in 0..MaxIOFaults
  BY DurableFileAssumption DEF ForeignTakes, Fault, DurableInv, TypeOK
<1>3. TypeOK'
  BY <1>1, <1>2 DEF DurableInv, TypeOK
<1>4. Published' = {}
  BY <1>1 DEF Published
<1> QED
  BY <1>1, <1>3, <1>4 DEF DurableInv, Sole, Relied, This

-----------------------------------------------------------------------------
(* A command that begins on a tree that is ready for its first label.      *)
LEMMA Begins ==
    ASSUME DurableInv, NEW i \in Attempts, NEW pc \in Pcs, NEW t \in Trees,
           tree' = [tree EXCEPT ![i] = t], cmd' = [pc |-> pc, at |-> i, outcome |-> "none"], Quiet,
           Good(t), t.place = tree[i].place, t.onDisk = tree[i].onDisk, Ready(pc, t)
    PROVE  DurableInv'
<1> DEFINE c == [pc |-> pc, at |-> i, outcome |-> "none"]
<1>1. c \in Commands /\ c.at = i /\ c.pc = pc /\ Definite(c, t)
  BY DEF Commands, Outcomes, Definite
<1> HIDE DEF c
<1>2. cmd' = c /\ UNCHANGED <<told, foreign>> /\ faults' \in 0..MaxIOFaults
  BY OwnTree DEF c, Quiet
<1> QED
  BY <1>1, <1>2, OneTreeStep

(* Beginning, resuming, confirming, discarding and reading keep the        *)
(* invariant: a pending file is resumed only when it is whole.             *)
LEMMA BeginningKeeps ==
    ASSUME DurableInv, NEW i \in Attempts,
           (\E op \in Ops : Begin(op, i)) \/ ResumePending(i) \/ Confirm(i) \/ DiscardPending(i) \/ ReadLocked(i)
    PROVE  DurableInv'
<1>0. tree \in [Attempts -> Trees] /\ tree[i] \in Trees /\ Good(tree[i]) /\ tree = [tree EXCEPT ![i] = tree[i]]
  BY DEF DurableInv, TypeOK, Trees
<1>p. {"create", "absent", "flush", "read", "idle"} \subseteq Pcs
  BY DEF Pcs
<1>1. ASSUME NEW op \in Ops, Begin(op, i) PROVE DurableInv'
  <2> DEFINE t == [tree[i] EXCEPT !.op = op]
  <2>0. tree[i].place = "none" /\ tree[i].onDisk = "none" /\ \A e \in Entries : tree[i].ent[e] = "absent"
    BY <1>1 DEF Begin, NewTree
  <2>1. /\ t \in Trees /\ t.op = op /\ t.place = "none" /\ t.onDisk = "none"
        /\ \A e \in Entries : t.ent[e] = "absent"
    BY <1>0, <2>0 DEF Trees
  <2>2. tree' = [tree EXCEPT ![i] = t]
    BY <1>0, <1>1 DEF Begin
  <2> HIDE DEF t
  <2> DEFINE pc == IF op \in {"pending", "tree"} THEN "create" ELSE "absent"
  <2>3. cmd' = [pc |-> pc, at |-> i, outcome |-> "none"] /\ Quiet
    BY <1>1 DEF Begin
  <2>5. pc \in {"create", "absent"} /\ (pc = "absent" => op # "tree")
    OBVIOUS
  <2> HIDE DEF pc
  <2>4. Good(t) /\ Ready(pc, t)
    BY <2>1, <2>5 DEF Good, Ready
  <2> QED
    BY <1>p, <2>0, <2>1, <2>2, <2>3, <2>4, <2>5, Begins
<1>2. CASE ResumePending(i)
  <2>1. Ready("flush", tree[i])
    BY <1>2, WholeIsFull DEF ResumePending, Ready
  <2> QED
    BY <1>0, <1>p, <1>2, <2>1, Begins DEF ResumePending
<1>3. CASE Confirm(i) \/ ReadLocked(i)
  <2>1. Ready("read", tree[i])
    BY <1>3 DEF Confirm, ReadLocked, Published, Ready
  <2> QED
    BY <1>0, <1>p, <1>3, <2>1, Begins DEF Confirm, ReadLocked
<1>4. CASE DiscardPending(i)
  <2> DEFINE t == Emptied(tree[i])
  <2>1. t \in Trees /\ t.place = "none" /\ t.onDisk = "none"
    BY <1>0, <1>4 DEF DiscardPending, Emptied, NewTree, Trees, Places, Contents
  <2>2. tree' = [tree EXCEPT ![i] = t]
    BY <1>0, <1>4 DEF DiscardPending
  <2> HIDE DEF t
  <2>3. Good(t) /\ Ready("idle", t) /\ Definite(cmd, t) /\ tree[i].onDisk # "published"
    BY <1>0, <1>4, <2>1 DEF DiscardPending, Good, Ready, Definite, At
  <2>4. cmd \in Commands /\ cmd' = cmd /\ cmd.pc = "idle" /\ UNCHANGED <<told, foreign>> /\ faults' \in 0..MaxIOFaults
    BY <1>4, OwnTree DEF DiscardPending, At, Quiet
  <2>5. Ready(cmd.pc, tree[cmd.at]) /\ Definite(cmd, tree[cmd.at])
    BY DEF DurableInv, This
  <2> QED
    BY <2>1, <2>2, <2>3, <2>4, <2>5, OneTreeStep
<1> QED
  BY <1>1, <1>2, <1>3, <1>4

(* Every step keeps the invariant.                                         *)
LEMMA DurableStep ==
    ASSUME DurableInv, [Next]_vars PROVE DurableInv'
<1>1. CASE Step
  BY <1>1, WritingKeeps, PromotionKeeps, TellingKeeps, ReadingKeeps DEF Step
<1>2. CASE \E i \in Attempts : (\E op \in Ops : Begin(op, i)) \/ ResumePending(i)
                              \/ Confirm(i) \/ DiscardPending(i) \/ ReadLocked(i)
  BY <1>2, BeginningKeeps
<1>3. CASE Fails \/ Interrupted \/ Crash \/ PowerLoss \/ ForeignTakes
  BY <1>3, FailingKeeps, PowerLossKeeps, ForeignKeeps
<1>4. CASE UNCHANGED vars
  BY <1>4 DEF vars, DurableInv, TypeOK, Sole, Relied, Published, This
<1> QED
  BY <1>1, <1>2, <1>3, <1>4 DEF Next

(* durable_file.py: the invariant holds in every reachable state.          *)
THEOREM DurableInvariant == Spec => []DurableInv
<1>1. Init => DurableInv
  BY DurableInit
<1>2. DurableInv /\ [Next]_vars => DurableInv'
  BY DurableStep
<1> QED
  BY <1>1, <1>2, PTL DEF Spec

(* What stands under the published name is whole, whatever fails or loses  *)
(* power and when: promote_private_pending and _publish_private_directory  *)
(* have the tree on disk before they rename it.                            *)
THEOREM PublishedIsWhole == Spec => []DestinationIsComplete
<1>1. DurableInv => DestinationIsComplete
  BY WholeIsFull DEF DurableInv, DestinationIsComplete, Good, Published
<1> QED
  BY <1>1, DurableInvariant, PTL

(* A publication that a caller was told of, by the call that published it  *)
(* or by one that read it, is there, whole and on disk for ever.           *)
THEOREM AcknowledgedIsSafe == Spec => []AcknowledgedSurvives
<1>1. DurableInv => AcknowledgedSurvives
  BY WholeIsFull DEF DurableInv, AcknowledgedSurvives, Relied, Good, Published, TypeOK
<1> QED
  BY <1>1, DurableInvariant, PTL

(* A call that reports plain failure left the name not given, or given on  *)
(* disk; everything between is DurabilityOutcomeUnknown.                   *)
THEOREM FailuresAreDefinite == Spec => []FailureIsDefinite
<1>1. DurableInv => FailureIsDefinite
  BY DEF DurableInv, FailureIsDefinite, Definite, This
<1> QED
  BY <1>1, DurableInvariant, PTL

-----------------------------------------------------------------------------
(* The refinement: the name shows nothing, one publication, or what        *)
(* another program put there.                                              *)
LEMMA ShownIs ==
    ASSUME DurableInv
    PROVE  /\ ~Taken => Shown = 0
           /\ \A i \in Published : Shown = i /\ ~foreign
           /\ Shown # 0 => Taken
           /\ \A i \in Attempts : i # 0
<1>1. ASSUME NEW i \in Published PROVE Shown = i /\ ~foreign
  BY <1>1 DEF DurableInv, Sole, Shown
<1>2. \A i \in Attempts : i # 0
  BY DEF Attempts
<1>3. ~Taken <=> Published = {} /\ ~foreign
  BY DEF Taken
<1> QED
  BY <1>1, <1>2, <1>3 DEF Shown

(* A step that leaves the published name and what was told is no step of   *)
(* the promise.                                                            *)
LEMMA NameKept ==
    ASSUME Published' = Published, foreign' = foreign PROVE Shown' = Shown
BY DEF Shown

(* A step that changes one tree leaves the name when that tree had it      *)
(* before exactly if it has it after.                                      *)
LEMMA OneTreeKeepsName ==
    ASSUME DurableInv, NEW a \in Attempts, NEW t, tree' = [tree EXCEPT ![a] = t],
           t.place = "published" <=> tree[a].place = "published", foreign' = foreign
    PROVE  Shown' = Shown
<1>1. tree'[a] = t /\ \A i \in Attempts : i # a => tree'[i] = tree[i]
  BY DEF DurableInv, TypeOK
<1>2. Published' = Published
  BY <1>1 DEF Published
<1> QED
  BY <1>2, NameKept

(* Writing a tree under its other name, and all of promotion but the       *)
(* rename, leave the published name.                                       *)
LEMMA StagingKeepsName ==
    ASSUME DurableInv,
           \/ RequireAbsent \/ Create \/ Write \/ Finish \/ Sync \/ List \/ ReadBack \/ Flush \/ Recheck
           \/ Barrier \/ Verify \/ Remove \/ ReadSettles
    PROVE  Shown' = Shown /\ told' = told
<1> USE OwnTree DEF Quiet, At
<1>0. told' = told /\ foreign' = foreign
  BY DEF RequireAbsent, Create, Write, Finish, Sync, List, ReadBack, Flush, Recheck, Barrier, Verify, Remove, ReadSettles
<1>1. ASSUME UNCHANGED tree PROVE Shown' = Shown
  BY <1>0, <1>1, NameKept DEF Published
<1>2. ASSUME NEW t, Put(t), t.place = This.place PROVE Shown' = Shown
  BY <1>0, <1>2, OneTreeKeepsName DEF Put, This
<1>3. ASSUME NEW t, Put(t), This.place # "published", t.place # "published" PROVE Shown' = Shown
  BY <1>0, <1>3, OneTreeKeepsName DEF Put, This
<1>4. CASE RequireAbsent \/ Recheck
  BY <1>0, <1>1, <1>4 DEF RequireAbsent, Recheck
<1>5. CASE Create
  <2>1. This.place # "published" /\ [This EXCEPT !.place = "work"].place = "work"
    BY <1>5 DEF Create, Ready, Trees
  <2> QED
    BY <1>0, <1>3, <1>5, <2>1 DEF Create
<1>6. CASE Write
  <2>1. \A e : [This EXCEPT !.ent[e] = "torn"].place = This.place
    BY DEF Trees
  <2> QED
    BY <1>0, <1>1, <1>2, <1>6, <2>1 DEF Write
<1>7. CASE Finish
  <2>1. [This EXCEPT !.ent = [e \in Entries |-> IF @[e] = "torn" THEN "full" ELSE @[e]]].place = This.place
    BY DEF Trees
  <2> QED
    BY <1>0, <1>2, <1>7, <2>1 DEF Finish
<1>8. CASE Sync
  <2>1. [This EXCEPT !.safe = {e \in Entries : This.ent[e] = "full"}].place = This.place
    BY DEF Trees
  <2> QED
    BY <1>0, <1>2, <1>8, <2>1 DEF Sync
<1>9. CASE List
  <2>1. /\ [This EXCEPT !.onDisk = "work"].place = This.place
        /\ [This EXCEPT !.listed = {e \in Entries : This.ent[e] # "absent"}].place = This.place
    BY DEF Trees
  <2> QED
    BY <1>0, <1>2, <1>9, <2>1 DEF List
<1>10. CASE Flush
  <2>1. /\ [This EXCEPT !.safe = Files1].place = This.place
        /\ TreeSynced(This).place = This.place
    BY DEF Trees, TreeSynced
  <2> QED
    BY <1>0, <1>2, <1>10, <2>1 DEF Flush
<1>11. CASE Barrier \/ Verify \/ ReadBack \/ ReadSettles
  <2>1. NamesSynced(This).place = This.place /\ Settled(This).place = This.place
    BY DEF Trees, NamesSynced, Settled
  <2> QED
    BY <1>0, <1>2, <1>11, <2>1 DEF Barrier, Verify, ReadBack, ReadSettles
<1>12. CASE Remove
  <2>1. This.place = "work" /\ Emptied(This).place = "none"
    BY <1>12 DEF Remove, Ready, Emptied, NewTree
  <2> QED
    BY <1>0, <1>3, <1>12, <2>1 DEF Remove
<1> QED
  BY <1>4, <1>5, <1>6, <1>7, <1>8, <1>9, <1>10, <1>11, <1>12

(* So do failures and crashes, which leave the tree or stop its creation,  *)
(* and the beginnings, which change a tree that is not published.          *)
LEMMA OthersKeepName ==
    ASSUME DurableInv,
           \/ Fails \/ Interrupted \/ Crash
           \/ \E i \in Attempts : (\E op \in Ops : Begin(op, i)) \/ ResumePending(i)
                                 \/ Confirm(i) \/ DiscardPending(i) \/ ReadLocked(i)
    PROVE  Shown' = Shown /\ told' = told
<1> USE OwnTree DEF Quiet, At
<1>0. told' = told /\ foreign' = foreign
  BY DEF Fails, Interrupted, Crash, Begin, ResumePending, Confirm, DiscardPending, ReadLocked
<1>1. ASSUME UNCHANGED tree PROVE Shown' = Shown
  BY <1>0, <1>1, NameKept DEF Published
<1>2. CASE Fails
  <2>1. CASE At("create") /\ Put([This EXCEPT !.place = "work"])
    <3>1. This.place # "published" /\ [This EXCEPT !.place = "work"].place = "work"
      BY <2>1 DEF Ready, Trees
    <3> QED
      BY <1>0, <2>1, <3>1, OneTreeKeepsName DEF Put, This
  <2> QED
    BY <1>0, <1>1, <1>2, <2>1 DEF Fails
<1>3. CASE Interrupted \/ Crash
  BY <1>0, <1>1, <1>3 DEF Interrupted, Crash
<1>4. ASSUME NEW i \in Attempts,
             (\E op \in Ops : Begin(op, i)) \/ ResumePending(i) \/ Confirm(i) \/ DiscardPending(i) \/ ReadLocked(i)
      PROVE  Shown' = Shown
  <2>0. tree \in [Attempts -> Trees] /\ tree[i] \in Trees
    BY DEF DurableInv, TypeOK, Trees
  <2>1. ASSUME NEW op \in Ops, Begin(op, i) PROVE Shown' = Shown
    <3>1. tree' = [tree EXCEPT ![i] = [tree[i] EXCEPT !.op = op]]
      BY <2>0, <2>1 DEF Begin
    <3>2. [tree[i] EXCEPT !.op = op].place = tree[i].place
      BY <2>0 DEF Trees
    <3> QED
      BY <1>0, <3>1, <3>2, OneTreeKeepsName
  <2>2. CASE DiscardPending(i)
    <3>1. tree' = [tree EXCEPT ![i] = Emptied(tree[i])]
      BY <2>0, <2>2 DEF DiscardPending
    <3>2. tree[i].place = "work" /\ Emptied(tree[i]).place = "none"
      BY <2>2 DEF DiscardPending, Emptied, NewTree
    <3> QED
      BY <1>0, <3>1, <3>2, OneTreeKeepsName
  <2> QED
    BY <1>1, <1>4, <2>1, <2>2 DEF ResumePending, Confirm, ReadLocked
<1> QED
  BY <1>0, <1>2, <1>3, <1>4

(* The rename gives a free name to a publication, and another program may  *)
(* take it first: both are the promise's Publish.                          *)
LEMMA RenamePublishes ==
    ASSUME DurableInv, DurableInv', Rename \/ ForeignTakes PROVE Promise!Next \/ UNCHANGED <<Shown, told>>
<1> USE DurableFileAssumption
<1>1. CASE ForeignTakes
  <2>1. ~Taken /\ foreign' = TRUE /\ told' = told
    BY <1>1 DEF ForeignTakes
  <2>2. Shown = 0
    BY <2>1, ShownIs
  <2>3. Shown' = MaxAttempts + 1 /\ MaxAttempts + 1 \in 1..(MaxAttempts + 1)
    BY <2>1 DEF Shown
  <2> QED
    BY <2>1, <2>2, <2>3 DEF Promise!Next, Promise!Publish
<1>2. CASE Rename /\ Taken
  <2>1. UNCHANGED <<tree, foreign, told>>
    BY <1>2 DEF Rename, Quiet
  <2>2. Published' = Published
    BY <2>1 DEF Published
  <2> QED
    BY <2>1, <2>2, NameKept
<1>3. CASE Rename /\ ~Taken
  <2>1. /\ cmd.at \in Attempts /\ tree \in [Attempts -> Trees] /\ told' = told /\ foreign' = foreign
        /\ tree' = [tree EXCEPT ![cmd.at] = [This EXCEPT !.place = "published"]]
    BY <1>3, OwnTree DEF Rename, Put, Quiet, DurableInv, TypeOK, Trees
  <2>2. cmd.at \in Published'
    BY <2>1, OwnTree DEF Published, Trees
  <2>3. Shown' = cmd.at
    BY <2>2 DEF DurableInv, Sole, Shown
  <2>4. Shown = 0 /\ cmd.at \in 1..(MaxAttempts + 1)
    BY <1>3, <2>1, ShownIs DEF Attempts
  <2> QED
    BY <2>1, <2>3, <2>4 DEF Promise!Next, Promise!Publish
<1> QED
  BY <1>1, <1>2, <1>3

(* The call that returns, and the read that returns, tell of what the name *)
(* shows.                                                                  *)
LEMMA TellingTells ==
    ASSUME DurableInv, Tell \/ ReadReturns PROVE Promise!Next
<1>1. /\ cmd.at \in Published /\ told' = told \cup {cmd.at} /\ UNCHANGED <<tree, foreign>>
  BY OwnTree DEF Tell, ReadReturns, At, Ready, Published, This
<1>2. Published' = Published
  BY <1>1 DEF Published
<1>3. Shown = cmd.at /\ Shown # 0 /\ Shown' = Shown
  BY <1>1, <1>2, ShownIs, NameKept DEF Published
<1> QED
  BY <1>1, <1>3 DEF Promise!Next, Promise!Tell

(* A loss of power takes the name back only from what nobody was told of.  *)
LEMMA PowerLossLoses ==
    ASSUME DurableInv, DurableInv', PowerLoss PROVE Promise!Next \/ UNCHANGED <<Shown, told>>
<1>1. told' = told /\ foreign' = foreign
  BY DEF PowerLoss
<1>2. Published' \subseteq Published
  BY PowerLossLeaves
<1>3. CASE Published' = Published
  BY <1>1, <1>3, NameKept
<1>4. CASE Published' # Published
  <2>1. PICK i \in Published : i \notin Published'
    BY <1>2, <1>4
  <2>2. Published = {i} /\ ~foreign /\ Shown = i /\ Shown # 0
    BY <2>1, ShownIs DEF DurableInv, Sole, Published
  <2>3. i \notin told
    BY <2>1, PowerLossLeaves DEF DurableInv, Relied, Published
  <2>4. Shown' = 0
    BY <1>1, <1>2, <2>1, <2>2 DEF Shown
  <2> QED
    BY <1>1, <2>2, <2>3, <2>4 DEF Promise!Next, Promise!Lose
<1> QED
  BY <1>3, <1>4

(* Every step of durable_file.py is a step of the promise or leaves the    *)
(* name and what was told.                                                 *)
LEMMA PublicationStep ==
    ASSUME DurableInv, DurableInv', [Next]_vars PROVE [Promise!Next]_(Promise!vars)
<1>1. CASE UNCHANGED vars
  <2>1. Published' = Published /\ foreign' = foreign /\ told' = told
    BY <1>1 DEF vars, Published
  <2> QED
    BY <2>1, NameKept DEF Promise!vars
<1>2. CASE Next
  <2>1. Promise!Next \/ UNCHANGED <<Shown, told>>
    BY <1>2, StagingKeepsName, OthersKeepName, RenamePublishes, TellingTells, PowerLossLoses DEF Next, Step
  <2> QED
    BY <2>1 DEF Promise!vars
<1> QED
  BY <1>1, <1>2

(* durable_file.py implements AtomicPublication: the name is given once,   *)
(* atomically and never over another's, and only what nobody was told of   *)
(* is lost with the power.                                                 *)
THEOREM PublicationRefines == Spec => ImplementsPublication
<1>1. Init => Promise!Init
  BY DEF Init, Promise!Init, Shown, Published, NewTree
<1>2. DurableInv /\ DurableInv' /\ [Next]_vars => [Promise!Next]_(Promise!vars)
  BY PublicationStep
<1> QED
  BY <1>1, <1>2, DurableInvariant, PTL DEF Spec, ImplementsPublication, Promise!Spec
=============================================================================
