-------------------------- MODULE GenerationStore --------------------------
(***************************************************************************)
(* KeychainEngineGenerationStore (crate cfw-apple-network): the durable    *)
(* engine lineage.  The Keychain item is the authority, a JSON file is a   *)
(* repairable cache, and a lock file serialises the Host processes that    *)
(* share both.  A step runs from one system call that another process can  *)
(* observe to the next one.                                                *)
(*                                                                         *)
(* A revision is the SHA-256 of the canonical document, so the label of an *)
(* item is a function of its content and two records are equal when their  *)
(* documents are: a record is modelled by its document.  The epoch is 1 in *)
(* every document the store writes and is left out.                        *)
(***************************************************************************)
EXTENDS Naturals

CONSTANTS
    Hosts,          \* Host processes
    Installations,  \* installation identifiers Uuid::new_v4 may draw
    NoLineage,      \* absence of a Keychain item or of a cache file
    MaxGeneration,  \* stands for u64::MAX
    MaxLockFiles    \* 1: the lock file is never replaced

ASSUME HostsAssumption == Hosts # {}
ASSUME MaxGenerationAssumption == MaxGeneration \in Nat
ASSUME LockFilesAssumption == MaxLockFiles \in Nat \ {0}

Generations == 0..MaxGeneration
Documents == [installation : Installations, generation : Generations]
ASSUME NoLineageAssumption == NoLineage \notin Documents

VARIABLES
    authority,  \* the Keychain item
    cache,      \* engine-lineage.json
    lockFile,   \* which file is at the path .engine-lineage.lock
    pc,         \* where each Host is in its operation
    op,         \* the operation: "load" or "reserve"
    known,      \* the generation each Host passes as expected_generation
    opened,     \* the lock file a Host has opened, or 0
    locked,     \* whether it holds the flock on it
    seen,       \* the record it read last
    replacement,\* the record reserve_next wants to install
    swap,       \* how its compare_exchange failed
    issued,     \* history: how many callers were told they reserved a generation
    tampered    \* history: something else wrote or removed the cache

local == <<op, known, opened, locked, seen, replacement, swap>>
vars == <<authority, cache, lockFile, pc, op, known, opened, locked, seen,
          replacement, swap, issued, tampered>>

Labels == {"down", "idle", "open", "lock", "read", "match", "create", "reread",
           "sync", "cacheFirst", "swap", "reload", "reloadMatch", "repair"}
Holding == Labels \ {"down", "idle", "open", "lock"}

TypeOK ==
    /\ authority \in Documents \cup {NoLineage} /\ cache \in Documents \cup {NoLineage}
    /\ lockFile \in 1..MaxLockFiles
    /\ pc \in [Hosts -> Labels] /\ op \in [Hosts -> {"load", "reserve"}]
    /\ known \in [Hosts -> Generations]
    /\ opened \in [Hosts -> 0..MaxLockFiles] /\ locked \in [Hosts -> BOOLEAN]
    /\ seen \in [Hosts -> Documents \cup {NoLineage}]
    /\ replacement \in [Hosts -> Documents \cup {NoLineage}]
    /\ swap \in [Hosts -> {"none", "conflict", "error"}]
    /\ issued \in [Generations -> Nat] /\ tampered \in BOOLEAN

-----------------------------------------------------------------------------
Goto(h, label) == pc' = [pc EXCEPT ![h] = label]

(* The end of with_lock: both guards are dropped.  A Host whose load fails *)
(* starts a coordinator that never uses the store.                         *)
Finish(h, label) ==
    /\ Goto(h, label)
    /\ opened' = [opened EXCEPT ![h] = 0] /\ locked' = [locked EXCEPT ![h] = FALSE]
Fail(h) == Finish(h, IF op[h] = "load" THEN "down" ELSE "idle")

\* The caller is told that it reserved this generation.
Grant(h) ==
    /\ issued' = [issued EXCEPT ![replacement[h].generation] = @ + 1]
    /\ known' = [known EXCEPT ![h] = replacement[h].generation]
    /\ Finish(h, "idle")

(* synchronize_cache.  Whether or not the file already holds the bytes, it *)
(* holds them after a success; an error may come before or after rename.   *)
CacheWritten(record) == cache' = record
CacheWriteFails(record) == cache' \in {cache, record}

Exhausted(h) == known[h] = MaxGeneration

(* What follows a successful load_or_initialize.                           *)
Loaded(h, record) ==
    \/ /\ op[h] = "load"
       /\ Goto(h, "sync") /\ UNCHANGED <<opened, locked, replacement>>
    \/ /\ op[h] = "reserve" /\ record.generation = known[h] /\ ~Exhausted(h)
       /\ replacement' = [replacement EXCEPT ![h] =
                              [record EXCEPT !.generation = known[h] + 1]]
       /\ Goto(h, "cacheFirst") /\ UNCHANGED <<opened, locked>>
    \/ /\ op[h] = "reserve" /\ (record.generation # known[h] \/ Exhausted(h))
       /\ Fail(h) /\ UNCHANGED replacement

-----------------------------------------------------------------------------
\* EngineModeCoordinator::spawn_persisted_with calls load.
Boot(h) ==
    /\ pc[h] = "down"
    /\ op' = [op EXCEPT ![h] = "load"] /\ Goto(h, "open")
    /\ UNCHANGED <<authority, cache, lockFile, known, opened, locked, seen,
                   replacement, swap, issued, tampered>>

\* reserve_next_generation calls reserve_next.
Reserve(h) ==
    /\ pc[h] = "idle"
    /\ op' = [op EXCEPT ![h] = "reserve"] /\ Goto(h, "open")
    /\ UNCHANGED <<authority, cache, lockFile, known, opened, locked, seen,
                   replacement, swap, issued, tampered>>

Open(h) ==
    /\ pc[h] = "open"
    /\ opened' = [opened EXCEPT ![h] = lockFile] /\ Goto(h, "lock")
    /\ UNCHANGED <<authority, cache, lockFile, op, known, locked, seen,
                   replacement, swap, issued, tampered>>

\* Mutant: the lock is shared instead of exclusive.
MutSharedLock(h) == TRUE
Free(h) == \A k \in Hosts : locked[k] => opened[k] # opened[h]

Lock(h) ==
    /\ pc[h] = "lock" /\ Free(h)
    /\ locked' = [locked EXCEPT ![h] = TRUE] /\ Goto(h, "read")
    /\ UNCHANGED <<authority, cache, lockFile, op, known, opened, seen,
                   replacement, swap, issued, tampered>>

(* LineageAuthority::load reads the bytes, then asks for the item with     *)
(* their label.                                                            *)
ReadFinds(h) ==
    /\ pc[h] \in {"read", "reread", "reload"} /\ authority # NoLineage
    /\ seen' = [seen EXCEPT ![h] = authority]
    /\ Goto(h, IF pc[h] = "reload" THEN "reloadMatch" ELSE "match")
    /\ UNCHANGED <<authority, cache, lockFile, op, known, opened, locked,
                   replacement, swap, issued, tampered>>

ReadFindsNothing(h) ==
    /\ pc[h] = "read" /\ authority = NoLineage
    /\ Goto(h, "create")
    /\ UNCHANGED <<authority, cache, lockFile, local, issued, tampered>>

Match(h) ==
    /\ pc[h] = "match" /\ authority = seen[h]
    /\ Loaded(h, seen[h])
    /\ UNCHANGED <<authority, cache, lockFile, op, known, seen, swap, issued, tampered>>

\* LineageAuthority::create with a new document.
Create(h) ==
    /\ pc[h] = "create" /\ authority = NoLineage
    /\ \E i \in Installations : authority' = [installation |-> i, generation |-> 0]
    /\ seen' = [seen EXCEPT ![h] = authority']
    /\ Loaded(h, authority')
    /\ UNCHANGED <<cache, lockFile, op, known, swap, issued, tampered>>

CreateFindsItem(h) ==
    /\ pc[h] = "create" /\ authority # NoLineage
    /\ Goto(h, "reread")
    /\ UNCHANGED <<authority, cache, lockFile, local, issued, tampered>>

\* The item may have been added although the call reports an error.
CreateFails(h) ==
    /\ pc[h] = "create"
    /\ \/ UNCHANGED authority
       \/ /\ authority = NoLineage
          /\ \E i \in Installations : authority' = [installation |-> i, generation |-> 0]
    /\ Fail(h)
    /\ UNCHANGED <<cache, lockFile, op, known, seen, replacement, swap, issued, tampered>>

\* load: the cache is synchronised and the lineage returned.
LoadReturns(h) ==
    /\ pc[h] = "sync"
    /\ CacheWritten(seen[h])
    /\ known' = [known EXCEPT ![h] = seen[h].generation]
    /\ Finish(h, "idle")
    /\ UNCHANGED <<authority, lockFile, op, seen, replacement, swap, issued, tampered>>

CacheFirst(h) ==
    /\ pc[h] = "cacheFirst"
    /\ CacheWritten(replacement[h])
    /\ Goto(h, "swap")
    /\ UNCHANGED <<authority, lockFile, local, issued, tampered>>

CacheFails(h) ==
    /\ pc[h] \in {"sync", "cacheFirst"}
    /\ CacheWriteFails(IF pc[h] = "sync" THEN seen[h] ELSE replacement[h])
    /\ Fail(h)
    /\ UNCHANGED <<authority, lockFile, op, known, seen, replacement, swap, issued, tampered>>

(* compare_exchange: the update names the item by the revision read.       *)
MatchesRevision(h) == authority = seen[h]

SwapSucceeds(h) ==
    /\ pc[h] = "swap" /\ MatchesRevision(h)
    /\ authority' = replacement[h]
    /\ Grant(h)
    /\ UNCHANGED <<cache, lockFile, op, seen, replacement, swap, tampered>>

SwapConflicts(h) ==
    /\ pc[h] = "swap" /\ ~MatchesRevision(h)
    /\ swap' = [swap EXCEPT ![h] = "conflict"] /\ Goto(h, "reload")
    /\ UNCHANGED <<authority, cache, lockFile, op, known, opened, locked, seen,
                   replacement, issued, tampered>>

\* Security.framework reports an error, before or after the update.
SwapErrs(h) ==
    /\ pc[h] = "swap"
    /\ \/ UNCHANGED authority
       \/ MatchesRevision(h) /\ authority' = replacement[h]
    /\ swap' = [swap EXCEPT ![h] = "error"] /\ Goto(h, "reload")
    /\ UNCHANGED <<cache, lockFile, op, known, opened, locked, seen, replacement,
                   issued, tampered>>

\* Mutant: the save error is resolved by the installation alone.
MutAcceptsAnyRecord(h) ==
    swap[h] = "error" /\ seen[h].installation = replacement[h].installation
\* Only the exact replacement is accepted as a success.
Committed(h) == swap[h] = "error" /\ seen[h] = replacement[h]

ReloadResolves(h) ==
    /\ pc[h] = "reloadMatch" /\ authority = seen[h] /\ Committed(h)
    /\ Grant(h)
    /\ UNCHANGED <<authority, cache, lockFile, op, seen, replacement, swap, tampered>>

ReloadRefutes(h) ==
    /\ pc[h] = "reloadMatch" /\ authority = seen[h] /\ ~Committed(h)
    /\ Goto(h, "repair")
    /\ UNCHANGED <<authority, cache, lockFile, local, issued, tampered>>

\* The reservation fails whether or not the cache could be repaired.
Repair(h) ==
    /\ pc[h] = "repair"
    /\ CacheWritten(seen[h]) \/ CacheWriteFails(seen[h])
    /\ Fail(h)
    /\ UNCHANGED <<authority, lockFile, op, known, seen, replacement, swap, issued, tampered>>

(* Every other call may fail: the file system, the three-second deadline   *)
(* of the lock, a Keychain read, or a read whose item has just changed.    *)
MayFail == {"open", "lock", "read", "match", "reread", "reload", "reloadMatch"}
StepFails(h) ==
    /\ pc[h] \in MayFail
    /\ Fail(h)
    /\ UNCHANGED <<authority, cache, lockFile, op, known, seen, replacement, swap,
                   issued, tampered>>

-----------------------------------------------------------------------------
\* A Host ends without notice; the system drops its flock.
Crash(h) ==
    /\ pc[h] # "down"
    /\ Finish(h, "down")
    /\ UNCHANGED <<authority, cache, lockFile, op, known, seen, replacement, swap,
                   issued, tampered>>

\* External: the Application Support directory is not protected.
CacheTampered ==
    /\ cache' \in Documents \cup {NoLineage} /\ cache' # cache
    /\ tampered' = TRUE
    /\ UNCHANGED <<authority, lockFile, pc, local, issued>>

LockFileReplaced ==
    /\ lockFile < MaxLockFiles
    /\ lockFile' = lockFile + 1
    /\ UNCHANGED <<authority, cache, pc, local, issued, tampered>>

Init ==
    /\ authority = NoLineage /\ cache = NoLineage /\ lockFile = 1
    /\ pc = [h \in Hosts |-> "down"] /\ op = [h \in Hosts |-> "load"]
    /\ known = [h \in Hosts |-> 0]
    /\ opened = [h \in Hosts |-> 0] /\ locked = [h \in Hosts |-> FALSE]
    /\ seen = [h \in Hosts |-> NoLineage] /\ replacement = [h \in Hosts |-> NoLineage]
    /\ swap = [h \in Hosts |-> "none"]
    /\ issued = [g \in Generations |-> 0] /\ tampered = FALSE

HostStep(h) ==
    \/ Boot(h) \/ Reserve(h) \/ Open(h) \/ Lock(h)
    \/ ReadFinds(h) \/ ReadFindsNothing(h) \/ Match(h)
    \/ Create(h) \/ CreateFindsItem(h) \/ CreateFails(h)
    \/ LoadReturns(h) \/ CacheFirst(h) \/ CacheFails(h)
    \/ SwapSucceeds(h) \/ SwapConflicts(h) \/ SwapErrs(h)
    \/ ReloadResolves(h) \/ ReloadRefutes(h) \/ Repair(h)
    \/ StepFails(h) \/ Crash(h)

Next == (\E h \in Hosts : HostStep(h)) \/ CacheTampered \/ LockFileReplaced

Spec == Init /\ [][Next]_vars

(* Fairness: only what exclusive_lock guarantees by itself, that its loop  *)
(* ends with the lock or at the deadline.  The Keychain calls of the store *)
(* have no timeout and may hang with the lock held.                        *)
FairSpec == Spec /\ \A h \in Hosts : WF_vars(Lock(h) \/ (pc[h] = "lock" /\ StepFails(h)))

-----------------------------------------------------------------------------
\* The lock file has never been replaced.
LockIntact == lockFile = 1

(* No generation is reported as reserved to two callers: neither to two    *)
(* Hosts, nor to one Host before and after a restart, nor to a caller who  *)
(* takes another's update for its own when the Keychain reports an error   *)
(* (reserve_next's `record == replacement`).  It rests on the lock file.   *)
UniqueReservation == LockIntact => \A g \in Generations : issued[g] <= 1

(* A generation a caller was told it reserved is durable: no Host will     *)
(* read an older lineage, whatever happens to cache and lock file.         *)
GrantedIsDurable ==
    \A g \in Generations :
        issued[g] > 0 => authority # NoLineage /\ g <= authority.generation

(* The cache and the lock file can neither select another lineage nor roll *)
(* it back: the authority is created once and then counts up by one.       *)
AuthorityNeverRollsBack ==
    [][authority # NoLineage =>
         \/ UNCHANGED authority
         \/ /\ authority'.installation = authority.installation
            /\ authority'.generation = authority.generation + 1]_vars

(* Nothing the store does, fails to do, or leaves behind in a crash puts   *)
(* the cache anywhere but at the authority or one generation ahead of it   *)
(* (the cache-first order of reserve_next).                                *)
CacheIsRepairable ==
    LockIntact /\ ~tampered =>
        \/ cache = NoLineage
        \/ /\ authority # NoLineage
           /\ cache.installation = authority.installation
           /\ cache.generation \in {authority.generation, authority.generation + 1}

(* A load that succeeds leaves the cache equal to the authority, whatever  *)
(* had been done to the cache (synchronize_cache).                         *)
LoadRepairsCache ==
    [][\A h \in Hosts : LockIntact /\ pc[h] = "sync" /\ pc'[h] = "idle"
           => cache' = authority]_vars

(* A Host that waits for the lock gets it or gives up, even when the one   *)
(* that holds it hangs in a Keychain call.                                 *)
LockWaitEnds == \A h \in Hosts : pc[h] = "lock" ~> pc[h] # "lock"

-----------------------------------------------------------------------------
(* The inductive invariant behind the safety properties, by its parts.     *)
\* What a Host remembers, whatever the others do.
LocalInv ==
    \A h \in Hosts :
        /\ pc[h] \in {"match", "sync", "reloadMatch", "repair"} => seen[h] \in Documents
        /\ pc[h] = "sync" => op[h] = "load"
        /\ pc[h] \in {"cacheFirst", "swap"} =>
              /\ seen[h] \in Documents /\ seen[h].generation < MaxGeneration
              /\ replacement[h] = [seen[h] EXCEPT !.generation = @ + 1]
        /\ pc[h] \in {"reload", "reloadMatch", "repair"} => replacement[h] \in Documents

\* The lock is held from the first Keychain call to the return.
LockInv ==
    /\ \A h \in Hosts : locked[h] <=> pc[h] \in Holding
    /\ \A h \in Hosts : pc[h] \in Holding \cup {"lock"} => opened[h] \in 1..lockFile
    /\ \A h, k \in Hosts : locked[h] /\ locked[k] /\ opened[h] = opened[k] => h = k

\* What the holder of an intact lock knows about the shared state.
HolderInv ==
    LockIntact => \A h \in Hosts :
        /\ pc[h] \in {"match", "sync", "cacheFirst", "swap", "reloadMatch", "repair"}
              => authority = seen[h]
        /\ pc[h] = "swap" /\ ~tampered => cache = replacement[h]
        /\ pc[h] \in {"reload", "reloadMatch"} /\ authority = replacement[h]
              => issued[replacement[h].generation] = 0

StoreInv ==
    /\ LocalInv /\ LockInv /\ HolderInv
    /\ GrantedIsDurable /\ UniqueReservation /\ CacheIsRepairable

-----------------------------------------------------------------------------
(* The store is a journal in the sense of LineageJournal for as long as    *)
(* its lock file stays in place: from the first state on, every step of    *)
(* every Host is a step of the journal or invisible to it.                 *)
J == INSTANCE LineageJournal WITH lineage <- authority
ImplementsJournal == J!Init /\ [][LockIntact => [J!Next]_<<authority, issued>>]_vars

(* docs/architecture.md: "Keychain updates compare against the prior       *)
(* label, preserving compare-and-swap semantics across processes", with    *)
(* the Application Support copy only "a repairable cache and serialization *)
(* aid".                                                                   *)
SwapsAreExclusive == \A g \in Generations : issued[g] <= 1
=============================================================================
