----------------------- MODULE GenerationStoreProofs -----------------------
(***************************************************************************)
(* Proofs about GenerationStore, for any number of Hosts, installation     *)
(* identifiers, generations and lock files.  StoreInv is inductive given   *)
(* TypeOK: what a Host remembers (LocalInv) needs nothing else; that two   *)
(* Hosts never hold the same lock file (LockInv) needs only the lock; what *)
(* the holder knows about the shared state (HolderInv) needs both, and the *)
(* three safety properties follow from it step by step.                    *)
(***************************************************************************)
EXTENDS GenerationStore, TLAPS

(* The replacement of a document is the document one generation on.        *)
LEMMA NextDocument ==
    ASSUME NEW d \in Documents, d.generation < MaxGeneration
    PROVE  LET r == [d EXCEPT !.generation = @ + 1]
           IN  /\ r \in Documents /\ r # d
               /\ r.installation = d.installation /\ r.generation = d.generation + 1
<1> USE MaxGenerationAssumption
<1> DEFINE r == [d EXCEPT !.generation = @ + 1]
<1>1. d.generation \in Nat /\ d.generation + 1 \in Generations
  BY DEF Documents, Generations
<1>2. r.installation = d.installation /\ r.generation = d.generation + 1
  BY <1>1 DEF Documents
<1>3. r \in Documents
  BY <1>1 DEF Documents
<1>4. r # d
  <2> SUFFICES ASSUME r = d PROVE FALSE
    OBVIOUS
  <2> HIDE DEF r
  <2> QED
    BY <1>1, <1>2
<1> QED
  BY <1>2, <1>3, <1>4

(* What load_or_initialize hands to load and to reserve_next.              *)
LEMMA LoadedHands ==
    ASSUME TypeOK, NEW h \in Hosts, NEW d \in Documents, Loaded(h, d)
    PROVE  /\ pc' \in [Hosts -> Labels] /\ opened' \in [Hosts -> 0..MaxLockFiles]
           /\ locked' \in [Hosts -> BOOLEAN]
           /\ replacement' \in [Hosts -> Documents \cup {NoLineage}]
           /\ pc'[h] \in {"sync", "cacheFirst", "down", "idle"}
           /\ pc'[h] = "sync" => op[h] = "load"
           /\ pc'[h] = "cacheFirst" => /\ d.generation < MaxGeneration
                                        /\ replacement'[h] = [d EXCEPT !.generation = @ + 1]
           /\ \A k \in Hosts \ {h} : pc'[k] = pc[k] /\ replacement'[k] = replacement[k]
<1> USE MaxGenerationAssumption, LockFilesAssumption, NoLineageAssumption
<1>1. CASE op[h] = "load"
  BY <1>1 DEF Loaded, Goto, TypeOK, Labels
<1>2. CASE /\ op[h] = "reserve" /\ d.generation = known[h] /\ ~Exhausted(h)
           /\ replacement' = [replacement EXCEPT ![h] = [d EXCEPT !.generation = known[h] + 1]]
           /\ Goto(h, "cacheFirst") /\ UNCHANGED <<opened, locked>>
  <2>1. d.generation < MaxGeneration /\ d.generation \in Nat
    BY <1>2 DEF TypeOK, Exhausted, Generations, Documents
  <2>2. [d EXCEPT !.generation = known[h] + 1] = [d EXCEPT !.generation = @ + 1]
    BY <1>2
  <2>3. [d EXCEPT !.generation = @ + 1] \in Documents
    BY <2>1, NextDocument
  <2> QED
    BY <1>2, <2>1, <2>2, <2>3 DEF Goto, TypeOK, Labels
<1>3. CASE op[h] = "reserve" /\ Fail(h) /\ UNCHANGED replacement
  BY <1>3 DEF Fail, Finish, Goto, TypeOK, Labels
<1> QED
  BY <1>1, <1>2, <1>3 DEF Loaded, TypeOK

(* Types, and what a Host remembers between its own steps, hold whatever   *)
(* the others do: reserve_next never computes a generation out of range.   *)
LEMMA TypeStep ==
    ASSUME TypeOK, LocalInv, [Next]_vars
    PROVE  TypeOK'
<1> USE MaxGenerationAssumption, LockFilesAssumption, NoLineageAssumption
<1>1. ASSUME NEW h \in Hosts, HostStep(h) PROVE TypeOK'
  <2>1. CASE Boot(h)
    BY <2>1 DEF Boot, Goto, TypeOK, LocalInv, Documents, Generations, Labels, local
  <2>2. CASE Reserve(h)
    BY <2>2 DEF Reserve, Goto, TypeOK, LocalInv, Documents, Generations, Labels, local
  <2>3. CASE Open(h)
    BY <2>3 DEF Open, Goto, TypeOK, LocalInv, Documents, Generations, Labels, local
  <2>4. CASE Lock(h)
    BY <2>4 DEF Lock, Goto, Free, TypeOK, LocalInv, Documents, Generations, Labels,
           local
  <2>5. CASE ReadFinds(h)
    BY <2>5 DEF ReadFinds, Goto, TypeOK, LocalInv, Documents, Generations, Labels, local
  <2>6. CASE ReadFindsNothing(h)
    BY <2>6 DEF ReadFindsNothing, Goto, TypeOK, LocalInv, Documents, Generations,
           Labels, local
  <2>7. CASE Match(h)
    <3>1. seen[h] \in Documents
      BY <2>7 DEF Match, LocalInv
    <3> QED
      BY <2>7, <3>1, LoadedHands DEF Match, TypeOK
  <2>8. CASE Create(h)
    <3>1. authority' \in Documents
      BY <2>8 DEF Create, Documents, Generations
    <3> QED
      BY <2>8, <3>1, LoadedHands DEF Create, TypeOK
  <2>9. CASE CreateFindsItem(h)
    BY <2>9 DEF CreateFindsItem, Goto, TypeOK, LocalInv, Documents, Generations, Labels,
           local
  <2>10. CASE CreateFails(h)
    BY <2>10 DEF CreateFails, Fail, Finish, Goto, TypeOK, LocalInv, Documents,
           Generations, Labels, local
  <2>11. CASE LoadReturns(h)
    BY <2>11 DEF LoadReturns, CacheWritten, Finish, Goto, TypeOK, LocalInv, Documents,
           Generations, Labels, local
  <2>12. CASE CacheFirst(h)
    BY <2>12 DEF CacheFirst, CacheWritten, Goto, TypeOK, LocalInv, Documents,
           Generations, Labels, local
  <2>13. CASE CacheFails(h)
    BY <2>13 DEF CacheFails, CacheWriteFails, Fail, Finish, Goto, TypeOK, LocalInv,
           Documents, Generations, Labels, local
  <2>14. CASE SwapSucceeds(h)
    <3>1. replacement[h] \in Documents
      BY <2>14, NextDocument DEF SwapSucceeds, LocalInv
    <3> QED
      <4>1. replacement[h].generation \in Generations
        BY <3>1 DEF Documents
      <4> QED
        BY <2>14, <3>1, <4>1 DEF SwapSucceeds, Grant, Finish, Goto, TypeOK, Labels
  <2>15. CASE SwapConflicts(h)
    BY <2>15 DEF SwapConflicts, MatchesRevision, Goto, TypeOK, LocalInv, Documents,
           Generations, Labels, local
  <2>16. CASE SwapErrs(h)
    <3>1. replacement[h] \in Documents \cup {NoLineage}
      BY DEF TypeOK
    <3>2. authority' \in Documents \cup {NoLineage}
      BY <2>16, <3>1 DEF SwapErrs, TypeOK
    <3>3. swap' \in [Hosts -> {"none", "conflict", "error"}] /\ pc' \in [Hosts -> Labels]
      BY <2>16 DEF SwapErrs, Goto, TypeOK, Labels
    <3> QED
      BY <2>16, <3>2, <3>3 DEF SwapErrs, TypeOK
  <2>17. CASE ReloadResolves(h)
    <3>1. replacement[h] \in Documents
      BY <2>17 DEF ReloadResolves, LocalInv
    <3>2. replacement[h].generation \in Generations
      BY <3>1 DEF Documents
    <3> QED
      BY <2>17, <3>1, <3>2 DEF ReloadResolves, Grant, Finish, Goto, TypeOK, Labels
  <2>18. CASE ReloadRefutes(h)
    BY <2>18 DEF ReloadRefutes, Committed, Goto, TypeOK, LocalInv, Documents,
           Generations, Labels, local
  <2>19. CASE Repair(h)
    BY <2>19 DEF Repair, CacheWritten, CacheWriteFails, Fail, Finish, Goto, TypeOK,
           LocalInv, Documents, Generations, Labels, local
  <2>20. CASE StepFails(h)
    BY <2>20 DEF StepFails, MayFail, Fail, Finish, Goto, TypeOK, LocalInv, Documents,
           Generations, Labels, local
  <2>21. CASE Crash(h)
    BY <2>21 DEF Crash, Finish, Goto, TypeOK, LocalInv, Documents, Generations, Labels,
           local
  <2> QED
    BY <1>1, <2>1, <2>2, <2>3, <2>4, <2>5, <2>6, <2>7, <2>8, <2>9, <2>10, <2>11, <2>12,
       <2>13, <2>14, <2>15, <2>16, <2>17, <2>18, <2>19, <2>20, <2>21 DEF HostStep
<1>2. CASE CacheTampered
  BY <1>2 DEF CacheTampered, local, TypeOK, LocalInv, Documents, Generations, Labels,
         local
<1>3. CASE LockFileReplaced
  BY <1>3 DEF LockFileReplaced, local, TypeOK, LocalInv, Documents, Generations, Labels,
         local
<1>4. CASE UNCHANGED vars
  BY <1>4 DEF vars, TypeOK, LocalInv, Documents, Generations, Labels, local
<1> QED
  BY <1>1, <1>2, <1>3, <1>4 DEF Next

(* A Host's own record and its replacement stay one generation apart until *)
(* the compare-and-swap is over.                                           *)
LEMMA LocalStep ==
    ASSUME TypeOK, LocalInv, [Next]_vars
    PROVE  LocalInv'
<1> USE MaxGenerationAssumption, LockFilesAssumption, NoLineageAssumption
<1>1. ASSUME NEW h \in Hosts, HostStep(h) PROVE LocalInv'
  <2>1. CASE Boot(h)
    BY <2>1 DEF Boot, Goto, TypeOK, LocalInv, Documents, Generations, Labels, local
  <2>2. CASE Reserve(h)
    BY <2>2 DEF Reserve, Goto, TypeOK, LocalInv, Documents, Generations, Labels, local
  <2>3. CASE Open(h)
    BY <2>3 DEF Open, Goto, TypeOK, LocalInv, Documents, Generations, Labels, local
  <2>4. CASE Lock(h)
    BY <2>4 DEF Lock, Goto, Free, TypeOK, LocalInv, Documents, Generations, Labels,
           local
  <2>5. CASE ReadFinds(h)
    BY <2>5 DEF ReadFinds, Goto, TypeOK, LocalInv, Documents, Generations, Labels, local
  <2>6. CASE ReadFindsNothing(h)
    BY <2>6 DEF ReadFindsNothing, Goto, TypeOK, LocalInv, Documents, Generations,
           Labels, local
  <2>7. CASE Match(h)
    <3>1. seen[h] \in Documents /\ Loaded(h, seen[h]) /\ UNCHANGED <<op, seen>>
      BY <2>7 DEF Match, LocalInv
    <3>2. /\ pc'[h] \in {"sync", "cacheFirst", "down", "idle"}
          /\ pc'[h] = "sync" => op[h] = "load"
          /\ pc'[h] = "cacheFirst" =>
                /\ seen[h].generation < MaxGeneration
                /\ replacement'[h] = [seen[h] EXCEPT !.generation = @ + 1]
          /\ \A k \in Hosts \ {h} : pc'[k] = pc[k] /\ replacement'[k] = replacement[k]
      BY <3>1, LoadedHands
    <3> QED
      BY <3>1, <3>2 DEF LocalInv
  <2>8. CASE Create(h)
    <3>1. authority' \in Documents
      BY <2>8 DEF Create, Documents, Generations
    <3>2. seen' = [seen EXCEPT ![h] = authority'] /\ Loaded(h, authority')
      BY <2>8 DEF Create
    <3>3. seen'[h] = authority' /\ \A k \in Hosts \ {h} : seen'[k] = seen[k]
      BY <3>2 DEF TypeOK
    <3>4. /\ pc'[h] \in {"sync", "cacheFirst", "down", "idle"}
          /\ pc'[h] = "sync" => op[h] = "load"
          /\ pc'[h] = "cacheFirst" =>
                /\ authority'.generation < MaxGeneration
                /\ replacement'[h] = [authority' EXCEPT !.generation = @ + 1]
          /\ \A k \in Hosts \ {h} : pc'[k] = pc[k] /\ replacement'[k] = replacement[k]
      BY <3>1, <3>2, LoadedHands
    <3> QED
      BY <2>8, <3>1, <3>3, <3>4 DEF Create, LocalInv
  <2>9. CASE CreateFindsItem(h)
    BY <2>9 DEF CreateFindsItem, Goto, TypeOK, LocalInv, Documents, Generations, Labels,
           local
  <2>10. CASE CreateFails(h)
    BY <2>10 DEF CreateFails, Fail, Finish, Goto, TypeOK, LocalInv, Documents,
           Generations, Labels, local
  <2>11. CASE LoadReturns(h)
    BY <2>11 DEF LoadReturns, CacheWritten, Finish, Goto, TypeOK, LocalInv, Documents,
           Generations, Labels, local
  <2>12. CASE CacheFirst(h)
    BY <2>12 DEF CacheFirst, CacheWritten, Goto, TypeOK, LocalInv, Documents,
           Generations, Labels, local
  <2>13. CASE CacheFails(h)
    BY <2>13 DEF CacheFails, CacheWriteFails, Fail, Finish, Goto, TypeOK, LocalInv,
           Documents, Generations, Labels, local
  <2>14. CASE SwapSucceeds(h)
    BY <2>14 DEF SwapSucceeds, MatchesRevision, Grant, Finish, Goto, TypeOK, LocalInv,
           Documents, Generations, Labels, local
  <2>15. CASE SwapConflicts(h)
    <3>1. replacement[h] \in Documents
      BY <2>15, NextDocument DEF SwapConflicts, LocalInv
    <3> QED
      BY <2>15, <3>1 DEF SwapConflicts, Goto, TypeOK, LocalInv
  <2>16. CASE SwapErrs(h)
    <3>1. replacement[h] \in Documents
      BY <2>16, NextDocument DEF SwapErrs, LocalInv
    <3> QED
      BY <2>16, <3>1 DEF SwapErrs, Goto, TypeOK, LocalInv
  <2>17. CASE ReloadResolves(h)
    BY <2>17 DEF ReloadResolves, Committed, Grant, Finish, Goto, TypeOK, LocalInv,
           Documents, Generations, Labels, local
  <2>18. CASE ReloadRefutes(h)
    BY <2>18 DEF ReloadRefutes, Committed, Goto, TypeOK, LocalInv, Documents,
           Generations, Labels, local
  <2>19. CASE Repair(h)
    BY <2>19 DEF Repair, CacheWritten, CacheWriteFails, Fail, Finish, Goto, TypeOK,
           LocalInv, Documents, Generations, Labels, local
  <2>20. CASE StepFails(h)
    BY <2>20 DEF StepFails, MayFail, Fail, Finish, Goto, TypeOK, LocalInv, Documents,
           Generations, Labels, local
  <2>21. CASE Crash(h)
    BY <2>21 DEF Crash, Finish, Goto, TypeOK, LocalInv, Documents, Generations, Labels,
           local
  <2> QED
    BY <1>1, <2>1, <2>2, <2>3, <2>4, <2>5, <2>6, <2>7, <2>8, <2>9, <2>10, <2>11, <2>12,
       <2>13, <2>14, <2>15, <2>16, <2>17, <2>18, <2>19, <2>20, <2>21 DEF HostStep
<1>2. CASE CacheTampered
  BY <1>2 DEF CacheTampered, local, TypeOK, LocalInv, Documents, Generations, Labels,
         local
<1>3. CASE LockFileReplaced
  BY <1>3 DEF LockFileReplaced, local, TypeOK, LocalInv, Documents, Generations, Labels,
         local
<1>4. CASE UNCHANGED vars
  BY <1>4 DEF vars, TypeOK, LocalInv, Documents, Generations, Labels, local
<1> QED
  BY <1>1, <1>2, <1>3, <1>4 DEF Next

(* Only the flock keeps two Hosts out of each other's way; a crash and     *)
(* every error path release it.                                            *)
LEMMA LockStep ==
    ASSUME TypeOK, LockInv, [Next]_vars
    PROVE  LockInv'
<1> USE MaxGenerationAssumption, LockFilesAssumption, NoLineageAssumption
<1>1. ASSUME NEW h \in Hosts, HostStep(h) PROVE LockInv'
  <2>1. CASE Boot(h)
    BY <2>1 DEF Boot, Goto, TypeOK, LockInv, Holding, Labels, local
  <2>2. CASE Reserve(h)
    BY <2>2 DEF Reserve, Goto, TypeOK, LockInv, Holding, Labels, local
  <2>3. CASE Open(h)
    BY <2>3 DEF Open, Goto, TypeOK, LockInv, Holding, Labels, local
  <2>4. CASE Lock(h)
    BY <2>4 DEF Lock, Goto, Free, TypeOK, LockInv, Holding, Labels, local
  <2>5. CASE ReadFinds(h)
    BY <2>5 DEF ReadFinds, Goto, TypeOK, LockInv, Holding, Labels, local
  <2>6. CASE ReadFindsNothing(h)
    BY <2>6 DEF ReadFindsNothing, Goto, TypeOK, LockInv, Holding, Labels, local
  <2>7. CASE Match(h)
    BY <2>7 DEF Match, Loaded, Exhausted, Goto, Fail, Finish, TypeOK, LockInv, Holding,
           Labels, local
  <2>8. CASE Create(h)
    BY <2>8 DEF Create, Loaded, Exhausted, Goto, Fail, Finish, TypeOK, LockInv, Holding,
           Labels, local
  <2>9. CASE CreateFindsItem(h)
    BY <2>9 DEF CreateFindsItem, Goto, TypeOK, LockInv, Holding, Labels, local
  <2>10. CASE CreateFails(h)
    BY <2>10 DEF CreateFails, Fail, Finish, Goto, TypeOK, LockInv, Holding, Labels,
           local
  <2>11. CASE LoadReturns(h)
    BY <2>11 DEF LoadReturns, CacheWritten, Finish, Goto, TypeOK, LockInv, Holding,
           Labels, local
  <2>12. CASE CacheFirst(h)
    BY <2>12 DEF CacheFirst, CacheWritten, Goto, TypeOK, LockInv, Holding, Labels, local
  <2>13. CASE CacheFails(h)
    BY <2>13 DEF CacheFails, CacheWriteFails, Fail, Finish, Goto, TypeOK, LockInv,
           Holding, Labels, local
  <2>14. CASE SwapSucceeds(h)
    BY <2>14 DEF SwapSucceeds, MatchesRevision, Grant, Finish, Goto, TypeOK, LockInv,
           Holding, Labels, local
  <2>15. CASE SwapConflicts(h)
    BY <2>15 DEF SwapConflicts, MatchesRevision, Goto, TypeOK, LockInv, Holding, Labels,
           local
  <2>16. CASE SwapErrs(h)
    BY <2>16 DEF SwapErrs, MatchesRevision, Goto, TypeOK, LockInv, Holding, Labels,
           local
  <2>17. CASE ReloadResolves(h)
    BY <2>17 DEF ReloadResolves, Committed, Grant, Finish, Goto, TypeOK, LockInv,
           Holding, Labels, local
  <2>18. CASE ReloadRefutes(h)
    BY <2>18 DEF ReloadRefutes, Committed, Goto, TypeOK, LockInv, Holding, Labels, local
  <2>19. CASE Repair(h)
    BY <2>19 DEF Repair, CacheWritten, CacheWriteFails, Fail, Finish, Goto, TypeOK,
           LockInv, Holding, Labels, local
  <2>20. CASE StepFails(h)
    BY <2>20 DEF StepFails, MayFail, Fail, Finish, Goto, TypeOK, LockInv, Holding,
           Labels, local
  <2>21. CASE Crash(h)
    BY <2>21 DEF Crash, Finish, Goto, TypeOK, LockInv, Holding, Labels, local
  <2> QED
    BY <1>1, <2>1, <2>2, <2>3, <2>4, <2>5, <2>6, <2>7, <2>8, <2>9, <2>10, <2>11, <2>12,
       <2>13, <2>14, <2>15, <2>16, <2>17, <2>18, <2>19, <2>20, <2>21 DEF HostStep
<1>2. CASE CacheTampered
  BY <1>2 DEF CacheTampered, local, TypeOK, LockInv, Holding, Labels, local
<1>3. CASE LockFileReplaced
  BY <1>3 DEF LockFileReplaced, local, TypeOK, LockInv, Holding, Labels, local
<1>4. CASE UNCHANGED vars
  BY <1>4 DEF vars, TypeOK, LockInv, Holding, Labels, local
<1> QED
  BY <1>1, <1>2, <1>3, <1>4 DEF Next

(* A reported generation is durable before it is reported.                 *)
LEMMA GrantedStep ==
    ASSUME TypeOK, LocalInv, GrantedIsDurable, [Next]_vars
    PROVE  GrantedIsDurable'
<1> USE MaxGenerationAssumption, LockFilesAssumption, NoLineageAssumption
<1>1. ASSUME NEW h \in Hosts, HostStep(h) PROVE GrantedIsDurable'
  <2>1. CASE Boot(h)
    BY <2>1 DEF Boot, Goto, TypeOK, LocalInv, GrantedIsDurable, Documents, Generations,
           local
  <2>2. CASE Reserve(h)
    BY <2>2 DEF Reserve, Goto, TypeOK, LocalInv, GrantedIsDurable, Documents,
           Generations, local
  <2>3. CASE Open(h)
    BY <2>3 DEF Open, Goto, TypeOK, LocalInv, GrantedIsDurable, Documents, Generations,
           local
  <2>4. CASE Lock(h)
    BY <2>4 DEF Lock, Goto, Free, TypeOK, LocalInv, GrantedIsDurable, Documents,
           Generations, local
  <2>5. CASE ReadFinds(h)
    BY <2>5 DEF ReadFinds, Goto, TypeOK, LocalInv, GrantedIsDurable, Documents,
           Generations, local
  <2>6. CASE ReadFindsNothing(h)
    BY <2>6 DEF ReadFindsNothing, Goto, TypeOK, LocalInv, GrantedIsDurable, Documents,
           Generations, local
  <2>7. CASE Match(h)
    BY <2>7 DEF Match, Loaded, Exhausted, Goto, Fail, Finish, TypeOK, LocalInv,
           GrantedIsDurable, Documents, Generations, local
  <2>8. CASE Create(h)
    BY <2>8 DEF Create, Loaded, Exhausted, Goto, Fail, Finish, TypeOK, LocalInv,
           GrantedIsDurable, Documents, Generations, local
  <2>9. CASE CreateFindsItem(h)
    BY <2>9 DEF CreateFindsItem, Goto, TypeOK, LocalInv, GrantedIsDurable, Documents,
           Generations, local
  <2>10. CASE CreateFails(h)
    BY <2>10 DEF CreateFails, Fail, Finish, Goto, TypeOK, LocalInv, GrantedIsDurable,
           Documents, Generations, local
  <2>11. CASE LoadReturns(h)
    BY <2>11 DEF LoadReturns, CacheWritten, Finish, Goto, TypeOK, LocalInv,
           GrantedIsDurable, Documents, Generations, local
  <2>12. CASE CacheFirst(h)
    BY <2>12 DEF CacheFirst, CacheWritten, Goto, TypeOK, LocalInv, GrantedIsDurable,
           Documents, Generations, local
  <2>13. CASE CacheFails(h)
    BY <2>13 DEF CacheFails, CacheWriteFails, Fail, Finish, Goto, TypeOK, LocalInv,
           GrantedIsDurable, Documents, Generations, local
  <2>14. CASE SwapSucceeds(h)
    <3>1. /\ authority = seen[h] /\ seen[h] \in Documents
          /\ replacement[h] \in Documents
          /\ replacement[h].generation = seen[h].generation + 1
      BY <2>14, NextDocument DEF SwapSucceeds, MatchesRevision, LocalInv
    <3> QED
      BY <2>14, <3>1 DEF SwapSucceeds, Grant, TypeOK, GrantedIsDurable, Documents,
         Generations
  <2>15. CASE SwapConflicts(h)
    BY <2>15 DEF SwapConflicts, MatchesRevision, Goto, TypeOK, LocalInv,
           GrantedIsDurable, Documents, Generations, local
  <2>16. CASE SwapErrs(h)
    <3>1. /\ seen[h] \in Documents /\ replacement[h] \in Documents
          /\ replacement[h].generation = seen[h].generation + 1
      BY <2>16, NextDocument DEF SwapErrs, LocalInv
    <3> QED
      BY <2>16, <3>1 DEF SwapErrs, MatchesRevision, TypeOK, GrantedIsDurable, Documents,
         Generations
  <2>17. CASE ReloadResolves(h)
    BY <2>17 DEF ReloadResolves, Committed, Grant, Finish, Goto, TypeOK, LocalInv,
           GrantedIsDurable, Documents, Generations, local
  <2>18. CASE ReloadRefutes(h)
    BY <2>18 DEF ReloadRefutes, Committed, Goto, TypeOK, LocalInv, GrantedIsDurable,
           Documents, Generations, local
  <2>19. CASE Repair(h)
    BY <2>19 DEF Repair, CacheWritten, CacheWriteFails, Fail, Finish, Goto, TypeOK,
           LocalInv, GrantedIsDurable, Documents, Generations, local
  <2>20. CASE StepFails(h)
    BY <2>20 DEF StepFails, MayFail, Fail, Finish, Goto, TypeOK, LocalInv,
           GrantedIsDurable, Documents, Generations, local
  <2>21. CASE Crash(h)
    BY <2>21 DEF Crash, Finish, Goto, TypeOK, LocalInv, GrantedIsDurable, Documents,
           Generations, local
  <2> QED
    BY <1>1, <2>1, <2>2, <2>3, <2>4, <2>5, <2>6, <2>7, <2>8, <2>9, <2>10, <2>11, <2>12,
       <2>13, <2>14, <2>15, <2>16, <2>17, <2>18, <2>19, <2>20, <2>21 DEF HostStep
<1>2. CASE CacheTampered
  BY <1>2 DEF CacheTampered, local, TypeOK, LocalInv, GrantedIsDurable, Documents,
         Generations, local
<1>3. CASE LockFileReplaced
  BY <1>3 DEF LockFileReplaced, local, TypeOK, LocalInv, GrantedIsDurable, Documents,
         Generations, local
<1>4. CASE UNCHANGED vars
  BY <1>4 DEF vars, TypeOK, LocalInv, GrantedIsDurable, Documents, Generations, local
<1> QED
  BY <1>1, <1>2, <1>3, <1>4 DEF Next

(* Between its cache write and its update a Host replaces what it read.    *)
LEMMA Replacing ==
    ASSUME LocalInv, NEW h \in Hosts, pc[h] \in {"cacheFirst", "swap"}
    PROVE  /\ seen[h] \in Documents /\ replacement[h] \in Documents
           /\ replacement[h] # seen[h]
           /\ replacement[h].installation = seen[h].installation
           /\ replacement[h].generation = seen[h].generation + 1
           /\ replacement[h].generation \in Generations
           /\ replacement[h].generation > seen[h].generation
           /\ replacement[h] = [seen[h] EXCEPT !.generation = @ + 1]
<1>1. /\ seen[h] \in Documents /\ seen[h].generation < MaxGeneration
      /\ replacement[h] = [seen[h] EXCEPT !.generation = @ + 1]
  BY DEF LocalInv
<1>2. /\ replacement[h] \in Documents /\ replacement[h] # seen[h]
      /\ replacement[h].installation = seen[h].installation
      /\ replacement[h].generation = seen[h].generation + 1
  BY <1>1, NextDocument
<1>3. replacement[h].generation \in Generations /\ seen[h].generation \in Generations
  BY <1>1, <1>2 DEF Documents
<1>4. replacement[h].generation > seen[h].generation
  BY <1>2, <1>3, MaxGenerationAssumption DEF Generations
<1> QED
  BY <1>1, <1>2, <1>3, <1>4

(* While the lock file stays in place, at most one Host is past the lock.  *)
LEMMA Alone ==
    ASSUME LockInv, LockIntact, NEW h \in Hosts, NEW k \in Hosts,
           pc[h] \in Holding, pc[k] \in Holding
    PROVE  k = h
<1>1. opened[h] = 1 /\ opened[k] = 1
  BY DEF LockInv, LockIntact
<1>2. locked[h] /\ locked[k]
  BY DEF LockInv
<1> QED
  BY <1>1, <1>2 DEF LockInv

(* The holder's view of the authority and of the cache stays true, and an  *)
(* update that was committed under an error is not yet reported.           *)
LEMMA HolderStep ==
    ASSUME TypeOK, LocalInv, LockInv, GrantedIsDurable, HolderInv, [Next]_vars,
           LockIntact'
    PROVE  HolderInv'
<1> USE MaxGenerationAssumption, LockFilesAssumption, NoLineageAssumption
<1>1. ASSUME NEW h \in Hosts, HostStep(h) PROVE HolderInv'
  <2> USE DEF LockIntact
  <2>a. LockIntact
    BY <1>1 DEF HostStep, Boot, Reserve, Open, Lock, ReadFinds, ReadFindsNothing, Match,
           Create, CreateFindsItem, CreateFails, LoadReturns, CacheFirst, CacheFails,
           SwapSucceeds, SwapConflicts, SwapErrs, ReloadResolves, ReloadRefutes, Repair,
           StepFails, Crash, local
  <2>b. \A k \in Hosts : pc[k] \in Holding /\ pc[h] \in Holding => k = h
    BY <2>a, Alone
  <2>1. CASE Boot(h)
    BY <2>1, <2>a, <2>b DEF Boot, Goto, TypeOK, LocalInv, HolderInv, Holding, Labels,
           local
  <2>2. CASE Reserve(h)
    BY <2>2, <2>a, <2>b DEF Reserve, Goto, TypeOK, LocalInv, HolderInv, Holding, Labels,
           local
  <2>3. CASE Open(h)
    BY <2>3, <2>a, <2>b DEF Open, Goto, TypeOK, LocalInv, HolderInv, Holding, Labels,
           local
  <2>4. CASE Lock(h)
    BY <2>4, <2>a, <2>b DEF Lock, Goto, Free, TypeOK, LocalInv, HolderInv, Holding,
           Labels, local
  <2>5. CASE ReadFinds(h)
    BY <2>5, <2>a, <2>b DEF ReadFinds, Goto, TypeOK, LocalInv, HolderInv, Holding,
           Labels, local
  <2>6. CASE ReadFindsNothing(h)
    BY <2>6, <2>a, <2>b DEF ReadFindsNothing, Goto, TypeOK, LocalInv, HolderInv,
           Holding, Labels, local
  <2>7. CASE Match(h)
    BY <2>7, <2>a, <2>b DEF Match, Loaded, Exhausted, Goto, Fail, Finish, TypeOK,
           LocalInv, HolderInv, Holding, Labels, local
  <2>8. CASE Create(h)
    BY <2>8, <2>a, <2>b DEF Create, Loaded, Exhausted, Goto, Fail, Finish, TypeOK,
           LocalInv, HolderInv, Holding, Labels, local
  <2>9. CASE CreateFindsItem(h)
    BY <2>9, <2>a, <2>b DEF CreateFindsItem, Goto, TypeOK, LocalInv, HolderInv, Holding,
           Labels, local
  <2>10. CASE CreateFails(h)
    BY <2>10, <2>a, <2>b DEF CreateFails, Fail, Finish, Goto, TypeOK, LocalInv,
           HolderInv, Holding, Labels, local
  <2>11. CASE LoadReturns(h)
    BY <2>11, <2>a, <2>b DEF LoadReturns, CacheWritten, Finish, Goto, TypeOK, LocalInv,
           HolderInv, Holding, Labels, local
  <2>12. CASE CacheFirst(h)
    BY <2>12, <2>a, <2>b DEF CacheFirst, CacheWritten, Goto, TypeOK, LocalInv,
           HolderInv, Holding, Labels, local
  <2>13. CASE CacheFails(h)
    BY <2>13, <2>a, <2>b DEF CacheFails, CacheWriteFails, Fail, Finish, Goto, TypeOK,
           LocalInv, HolderInv, Holding, Labels, local
  <2>14. CASE SwapSucceeds(h)
    BY <2>14, <2>a, <2>b DEF SwapSucceeds, MatchesRevision, Grant, Finish, Goto, TypeOK,
           LocalInv, HolderInv, Holding, Labels, local
  <2>15. CASE SwapConflicts(h)
    BY <2>15, <2>a, <2>b DEF SwapConflicts, MatchesRevision, Goto, TypeOK, LocalInv,
           HolderInv, Holding, Labels, local
  <2>16. CASE SwapErrs(h)
    <3>1. /\ pc[h] = "swap" /\ authority = seen[h]
          /\ authority' \in {authority, replacement[h]}
          /\ pc' = [pc EXCEPT ![h] = "reload"]
          /\ UNCHANGED <<cache, seen, replacement, issued, tampered>>
      BY <2>16, <2>a DEF SwapErrs, MatchesRevision, Goto, HolderInv
    <3>2. /\ replacement[h] # seen[h] /\ replacement[h].generation \in Generations
          /\ replacement[h].generation > authority.generation
      BY <3>1, Replacing
    <3>3. issued[replacement[h].generation] = 0
      BY <3>2 DEF GrantedIsDurable, TypeOK, Generations, Documents
    <3>4. \A k \in Hosts \ {h} : pc'[k] = pc[k] /\ pc[k] \notin Holding
      BY <3>1, <2>b DEF TypeOK, Holding, Labels
    <3>5. pc'[h] = "reload"
      BY <3>1 DEF TypeOK
    <3> QED
      BY <3>1, <3>2, <3>3, <3>4, <3>5 DEF HolderInv, Holding, Labels
  <2>17. CASE ReloadResolves(h)
    BY <2>17, <2>a, <2>b DEF ReloadResolves, Committed, Grant, Finish, Goto, TypeOK,
           LocalInv, HolderInv, Holding, Labels, local
  <2>18. CASE ReloadRefutes(h)
    BY <2>18, <2>a, <2>b DEF ReloadRefutes, Committed, Goto, TypeOK, LocalInv,
           HolderInv, Holding, Labels, local
  <2>19. CASE Repair(h)
    BY <2>19, <2>a, <2>b DEF Repair, CacheWritten, CacheWriteFails, Fail, Finish, Goto,
           TypeOK, LocalInv, HolderInv, Holding, Labels, local
  <2>20. CASE StepFails(h)
    BY <2>20, <2>a, <2>b DEF StepFails, MayFail, Fail, Finish, Goto, TypeOK, LocalInv,
           HolderInv, Holding, Labels, local
  <2>21. CASE Crash(h)
    BY <2>21, <2>a, <2>b DEF Crash, Finish, Goto, TypeOK, LocalInv, HolderInv, Holding,
           Labels, local
  <2> QED
    BY <1>1, <2>1, <2>2, <2>3, <2>4, <2>5, <2>6, <2>7, <2>8, <2>9, <2>10, <2>11, <2>12,
       <2>13, <2>14, <2>15, <2>16, <2>17, <2>18, <2>19, <2>20, <2>21 DEF HostStep
<1>2. CASE CacheTampered
  BY <1>2 DEF LockIntact, CacheTampered, local, TypeOK, LocalInv, HolderInv, Holding,
         Labels, local
<1>3. CASE LockFileReplaced
  BY <1>3 DEF LockIntact, LockFileReplaced, TypeOK
<1>4. CASE UNCHANGED vars
  BY <1>4 DEF LockIntact, vars, TypeOK, LocalInv, HolderInv, Holding, Labels, local
<1> QED
  BY <1>1, <1>2, <1>3, <1>4 DEF Next

(* Hence a generation is reported at most once.                            *)
LEMMA UniqueStep ==
    ASSUME TypeOK, LocalInv, LockInv, GrantedIsDurable, HolderInv,
           UniqueReservation, [Next]_vars, LockIntact'
    PROVE  UniqueReservation'
<1> USE MaxGenerationAssumption, LockFilesAssumption, NoLineageAssumption
<1>1. ASSUME NEW h \in Hosts, HostStep(h) PROVE UniqueReservation'
  <2> USE DEF LockIntact
  <2>a. LockIntact
    BY <1>1 DEF HostStep, Boot, Reserve, Open, Lock, ReadFinds, ReadFindsNothing, Match,
           Create, CreateFindsItem, CreateFails, LoadReturns, CacheFirst, CacheFails,
           SwapSucceeds, SwapConflicts, SwapErrs, ReloadResolves, ReloadRefutes, Repair,
           StepFails, Crash, local
  <2>b. \A k \in Hosts : pc[k] \in Holding /\ pc[h] \in Holding => k = h
    BY <2>a, Alone
  <2>1. CASE Boot(h)
    BY <2>1, <2>a, <2>b DEF Boot, Goto, TypeOK, UniqueReservation, local
  <2>2. CASE Reserve(h)
    BY <2>2, <2>a, <2>b DEF Reserve, Goto, TypeOK, UniqueReservation, local
  <2>3. CASE Open(h)
    BY <2>3, <2>a, <2>b DEF Open, Goto, TypeOK, UniqueReservation, local
  <2>4. CASE Lock(h)
    BY <2>4, <2>a, <2>b DEF Lock, Goto, Free, TypeOK, UniqueReservation, local
  <2>5. CASE ReadFinds(h)
    BY <2>5, <2>a, <2>b DEF ReadFinds, Goto, TypeOK, UniqueReservation, local
  <2>6. CASE ReadFindsNothing(h)
    BY <2>6, <2>a, <2>b DEF ReadFindsNothing, Goto, TypeOK, UniqueReservation, local
  <2>7. CASE Match(h)
    BY <2>7, <2>a, <2>b DEF Match, Loaded, Exhausted, Goto, Fail, Finish, TypeOK,
           UniqueReservation, local
  <2>8. CASE Create(h)
    BY <2>8, <2>a, <2>b DEF Create, Loaded, Exhausted, Goto, Fail, Finish, TypeOK,
           UniqueReservation, local
  <2>9. CASE CreateFindsItem(h)
    BY <2>9, <2>a, <2>b DEF CreateFindsItem, Goto, TypeOK, UniqueReservation, local
  <2>10. CASE CreateFails(h)
    BY <2>10, <2>a, <2>b DEF CreateFails, Fail, Finish, Goto, TypeOK, UniqueReservation,
           local
  <2>11. CASE LoadReturns(h)
    BY <2>11, <2>a, <2>b DEF LoadReturns, CacheWritten, Finish, Goto, TypeOK,
           UniqueReservation, local
  <2>12. CASE CacheFirst(h)
    BY <2>12, <2>a, <2>b DEF CacheFirst, CacheWritten, Goto, TypeOK, UniqueReservation,
           local
  <2>13. CASE CacheFails(h)
    BY <2>13, <2>a, <2>b DEF CacheFails, CacheWriteFails, Fail, Finish, Goto, TypeOK,
           UniqueReservation, local
  <2>14. CASE SwapSucceeds(h)
    <3>1. pc[h] = "swap" /\ authority = seen[h]
      BY <2>14 DEF SwapSucceeds, MatchesRevision
    <3>2. /\ replacement[h].generation \in Generations
          /\ replacement[h].generation > authority.generation
      BY <3>1, Replacing
    <3>3. issued[replacement[h].generation] = 0
      BY <3>2 DEF GrantedIsDurable, TypeOK, Generations, Documents
    <3> QED
      BY <2>14, <2>a, <3>3 DEF SwapSucceeds, Grant, TypeOK, UniqueReservation
  <2>15. CASE SwapConflicts(h)
    BY <2>15, <2>a, <2>b DEF SwapConflicts, MatchesRevision, Goto, TypeOK,
           UniqueReservation, local
  <2>16. CASE SwapErrs(h)
    BY <2>16, <2>a, <2>b DEF SwapErrs, MatchesRevision, Goto, TypeOK, UniqueReservation,
           local
  <2>17. CASE ReloadResolves(h)
    <3>1. pc[h] = "reloadMatch" /\ authority = replacement[h]
      BY <2>17 DEF ReloadResolves, Committed
    <3>2. issued[replacement[h].generation] = 0
      BY <3>1, <2>a DEF HolderInv
    <3> QED
      BY <2>17, <2>a, <3>2 DEF ReloadResolves, Grant, TypeOK, UniqueReservation
  <2>18. CASE ReloadRefutes(h)
    BY <2>18, <2>a, <2>b DEF ReloadRefutes, Committed, Goto, TypeOK, UniqueReservation,
           local
  <2>19. CASE Repair(h)
    BY <2>19, <2>a, <2>b DEF Repair, CacheWritten, CacheWriteFails, Fail, Finish, Goto,
           TypeOK, UniqueReservation, local
  <2>20. CASE StepFails(h)
    BY <2>20, <2>a, <2>b DEF StepFails, MayFail, Fail, Finish, Goto, TypeOK,
           UniqueReservation, local
  <2>21. CASE Crash(h)
    BY <2>21, <2>a, <2>b DEF Crash, Finish, Goto, TypeOK, UniqueReservation, local
  <2> QED
    BY <1>1, <2>1, <2>2, <2>3, <2>4, <2>5, <2>6, <2>7, <2>8, <2>9, <2>10, <2>11, <2>12,
       <2>13, <2>14, <2>15, <2>16, <2>17, <2>18, <2>19, <2>20, <2>21 DEF HostStep
<1>2. CASE CacheTampered
  BY <1>2 DEF LockIntact, CacheTampered, local, TypeOK, UniqueReservation, local
<1>3. CASE LockFileReplaced
  BY <1>3 DEF LockIntact, LockFileReplaced, TypeOK
<1>4. CASE UNCHANGED vars
  BY <1>4 DEF LockIntact, vars, TypeOK, UniqueReservation, local
<1> QED
  BY <1>1, <1>2, <1>3, <1>4 DEF Next

(* Hence the cache stays at the authority or one generation ahead of it.   *)
LEMMA CacheStep ==
    ASSUME TypeOK, LocalInv, LockInv, HolderInv, CacheIsRepairable,
           [Next]_vars, LockIntact'
    PROVE  CacheIsRepairable'
<1> USE MaxGenerationAssumption, LockFilesAssumption, NoLineageAssumption
<1>1. ASSUME NEW h \in Hosts, HostStep(h) PROVE CacheIsRepairable'
  <2> USE DEF LockIntact
  <2>a. LockIntact
    BY <1>1 DEF HostStep, Boot, Reserve, Open, Lock, ReadFinds, ReadFindsNothing, Match,
           Create, CreateFindsItem, CreateFails, LoadReturns, CacheFirst, CacheFails,
           SwapSucceeds, SwapConflicts, SwapErrs, ReloadResolves, ReloadRefutes, Repair,
           StepFails, Crash, local
  <2>b. \A k \in Hosts : pc[k] \in Holding /\ pc[h] \in Holding => k = h
    BY <2>a, Alone
  <2>1. CASE Boot(h)
    BY <2>1, <2>a, <2>b DEF Boot, Goto, TypeOK, LocalInv, HolderInv, CacheIsRepairable,
           Holding, Labels, local
  <2>2. CASE Reserve(h)
    BY <2>2, <2>a, <2>b DEF Reserve, Goto, TypeOK, LocalInv, HolderInv,
           CacheIsRepairable, Holding, Labels, local
  <2>3. CASE Open(h)
    BY <2>3, <2>a, <2>b DEF Open, Goto, TypeOK, LocalInv, HolderInv, CacheIsRepairable,
           Holding, Labels, local
  <2>4. CASE Lock(h)
    BY <2>4, <2>a, <2>b DEF Lock, Goto, Free, TypeOK, LocalInv, HolderInv,
           CacheIsRepairable, Holding, Labels, local
  <2>5. CASE ReadFinds(h)
    BY <2>5, <2>a, <2>b DEF ReadFinds, Goto, TypeOK, LocalInv, HolderInv,
           CacheIsRepairable, Holding, Labels, local
  <2>6. CASE ReadFindsNothing(h)
    BY <2>6, <2>a, <2>b DEF ReadFindsNothing, Goto, TypeOK, LocalInv, HolderInv,
           CacheIsRepairable, Holding, Labels, local
  <2>7. CASE Match(h)
    BY <2>7, <2>a, <2>b DEF Match, Loaded, Exhausted, Goto, Fail, Finish, TypeOK,
           LocalInv, HolderInv, CacheIsRepairable, Holding, Labels, local
  <2>8. CASE Create(h)
    BY <2>8, <2>a, <2>b DEF Create, Loaded, Exhausted, Goto, Fail, Finish, TypeOK,
           LocalInv, HolderInv, CacheIsRepairable, Holding, Labels, local
  <2>9. CASE CreateFindsItem(h)
    BY <2>9, <2>a, <2>b DEF CreateFindsItem, Goto, TypeOK, LocalInv, HolderInv,
           CacheIsRepairable, Holding, Labels, local
  <2>10. CASE CreateFails(h)
    BY <2>10, <2>a, <2>b DEF CreateFails, Fail, Finish, Goto, TypeOK, LocalInv,
           HolderInv, CacheIsRepairable, Holding, Labels, local
  <2>11. CASE LoadReturns(h)
    BY <2>11, <2>a, <2>b DEF LoadReturns, CacheWritten, Finish, Goto, TypeOK, LocalInv,
           HolderInv, CacheIsRepairable, Holding, Labels, local
  <2>12. CASE CacheFirst(h)
    <3>1. /\ pc[h] = "cacheFirst" /\ cache' = replacement[h]
          /\ UNCHANGED authority
      BY <2>12 DEF CacheFirst, CacheWritten
    <3>2. authority = seen[h]
      BY <3>1, <2>a DEF HolderInv
    <3> QED
      BY <3>1, <3>2, Replacing DEF CacheIsRepairable
  <2>13. CASE CacheFails(h)
    <3>1. UNCHANGED <<authority, tampered>>
      BY <2>13 DEF CacheFails
    <3>2. pc[h] \in {"sync", "cacheFirst"} /\ authority = seen[h]
      BY <2>13, <2>a DEF CacheFails, HolderInv
    <3>3. CASE cache' = cache
      BY <3>1, <3>3, <2>a DEF CacheIsRepairable
    <3>4. CASE pc[h] = "sync" /\ cache' = seen[h]
      BY <3>1, <3>2, <3>4 DEF CacheIsRepairable, LocalInv
    <3>5. CASE pc[h] = "cacheFirst" /\ cache' = replacement[h]
      BY <3>1, <3>2, <3>5, Replacing DEF CacheIsRepairable
    <3> QED
      BY <2>13, <3>2, <3>3, <3>4, <3>5 DEF CacheFails, CacheWriteFails
  <2>14. CASE SwapSucceeds(h)
    BY <2>14, <2>a, <2>b DEF SwapSucceeds, MatchesRevision, Grant, Finish, Goto, TypeOK,
           LocalInv, HolderInv, CacheIsRepairable, Holding, Labels, local
  <2>15. CASE SwapConflicts(h)
    BY <2>15, <2>a, <2>b DEF SwapConflicts, MatchesRevision, Goto, TypeOK, LocalInv,
           HolderInv, CacheIsRepairable, Holding, Labels, local
  <2>16. CASE SwapErrs(h)
    BY <2>16, <2>a, <2>b DEF SwapErrs, MatchesRevision, Goto, TypeOK, LocalInv,
           HolderInv, CacheIsRepairable, Holding, Labels, local
  <2>17. CASE ReloadResolves(h)
    BY <2>17, <2>a, <2>b DEF ReloadResolves, Committed, Grant, Finish, Goto, TypeOK,
           LocalInv, HolderInv, CacheIsRepairable, Holding, Labels, local
  <2>18. CASE ReloadRefutes(h)
    BY <2>18, <2>a, <2>b DEF ReloadRefutes, Committed, Goto, TypeOK, LocalInv,
           HolderInv, CacheIsRepairable, Holding, Labels, local
  <2>19. CASE Repair(h)
    BY <2>19, <2>a, <2>b DEF Repair, CacheWritten, CacheWriteFails, Fail, Finish, Goto,
           TypeOK, LocalInv, HolderInv, CacheIsRepairable, Holding, Labels, local
  <2>20. CASE StepFails(h)
    BY <2>20, <2>a, <2>b DEF StepFails, MayFail, Fail, Finish, Goto, TypeOK, LocalInv,
           HolderInv, CacheIsRepairable, Holding, Labels, local
  <2>21. CASE Crash(h)
    BY <2>21, <2>a, <2>b DEF Crash, Finish, Goto, TypeOK, LocalInv, HolderInv,
           CacheIsRepairable, Holding, Labels, local
  <2> QED
    BY <1>1, <2>1, <2>2, <2>3, <2>4, <2>5, <2>6, <2>7, <2>8, <2>9, <2>10, <2>11, <2>12,
       <2>13, <2>14, <2>15, <2>16, <2>17, <2>18, <2>19, <2>20, <2>21 DEF HostStep
<1>2. CASE CacheTampered
  BY <1>2 DEF LockIntact, CacheTampered, local, TypeOK, LocalInv, HolderInv,
         CacheIsRepairable, Holding, Labels, local
<1>3. CASE LockFileReplaced
  BY <1>3 DEF LockIntact, LockFileReplaced, TypeOK
<1>4. CASE UNCHANGED vars
  BY <1>4 DEF LockIntact, vars, TypeOK, LocalInv, HolderInv, CacheIsRepairable, Holding,
         Labels, local
<1> QED
  BY <1>1, <1>2, <1>3, <1>4 DEF Next

(* TypeOK and StoreInv together are inductive.                             *)
LEMMA InitInv == Init => TypeOK /\ StoreInv
<1> USE MaxGenerationAssumption, LockFilesAssumption, NoLineageAssumption
<1> SUFFICES ASSUME Init PROVE TypeOK /\ StoreInv
  OBVIOUS
<1>1. TypeOK
  <2>1. 0 \in Generations /\ 1 \in 1..MaxLockFiles /\ 0 \in 0..MaxLockFiles
    BY DEF Generations
  <2> QED
    BY <2>1 DEF Init, TypeOK, Labels
<1>2. LocalInv /\ LockInv /\ HolderInv
  BY DEF Init, LocalInv, LockInv, HolderInv, Holding, Labels
<1>3. GrantedIsDurable /\ UniqueReservation /\ CacheIsRepairable
  BY DEF Init, GrantedIsDurable, UniqueReservation, CacheIsRepairable, Generations
<1> QED
  BY <1>1, <1>2, <1>3 DEF StoreInv

LEMMA StepInv == TypeOK /\ StoreInv /\ [Next]_vars => TypeOK' /\ StoreInv'
<1> SUFFICES ASSUME TypeOK, StoreInv, [Next]_vars PROVE TypeOK' /\ StoreInv'
  OBVIOUS
<1>1. TypeOK' /\ LocalInv' /\ LockInv' /\ GrantedIsDurable'
  BY TypeStep, LocalStep, LockStep, GrantedStep DEF StoreInv
<1>2. LockIntact' => HolderInv' /\ UniqueReservation' /\ CacheIsRepairable'
  BY HolderStep, UniqueStep, CacheStep DEF StoreInv
<1>3. ~LockIntact' => HolderInv' /\ UniqueReservation' /\ CacheIsRepairable'
  BY DEF HolderInv, UniqueReservation, CacheIsRepairable
<1> QED
  BY <1>1, <1>2, <1>3 DEF StoreInv

(* The inductive invariant holds in every reachable state of the store.    *)
THEOREM StoreInvariant == Spec => [](TypeOK /\ StoreInv)
BY InitInv, StepInv, PTL DEF Spec

(* Every variable keeps its type; in particular reserve_next never leaves  *)
(* the range of the generation counter.                                    *)
THEOREM StoreTypes == Spec => []TypeOK
BY StoreInvariant, PTL

(* While the lock file stays in place no generation is reported to two     *)
(* callers, for any number of Hosts, crashes and ambiguous Keychain        *)
(* errors.                                                                 *)
THEOREM ReservationsAreUnique == Spec => []UniqueReservation
<1>1. StoreInv => UniqueReservation
  BY DEF StoreInv
<1> QED
  BY <1>1, StoreInvariant, PTL

(* A reported generation is durable, even without a lock.                  *)
THEOREM GrantsAreDurable == Spec => []GrantedIsDurable
<1>1. StoreInv => GrantedIsDurable
  BY DEF StoreInv
<1> QED
  BY <1>1, StoreInvariant, PTL

(* The store itself never leaves a cache that is behind the authority or   *)
(* more than one generation ahead.                                         *)
THEOREM CacheStaysRepairable == Spec => []CacheIsRepairable
<1>1. StoreInv => CacheIsRepairable
  BY DEF StoreInv
<1> QED
  BY <1>1, StoreInvariant, PTL

-----------------------------------------------------------------------------
(* What one step does to the authority and to the reports.                 *)
LEMMA AuthorityStep ==
    ASSUME TypeOK, LocalInv, NEW h \in Hosts, HostStep(h)
    PROVE  \/ UNCHANGED authority
           \/ /\ authority = NoLineage /\ UNCHANGED issued
              /\ \E i \in Installations : authority' = [installation |-> i, generation |-> 0]
           \/ /\ pc[h] = "swap" /\ authority = seen[h] /\ authority' = replacement[h]
              /\ \/ UNCHANGED issued
                 \/ issued' = [issued EXCEPT ![replacement[h].generation] = @ + 1]
BY DEF HostStep, Boot, Reserve, Open, Lock, ReadFinds, ReadFindsNothing, Match, Create,
       CreateFindsItem, CreateFails, LoadReturns, CacheFirst, CacheFails, SwapSucceeds,
       SwapConflicts, SwapErrs, ReloadResolves, ReloadRefutes, Repair, StepFails, Crash,
       Loaded, Fail, Finish, Grant, MatchesRevision, local

(* Neither cache nor lock file can select another lineage or roll it back: *)
(* the compare-and-swap names the revision that was read.                  *)
THEOREM LineageOnlyAdvances == Spec => AuthorityNeverRollsBack
<1>1. ASSUME TypeOK, StoreInv, [Next]_vars, authority # NoLineage
      PROVE  \/ UNCHANGED authority
             \/ /\ authority'.installation = authority.installation
                /\ authority'.generation = authority.generation + 1
  <2>1. CASE UNCHANGED vars
    BY <2>1 DEF vars
  <2>2. CASE CacheTampered \/ LockFileReplaced
    BY <2>2 DEF CacheTampered, LockFileReplaced
  <2>3. ASSUME NEW h \in Hosts, HostStep(h)
        PROVE  \/ UNCHANGED authority
               \/ /\ authority'.installation = authority.installation
                  /\ authority'.generation = authority.generation + 1
    BY <1>1, <2>3, AuthorityStep, Replacing DEF StoreInv
  <2> QED
    BY <1>1, <2>1, <2>2, <2>3 DEF Next
<1>2. TypeOK /\ StoreInv /\ [Next]_vars =>
        [authority # NoLineage =>
            \/ UNCHANGED authority
            \/ /\ authority'.installation = authority.installation
               /\ authority'.generation = authority.generation + 1]_vars
  BY <1>1
<1> QED
  BY <1>2, StoreInvariant, PTL DEF Spec, AuthorityNeverRollsBack

(* A successful load leaves the cache equal to the authority.              *)
THEOREM LoadsRepair == Spec => LoadRepairsCache
<1>1. ASSUME TypeOK, StoreInv, Next, NEW h \in Hosts,
             LockIntact, pc[h] = "sync", pc'[h] = "idle"
      PROVE  cache' = authority
  <2>1. PICK k \in Hosts : HostStep(k)
    <3>1. ~CacheTampered /\ ~LockFileReplaced
      BY <1>1 DEF CacheTampered, LockFileReplaced
    <3> QED
      BY <1>1, <3>1 DEF Next
  <2>2. k = h
    BY <1>1, <2>1 DEF TypeOK, HostStep, Boot, Reserve, Open, Lock, ReadFinds,
           ReadFindsNothing, Match, Create, CreateFindsItem, CreateFails, LoadReturns,
           CacheFirst, CacheFails, SwapSucceeds, SwapConflicts, SwapErrs,
           ReloadResolves, ReloadRefutes, Repair, StepFails, Crash, Loaded, Fail,
           Finish, Grant, Goto
  <2>3. LoadReturns(h)
    BY <1>1, <2>1, <2>2 DEF TypeOK, StoreInv, LocalInv, MayFail, HostStep, Boot,
           Reserve, Open, Lock, ReadFinds, ReadFindsNothing, Match, Create,
           CreateFindsItem, CreateFails, CacheFirst, CacheFails, SwapSucceeds,
           SwapConflicts, SwapErrs, ReloadResolves, ReloadRefutes, Repair, StepFails,
           Crash, Loaded, Fail, Finish, Grant, Goto
  <2> QED
    BY <1>1, <2>3 DEF LoadReturns, CacheWritten, StoreInv, HolderInv
<1>2. TypeOK /\ StoreInv /\ [Next]_vars =>
        [\A h \in Hosts : LockIntact /\ pc[h] = "sync" /\ pc'[h] = "idle"
             => cache' = authority]_vars
  BY <1>1
<1> QED
  BY <1>2, StoreInvariant, PTL DEF Spec, LoadRepairsCache

-----------------------------------------------------------------------------
(* A step that reports a generation reports the newest one, once.          *)
LEMMA ReportStep ==
    ASSUME TypeOK, StoreInv, LockIntact, NEW h \in Hosts, HostStep(h), issued' # issued
    PROVE  /\ authority' = replacement[h] /\ replacement[h] \in Documents
           /\ issued[replacement[h].generation] = 0
           /\ issued' = [issued EXCEPT ![replacement[h].generation] = 1]
           /\ pc[h] # "swap" => UNCHANGED authority
<1> USE MaxGenerationAssumption, NoLineageAssumption
<1>1. CASE SwapSucceeds(h)
  <2>1. /\ pc[h] = "swap" /\ authority = seen[h] /\ authority' = replacement[h]
        /\ issued' = [issued EXCEPT ![replacement[h].generation] = @ + 1]
    BY <1>1 DEF SwapSucceeds, MatchesRevision, Grant
  <2>2. /\ replacement[h] \in Documents /\ replacement[h].generation \in Generations
        /\ replacement[h].generation > authority.generation
    BY <2>1, Replacing DEF StoreInv
  <2>3. issued[replacement[h].generation] = 0
    BY <2>2 DEF StoreInv, GrantedIsDurable, TypeOK, Generations, Documents
  <2> QED
    BY <2>1, <2>2, <2>3
<1>2. CASE ReloadResolves(h)
  <2>1. /\ pc[h] = "reloadMatch" /\ authority = replacement[h] /\ UNCHANGED authority
        /\ issued' = [issued EXCEPT ![replacement[h].generation] = @ + 1]
    BY <1>2 DEF ReloadResolves, Committed, Grant
  <2>2. issued[replacement[h].generation] = 0 /\ replacement[h] \in Documents
    BY <2>1 DEF StoreInv, HolderInv, LocalInv
  <2> QED
    BY <2>1, <2>2
<1> QED
  BY <1>1, <1>2 DEF HostStep, Boot, Reserve, Open, Lock, ReadFinds, ReadFindsNothing,
         Match, Create, CreateFindsItem, CreateFails, LoadReturns, CacheFirst,
         CacheFails, SwapConflicts, SwapErrs, ReloadRefutes, Repair, StepFails, Crash,
         local

(* Until its lock file is replaced, the store implements the abstract      *)
(* journal: each of its steps creates the lineage, reserves a generation   *)
(* with or without a report, reports one late, or is invisible.            *)
THEOREM StoreImplementsJournal == Spec => ImplementsJournal
<1> USE MaxGenerationAssumption, LockFilesAssumption, NoLineageAssumption
<1>1. Init => J!Init
  BY DEF Init, J!Init, J!Generations, Generations
<1>2. ASSUME TypeOK, StoreInv, LockIntact, [Next]_vars
      PROVE  [J!Next]_<<authority, issued>>
  <2>1. CASE UNCHANGED vars
    BY <2>1 DEF vars
  <2>2. CASE CacheTampered \/ LockFileReplaced
    BY <2>2 DEF CacheTampered, LockFileReplaced
  <2>3. ASSUME NEW h \in Hosts, HostStep(h)
        PROVE  [J!Next]_<<authority, issued>>
    <3>1. CASE issued' # issued
      <4>1. /\ authority' = replacement[h] /\ replacement[h] \in Documents
            /\ issued[replacement[h].generation] = 0
            /\ issued' = [issued EXCEPT ![replacement[h].generation] = 1]
            /\ pc[h] # "swap" => UNCHANGED authority
        BY <1>2, <2>3, <3>1, ReportStep
      <4>2. J!Report
        BY <4>1 DEF J!Report
      <4>3. CASE UNCHANGED authority
        BY <4>2, <4>3 DEF J!Next, J!ReportLate
      <4>4. CASE ~UNCHANGED authority
        <5>1. pc[h] = "swap" /\ authority = seen[h]
          BY <1>2, <2>3, <3>1, <4>4, AuthorityStep DEF StoreInv
        <5>2. J!Advance
          <6>1. /\ seen[h] \in Documents /\ seen[h].generation < MaxGeneration
                /\ replacement[h] = [seen[h] EXCEPT !.generation = @ + 1]
            BY <1>2, <5>1 DEF StoreInv, LocalInv
          <6> QED
            BY <4>1, <5>1, <6>1 DEF J!Advance
        <5> QED
          BY <4>2, <5>2 DEF J!Next, J!Reserve
      <4> QED
        BY <4>3, <4>4
    <3>2. CASE issued' = issued /\ ~UNCHANGED authority
      <4>1. CASE /\ authority = NoLineage
                 /\ \E i \in Installations :
                        authority' = [installation |-> i, generation |-> 0]
        BY <3>2, <4>1 DEF J!Next, J!Initialize, J!Lineages, J!Generations
      <4>2. CASE pc[h] = "swap" /\ authority = seen[h] /\ authority' = replacement[h]
        <5>1. /\ seen[h] \in Documents /\ seen[h].generation < MaxGeneration
              /\ replacement[h] = [seen[h] EXCEPT !.generation = @ + 1]
          BY <1>2, <4>2 DEF StoreInv, LocalInv
        <5>2. J!Advance
          BY <4>2, <5>1 DEF J!Advance
        <5> QED
          BY <3>2, <5>2 DEF J!Next, J!ReserveUnreported
      <4> QED
        BY <1>2, <2>3, <3>2, <4>1, <4>2, AuthorityStep DEF StoreInv
    <3>3. CASE issued' = issued /\ UNCHANGED authority
      BY <3>3
    <3> QED
      BY <3>1, <3>2, <3>3
  <2> QED
    BY <1>2, <2>1, <2>2, <2>3 DEF Next
<1> QED
  BY <1>1, <1>2, StoreInvariant, PTL DEF Spec, ImplementsJournal

=============================================================================
