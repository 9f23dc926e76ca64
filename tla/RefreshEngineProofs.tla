------------------------ MODULE RefreshEngineProofs ------------------------
(***************************************************************************)
(* Theorems about RefreshEngine, for any sets of sources, workers and jobs *)
(* and any choice of triggers and faults.                                  *)
(***************************************************************************)
EXTENDS RefreshEngine, TLAPS

(***************************************************************************)
(* Every variable keeps its type, whatever the handlers do.                *)
(***************************************************************************)
LEMMA TypeInit == Init => TypeOK
BY DEF Init, TypeOK, SourceStates, JobStates, PCs, Payloads, TriggerKinds

(***************************************************************************)
(* One step per action: it keeps the types of what it assigns.             *)
(***************************************************************************)
LEMMA TypeStep == TypeOK /\ [Next]_vars => TypeOK'
<1> SUFFICES ASSUME TypeOK, [Next]_vars PROVE TypeOK'
  OBVIOUS
<1> USE DEF TypeOK, SourceStates, JobStates, PCs, Payloads, TriggerKinds
<1>1. ASSUME NEW s \in Source, CreateSource(s) PROVE TypeOK'
  BY <1>1 DEF CreateSource, taskVars
<1>2. ASSUME NEW s \in Source, DeleteSource(s) PROVE TypeOK'
  BY <1>2 DEF DeleteSource, taskVars
<1>3. ASSUME NEW s \in Source, DeleteTemplate(s) PROVE TypeOK'
  BY <1>3 DEF DeleteTemplate, taskVars
<1>4. ASSUME NEW w \in Worker, NEW s \in Source, NEW t \in Triggers,
             Acquire(w, s, t)
      PROVE TypeOK'
  BY <1>4, TriggersAssumption DEF Acquire, Goto, dbVars
<1>5. ASSUME NEW w \in Worker, LoadSource(w) PROVE TypeOK'
  BY <1>5 DEF LoadSource, Goto, dbVars, taskVars
<1>6. ASSUME NEW w \in Worker, TakeOver(w) PROVE TypeOK'
  BY <1>6 DEF TakeOver, MarkRunningFailed, StorageError, Goto, dbVars, taskVars
<1>7. ASSUME NEW w \in Worker, InsertJob(w) PROVE TypeOK'
  BY <1>7 DEF InsertJob, StorageError, Goto, dbVars
<1>8. ASSUME NEW w \in Worker, Fetch(w) PROVE TypeOK'
  BY <1>8 DEF Fetch, Goto, dbVars
<1>9. ASSUME NEW w \in Worker, CheckTemplateSource(w) PROVE TypeOK'
  BY <1>9 DEF CheckTemplateSource, Goto, dbVars, taskVars
<1>10. ASSUME NEW w \in Worker, SetTemplate(w) PROVE TypeOK'
  BY <1>10 DEF SetTemplate, StorageError, Goto, dbVars, taskVars
<1>11. ASSUME NEW w \in Worker, EnsureSource(w) PROVE TypeOK'
  BY <1>11 DEF EnsureSource, Goto, dbVars, taskVars
<1>12. ASSUME NEW w \in Worker, UpsertNodes(w) PROVE TypeOK'
  BY <1>12 DEF UpsertNodes, StorageError, Goto, dbVars, taskVars
<1>13. ASSUME NEW w \in Worker, MarkSuccess(w) PROVE TypeOK'
  BY <1>13 DEF MarkSuccess, MarkJob, StorageError, Goto, dbVars, taskVars
<1>14. ASSUME NEW w \in Worker, MarkFailed(w) PROVE TypeOK'
  BY <1>14 DEF MarkFailed, MarkJob, StorageError, Goto, dbVars, taskVars
<1>15. ASSUME NEW w \in Worker, Release(w) PROVE TypeOK'
  BY <1>15 DEF Release, DropLocals, Goto, dbVars
<1>16. ASSUME NEW w \in Worker, MarkAborted(w) PROVE TypeOK'
  BY <1>16 DEF MarkAborted, MarkRunningFailed, DropLocals, StorageError,
               Goto, dbVars
<1>17. ASSUME NEW w \in Worker, Disconnect(w) PROVE TypeOK'
  BY ZenonT(60), <1>17 DEF Disconnect, DropLocals, Goto, dbVars
<1>18. ASSUME NEW w \in Worker, Panic(w) PROVE TypeOK'
  BY <1>18 DEF Panic, DropLocals, Goto, dbVars, taskVars
<1>19. CASE Crash
  BY <1>19 DEF Crash, dbVars
<1>20. CASE Restart
  BY <1>20 DEF Restart, MarkAllRunningFailed, taskVars
<1>21. CASE UNCHANGED vars
  BY <1>21 DEF vars
<1> HIDE DEF TypeOK, SourceStates, JobStates, PCs, Payloads, TriggerKinds
<1> QED
  BY <1>1, <1>2, <1>3, <1>4, <1>5, <1>6, <1>7, <1>8, <1>9, <1>10, <1>11,
     <1>12, <1>13, <1>14, <1>15, <1>16, <1>17, <1>18, <1>19, <1>20, <1>21
  DEF Next, Step

(***************************************************************************)
(* Type correctness of every reachable state.                              *)
(***************************************************************************)
THEOREM TypeCorrect == Spec => []TypeOK
BY TypeInit, TypeStep, PTL DEF Spec

----------------------------------------------------------------------------
(***************************************************************************)
(* The registry, pointwise: RegistryExact without the set comprehension,   *)
(* with the fact that a guard is always on a source.                       *)
(***************************************************************************)
RegInv ==
  /\ \A w \in Worker : Guarded(w) => wsrc[w] \in running /\ wsrc[w] \in Source
  /\ \A s \in running : \E w \in Worker : Guarded(w) /\ wsrc[w] = s
  /\ \A v, w \in Worker :
       Guarded(v) /\ Guarded(w) /\ wsrc[v] = wsrc[w] => v = w

(***************************************************************************)
(* The inductive form implies the registry property the runs check.        *)
(***************************************************************************)
LEMMA RegInvGivesExact == RegInv => RegistryExact
BY DEF RegInv, RegistryExact

(***************************************************************************)
(* At the start the registry is empty and nobody holds a guard.            *)
(***************************************************************************)
LEMMA RegInit == Init => RegInv
BY DEF Init, RegInv, Guarded

(***************************************************************************)
(* Every step keeps the registry exact.                                    *)
(***************************************************************************)
LEMMA RegStep ==
  TypeOK /\ RegInv /\ [Next]_vars => RegInv'
<1> SUFFICES ASSUME TypeOK, RegInv, [Next]_vars PROVE RegInv'
  OBVIOUS
<1> USE DEF TypeOK, RegInv, Guarded, PCs
<1>1. ASSUME NEW s \in Source, CreateSource(s) PROVE RegInv'
  BY <1>1 DEF CreateSource, taskVars
<1>2. ASSUME NEW s \in Source, DeleteSource(s) PROVE RegInv'
  BY <1>2 DEF DeleteSource, taskVars
<1>3. ASSUME NEW s \in Source, DeleteTemplate(s) PROVE RegInv'
  BY <1>3 DEF DeleteTemplate, taskVars
<1>4. ASSUME NEW w \in Worker, NEW s \in Source, NEW t \in Triggers,
             Acquire(w, s, t)
      PROVE RegInv'
  BY <1>4 DEF Acquire, Goto, dbVars
<1>5. ASSUME NEW w \in Worker, LoadSource(w) PROVE RegInv'
  BY <1>5 DEF LoadSource, Goto, dbVars, taskVars
<1>6. ASSUME NEW w \in Worker, TakeOver(w) PROVE RegInv'
  BY <1>6 DEF TakeOver, MarkRunningFailed, StorageError, Goto, dbVars, taskVars
<1>7. ASSUME NEW w \in Worker, InsertJob(w) PROVE RegInv'
  BY <1>7 DEF InsertJob, StorageError, Goto, dbVars
<1>8. ASSUME NEW w \in Worker, Fetch(w) PROVE RegInv'
  BY <1>8 DEF Fetch, Goto, dbVars
<1>9. ASSUME NEW w \in Worker, CheckTemplateSource(w) PROVE RegInv'
  BY <1>9 DEF CheckTemplateSource, Goto, dbVars, taskVars
<1>10. ASSUME NEW w \in Worker, SetTemplate(w) PROVE RegInv'
  BY <1>10 DEF SetTemplate, StorageError, Goto, dbVars, taskVars
<1>11. ASSUME NEW w \in Worker, EnsureSource(w) PROVE RegInv'
  BY <1>11 DEF EnsureSource, Goto, dbVars, taskVars
<1>12. ASSUME NEW w \in Worker, UpsertNodes(w) PROVE RegInv'
  BY <1>12 DEF UpsertNodes, StorageError, Goto, dbVars, taskVars
<1>13. ASSUME NEW w \in Worker, MarkSuccess(w) PROVE RegInv'
  BY <1>13 DEF MarkSuccess, MarkJob, StorageError, Goto, dbVars, taskVars
<1>14. ASSUME NEW w \in Worker, MarkFailed(w) PROVE RegInv'
  BY <1>14 DEF MarkFailed, MarkJob, StorageError, Goto, dbVars, taskVars
<1>15. ASSUME NEW w \in Worker, Release(w) PROVE RegInv'
  BY <1>15 DEF Release, DropLocals, Goto, dbVars
<1>16. ASSUME NEW w \in Worker, MarkAborted(w) PROVE RegInv'
  BY <1>16 DEF MarkAborted, MarkRunningFailed, DropLocals, StorageError, Goto, dbVars
<1>17. ASSUME NEW w \in Worker, Disconnect(w) PROVE RegInv'
  BY <1>17 DEF Disconnect, DropLocals, Goto, dbVars
<1>18. ASSUME NEW w \in Worker, Panic(w) PROVE RegInv'
  BY <1>18 DEF Panic, DropLocals, Goto, dbVars, taskVars
<1>19. CASE Crash
  BY <1>19 DEF Crash, dbVars
<1>20. CASE Restart
  BY <1>20 DEF Restart, MarkAllRunningFailed, taskVars
<1>21. CASE UNCHANGED vars
  BY <1>21 DEF vars
<1> HIDE DEF TypeOK, RegInv, Guarded, PCs
<1> QED
  BY <1>1, <1>2, <1>3, <1>4, <1>5, <1>6, <1>7, <1>8, <1>9, <1>10, <1>11,
     <1>12, <1>13, <1>14, <1>15, <1>16, <1>17, <1>18, <1>19, <1>20, <1>21
  DEF Next, Step

(***************************************************************************)
(* The registry is exact in every reachable state: one refresh per source, *)
(* and no leaked guard, for any faults.                                    *)
(***************************************************************************)
THEOREM RegistryCorrect == Spec => []RegistryExact
<1>1. Init => TypeOK /\ RegInv
  BY TypeInit, RegInit
<1>2. TypeOK /\ RegInv /\ [Next]_vars => (TypeOK /\ RegInv)'
  BY TypeStep, RegStep
<1> QED
  BY <1>1, <1>2, RegInvGivesExact, PTL DEF Spec

----------------------------------------------------------------------------
(***************************************************************************)
(* Rows and their owners: a row has a source exactly when it exists, the   *)
(* source of a row was created, and a call that fetches owns a row of its  *)
(* source that has no success yet.  No call is under way while the core is *)
(* down, and an aborted handler remembers its source.                      *)
(***************************************************************************)
RowInv ==
  /\ \A j \in Job : (job[j] = "unused") <=> (jobSource[j] = NoSource)
  /\ \A w \in Worker : pc[w] # "idle" => up /\ wsrc[w] \in Source
  /\ \A w \in Worker : Fetching(w) =>
       /\ wjob[w] \in Job
       /\ jobSource[wjob[w]] = wsrc[w]
       /\ job[wjob[w]] \in {"running", "failed", "deleted"}

(***************************************************************************)
(* At the start there is no row.                                           *)
(***************************************************************************)
LEMMA RowInit == Init => RowInv
BY NoSourceAssumption DEF Init, RowInv, Fetching

(***************************************************************************)
(* Every step keeps rows and owners matched.                               *)
(***************************************************************************)
LEMMA RowStep ==
  TypeOK /\ RegInv /\ RowInv /\ [Next]_vars => RowInv'
<1> SUFFICES ASSUME TypeOK, RegInv, RowInv, [Next]_vars PROVE RowInv'
  OBVIOUS
<1> USE NoSourceAssumption, NoJobAssumption DEF TypeOK, RegInv, RowInv, Guarded, Fetching, PCs, JobStates
<1>1. ASSUME NEW s \in Source, CreateSource(s) PROVE RowInv'
  BY <1>1 DEF CreateSource, taskVars
<1>2. ASSUME NEW s \in Source, DeleteSource(s) PROVE RowInv'
  BY <1>2 DEF DeleteSource, taskVars
<1>3. ASSUME NEW s \in Source, DeleteTemplate(s) PROVE RowInv'
  BY <1>3 DEF DeleteTemplate, taskVars
<1>4. ASSUME NEW w \in Worker, NEW s \in Source, NEW t \in Triggers,
             Acquire(w, s, t)
      PROVE RowInv'
  BY <1>4 DEF Acquire, Goto, dbVars
<1>5. ASSUME NEW w \in Worker, LoadSource(w) PROVE RowInv'
  BY <1>5 DEF LoadSource, Goto, dbVars, taskVars
<1>6. ASSUME NEW w \in Worker, TakeOver(w) PROVE RowInv'
  BY <1>6 DEF TakeOver, MarkRunningFailed, StorageError, Goto, dbVars, taskVars
<1>7. ASSUME NEW w \in Worker, InsertJob(w) PROVE RowInv'
  BY <1>7 DEF InsertJob, StorageError, Goto, dbVars
<1>8. ASSUME NEW w \in Worker, Fetch(w) PROVE RowInv'
  BY <1>8 DEF Fetch, Goto, dbVars
<1>9. ASSUME NEW w \in Worker, CheckTemplateSource(w) PROVE RowInv'
  BY <1>9 DEF CheckTemplateSource, Goto, dbVars, taskVars
<1>10. ASSUME NEW w \in Worker, SetTemplate(w) PROVE RowInv'
  BY <1>10 DEF SetTemplate, StorageError, Goto, dbVars, taskVars
<1>11. ASSUME NEW w \in Worker, EnsureSource(w) PROVE RowInv'
  BY <1>11 DEF EnsureSource, Goto, dbVars, taskVars
<1>12. ASSUME NEW w \in Worker, UpsertNodes(w) PROVE RowInv'
  BY <1>12 DEF UpsertNodes, StorageError, Goto, dbVars, taskVars
<1>13. ASSUME NEW w \in Worker, MarkSuccess(w) PROVE RowInv'
  BY <1>13 DEF MarkSuccess, MarkJob, StorageError, Goto, dbVars, taskVars
<1>14. ASSUME NEW w \in Worker, MarkFailed(w) PROVE RowInv'
  BY <1>14 DEF MarkFailed, MarkJob, StorageError, Goto, dbVars, taskVars
<1>15. ASSUME NEW w \in Worker, Release(w) PROVE RowInv'
  BY <1>15 DEF Release, DropLocals, Goto, dbVars
<1>16. ASSUME NEW w \in Worker, MarkAborted(w) PROVE RowInv'
  BY <1>16 DEF MarkAborted, MarkRunningFailed, DropLocals, StorageError, Goto, dbVars
<1>17. ASSUME NEW w \in Worker, Disconnect(w) PROVE RowInv'
  BY <1>17 DEF Disconnect, DropLocals, Goto, dbVars
<1>18. ASSUME NEW w \in Worker, Panic(w) PROVE RowInv'
  BY <1>18 DEF Panic, DropLocals, Goto, dbVars, taskVars
<1>19. CASE Crash
  BY <1>19 DEF Crash, dbVars
<1>20. CASE Restart
  BY <1>20 DEF Restart, MarkAllRunningFailed, taskVars
<1>21. CASE UNCHANGED vars
  BY <1>21 DEF vars
<1> HIDE NoSourceAssumption, NoJobAssumption DEF TypeOK, RegInv, RowInv, Guarded, Fetching, PCs, JobStates
<1> QED
  BY <1>1, <1>2, <1>3, <1>4, <1>5, <1>6, <1>7, <1>8, <1>9, <1>10, <1>11,
     <1>12, <1>13, <1>14, <1>15, <1>16, <1>17, <1>18, <1>19, <1>20, <1>21
  DEF Next, Step

(***************************************************************************)
(* A deleted source has neither nodes nor rows, whatever finishes late.    *)
(***************************************************************************)
LEMMA DeletedInit == Init => NothingForDeletedSource
BY DEF Init, NothingForDeletedSource

(***************************************************************************)
(* Every step keeps it so.                                                 *)
(***************************************************************************)
LEMMA DeletedStep ==
  TypeOK /\ RowInv /\ NothingForDeletedSource /\ [Next]_vars => NothingForDeletedSource'
<1> SUFFICES ASSUME TypeOK, RowInv, NothingForDeletedSource, [Next]_vars PROVE NothingForDeletedSource'
  OBVIOUS
<1> USE NoSourceAssumption DEF TypeOK, RowInv, NothingForDeletedSource, Fetching, PCs, JobStates, SourceStates
<1>1. ASSUME NEW s \in Source, CreateSource(s) PROVE NothingForDeletedSource'
  BY <1>1 DEF CreateSource, taskVars
<1>2. ASSUME NEW s \in Source, DeleteSource(s) PROVE NothingForDeletedSource'
  BY <1>2 DEF DeleteSource, taskVars
<1>3. ASSUME NEW s \in Source, DeleteTemplate(s) PROVE NothingForDeletedSource'
  BY <1>3 DEF DeleteTemplate, taskVars
<1>4. ASSUME NEW w \in Worker, NEW s \in Source, NEW t \in Triggers,
             Acquire(w, s, t)
      PROVE NothingForDeletedSource'
  BY <1>4 DEF Acquire, Goto, dbVars
<1>5. ASSUME NEW w \in Worker, LoadSource(w) PROVE NothingForDeletedSource'
  BY <1>5 DEF LoadSource, Goto, dbVars, taskVars
<1>6. ASSUME NEW w \in Worker, TakeOver(w) PROVE NothingForDeletedSource'
  BY <1>6 DEF TakeOver, MarkRunningFailed, StorageError, Goto, dbVars, taskVars
<1>7. ASSUME NEW w \in Worker, InsertJob(w) PROVE NothingForDeletedSource'
  BY <1>7 DEF InsertJob, StorageError, Goto, dbVars
<1>8. ASSUME NEW w \in Worker, Fetch(w) PROVE NothingForDeletedSource'
  BY <1>8 DEF Fetch, Goto, dbVars
<1>9. ASSUME NEW w \in Worker, CheckTemplateSource(w) PROVE NothingForDeletedSource'
  BY <1>9 DEF CheckTemplateSource, Goto, dbVars, taskVars
<1>10. ASSUME NEW w \in Worker, SetTemplate(w) PROVE NothingForDeletedSource'
  BY <1>10 DEF SetTemplate, StorageError, Goto, dbVars, taskVars
<1>11. ASSUME NEW w \in Worker, EnsureSource(w) PROVE NothingForDeletedSource'
  BY <1>11 DEF EnsureSource, Goto, dbVars, taskVars
<1>12. ASSUME NEW w \in Worker, UpsertNodes(w) PROVE NothingForDeletedSource'
  BY <1>12 DEF UpsertNodes, StorageError, Goto, dbVars, taskVars
<1>13. ASSUME NEW w \in Worker, MarkSuccess(w) PROVE NothingForDeletedSource'
  BY <1>13 DEF MarkSuccess, MarkJob, StorageError, Goto, dbVars, taskVars
<1>14. ASSUME NEW w \in Worker, MarkFailed(w) PROVE NothingForDeletedSource'
  BY <1>14 DEF MarkFailed, MarkJob, StorageError, Goto, dbVars, taskVars
<1>15. ASSUME NEW w \in Worker, Release(w) PROVE NothingForDeletedSource'
  BY <1>15 DEF Release, DropLocals, Goto, dbVars
<1>16. ASSUME NEW w \in Worker, MarkAborted(w) PROVE NothingForDeletedSource'
  BY <1>16 DEF MarkAborted, MarkRunningFailed, DropLocals, StorageError, Goto, dbVars
<1>17. ASSUME NEW w \in Worker, Disconnect(w) PROVE NothingForDeletedSource'
  BY <1>17 DEF Disconnect, DropLocals, Goto, dbVars
<1>18. ASSUME NEW w \in Worker, Panic(w) PROVE NothingForDeletedSource'
  BY <1>18 DEF Panic, DropLocals, Goto, dbVars, taskVars
<1>19. CASE Crash
  BY <1>19 DEF Crash, dbVars
<1>20. CASE Restart
  BY <1>20 DEF Restart, MarkAllRunningFailed, taskVars
<1>21. CASE UNCHANGED vars
  BY <1>21 DEF vars
<1> HIDE NoSourceAssumption DEF TypeOK, RowInv, NothingForDeletedSource, Fetching, PCs, JobStates, SourceStates
<1> QED
  BY <1>1, <1>2, <1>3, <1>4, <1>5, <1>6, <1>7, <1>8, <1>9, <1>10, <1>11,
     <1>12, <1>13, <1>14, <1>15, <1>16, <1>17, <1>18, <1>19, <1>20, <1>21
  DEF Next, Step

(***************************************************************************)
(* The takeover: before its insert a call has left no row of its source    *)
(* running, and after it no row but its own.                               *)
(***************************************************************************)
TakenOver ==
  "storage" \notin Faults =>
    \A w \in Worker, j \in Job :
      job[j] = "running" /\ jobSource[j] = wsrc[w] =>
        pc[w] # "insert" /\ (Fetching(w) => j = wjob[w])

(***************************************************************************)
(* At the start no row is running.                                         *)
(***************************************************************************)
LEMMA TakenOverInit == Init => TakenOver /\ OneRunningRow
BY DEF Init, TakenOver, OneRunningRow

(***************************************************************************)
(* Every step keeps both facts.                                            *)
(***************************************************************************)
LEMMA TakenOverStep ==
  TypeOK /\ RegInv /\ RowInv /\ TakenOver /\ OneRunningRow /\ [Next]_vars => (TakenOver /\ OneRunningRow)'
<1> SUFFICES ASSUME TypeOK, RegInv, RowInv, TakenOver, OneRunningRow, [Next]_vars PROVE (TakenOver /\ OneRunningRow)'
  OBVIOUS
<1> USE NoSourceAssumption DEF TypeOK, RegInv, RowInv, TakenOver, OneRunningRow, Guarded, Fetching, PCs, JobStates
<1>1. ASSUME NEW s \in Source, CreateSource(s) PROVE (TakenOver /\ OneRunningRow)'
  BY <1>1 DEF CreateSource, taskVars
<1>2. ASSUME NEW s \in Source, DeleteSource(s) PROVE (TakenOver /\ OneRunningRow)'
  BY <1>2 DEF DeleteSource, taskVars
<1>3. ASSUME NEW s \in Source, DeleteTemplate(s) PROVE (TakenOver /\ OneRunningRow)'
  BY <1>3 DEF DeleteTemplate, taskVars
<1>4. ASSUME NEW w \in Worker, NEW s \in Source, NEW t \in Triggers,
             Acquire(w, s, t)
      PROVE (TakenOver /\ OneRunningRow)'
  BY <1>4 DEF Acquire, Goto, dbVars
<1>5. ASSUME NEW w \in Worker, LoadSource(w) PROVE (TakenOver /\ OneRunningRow)'
  BY <1>5 DEF LoadSource, Goto, dbVars, taskVars
<1>6. ASSUME NEW w \in Worker, TakeOver(w) PROVE (TakenOver /\ OneRunningRow)'
  BY <1>6 DEF TakeOver, MarkRunningFailed, StorageError, Goto, dbVars, taskVars
<1>7. ASSUME NEW w \in Worker, InsertJob(w) PROVE (TakenOver /\ OneRunningRow)'
  BY <1>7 DEF InsertJob, StorageError, Goto, dbVars
<1>8. ASSUME NEW w \in Worker, Fetch(w) PROVE (TakenOver /\ OneRunningRow)'
  BY <1>8 DEF Fetch, Goto, dbVars
<1>9. ASSUME NEW w \in Worker, CheckTemplateSource(w) PROVE (TakenOver /\ OneRunningRow)'
  BY <1>9 DEF CheckTemplateSource, Goto, dbVars, taskVars
<1>10. ASSUME NEW w \in Worker, SetTemplate(w) PROVE (TakenOver /\ OneRunningRow)'
  BY <1>10 DEF SetTemplate, StorageError, Goto, dbVars, taskVars
<1>11. ASSUME NEW w \in Worker, EnsureSource(w) PROVE (TakenOver /\ OneRunningRow)'
  BY <1>11 DEF EnsureSource, Goto, dbVars, taskVars
<1>12. ASSUME NEW w \in Worker, UpsertNodes(w) PROVE (TakenOver /\ OneRunningRow)'
  BY <1>12 DEF UpsertNodes, StorageError, Goto, dbVars, taskVars
<1>13. ASSUME NEW w \in Worker, MarkSuccess(w) PROVE (TakenOver /\ OneRunningRow)'
  BY <1>13 DEF MarkSuccess, MarkJob, StorageError, Goto, dbVars, taskVars
<1>14. ASSUME NEW w \in Worker, MarkFailed(w) PROVE (TakenOver /\ OneRunningRow)'
  BY <1>14 DEF MarkFailed, MarkJob, StorageError, Goto, dbVars, taskVars
<1>15. ASSUME NEW w \in Worker, Release(w) PROVE (TakenOver /\ OneRunningRow)'
  BY <1>15 DEF Release, DropLocals, Goto, dbVars
<1>16. ASSUME NEW w \in Worker, MarkAborted(w) PROVE (TakenOver /\ OneRunningRow)'
  BY <1>16 DEF MarkAborted, MarkRunningFailed, DropLocals, StorageError, Goto, dbVars
<1>17. ASSUME NEW w \in Worker, Disconnect(w) PROVE (TakenOver /\ OneRunningRow)'
  BY <1>17 DEF Disconnect, DropLocals, Goto, dbVars
<1>18. ASSUME NEW w \in Worker, Panic(w) PROVE (TakenOver /\ OneRunningRow)'
  BY <1>18 DEF Panic, DropLocals, Goto, dbVars, taskVars
<1>19. CASE Crash
  BY <1>19 DEF Crash, dbVars
<1>20. CASE Restart
  BY <1>20 DEF Restart, MarkAllRunningFailed, taskVars
<1>21. CASE UNCHANGED vars
  BY <1>21 DEF vars
<1> HIDE NoSourceAssumption DEF TypeOK, RegInv, RowInv, TakenOver, OneRunningRow, Guarded, Fetching, PCs, JobStates
<1> QED
  BY <1>1, <1>2, <1>3, <1>4, <1>5, <1>6, <1>7, <1>8, <1>9, <1>10, <1>11,
     <1>12, <1>13, <1>14, <1>15, <1>16, <1>17, <1>18, <1>19, <1>20, <1>21
  DEF Next, Step

(***************************************************************************)
(* What a call that is about to report success has written: the template   *)
(* of its source is its own or none, the nodes are its own, unless the     *)
(* source is gone.                                                         *)
(***************************************************************************)
CacheInv ==
  \A w \in Worker :
    /\ pc[w] \in {"cache", "upsert", "success"}
    /\ src[wsrc[w]] # "deleted"
    => /\ template[wsrc[w]] \in {wjob[w], NoJob}
       /\ pc[w] = "success" => nodes[wsrc[w]] = wjob[w]

(***************************************************************************)
(* At the start no call is near its end.                                   *)
(***************************************************************************)
LEMMA CacheInit == Init => CacheInv
BY DEF Init, CacheInv

(***************************************************************************)
(* Every step keeps the writes of a call that nears its end.               *)
(***************************************************************************)
LEMMA CacheStep ==
  TypeOK /\ RegInv /\ RowInv /\ CacheInv /\ [Next]_vars => CacheInv'
<1> SUFFICES ASSUME TypeOK, RegInv, RowInv, CacheInv, [Next]_vars PROVE CacheInv'
  OBVIOUS
<1> USE DEF TypeOK, RegInv, RowInv, CacheInv, Guarded, Fetching, PCs, JobStates, SourceStates
<1>1. ASSUME NEW s \in Source, CreateSource(s) PROVE CacheInv'
  BY <1>1 DEF CreateSource, taskVars
<1>2. ASSUME NEW s \in Source, DeleteSource(s) PROVE CacheInv'
  BY <1>2 DEF DeleteSource, taskVars
<1>3. ASSUME NEW s \in Source, DeleteTemplate(s) PROVE CacheInv'
  BY <1>3 DEF DeleteTemplate, taskVars
<1>4. ASSUME NEW w \in Worker, NEW s \in Source, NEW t \in Triggers,
             Acquire(w, s, t)
      PROVE CacheInv'
  BY <1>4 DEF Acquire, Goto, dbVars
<1>5. ASSUME NEW w \in Worker, LoadSource(w) PROVE CacheInv'
  BY <1>5 DEF LoadSource, Goto, dbVars, taskVars
<1>6. ASSUME NEW w \in Worker, TakeOver(w) PROVE CacheInv'
  BY <1>6 DEF TakeOver, MarkRunningFailed, StorageError, Goto, dbVars, taskVars
<1>7. ASSUME NEW w \in Worker, InsertJob(w) PROVE CacheInv'
  BY <1>7 DEF InsertJob, StorageError, Goto, dbVars
<1>8. ASSUME NEW w \in Worker, Fetch(w) PROVE CacheInv'
  BY <1>8 DEF Fetch, Goto, dbVars
<1>9. ASSUME NEW w \in Worker, CheckTemplateSource(w) PROVE CacheInv'
  BY <1>9 DEF CheckTemplateSource, Goto, dbVars, taskVars
<1>10. ASSUME NEW w \in Worker, SetTemplate(w) PROVE CacheInv'
  BY <1>10 DEF SetTemplate, StorageError, Goto, dbVars, taskVars
<1>11. ASSUME NEW w \in Worker, EnsureSource(w) PROVE CacheInv'
  BY <1>11 DEF EnsureSource, Goto, dbVars, taskVars
<1>12. ASSUME NEW w \in Worker, UpsertNodes(w) PROVE CacheInv'
  BY <1>12 DEF UpsertNodes, StorageError, Goto, dbVars, taskVars
<1>13. ASSUME NEW w \in Worker, MarkSuccess(w) PROVE CacheInv'
  BY <1>13 DEF MarkSuccess, MarkJob, StorageError, Goto, dbVars, taskVars
<1>14. ASSUME NEW w \in Worker, MarkFailed(w) PROVE CacheInv'
  BY <1>14 DEF MarkFailed, MarkJob, StorageError, Goto, dbVars, taskVars
<1>15. ASSUME NEW w \in Worker, Release(w) PROVE CacheInv'
  BY <1>15 DEF Release, DropLocals, Goto, dbVars
<1>16. ASSUME NEW w \in Worker, MarkAborted(w) PROVE CacheInv'
  BY <1>16 DEF MarkAborted, MarkRunningFailed, DropLocals, StorageError, Goto, dbVars
<1>17. ASSUME NEW w \in Worker, Disconnect(w) PROVE CacheInv'
  BY <1>17 DEF Disconnect, DropLocals, Goto, dbVars
<1>18. ASSUME NEW w \in Worker, Panic(w) PROVE CacheInv'
  BY <1>18 DEF Panic, DropLocals, Goto, dbVars, taskVars
<1>19. CASE Crash
  BY <1>19 DEF Crash, dbVars
<1>20. CASE Restart
  BY <1>20 DEF Restart, MarkAllRunningFailed, taskVars
<1>21. CASE UNCHANGED vars
  BY <1>21 DEF vars
<1> HIDE DEF TypeOK, RegInv, RowInv, CacheInv, Guarded, Fetching, PCs, JobStates, SourceStates
<1> QED
  BY <1>1, <1>2, <1>3, <1>4, <1>5, <1>6, <1>7, <1>8, <1>9, <1>10, <1>11,
     <1>12, <1>13, <1>14, <1>15, <1>16, <1>17, <1>18, <1>19, <1>20, <1>21
  DEF Next, Step

----------------------------------------------------------------------------
(***************************************************************************)
(* The inductive invariant, and that every reachable state satisfies it.   *)
(***************************************************************************)
IInv ==
  /\ TypeOK
  /\ RegInv
  /\ RowInv
  /\ NothingForDeletedSource
  /\ TakenOver
  /\ OneRunningRow
  /\ CacheInv

(***************************************************************************)
(* The initial state satisfies every conjunct.                             *)
(***************************************************************************)
LEMMA IInvInit == Init => IInv
BY TypeInit, RegInit, RowInit, DeletedInit, TakenOverInit, CacheInit
DEF IInv

(***************************************************************************)
(* Every step keeps every conjunct, each by its own lemma.                 *)
(***************************************************************************)
LEMMA IInvStep == IInv /\ [Next]_vars => IInv'
BY TypeStep, RegStep, RowStep, DeletedStep, TakenOverStep, CacheStep
DEF IInv

(***************************************************************************)
(* The inductive invariant holds in every reachable state.                 *)
(***************************************************************************)
THEOREM Invariance == Spec => []IInv
BY IInvInit, IInvStep, PTL DEF Spec

(***************************************************************************)
(* At most one running row per source while the database answers.          *)
(***************************************************************************)
THEOREM TakeOverCorrect == Spec => []OneRunningRow
<1>1. IInv => OneRunningRow
  BY DEF IInv
<1> QED
  BY <1>1, Invariance, PTL

(***************************************************************************)
(* Nothing is ever cached, or recorded, for a deleted source.              *)
(***************************************************************************)
THEOREM DeletionCorrect == Spec => []NothingForDeletedSource
<1>1. IInv => NothingForDeletedSource
  BY DEF IInv
<1> QED
  BY <1>1, Invariance, PTL

(***************************************************************************)
(* The steps that SuccessMeansCached and VerdictsStand allow.              *)
(***************************************************************************)
CachedStep ==
  \A j \in Job : job[j] # "success" /\ job'[j] = "success" =>
    /\ nodes'[jobSource[j]] = j
    /\ template'[jobSource[j]] \in {j, NoJob}

VerdictStep ==
  \A j \in Job :
    /\ job[j] = "success" => job'[j] \in {"success", "deleted"}
    /\ job[j] = "failed" /\ job'[j] # "failed" =>
         \/ job'[j] = "deleted"
         \/ /\ job'[j] = "success"
            /\ \E w \in Worker : wjob[w] = j /\ wsrc[w] \in running

(***************************************************************************)
(* Only a call whose writes are in place reports success.                  *)
(***************************************************************************)
LEMMA CachedStepHolds ==
  IInv /\ [Next]_vars => CachedStep
<1> SUFFICES ASSUME IInv, [Next]_vars PROVE CachedStep
  OBVIOUS
<1> USE DEF IInv, TypeOK, RegInv, RowInv, NothingForDeletedSource, CacheInv,
           CachedStep, Guarded, Fetching, PCs, JobStates, SourceStates
<1>1. ASSUME NEW s \in Source, CreateSource(s) PROVE CachedStep
  BY <1>1 DEF CreateSource, taskVars
<1>2. ASSUME NEW s \in Source, DeleteSource(s) PROVE CachedStep
  BY <1>2 DEF DeleteSource, taskVars
<1>3. ASSUME NEW s \in Source, DeleteTemplate(s) PROVE CachedStep
  BY <1>3 DEF DeleteTemplate, taskVars
<1>4. ASSUME NEW w \in Worker, NEW s \in Source, NEW t \in Triggers,
             Acquire(w, s, t)
      PROVE CachedStep
  BY <1>4 DEF Acquire, Goto, dbVars
<1>5. ASSUME NEW w \in Worker, LoadSource(w) PROVE CachedStep
  BY <1>5 DEF LoadSource, Goto, dbVars, taskVars
<1>6. ASSUME NEW w \in Worker, TakeOver(w) PROVE CachedStep
  BY <1>6 DEF TakeOver, MarkRunningFailed, StorageError, Goto, dbVars, taskVars
<1>7. ASSUME NEW w \in Worker, InsertJob(w) PROVE CachedStep
  BY <1>7 DEF InsertJob, StorageError, Goto, dbVars
<1>8. ASSUME NEW w \in Worker, Fetch(w) PROVE CachedStep
  BY <1>8 DEF Fetch, Goto, dbVars
<1>9. ASSUME NEW w \in Worker, CheckTemplateSource(w) PROVE CachedStep
  BY <1>9 DEF CheckTemplateSource, Goto, dbVars, taskVars
<1>10. ASSUME NEW w \in Worker, SetTemplate(w) PROVE CachedStep
  BY <1>10 DEF SetTemplate, StorageError, Goto, dbVars, taskVars
<1>11. ASSUME NEW w \in Worker, EnsureSource(w) PROVE CachedStep
  BY <1>11 DEF EnsureSource, Goto, dbVars, taskVars
<1>12. ASSUME NEW w \in Worker, UpsertNodes(w) PROVE CachedStep
  BY <1>12 DEF UpsertNodes, StorageError, Goto, dbVars, taskVars
<1>13. ASSUME NEW w \in Worker, MarkSuccess(w) PROVE CachedStep
  BY <1>13 DEF MarkSuccess, MarkJob, StorageError, Goto, dbVars, taskVars
<1>14. ASSUME NEW w \in Worker, MarkFailed(w) PROVE CachedStep
  BY <1>14 DEF MarkFailed, MarkJob, StorageError, Goto, dbVars, taskVars
<1>15. ASSUME NEW w \in Worker, Release(w) PROVE CachedStep
  BY <1>15 DEF Release, DropLocals, Goto, dbVars
<1>16. ASSUME NEW w \in Worker, MarkAborted(w) PROVE CachedStep
  BY <1>16 DEF MarkAborted, MarkRunningFailed, DropLocals, StorageError, Goto, dbVars
<1>17. ASSUME NEW w \in Worker, Disconnect(w) PROVE CachedStep
  BY <1>17 DEF Disconnect, DropLocals, Goto, dbVars
<1>18. ASSUME NEW w \in Worker, Panic(w) PROVE CachedStep
  BY <1>18 DEF Panic, DropLocals, Goto, dbVars, taskVars
<1>19. CASE Crash
  BY <1>19 DEF Crash, dbVars
<1>20. CASE Restart
  BY <1>20 DEF Restart, MarkAllRunningFailed, taskVars
<1>21. CASE UNCHANGED vars
  BY <1>21 DEF vars
<1> HIDE DEF IInv, TypeOK, RegInv, RowInv, NothingForDeletedSource, CacheInv,
           CachedStep, Guarded, Fetching, PCs, JobStates, SourceStates
<1> QED
  BY <1>1, <1>2, <1>3, <1>4, <1>5, <1>6, <1>7, <1>8, <1>9, <1>10, <1>11,
     <1>12, <1>13, <1>14, <1>15, <1>16, <1>17, <1>18, <1>19, <1>20, <1>21
  DEF Next, Step

(***************************************************************************)
(* No step overturns a verdict in a way VerdictsStand forbids.             *)
(***************************************************************************)
LEMMA VerdictStepHolds ==
  IInv /\ [Next]_vars => VerdictStep
<1> SUFFICES ASSUME IInv, [Next]_vars PROVE VerdictStep
  OBVIOUS
<1> USE DEF IInv, TypeOK, RegInv, RowInv, VerdictStep, Guarded, Fetching,
           PCs, JobStates
<1>1. ASSUME NEW s \in Source, CreateSource(s) PROVE VerdictStep
  BY <1>1 DEF CreateSource, taskVars
<1>2. ASSUME NEW s \in Source, DeleteSource(s) PROVE VerdictStep
  BY <1>2 DEF DeleteSource, taskVars
<1>3. ASSUME NEW s \in Source, DeleteTemplate(s) PROVE VerdictStep
  BY <1>3 DEF DeleteTemplate, taskVars
<1>4. ASSUME NEW w \in Worker, NEW s \in Source, NEW t \in Triggers,
             Acquire(w, s, t)
      PROVE VerdictStep
  BY <1>4 DEF Acquire, Goto, dbVars
<1>5. ASSUME NEW w \in Worker, LoadSource(w) PROVE VerdictStep
  BY <1>5 DEF LoadSource, Goto, dbVars, taskVars
<1>6. ASSUME NEW w \in Worker, TakeOver(w) PROVE VerdictStep
  BY <1>6 DEF TakeOver, MarkRunningFailed, StorageError, Goto, dbVars, taskVars
<1>7. ASSUME NEW w \in Worker, InsertJob(w) PROVE VerdictStep
  BY <1>7 DEF InsertJob, StorageError, Goto, dbVars
<1>8. ASSUME NEW w \in Worker, Fetch(w) PROVE VerdictStep
  BY <1>8 DEF Fetch, Goto, dbVars
<1>9. ASSUME NEW w \in Worker, CheckTemplateSource(w) PROVE VerdictStep
  BY <1>9 DEF CheckTemplateSource, Goto, dbVars, taskVars
<1>10. ASSUME NEW w \in Worker, SetTemplate(w) PROVE VerdictStep
  BY <1>10 DEF SetTemplate, StorageError, Goto, dbVars, taskVars
<1>11. ASSUME NEW w \in Worker, EnsureSource(w) PROVE VerdictStep
  BY <1>11 DEF EnsureSource, Goto, dbVars, taskVars
<1>12. ASSUME NEW w \in Worker, UpsertNodes(w) PROVE VerdictStep
  BY <1>12 DEF UpsertNodes, StorageError, Goto, dbVars, taskVars
<1>13. ASSUME NEW w \in Worker, MarkSuccess(w) PROVE VerdictStep
  BY <1>13 DEF MarkSuccess, MarkJob, StorageError, Goto, dbVars, taskVars
<1>14. ASSUME NEW w \in Worker, MarkFailed(w) PROVE VerdictStep
  BY <1>14 DEF MarkFailed, MarkJob, StorageError, Goto, dbVars, taskVars
<1>15. ASSUME NEW w \in Worker, Release(w) PROVE VerdictStep
  BY <1>15 DEF Release, DropLocals, Goto, dbVars
<1>16. ASSUME NEW w \in Worker, MarkAborted(w) PROVE VerdictStep
  BY <1>16 DEF MarkAborted, MarkRunningFailed, DropLocals, StorageError, Goto, dbVars
<1>17. ASSUME NEW w \in Worker, Disconnect(w) PROVE VerdictStep
  BY <1>17 DEF Disconnect, DropLocals, Goto, dbVars
<1>18. ASSUME NEW w \in Worker, Panic(w) PROVE VerdictStep
  BY <1>18 DEF Panic, DropLocals, Goto, dbVars, taskVars
<1>19. CASE Crash
  BY <1>19 DEF Crash, dbVars
<1>20. CASE Restart
  BY <1>20 DEF Restart, MarkAllRunningFailed, taskVars
<1>21. CASE UNCHANGED vars
  BY <1>21 DEF vars
<1> HIDE DEF IInv, TypeOK, RegInv, RowInv, VerdictStep, Guarded, Fetching,
           PCs, JobStates
<1> QED
  BY <1>1, <1>2, <1>3, <1>4, <1>5, <1>6, <1>7, <1>8, <1>9, <1>10, <1>11,
     <1>12, <1>13, <1>14, <1>15, <1>16, <1>17, <1>18, <1>19, <1>20, <1>21
  DEF Next, Step

(***************************************************************************)
(* The steps that OnlyAbortedHandlerFailsWork allows.                      *)
(***************************************************************************)
AbortedStep ==
  \A w \in Worker :
    /\ Fetching(w) /\ pc'[w] = pc[w]
    /\ job[wjob[w]] = "running" /\ job'[wjob[w]] = "failed"
    => \E v \in Worker : pc[v] = "aborted" /\ wsrc[v] = wsrc[w]

(***************************************************************************)
(* A takeover meets no work in progress, since its source is guarded, and  *)
(* a restart none at all: only an aborted handler does.                    *)
(***************************************************************************)
LEMMA AbortedStepHolds ==
  IInv /\ [Next]_vars => AbortedStep
<1> SUFFICES ASSUME IInv, [Next]_vars PROVE AbortedStep
  OBVIOUS
<1> USE DEF IInv, TypeOK, RegInv, RowInv, TakenOver, AbortedStep, Guarded, Fetching,
           PCs, JobStates
<1>1. ASSUME NEW s \in Source, CreateSource(s) PROVE AbortedStep
  BY <1>1 DEF CreateSource, taskVars
<1>2. ASSUME NEW s \in Source, DeleteSource(s) PROVE AbortedStep
  BY <1>2 DEF DeleteSource, taskVars
<1>3. ASSUME NEW s \in Source, DeleteTemplate(s) PROVE AbortedStep
  BY <1>3 DEF DeleteTemplate, taskVars
<1>4. ASSUME NEW w \in Worker, NEW s \in Source, NEW t \in Triggers,
             Acquire(w, s, t)
      PROVE AbortedStep
  BY <1>4 DEF Acquire, Goto, dbVars
<1>5. ASSUME NEW w \in Worker, LoadSource(w) PROVE AbortedStep
  BY <1>5 DEF LoadSource, Goto, dbVars, taskVars
<1>6. ASSUME NEW w \in Worker, TakeOver(w) PROVE AbortedStep
  BY <1>6 DEF TakeOver, MarkRunningFailed, StorageError, Goto, dbVars, taskVars
<1>7. ASSUME NEW w \in Worker, InsertJob(w) PROVE AbortedStep
  BY <1>7 DEF InsertJob, StorageError, Goto, dbVars
<1>8. ASSUME NEW w \in Worker, Fetch(w) PROVE AbortedStep
  BY <1>8 DEF Fetch, Goto, dbVars
<1>9. ASSUME NEW w \in Worker, CheckTemplateSource(w) PROVE AbortedStep
  BY <1>9 DEF CheckTemplateSource, Goto, dbVars, taskVars
<1>10. ASSUME NEW w \in Worker, SetTemplate(w) PROVE AbortedStep
  BY <1>10 DEF SetTemplate, StorageError, Goto, dbVars, taskVars
<1>11. ASSUME NEW w \in Worker, EnsureSource(w) PROVE AbortedStep
  BY <1>11 DEF EnsureSource, Goto, dbVars, taskVars
<1>12. ASSUME NEW w \in Worker, UpsertNodes(w) PROVE AbortedStep
  BY <1>12 DEF UpsertNodes, StorageError, Goto, dbVars, taskVars
<1>13. ASSUME NEW w \in Worker, MarkSuccess(w) PROVE AbortedStep
  BY <1>13 DEF MarkSuccess, MarkJob, StorageError, Goto, dbVars, taskVars
<1>14. ASSUME NEW w \in Worker, MarkFailed(w) PROVE AbortedStep
  BY <1>14 DEF MarkFailed, MarkJob, StorageError, Goto, dbVars, taskVars
<1>15. ASSUME NEW w \in Worker, Release(w) PROVE AbortedStep
  BY <1>15 DEF Release, DropLocals, Goto, dbVars
<1>16. ASSUME NEW w \in Worker, MarkAborted(w) PROVE AbortedStep
  BY <1>16 DEF MarkAborted, MarkRunningFailed, DropLocals, StorageError, Goto, dbVars
<1>17. ASSUME NEW w \in Worker, Disconnect(w) PROVE AbortedStep
  BY <1>17 DEF Disconnect, DropLocals, Goto, dbVars
<1>18. ASSUME NEW w \in Worker, Panic(w) PROVE AbortedStep
  BY <1>18 DEF Panic, DropLocals, Goto, dbVars, taskVars
<1>19. CASE Crash
  BY <1>19 DEF Crash, dbVars
<1>20. CASE Restart
  BY <1>20 DEF Restart, MarkAllRunningFailed, taskVars
<1>21. CASE UNCHANGED vars
  BY <1>21 DEF vars
<1> HIDE DEF IInv, TypeOK, RegInv, RowInv, TakenOver, AbortedStep, Guarded, Fetching,
           PCs, JobStates
<1> QED
  BY <1>1, <1>2, <1>3, <1>4, <1>5, <1>6, <1>7, <1>8, <1>9, <1>10, <1>11,
     <1>12, <1>13, <1>14, <1>15, <1>16, <1>17, <1>18, <1>19, <1>20, <1>21
  DEF Next, Step

(***************************************************************************)
(* The steps that NoZombieRow allows.                                      *)
(***************************************************************************)
KeeperStep ==
  \A j \in Job :
    /\ job[j] = "running" => RowIsAttended(j)
    /\ job'[j] = "running"
    => \/ RowIsAttended(j)'
       \/ \E w \in Worker :
            /\ Keeps(w, j)
            /\ \/ /\ pc[w] = "fetch" /\ pc'[w] = "idle"
                  /\ trig[w] = "manual-profile" \/ ~ attached[w]
               \/ /\ "storage" \in Faults
                  /\ pc[w] \in {"success", "failed", "aborted"}

(***************************************************************************)
(* A row's keeper goes only after its verdict or in one of these ways: the *)
(* row of a call that ends is not running, and a call that panics under a  *)
(* waiting handler leaves the handler for its source.                      *)
(***************************************************************************)
LEMMA KeeperStepHolds ==
  IInv /\ [Next]_vars => KeeperStep
<1> SUFFICES ASSUME IInv, [Next]_vars PROVE KeeperStep
  OBVIOUS
<1> USE DEF IInv, TypeOK, RegInv, RowInv, KeeperStep, RowIsAttended, Keeps,
           Guarded, Fetching, PCs, JobStates, TriggerKinds
<1>1. ASSUME NEW s \in Source, CreateSource(s) PROVE KeeperStep
  BY <1>1 DEF CreateSource, taskVars
<1>2. ASSUME NEW s \in Source, DeleteSource(s) PROVE KeeperStep
  BY <1>2 DEF DeleteSource, taskVars
<1>3. ASSUME NEW s \in Source, DeleteTemplate(s) PROVE KeeperStep
  BY <1>3 DEF DeleteTemplate, taskVars
<1>4. ASSUME NEW w \in Worker, NEW s \in Source, NEW t \in Triggers,
             Acquire(w, s, t)
      PROVE KeeperStep
  BY <1>4 DEF Acquire, Goto, dbVars
<1>5. ASSUME NEW w \in Worker, LoadSource(w) PROVE KeeperStep
  BY <1>5 DEF LoadSource, Goto, dbVars, taskVars
<1>6. ASSUME NEW w \in Worker, TakeOver(w) PROVE KeeperStep
  BY <1>6 DEF TakeOver, MarkRunningFailed, StorageError, Goto, dbVars, taskVars
<1>7. ASSUME NEW w \in Worker, InsertJob(w) PROVE KeeperStep
  BY <1>7 DEF InsertJob, StorageError, Goto, dbVars
<1>8. ASSUME NEW w \in Worker, Fetch(w) PROVE KeeperStep
  BY <1>8 DEF Fetch, Goto, dbVars
<1>9. ASSUME NEW w \in Worker, CheckTemplateSource(w) PROVE KeeperStep
  BY <1>9 DEF CheckTemplateSource, Goto, dbVars, taskVars
<1>10. ASSUME NEW w \in Worker, SetTemplate(w) PROVE KeeperStep
  BY <1>10 DEF SetTemplate, StorageError, Goto, dbVars, taskVars
<1>11. ASSUME NEW w \in Worker, EnsureSource(w) PROVE KeeperStep
  BY <1>11 DEF EnsureSource, Goto, dbVars, taskVars
<1>12. ASSUME NEW w \in Worker, UpsertNodes(w) PROVE KeeperStep
  BY <1>12 DEF UpsertNodes, StorageError, Goto, dbVars, taskVars
<1>13. ASSUME NEW w \in Worker, MarkSuccess(w) PROVE KeeperStep
  BY <1>13 DEF MarkSuccess, MarkJob, StorageError, Goto, dbVars, taskVars
<1>14. ASSUME NEW w \in Worker, MarkFailed(w) PROVE KeeperStep
  BY <1>14 DEF MarkFailed, MarkJob, StorageError, Goto, dbVars, taskVars
<1>15. ASSUME NEW w \in Worker, Release(w) PROVE KeeperStep
  BY <1>15 DEF Release, DropLocals, Goto, dbVars
<1>16. ASSUME NEW w \in Worker, MarkAborted(w) PROVE KeeperStep
  BY <1>16 DEF MarkAborted, MarkRunningFailed, DropLocals, StorageError, Goto, dbVars
<1>17. ASSUME NEW w \in Worker, Disconnect(w) PROVE KeeperStep
  BY <1>17 DEF Disconnect, DropLocals, Goto, dbVars
<1>18. ASSUME NEW w \in Worker, Panic(w) PROVE KeeperStep
  BY <1>18 DEF Panic, DropLocals, Goto, dbVars, taskVars
<1>19. CASE Crash
  BY <1>19 DEF Crash, dbVars
<1>20. CASE Restart
  BY <1>20 DEF Restart, MarkAllRunningFailed, taskVars
<1>21. CASE UNCHANGED vars
  BY <1>21 DEF vars
<1> HIDE DEF IInv, TypeOK, RegInv, RowInv, KeeperStep, RowIsAttended, Keeps,
           Guarded, Fetching, PCs, JobStates, TriggerKinds
<1> QED
  BY <1>1, <1>2, <1>3, <1>4, <1>5, <1>6, <1>7, <1>8, <1>9, <1>10, <1>11,
     <1>12, <1>13, <1>14, <1>15, <1>16, <1>17, <1>18, <1>19, <1>20, <1>21
  DEF Next, Step

(***************************************************************************)
(* A success always stands for this refresh's own nodes and template.      *)
(***************************************************************************)
THEOREM SuccessCorrect == Spec => SuccessMeansCached
<1>1. IInv /\ [Next]_vars => [CachedStep]_vars
  BY CachedStepHolds
<1> QED
  BY <1>1, Invariance, PTL DEF Spec, SuccessMeansCached, CachedStep

(***************************************************************************)
(* Verdicts stand.                                                         *)
(***************************************************************************)
THEOREM VerdictsCorrect == Spec => VerdictsStand
<1>1. IInv /\ [Next]_vars => [VerdictStep]_vars
  BY VerdictStepHolds
<1> QED
  BY <1>1, Invariance, PTL DEF Spec, VerdictsStand, VerdictStep

(***************************************************************************)
(* A refresh that is at work is declared failed only by the handler of an  *)
(* earlier one that panicked.                                              *)
(***************************************************************************)
THEOREM AbortedCorrect == Spec => OnlyAbortedHandlerFailsWork
<1>1. IInv /\ [Next]_vars => [AbortedStep]_vars
  BY AbortedStepHolds
<1> QED
  BY <1>1, Invariance, PTL
  DEF Spec, OnlyAbortedHandlerFailsWork, AbortedStep

(***************************************************************************)
(* A running row is orphaned only in the ways the code accepts.            *)
(***************************************************************************)
THEOREM NoZombieCorrect == Spec => NoZombieRow
<1>1. IInv /\ [Next]_vars => [KeeperStep]_vars
  BY KeeperStepHolds
<1> QED
  BY <1>1, Invariance, PTL DEF Spec, NoZombieRow, KeeperStep
============================================================================
