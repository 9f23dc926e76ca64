--------------------------- MODULE RefreshEngine ---------------------------
(***************************************************************************)
(* Refreshing a source in the SubForge core: Engine::refresh_source        *)
(* (crates/app-core/src/engine.rs) with its RefreshRegistry guard, the     *)
(* static fetcher's writes (fetcher.rs, fetcher/routing_template.rs), the  *)
(* two HTTP handlers that start a refresh (handlers/sources.rs: "manual";  *)
(* handlers/profiles/write.rs: "manual-profile"), the deletion of a source *)
(* that races them, and the recovery of unfinished rows at start-up        *)
(* (apps/core/src/bootstrap.rs).                                           *)
(*                                                                         *)
(* Every SQLite statement or transaction is one step: the database is one  *)
(* connection behind a mutex.  Between two statements of one refresh every *)
(* other request may run.                                                  *)
(***************************************************************************)
EXTENDS Naturals, FiniteSets

CONSTANTS
  Source,      \* source ids; a timestamp id, so one is never used twice
  Worker,      \* concurrent requests that may run refresh_source
  Job,         \* refresh-job ids; timestamps as well
  NoSource,    \* the source of a worker that has none
  NoJob,       \* "no refresh job"
  Triggers,    \* the trigger_type values requests use
  Faults       \* what may go wrong: a subset of FaultKinds

FaultKinds == {"storage", "crash", "disconnect", "panic"}
TriggerKinds == {"manual", "manual-profile"}

ASSUME NoSourceAssumption == NoSource \notin Source
ASSUME NoJobAssumption == NoJob \notin Job
ASSUME TriggersAssumption == Triggers \subseteq TriggerKinds
ASSUME FaultsAssumption == Faults \subseteq FaultKinds

VARIABLES
  up,        \* the core process runs
  src,       \* source_instances: absent, live or deleted
  job,       \* refresh_jobs.status, "unused" and "deleted" when there is no row
  jobSource, \* refresh_jobs.source_instance_id
  nodes,     \* node_cache: the job whose nodes are stored
  template,  \* app_settings source.<id>.clash_routing_template: its writer
  deleting,  \* delete handlers between the row's deletion and the template's
  running,   \* RefreshRegistry.running_sources
  pc, wsrc, wjob, trig,  \* per worker: control, source, job, trigger_type
  payload,   \* per worker: what the upstream body turned out to be
  attached   \* per worker: the client of the request still waits

dbVars == <<src, job, jobSource, nodes, template>>
taskVars == <<wsrc, wjob, trig, payload, attached>>
vars == <<up, src, job, jobSource, nodes, template, deleting, running,
          pc, wsrc, wjob, trig, payload, attached>>

SourceStates == {"absent", "live", "deleted"}
JobStates == {"unused", "running", "success", "failed", "deleted"}
(***************************************************************************)
(* routing: Clash or sing-box nodes with a template; plain: nodes and no   *)
(* template; garbled: no routing payload, and the URI list does not parse. *)
(***************************************************************************)
Payloads == {"routing", "plain", "garbled"}
PCs == {"idle", "load", "takeover", "insert", "fetch", "template", "set",
        "cache", "upsert", "success", "failed", "release", "aborted"}

Init ==
  /\ up = TRUE
  /\ src = [s \in Source |-> "absent"]
  /\ job = [j \in Job |-> "unused"]
  /\ jobSource = [j \in Job |-> NoSource]
  /\ nodes = [s \in Source |-> NoJob]
  /\ template = [s \in Source |-> NoJob]
  /\ deleting = {}
  /\ running = {}
  /\ pc = [w \in Worker |-> "idle"]
  /\ wsrc = [w \in Worker |-> NoSource]
  /\ wjob = [w \in Worker |-> NoJob]
  /\ trig = [w \in Worker |-> "manual"]
  /\ payload = [w \in Worker |-> "plain"]
  /\ attached = [w \in Worker |-> FALSE]

Goto(w, label) == pc' = [pc EXCEPT ![w] = label]

(***************************************************************************)
(* The locals of a call go out of scope with it.                           *)
(***************************************************************************)
DropLocals(w) ==
  /\ wsrc' = [wsrc EXCEPT ![w] = NoSource]
  /\ wjob' = [wjob EXCEPT ![w] = NoJob]
  /\ trig' = [trig EXCEPT ![w] = "manual"]
  /\ payload' = [payload EXCEPT ![w] = "plain"]
  /\ attached' = [attached EXCEPT ![w] = FALSE]

(***************************************************************************)
(* The model's bound on refreshes: a call starts only while a job id is    *)
(* left for it besides those that calls before their insert will use.      *)
(***************************************************************************)
JobIdLeft ==
  Cardinality({w \in Worker : pc[w] \in {"load", "takeover", "insert"}})
    < Cardinality({j \in Job : job[j] = "unused"})

(***************************************************************************)
(* Mutants.  Each stands for a plausible bug of the definition after it    *)
(* and is used by no definition: the statement without its source filter,  *)
(* and the statement without its status filter.                            *)
(***************************************************************************)
MarkAnySourceFailed(s) ==
  [j \in Job |-> IF job[j] = "running" THEN "failed" ELSE job[j]]

MarkEveryRowFailed(s) ==
  [j \in Job |-> IF jobSource[j] = s THEN "failed" ELSE job[j]]

(***************************************************************************)
(* mark_running_failed_by_source: the statuses after every running row of  *)
(* source s has been set to failed.                                        *)
(***************************************************************************)
MarkRunningFailed(s) ==
  [j \in Job |-> IF job[j] = "running" /\ jobSource[j] = s THEN "failed"
                 ELSE job[j]]

(***************************************************************************)
(* Mutant: a status the job list does not know.                            *)
(***************************************************************************)
MarkAllInterrupted ==
  [j \in Job |-> IF job[j] = "running" THEN "interrupted" ELSE job[j]]

(***************************************************************************)
(* mark_all_running_failed.                                                *)
(***************************************************************************)
MarkAllRunningFailed ==
  [j \in Job |-> IF job[j] = "running" THEN "failed" ELSE job[j]]

(***************************************************************************)
(* mark_success and mark_failed: UPDATE ... WHERE id = ?.  The row's old   *)
(* status does not matter; a row that a cascade removed stays away.        *)
(***************************************************************************)
MarkJob(j, status) ==
  [job EXCEPT ![j] = IF @ = "deleted" THEN @ ELSE status]

(***************************************************************************)
(* A statement on the database may fail with a StorageError.               *)
(***************************************************************************)
StorageError(w, label) ==
  /\ "storage" \in Faults
  /\ Goto(w, label)
  /\ UNCHANGED dbVars

----------------------------------------------------------------------------
(* Sources: created and deleted by other requests.                         *)

CreateSource(s) ==
  /\ up /\ src[s] = "absent"
  /\ src' = [src EXCEPT ![s] = "live"]
  /\ UNCHANGED <<up, job, jobSource, nodes, template, deleting, running, pc>>
  /\ UNCHANGED taskVars

(***************************************************************************)
(* delete_source: the row goes, and ON DELETE CASCADE takes the source's   *)
(* refresh_jobs and node_cache rows.  A running refresh is not consulted.  *)
(***************************************************************************)
DeleteSource(s) ==
  /\ up /\ src[s] = "live"
  /\ src' = [src EXCEPT ![s] = "deleted"]
  /\ job' = [j \in Job |-> IF jobSource[j] = s THEN "deleted" ELSE job[j]]
  /\ nodes' = [nodes EXCEPT ![s] = NoJob]
  /\ deleting' = deleting \cup {s}
  /\ UNCHANGED <<up, jobSource, template, running, pc>>
  /\ UNCHANGED taskVars

(***************************************************************************)
(* The delete handler's last write: app_settings has no foreign key, so    *)
(* the routing template is deleted by hand, its error ignored.             *)
(***************************************************************************)
DeleteTemplate(s) ==
  /\ up /\ s \in deleting
  /\ deleting' = deleting \ {s}
  /\ \/ template' = [template EXCEPT ![s] = NoJob]
     \/ "storage" \in Faults /\ UNCHANGED template
  /\ UNCHANGED <<up, src, job, jobSource, nodes, running, pc>>
  /\ UNCHANGED taskVars

----------------------------------------------------------------------------
(* Engine::refresh_source, one step per statement.                         *)

(***************************************************************************)
(* Mutant: the registry does not look whether the source is in the set.    *)
(***************************************************************************)
AcquireUnchecked(w, s, t) ==
  /\ up /\ pc[w] = "idle"
  /\ JobIdLeft
  /\ running' = running \cup {s}
  /\ wsrc' = [wsrc EXCEPT ![w] = s]
  /\ trig' = [trig EXCEPT ![w] = t]
  /\ attached' = [attached EXCEPT ![w] = TRUE]
  /\ Goto(w, "load")
  /\ UNCHANGED <<up, deleting, wjob, payload>>
  /\ UNCHANGED dbVars

(***************************************************************************)
(* A request calls refresh_source; try_acquire refuses a source whose      *)
(* refresh is running, which leaves everything as it was.                  *)
(***************************************************************************)
Acquire(w, s, t) ==
  /\ up /\ pc[w] = "idle"
  /\ JobIdLeft
  /\ s \notin running
  /\ running' = running \cup {s}
  /\ wsrc' = [wsrc EXCEPT ![w] = s]
  /\ trig' = [trig EXCEPT ![w] = t]
  /\ attached' = [attached EXCEPT ![w] = TRUE]
  /\ Goto(w, "load")
  /\ UNCHANGED <<up, deleting, wjob, payload>>
  /\ UNCHANGED dbVars

(***************************************************************************)
(* get_source_for_runtime and load_installed_plugin: SourceNotFound, or a  *)
(* plugin, configuration or secret that cannot be loaded, ends the call.   *)
(***************************************************************************)
LoadSource(w) ==
  /\ pc[w] = "load"
  /\ \/ src[wsrc[w]] = "live" /\ Goto(w, "takeover")
     \/ Goto(w, "release")
  /\ UNCHANGED <<up, deleting, running>>
  /\ UNCHANGED dbVars /\ UNCHANGED taskVars

(***************************************************************************)
(* Mutant: no takeover.                                                    *)
(***************************************************************************)
TakeOverNothing(w) ==
  /\ pc[w] = "takeover"
  /\ Goto(w, "insert")
  /\ UNCHANGED <<up, deleting, running>>
  /\ UNCHANGED dbVars /\ UNCHANGED taskVars

(***************************************************************************)
(* Rows an earlier refresh left running are taken over (set to failed);    *)
(* the result of the statement is ignored.                                 *)
(***************************************************************************)
TakeOver(w) ==
  /\ pc[w] = "takeover"
  /\ \/ /\ job' = MarkRunningFailed(wsrc[w])
        /\ Goto(w, "insert")
        /\ UNCHANGED <<src, jobSource, nodes, template>>
     \/ StorageError(w, "insert")
  /\ UNCHANGED <<up, deleting, running>>
  /\ UNCHANGED taskVars

(***************************************************************************)
(* The refresh's own row, "running".  The foreign key refuses it when the  *)
(* source has been deleted meanwhile, and the error ends the call.         *)
(***************************************************************************)
InsertJob(w) ==
  /\ pc[w] = "insert"
  /\ \/ /\ src[wsrc[w]] = "live"
        /\ \E j \in Job :
             /\ job[j] = "unused"
             /\ job' = [job EXCEPT ![j] = "running"]
             /\ jobSource' = [jobSource EXCEPT ![j] = wsrc[w]]
             /\ wjob' = [wjob EXCEPT ![w] = j]
        /\ Goto(w, "fetch")
        /\ UNCHANGED <<src, nodes, template>>
     \/ /\ src[wsrc[w]] # "live"
        /\ Goto(w, "release")
        /\ UNCHANGED dbVars /\ UNCHANGED wjob
     \/ StorageError(w, "release") /\ UNCHANGED wjob
  /\ UNCHANGED <<up, deleting, running, wsrc, trig, payload, attached>>

(***************************************************************************)
(* Mutant: the task hands its body over through the waiting handler.       *)
(***************************************************************************)
FetchForClient(w) ==
  /\ pc[w] = "fetch" /\ attached[w]
  /\ \E p \in Payloads : payload' = [payload EXCEPT ![w] = p]
  /\ Goto(w, "template")
  /\ UNCHANGED <<up, deleting, running, wsrc, wjob, trig, attached>>
  /\ UNCHANGED dbVars

(***************************************************************************)
(* The fetch (static download or script stages): the only place where the  *)
(* call waits.  It ends with a body of some kind, or with an error before  *)
(* anything was written: transport, status, size, decoding, script.        *)
(***************************************************************************)
Fetch(w) ==
  /\ pc[w] = "fetch"
  /\ \/ /\ \E p \in Payloads : payload' = [payload EXCEPT ![w] = p]
        /\ Goto(w, "template")
     \/ Goto(w, "failed") /\ UNCHANGED payload
  /\ UNCHANGED <<up, deleting, running, wsrc, wjob, trig, attached>>
  /\ UNCHANGED dbVars

(***************************************************************************)
(* update_clash_routing_template, first statement: does the source exist?  *)
(***************************************************************************)
CheckTemplateSource(w) ==
  /\ pc[w] = "template"
  /\ \/ src[wsrc[w]] = "live" /\ Goto(w, "set")
     \/ (src[wsrc[w]] # "live" \/ "storage" \in Faults) /\ Goto(w, "failed")
  /\ UNCHANGED <<up, deleting, running>>
  /\ UNCHANGED dbVars /\ UNCHANGED taskVars

(***************************************************************************)
(* Second statement: the setting is replaced or deleted.  parse_nodes then *)
(* parses the URI list, which fails only after the template was cleared.   *)
(***************************************************************************)
SetTemplate(w) ==
  /\ pc[w] = "set"
  /\ \/ /\ template' = [template EXCEPT ![wsrc[w]] =
                          IF payload[w] = "routing" THEN wjob[w] ELSE NoJob]
        /\ Goto(w, IF payload[w] = "garbled" THEN "failed" ELSE "cache")
        /\ UNCHANGED <<src, job, jobSource, nodes>>
     \/ StorageError(w, "failed")
  /\ UNCHANGED <<up, deleting, running>>
  /\ UNCHANGED taskVars

(***************************************************************************)
(* cache_nodes: ensure_source_exists, then the upsert, which the foreign   *)
(* key and the WHERE EXISTS clause tie to a source that is still there.    *)
(***************************************************************************)
EnsureSource(w) ==
  /\ pc[w] = "cache"
  /\ \/ src[wsrc[w]] = "live" /\ Goto(w, "upsert")
     \/ (src[wsrc[w]] # "live" \/ "storage" \in Faults) /\ Goto(w, "failed")
  /\ UNCHANGED <<up, deleting, running>>
  /\ UNCHANGED dbVars /\ UNCHANGED taskVars

(***************************************************************************)
(* Mutant: an upsert that trusts ensure_source_exists (no foreign key, no  *)
(* WHERE EXISTS).                                                          *)
(***************************************************************************)
UpsertUnchecked(w) ==
  /\ pc[w] = "upsert"
  /\ nodes' = [nodes EXCEPT ![wsrc[w]] = wjob[w]]
  /\ Goto(w, "success")
  /\ UNCHANGED <<up, src, job, jobSource, template, deleting, running>>
  /\ UNCHANGED taskVars

UpsertNodes(w) ==
  /\ pc[w] = "upsert"
  /\ \/ /\ src[wsrc[w]] = "live"
        /\ nodes' = [nodes EXCEPT ![wsrc[w]] = wjob[w]]
        /\ Goto(w, "success")
        /\ UNCHANGED <<src, job, jobSource, template>>
     \/ /\ src[wsrc[w]] # "live"
        /\ Goto(w, "failed")
        /\ UNCHANGED dbVars
     \/ StorageError(w, "failed")
  /\ UNCHANGED <<up, deleting, running>>
  /\ UNCHANGED taskVars

(***************************************************************************)
(* mark_success(...)? and let _ = mark_failed(...): either may hit a       *)
(* storage error, and the row then stays as it is.                         *)
(***************************************************************************)
MarkSuccess(w) ==
  /\ pc[w] = "success"
  /\ \/ /\ job' = MarkJob(wjob[w], "success")
        /\ Goto(w, "release")
        /\ UNCHANGED <<src, jobSource, nodes, template>>
     \/ StorageError(w, "release")
  /\ UNCHANGED <<up, deleting, running>>
  /\ UNCHANGED taskVars

MarkFailed(w) ==
  /\ pc[w] = "failed"
  /\ \/ /\ job' = MarkJob(wjob[w], "failed")
        /\ Goto(w, "release")
        /\ UNCHANGED <<src, jobSource, nodes, template>>
     \/ StorageError(w, "release")
  /\ UNCHANGED <<up, deleting, running>>
  /\ UNCHANGED taskVars

(***************************************************************************)
(* refresh_source returns and drops its RefreshGuard.                      *)
(***************************************************************************)
Release(w) ==
  /\ pc[w] = "release"
  /\ running' = running \ {wsrc[w]}
  /\ Goto(w, "idle")
  /\ DropLocals(w)
  /\ UNCHANGED <<up, deleting>>
  /\ UNCHANGED dbVars

----------------------------------------------------------------------------
(* What ends a refresh from outside.                                       *)

(***************************************************************************)
(* Mutant: the "manual" handler awaits the refresh instead of spawning it, *)
(* so every refresh dies with its client.                                  *)
(***************************************************************************)
DisconnectDropsTask(w) ==
  /\ "disconnect" \in Faults
  /\ attached[w] /\ pc[w] = "fetch"
  /\ running' = running \ {wsrc[w]}
  /\ Goto(w, "idle")
  /\ DropLocals(w)
  /\ UNCHANGED <<up, deleting>>
  /\ UNCHANGED dbVars

(***************************************************************************)
(* The client goes away.  A "manual" refresh runs in a spawned task and    *)
(* goes on without its handler; a "manual-profile" refresh runs inside the *)
(* handler's future, which is dropped where it waits, its guard with it:   *)
(* no statement of refresh_source runs any more.                           *)
(***************************************************************************)
Disconnect(w) ==
  /\ "disconnect" \in Faults
  /\ attached[w]
  /\ \/ /\ trig[w] = "manual"
        /\ pc[w] \notin {"idle", "aborted"}
        /\ attached' = [attached EXCEPT ![w] = FALSE]
        /\ UNCHANGED <<running, pc, wsrc, wjob, trig, payload>>
     \/ /\ trig[w] = "manual-profile"
        /\ pc[w] = "fetch"
        /\ running' = running \ {wsrc[w]}
        /\ Goto(w, "idle")
        /\ DropLocals(w)
  /\ UNCHANGED <<up, deleting>>
  /\ UNCHANGED dbVars

(***************************************************************************)
(* Mutant: the guard is released by a statement at the end of              *)
(* refresh_source, which unwinding skips.                                  *)
(***************************************************************************)
PanicKeepsGuard(w) ==
  /\ "panic" \in Faults
  /\ pc[w] = "fetch"
  /\ Goto(w, "idle")
  /\ DropLocals(w)
  /\ UNCHANGED <<up, deleting, running>>
  /\ UNCHANGED dbVars

(***************************************************************************)
(* The fetch panics: unwinding drops the guard.  Only the handler of a     *)
(* "manual" refresh that still waits learns of it, through the JoinError.  *)
(***************************************************************************)
Panic(w) ==
  /\ "panic" \in Faults
  /\ pc[w] = "fetch"
  /\ running' = running \ {wsrc[w]}
  /\ \/ /\ trig[w] = "manual" /\ attached[w]
        /\ Goto(w, "aborted")
        /\ UNCHANGED taskVars
     \/ /\ ~ (trig[w] = "manual" /\ attached[w])
        /\ Goto(w, "idle")
        /\ DropLocals(w)
  /\ UNCHANGED <<up, deleting>>
  /\ UNCHANGED dbVars

(***************************************************************************)
(* The handler's JoinError branch: it does not know the job, so it fails   *)
(* whatever row of the source is running by now.                           *)
(***************************************************************************)
MarkAborted(w) ==
  /\ pc[w] = "aborted"
  /\ \/ /\ job' = MarkRunningFailed(wsrc[w])
        /\ Goto(w, "idle")
        /\ UNCHANGED <<src, jobSource, nodes, template>>
     \/ StorageError(w, "idle")
  /\ DropLocals(w)
  /\ UNCHANGED <<up, deleting, running>>

Crash ==
  /\ "crash" \in Faults
  /\ up
  /\ up' = FALSE
  /\ running' = {}
  /\ deleting' = {}
  /\ pc' = [w \in Worker |-> "idle"]
  /\ wsrc' = [w \in Worker |-> NoSource]
  /\ wjob' = [w \in Worker |-> NoJob]
  /\ trig' = [w \in Worker |-> "manual"]
  /\ payload' = [w \in Worker |-> "plain"]
  /\ attached' = [w \in Worker |-> FALSE]
  /\ UNCHANGED dbVars

(***************************************************************************)
(* run_server: recover_incomplete_refresh_jobs before the server listens.  *)
(***************************************************************************)
Restart ==
  /\ ~up
  /\ up' = TRUE
  /\ job' = MarkAllRunningFailed
  /\ UNCHANGED <<src, jobSource, nodes, template, deleting, running, pc>>
  /\ UNCHANGED taskVars

----------------------------------------------------------------------------
Step(w) ==
  \/ LoadSource(w) \/ TakeOver(w) \/ InsertJob(w) \/ Fetch(w)
  \/ CheckTemplateSource(w) \/ SetTemplate(w) \/ EnsureSource(w)
  \/ UpsertNodes(w) \/ MarkSuccess(w) \/ MarkFailed(w) \/ Release(w)
  \/ MarkAborted(w)

Next ==
  \/ \E s \in Source : CreateSource(s) \/ DeleteSource(s) \/ DeleteTemplate(s)
  \/ \E w \in Worker, s \in Source, t \in Triggers : Acquire(w, s, t)
  \/ \E w \in Worker : Step(w) \/ Disconnect(w) \/ Panic(w)
  \/ Crash
  \/ Restart

Spec == Init /\ [][Next]_vars

(***************************************************************************)
(* Fairness: the runtime polls every task that can go on, and the client's *)
(* timeout and the script's time limit end every fetch.  Requests, faults  *)
(* and the deletion of sources are the environment's and get none.         *)
(***************************************************************************)
FairSpec ==
  /\ Spec
  /\ \A w \in Worker : WF_vars(Step(w))
  /\ \A s \in Source : WF_vars(DeleteTemplate(s))
  /\ WF_vars(Restart)

----------------------------------------------------------------------------
TypeOK ==
  /\ up \in BOOLEAN
  /\ src \in [Source -> SourceStates]
  /\ job \in [Job -> JobStates]
  /\ jobSource \in [Job -> Source \cup {NoSource}]
  /\ nodes \in [Source -> Job \cup {NoJob}]
  /\ template \in [Source -> Job \cup {NoJob}]
  /\ deleting \subseteq Source
  /\ running \subseteq Source
  /\ pc \in [Worker -> PCs]
  /\ wsrc \in [Worker -> Source \cup {NoSource}]
  /\ wjob \in [Worker -> Job \cup {NoJob}]
  /\ trig \in [Worker -> TriggerKinds]
  /\ payload \in [Worker -> Payloads]
  /\ attached \in [Worker -> BOOLEAN]

(***************************************************************************)
(* The worker holds a RefreshGuard.                                        *)
(***************************************************************************)
Guarded(w) == pc[w] \notin {"idle", "aborted"}

(***************************************************************************)
(* The worker's own row has been inserted and its outcome is not written.  *)
(***************************************************************************)
Fetching(w) == pc[w] \in {"fetch", "template", "set", "cache", "upsert",
                          "success", "failed"}

(***************************************************************************)
(* The registry is exact (refresh_registry.rs): a source is in the set if  *)
(* and only if one call is inside refresh_source for it, and never two.    *)
(* Neither a return, a panic, a dropped future nor a crash leaks a guard.  *)
(***************************************************************************)
RegistryExact ==
  /\ running = {wsrc[w] : w \in {v \in Worker : Guarded(v)}}
  /\ \A v, w \in Worker :
       Guarded(v) /\ Guarded(w) /\ wsrc[v] = wsrc[w] => v = w

(***************************************************************************)
(* The takeover works (engine.rs): as long as the database answers, a      *)
(* source never has two rows "running", whatever was cancelled, panicked   *)
(* or crashed before, and a call that fetches meets no row but its own.    *)
(***************************************************************************)
OneRunningRow ==
  "storage" \notin Faults =>
    \A i, j \in Job :
      /\ job[i] = "running" /\ job[j] = "running"
      /\ jobSource[i] = jobSource[j]
      => i = j

(***************************************************************************)
(* Who will finish a running row: the call that works on it, the handler   *)
(* of an aborted call for its source, or the next start of the core.       *)
(***************************************************************************)
Keeps(w, j) ==
  \/ Fetching(w) /\ wjob[w] = j
  \/ pc[w] = "aborted" /\ wsrc[w] = jobSource[j]

RowIsAttended(j) == ~up \/ \E w \in Worker : Keeps(w, j)

(***************************************************************************)
(* No zombie row (handlers/sources.rs): a running row loses the last one   *)
(* who would finish it only where the code accepts it: the future of a     *)
(* profile refresh is dropped, or panics; a task panics whose client has   *)
(* left; the statement that writes the verdict fails.  A client that       *)
(* leaves a "manual" refresh, a panic its handler sees, the deletion of    *)
(* the source and a crash never orphan a row.                              *)
(***************************************************************************)
NoZombieRow ==
  [][\A j \in Job :
       /\ job[j] = "running" => RowIsAttended(j)
       /\ job'[j] = "running"
       => \/ RowIsAttended(j)'
          \/ \E w \in Worker :
               /\ Keeps(w, j)
               /\ \/ /\ pc[w] = "fetch" /\ pc'[w] = "idle"
                     /\ trig[w] = "manual-profile" \/ ~ attached[w]
                  \/ /\ "storage" \in Faults
                     /\ pc[w] \in {"success", "failed", "aborted"}]_vars

(***************************************************************************)
(* Nothing is cached for a source that is gone (fetcher.rs cache_nodes,    *)
(* node_cache_repo.rs upsert_nodes), however late its refresh finishes,    *)
(* and no refresh row outlives its source.                                 *)
(***************************************************************************)
NothingForDeletedSource ==
  \A s \in Source : src[s] = "deleted" =>
    /\ nodes[s] = NoJob
    /\ \A j \in Job : jobSource[j] = s => job[j] = "deleted"

(***************************************************************************)
(* What "success" says (engine.rs mark_success): at that moment the nodes  *)
(* in the cache are this refresh's own, and the stored routing template is *)
(* this refresh's own or none; no other refresh of the source wrote        *)
(* between this one's writes and its verdict.                              *)
(***************************************************************************)
SuccessMeansCached ==
  [][\A j \in Job : job[j] # "success" /\ job'[j] = "success" =>
       /\ nodes'[jobSource[j]] = j
       /\ template'[jobSource[j]] \in {j, NoJob}]_vars

(***************************************************************************)
(* Verdicts (refresh_job_repo.rs): "success" is final until the source is  *)
(* deleted, a finished row never runs again, and a row that others failed  *)
(* (takeover, aborted handler, restart) is turned into a success only by   *)
(* the call that owns it and still holds the guard.                        *)
(***************************************************************************)
VerdictsStand ==
  [][\A j \in Job :
       /\ job[j] = "success" => job'[j] \in {"success", "deleted"}
       /\ job[j] = "failed" /\ job'[j] # "failed" =>
            \/ job'[j] = "deleted"
            \/ /\ job'[j] = "success"
               /\ \E w \in Worker : wjob[w] = j /\ wsrc[w] \in running]_vars

(***************************************************************************)
(* Work in progress is declared failed only by the JoinError branch of an  *)
(* earlier, panicked refresh of the same source (handlers/sources.rs):     *)
(* neither a takeover nor a refresh of another source can do it.           *)
(***************************************************************************)
OnlyAbortedHandlerFailsWork ==
  [][\A w \in Worker :
       /\ Fetching(w) /\ pc'[w] = pc[w]
       /\ job[wjob[w]] = "running" /\ job'[wjob[w]] = "failed"
       => \E v \in Worker : pc[v] = "aborted" /\ wsrc[v] = wsrc[w]]_vars

(***************************************************************************)
(* No source stays locked: every guard is dropped eventually, so a later   *)
(* refresh of the source is not refused for ever.                          *)
(***************************************************************************)
GuardReleased == \A s \in Source : s \in running ~> s \notin running

(***************************************************************************)
(* Every row gets its verdict: a running row does not stay running while   *)
(* somebody is there to finish it, whatever clients leave, tasks panic or  *)
(* processes die.  NoZombieRow says when nobody is.                        *)
(***************************************************************************)
EveryRowFinishes ==
  \A j \in Job :
    job[j] = "running" ~> job[j] # "running" \/ ~ RowIsAttended(j)

(***************************************************************************)
(* docs/guide/configuration.md says of refresh.auto_on_start (seeded as    *)
(* "true") that the core refreshes the sources by itself after a start: a  *)
(* source that exists while the core is down would get a refresh row once  *)
(* the core is up again, without any request, unless it is deleted.        *)
(***************************************************************************)
AutoRefreshOnStart ==
  \A s \in Source :
    (~up /\ src[s] = "live")
      ~> (src[s] # "live"
          \/ \E j \in Job : jobSource[j] = s /\ job[j] # "unused")
============================================================================
