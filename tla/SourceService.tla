--------------------------- MODULE SourceService ---------------------------
(***************************************************************************)
(* Sources: their rows, their configuration and their secrets, which live  *)
(* in two stores that share no transaction, the database and the secret    *)
(* store.  The calls of SourceService (create, update, delete), the script *)
(* runs that read a source and write its state back, and the headless      *)
(* start that applies a configuration file run over the four secret        *)
(* backends, with store calls failing and the process dying anywhere.      *)
(*                                                                         *)
(* A configuration is the number of the call that wrote it, and so is a    *)
(* secret.  The plugin, its schema and its secret fields do not change.    *)
(***************************************************************************)
EXTENDS Naturals, Sequences, Functions

CONSTANTS
  Source,      \* source ids
  Existing,    \* those in the database at the beginning
  Fields,      \* secret_fields of the manifest, in order
  Upper,       \* the fields spelt like the environment spells them
  Name,        \* names a source may be given
  Worker,      \* threads that serve calls
  Backends,    \* secret backends to consider
  Asks,        \* what a call may say of each field: new, keep or omit
  FileName,    \* the source of the configuration file
  FileAsk,     \* and its secret fields, which hold no placeholder
  ScriptField, \* the field a script sets through secret.set
  MaxCalls,    \* calls in a behaviour
  MaxEvents    \* calls, failed steps and crashes together

Field == Range(Fields)
Plugin == "plugin"              \* the legacy scope, shared by the sources
Scope == Source \cup {Plugin}
Missing == 0                    \* SecretError::SecretMissing
Unset == 1                      \* no override: the environment decides
Old == 2                        \* what was there at the beginning
Legacy == 3                     \* a secret of the legacy scope
FromFile == 4                   \* what the configuration file says
Version(n) == FromFile + n
Nobody == "nobody"

ASSUME SourceAssumption ==
  /\ Plugin \notin Source /\ Existing \subseteq Source /\ Nobody \notin Worker
  /\ "" \notin Source /\ "" \notin Name /\ Fields \in Seq(Field)
  /\ MaxCalls \in Nat
  /\ Upper \subseteq Field /\ ScriptField \in Field /\ FileName \in Name
  /\ Asks \subseteq [Field -> {"new", "keep", "omit"}]
  /\ FileAsk \in [Field -> {"new", "omit"}]
  /\ Backends \subseteq {"memory", "file", "env", "keyring"}

VARIABLES
  backend,
  row,       \* source_instances and source_instance_config, per source
  data,      \* what the backend holds: a map, a file, overrides, entries
  index,     \* the keyring's list of keys of each scope
  holder,    \* who holds the file store's mutex
  task,      \* the call each worker is in
  phase,     \* down, booting from the configuration file, or serving
  calls, upsets,
  born,      \* sources whose row was inserted
  ack,       \* what the callers were told: the last call that succeeded
  mixed      \* sources on which calls overlapped, or an undo itself failed

vars == <<backend, row, data, index, holder, task, phase, calls,
          upsets, born, ack, mixed>>
secrets == <<data, index, holder>>
counters == <<calls, upsets>>

\* A call of the secret store, and its place in the order of the calls.
Op(at, k, v) == [at |-> at, key |-> k, val |-> v]

NoSecret == [k \in Field |-> Missing]
NoRow == [live |-> FALSE, name |-> "", conf |-> 0, state |-> 0]
NoOp == Op(0, "", Missing)
NoFile == <<>>
Idle == [pc |-> "idle", op |-> "", src |-> "", name |-> "", sets |-> FALSE,
         ask |-> [k \in Field |-> "omit"], ver |-> 0, seen |-> NoRow,
         had |-> NoSecret, eff |-> NoSecret, todo |-> {}, undo |-> FALSE,
         left |-> <<>>, stage |-> "", sub |-> 0, call |-> NoOp,
         file |-> NoFile, keys |-> {}]

Value == Missing..Version(MaxCalls)
Secret == Value \ {Unset}
Secrets == [Field -> Secret]
Row == [live : BOOLEAN, name : Name \cup {""}, conf : Value, state : Value]
StoreCall == [at : Nat, key : Field, val : Secret]
Task ==
  [pc : {"idle", "read", "snapshot", "insert", "configure", "commit", "drop",
         "revert", "unmake", "store", "migrate", "stage"},
   op : {"", "create", "update", "delete", "run"}, src : Source \cup {""},
   name : Name \cup {""}, sets : BOOLEAN,
   ask : [Field -> {"new", "keep", "omit"}], ver : Secret, seen : Row,
   had : Secrets, eff : Secrets, todo : SUBSET StoreCall, undo : BOOLEAN,
   left : Seq(Field), stage : {"", "login", "refresh", "fetch"}, sub : 0..2,
   call : StoreCall \cup {NoOp}, file : [Scope -> Secrets] \cup {NoFile},
   keys : SUBSET Field]

TypeOK ==
  /\ backend \in Backends
  /\ row \in [Source -> Row]
  /\ data \in [Scope -> IF backend = "env" THEN [Field -> Value] ELSE Secrets]
  /\ index \in [Scope -> SUBSET Field] /\ holder \in Worker \cup {Nobody}
  /\ task \in [Worker -> Task] /\ phase \in {"down", "boot", "serving"}
  /\ calls \in 0..MaxCalls /\ upsets \in Nat
  /\ born \subseteq Source /\ mixed \subseteq Source
  /\ ack \in [Source -> [row : Row, sec : Secrets]]

----------------------------------------------------------------------------
(***************************************************************************)
(* The secret stores.  Init of each: the process environment of the env    *)
(* backend, what a durable one already holds, nothing in memory.           *)
(***************************************************************************)
environment == [sc \in Scope |-> [k \in Field |->
  CASE sc = Plugin /\ k = Fields[Len(Fields)] -> Legacy
    [] sc \in Existing /\ k = Fields[1] -> Old
    [] OTHER -> Missing]]

Volatile == backend \in {"memory", "env"}
Start == CASE backend = "memory" -> [sc \in Scope |-> NoSecret]
           [] backend = "env" -> [sc \in Scope |-> [k \in Field |-> Unset]]
           [] OTHER -> data

\* SecretStore::get.
get(sc, k) ==
  IF backend = "env" /\ data[sc][k] = Unset THEN environment[sc][k]
  ELSE data[sc][k]

\* SecretStore::list_keys: the environment is listed in its own spelling.
list_keys(sc) ==
  CASE backend = "keyring" -> index[sc]
    [] backend = "env" -> {k \in Field : \/ data[sc][k] > Unset
                                         \/ data[sc][k] = Unset /\ k \in Upper
                                            /\ environment[sc][k] # Missing}
    [] OTHER -> {k \in Field : data[sc][k] # Missing}

\* get_source_secret_with_legacy_fallback.
Effective(s, k) == IF get(s, k) # Missing THEN get(s, k) ELSE get(Plugin, k)

\* The placeholders of inflate_source_config.
Masked(s) == list_keys(s) \cup list_keys(Plugin)

Readable == holder = Nobody   \* a get of the file store waits for the mutex

Put(d, s, op) == [d EXCEPT ![s][op.key] = op.val]

\* The calls that restore_secret_values makes.
Restores(had) ==
  {Op(i, Fields[i], had[Fields[i]]) : i \in DOMAIN Fields}

----------------------------------------------------------------------------
(***************************************************************************)
(* Returning from a call.  A start that applied its file begins to serve;  *)
(* one that failed ends the process.                                       *)
(***************************************************************************)
Leave(t, ok) ==
  /\ task' = [task EXCEPT ![t] = Idle]
  /\ phase' = IF phase # "boot" THEN phase ELSE IF ok THEN "serving" ELSE "down"

Goto(t, tk) == task' = [task EXCEPT ![t] = tk] /\ UNCHANGED phase

Promise(t) ==
  LET tk == task[t] IN
  CASE tk.op = "delete" -> [row |-> NoRow, sec |-> NoSecret]
    [] tk.op = "create" \/ (tk.op = "update" /\ tk.sets) ->
         [row |-> [live |-> TRUE, name |-> tk.name, conf |-> tk.ver,
                   state |-> ack[tk.src].row.state],
          sec |-> [k \in Field |-> CASE tk.ask[k] = "new" -> tk.ver
                                     [] tk.ask[k] = "keep" -> tk.eff[k]
                                     [] OTHER -> Missing]]
    [] OTHER -> [ack[tk.src] EXCEPT !.row.name = tk.name]

Succeed(t) ==
  /\ Leave(t, TRUE)
  /\ ack' = [ack EXCEPT ![task[t].src] = Promise(t)]

Err(t) == Leave(t, FALSE) /\ UNCHANGED ack

Mix(s) == mixed' = mixed \cup {s}

Overlap(s) ==
  mixed' = IF \E u \in Worker : task[u].src = s THEN mixed \cup {s} ELSE mixed

----------------------------------------------------------------------------
(***************************************************************************)
(* The calls begin.                                                        *)
(***************************************************************************)
Begin(t, tk) ==
  /\ task[t] = Idle
  /\ \A u \in Worker : phase = "boot" => task[u] = Idle
  /\ task' = [task EXCEPT ![t] = tk]
  /\ Overlap(tk.src)
  /\ UNCHANGED <<backend, row, secrets, phase, upsets, born, ack>>

Unborn(s) == s \notin born /\ \A u \in Worker : task[u].src # s

Create(t, s, n, ask, ver) ==
  /\ Unborn(s)
  /\ \A k \in Field : ask[k] # "keep"
  /\ Begin(t, [Idle EXCEPT !.pc = "insert", !.op = "create", !.src = s,
                           !.name = n, !.sets = TRUE, !.ask = ask,
                           !.ver = ver])

Update(t, s, n, sets, ask, ver) ==
  Begin(t, [Idle EXCEPT !.pc = "read", !.op = "update", !.src = s,
                        !.name = n, !.sets = sets, !.ask = ask, !.ver = ver])

Another ==
  /\ phase = "serving"
  /\ calls < MaxCalls /\ calls + upsets < MaxEvents
  /\ calls' = calls + 1

Upset == calls + upsets < MaxEvents /\ upsets' = upsets + 1 /\ UNCHANGED calls

create_source == \E t \in Worker, s \in Source, n \in Name, ask \in Asks :
  Another /\ Create(t, s, n, ask, Version(calls'))

\* A name of "" stands for a request without a name.
update_source == \E t \in Worker, s \in Source :
  /\ Another
  /\ \/ \E ask \in Asks : Update(t, s, "", TRUE, ask, Version(calls'))
     \/ \E n \in Name : Update(t, s, n, FALSE, Idle.ask, Version(calls'))

delete_source == \E t \in Worker, s \in Source :
  /\ Another
  /\ Begin(t, [Idle EXCEPT !.pc = "read", !.op = "delete", !.src = s])

\* refresh_source of a script plugin; the registry allows one per source.
execute == \E t \in Worker, s \in Source :
  /\ Another
  /\ \A u \in Worker : task[u].op = "run" => task[u].src # s
  /\ Begin(t, [Idle EXCEPT !.pc = "read", !.op = "run", !.src = s,
                           !.ver = Version(calls')])

\* apply_sources: match the file's source by name, or create it.
NameTwice == \E a, b \in Source :
  a # b /\ row[a].live /\ row[b].live /\ row[a].name = row[b].name

BootRefuses ==
  /\ phase = "boot" /\ NameTwice
  /\ \A t \in Worker : task[t] = Idle
  /\ phase' = "down"
  /\ UNCHANGED <<backend, row, secrets, task, counters, born, ack, mixed>>

\* mutant
AlwaysCreates ==
  /\ phase = "boot" /\ UNCHANGED calls
  /\ \E t \in Worker, s \in Source : Create(t, s, FileName, FileAsk, FromFile)

apply_sources ==
  /\ phase = "boot" /\ ~NameTwice /\ UNCHANGED calls
  /\ \E t \in Worker, s \in Source :
       \/ row[s].live /\ row[s].name = FileName
          /\ Update(t, s, "", TRUE, FileAsk, FromFile)
       \/ (\A o \in Source : ~(row[o].live /\ row[o].name = FileName))
          /\ Create(t, s, FileName, FileAsk, FromFile)

----------------------------------------------------------------------------
(***************************************************************************)
(* The reads, and the checks on them.                                      *)
(***************************************************************************)
ReadRow(t) ==
  LET tk == task[t] IN
  /\ tk.pc = "read"
  /\ IF row[tk.src].live
     THEN /\ Goto(t, [tk EXCEPT !.seen = row[tk.src], !.left = Fields,
                    !.pc = IF tk.op = "run" THEN "migrate" ELSE "snapshot",
                    !.name = IF tk.name = "" THEN row[tk.src].name ELSE @])
          /\ UNCHANGED ack
     ELSE Err(t)
  /\ UNCHANGED <<backend, row, secrets, counters, born, mixed>>

\* The sets and deletes of persist_source_secrets and persist_source_config:
\* the given secrets in the order of a map, the others as the manifest has them.
Given(tk) == {k \in Field : tk.ask[k] # "omit"}
Persists(tk) ==
  LET Sets == {Op(0, k, IF tk.ask[k] = "new" THEN tk.ver ELSE tk.eff[k]) :
                 k \in Given(tk)}
      Prunes == {Op(i, Fields[i], Missing) :
                   i \in {j \in DOMAIN Fields : Fields[j] \notin Given(tk)}}
  IN IF tk.op = "create" THEN Sets ELSE Sets \cup Prunes

\* snapshot_secret_values and snapshot_source_secret_values, then
\* apply_secret_placeholders: a placeholder must stand for a secret.
Snapshot(t) ==
  LET tk == task[t]
      next == [tk EXCEPT !.had = [k \in Field |-> get(tk.src, k)],
                         !.eff = [k \in Field |-> Effective(tk.src, k)]]
      refused == tk.sets /\ \E k \in Field : tk.ask[k] = "keep"
                                             /\ next.eff[k] = Missing
  IN /\ tk.pc = "snapshot" /\ Readable
     /\ IF refused THEN Err(t)
        ELSE /\ Goto(t, IF tk.op = "update" THEN [next EXCEPT !.pc = "commit"]
                        ELSE [next EXCEPT !.pc = "store",
                                          !.todo = Restores(NoSecret)])
             /\ UNCHANGED ack
     /\ UNCHANGED <<backend, row, secrets, counters, born, mixed>>

----------------------------------------------------------------------------
(***************************************************************************)
(* The database's part of each call; DbFails is the same step failing.     *)
(***************************************************************************)
\* SourceRepository::insert of create_source, then replace_all.
Insert(t) ==
  LET tk == task[t] IN
  /\ tk.pc = "insert"
  /\ row' = [row EXCEPT ![tk.src] = [NoRow EXCEPT !.live = TRUE,
                                                  !.name = tk.name]]
  /\ born' = born \cup {tk.src}
  /\ Goto(t, [tk EXCEPT !.pc = "configure"])
  /\ UNCHANGED <<backend, secrets, counters, ack, mixed>>

\* A configuration has no row to refer to once the source is gone: its keys
\* are refused, but there need not be any besides the secrets.
Configure(t) ==
  LET tk == task[t] IN
  /\ tk.pc = "configure"
  /\ IF row[tk.src].live
     THEN /\ row' = [row EXCEPT ![tk.src].conf = tk.ver]
          /\ Goto(t, [tk EXCEPT !.pc = "store", !.todo = Persists(tk)])
     ELSE /\ UNCHANGED row
          /\ \/ Goto(t, [tk EXCEPT !.pc = "unmake", !.undo = TRUE])
             \/ Goto(t, [tk EXCEPT !.pc = "store", !.todo = Persists(tk)])
  /\ UNCHANGED <<backend, secrets, counters, born, ack, mixed>>

\* mutant
UpsertRow(s, r) == row' = [row EXCEPT ![s] = [r EXCEPT !.live = TRUE]]

\* update_source_in_transaction and SourceRepository::update: every column
\* of the row as it was read, and nothing if the row is gone.
UpdateRow(s, r) ==
  row' = IF row[s].live THEN [row EXCEPT ![s] = r] ELSE row

\* The transaction of update_source.  If the source is gone it fails with the
\* configuration's first key, or changes nothing and goes on to the secrets.
Commit(t) ==
  LET tk == task[t]
      r == [tk.seen EXCEPT !.name = tk.name,
              !.conf = IF tk.sets THEN tk.ver ELSE row[tk.src].conf]
  IN /\ tk.pc = "commit"
     /\ IF tk.sets /\ ~row[tk.src].live
        THEN /\ UNCHANGED row
             /\ \/ Err(t)
                \/ Goto(t, [tk EXCEPT !.pc = "store", !.todo = Persists(tk)])
                   /\ UNCHANGED ack
        ELSE /\ UpdateRow(tk.src, r)
             /\ IF tk.sets
                THEN Goto(t, [tk EXCEPT !.pc = "store", !.todo = Persists(tk)])
                     /\ UNCHANGED ack
                ELSE Succeed(t)
     /\ UNCHANGED <<backend, secrets, counters, born, mixed>>

\* The row goes, and its configuration with it.
Drop(t) ==
  LET tk == task[t] IN
  /\ tk.pc = "drop"
  /\ row' = [row EXCEPT ![tk.src] = NoRow]
  /\ Succeed(t)
  /\ UNCHANGED <<backend, secrets, counters, born, mixed>>

\* mutant
KeepNewRow(t) ==
  LET tk == task[t] IN
  /\ tk.pc = "revert"
  /\ Goto(t, [tk EXCEPT !.pc = "store", !.todo = Restores(tk.had)])
  /\ UNCHANGED <<backend, row, secrets, counters, born, ack, mixed>>

\* What update_source puts back when its secrets could not be written.
Revert(t) ==
  LET tk == task[t] IN
  /\ tk.pc = "revert"
  /\ UpdateRow(tk.src, tk.seen)
  /\ Goto(t, [tk EXCEPT !.pc = "store", !.todo = Restores(tk.had)])
  /\ UNCHANGED <<backend, secrets, counters, born, ack, mixed>>

\* What create_source takes away again.
Forgets(tk) == {Op(0, k, Missing) : k \in Given(tk)}

Unmake(t) ==
  LET tk == task[t] IN
  /\ tk.pc = "unmake"
  /\ row' = [row EXCEPT ![tk.src] = NoRow]
  /\ Goto(t, [tk EXCEPT !.pc = "store", !.todo = Forgets(tk)])
  /\ UNCHANGED <<backend, secrets, counters, born, ack, mixed>>

DbFails(t) ==
  LET tk == task[t] IN
  /\ Upset
  /\ \/ /\ tk.pc \in {"read", "insert", "commit", "stage"}
        /\ Err(t) /\ UNCHANGED mixed
     \/ /\ tk.pc = "configure"
        /\ Goto(t, [tk EXCEPT !.pc = "unmake", !.undo = TRUE])
        /\ UNCHANGED <<ack, mixed>>
     \/ /\ tk.pc = "drop"
        /\ Goto(t, [tk EXCEPT !.pc = "store", !.undo = TRUE,
                              !.todo = Restores(tk.had)])
        /\ UNCHANGED <<ack, mixed>>
     \/ /\ tk.pc = "revert" /\ Mix(tk.src)
        /\ Goto(t, [tk EXCEPT !.pc = "store", !.todo = Restores(tk.had)])
        /\ UNCHANGED ack
     \/ /\ tk.pc = "unmake" /\ Mix(tk.src)
        /\ Goto(t, [tk EXCEPT !.pc = "store", !.todo = Forgets(tk)])
        /\ UNCHANGED ack
  /\ UNCHANGED <<backend, row, secrets, born>>

----------------------------------------------------------------------------
(***************************************************************************)
(* One call of the secret store.  Memory and environment overrides change  *)
(* under one lock; the file is read and written back under its mutex; the  *)
(* keyring has no lock, and its index follows the entry.                   *)
(***************************************************************************)
First(t) == {op \in task[t].todo : \A o \in task[t].todo : op.at <= o.at}
Storing(t, sub, op) ==
  /\ task[t].pc = "store" /\ task[t].sub = sub
  /\ IF sub = 0 THEN op \in First(t) ELSE op = task[t].call
Returned(t, op) ==
  Goto(t, [task[t] EXCEPT !.todo = @ \ {op}, !.sub = 0, !.call = NoOp,
                          !.file = NoFile, !.keys = {}])
StoreFrame == UNCHANGED <<backend, row, counters, born, ack, mixed>>

MapSet(t, op) ==
  /\ Storing(t, 0, op) /\ Volatile
  /\ data' = Put(data, task[t].src, op)
  /\ Returned(t, op)
  /\ StoreFrame /\ UNCHANGED <<index, holder>>

\* mutant
LoadUnlocked(t, op) ==
  /\ Storing(t, 0, op) /\ backend = "file"
  /\ holder' = t
  /\ Goto(t, [task[t] EXCEPT !.sub = 1, !.call = op, !.file = data])
  /\ StoreFrame /\ UNCHANGED <<data, index>>

FileLoad(t, op) ==
  /\ Storing(t, 0, op) /\ backend = "file"
  /\ holder = Nobody /\ holder' = t
  /\ Goto(t, [task[t] EXCEPT !.sub = 1, !.call = op, !.file = data])
  /\ StoreFrame /\ UNCHANGED <<data, index>>

FileSave(t, op) ==
  /\ Storing(t, 1, op) /\ backend = "file"
  /\ data' = Put(task[t].file, task[t].src, op)
  /\ holder' = Nobody
  /\ Returned(t, op)
  /\ StoreFrame /\ UNCHANGED index

EntrySet(t, op) ==
  /\ Storing(t, 0, op) /\ backend = "keyring"
  /\ data' = Put(data, task[t].src, op)
  /\ Goto(t, [task[t] EXCEPT !.sub = 1, !.call = op])
  /\ StoreFrame /\ UNCHANGED <<index, holder>>

IndexLoad(t, op) ==
  /\ Storing(t, 1, op) /\ backend = "keyring"
  /\ Goto(t, [task[t] EXCEPT !.sub = 2, !.keys = index[task[t].src]])
  /\ StoreFrame /\ UNCHANGED secrets

\* mutant
IndexGrows(keys, op) == keys \cup {op.key}

Indexed(keys, op) ==
  IF op.val = Missing THEN keys \ {op.key} ELSE keys \cup {op.key}

IndexSave(t, op) ==
  /\ Storing(t, 2, op) /\ backend = "keyring"
  /\ index' = [index EXCEPT ![task[t].src] = Indexed(task[t].keys, op)]
  /\ Returned(t, op)
  /\ StoreFrame /\ UNCHANGED <<data, holder>>

\* The call fails.  The file may have been replaced when setting its mode
\* fails; an undo ignores the error, create_source key by key.
StoreFails(t, op) ==
  LET tk == task[t] IN
  /\ Storing(t, tk.sub, op) /\ ~Volatile
  /\ backend = "file" => holder \in {t, Nobody}
  /\ Upset
  /\ holder' = Nobody
  /\ \/ UNCHANGED data
     \/ backend = "file" /\ tk.sub = 1 /\ data' = Put(tk.file, tk.src, op)
  /\ \/ /\ tk.op \in {"update", "create", "delete"} /\ ~tk.undo
        /\ Goto(t, [tk EXCEPT !.undo = TRUE, !.sub = 0, !.call = NoOp,
                     !.file = NoFile, !.keys = {},
                     !.pc = CASE tk.op = "update" -> "revert"
                              [] tk.op = "create" -> "unmake"
                              [] OTHER -> "store",
                     !.todo = Restores(tk.had)])
        /\ UNCHANGED <<ack, mixed>>
     \/ /\ tk.op = "create" /\ tk.undo /\ Mix(tk.src)
        /\ Returned(t, op) /\ UNCHANGED ack
     \/ /\ (tk.op = "run" \/ (tk.op # "create" /\ tk.undo))
        /\ Mix(tk.src) /\ Err(t)
  /\ UNCHANGED <<backend, row, index, born>>

\* All store calls of this part of the call returned.
Stored(t) ==
  LET tk == task[t] IN
  /\ tk.pc = "store" /\ tk.todo = {}
  /\ CASE tk.undo -> Err(t)
       [] tk.op = "delete" /\ ~tk.undo ->
            Goto(t, [tk EXCEPT !.pc = "drop"]) /\ UNCHANGED ack
       [] tk.op = "run" /\ tk.stage = "" ->
            Goto(t, [tk EXCEPT !.pc = "migrate"]) /\ UNCHANGED ack
       [] tk.op = "run" /\ tk.stage # "" ->
            /\ Goto(t, [tk EXCEPT !.pc = "stage"])
            /\ ack' = [ack EXCEPT ![tk.src].sec[ScriptField] = tk.ver]
       [] OTHER -> Succeed(t)
  /\ UNCHANGED <<backend, row, secrets, counters, born, mixed>>

----------------------------------------------------------------------------
(***************************************************************************)
(* A script run: get_source_for_runtime copies secrets out of the legacy   *)
(* scope, then login (without a state), refresh and fetch run in order.    *)
(***************************************************************************)
MigrateKey(t) ==
  LET tk == task[t]
      k == Head(tk.left)
      next == [tk EXCEPT !.left = Tail(@)]
  IN /\ tk.pc = "migrate" /\ tk.left # <<>> /\ Readable
     /\ Goto(t, IF get(tk.src, k) = Missing /\ get(Plugin, k) # Missing
                THEN [next EXCEPT !.pc = "store",
                                  !.todo = {Op(0, k, get(Plugin, k))}]
                ELSE next)
     /\ UNCHANGED <<backend, row, secrets, counters, born, ack, mixed>>

Migrated(t) ==
  LET tk == task[t] IN
  /\ tk.pc = "migrate" /\ tk.left = <<>>
  /\ Goto(t, [tk EXCEPT !.pc = "stage",
                !.stage = IF tk.seen.state = 0 THEN "login" ELSE "refresh"])
  /\ UNCHANGED <<backend, row, secrets, counters, born, ack, mixed>>

\* secret.set of the script, at most once in a run.
SecretSet(t) ==
  LET tk == task[t] IN
  /\ tk.pc = "stage" /\ ~tk.sets
  /\ Goto(t, [tk EXCEPT !.sets = TRUE, !.pc = "store",
                        !.todo = {Op(0, ScriptField, tk.ver)}])
  /\ UNCHANGED <<backend, row, secrets, counters, born, ack, mixed>>

\* The stage's answer and persist_state_if_changed: a state is saved by
\* writing back the whole row read before the run.
AfterStage(t, seen) ==
  IF task[t].stage = "fetch" THEN Leave(t, TRUE)
  ELSE Goto(t, [task[t] EXCEPT !.seen = seen,
                  !.stage = IF @ = "login" THEN "refresh" ELSE "fetch"])

Stage(t) ==
  LET tk == task[t] IN
  /\ tk.pc = "stage"
  /\ \/ Err(t) /\ UNCHANGED row
     \/ AfterStage(t, tk.seen) /\ UNCHANGED <<row, ack>>
     \/ \E v \in {0, tk.ver} :
          LET seen == [tk.seen EXCEPT !.state = v]
          IN /\ UpdateRow(tk.src, [seen EXCEPT !.conf = row[tk.src].conf])
             /\ IF row[tk.src].live
                THEN /\ AfterStage(t, seen)
                     /\ ack' = [ack EXCEPT ![tk.src].row.state = v]
                ELSE Err(t)
  /\ UNCHANGED <<backend, secrets, counters, born, mixed>>

----------------------------------------------------------------------------
(***************************************************************************)
(* The process ends, in the middle of whatever it was doing, and starts    *)
(* again with what the database and a durable secret store still hold.     *)
(***************************************************************************)
Crash ==
  /\ phase # "down" /\ Upset
  /\ phase' = "down"
  /\ mixed' = mixed \cup {task[t].src : t \in {u \in Worker : task[u] # Idle}}
  /\ task' = [t \in Worker |-> Idle]
  /\ holder' = Nobody
  /\ UNCHANGED <<backend, row, data, index, born, ack>>

Restart ==
  /\ phase = "down"
  /\ phase' = "boot"
  /\ data' = Start
  /\ ack' = IF Volatile
            THEN [s \in Source |-> [ack[s] EXCEPT !.sec =
                   IF backend = "env" THEN environment[s] ELSE NoSecret]]
            ELSE ack
  /\ UNCHANGED <<backend, row, index, holder, task, counters, born, mixed>>

----------------------------------------------------------------------------
Init ==
  /\ backend \in Backends
  /\ row \in [Source -> {NoRow} \cup
                [live: {TRUE}, name: Name, conf: {Old}, state: {0}]]
  /\ \A s \in Source : row[s].live <=> s \in Existing
  /\ data = CASE backend = "memory" -> [sc \in Scope |-> NoSecret]
              [] backend = "env" -> [sc \in Scope |-> [k \in Field |-> Unset]]
              [] OTHER -> environment
  /\ index = [sc \in Scope |-> IF backend = "keyring"
                               THEN {k \in Field : data[sc][k] # Missing}
                               ELSE {}]
  /\ holder = Nobody
  /\ task = [t \in Worker |-> Idle]
  /\ phase \in {"boot", "serving"}
  /\ calls = 0 /\ upsets = 0
  /\ born = Existing
  /\ ack = [s \in Source |-> [row |-> row[s],
                              sec |-> [k \in Field |-> get(s, k)]]]
  /\ mixed = {}

Next ==
  \/ create_source \/ update_source \/ delete_source \/ execute
  \/ BootRefuses \/ apply_sources
  \/ \E t \in Worker :
       \/ ReadRow(t) \/ Snapshot(t) \/ Insert(t) \/ Configure(t) \/ Commit(t)
       \/ Drop(t) \/ Revert(t) \/ Unmake(t) \/ DbFails(t)
       \/ \E op \in task[t].todo :
            \/ MapSet(t, op) \/ FileLoad(t, op) \/ FileSave(t, op)
            \/ EntrySet(t, op) \/ IndexLoad(t, op) \/ IndexSave(t, op)
            \/ StoreFails(t, op)
       \/ Stored(t)
       \/ MigrateKey(t) \/ Migrated(t) \/ SecretSet(t) \/ Stage(t)
  \/ Crash \/ Restart

Spec == Init /\ [][Next]_vars

----------------------------------------------------------------------------
(***************************************************************************)
(* Properties.                                                             *)
(***************************************************************************)
Settled(s) == s \notin mixed /\ \A t \in Worker : task[t].src # s

\* A call on a source is whole: whatever failed once on the way, after it
\* returned the row, the configuration and the secrets are all those of the
\* last call that reported success, a deleted source has left no secret in
\* its scope, and a field without a secret falls back to the legacy scope.
CallsAreWhole ==
  \A s \in Source : Settled(s) /\ phase = "serving" =>
    /\ row[s] = ack[s].row
    /\ \A k \in Field :
         IF row[s].live
         THEN Effective(s, k) = IF ack[s].sec[k] # Missing THEN ack[s].sec[k]
                                ELSE get(Plugin, k)
         ELSE get(s, k) \in {Missing, ack[s].sec[k]}

\* The placeholders a source is shown with are true: each stands for a
\* secret a script would be given, so that it can be sent back, and outside
\* the environment every such secret has one.
MaskIsTrue ==
  \A s \in Source : Settled(s) /\ row[s].live =>
    LET secret == {k \in Field : Effective(s, k) # Missing}
    IN /\ Masked(s) \subseteq secret
       /\ backend # "env" => secret \subseteq Masked(s)

\* No late write of a call that read the row before the source was deleted
\* brings it back.
DeletedStaysDeleted ==
  [][\A s \in born : ~row[s].live => ~row'[s].live]_vars

\* A start from the configuration file that gets as far as serving has made
\* the database what the file says, whatever calls, failed calls and crashes
\* left behind: one source of that name, with its configuration and secrets.
Converged ==
  \E s \in Source :
    /\ {o \in Source : row[o].live /\ row[o].name = FileName} = {s}
    /\ row[s].conf = FromFile
    /\ \A k \in Field :
         Effective(s, k) = IF FileAsk[k] = "new" THEN FromFile
                           ELSE get(Plugin, k)

BootConverges == [][phase = "boot" /\ phase' = "serving" => Converged']_vars

\* Every backend is the map of the SecretStore trait: one call changes one
\* entry of one scope, although the file is rewritten as a whole.
Store == INSTANCE SecretMap WITH
  Key <- Field,
  Value <- Secret \ {Missing},
  map <- [sc \in Scope |-> [k \in Field |-> get(sc, k)]],
  start <- IF backend = "env" THEN environment
           ELSE [sc \in Scope |-> NoSecret],
  volatile <- Volatile

StoreIsMap == Store!Spec
=============================================================================
