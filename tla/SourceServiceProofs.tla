------------------------ MODULE SourceServiceProofs ------------------------
(***************************************************************************)
(* Theorems about SourceService, for any sources, fields, workers, calls   *)
(* and backends, any number of failed steps and crashes.                   *)
(*                                                                         *)
(* The steps of a call differ in few of the fields of its task.  The first *)
(* part shows, action by action, that a step touches only its own task and *)
(* its own source (Confined); the invariants then only look at one source  *)
(* and at the worker that is in a call on it.                              *)
(***************************************************************************)
EXTENDS SourceService, TLAPS

\* In a call, and the fields the call still has to write.
Busy(t) == task[t].pc # "idle"
Keys(t) == {op.key : op \in task[t].todo}

\* What each step of a call has behind it.
Shape(tk) ==
  /\ tk.pc = "idle" => tk = Idle
  /\ tk.pc # "idle" => tk.src \in Source
  /\ tk.pc \in {"insert", "configure", "unmake"} => tk.op = "create"
  /\ tk.pc = "read" => tk.op \in {"update", "delete", "run"}
  /\ tk.pc = "snapshot" => tk.op \in {"update", "delete"}
  /\ tk.pc \in {"commit", "revert"} => tk.op = "update"
  /\ tk.pc = "drop" => tk.op = "delete"
  /\ tk.pc \in {"migrate", "stage"} => tk.op = "run"
  /\ tk.pc = "store" => tk.op # ""
  /\ tk.undo => tk.pc \in {"store", "unmake", "revert"} /\ tk.op # "run"
  /\ tk.pc \in {"unmake", "revert"} => tk.undo
  /\ tk.op = "create" =>
       tk.had = NoSecret /\ tk.sets /\ \A k \in Field : tk.ask[k] # "keep"
  /\ tk.op = "update" /\ tk.pc \in {"store", "revert"} => tk.sets
  /\ tk.sub # 0 => tk.pc = "store" /\ tk.call \in tk.todo
  /\ tk.op = "create" /\ tk.pc = "store" =>
       \A op \in tk.todo : op.key \in Given(tk)
  /\ tk.op = "run" /\ tk.pc \in {"read", "migrate"} => tk.stage = ""
  /\ tk.pc = "stage" => tk.stage # ""

ShapeInv == \A t \in Worker : Shape(task[t])

\* A worker between load and save holds the mutex, and what it loaded is still
\* what the file says.
FileInv == \A t \in Worker : backend = "file" /\ task[t].sub = 1 =>
  holder = t /\ task[t].file = data

----------------------------------------------------------------------------
\* The constants of the module are the numbers they are, and a call's version
\* is above them.
LEMMA Values ==
  /\ MaxCalls \in Nat /\ Value = 0..(4 + MaxCalls)
  /\ Missing = 0 /\ Unset = 1 /\ Old = 2 /\ Legacy = 3 /\ FromFile = 4
  /\ {0, 2, 3, 4} \subseteq Secret /\ Secret \subseteq Value
  /\ Secret = Value \ {1}
  /\ \A n \in 0..MaxCalls : Version(n) \in Secret /\ Version(n) > 3
<1>1. MaxCalls \in Nat
  BY SourceAssumption
<1>2. /\ Value = 0..(4 + MaxCalls) /\ Missing = 0 /\ Unset = 1
      /\ Old = 2 /\ Legacy = 3 /\ FromFile = 4
  BY <1>1 DEF Value, Missing, Version, FromFile, Unset, Old, Legacy
<1>3. Secret = Value \ {1}
  BY <1>2 DEF Secret
<1>4. \A n \in 0..MaxCalls : Version(n) \in Secret /\ Version(n) > 3
  BY <1>1, <1>2, <1>3 DEF Version
<1>5. {0, 2, 3, 4} \subseteq Secret
  BY <1>1, <1>2, <1>3
<1> QED BY <1>1, <1>2, <1>3, <1>4, <1>5

\* The legacy scope is no source, and the empty name and nobody are neither.
LEMMA Scopes ==
  /\ Plugin \notin Source /\ Scope = Source \cup {Plugin}
  /\ "" \notin Source /\ Nobody \notin Worker
<1>1. Plugin \notin Source
  BY SourceAssumption
<1>2. "" \notin Source
  BY SourceAssumption
<1>3. Nobody \notin Worker
  BY SourceAssumption
<1> QED BY <1>1, <1>2, <1>3 DEF Scope

\* The empty row, secrets, call and file have their types.
LEMMA NothingTypes ==
  /\ NoRow \in Row /\ NoSecret \in Secrets
  /\ NoOp \in StoreCall \cup {NoOp}
  /\ NoFile \in [Scope -> Secrets] \cup {NoFile}
<1>1. NoRow \in Row
  BY Values DEF NoRow, Row
<1>2. NoSecret \in Secrets
  BY Values DEF NoSecret, Secrets
<1> QED BY <1>1, <1>2

\* A worker in no call has a task of the type and the shape of one.
LEMMA IdleType == Idle \in Task /\ Shape(Idle)
<1>1. <<>> \in Seq(Field)
  OBVIOUS
<1>2. Idle \in Task
  <2> HIDE DEF NoOp, NoFile, StoreCall, Row, Secrets, NoRow, NoSecret, Secret
  <2> QED BY <1>1, NothingTypes, Values DEF Idle, Task
<1>3. Shape(Idle)
  <2> HIDE DEF NoOp, NoFile, NoRow, NoSecret
  <2> QED BY DEF Shape, Idle
<1> QED BY <1>2, <1>3

\* The type of each field of a task.
LEMMA TaskFields ==
  ASSUME NEW tk \in Task
  PROVE /\ tk.pc \in {"idle", "read", "snapshot", "insert", "configure",
                      "commit", "drop", "revert", "unmake", "store",
                      "migrate", "stage"}
        /\ tk.op \in {"", "create", "update", "delete", "run"}
        /\ tk.src \in Source \cup {""} /\ tk.name \in Name \cup {""}
        /\ tk.sets \in BOOLEAN /\ tk.ask \in [Field -> {"new", "keep", "omit"}]
        /\ tk.ver \in Secret /\ tk.seen \in Row
        /\ tk.had \in Secrets /\ tk.eff \in Secrets
        /\ tk.todo \in SUBSET StoreCall /\ tk.undo \in BOOLEAN
        /\ tk.left \in Seq(Field)
        /\ tk.stage \in {"", "login", "refresh", "fetch"}
        /\ tk.sub \in 0..2 /\ tk.call \in StoreCall \cup {NoOp}
        /\ tk.file \in [Scope -> Secrets] \cup {NoFile}
        /\ tk.keys \in SUBSET Field
<1> HIDE DEF NoOp, NoFile, StoreCall, Row, Secrets, Secret
<1> QED BY DEF Task

\* The process environment gives every entry a secret or none.
LEMMA EnvironmentType == environment \in [Scope -> Secrets]
<1>1. ASSUME NEW sc \in Scope, NEW k \in Field
      PROVE (CASE sc = Plugin /\ k = Fields[Len(Fields)] -> Legacy
               [] sc \in Existing /\ k = Fields[1] -> Old
               [] OTHER -> Missing) \in Secret
  <2>1. Plugin \notin Existing
    BY SourceAssumption
  <2> QED BY <2>1, Values
<1> QED BY <1>1 DEF environment, Secrets

\* What get and the legacy fallback return is a secret or Missing, never an
\* unset override.
LEMMA GetType ==
  ASSUME TypeOK, NEW sc \in Scope, NEW k \in Field
  PROVE get(sc, k) \in Secret /\ Effective(sc, k) \in Secret
<1>1. \A o \in Scope : get(o, k) \in Secret
  <2> TAKE o \in Scope
  <2>1. data[o] \in IF backend = "env" THEN [Field -> Value] ELSE Secrets
    BY DEF TypeOK
  <2>2. environment[o][k] \in Secret
    BY EnvironmentType DEF Secrets
  <2>3. CASE backend = "env"
    BY <2>1, <2>2, <2>3, Values DEF get
  <2>4. CASE backend # "env"
    BY <2>1, <2>4 DEF get, Secrets
  <2> QED BY <2>3, <2>4
<1>2. Plugin \in Scope
  BY Scopes
<1> QED BY <1>1, <1>2 DEF Effective

\* A store call built from a place, a field and a secret is one.
LEMMA OpIn ==
  ASSUME NEW i \in Nat, NEW k \in Field, NEW v \in Secret
  PROVE Op(i, k, v) \in StoreCall
BY DEF Op, StoreCall

\* Every place of the manifest's list holds a field.
LEMMA FieldAt == \A i \in DOMAIN Fields : i \in Nat /\ Fields[i] \in Field
<1>1. Fields \in Seq(Field)
  BY SourceAssumption
<1> QED BY <1>1

\* restore_secret_values makes one call for every field, with the value that
\* was read.
LEMMA RestoresType ==
  ASSUME NEW had \in Secrets
  PROVE /\ Restores(had) \in SUBSET StoreCall
        /\ \A op \in Restores(had) : op.val = had[op.key]
        /\ \A k \in Field : \E op \in Restores(had) : op.key = k
<1>1. \A i \in DOMAIN Fields : Op(i, Fields[i], had[Fields[i]]) \in StoreCall
  BY FieldAt, OpIn DEF Secrets
<1>2. \A i \in DOMAIN Fields : /\ Op(i, Fields[i], had[Fields[i]]).key = Fields[i]
                               /\ Op(i, Fields[i], had[Fields[i]]).val = had[Fields[i]]
  BY DEF Op
<1>3. \A k \in Field : \E i \in DOMAIN Fields : Fields[i] = k
  BY DEF Field, Range
<1> QED BY <1>1, <1>2, <1>3 DEF Restores

\* persist_source_secrets writes what was asked, takes what was kept from the
\* snapshot, and an update deletes every field it was not given.
LEMMA PersistsType ==
  ASSUME NEW tk \in Task, tk.op = "create" \/ tk.op = "update"
  PROVE /\ Persists(tk) \in SUBSET StoreCall
        /\ \A op \in Persists(tk) :
             \/ op.key \in Given(tk) /\ tk.ask[op.key] = "new" /\ op.val = tk.ver
             \/ op.key \in Given(tk) /\ tk.ask[op.key] # "new" /\ op.val = tk.eff[op.key]
             \/ op.key \notin Given(tk) /\ tk.op # "create" /\ op.val = Missing
        /\ \A k \in Field : k \in Given(tk) \/ tk.op # "create" =>
             \E op \in Persists(tk) : op.key = k
<1> DEFINE v(k) == IF tk.ask[k] = "new" THEN tk.ver ELSE tk.eff[k]
           Sets == {Op(0, k, v(k)) : k \in Given(tk)}
           Prunes == {Op(i, Fields[i], Missing) :
                        i \in {j \in DOMAIN Fields : Fields[j] \notin Given(tk)}}
<1>1. Persists(tk) = IF tk.op = "create" THEN Sets ELSE Sets \cup Prunes
  BY DEF Persists
<1>2. \A k \in Given(tk) : /\ k \in Field /\ Op(0, k, v(k)) \in StoreCall
                           /\ Op(0, k, v(k)).key = k /\ Op(0, k, v(k)).val = v(k)
  <2> SUFFICES ASSUME NEW k \in Given(tk)
               PROVE /\ k \in Field /\ Op(0, k, v(k)) \in StoreCall
                     /\ Op(0, k, v(k)).key = k /\ Op(0, k, v(k)).val = v(k)
    OBVIOUS
  <2>1. k \in Field
    BY DEF Given
  <2>2. tk.ver \in Secret /\ tk.eff[k] \in Secret
    BY <2>1, TaskFields DEF Secrets
  <2>3. v(k) \in Secret
    BY <2>2
  <2> HIDE DEF v
  <2>4. Op(0, k, v(k)) \in StoreCall
    BY <2>1, <2>3, OpIn
  <2> QED BY <2>1, <2>4 DEF Op
<1>3. \A i \in DOMAIN Fields :
        /\ Fields[i] \in Field /\ Op(i, Fields[i], Missing) \in StoreCall
        /\ Op(i, Fields[i], Missing).key = Fields[i]
        /\ Op(i, Fields[i], Missing).val = Missing
  <2> SUFFICES ASSUME NEW i \in DOMAIN Fields
               PROVE /\ Fields[i] \in Field /\ Op(i, Fields[i], Missing) \in StoreCall
                     /\ Op(i, Fields[i], Missing).key = Fields[i]
                     /\ Op(i, Fields[i], Missing).val = Missing
    OBVIOUS
  <2>1. Missing \in Secret
    BY Values
  <2>2. Op(i, Fields[i], Missing) \in StoreCall
    BY <2>1, FieldAt, OpIn
  <2> QED BY <2>2, FieldAt DEF Op
<1>4. \A k \in Field : \E i \in DOMAIN Fields : Fields[i] = k
  BY DEF Field, Range
<1>5. Persists(tk) \in SUBSET StoreCall
  BY <1>1, <1>2, <1>3
<1>6. ASSUME NEW op \in Persists(tk)
      PROVE \/ op.key \in Given(tk) /\ tk.ask[op.key] = "new" /\ op.val = tk.ver
            \/ op.key \in Given(tk) /\ tk.ask[op.key] # "new" /\ op.val = tk.eff[op.key]
            \/ op.key \notin Given(tk) /\ tk.op # "create" /\ op.val = Missing
  <2>1. CASE op \in Sets
    <3>1. PICK k \in Given(tk) : op = Op(0, k, v(k))
      BY <2>1
    <3>2. op.key = k /\ op.val = v(k)
      BY <1>2, <3>1
    <3> QED BY <3>1, <3>2
  <2>2. CASE op \in Prunes /\ tk.op # "create"
    <3>1. PICK i \in DOMAIN Fields : Fields[i] \notin Given(tk) /\ op = Op(i, Fields[i], Missing)
      BY <2>2
    <3> QED BY <1>3, <2>2, <3>1
  <2> HIDE DEF Sets, Prunes
  <2> QED BY <1>1, <2>1, <2>2
<1>7. ASSUME NEW k \in Field, k \in Given(tk) \/ tk.op # "create"
      PROVE \E op \in Persists(tk) : op.key = k
  <2>1. CASE k \in Given(tk)
    BY <1>1, <1>2, <2>1
  <2>2. CASE k \notin Given(tk)
    <3>1. PICK i \in DOMAIN Fields : Fields[i] = k
      BY <1>4
    <3>2. Op(i, Fields[i], Missing) \in Prunes
      BY <2>2, <3>1
    <3> HIDE DEF Prunes
    <3> QED BY <1>1, <1>3, <1>7, <2>2, <3>1, <3>2
  <2> QED BY <2>1, <2>2
<1> QED BY <1>5, <1>6, <1>7

\* create_source deletes every field it was given.
LEMMA ForgetsType ==
  ASSUME NEW tk \in Task
  PROVE /\ Forgets(tk) \in SUBSET StoreCall
        /\ \A op \in Forgets(tk) : op.key \in Given(tk) /\ op.val = Missing
        /\ \A k \in Given(tk) : \E op \in Forgets(tk) : op.key = k
<1>1. \A k \in Given(tk) : /\ Op(0, k, Missing) \in StoreCall
                           /\ Op(0, k, Missing).key = k
                           /\ Op(0, k, Missing).val = Missing
  BY OpIn, Values DEF Given, Op, StoreCall
<1> QED BY <1>1 DEF Forgets

----------------------------------------------------------------------------
\* The sets of the fields of Task that are not named in SourceService.
PcType == {"idle", "read", "snapshot", "insert", "configure", "commit", "drop",
           "revert", "unmake", "store", "migrate", "stage"}
OpType == {"", "create", "update", "delete", "run"}
SrcType == Source \cup {""}
NameType == Name \cup {""}
AskType == [Field -> {"new", "keep", "omit"}]
TodoType == SUBSET StoreCall
LeftType == Seq(Field)
StageType == {"", "login", "refresh", "fetch"}
SubType == 0..2
CallType == StoreCall \cup {NoOp}
FileType == [Scope -> Secrets] \cup {NoFile}
KeysType == SUBSET Field

\* Task, with its field sets named.
LEMMA TaskIs ==
  Task = [pc : PcType, op : OpType, src : SrcType, name : NameType,
          sets : BOOLEAN, ask : AskType, ver : Secret, seen : Row,
          had : Secrets, eff : Secrets, todo : TodoType, undo : BOOLEAN,
          left : LeftType, stage : StageType, sub : SubType, call : CallType,
          file : FileType, keys : KeysType]
BY DEF Task, PcType, OpType, SrcType, NameType, AskType, TodoType, LeftType,
       StageType, SubType, CallType, FileType, KeysType

\* The literals the steps assign belong to the named field sets.
LEMMA Members ==
  /\ "read" \in PcType /\ "snapshot" \in PcType /\ "insert" \in PcType
  /\ "configure" \in PcType /\ "commit" \in PcType /\ "drop" \in PcType
  /\ "revert" \in PcType /\ "unmake" \in PcType /\ "store" \in PcType
  /\ "migrate" \in PcType /\ "stage" \in PcType
  /\ "create" \in OpType /\ "update" \in OpType /\ "delete" \in OpType
  /\ "run" \in OpType
  /\ "" \in StageType /\ "login" \in StageType /\ "refresh" \in StageType
  /\ "fetch" \in StageType
  /\ 0 \in SubType /\ 1 \in SubType /\ 2 \in SubType
  /\ NoOp \in CallType /\ NoFile \in FileType /\ {} \in KeysType
  /\ {} \in TodoType
BY DEF PcType, OpType, TodoType, StageType, SubType, CallType, FileType,
   KeysType

\* The named field sets are those of Task.
LEMMA Belongs ==
  /\ \A x \in Source : x \in SrcType
  /\ \A x \in Name \cup {""} : x \in NameType
  /\ \A x \in [Field -> {"new", "keep", "omit"}] : x \in AskType
  /\ \A x \in SUBSET StoreCall : x \in TodoType
  /\ \A x \in Seq(Field) : x \in LeftType
  /\ \A x \in StoreCall : x \in CallType
  /\ \A x \in [Scope -> Secrets] : x \in FileType
  /\ \A x \in SUBSET Field : x \in KeysType
BY DEF SrcType, NameType, AskType, TodoType, LeftType, CallType, FileType,
       KeysType

----------------------------------------------------------------------------
\* What a step of a call may change: its own task, the row, the secrets and the
\* answer of its own source, and what is counted.
Moved(t) ==
  /\ task' \in [Worker -> Task]
  /\ \A u \in Worker \ {t} : task'[u] = task[u]
  /\ Shape(task'[t])
  /\ task'[t] = Idle \/ task'[t].src = task[t].src

RowStep(t) ==
  /\ row' \in [Source -> Row]
  /\ \A o \in Source \ {task[t].src} : row'[o] = row[o]

SecretStep(t) ==
  /\ backend' = backend
  /\ data' \in [Scope -> IF backend = "env" THEN [Field -> Value] ELSE Secrets]
  /\ \A o \in Scope \ {task[t].src} : data'[o] = data[o] /\ index'[o] = index[o]
  /\ index' \in [Scope -> SUBSET Field] /\ holder' \in Worker \cup {Nobody}

AckStep(t) ==
  /\ ack' \in [Source -> [row : Row, sec : Secrets]]
  /\ \A o \in Source \ {task[t].src} : ack'[o] = ack[o]

RestStep(t) ==
  /\ born' \in {born, born \cup {task[t].src}} /\ born' \subseteq Source
  /\ mixed' \in {mixed, mixed \cup {task[t].src}} /\ mixed' \subseteq Source
  /\ phase' \in {"down", "boot", "serving"}
  /\ phase' = phase \/ (phase = "boot" /\ task'[t] = Idle /\ phase' # "boot")
  /\ calls' \in 0..MaxCalls /\ upsets' \in Nat

Confined(t) ==
  Moved(t) /\ RowStep(t) /\ SecretStep(t) /\ AckStep(t) /\ RestStep(t)

\* A step of a call that goes on changes its own worker's task only.
LEMMA MovesTo ==
  ASSUME TypeOK, NEW t \in Worker, NEW n \in Task, Shape(n),
         n = Idle \/ n.src = task[t].src, Goto(t, n)
  PROVE Moved(t) /\ task'[t] = n /\ phase' = phase
<1>1. task \in [Worker -> Task] /\ task' = [task EXCEPT ![t] = n] /\ phase' = phase
  BY DEF TypeOK, Goto
<1> HIDE DEF Task, Shape, Idle
<1> QED BY <1>1 DEF Moved

\* A call that returns leaves its worker idle.
LEMMA LeavesTo ==
  ASSUME TypeOK, NEW t \in Worker, NEW ok, Leave(t, ok)
  PROVE /\ Moved(t) /\ task'[t] = Idle
        /\ phase' \in {"down", "boot", "serving"}
        /\ phase' = phase \/ (phase = "boot" /\ phase' # "boot")
<1>1. task \in [Worker -> Task] /\ task' = [task EXCEPT ![t] = Idle]
  BY DEF TypeOK, Leave
<1>2. Idle \in Task /\ Shape(Idle)
  BY IdleType
<1>3. phase \in {"down", "boot", "serving"}
  BY DEF TypeOK
<1> HIDE DEF Task, Shape, Idle
<1> QED BY <1>1, <1>2, <1>3 DEF Moved, Leave

\* No row written.
LEMMA RowSame == ASSUME TypeOK, NEW t, UNCHANGED row PROVE RowStep(t)
BY DEF TypeOK, RowStep

\* One row written: that of the call's source.
LEMMA RowSet ==
  ASSUME TypeOK, NEW t \in Worker, NEW r \in Row,
         row' = [row EXCEPT ![task[t].src] = r]
  PROVE RowStep(t)
<1>1. row \in [Source -> Row]
  BY DEF TypeOK
<1> HIDE DEF Row
<1> QED BY <1>1 DEF RowStep

\* A row updated, if it is there: that of the call's source.
LEMMA RowUpdated ==
  ASSUME TypeOK, NEW t \in Worker, NEW r \in Row, UpdateRow(task[t].src, r)
  PROVE RowStep(t)
<1>1. CASE row[task[t].src].live
  BY <1>1, RowSet DEF UpdateRow
<1>2. CASE ~row[task[t].src].live
  BY <1>2, RowSame DEF UpdateRow
<1> QED BY <1>1, <1>2

\* No store call.
LEMMA SecretsSame ==
  ASSUME TypeOK, NEW t, UNCHANGED backend, UNCHANGED secrets
  PROVE SecretStep(t)
BY DEF TypeOK, SecretStep, secrets

\* Nobody is answered.
LEMMA AckSame == ASSUME TypeOK, NEW t, UNCHANGED ack PROVE AckStep(t)
BY DEF TypeOK, AckStep

\* Nothing else changes.
LEMMA RestSame ==
  ASSUME TypeOK, NEW t, UNCHANGED <<counters, born, mixed, phase>>
  PROVE RestStep(t)
BY DEF TypeOK, RestStep, counters

\* Returning changes the phase of a start and no more.
LEMMA RestLeft ==
  ASSUME TypeOK, NEW t \in Worker, NEW ok, Leave(t, ok),
         UNCHANGED <<counters, born, mixed>>
  PROVE RestStep(t)
<1>1. /\ task'[t] = Idle /\ phase' \in {"down", "boot", "serving"}
      /\ phase' = phase \/ (phase = "boot" /\ phase' # "boot")
  BY LeavesTo
<1> QED BY <1>1 DEF TypeOK, RestStep, counters

\* A failed call answers nothing that ack records.
LEMMA ErrStep ==
  ASSUME TypeOK, NEW t \in Worker, Err(t)
  PROVE /\ Moved(t) /\ AckStep(t) /\ UNCHANGED ack
        /\ UNCHANGED <<counters, born, mixed>> => RestStep(t)
BY LeavesTo, RestLeft, AckSame DEF Err

\* What a call promises is a row and its secrets.
LEMMA PromiseType ==
  ASSUME TypeOK, NEW t \in Worker, task[t].src \in Source
  PROVE Promise(t) \in [row : Row, sec : Secrets]
<1> DEFINE tk == task[t]
<1>1. tk \in Task
  BY DEF TypeOK
<1>2. /\ ack[tk.src].row \in Row /\ ack[tk.src].sec \in Secrets
      /\ ack[tk.src] \in [row : Row, sec : Secrets]
  BY DEF TypeOK
<1>3. /\ tk.name \in Name \cup {""} /\ tk.ver \in Secret /\ tk.eff \in Secrets
  BY <1>1, TaskFields
<1>4. [live |-> TRUE, name |-> tk.name, conf |-> tk.ver,
       state |-> ack[tk.src].row.state] \in Row
  BY <1>2, <1>3, Values DEF Row
<1>5. [k \in Field |-> CASE tk.ask[k] = "new" -> tk.ver
                         [] tk.ask[k] = "keep" -> tk.eff[k]
                         [] OTHER -> Missing] \in Secrets
  <2>1. \A k \in Field : (CASE tk.ask[k] = "new" -> tk.ver
                            [] tk.ask[k] = "keep" -> tk.eff[k]
                            [] OTHER -> Missing) \in Secret
    BY <1>3, Values DEF Secrets
  <2> QED BY <2>1 DEF Secrets
<1>6. [ack[tk.src] EXCEPT !.row.name = tk.name] \in [row : Row, sec : Secrets]
  BY <1>2, <1>3 DEF Row
<1>7. [row |-> NoRow, sec |-> NoSecret] \in [row : Row, sec : Secrets]
  BY NothingTypes
<1>8. CASE tk.op = "delete"
  <2>1. Promise(t) = [row |-> NoRow, sec |-> NoSecret]
    BY <1>8 DEF Promise
  <2> QED BY <1>7, <2>1
<1>9. CASE tk.op # "delete" /\ (tk.op = "create" \/ (tk.op = "update" /\ tk.sets))
  BY <1>4, <1>5, <1>9 DEF Promise
<1>10. CASE tk.op # "delete" /\ ~(tk.op = "create" \/ (tk.op = "update" /\ tk.sets))
  BY <1>6, <1>10 DEF Promise
<1> QED BY <1>8, <1>9, <1>10

\* A call that succeeds changes the answer about its own source.
LEMMA SucceedStep ==
  ASSUME TypeOK, NEW t \in Worker, task[t].src \in Source, Succeed(t)
  PROVE /\ Moved(t) /\ AckStep(t)
        /\ UNCHANGED <<counters, born, mixed>> => RestStep(t)
<1>1. Promise(t) \in [row : Row, sec : Secrets]
  BY PromiseType
<1>2. ack \in [Source -> [row : Row, sec : Secrets]]
  BY DEF TypeOK
<1>3. AckStep(t)
  BY <1>1, <1>2 DEF AckStep, Succeed
<1> QED BY <1>3, LeavesTo, RestLeft DEF Succeed

\* ReadRow of a row that is there touches its own task only.
LEMMA ReadRowLives ==
  ASSUME TypeOK, ShapeInv, NEW t \in Worker, ReadRow(t) /\ row[task[t].src].live
  PROVE Confined(t)
<1> DEFINE tk == task[t]
           pcv == IF tk.op = "run" THEN "migrate" ELSE "snapshot"
           nm == IF tk.name = "" THEN row[tk.src].name ELSE tk.name
           n == [tk EXCEPT !.seen = row[tk.src], !.left = Fields,
                    !.pc = pcv, !.name = nm]
<1>1. tk \in Task /\ Shape(tk)
  BY DEF TypeOK, ShapeInv
<1>2. tk.src \in Source /\ tk.pc = "read"
  BY <1>1 DEF ReadRow, Shape
<1>3. row[tk.src] \in Row /\ row[tk.src].name \in Name \cup {""}
  BY <1>2 DEF TypeOK, Row
<1>4. Fields \in Seq(Field)
  BY SourceAssumption
<1>5. nm \in Name \cup {""}
  BY <1>1, <1>3, TaskFields
<1>6. pcv \in {"migrate", "snapshot"}
  OBVIOUS
<1>7. n \in Task
  <2> HIDE DEF Row, Secrets, Secret, StoreCall, NoOp, NoFile, NoRow, NoSecret,
               Given
  <2> HIDE DEF pcv, nm
  <2> QED BY <1>1, <1>2, <1>3, <1>4, <1>5, <1>6, TaskIs, Members, Belongs
<1>8. Shape(n) /\ n.src = tk.src
  <2> HIDE DEF Row, Secrets, Secret, StoreCall, NoOp, NoFile, NoRow, NoSecret,
               Given
  <2> QED BY <1>1, <1>2, <1>3, <1>4, <1>5, <1>6, TaskIs DEF Shape
<1>9. Goto(t, n)
  BY DEF ReadRow
<1> HIDE DEF n
<1>10. Moved(t) /\ phase' = phase
  BY <1>7, <1>8, <1>9, MovesTo
<1>11. RowStep(t) /\ SecretStep(t) /\ AckStep(t) /\ RestStep(t)
  <2>1. RowStep(t)
    BY RowSame DEF ReadRow
  <2>2. SecretStep(t)
    BY SecretsSame DEF ReadRow
  <2>3. AckStep(t)
    BY AckSame DEF ReadRow
  <2>4. RestStep(t)
    BY <1>10, RestSame DEF ReadRow
  <2> QED BY <2>1, <2>2, <2>3, <2>4
<1> QED BY <1>10, <1>11 DEF Confined

\* Insert touches its own task and its own source only.
LEMMA InsertStep ==
  ASSUME TypeOK, ShapeInv, NEW t \in Worker, Insert(t)
  PROVE Confined(t)
<1> DEFINE tk == task[t]
           n == [tk EXCEPT !.pc = "configure"]
<1>1. tk \in Task /\ Shape(tk)
  BY DEF TypeOK, ShapeInv
<1>2. tk.src \in Source /\ tk.pc = "insert"
  BY <1>1 DEF Insert, Shape
<1>3. [NoRow EXCEPT !.live = TRUE, !.name = tk.name] \in Row
  BY <1>1, TaskFields, Values DEF NoRow, Row
<1>4. n \in Task
  <2> HIDE DEF Row, Secrets, Secret, StoreCall, NoOp, NoFile, NoRow, NoSecret,
               Given
  <2> QED BY <1>1, <1>2, <1>3, TaskIs, Members, Belongs
<1>5. Shape(n) /\ n.src = tk.src
  <2> HIDE DEF Row, Secrets, Secret, StoreCall, NoOp, NoFile, NoRow, NoSecret,
               Given
  <2> QED BY <1>1, <1>2, <1>3, TaskIs DEF Shape
<1>6. Goto(t, n)
  BY DEF Insert
<1> HIDE DEF n
<1>7. Moved(t) /\ phase' = phase
  BY <1>4, <1>5, <1>6, MovesTo
<1>8. RowStep(t) /\ SecretStep(t) /\ AckStep(t) /\ RestStep(t)
  <2>1. RowStep(t)
    BY <1>1, <1>2, <1>3, RowSet DEF Insert
  <2>2. SecretStep(t)
    BY SecretsSame DEF Insert
  <2>3. AckStep(t)
    BY AckSame DEF Insert
  <2>4. RestStep(t)
    BY <1>1, <1>2, <1>3, <1>7 DEF Insert, TypeOK, RestStep, counters
  <2> QED BY <2>1, <2>2, <2>3, <2>4
<1> QED BY <1>7, <1>8 DEF Confined

\* Configure of a row that is there touches its own task and source only.
LEMMA ConfigureLives ==
  ASSUME TypeOK, ShapeInv, NEW t \in Worker, Configure(t) /\ row[task[t].src].live
  PROVE Confined(t)
<1> DEFINE tk == task[t]
           n == [tk EXCEPT !.pc = "store", !.todo = Persists(tk)]
<1>1. tk \in Task /\ Shape(tk)
  BY DEF TypeOK, ShapeInv
<1>2. tk.src \in Source /\ tk.pc = "configure"
  BY <1>1 DEF Configure, Shape
<1>3. tk.op = "create"
  BY <1>1, <1>2 DEF Shape
<1>4. Persists(tk) \in SUBSET StoreCall /\ \A op \in Persists(tk) : op.key \in Given(tk)
  BY <1>1, <1>3, PersistsType
<1>5. row[tk.src] \in Row /\ tk.ver \in Value
  BY <1>1, <1>2, TaskFields, Values DEF TypeOK
<1>6. [row[tk.src] EXCEPT !.conf = tk.ver] \in Row
  BY <1>5 DEF Row
<1>7. row' = [row EXCEPT ![tk.src] = [row[tk.src] EXCEPT !.conf = tk.ver]]
  BY DEF Configure
<1>8. n.todo = Persists(tk) /\ Given(n) = Given(tk)
  BY <1>1 DEF Task, Given
<1>9. n \in Task
  <2> HIDE DEF Row, Secrets, Secret, StoreCall, NoOp, NoFile, NoRow, NoSecret,
               Given
  <2> QED
    BY <1>1, <1>2, <1>3, <1>4, <1>5, <1>6, <1>7, <1>8, TaskIs, Members, Belongs
<1>10. Shape(n) /\ n.src = tk.src
  <2> HIDE DEF Row, Secrets, Secret, StoreCall, NoOp, NoFile, NoRow, NoSecret,
               Given
  <2> QED BY <1>1, <1>2, <1>3, <1>4, <1>5, <1>6, <1>7, <1>8, TaskIs DEF Shape
<1>11. Goto(t, n)
  BY DEF Configure
<1> HIDE DEF n
<1>12. Moved(t) /\ phase' = phase
  BY <1>9, <1>10, <1>11, MovesTo
<1>13. RowStep(t) /\ SecretStep(t) /\ AckStep(t) /\ RestStep(t)
  <2>1. RowStep(t)
    BY <1>1, <1>2, <1>3, <1>4, <1>5, <1>6, <1>7, <1>8, RowSet
  <2>2. SecretStep(t)
    BY SecretsSame DEF Configure
  <2>3. AckStep(t)
    BY AckSame DEF Configure
  <2>4. RestStep(t)
    BY <1>12, RestSame DEF Configure
  <2> QED BY <2>1, <2>2, <2>3, <2>4
<1> QED BY <1>12, <1>13 DEF Confined

\* A call with a configuration that has no key of its own goes on to its
\* secrets although its row is gone.
Bare(t) ==
  /\ task[t].pc \in {"configure", "commit"} /\ task[t].sets
  /\ ~row[task[t].src].live
  /\ Goto(t, [task[t] EXCEPT !.pc = "store", !.todo = Persists(task[t])])
  /\ UNCHANGED <<backend, row, secrets, counters, born, ack, mixed>>

\* That step touches its own task only.
LEMMA BareStep ==
  ASSUME TypeOK, ShapeInv, NEW t \in Worker, Bare(t)
  PROVE Confined(t)
<1> DEFINE tk == task[t]
           n == [tk EXCEPT !.pc = "store", !.todo = Persists(tk)]
<1>1. tk \in Task /\ Shape(tk)
  BY DEF TypeOK, ShapeInv
<1>2. tk.src \in Source /\ tk.pc \in {"configure", "commit"} /\ tk.sets
  BY <1>1 DEF Bare, Shape
<1>3. tk.op = "create" \/ tk.op = "update"
  BY <1>1, <1>2 DEF Shape
<1>4. /\ Persists(tk) \in SUBSET StoreCall
      /\ tk.op = "create" => \A op \in Persists(tk) : op.key \in Given(tk)
  BY <1>1, <1>3, PersistsType
<1>5. n.todo = Persists(tk) /\ Given(n) = Given(tk)
  BY <1>1 DEF Task, Given
<1>6. n \in Task
  <2> HIDE DEF Row, Secrets, Secret, StoreCall, NoOp, NoFile, NoRow, NoSecret,
               Given
  <2> QED BY <1>1, <1>2, <1>3, <1>4, <1>5, TaskIs, Members, Belongs
<1>7. Shape(n) /\ n.src = tk.src
  <2> HIDE DEF Row, Secrets, Secret, StoreCall, NoOp, NoFile, NoRow, NoSecret,
               Given
  <2> QED BY <1>1, <1>2, <1>3, <1>4, <1>5, TaskIs DEF Shape
<1>8. Goto(t, n)
  BY DEF Bare
<1> HIDE DEF n
<1>9. Moved(t) /\ phase' = phase
  BY <1>6, <1>7, <1>8, MovesTo
<1>10. RowStep(t) /\ SecretStep(t) /\ AckStep(t) /\ RestStep(t)
  <2>1. RowStep(t)
    BY RowSame DEF Bare
  <2>2. SecretStep(t)
    BY SecretsSame DEF Bare
  <2>3. AckStep(t)
    BY AckSame DEF Bare
  <2>4. RestStep(t)
    BY <1>9, RestSame DEF Bare
  <2> QED BY <2>1, <2>2, <2>3, <2>4
<1> QED BY <1>9, <1>10 DEF Confined

\* Configure of a row that is gone turns to the undo, or is such a step.
LEMMA GoneConfigures ==
  ASSUME TypeOK, ShapeInv, NEW t \in Worker, Configure(t) /\ ~row[task[t].src].live
  PROVE Bare(t) \/ Goto(t, [task[t] EXCEPT !.pc = "unmake", !.undo = TRUE])
<1>1. task[t] \in Task /\ Shape(task[t]) /\ task[t].pc = "configure"
  BY DEF TypeOK, ShapeInv, Configure
<1>2. task[t].sets
  BY <1>1, TaskFields DEF Shape
<1> QED BY <1>1, <1>2 DEF Configure, Bare

\* Configure that turns to the undo touches its own task only.
LEMMA ConfigureGone ==
  ASSUME TypeOK, ShapeInv, NEW t \in Worker, Configure(t) /\ ~row[task[t].src].live,
         Goto(t, [task[t] EXCEPT !.pc = "unmake", !.undo = TRUE])
  PROVE Confined(t)
<1> DEFINE tk == task[t]
           n == [tk EXCEPT !.pc = "unmake", !.undo = TRUE]
<1>1. tk \in Task /\ Shape(tk)
  BY DEF TypeOK, ShapeInv
<1>2. tk.src \in Source /\ tk.pc = "configure"
  BY <1>1 DEF Configure, Shape
<1>3. n \in Task
  <2> HIDE DEF Row, Secrets, Secret, StoreCall, NoOp, NoFile, NoRow, NoSecret,
               Given
  <2> QED BY <1>1, <1>2, TaskIs, Members, Belongs
<1>4. Shape(n) /\ n.src = tk.src
  <2> HIDE DEF Row, Secrets, Secret, StoreCall, NoOp, NoFile, NoRow, NoSecret,
               Given
  <2> QED BY <1>1, <1>2, TaskIs DEF Shape
<1>5. Goto(t, n)
  OBVIOUS
<1> HIDE DEF n
<1>6. Moved(t) /\ phase' = phase
  BY <1>3, <1>4, <1>5, MovesTo
<1>7. RowStep(t) /\ SecretStep(t) /\ AckStep(t) /\ RestStep(t)
  <2>1. RowStep(t)
    BY RowSame DEF Configure
  <2>2. SecretStep(t)
    BY SecretsSame DEF Configure
  <2>3. AckStep(t)
    BY AckSame DEF Configure
  <2>4. RestStep(t)
    BY <1>6, RestSame DEF Configure
  <2> QED BY <2>1, <2>2, <2>3, <2>4
<1> QED BY <1>6, <1>7 DEF Confined

\* Revert touches its own task and its own source only.
LEMMA RevertStep ==
  ASSUME TypeOK, ShapeInv, NEW t \in Worker, Revert(t)
  PROVE Confined(t)
<1> DEFINE tk == task[t]
           n == [tk EXCEPT !.pc = "store", !.todo = Restores(tk.had)]
<1>1. tk \in Task /\ Shape(tk)
  BY DEF TypeOK, ShapeInv
<1>2. tk.src \in Source /\ tk.pc = "revert"
  BY <1>1 DEF Revert, Shape
<1>3. tk.op = "update" /\ tk.seen \in Row /\ tk.had \in Secrets
  BY <1>1, <1>2, TaskFields DEF Shape
<1>4. Restores(tk.had) \in SUBSET StoreCall
  BY <1>3, RestoresType
<1>5. n \in Task
  <2> HIDE DEF Row, Secrets, Secret, StoreCall, NoOp, NoFile, NoRow, NoSecret,
               Given
  <2> QED BY <1>1, <1>2, <1>3, <1>4, TaskIs, Members, Belongs
<1>6. Shape(n) /\ n.src = tk.src
  <2> HIDE DEF Row, Secrets, Secret, StoreCall, NoOp, NoFile, NoRow, NoSecret,
               Given
  <2> QED BY <1>1, <1>2, <1>3, <1>4, TaskIs DEF Shape
<1>7. Goto(t, n)
  BY DEF Revert
<1> HIDE DEF n
<1>8. Moved(t) /\ phase' = phase
  BY <1>5, <1>6, <1>7, MovesTo
<1>9. RowStep(t) /\ SecretStep(t) /\ AckStep(t) /\ RestStep(t)
  <2>1. RowStep(t)
    BY <1>1, <1>2, <1>3, <1>4, RowUpdated DEF Revert
  <2>2. SecretStep(t)
    BY SecretsSame DEF Revert
  <2>3. AckStep(t)
    BY AckSame DEF Revert
  <2>4. RestStep(t)
    BY <1>8, RestSame DEF Revert
  <2> QED BY <2>1, <2>2, <2>3, <2>4
<1> QED BY <1>8, <1>9 DEF Confined

\* Unmake touches its own task and its own source only.
LEMMA UnmakeStep ==
  ASSUME TypeOK, ShapeInv, NEW t \in Worker, Unmake(t)
  PROVE Confined(t)
<1> DEFINE tk == task[t]
           n == [tk EXCEPT !.pc = "store", !.todo = Forgets(tk)]
<1>1. tk \in Task /\ Shape(tk)
  BY DEF TypeOK, ShapeInv
<1>2. tk.src \in Source /\ tk.pc = "unmake"
  BY <1>1 DEF Unmake, Shape
<1>3. tk.op = "create"
  BY <1>1, <1>2 DEF Shape
<1>4. Forgets(tk) \in SUBSET StoreCall /\ \A op \in Forgets(tk) : op.key \in Given(tk)
  BY <1>1, ForgetsType
<1>5. NoRow \in Row
  BY NothingTypes
<1>6. n.todo = Forgets(tk) /\ Given(n) = Given(tk)
  BY <1>1 DEF Task, Given
<1>7. n \in Task
  <2> HIDE DEF Row, Secrets, Secret, StoreCall, NoOp, NoFile, NoRow, NoSecret,
               Given
  <2> QED BY <1>1, <1>2, <1>3, <1>4, <1>5, <1>6, TaskIs, Members, Belongs
<1>8. Shape(n) /\ n.src = tk.src
  <2> HIDE DEF Row, Secrets, Secret, StoreCall, NoOp, NoFile, NoRow, NoSecret,
               Given
  <2> QED BY <1>1, <1>2, <1>3, <1>4, <1>5, <1>6, TaskIs DEF Shape
<1>9. Goto(t, n)
  BY DEF Unmake
<1> HIDE DEF n
<1>10. Moved(t) /\ phase' = phase
  BY <1>7, <1>8, <1>9, MovesTo
<1>11. RowStep(t) /\ SecretStep(t) /\ AckStep(t) /\ RestStep(t)
  <2>1. RowStep(t)
    BY <1>1, <1>2, <1>3, <1>4, <1>5, <1>6, RowSet DEF Unmake
  <2>2. SecretStep(t)
    BY SecretsSame DEF Unmake
  <2>3. AckStep(t)
    BY AckSame DEF Unmake
  <2>4. RestStep(t)
    BY <1>10, RestSame DEF Unmake
  <2> QED BY <2>1, <2>2, <2>3, <2>4
<1> QED BY <1>10, <1>11 DEF Confined

\* Migrated touches its own task and its own source only.
LEMMA MigratedStep ==
  ASSUME TypeOK, ShapeInv, NEW t \in Worker, Migrated(t)
  PROVE Confined(t)
<1> DEFINE tk == task[t]
           n == [tk EXCEPT !.pc = "stage",
                !.stage = IF tk.seen.state = 0 THEN "login" ELSE "refresh"]
<1>1. tk \in Task /\ Shape(tk)
  BY DEF TypeOK, ShapeInv
<1>2. tk.src \in Source /\ tk.pc = "migrate"
  BY <1>1 DEF Migrated, Shape
<1>3. n \in Task
  <2> HIDE DEF Row, Secrets, Secret, StoreCall, NoOp, NoFile, NoRow, NoSecret,
               Given
  <2> QED BY <1>1, <1>2, TaskIs, Members, Belongs
<1>4. Shape(n) /\ n.src = tk.src
  <2> HIDE DEF Row, Secrets, Secret, StoreCall, NoOp, NoFile, NoRow, NoSecret,
               Given
  <2> QED BY <1>1, <1>2, TaskIs DEF Shape
<1>5. Goto(t, n)
  BY DEF Migrated
<1> HIDE DEF n
<1>6. Moved(t) /\ phase' = phase
  BY <1>3, <1>4, <1>5, MovesTo
<1>7. RowStep(t) /\ SecretStep(t) /\ AckStep(t) /\ RestStep(t)
  <2>1. RowStep(t)
    BY RowSame DEF Migrated
  <2>2. SecretStep(t)
    BY SecretsSame DEF Migrated
  <2>3. AckStep(t)
    BY AckSame DEF Migrated
  <2>4. RestStep(t)
    BY <1>6, RestSame DEF Migrated
  <2> QED BY <2>1, <2>2, <2>3, <2>4
<1> QED BY <1>6, <1>7 DEF Confined

\* SecretSet touches its own task and its own source only.
LEMMA SecretSetStep ==
  ASSUME TypeOK, ShapeInv, NEW t \in Worker, SecretSet(t)
  PROVE Confined(t)
<1> DEFINE tk == task[t]
           n == [tk EXCEPT !.sets = TRUE, !.pc = "store",
                        !.todo = {Op(0, ScriptField, tk.ver)}]
<1>1. tk \in Task /\ Shape(tk)
  BY DEF TypeOK, ShapeInv
<1>2. tk.src \in Source /\ tk.pc = "stage"
  BY <1>1 DEF SecretSet, Shape
<1>3. tk.op = "run"
  BY <1>1, <1>2 DEF Shape
<1>4. ScriptField \in Field
  BY SourceAssumption
<1>5. tk.ver \in Secret /\ 0 \in Nat
  BY <1>1, TaskFields
<1>6. Op(0, ScriptField, tk.ver) \in StoreCall
  BY <1>4, <1>5, OpIn
<1>7. {Op(0, ScriptField, tk.ver)} \in SUBSET StoreCall
  BY <1>6
<1>8. n \in Task
  <2> HIDE DEF Row, Secrets, Secret, StoreCall, NoOp, NoFile, NoRow, NoSecret,
               Given
  <2> QED BY <1>1, <1>2, <1>3, <1>4, <1>5, <1>6, <1>7, TaskIs, Members, Belongs
<1>9. Shape(n) /\ n.src = tk.src
  <2> HIDE DEF Row, Secrets, Secret, StoreCall, NoOp, NoFile, NoRow, NoSecret,
               Given
  <2> QED BY <1>1, <1>2, <1>3, <1>4, <1>5, <1>6, <1>7, TaskIs DEF Shape
<1>10. Goto(t, n)
  BY DEF SecretSet
<1> HIDE DEF n
<1>11. Moved(t) /\ phase' = phase
  BY <1>8, <1>9, <1>10, MovesTo
<1>12. RowStep(t) /\ SecretStep(t) /\ AckStep(t) /\ RestStep(t)
  <2>1. RowStep(t)
    BY RowSame DEF SecretSet
  <2>2. SecretStep(t)
    BY SecretsSame DEF SecretSet
  <2>3. AckStep(t)
    BY AckSame DEF SecretSet
  <2>4. RestStep(t)
    BY <1>11, RestSame DEF SecretSet
  <2> QED BY <2>1, <2>2, <2>3, <2>4
<1> QED BY <1>11, <1>12 DEF Confined

Refused(t) == task[t].sets /\ \E k \in Field : task[t].ask[k] = "keep"
                                              /\ Effective(task[t].src, k) = Missing

\* A Snapshot that refuses a placeholder returns.
LEMMA SnapshotRefused ==
  ASSUME TypeOK, NEW t \in Worker, Snapshot(t), Refused(t)
  PROVE Err(t) /\ UNCHANGED <<backend, row, secrets, counters, born, mixed>>
<1> DEFINE ef == [k \in Field |-> Effective(task[t].src, k)]
           hd == [k \in Field |-> get(task[t].src, k)]
<1>1. task[t] \in Task
  BY DEF TypeOK
<1>2. [task[t] EXCEPT !.had = hd, !.eff = ef].eff = ef
  BY <1>1 DEF Task
<1>3. \E k \in Field : task[t].ask[k] = "keep" /\ ef[k] = Missing
  BY DEF Refused
<1> QED BY <1>2, <1>3 DEF Snapshot, Refused

\* Snapshot of an update touches its own task only.
LEMMA SnapshotUpdate ==
  ASSUME TypeOK, ShapeInv, NEW t \in Worker, Snapshot(t) /\ task[t].op = "update" /\ ~Refused(t)
  PROVE Confined(t)
<1> DEFINE tk == task[t]
           hd == [k \in Field |-> get(tk.src, k)]
           ef == [k \in Field |-> Effective(tk.src, k)]
           n == [tk EXCEPT !.had = hd, !.eff = ef, !.pc = "commit"]
<1>1. tk \in Task /\ Shape(tk)
  BY DEF TypeOK, ShapeInv
<1>2. tk.src \in Source /\ tk.pc = "snapshot"
  BY <1>1 DEF Snapshot, Shape
<1>3. UNCHANGED ack
  BY DEF Snapshot, Err
<1>4. hd \in Secrets /\ ef \in Secrets
  BY <1>2, GetType, Scopes DEF Secrets
<1>5. Restores(NoSecret) \in SUBSET StoreCall
  BY NothingTypes, RestoresType
<1>6. tk.op \in {"update", "delete"}
  BY <1>1, <1>2 DEF Shape
<1>7. n \in Task
  <2> HIDE DEF Row, Secrets, Secret, StoreCall, NoOp, NoFile, NoRow, NoSecret,
               Given
  <2> HIDE DEF hd, ef
  <2> QED BY <1>1, <1>2, <1>3, <1>4, <1>5, <1>6, TaskIs, Members, Belongs
<1>8. Shape(n) /\ n.src = tk.src
  <2> HIDE DEF Row, Secrets, Secret, StoreCall, NoOp, NoFile, NoRow, NoSecret,
               Given
  <2> QED BY <1>1, <1>2, <1>3, <1>4, <1>5, <1>6, TaskIs DEF Shape
<1>9. Goto(t, n)
  BY DEF Snapshot, Refused
<1> HIDE DEF n
<1>10. Moved(t) /\ phase' = phase
  BY <1>7, <1>8, <1>9, MovesTo
<1>11. RowStep(t) /\ SecretStep(t) /\ AckStep(t) /\ RestStep(t)
  <2>1. RowStep(t)
    BY RowSame DEF Snapshot, Err
  <2>2. SecretStep(t)
    BY SecretsSame DEF Snapshot, Err
  <2>3. AckStep(t)
    BY AckSame DEF Snapshot, Err
  <2>4. RestStep(t)
    BY <1>10, RestSame DEF Snapshot, Err
  <2> QED BY <2>1, <2>2, <2>3, <2>4
<1> QED BY <1>10, <1>11 DEF Confined

\* Snapshot of a delete touches its own task only.
LEMMA SnapshotDelete ==
  ASSUME TypeOK, ShapeInv, NEW t \in Worker, Snapshot(t) /\ task[t].op # "update" /\ ~Refused(t)
  PROVE Confined(t)
<1> DEFINE tk == task[t]
           hd == [k \in Field |-> get(tk.src, k)]
           ef == [k \in Field |-> Effective(tk.src, k)]
           n == [tk EXCEPT !.had = hd, !.eff = ef, !.pc = "store",
                          !.todo = Restores(NoSecret)]
<1>1. tk \in Task /\ Shape(tk)
  BY DEF TypeOK, ShapeInv
<1>2. tk.src \in Source /\ tk.pc = "snapshot"
  BY <1>1 DEF Snapshot, Shape
<1>3. UNCHANGED ack
  BY DEF Snapshot, Err
<1>4. hd \in Secrets /\ ef \in Secrets
  BY <1>2, GetType, Scopes DEF Secrets
<1>5. Restores(NoSecret) \in SUBSET StoreCall
  BY NothingTypes, RestoresType
<1>6. tk.op \in {"update", "delete"}
  BY <1>1, <1>2 DEF Shape
<1>7. n \in Task
  <2> HIDE DEF Row, Secrets, Secret, StoreCall, NoOp, NoFile, NoRow, NoSecret,
               Given
  <2> HIDE DEF hd, ef
  <2> QED BY <1>1, <1>2, <1>3, <1>4, <1>5, <1>6, TaskIs, Members, Belongs
<1>8. Shape(n) /\ n.src = tk.src
  <2> HIDE DEF Row, Secrets, Secret, StoreCall, NoOp, NoFile, NoRow, NoSecret,
               Given
  <2> QED BY <1>1, <1>2, <1>3, <1>4, <1>5, <1>6, TaskIs DEF Shape
<1>9. Goto(t, n)
  BY DEF Snapshot, Refused
<1> HIDE DEF n
<1>10. Moved(t) /\ phase' = phase
  BY <1>7, <1>8, <1>9, MovesTo
<1>11. RowStep(t) /\ SecretStep(t) /\ AckStep(t) /\ RestStep(t)
  <2>1. RowStep(t)
    BY RowSame DEF Snapshot, Err
  <2>2. SecretStep(t)
    BY SecretsSame DEF Snapshot, Err
  <2>3. AckStep(t)
    BY AckSame DEF Snapshot, Err
  <2>4. RestStep(t)
    BY <1>10, RestSame DEF Snapshot, Err
  <2> QED BY <2>1, <2>2, <2>3, <2>4
<1> QED BY <1>10, <1>11 DEF Confined

\* Commit of a configuration touches its own task and source only.
LEMMA CommitSets ==
  ASSUME TypeOK, ShapeInv, NEW t \in Worker, Commit(t) /\ task[t].sets /\ row[task[t].src].live
  PROVE Confined(t)
<1> DEFINE tk == task[t]
           n == [tk EXCEPT !.pc = "store", !.todo = Persists(tk)]
<1>1. tk \in Task /\ Shape(tk)
  BY DEF TypeOK, ShapeInv
<1>2. tk.src \in Source /\ tk.pc = "commit"
  BY <1>1 DEF Commit, Shape
<1>3. tk.op = "update" /\ tk.seen \in Row /\ row[tk.src] \in Row
  BY <1>1, <1>2, TaskFields DEF Shape, TypeOK
<1>4. Persists(tk) \in SUBSET StoreCall
  BY <1>1, <1>3, PersistsType
<1>5. [tk.seen EXCEPT !.name = tk.name, !.conf = IF tk.sets THEN tk.ver ELSE row[tk.src].conf] \in Row
  BY <1>1, <1>3, TaskFields, Values DEF Row
<1>6. n \in Task
  <2> HIDE DEF Row, Secrets, Secret, StoreCall, NoOp, NoFile, NoRow, NoSecret,
               Given
  <2> QED BY <1>1, <1>2, <1>3, <1>4, <1>5, TaskIs, Members, Belongs
<1>7. Shape(n) /\ n.src = tk.src
  <2> HIDE DEF Row, Secrets, Secret, StoreCall, NoOp, NoFile, NoRow, NoSecret,
               Given
  <2> QED BY <1>1, <1>2, <1>3, <1>4, <1>5, TaskIs DEF Shape
<1>8. Goto(t, n)
  BY DEF Commit
<1> HIDE DEF n
<1>9. Moved(t) /\ phase' = phase
  BY <1>6, <1>7, <1>8, MovesTo
<1>10. RowStep(t) /\ SecretStep(t) /\ AckStep(t) /\ RestStep(t)
  <2>1. RowStep(t)
    BY <1>1, <1>2, <1>3, <1>4, <1>5, RowUpdated DEF Commit
  <2>2. SecretStep(t)
    BY SecretsSame DEF Commit
  <2>3. AckStep(t)
    BY AckSame DEF Commit
  <2>4. RestStep(t)
    BY <1>9, RestSame DEF Commit
  <2> QED BY <2>1, <2>2, <2>3, <2>4
<1> QED BY <1>9, <1>10 DEF Confined

\* Commit of a name touches its own task and source only.
LEMMA CommitRenames ==
  ASSUME TypeOK, ShapeInv, NEW t \in Worker, Commit(t), ~task[t].sets
  PROVE Confined(t) /\ task'[t] = Idle
<1> DEFINE tk == task[t]
           r == [tk.seen EXCEPT !.name = tk.name, !.conf = row[tk.src].conf]
<1>1. tk \in Task /\ Shape(tk) /\ tk.pc = "commit"
  BY DEF TypeOK, ShapeInv, Commit
<1>2. tk.src \in Source /\ tk.seen \in Row
  BY <1>1, TaskFields DEF Shape
<1>3. r \in Row
  <2>1. row[tk.src] \in Row /\ tk.name \in Name \cup {""}
    BY <1>1, <1>2, TaskFields DEF TypeOK
  <2> QED BY <1>2, <2>1 DEF Row
<1>4. UpdateRow(tk.src, r) /\ Succeed(t)
  BY DEF Commit
<1>5. Moved(t) /\ AckStep(t) /\ RestStep(t) /\ task'[t] = Idle
  BY <1>2, <1>4, SucceedStep, LeavesTo DEF Commit, Succeed
<1>6. RowStep(t)
  <2> HIDE DEF r
  <2> QED BY <1>3, <1>4, RowUpdated
<1>7. SecretStep(t)
  BY SecretsSame DEF Commit
<1> QED BY <1>5, <1>6, <1>7 DEF Confined

\* Drop touches its own task and its own source only.
LEMMA DropStep ==
  ASSUME TypeOK, ShapeInv, NEW t \in Worker, Drop(t)
  PROVE Confined(t) /\ task'[t] = Idle
<1>1. task[t] \in Task /\ task[t].src \in Source
  BY DEF TypeOK, ShapeInv, Drop, Shape
<1>2. Moved(t) /\ AckStep(t) /\ RestStep(t) /\ task'[t] = Idle
  BY <1>1, SucceedStep, LeavesTo DEF Drop, Succeed
<1>3. RowStep(t)
  BY NothingTypes, RowSet DEF Drop
<1>4. SecretStep(t)
  BY SecretsSame DEF Drop
<1> QED BY <1>2, <1>3, <1>4 DEF Confined

\* A step that ends in an error and leaves everything else alone.
LEMMA FailedStep ==
  ASSUME TypeOK, NEW t \in Worker, Err(t),
         UNCHANGED <<backend, row, secrets, born, mixed, calls>>, upsets' \in Nat
  PROVE Confined(t) /\ task'[t] = Idle
<1>1. Moved(t) /\ AckStep(t) /\ task'[t] = Idle
  BY ErrStep, LeavesTo DEF Err
<1>2. RowStep(t) /\ SecretStep(t)
  BY RowSame, SecretsSame
<1>3. RestStep(t)
  BY LeavesTo DEF Err, TypeOK, RestStep
<1> QED BY <1>1, <1>2, <1>3 DEF Confined

DbFailsAt(t, pc) == DbFails(t) /\ task[t].pc = pc

\* A failed Configure turns to the undo.
LEMMA DbFailsConfigure ==
  ASSUME TypeOK, ShapeInv, NEW t \in Worker, DbFailsAt(t, "configure")
  PROVE Confined(t)
<1> DEFINE tk == task[t]
           n == [tk EXCEPT !.pc = "unmake", !.undo = TRUE]
<1>1. tk \in Task /\ Shape(tk)
  BY DEF TypeOK, ShapeInv
<1>2. tk.src \in Source /\ tk.pc = "configure"
  BY <1>1 DEF DbFailsAt, Shape
<1>3. n \in Task
  <2> HIDE DEF Row, Secrets, Secret, StoreCall, NoOp, NoFile, NoRow, NoSecret,
               Given
  <2> QED BY <1>1, <1>2, TaskIs, Members, Belongs
<1>4. Shape(n) /\ n.src = tk.src
  <2> HIDE DEF Row, Secrets, Secret, StoreCall, NoOp, NoFile, NoRow, NoSecret,
               Given
  <2> QED BY <1>1, <1>2, TaskIs DEF Shape
<1>5. Goto(t, n)
  BY DEF DbFailsAt, DbFails
<1> HIDE DEF n
<1>6. Moved(t) /\ phase' = phase
  BY <1>3, <1>4, <1>5, MovesTo
<1>7. RowStep(t) /\ SecretStep(t) /\ AckStep(t) /\ RestStep(t)
  <2>1. RowStep(t)
    BY RowSame DEF DbFailsAt, DbFails
  <2>2. SecretStep(t)
    BY SecretsSame DEF DbFailsAt, DbFails
  <2>3. AckStep(t)
    BY AckSame DEF DbFailsAt, DbFails
  <2>4. RestStep(t)
    BY <1>1, <1>2, <1>6 DEF DbFailsAt, DbFails, TypeOK, RestStep, Upset, Mix
  <2> QED BY <2>1, <2>2, <2>3, <2>4
<1> QED BY <1>6, <1>7 DEF Confined

\* A failed Drop turns to the undo.
LEMMA DbFailsDrop ==
  ASSUME TypeOK, ShapeInv, NEW t \in Worker, DbFailsAt(t, "drop")
  PROVE Confined(t)
<1> DEFINE tk == task[t]
           n == [tk EXCEPT !.pc = "store", !.undo = TRUE,
                    !.todo = Restores(tk.had)]
<1>1. tk \in Task /\ Shape(tk)
  BY DEF TypeOK, ShapeInv
<1>2. tk.src \in Source /\ tk.pc = "drop"
  BY <1>1 DEF DbFailsAt, Shape
<1>3. tk.had \in Secrets
  BY <1>1, TaskFields
<1>4. Restores(tk.had) \in SUBSET StoreCall
  BY <1>3, RestoresType
<1>5. tk.op = "delete"
  BY <1>1, <1>2 DEF Shape
<1>6. n \in Task
  <2> HIDE DEF Row, Secrets, Secret, StoreCall, NoOp, NoFile, NoRow, NoSecret,
               Given
  <2> QED BY <1>1, <1>2, <1>3, <1>4, <1>5, TaskIs, Members, Belongs
<1>7. Shape(n) /\ n.src = tk.src
  <2> HIDE DEF Row, Secrets, Secret, StoreCall, NoOp, NoFile, NoRow, NoSecret,
               Given
  <2> QED BY <1>1, <1>2, <1>3, <1>4, <1>5, TaskIs DEF Shape
<1>8. Goto(t, n)
  BY DEF DbFailsAt, DbFails
<1> HIDE DEF n
<1>9. Moved(t) /\ phase' = phase
  BY <1>6, <1>7, <1>8, MovesTo
<1>10. RowStep(t) /\ SecretStep(t) /\ AckStep(t) /\ RestStep(t)
  <2>1. RowStep(t)
    BY RowSame DEF DbFailsAt, DbFails
  <2>2. SecretStep(t)
    BY SecretsSame DEF DbFailsAt, DbFails
  <2>3. AckStep(t)
    BY AckSame DEF DbFailsAt, DbFails
  <2>4. RestStep(t)
    BY <1>1, <1>2, <1>3, <1>4, <1>5, <1>9 DEF DbFailsAt, DbFails, TypeOK,
       RestStep, Upset, Mix
  <2> QED BY <2>1, <2>2, <2>3, <2>4
<1> QED BY <1>9, <1>10 DEF Confined

\* A failed Revert goes on with the secrets.
LEMMA DbFailsRevert ==
  ASSUME TypeOK, ShapeInv, NEW t \in Worker, DbFailsAt(t, "revert")
  PROVE Confined(t)
<1> DEFINE tk == task[t]
           n == [tk EXCEPT !.pc = "store", !.todo = Restores(tk.had)]
<1>1. tk \in Task /\ Shape(tk)
  BY DEF TypeOK, ShapeInv
<1>2. tk.src \in Source /\ tk.pc = "revert"
  BY <1>1 DEF DbFailsAt, Shape
<1>3. tk.had \in Secrets
  BY <1>1, TaskFields
<1>4. Restores(tk.had) \in SUBSET StoreCall
  BY <1>3, RestoresType
<1>5. tk.op = "update"
  BY <1>1, <1>2 DEF Shape
<1>6. n \in Task
  <2> HIDE DEF Row, Secrets, Secret, StoreCall, NoOp, NoFile, NoRow, NoSecret,
               Given
  <2> QED BY <1>1, <1>2, <1>3, <1>4, <1>5, TaskIs, Members, Belongs
<1>7. Shape(n) /\ n.src = tk.src
  <2> HIDE DEF Row, Secrets, Secret, StoreCall, NoOp, NoFile, NoRow, NoSecret,
               Given
  <2> QED BY <1>1, <1>2, <1>3, <1>4, <1>5, TaskIs DEF Shape
<1>8. Goto(t, n)
  BY DEF DbFailsAt, DbFails
<1> HIDE DEF n
<1>9. Moved(t) /\ phase' = phase
  BY <1>6, <1>7, <1>8, MovesTo
<1>10. RowStep(t) /\ SecretStep(t) /\ AckStep(t) /\ RestStep(t)
  <2>1. RowStep(t)
    BY RowSame DEF DbFailsAt, DbFails
  <2>2. SecretStep(t)
    BY SecretsSame DEF DbFailsAt, DbFails
  <2>3. AckStep(t)
    BY AckSame DEF DbFailsAt, DbFails
  <2>4. RestStep(t)
    BY <1>1, <1>2, <1>3, <1>4, <1>5, <1>9 DEF DbFailsAt, DbFails, TypeOK,
       RestStep, Upset, Mix
  <2> QED BY <2>1, <2>2, <2>3, <2>4
<1> QED BY <1>9, <1>10 DEF Confined

\* A failed Unmake goes on with the secrets.
LEMMA DbFailsUnmake ==
  ASSUME TypeOK, ShapeInv, NEW t \in Worker, DbFailsAt(t, "unmake")
  PROVE Confined(t)
<1> DEFINE tk == task[t]
           n == [tk EXCEPT !.pc = "store", !.todo = Forgets(tk)]
<1>1. tk \in Task /\ Shape(tk)
  BY DEF TypeOK, ShapeInv
<1>2. tk.src \in Source /\ tk.pc = "unmake"
  BY <1>1 DEF DbFailsAt, Shape
<1>3. tk.op = "create"
  BY <1>1, <1>2 DEF Shape
<1>4. Forgets(tk) \in SUBSET StoreCall /\ \A op \in Forgets(tk) : op.key \in Given(tk)
  BY <1>1, ForgetsType
<1>5. n.todo = Forgets(tk) /\ Given(n) = Given(tk)
  BY <1>1 DEF Task, Given
<1>6. n \in Task
  <2> HIDE DEF Row, Secrets, Secret, StoreCall, NoOp, NoFile, NoRow, NoSecret,
               Given
  <2> QED BY <1>1, <1>2, <1>3, <1>4, <1>5, TaskIs, Members, Belongs
<1>7. Shape(n) /\ n.src = tk.src
  <2> HIDE DEF Row, Secrets, Secret, StoreCall, NoOp, NoFile, NoRow, NoSecret,
               Given
  <2> QED BY <1>1, <1>2, <1>3, <1>4, <1>5, TaskIs DEF Shape
<1>8. Goto(t, n)
  BY DEF DbFailsAt, DbFails
<1> HIDE DEF n
<1>9. Moved(t) /\ phase' = phase
  BY <1>6, <1>7, <1>8, MovesTo
<1>10. RowStep(t) /\ SecretStep(t) /\ AckStep(t) /\ RestStep(t)
  <2>1. RowStep(t)
    BY RowSame DEF DbFailsAt, DbFails
  <2>2. SecretStep(t)
    BY SecretsSame DEF DbFailsAt, DbFails
  <2>3. AckStep(t)
    BY AckSame DEF DbFailsAt, DbFails
  <2>4. RestStep(t)
    BY <1>1, <1>2, <1>3, <1>4, <1>5, <1>9 DEF DbFailsAt, DbFails, TypeOK,
       RestStep, Upset, Mix
  <2> QED BY <2>1, <2>2, <2>3, <2>4
<1> QED BY <1>9, <1>10 DEF Confined

\* DbFails touches its own task and its own source only.
LEMMA DbFailsStep ==
  ASSUME TypeOK, ShapeInv, NEW t \in Worker, DbFails(t)
  PROVE Confined(t)
<1>1. CASE task[t].pc \in {"read", "insert", "commit", "stage"}
  <2>1. Err(t) /\ UNCHANGED <<backend, row, secrets, born, mixed, calls>>
        /\ upsets' \in Nat
    BY <1>1 DEF DbFails, Upset, TypeOK
  <2> QED BY <2>1, FailedStep
<1>2. CASE task[t].pc \in {"configure", "drop", "revert", "unmake"}
  BY <1>2, DbFailsConfigure, DbFailsDrop, DbFailsRevert, DbFailsUnmake DEF
     DbFailsAt
<1>3. task[t].pc \in {"read", "insert", "commit", "stage", "configure", "drop", "revert", "unmake"}
  BY DEF DbFails
<1> QED BY <1>1, <1>2, <1>3

Copies(t) == /\ get(task[t].src, Head(task[t].left)) = Missing
             /\ get(Plugin, Head(task[t].left)) # Missing

\* The next field to migrate is a field.
LEMMA LeftHead ==
  ASSUME TypeOK, NEW t \in Worker, task[t].left # <<>>
  PROVE Head(task[t].left) \in Field /\ Tail(task[t].left) \in Seq(Field)
<1>1. task[t].left \in Seq(Field)
  BY TaskFields DEF TypeOK
<1> QED BY <1>1

\* MigrateKey of a secret of the legacy scope is a store call to make.
LEMMA MigrateCopies ==
  ASSUME TypeOK, ShapeInv, NEW t \in Worker, MigrateKey(t) /\ Copies(t)
  PROVE Confined(t)
<1> DEFINE tk == task[t]
           n == [tk EXCEPT !.left = Tail(@), !.pc = "store",
                         !.todo = {Op(0, Head(tk.left), get(Plugin, Head(tk.left)))}]
<1>1. tk \in Task /\ Shape(tk)
  BY DEF TypeOK, ShapeInv
<1>2. tk.src \in Source /\ tk.pc = "migrate"
  BY <1>1 DEF MigrateKey, Shape
<1>3. Head(tk.left) \in Field /\ Tail(tk.left) \in Seq(Field)
  BY LeftHead DEF MigrateKey
<1>4. tk.op = "run"
  BY <1>1, <1>2 DEF Shape
<1>5. get(Plugin, Head(tk.left)) \in Secret
  BY <1>3, GetType, Scopes
<1>6. 0 \in Nat
  OBVIOUS
<1>7. Op(0, Head(tk.left), get(Plugin, Head(tk.left))) \in StoreCall
  BY <1>3, <1>5, <1>6, OpIn
<1>8. {Op(0, Head(tk.left), get(Plugin, Head(tk.left)))} \in SUBSET StoreCall
  BY <1>7
<1>9. n \in Task
  <2> HIDE DEF Row, Secrets, Secret, StoreCall, NoOp, NoFile, NoRow, NoSecret,
               Given
  <2> QED
    BY <1>1, <1>2, <1>3, <1>4, <1>5, <1>6, <1>7, <1>8, TaskIs, Members, Belongs
<1>10. Shape(n) /\ n.src = tk.src
  <2> HIDE DEF Row, Secrets, Secret, StoreCall, NoOp, NoFile, NoRow, NoSecret,
               Given
  <2> QED BY <1>1, <1>2, <1>3, <1>4, <1>5, <1>6, <1>7, <1>8, TaskIs DEF Shape
<1>11. Goto(t, n)
  BY DEF MigrateKey, Copies
<1> HIDE DEF n
<1>12. Moved(t) /\ phase' = phase
  BY <1>9, <1>10, <1>11, MovesTo
<1>13. RowStep(t) /\ SecretStep(t) /\ AckStep(t) /\ RestStep(t)
  <2>1. RowStep(t)
    BY RowSame DEF MigrateKey
  <2>2. SecretStep(t)
    BY SecretsSame DEF MigrateKey
  <2>3. AckStep(t)
    BY AckSame DEF MigrateKey
  <2>4. RestStep(t)
    BY <1>12, RestSame DEF MigrateKey
  <2> QED BY <2>1, <2>2, <2>3, <2>4
<1> QED BY <1>12, <1>13 DEF Confined

\* MigrateKey of any other field goes on.
LEMMA MigrateSkips ==
  ASSUME TypeOK, ShapeInv, NEW t \in Worker, MigrateKey(t) /\ ~Copies(t)
  PROVE Confined(t)
<1> DEFINE tk == task[t]
           n == [tk EXCEPT !.left = Tail(@)]
<1>1. tk \in Task /\ Shape(tk)
  BY DEF TypeOK, ShapeInv
<1>2. tk.src \in Source /\ tk.pc = "migrate"
  BY <1>1 DEF MigrateKey, Shape
<1>3. Head(tk.left) \in Field /\ Tail(tk.left) \in Seq(Field)
  BY LeftHead DEF MigrateKey
<1>4. tk.op = "run"
  BY <1>1, <1>2 DEF Shape
<1>5. n \in Task
  <2> HIDE DEF Row, Secrets, Secret, StoreCall, NoOp, NoFile, NoRow, NoSecret,
               Given
  <2> QED BY <1>1, <1>2, <1>3, <1>4, TaskIs, Members, Belongs
<1>6. Shape(n) /\ n.src = tk.src
  <2> HIDE DEF Row, Secrets, Secret, StoreCall, NoOp, NoFile, NoRow, NoSecret,
               Given
  <2> QED BY <1>1, <1>2, <1>3, <1>4, TaskIs DEF Shape
<1>7. Goto(t, n)
  BY DEF MigrateKey, Copies
<1> HIDE DEF n
<1>8. Moved(t) /\ phase' = phase
  BY <1>5, <1>6, <1>7, MovesTo
<1>9. RowStep(t) /\ SecretStep(t) /\ AckStep(t) /\ RestStep(t)
  <2>1. RowStep(t)
    BY RowSame DEF MigrateKey
  <2>2. SecretStep(t)
    BY SecretsSame DEF MigrateKey
  <2>3. AckStep(t)
    BY AckSame DEF MigrateKey
  <2>4. RestStep(t)
    BY <1>8, RestSame DEF MigrateKey
  <2> QED BY <2>1, <2>2, <2>3, <2>4
<1> QED BY <1>8, <1>9 DEF Confined

AfterState(t, v) ==
  LET seen == [task[t].seen EXCEPT !.state = v]
  IN /\ UpdateRow(task[t].src, [seen EXCEPT !.conf = row[task[t].src].conf])
     /\ IF row[task[t].src].live
        THEN AfterStage(t, seen)
             /\ ack' = [ack EXCEPT ![task[t].src].row.state = v]
        ELSE Err(t)

\* The three outcomes of a stage: it fails, it goes on with the row it has, or
\* it saves a state.
LEMMA StageCases ==
  ASSUME NEW t \in Worker, Stage(t)
  PROVE /\ task[t].pc = "stage"
        /\ UNCHANGED <<backend, secrets, counters, born, mixed>>
        /\ \/ Err(t) /\ UNCHANGED row
           \/ AfterStage(t, task[t].seen) /\ UNCHANGED <<row, ack>>
           \/ \E v \in {0, task[t].ver} : AfterState(t, v)
BY DEF Stage, AfterState

\* The stage after a stage.
LEMMA AfterStageMoves ==
  ASSUME TypeOK, ShapeInv, NEW t \in Worker, NEW seen \in Row,
         AfterStage(t, seen), task[t].pc = "stage",
         UNCHANGED <<counters, born, mixed>>
  PROVE Moved(t) /\ RestStep(t)
<1> DEFINE tk == task[t]
           n == [tk EXCEPT !.seen = seen,
                           !.stage = IF tk.stage = "login" THEN "refresh" ELSE "fetch"]
<1>1. tk \in Task /\ Shape(tk)
  BY DEF TypeOK, ShapeInv
<1>2. CASE tk.stage = "fetch"
  BY <1>2, LeavesTo, RestLeft DEF AfterStage
<1>3. CASE tk.stage # "fetch"
  <2>1. n \in Task
    <3>1. (IF tk.stage = "login" THEN "refresh" ELSE "fetch") \in StageType
      BY Members
    <3> QED BY <1>1, <3>1, TaskIs, Members
  <2>2. Shape(n) /\ n.src = tk.src
    <3> HIDE DEF Row, Secrets, Secret, StoreCall, NoOp, NoFile, NoRow, NoSecret, Given
    <3> QED BY <1>1, TaskIs DEF Shape
  <2>3. Goto(t, n)
    BY <1>3 DEF AfterStage
  <2> HIDE DEF n
  <2> QED BY <2>1, <2>2, <2>3, MovesTo, RestSame
<1> QED BY <1>2, <1>3

\* Stage touches its own task and its own source only.
LEMMA StageStep ==
  ASSUME TypeOK, ShapeInv, NEW t \in Worker, Stage(t)
  PROVE Confined(t)
<1> DEFINE tk == task[t]
<1>1. tk \in Task /\ tk.pc = "stage" /\ tk.src \in Source /\ tk.seen \in Row
      /\ UNCHANGED <<backend, secrets, counters, born, mixed>>
  BY StageCases, TaskFields DEF TypeOK, ShapeInv, Shape
<1>2. SecretStep(t)
  BY <1>1, SecretsSame
<1>3. CASE Err(t) /\ UNCHANGED row
  BY <1>1, <1>2, <1>3, ErrStep, RowSame DEF Confined
<1>4. CASE AfterStage(t, tk.seen) /\ UNCHANGED <<row, ack>>
  BY <1>1, <1>2, <1>4, AfterStageMoves, RowSame, AckSame DEF Confined
<1>5. ASSUME NEW v \in {0, tk.ver}, AfterState(t, v)
      PROVE Confined(t)
  <2> DEFINE seen == [tk.seen EXCEPT !.state = v]
             r == [seen EXCEPT !.conf = row[tk.src].conf]
  <2>1. v \in Value /\ row[tk.src] \in Row
    <3>1. tk.ver \in Secret
      BY <1>1, TaskFields
    <3>2. row \in [Source -> Row]
      BY DEF TypeOK
    <3>3. v \in Value
      BY <3>1, Values
    <3> QED BY <1>1, <3>2, <3>3
  <2>2. seen \in Row
    BY <1>1, <2>1 DEF Row
  <2>3. r \in Row
    <3> HIDE DEF seen
    <3> QED BY <2>1, <2>2 DEF Row
  <2>4. UpdateRow(tk.src, r)
    BY <1>5 DEF AfterState
  <2> HIDE DEF r
  <2>5. RowStep(t)
    BY <2>3, <2>4, RowUpdated
  <2>6. CASE ~row[tk.src].live
    <3>1. Err(t)
      BY <1>5, <2>6 DEF AfterState
    <3> QED BY <1>1, <1>2, <2>5, <3>1, ErrStep DEF Confined
  <2>7. CASE row[tk.src].live
    <3>1. AfterStage(t, seen) /\ ack' = [ack EXCEPT ![tk.src].row.state = v]
      BY <1>5, <2>7 DEF AfterState
    <3>2. ack \in [Source -> [row : Row, sec : Secrets]]
      BY DEF TypeOK
    <3>3. [ack[tk.src] EXCEPT !.row.state = v] \in [row : Row, sec : Secrets]
      <4>1. ack[tk.src] \in [row : Row, sec : Secrets]
        BY <1>1, <3>2
      <4> QED BY <2>1, <4>1 DEF Row
    <3>4. AckStep(t)
      <4>1. ack' = [ack EXCEPT ![tk.src] = [ack[tk.src] EXCEPT !.row.state = v]]
        BY <3>1
      <4> QED BY <1>1, <3>2, <3>3, <4>1 DEF AckStep
    <3>5. Moved(t) /\ RestStep(t)
      BY <1>1, <2>2, <3>1, AfterStageMoves
    <3> QED BY <1>2, <2>5, <3>4, <3>5 DEF Confined
  <2> QED BY <2>6, <2>7
<1> QED BY <1>3, <1>4, <1>5, StageCases

\* After its store calls a delete drops the row.
LEMMA StoredDelete ==
  ASSUME TypeOK, ShapeInv, NEW t \in Worker, Stored(t) /\ ~task[t].undo /\ task[t].op = "delete"
  PROVE Confined(t)
<1> DEFINE tk == task[t]
           n == [tk EXCEPT !.pc = "drop"]
<1>1. tk \in Task /\ Shape(tk)
  BY DEF TypeOK, ShapeInv
<1>2. tk.src \in Source /\ tk.pc = "store"
  BY <1>1 DEF Stored, Shape
<1>3. tk.todo = {}
  BY DEF Stored
<1>4. n \in Task
  <2> HIDE DEF Row, Secrets, Secret, StoreCall, NoOp, NoFile, NoRow, NoSecret,
               Given
  <2> QED BY <1>1, <1>2, <1>3, TaskIs, Members, Belongs
<1>5. Shape(n) /\ n.src = tk.src
  <2> HIDE DEF Row, Secrets, Secret, StoreCall, NoOp, NoFile, NoRow, NoSecret,
               Given
  <2> QED BY <1>1, <1>2, <1>3, TaskIs DEF Shape
<1>6. Goto(t, n)
  BY DEF Stored
<1> HIDE DEF n
<1>7. Moved(t) /\ phase' = phase
  BY <1>4, <1>5, <1>6, MovesTo
<1>8. RowStep(t) /\ SecretStep(t) /\ AckStep(t) /\ RestStep(t)
  <2>1. RowStep(t)
    BY RowSame DEF Stored
  <2>2. SecretStep(t)
    BY SecretsSame DEF Stored
  <2>3. AckStep(t)
    BY AckSame DEF Stored
  <2>4. RestStep(t)
    BY <1>7, RestSame DEF Stored
  <2> QED BY <2>1, <2>2, <2>3, <2>4
<1> QED BY <1>7, <1>8 DEF Confined

\* After its store call a migration goes on.
LEMMA StoredMigration ==
  ASSUME TypeOK, ShapeInv, NEW t \in Worker, Stored(t) /\ ~task[t].undo /\ task[t].op = "run" /\ task[t].stage = ""
  PROVE Confined(t)
<1> DEFINE tk == task[t]
           n == [tk EXCEPT !.pc = "migrate"]
<1>1. tk \in Task /\ Shape(tk)
  BY DEF TypeOK, ShapeInv
<1>2. tk.src \in Source /\ tk.pc = "store"
  BY <1>1 DEF Stored, Shape
<1>3. tk.todo = {}
  BY DEF Stored
<1>4. n \in Task
  <2> HIDE DEF Row, Secrets, Secret, StoreCall, NoOp, NoFile, NoRow, NoSecret,
               Given
  <2> QED BY <1>1, <1>2, <1>3, TaskIs, Members, Belongs
<1>5. Shape(n) /\ n.src = tk.src
  <2> HIDE DEF Row, Secrets, Secret, StoreCall, NoOp, NoFile, NoRow, NoSecret,
               Given
  <2> QED BY <1>1, <1>2, <1>3, TaskIs DEF Shape
<1>6. Goto(t, n)
  BY DEF Stored
<1> HIDE DEF n
<1>7. Moved(t) /\ phase' = phase
  BY <1>4, <1>5, <1>6, MovesTo
<1>8. RowStep(t) /\ SecretStep(t) /\ AckStep(t) /\ RestStep(t)
  <2>1. RowStep(t)
    BY RowSame DEF Stored
  <2>2. SecretStep(t)
    BY SecretsSame DEF Stored
  <2>3. AckStep(t)
    BY AckSame DEF Stored
  <2>4. RestStep(t)
    BY <1>7, RestSame DEF Stored
  <2> QED BY <2>1, <2>2, <2>3, <2>4
<1> QED BY <1>7, <1>8 DEF Confined

\* After its store call secret.set returns to the script.
LEMMA StoredSecret ==
  ASSUME TypeOK, ShapeInv, NEW t \in Worker, Stored(t) /\ ~task[t].undo /\ task[t].op = "run" /\ task[t].stage # ""
  PROVE Confined(t)
<1> DEFINE tk == task[t]
           n == [tk EXCEPT !.pc = "stage"]
<1>1. tk \in Task /\ Shape(tk)
  BY DEF TypeOK, ShapeInv
<1>2. tk.src \in Source /\ tk.pc = "store"
  BY <1>1 DEF Stored, Shape
<1>3. tk.todo = {}
  BY DEF Stored
<1>4. ack \in [Source -> [row : Row, sec : Secrets]] /\ tk.ver \in Secret
  BY <1>1, TaskFields DEF TypeOK
<1>5. [ack[tk.src] EXCEPT !.sec[ScriptField] = tk.ver] \in [row : Row, sec : Secrets]
  BY <1>2, <1>4 DEF Secrets
<1>6. ack' = [ack EXCEPT ![tk.src] = [ack[tk.src] EXCEPT !.sec[ScriptField] = tk.ver]]
  BY DEF Stored
<1>7. n \in Task
  <2> HIDE DEF Row, Secrets, Secret, StoreCall, NoOp, NoFile, NoRow, NoSecret,
               Given
  <2> QED BY <1>1, <1>2, <1>3, <1>4, <1>5, <1>6, TaskIs, Members, Belongs
<1>8. Shape(n) /\ n.src = tk.src
  <2> HIDE DEF Row, Secrets, Secret, StoreCall, NoOp, NoFile, NoRow, NoSecret,
               Given
  <2> QED BY <1>1, <1>2, <1>3, <1>4, <1>5, <1>6, TaskIs DEF Shape
<1>9. Goto(t, n)
  BY DEF Stored
<1> HIDE DEF n
<1>10. Moved(t) /\ phase' = phase
  BY <1>7, <1>8, <1>9, MovesTo
<1>11. RowStep(t) /\ SecretStep(t) /\ AckStep(t) /\ RestStep(t)
  <2>1. RowStep(t)
    BY RowSame DEF Stored
  <2>2. SecretStep(t)
    BY SecretsSame DEF Stored
  <2>3. AckStep(t)
    BY <1>2, <1>4, <1>5, <1>6 DEF AckStep
  <2>4. RestStep(t)
    BY <1>10, RestSame DEF Stored
  <2> QED BY <2>1, <2>2, <2>3, <2>4
<1> QED BY <1>10, <1>11 DEF Confined

\* Stored touches its own task and its own source only.
LEMMA StoredStep ==
  ASSUME TypeOK, ShapeInv, NEW t \in Worker, Stored(t)
  PROVE Confined(t)
<1> DEFINE tk == task[t]
<1>1. tk \in Task /\ Shape(tk) /\ tk.pc = "store"
      /\ UNCHANGED <<backend, row, secrets, counters, born, mixed>>
  BY DEF TypeOK, ShapeInv, Stored
<1>2. RowStep(t) /\ SecretStep(t) /\ tk.src \in Source
  BY <1>1, RowSame, SecretsSame DEF Shape
<1>3. CASE tk.undo
  <2>1. Err(t)
    BY <1>1, <1>3 DEF Stored, Shape
  <2> QED BY <1>1, <1>2, <2>1, ErrStep DEF Confined
<1>4. CASE ~tk.undo /\ tk.op \notin {"delete", "run"}
  <2>1. Succeed(t)
    BY <1>4 DEF Stored
  <2> QED BY <1>1, <1>2, <2>1, SucceedStep DEF Confined
<1> QED BY <1>3, <1>4, StoredDelete, StoredMigration, StoredSecret

\* A store call under way is one of those the call still has to make.
LEMMA StoringOp ==
  ASSUME TypeOK, ShapeInv, NEW t \in Worker, NEW sub, NEW op, Storing(t, sub, op)
  PROVE /\ task[t] \in Task /\ Shape(task[t])
        /\ task[t].pc = "store" /\ task[t].sub = sub /\ task[t].src \in Source
        /\ op \in task[t].todo /\ op \in StoreCall
        /\ op.key \in Field /\ op.val \in Secret
<1>1. task[t] \in Task /\ Shape(task[t]) /\ task[t].pc = "store" /\ task[t].sub = sub
  BY DEF TypeOK, ShapeInv, Storing
<1>2. op \in task[t].todo
  BY <1>1 DEF Storing, First, Shape
<1>3. op \in StoreCall
  BY <1>1, <1>2, TaskFields
<1> QED BY <1>1, <1>2, <1>3 DEF Shape, StoreCall

\* An override set in one scope leaves the others.
LEMMA PutOverride ==
  ASSUME NEW d \in [Scope -> [Field -> Value]], NEW s \in Source, NEW op \in StoreCall
  PROVE /\ Put(d, s, op) \in [Scope -> [Field -> Value]]
        /\ \A o \in Scope \ {s} : Put(d, s, op)[o] = d[o]
<1>1. s \in Scope /\ op.key \in Field /\ op.val \in Secret /\ op.val \in Value
  BY Values, Scopes DEF StoreCall
<1>2. [d[s] EXCEPT ![op.key] = op.val] \in [Field -> Value]
  BY <1>1 DEF Secrets
<1>3. Put(d, s, op) = [d EXCEPT ![s] = [d[s] EXCEPT ![op.key] = op.val]]
  BY DEF Put
<1> QED BY <1>1, <1>2, <1>3

\* An entry put in one scope leaves the others.
LEMMA PutHeld ==
  ASSUME NEW d \in [Scope -> Secrets], NEW s \in Source, NEW op \in StoreCall
  PROVE /\ Put(d, s, op) \in [Scope -> Secrets]
        /\ \A o \in Scope \ {s} : Put(d, s, op)[o] = d[o]
<1>1. s \in Scope /\ op.key \in Field /\ op.val \in Secret /\ op.val \in Value
  BY Values, Scopes DEF StoreCall
<1>2. [d[s] EXCEPT ![op.key] = op.val] \in Secrets
  BY <1>1 DEF Secrets
<1>3. Put(d, s, op) = [d EXCEPT ![s] = [d[s] EXCEPT ![op.key] = op.val]]
  BY DEF Put
<1> QED BY <1>1, <1>2, <1>3

\* A put changes the scope of the call's source.
LEMMA DataPut ==
  ASSUME TypeOK, NEW t \in Worker, NEW op \in StoreCall, task[t].src \in Source,
         data' = Put(data, task[t].src, op), UNCHANGED <<backend, index>>,
         holder' \in Worker \cup {Nobody}
  PROVE SecretStep(t)
<1>1. CASE backend = "env"
  <2>1. data \in [Scope -> [Field -> Value]]
    BY <1>1 DEF TypeOK
  <2>2. /\ Put(data, task[t].src, op) \in [Scope -> [Field -> Value]]
        /\ \A o \in Scope \ {task[t].src} : Put(data, task[t].src, op)[o] = data[o]
    BY <2>1, PutOverride
  <2> QED BY <1>1, <2>2 DEF SecretStep, TypeOK
<1>2. CASE backend # "env"
  <2>1. data \in [Scope -> Secrets]
    BY <1>2 DEF TypeOK
  <2>2. /\ Put(data, task[t].src, op) \in [Scope -> Secrets]
        /\ \A o \in Scope \ {task[t].src} : Put(data, task[t].src, op)[o] = data[o]
    BY <2>1, PutHeld
  <2> QED BY <1>2, <2>2 DEF SecretStep, TypeOK
<1> QED BY <1>1, <1>2

\* MapSet touches its own task and its own source only.
LEMMA MapSetStep ==
  ASSUME TypeOK, ShapeInv, NEW t \in Worker, NEW op, MapSet(t, op)
  PROVE Confined(t)
<1> DEFINE tk == task[t]
           n == [tk EXCEPT !.todo = @ \ {op}, !.sub = 0, !.call = NoOp,
                          !.file = NoFile, !.keys = {}]
<1>1. tk \in Task /\ Shape(tk)
  BY DEF TypeOK, ShapeInv
<1>2. Storing(t, 0, op) /\ StoreFrame
  BY DEF MapSet
<1>3. tk.pc = "store" /\ tk.src \in Source /\ op \in tk.todo /\ op \in StoreCall
  BY <1>2, StoringOp
<1>4. tk.todo \ {op} \in SUBSET StoreCall
  BY <1>1, TaskFields
<1>5. NoOp \in StoreCall \cup {NoOp} /\ NoFile \in [Scope -> Secrets] \cup {NoFile}
  BY NothingTypes
<1>6. Given(n) = Given(tk)
  BY <1>1 DEF Task, Given
<1>7. n \in Task
  BY <1>1, <1>2, <1>3, <1>4, <1>5, <1>6, TaskIs, Members, Belongs
<1>8. Shape(n) /\ n.src = tk.src
  <2> HIDE DEF Row, Secrets, Secret, StoreCall, NoOp, NoFile, NoRow, NoSecret,
               Given
  <2> QED BY <1>1, <1>2, <1>3, <1>4, <1>5, <1>6, TaskIs DEF Shape
<1>9. Goto(t, n)
  BY DEF MapSet, Returned
<1> HIDE DEF n
<1>10. Moved(t) /\ phase' = phase
  BY <1>7, <1>8, <1>9, MovesTo
<1>11. RowStep(t) /\ SecretStep(t) /\ AckStep(t) /\ RestStep(t)
  <2>1. RowStep(t)
    BY <1>2, RowSame DEF StoreFrame
  <2>2. SecretStep(t)
    BY <1>1, <1>2, <1>3, <1>4, <1>5, <1>6, DataPut DEF MapSet, TypeOK,
       StoreFrame
  <2>3. AckStep(t)
    BY <1>2, AckSame DEF StoreFrame
  <2>4. RestStep(t)
    BY <1>2, <1>10, RestSame DEF StoreFrame
  <2> QED BY <2>1, <2>2, <2>3, <2>4
<1> QED BY <1>10, <1>11 DEF Confined

\* FileLoad touches its own task and its own source only.
LEMMA FileLoadStep ==
  ASSUME TypeOK, ShapeInv, NEW t \in Worker, NEW op, FileLoad(t, op)
  PROVE Confined(t)
<1> DEFINE tk == task[t]
           n == [tk EXCEPT !.sub = 1, !.call = op, !.file = data]
<1>1. tk \in Task /\ Shape(tk)
  BY DEF TypeOK, ShapeInv
<1>2. Storing(t, 0, op) /\ StoreFrame
  BY DEF FileLoad
<1>3. tk.pc = "store" /\ tk.src \in Source /\ op \in tk.todo /\ op \in StoreCall
  BY <1>2, StoringOp
<1>4. data \in [Scope -> Secrets]
  BY DEF FileLoad, TypeOK
<1>5. Given(n) = Given(tk)
  BY <1>1 DEF Task, Given
<1>6. n \in Task
  BY <1>1, <1>2, <1>3, <1>4, <1>5, TaskIs, Members, Belongs
<1>7. Shape(n) /\ n.src = tk.src
  <2> HIDE DEF Row, Secrets, Secret, StoreCall, NoOp, NoFile, NoRow, NoSecret,
               Given
  <2> QED BY <1>1, <1>2, <1>3, <1>4, <1>5, TaskIs DEF Shape
<1>8. Goto(t, n)
  BY DEF FileLoad
<1> HIDE DEF n
<1>9. Moved(t) /\ phase' = phase
  BY <1>6, <1>7, <1>8, MovesTo
<1>10. RowStep(t) /\ SecretStep(t) /\ AckStep(t) /\ RestStep(t)
  <2>1. RowStep(t)
    BY <1>2, RowSame DEF StoreFrame
  <2>2. SecretStep(t)
    BY <1>2 DEF FileLoad, SecretStep, TypeOK, StoreFrame
  <2>3. AckStep(t)
    BY <1>2, AckSame DEF StoreFrame
  <2>4. RestStep(t)
    BY <1>2, <1>9, RestSame DEF StoreFrame
  <2> QED BY <2>1, <2>2, <2>3, <2>4
<1> QED BY <1>9, <1>10 DEF Confined

\* FileSave touches its own task and its own source only.
LEMMA FileSaveStep ==
  ASSUME TypeOK, ShapeInv, FileInv, NEW t \in Worker, NEW op, FileSave(t, op)
  PROVE Confined(t)
<1> DEFINE tk == task[t]
           n == [tk EXCEPT !.todo = @ \ {op}, !.sub = 0, !.call = NoOp,
                          !.file = NoFile, !.keys = {}]
<1>1. tk \in Task /\ Shape(tk)
  BY DEF TypeOK, ShapeInv
<1>2. Storing(t, 1, op) /\ StoreFrame
  BY DEF FileSave
<1>3. tk.pc = "store" /\ tk.src \in Source /\ op \in tk.todo /\ op \in StoreCall
  BY <1>2, StoringOp
<1>4. tk.todo \ {op} \in SUBSET StoreCall
  BY <1>1, TaskFields
<1>5. NoOp \in StoreCall \cup {NoOp} /\ NoFile \in [Scope -> Secrets] \cup {NoFile}
  BY NothingTypes
<1>6. tk.file = data
  BY <1>2, <1>3, StoringOp DEF FileInv, FileSave
<1>7. Given(n) = Given(tk)
  BY <1>1 DEF Task, Given
<1>8. n \in Task
  BY <1>1, <1>2, <1>3, <1>4, <1>5, <1>6, <1>7, TaskIs, Members, Belongs
<1>9. Shape(n) /\ n.src = tk.src
  <2> HIDE DEF Row, Secrets, Secret, StoreCall, NoOp, NoFile, NoRow, NoSecret,
               Given
  <2> QED BY <1>1, <1>2, <1>3, <1>4, <1>5, <1>6, <1>7, TaskIs DEF Shape
<1>10. Goto(t, n)
  BY DEF FileSave, Returned
<1> HIDE DEF n
<1>11. Moved(t) /\ phase' = phase
  BY <1>8, <1>9, <1>10, MovesTo
<1>12. RowStep(t) /\ SecretStep(t) /\ AckStep(t) /\ RestStep(t)
  <2>1. RowStep(t)
    BY <1>2, RowSame DEF StoreFrame
  <2>2. SecretStep(t)
    BY <1>1, <1>2, <1>3, <1>4, <1>5, <1>6, <1>7, DataPut, Scopes DEF FileSave,
       TypeOK, StoreFrame
  <2>3. AckStep(t)
    BY <1>2, AckSame DEF StoreFrame
  <2>4. RestStep(t)
    BY <1>2, <1>11, RestSame DEF StoreFrame
  <2> QED BY <2>1, <2>2, <2>3, <2>4
<1> QED BY <1>11, <1>12 DEF Confined

\* EntrySet touches its own task and its own source only.
LEMMA EntrySetStep ==
  ASSUME TypeOK, ShapeInv, NEW t \in Worker, NEW op, EntrySet(t, op)
  PROVE Confined(t)
<1> DEFINE tk == task[t]
           n == [tk EXCEPT !.sub = 1, !.call = op]
<1>1. tk \in Task /\ Shape(tk)
  BY DEF TypeOK, ShapeInv
<1>2. Storing(t, 0, op) /\ StoreFrame
  BY DEF EntrySet
<1>3. tk.pc = "store" /\ tk.src \in Source /\ op \in tk.todo /\ op \in StoreCall
  BY <1>2, StoringOp
<1>4. Given(n) = Given(tk)
  BY <1>1 DEF Task, Given
<1>5. n \in Task
  BY <1>1, <1>2, <1>3, <1>4, TaskIs, Members, Belongs
<1>6. Shape(n) /\ n.src = tk.src
  <2> HIDE DEF Row, Secrets, Secret, StoreCall, NoOp, NoFile, NoRow, NoSecret,
               Given
  <2> QED BY <1>1, <1>2, <1>3, <1>4, TaskIs DEF Shape
<1>7. Goto(t, n)
  BY DEF EntrySet
<1> HIDE DEF n
<1>8. Moved(t) /\ phase' = phase
  BY <1>5, <1>6, <1>7, MovesTo
<1>9. RowStep(t) /\ SecretStep(t) /\ AckStep(t) /\ RestStep(t)
  <2>1. RowStep(t)
    BY <1>2, RowSame DEF StoreFrame
  <2>2. SecretStep(t)
    BY <1>1, <1>2, <1>3, <1>4, DataPut DEF EntrySet, TypeOK, StoreFrame
  <2>3. AckStep(t)
    BY <1>2, AckSame DEF StoreFrame
  <2>4. RestStep(t)
    BY <1>2, <1>8, RestSame DEF StoreFrame
  <2> QED BY <2>1, <2>2, <2>3, <2>4
<1> QED BY <1>8, <1>9 DEF Confined

\* IndexLoad touches its own task and its own source only.
LEMMA IndexLoadStep ==
  ASSUME TypeOK, ShapeInv, NEW t \in Worker, NEW op, IndexLoad(t, op)
  PROVE Confined(t)
<1> DEFINE tk == task[t]
           n == [tk EXCEPT !.sub = 2, !.keys = index[tk.src]]
<1>1. tk \in Task /\ Shape(tk)
  BY DEF TypeOK, ShapeInv
<1>2. Storing(t, 1, op) /\ StoreFrame
  BY DEF IndexLoad
<1>3. tk.pc = "store" /\ tk.src \in Source /\ op \in tk.todo /\ op \in StoreCall
  BY <1>2, StoringOp
<1>4. tk.call \in tk.todo
  BY <1>2, StoringOp DEF Storing
<1>5. index[tk.src] \in SUBSET Field
  BY <1>3, Scopes DEF TypeOK
<1>6. Given(n) = Given(tk)
  BY <1>1 DEF Task, Given
<1>7. n \in Task
  BY <1>1, <1>2, <1>3, <1>4, <1>5, <1>6, TaskIs, Members, Belongs
<1>8. Shape(n) /\ n.src = tk.src
  <2> HIDE DEF Row, Secrets, Secret, StoreCall, NoOp, NoFile, NoRow, NoSecret,
               Given
  <2> QED BY <1>1, <1>2, <1>3, <1>4, <1>5, <1>6, TaskIs DEF Shape
<1>9. Goto(t, n)
  BY DEF IndexLoad
<1> HIDE DEF n
<1>10. Moved(t) /\ phase' = phase
  BY <1>7, <1>8, <1>9, MovesTo
<1>11. RowStep(t) /\ SecretStep(t) /\ AckStep(t) /\ RestStep(t)
  <2>1. RowStep(t)
    BY <1>2, RowSame DEF StoreFrame
  <2>2. SecretStep(t)
    BY <1>2, SecretsSame DEF IndexLoad, StoreFrame
  <2>3. AckStep(t)
    BY <1>2, AckSame DEF StoreFrame
  <2>4. RestStep(t)
    BY <1>2, <1>10, RestSame DEF StoreFrame
  <2> QED BY <2>1, <2>2, <2>3, <2>4
<1> QED BY <1>10, <1>11 DEF Confined

\* IndexSave touches its own task and its own source only.
LEMMA IndexSaveStep ==
  ASSUME TypeOK, ShapeInv, NEW t \in Worker, NEW op, IndexSave(t, op)
  PROVE Confined(t)
<1> DEFINE tk == task[t]
           n == [tk EXCEPT !.todo = @ \ {op}, !.sub = 0, !.call = NoOp,
                          !.file = NoFile, !.keys = {}]
<1>1. tk \in Task /\ Shape(tk)
  BY DEF TypeOK, ShapeInv
<1>2. Storing(t, 2, op) /\ StoreFrame
  BY DEF IndexSave
<1>3. tk.pc = "store" /\ tk.src \in Source /\ op \in tk.todo /\ op \in StoreCall
  BY <1>2, StoringOp
<1>4. tk.todo \ {op} \in SUBSET StoreCall
  BY <1>1, TaskFields
<1>5. NoOp \in StoreCall \cup {NoOp} /\ NoFile \in [Scope -> Secrets] \cup {NoFile}
  BY NothingTypes
<1>6. Given(n) = Given(tk)
  BY <1>1 DEF Task, Given
<1>7. n \in Task
  BY <1>1, <1>2, <1>3, <1>4, <1>5, <1>6, TaskIs, Members, Belongs
<1>8. Shape(n) /\ n.src = tk.src
  <2> HIDE DEF Row, Secrets, Secret, StoreCall, NoOp, NoFile, NoRow, NoSecret,
               Given
  <2> QED BY <1>1, <1>2, <1>3, <1>4, <1>5, <1>6, TaskIs DEF Shape
<1>9. Goto(t, n)
  BY DEF IndexSave, Returned
<1> HIDE DEF n
<1>10. Moved(t) /\ phase' = phase
  BY <1>7, <1>8, <1>9, MovesTo
<1>11. RowStep(t) /\ SecretStep(t) /\ AckStep(t) /\ RestStep(t)
  <2>1. RowStep(t)
    BY <1>2, RowSame DEF StoreFrame
  <2>2. SecretStep(t)
    <3>1. Indexed(tk.keys, op) \in SUBSET Field
      <4>1. tk.keys \in SUBSET Field
        BY <1>1, TaskFields
      <4>2. op.key \in Field
        BY <1>3 DEF StoreCall
      <4> QED BY <4>1, <4>2 DEF Indexed
    <3>2. index \in [Scope -> SUBSET Field] /\ index' = [index EXCEPT ![tk.src] = Indexed(tk.keys, op)]
      BY DEF IndexSave, TypeOK
    <3>3. UNCHANGED <<backend, data, holder>>
      BY <1>2 DEF IndexSave, StoreFrame
    <3> QED BY <3>1, <3>2, <3>3 DEF SecretStep, TypeOK
  <2>3. AckStep(t)
    BY <1>2, AckSame DEF StoreFrame
  <2>4. RestStep(t)
    BY <1>2, <1>10, RestSame DEF StoreFrame
  <2> QED BY <2>1, <2>2, <2>3, <2>4
<1> QED BY <1>10, <1>11 DEF Confined

FailsFrame(t, op) == StoreFails(t, op) /\ Storing(t, task[t].sub, op)

\* A failed store call leaves the file as it was or with its one entry put.
LEMMA FailedSecrets ==
  ASSUME TypeOK, ShapeInv, FileInv, NEW t \in Worker, NEW op, StoreFails(t, op)
  PROVE SecretStep(t) /\ RowStep(t)
<1> DEFINE tk == task[t]
<1>1. /\ Storing(t, tk.sub, op) /\ holder' = Nobody
      /\ backend' = backend /\ row' = row /\ index' = index
  BY DEF StoreFails
<1>4. \/ data' = data
      \/ backend = "file" /\ tk.sub = 1 /\ data' = Put(tk.file, tk.src, op)
  BY DEF StoreFails
<1>2. op \in StoreCall /\ tk.src \in Source
  BY <1>1, StoringOp
<1>3. RowStep(t)
  BY <1>1, RowSame
<1>5. CASE data' = data
  <2>1. /\ data \in [Scope -> IF backend = "env" THEN [Field -> Value] ELSE Secrets]
        /\ index \in [Scope -> SUBSET Field]
    BY DEF TypeOK
  <2> QED BY <1>1, <1>3, <1>5, <2>1 DEF SecretStep
<1>6. CASE backend = "file" /\ tk.sub = 1 /\ data' = Put(tk.file, tk.src, op)
  <2>1. tk.file = data
    BY <1>6 DEF FileInv
  <2>2. data' = Put(data, task[t].src, op) /\ UNCHANGED <<backend, index>>
        /\ holder' \in Worker \cup {Nobody}
    BY <1>1, <1>6, <2>1
  <2> HIDE DEF tk
  <2>3. task[t].src \in Source
    BY <1>2 DEF tk
  <2> QED BY <1>2, <1>3, <2>2, <2>3, DataPut
<1> QED BY <1>3, <1>4, <1>5, <1>6

\* A call whose store call failed turns to undoing what it did.
LEMMA FailsTurns ==
  ASSUME TypeOK, ShapeInv, FileInv, NEW t \in Worker, NEW op, StoreFails(t, op) /\ ~task[t].undo /\ task[t].op # "run"
  PROVE Confined(t)
<1> DEFINE tk == task[t]
           pcv == CASE tk.op = "update" -> "revert"
                              [] tk.op = "create" -> "unmake"
                              [] OTHER -> "store"
           n == [tk EXCEPT !.undo = TRUE, !.sub = 0, !.call = NoOp,
                     !.file = NoFile, !.keys = {}, !.pc = pcv,
                     !.todo = Restores(tk.had)]
<1>1. tk \in Task /\ Shape(tk)
  BY DEF TypeOK, ShapeInv
<1>2. Storing(t, tk.sub, op)
  BY DEF StoreFails
<1>3. tk.pc = "store" /\ tk.src \in Source /\ op \in tk.todo /\ op \in StoreCall
  BY <1>2, StoringOp
<1>4. tk.op \in {"update", "create", "delete"}
  BY <1>1, <1>3, TaskFields DEF Shape
<1>5. tk.had \in Secrets
  BY <1>1, TaskFields
<1>6. Restores(tk.had) \in SUBSET StoreCall
  BY <1>5, RestoresType
<1>7. pcv \in PcType /\ pcv = IF tk.op = "update" THEN "revert" ELSE IF tk.op = "create" THEN "unmake" ELSE "store"
  BY <1>4, Members
<1>8. n \in Task
  <2> HIDE DEF Row, Secrets, Secret, StoreCall, NoOp, NoFile, NoRow, NoSecret,
               Given
  <2> HIDE DEF pcv
  <2> QED BY <1>1, <1>2, <1>3, <1>4, <1>5, <1>6, <1>7, TaskIs, Members, Belongs
<1>9. Shape(n) /\ n.src = tk.src
  <2> HIDE DEF Row, Secrets, Secret, StoreCall, NoOp, NoFile, NoRow, NoSecret,
               Given
  <2> QED BY <1>1, <1>2, <1>3, <1>4, <1>5, <1>6, <1>7, TaskIs DEF Shape
<1>10. Goto(t, n)
  BY DEF StoreFails
<1> HIDE DEF n
<1>11. Moved(t) /\ phase' = phase
  BY <1>8, <1>9, <1>10, MovesTo
<1>12. RowStep(t) /\ SecretStep(t) /\ AckStep(t) /\ RestStep(t)
  <2>1. RowStep(t) /\ SecretStep(t)
    BY FailedSecrets
  <2>2. AckStep(t)
    BY AckSame DEF StoreFails
  <2>3. RestStep(t)
    BY <1>3, <1>11 DEF StoreFails, TypeOK, RestStep, Upset, Mix
  <2> QED BY <2>1, <2>2, <2>3
<1> QED BY <1>11, <1>12 DEF Confined

\* create_source goes on deleting when a delete of its undo fails.
LEMMA FailsUnmaking ==
  ASSUME TypeOK, ShapeInv, FileInv, NEW t \in Worker, NEW op, StoreFails(t, op) /\ task[t].undo /\ task[t].op = "create"
  PROVE Confined(t)
<1> DEFINE tk == task[t]
           n == [tk EXCEPT !.todo = @ \ {op}, !.sub = 0, !.call = NoOp,
                          !.file = NoFile, !.keys = {}]
<1>1. tk \in Task /\ Shape(tk)
  BY DEF TypeOK, ShapeInv
<1>2. Storing(t, tk.sub, op)
  BY DEF StoreFails
<1>3. tk.pc = "store" /\ tk.src \in Source /\ op \in tk.todo /\ op \in StoreCall
  BY <1>2, StoringOp
<1>4. tk.todo \ {op} \in SUBSET StoreCall
  BY <1>1, TaskFields
<1>5. Given(n) = Given(tk)
  BY <1>1 DEF Task, Given
<1>6. n \in Task
  <2> HIDE DEF Row, Secrets, Secret, StoreCall, NoOp, NoFile, NoRow, NoSecret,
               Given
  <2> QED BY <1>1, <1>2, <1>3, <1>4, <1>5, TaskIs, Members, Belongs
<1>7. Shape(n) /\ n.src = tk.src
  <2> HIDE DEF Row, Secrets, Secret, StoreCall, NoOp, NoFile, NoRow, NoSecret,
               Given
  <2> QED BY <1>1, <1>2, <1>3, <1>4, <1>5, TaskIs DEF Shape
<1>8. Goto(t, n)
  BY DEF StoreFails, Returned
<1> HIDE DEF n
<1>9. Moved(t) /\ phase' = phase
  BY <1>6, <1>7, <1>8, MovesTo
<1>10. RowStep(t) /\ SecretStep(t) /\ AckStep(t) /\ RestStep(t)
  <2>1. RowStep(t) /\ SecretStep(t)
    BY FailedSecrets
  <2>2. AckStep(t)
    BY AckSame DEF StoreFails
  <2>3. RestStep(t)
    BY <1>3, <1>9 DEF StoreFails, TypeOK, RestStep, Upset, Mix
  <2> QED BY <2>1, <2>2, <2>3
<1> QED BY <1>9, <1>10 DEF Confined

\* StoreFails touches its own task and its own source only.
LEMMA StoreFailsStep ==
  ASSUME TypeOK, ShapeInv, FileInv, NEW t \in Worker, NEW op, StoreFails(t, op)
  PROVE Confined(t)
<1> DEFINE tk == task[t]
<1>1. Storing(t, tk.sub, op) /\ tk \in Task
  BY DEF StoreFails, TypeOK
<1>2. Shape(tk) /\ tk.pc = "store" /\ tk.src \in Source
  BY <1>1, StoringOp
<1>3. tk.op \in {"create", "update", "delete", "run"} /\ tk.undo \in BOOLEAN
  BY <1>1, <1>2, TaskFields DEF Shape
<1>4. tk.undo => tk.op # "run"
  BY <1>2 DEF Shape
<1>5. CASE tk.op = "run" \/ (tk.op # "create" /\ tk.undo)
  <2>1. Err(t) /\ mixed' = mixed \cup {tk.src} /\ calls' = calls
        /\ upsets' \in Nat /\ UNCHANGED born
    BY <1>4, <1>5 DEF StoreFails, Upset, Mix, TypeOK
  <2>2. Moved(t) /\ AckStep(t)
    BY <2>1, ErrStep
  <2>3. RestStep(t)
    BY <1>2, <2>1, LeavesTo DEF Err, TypeOK, RestStep
  <2> QED BY <2>2, <2>3, FailedSecrets DEF Confined
<1> QED BY <1>3, <1>4, <1>5, FailsTurns, FailsUnmaking

----------------------------------------------------------------------------
(***************************************************************************)
(* Every step of a worker in a call.                                       *)
(***************************************************************************)
StoreStep(t, op) ==
  \/ MapSet(t, op) \/ FileLoad(t, op) \/ FileSave(t, op)
  \/ EntrySet(t, op) \/ IndexLoad(t, op) \/ IndexSave(t, op)
  \/ StoreFails(t, op)

WorkerStep(t) ==
  \/ ReadRow(t) \/ Snapshot(t) \/ Insert(t) \/ Configure(t) \/ Commit(t)
  \/ Drop(t) \/ Revert(t) \/ Unmake(t) \/ DbFails(t)
  \/ \E op \in task[t].todo : StoreStep(t, op)
  \/ Stored(t)
  \/ MigrateKey(t) \/ Migrated(t) \/ SecretSet(t) \/ Stage(t)

CallBegins ==
  \/ create_source \/ update_source \/ delete_source \/ execute
  \/ apply_sources

\* The next-state relation, by who takes the step.
LEMMA NextIs ==
  Next <=> \/ CallBegins \/ BootRefuses
           \/ \E t \in Worker : WorkerStep(t)
           \/ Crash \/ Restart
BY DEF Next, CallBegins, WorkerStep, StoreStep

\* ReadRow touches its own task and its own source only.
LEMMA ReadRowStep ==
  ASSUME TypeOK, ShapeInv, NEW t \in Worker, ReadRow(t)
  PROVE Confined(t)
<1>1. CASE row[task[t].src].live
  BY <1>1, ReadRowLives
<1>2. CASE ~row[task[t].src].live
  <2>1. Err(t) /\ UNCHANGED <<backend, row, secrets, born, mixed, calls>>
        /\ upsets' \in Nat
    BY <1>2 DEF ReadRow, TypeOK, counters
  <2> QED BY <2>1, FailedStep
<1> QED BY <1>1, <1>2

\* Snapshot touches its own task and its own source only.
LEMMA SnapshotStep ==
  ASSUME TypeOK, ShapeInv, NEW t \in Worker, Snapshot(t)
  PROVE Confined(t)
<1>1. CASE Refused(t)
  <2>1. Err(t) /\ UNCHANGED <<backend, row, secrets, born, mixed, calls>>
        /\ upsets' \in Nat
    BY <1>1, SnapshotRefused DEF TypeOK, counters
  <2> QED BY <2>1, FailedStep
<1> QED BY <1>1, SnapshotUpdate, SnapshotDelete

\* Commit of a configuration whose row is gone fails or is a bare step.
LEMMA GoneCommits ==
  ASSUME NEW t \in Worker, Commit(t), task[t].sets, ~row[task[t].src].live
  PROVE Err(t) \/ Bare(t)
BY DEF Commit, Bare

\* Commit touches its own task and its own source only.
LEMMA CommitStep ==
  ASSUME TypeOK, ShapeInv, NEW t \in Worker, Commit(t)
  PROVE Confined(t)
<1>1. CASE task[t].sets /\ ~row[task[t].src].live
  <2>1. CASE Err(t)
    <3>1. Err(t) /\ UNCHANGED <<backend, row, secrets, born, mixed, calls>>
          /\ upsets' \in Nat
      BY <1>1, <2>1 DEF Commit, TypeOK, counters
    <3> QED BY <3>1, FailedStep
  <2> QED BY <1>1, <2>1, GoneCommits, BareStep
<1> QED BY <1>1, CommitSets, CommitRenames

\* StoreStep touches its own task and its own source only.
LEMMA StoreStepStep ==
  ASSUME TypeOK, ShapeInv, FileInv, NEW t \in Worker, NEW op, StoreStep(t, op)
  PROVE Confined(t)
BY MapSetStep, FileLoadStep, FileSaveStep, EntrySetStep, IndexLoadStep,
   IndexSaveStep, StoreFailsStep DEF StoreStep

\* Whatever a worker does in a call, it touches only its own record and its
\* own source.
LEMMA StepConfined ==
  ASSUME TypeOK, ShapeInv, FileInv, NEW t \in Worker, WorkerStep(t)
  PROVE Confined(t)
<1>1. CASE \E op \in task[t].todo : StoreStep(t, op)
  BY <1>1, StoreStepStep
<1>2. CASE Configure(t)
  BY <1>2, ConfigureLives, ConfigureGone, GoneConfigures, BareStep
<1>3. CASE MigrateKey(t)
  BY <1>3, MigrateCopies, MigrateSkips
<1> QED BY <1>1, <1>2, <1>3, ReadRowStep, SnapshotStep, InsertStep, CommitStep,
           DropStep, RevertStep, UnmakeStep, DbFailsStep, StoredStep,
           MigratedStep, SecretSetStep, StageStep DEF WorkerStep

----------------------------------------------------------------------------
(***************************************************************************)
(* The beginnings of the calls.                                            *)
(***************************************************************************)
Named(s) == row[s].live /\ row[s].name = FileName

Fresh(tk) ==
  /\ tk \in Task /\ Shape(tk) /\ tk.src \in Source
  /\ tk.todo = {} /\ tk.sub = 0 /\ ~tk.undo /\ tk.had = NoSecret
  /\ \/ tk.op = "create" /\ tk.pc = "insert"
     \/ tk.op \in {"update", "delete", "run"} /\ tk.pc = "read"
  /\ tk.op = "run" => tk.ver # Missing

Applies(tk) ==
  /\ tk.ask = FileAsk /\ tk.ver = FromFile /\ tk.sets
  /\ \/ tk.op = "create" /\ tk.name = FileName
     \/ tk.op = "update" /\ tk.name = "" /\ Named(tk.src)
  /\ \A o \in Source \ {tk.src} : ~Named(o)

Begun(t, tk) ==
  /\ Fresh(tk) /\ Begin(t, tk)
  /\ tk.op = "create" => Unborn(tk.src)
  /\ calls' \in 0..MaxCalls
  /\ phase \in {"boot", "serving"}
  /\ phase = "boot" => Applies(tk)

NewCreate(s, n, ask, ver) ==
  [Idle EXCEPT !.pc = "insert", !.op = "create", !.src = s, !.name = n,
               !.sets = TRUE, !.ask = ask, !.ver = ver]
NewUpdate(s, ask, ver) ==
  [Idle EXCEPT !.pc = "read", !.op = "update", !.src = s, !.name = "",
               !.sets = TRUE, !.ask = ask, !.ver = ver]
NewRename(s, n, ver) ==
  [Idle EXCEPT !.pc = "read", !.op = "update", !.src = s, !.name = n,
               !.sets = FALSE, !.ask = Idle.ask, !.ver = ver]
NewDelete(s) == [Idle EXCEPT !.pc = "read", !.op = "delete", !.src = s]
NewRun(s, v) == [Idle EXCEPT !.pc = "read", !.op = "run", !.src = s, !.ver = v]

\* The fields of an idle task that the proofs read.
LEMMA IdleFields ==
  /\ Idle \in Task /\ Idle.todo = {} /\ Idle.sub = 0 /\ Idle.undo = FALSE
  /\ Idle.had = NoSecret /\ Idle.stage = "" /\ Idle.pc = "idle" /\ Idle.src = ""
<1> HIDE DEF NoOp, NoFile, NoRow, NoSecret
<1> QED BY IdleType DEF Idle

\* A create_source that begins.
LEMMA NewCreateFresh ==
  ASSUME NEW s \in Source, NEW n \in Name,
         NEW ask \in [Field -> {"new", "keep", "omit"}], NEW ver \in Secret,
         \A k \in Field : ask[k] # "keep"
  PROVE /\ Fresh(NewCreate(s, n, ask, ver))
        /\ NewCreate(s, n, ask, ver).op = "create"
        /\ NewCreate(s, n, ask, ver).src = s
        /\ NewCreate(s, n, ask, ver).name = n /\ NewCreate(s, n, ask, ver).sets
        /\ NewCreate(s, n, ask, ver).ask = ask
        /\ NewCreate(s, n, ask, ver).ver = ver
<1> DEFINE tk == NewCreate(s, n, ask, ver)
<1>1. tk \in Task
  BY IdleFields, TaskIs, Members, Belongs DEF NewCreate
<1>2. /\ tk.pc = "insert" /\ tk.op = "create" /\ tk.src = s /\ tk.name = n
      /\ tk.sets = TRUE /\ tk.ask = ask /\ tk.ver = ver
      /\ tk.todo = {} /\ tk.sub = 0 /\ tk.undo = FALSE /\ tk.had = NoSecret
      /\ tk.stage = ""
  BY IdleFields, TaskIs DEF NewCreate
<1> HIDE DEF tk
<1>3. Shape(tk)
  BY <1>2 DEF Shape
<1> QED BY <1>1, <1>2, <1>3 DEF Fresh, tk

\* An update_source that begins with a configuration.
LEMMA NewUpdateSets ==
  ASSUME NEW s \in Source, NEW ask \in [Field -> {"new", "keep", "omit"}], NEW ver \in Secret
  PROVE Fresh(NewUpdate(s, ask, ver))
<1> DEFINE tk == NewUpdate(s, ask, ver)
<1>1. tk \in Task
  BY IdleFields, TaskIs, Members, Belongs DEF NewUpdate
<1>2. /\ tk.pc = "read" /\ tk.op = "update" /\ tk.src = s /\ tk.name = ""
      /\ tk.sets = TRUE /\ tk.ask = ask /\ tk.ver = ver
      /\ tk.todo = {} /\ tk.sub = 0 /\ tk.undo = FALSE /\ tk.had = NoSecret
      /\ tk.stage = ""
  BY IdleFields, TaskIs DEF NewUpdate
<1> HIDE DEF tk
<1>3. Shape(tk)
  BY <1>2 DEF Shape
<1> QED BY <1>1, <1>2, <1>3 DEF Fresh, tk

\* An update_source that begins with a name.
LEMMA NewUpdateNames ==
  ASSUME NEW s \in Source, NEW n \in Name \cup {""}, NEW ver \in Secret
  PROVE /\ Fresh(NewRename(s, n, ver))
        /\ NewRename(s, n, ver).op = "update"
<1> DEFINE tk == NewRename(s, n, ver)
<1>1. tk \in Task
  BY IdleFields, TaskIs, Members, Belongs DEF NewRename
<1>2. /\ tk.pc = "read" /\ tk.op = "update" /\ tk.src = s /\ tk.name = n
      /\ tk.sets = FALSE /\ tk.ask = Idle.ask /\ tk.ver = ver
      /\ tk.todo = {} /\ tk.sub = 0 /\ tk.undo = FALSE /\ tk.had = NoSecret
      /\ tk.stage = ""
  BY IdleFields, TaskIs DEF NewRename
<1> HIDE DEF tk
<1>3. Shape(tk)
  BY <1>2 DEF Shape
<1> QED BY <1>1, <1>2, <1>3 DEF Fresh, tk

\* A delete_source that begins.
LEMMA NewDeleteFresh ==
  ASSUME NEW s \in Source
  PROVE /\ Fresh(NewDelete(s))
        /\ NewDelete(s).op = "delete" /\ NewDelete(s).src = s
<1> DEFINE tk == NewDelete(s)
<1>1. tk \in Task
  BY IdleFields, TaskIs, Members, Belongs DEF NewDelete
<1>2. /\ tk.pc = "read" /\ tk.op = "delete" /\ tk.src = s
      /\ tk.todo = {} /\ tk.sub = 0 /\ tk.undo = FALSE /\ tk.had = NoSecret
      /\ tk.stage = ""
  BY IdleFields, TaskIs DEF NewDelete
<1> HIDE DEF tk
<1>3. Shape(tk)
  BY <1>2 DEF Shape
<1> QED BY <1>1, <1>2, <1>3 DEF Fresh, tk

\* A script run that begins.
LEMMA NewRunFresh ==
  ASSUME NEW s \in Source, NEW v \in Secret, v # Missing
  PROVE /\ Fresh(NewRun(s, v))
        /\ NewRun(s, v).op = "run" /\ NewRun(s, v).src = s
<1> DEFINE tk == NewRun(s, v)
<1>1. tk \in Task
  BY IdleFields, TaskIs, Members, Belongs DEF NewRun
<1>2. /\ tk.pc = "read" /\ tk.op = "run" /\ tk.src = s /\ tk.ver = v
      /\ tk.todo = {} /\ tk.sub = 0 /\ tk.undo = FALSE /\ tk.had = NoSecret
      /\ tk.stage = ""
  BY IdleFields, TaskIs DEF NewRun
<1> HIDE DEF tk
<1>3. Shape(tk)
  BY <1>2 DEF Shape
<1> QED BY <1>1, <1>2, <1>3 DEF Fresh, tk

\* The number of a new call is a secret no earlier value of the module has.
LEMMA AnotherCall ==
  ASSUME TypeOK, Another
  PROVE /\ phase = "serving" /\ calls' \in 0..MaxCalls
        /\ Version(calls') \in Secret /\ Version(calls') # Missing
<1>1. calls \in 0..MaxCalls /\ MaxCalls \in Nat /\ calls < MaxCalls
      /\ calls' = calls + 1 /\ phase = "serving"
  BY Values DEF TypeOK, Another
<1>2. calls' \in 0..MaxCalls
  BY <1>1
<1> QED BY <1>1, <1>2, Values

\* What a call and the file may ask; the file asks to keep nothing.
LEMMA Asked ==
  /\ Asks \subseteq [Field -> {"new", "keep", "omit"}]
  /\ FileAsk \in [Field -> {"new", "keep", "omit"}]
  /\ \A k \in Field : FileAsk[k] # "keep"
  /\ FileName \in Name /\ "" \notin Name
<1>1. FileAsk \in [Field -> {"new", "omit"}]
  BY SourceAssumption
<1>2. FileAsk \in [Field -> {"new", "keep", "omit"}]
  BY <1>1
<1>3. Asks \subseteq [Field -> {"new", "keep", "omit"}]
  BY SourceAssumption
<1>4. FileName \in Name /\ "" \notin Name
  BY SourceAssumption
<1> QED BY <1>1, <1>2, <1>3, <1>4

\* The calls that begin by create_source have fresh tasks.
LEMMA BeginsCreate ==
  ASSUME TypeOK, create_source
  PROVE \E t \in Worker, tk \in Task : Begun(t, tk)
<1>1. PICK t \in Worker, s \in Source, n \in Name, ask \in Asks :
        Another /\ Create(t, s, n, ask, Version(calls'))
  BY DEF create_source
<1> DEFINE tk == NewCreate(s, n, ask, Version(calls'))
<1>2. Unborn(s) /\ Begin(t, tk) /\ \A k \in Field : ask[k] # "keep"
  BY <1>1 DEF Create, NewCreate
<1>5. Version(calls') \in Secret /\ ask \in [Field -> {"new", "keep", "omit"}]
  BY <1>1, AnotherCall, Asked
<1>3. Fresh(tk) /\ tk.op = "create" /\ tk.src = s
  BY <1>2, <1>5, NewCreateFresh
<1> HIDE DEF tk
<1>4. Begun(t, tk)
  BY <1>1, <1>2, <1>3, AnotherCall DEF Begun
<1> QED BY <1>4 DEF Begun, Fresh

\* The calls that begin by update_source have fresh tasks.
LEMMA BeginsUpdate ==
  ASSUME TypeOK, update_source
  PROVE \E t \in Worker, tk \in Task : Begun(t, tk)
<1>1. PICK t \in Worker, s \in Source :
        /\ Another
        /\ \/ \E ask \in Asks : Update(t, s, "", TRUE, ask, Version(calls'))
           \/ \E n \in Name : Update(t, s, n, FALSE, Idle.ask, Version(calls'))
  BY DEF update_source
<1>2. /\ Version(calls') \in Secret
      /\ Idle.ask \in [Field -> {"new", "keep", "omit"}]
      /\ "" \in Name \cup {""}
  BY <1>1, AnotherCall, IdleFields, TaskFields
<1>3. ASSUME NEW ask \in Asks, Update(t, s, "", TRUE, ask, Version(calls'))
      PROVE \E tk \in Task : Begun(t, tk)
  <2> DEFINE tk == NewUpdate(s, ask, Version(calls'))
  <2>1. Begin(t, tk)
    BY <1>3 DEF Update, NewUpdate
  <2>2. ask \in [Field -> {"new", "keep", "omit"}]
    BY Asked
  <2>5. Version(calls') \in Secret
    BY <1>2
  <2>6. Fresh(tk)
    BY <2>5, <2>2, NewUpdateSets
  <2>7. tk.op = "update"
    BY IdleFields, TaskIs DEF NewUpdate
  <2>3. Fresh(tk) /\ tk.op = "update"
    BY <2>6, <2>7
  <2> HIDE DEF tk
  <2>4. Begun(t, tk)
    BY <1>1, <2>1, <2>3, AnotherCall DEF Begun
  <2> QED BY <2>4 DEF Begun, Fresh
<1>4. ASSUME NEW n \in Name, Update(t, s, n, FALSE, Idle.ask, Version(calls'))
      PROVE \E tk \in Task : Begun(t, tk)
  <2> DEFINE tk == NewRename(s, n, Version(calls'))
  <2>1. Begin(t, tk)
    BY <1>4 DEF Update, NewRename
  <2>2. n \in Name \cup {""}
    OBVIOUS
  <2>3. Fresh(tk) /\ tk.op = "update"
    BY <1>2, <2>2, NewUpdateNames
  <2> HIDE DEF tk
  <2>4. Begun(t, tk)
    BY <1>1, <2>1, <2>3, AnotherCall DEF Begun
  <2> QED BY <2>4 DEF Begun, Fresh
<1> QED BY <1>1, <1>3, <1>4

\* The calls that begin by delete_source have fresh tasks.
LEMMA BeginsDelete ==
  ASSUME TypeOK, delete_source
  PROVE \E t \in Worker, tk \in Task : Begun(t, tk)
<1>1. PICK t \in Worker, s \in Source : Another /\ Begin(t, NewDelete(s))
  BY DEF delete_source, NewDelete
<1>2. Fresh(NewDelete(s)) /\ NewDelete(s).op = "delete"
  BY NewDeleteFresh
<1>3. Begun(t, NewDelete(s))
  BY <1>1, <1>2, AnotherCall DEF Begun
<1> QED BY <1>3 DEF Begun, Fresh

\* The calls that begin by execute have fresh tasks.
LEMMA BeginsRun ==
  ASSUME TypeOK, execute
  PROVE \E t \in Worker, tk \in Task : Begun(t, tk)
<1>1. PICK t \in Worker, s \in Source :
        Another /\ Begin(t, NewRun(s, Version(calls')))
  BY DEF execute, NewRun
<1>2. Fresh(NewRun(s, Version(calls'))) /\ NewRun(s, Version(calls')).op = "run"
  BY <1>1, AnotherCall, NewRunFresh
<1>3. Begun(t, NewRun(s, Version(calls')))
  BY <1>1, <1>2, AnotherCall DEF Begun
<1> QED BY <1>3 DEF Begun, Fresh

\* The calls that begin by apply_sources have fresh tasks.
LEMMA BeginsApply ==
  ASSUME TypeOK, apply_sources
  PROVE \E t \in Worker, tk \in Task : Begun(t, tk)
<1>1. PICK t \in Worker, s \in Source :
        /\ phase = "boot" /\ ~NameTwice /\ UNCHANGED calls
        /\ \/ row[s].live /\ row[s].name = FileName
              /\ Update(t, s, "", TRUE, FileAsk, FromFile)
           \/ (\A o \in Source : ~(row[o].live /\ row[o].name = FileName))
              /\ Create(t, s, FileName, FileAsk, FromFile)
  BY DEF apply_sources
<1>2. calls' \in 0..MaxCalls /\ FromFile \in Secret
  BY <1>1, Values DEF TypeOK
<1>3. CASE /\ Named(s)
           /\ Update(t, s, "", TRUE, FileAsk, FromFile)
  <2> DEFINE tk == NewUpdate(s, FileAsk, FromFile)
  <2>1. Begin(t, tk)
    BY <1>3 DEF Update, NewUpdate
  <2>2. /\ Fresh(tk) /\ tk.op = "update" /\ tk.src = s /\ tk.name = ""
        /\ tk.sets /\ tk.ask = FileAsk /\ tk.ver = FromFile
    <3>1. "" \in Name \cup {""} 
          /\ FileAsk \in [Field -> {"new", "keep", "omit"}]
      BY Asked
    <3>2. Fresh(tk)
      BY <1>2, <3>1, NewUpdateSets
    <3>3. /\ tk.op = "update" /\ tk.src = s /\ tk.name = ""
          /\ tk.sets = TRUE /\ tk.ask = FileAsk /\ tk.ver = FromFile
      BY IdleFields, TaskIs DEF NewUpdate
    <3> QED BY <3>2, <3>3
  <2>3. \A o \in Source \ {s} : ~Named(o)
    BY <1>1, <1>3 DEF NameTwice, Named
  <2> HIDE DEF tk
  <2>4. Begun(t, tk)
    BY <1>1, <1>2, <1>3, <2>1, <2>2, <2>3 DEF Begun, Applies
  <2> QED BY <2>4 DEF Begun, Fresh
<1>4. CASE /\ \A o \in Source : ~Named(o)
           /\ Create(t, s, FileName, FileAsk, FromFile)
  <2> DEFINE tk == NewCreate(s, FileName, FileAsk, FromFile)
  <2>1. Begin(t, tk) /\ Unborn(s)
    BY <1>4 DEF Create, NewCreate
  <2>2. /\ Fresh(tk) /\ tk.op = "create" /\ tk.src = s /\ tk.name = FileName
        /\ tk.sets /\ tk.ask = FileAsk /\ tk.ver = FromFile
    <3>1. /\ FileName \in Name /\ \A k \in Field : FileAsk[k] # "keep"
          /\ FileAsk \in [Field -> {"new", "keep", "omit"}]
      BY Asked
    <3> QED BY <1>2, <3>1, NewCreateFresh
  <2> HIDE DEF tk
  <2>3. Begun(t, tk)
    BY <1>1, <1>2, <1>4, <2>1, <2>2 DEF Begun, Applies
  <2> QED BY <2>3 DEF Begun, Fresh
<1> QED BY <1>1, <1>3, <1>4 DEF Named

\* Every call begins from an idle worker with a fresh task.
LEMMA CallsBegin ==
  ASSUME TypeOK, CallBegins
  PROVE \E t \in Worker, tk \in Task : Begun(t, tk)
BY BeginsCreate, BeginsUpdate, BeginsDelete, BeginsRun, BeginsApply
   DEF CallBegins

----------------------------------------------------------------------------
(***************************************************************************)
(* The type, the shape of a call and the file store's mutex: inductive.    *)
(***************************************************************************)
Quiet(t) ==
  UNCHANGED <<backend, secrets>> /\ task'[t].sub = 0 /\ task'[t].pc # "insert"

\* An idle worker is in no store call.
LEMMA IdleSub == Idle.sub = 0
BY IdleFields

\* Outside the store part no store call is under way.
LEMMA NoCallMade ==
  ASSUME TypeOK, ShapeInv, NEW t \in Worker,
         task[t].pc # "store" \/ task[t].todo = {}
  PROVE /\ task[t] \in Task /\ task[t].sub = 0
        /\ task \in [Worker -> Task]
<1>1. task[t] \in Task /\ Shape(task[t]) /\ task \in [Worker -> Task]
  BY DEF TypeOK, ShapeInv
<1> QED BY <1>1 DEF Shape

\* A call that returns is in no store call.
LEMMA LeaveQuiet ==
  ASSUME TypeOK, NEW t \in Worker, NEW ok, Leave(t, ok)
  PROVE task'[t].sub = 0 /\ task'[t].pc # "insert"
BY LeavesTo, IdleFields

\* ReadRow leaves the secret store alone.
LEMMA ReadRowQuiet ==
  ASSUME TypeOK, ShapeInv, NEW t \in Worker, ReadRow(t)
  PROVE Quiet(t)
<1>1. task[t].pc # "store" \/ task[t].todo = {}
  BY DEF ReadRow
<1>2. task[t] \in Task /\ task[t].sub = 0 /\ task \in [Worker -> Task]
  BY <1>1, NoCallMade
<1>3. UNCHANGED <<backend, secrets>>
  BY DEF ReadRow
<1>4. CASE row[task[t].src].live
  <2> DEFINE pcv == IF task[t].op = "run" THEN "migrate" ELSE "snapshot"
             nm == IF task[t].name = "" THEN row[task[t].src].name
                   ELSE task[t].name
  <2>1. task' = [task EXCEPT ![t] =
          [task[t] EXCEPT !.seen = row[task[t].src], !.left = Fields,
                          !.pc = pcv, !.name = nm]]
    BY <1>2, <1>4 DEF ReadRow, Goto
  <2>2. pcv # "insert"
    OBVIOUS
  <2> HIDE DEF pcv, nm
  <2> QED BY <1>2, <1>3, <2>1, <2>2, TaskIs DEF Quiet
<1>5. CASE ~row[task[t].src].live
  BY <1>3, <1>5, LeaveQuiet DEF ReadRow, Err, Quiet
<1> QED BY <1>4, <1>5

\* Snapshot leaves the secret store alone.
LEMMA SnapshotQuiet ==
  ASSUME TypeOK, ShapeInv, NEW t \in Worker, Snapshot(t)
  PROVE Quiet(t)
<1>1. task[t].pc # "store" \/ task[t].todo = {}
  BY DEF Snapshot
<1>2. task[t] \in Task /\ task[t].sub = 0 /\ task \in [Worker -> Task]
  BY <1>1, NoCallMade
<1>3. UNCHANGED <<backend, secrets>>
  BY DEF Snapshot
<1>4. task'[t].sub = 0 /\ task'[t].pc # "insert"
  <2>1. ASSUME Err(t)
        PROVE task'[t].sub = 0 /\ task'[t].pc # "insert"
    BY <2>1, LeaveQuiet DEF Err
  <2> DEFINE tk == task[t]
             hd == [k \in Field |-> get(tk.src, k)]
             ef == [k \in Field |-> Effective(tk.src, k)]
             updates == [tk EXCEPT !.had = hd, !.eff = ef, !.pc = "commit"]
             deletes == [tk EXCEPT !.had = hd, !.eff = ef, !.pc = "store",
                                   !.todo = Restores(NoSecret)]
  <2>2. \/ Err(t)
        \/ task' = [task EXCEPT ![t] = updates]
        \/ task' = [task EXCEPT ![t] = deletes]
    BY DEF Snapshot, Goto
  <2> HIDE DEF hd, ef
  <2>3. updates.sub = 0 /\ updates.pc # "insert"
    BY <1>2, TaskIs
  <2>4. deletes.sub = 0 /\ deletes.pc # "insert"
    BY <1>2, TaskIs
  <2> HIDE DEF updates, deletes
  <2> QED BY <1>2, <2>1, <2>2, <2>3, <2>4
<1> QED BY <1>3, <1>4 DEF Quiet

\* Insert leaves the secret store alone.
LEMMA InsertQuiet ==
  ASSUME TypeOK, ShapeInv, NEW t \in Worker, Insert(t)
  PROVE Quiet(t)
<1>1. task[t].pc # "store" \/ task[t].todo = {}
  BY DEF Insert
<1>2. task[t] \in Task /\ task[t].sub = 0 /\ task \in [Worker -> Task]
  BY <1>1, NoCallMade
<1>3. UNCHANGED <<backend, secrets>>
  BY DEF Insert
<1>4. task'[t].sub = 0 /\ task'[t].pc # "insert"
  BY <1>2, LeaveQuiet, TaskIs DEF Insert, Goto
<1> QED BY <1>3, <1>4 DEF Quiet

\* Configure leaves the secret store alone.
LEMMA ConfigureQuiet ==
  ASSUME TypeOK, ShapeInv, NEW t \in Worker, Configure(t)
  PROVE Quiet(t)
<1>1. task[t].pc # "store" \/ task[t].todo = {}
  BY DEF Configure
<1>2. task[t] \in Task /\ task[t].sub = 0 /\ task \in [Worker -> Task]
  BY <1>1, NoCallMade
<1>3. UNCHANGED <<backend, secrets>>
  BY DEF Configure
<1>4. CASE row[task[t].src].live
  <2>1. task' = [task EXCEPT ![t] = [task[t] EXCEPT !.pc = "store", !.todo = Persists(task[t])]]
    BY <1>4 DEF Configure, Goto
  <2> QED BY <1>2, <1>3, <2>1, TaskIs DEF Quiet
<1>5. CASE ~row[task[t].src].live
  <2>1. \/ task' = [task EXCEPT ![t] = [task[t] EXCEPT !.pc = "unmake", !.undo = TRUE]]
        \/ task' = [task EXCEPT ![t] = [task[t] EXCEPT !.pc = "store", !.todo = Persists(task[t])]]
    BY <1>5 DEF Configure, Goto
  <2> QED BY <1>2, <1>3, <2>1, TaskIs DEF Quiet
<1> QED BY <1>4, <1>5

\* Commit leaves the secret store alone.
LEMMA CommitQuiet ==
  ASSUME TypeOK, ShapeInv, NEW t \in Worker, Commit(t)
  PROVE Quiet(t)
<1>1. task[t].pc # "store" \/ task[t].todo = {}
  BY DEF Commit
<1>2. task[t] \in Task /\ task[t].sub = 0 /\ task \in [Worker -> Task]
  BY <1>1, NoCallMade
<1>3. UNCHANGED <<backend, secrets>>
  BY DEF Commit
<1>4. task'[t].sub = 0 /\ task'[t].pc # "insert"
  BY ZenonT(40), <1>2, LeaveQuiet, TaskIs DEF Commit, Goto, Err, Succeed
<1> QED BY <1>3, <1>4 DEF Quiet

\* Drop leaves the secret store alone.
LEMMA DropQuiet ==
  ASSUME TypeOK, ShapeInv, NEW t \in Worker, Drop(t)
  PROVE Quiet(t)
<1>1. task[t].pc # "store" \/ task[t].todo = {}
  BY DEF Drop
<1>2. task[t] \in Task /\ task[t].sub = 0 /\ task \in [Worker -> Task]
  BY <1>1, NoCallMade
<1>3. UNCHANGED <<backend, secrets>>
  BY DEF Drop
<1>4. task'[t].sub = 0 /\ task'[t].pc # "insert"
  BY <1>2, LeaveQuiet, TaskIs DEF Drop, Goto, Succeed
<1> QED BY <1>3, <1>4 DEF Quiet

\* Revert leaves the secret store alone.
LEMMA RevertQuiet ==
  ASSUME TypeOK, ShapeInv, NEW t \in Worker, Revert(t)
  PROVE Quiet(t)
<1>1. task[t].pc # "store" \/ task[t].todo = {}
  BY DEF Revert
<1>2. task[t] \in Task /\ task[t].sub = 0 /\ task \in [Worker -> Task]
  BY <1>1, NoCallMade
<1>3. UNCHANGED <<backend, secrets>>
  BY DEF Revert
<1>4. task'[t].sub = 0 /\ task'[t].pc # "insert"
  BY <1>2, LeaveQuiet, TaskIs DEF Revert, Goto
<1> QED BY <1>3, <1>4 DEF Quiet

\* Unmake leaves the secret store alone.
LEMMA UnmakeQuiet ==
  ASSUME TypeOK, ShapeInv, NEW t \in Worker, Unmake(t)
  PROVE Quiet(t)
<1>1. task[t].pc # "store" \/ task[t].todo = {}
  BY DEF Unmake
<1>2. task[t] \in Task /\ task[t].sub = 0 /\ task \in [Worker -> Task]
  BY <1>1, NoCallMade
<1>3. UNCHANGED <<backend, secrets>>
  BY DEF Unmake
<1>4. task'[t].sub = 0 /\ task'[t].pc # "insert"
  BY <1>2, LeaveQuiet, TaskIs DEF Unmake, Goto
<1> QED BY <1>3, <1>4 DEF Quiet

\* DbFails leaves the secret store alone.
LEMMA DbFailsQuiet ==
  ASSUME TypeOK, ShapeInv, NEW t \in Worker, DbFails(t)
  PROVE Quiet(t)
<1>1. task[t].pc # "store" \/ task[t].todo = {}
  BY DEF DbFails
<1>2. task[t] \in Task /\ task[t].sub = 0 /\ task \in [Worker -> Task]
  BY <1>1, NoCallMade
<1>3. UNCHANGED <<backend, secrets>>
  BY DEF DbFails
<1>4. CASE Err(t)
  BY <1>3, <1>4, LeaveQuiet DEF Err, Quiet
<1>5. CASE ~Err(t)
  <2> DEFINE tk == task[t]
             unmakes == [tk EXCEPT !.pc = "unmake", !.undo = TRUE]
             restores == [tk EXCEPT !.pc = "store", !.undo = TRUE,
                                    !.todo = Restores(tk.had)]
             reverts == [tk EXCEPT !.pc = "store", !.todo = Restores(tk.had)]
             forgets == [tk EXCEPT !.pc = "store", !.todo = Forgets(tk)]
             goes == \E n \in {unmakes, restores, reverts, forgets} :
                       task' = [task EXCEPT ![t] = n]
  <2>1. goes
    <3>1. CASE tk.pc = "configure"
      BY <1>5, <3>1 DEF DbFails, Goto
    <3>2. CASE tk.pc = "drop"
      BY <1>5, <3>2 DEF DbFails, Goto
    <3>3. CASE tk.pc = "revert"
      BY <1>5, <3>3 DEF DbFails, Goto
    <3>4. CASE tk.pc = "unmake"
      BY <1>5, <3>4 DEF DbFails, Goto
    <3>5. tk.pc \in {"read", "insert", "commit", "stage"} => Err(t)
      BY DEF DbFails
    <3>6. tk.pc \in {"read", "insert", "commit", "stage", "configure", "drop",
                    "revert", "unmake"}
      BY DEF DbFails
    <3> HIDE DEF goes
    <3> QED BY <1>5, <3>1, <3>2, <3>3, <3>4, <3>5, <3>6
  <2>2. ASSUME NEW n \in {unmakes, restores, reverts, forgets}
        PROVE n.sub = 0 /\ n.pc # "insert"
    BY <1>2, <2>2, TaskIs
  <2>3. task'[t].sub = 0 /\ task'[t].pc # "insert"
    <3> HIDE DEF unmakes, restores, reverts, forgets
    <3> QED BY <1>2, <2>1, <2>2
  <2> QED BY <1>3, <2>3 DEF Quiet
<1> QED BY <1>4, <1>5

\* Stored leaves the secret store alone.
LEMMA StoredQuiet ==
  ASSUME TypeOK, ShapeInv, NEW t \in Worker, Stored(t)
  PROVE Quiet(t)
<1>1. task[t].pc # "store" \/ task[t].todo = {}
  BY DEF Stored
<1>2. task[t] \in Task /\ task[t].sub = 0 /\ task \in [Worker -> Task]
  BY <1>1, NoCallMade
<1>3. UNCHANGED <<backend, secrets>>
  BY DEF Stored
<1>4. task'[t].sub = 0 /\ task'[t].pc # "insert"
  <2>1. CASE \E ok : Leave(t, ok)
    BY <2>1, LeaveQuiet
  <2>2. ASSUME NEW pc \in {"drop", "migrate", "stage"},
               task' = [task EXCEPT ![t] = [task[t] EXCEPT !.pc = pc]]
        PROVE task'[t].sub = 0 /\ task'[t].pc # "insert"
    BY <1>2, <2>2, TaskIs
  <2>3. \/ \E ok : Leave(t, ok)
        \/ \E pc \in {"drop", "migrate", "stage"} :
             task' = [task EXCEPT ![t] = [task[t] EXCEPT !.pc = pc]]
    BY DEF Stored, Goto, Err, Succeed
  <2> QED BY <2>1, <2>2, <2>3
<1> QED BY <1>3, <1>4 DEF Quiet

\* MigrateKey leaves the secret store alone.
LEMMA MigrateKeyQuiet ==
  ASSUME TypeOK, ShapeInv, NEW t \in Worker, MigrateKey(t)
  PROVE Quiet(t)
<1>1. task[t].pc # "store" \/ task[t].todo = {}
  BY DEF MigrateKey
<1>2. task[t] \in Task /\ task[t].sub = 0 /\ task \in [Worker -> Task]
  BY <1>1, NoCallMade
<1>3. UNCHANGED <<backend, secrets>>
  BY DEF MigrateKey
<1>4. task'[t].sub = 0 /\ task'[t].pc # "insert"
  BY <1>2, LeaveQuiet, TaskIs DEF MigrateKey, Goto
<1> QED BY <1>3, <1>4 DEF Quiet

\* Migrated leaves the secret store alone.
LEMMA MigratedQuiet ==
  ASSUME TypeOK, ShapeInv, NEW t \in Worker, Migrated(t)
  PROVE Quiet(t)
<1>1. task[t].pc # "store" \/ task[t].todo = {}
  BY DEF Migrated
<1>2. task[t] \in Task /\ task[t].sub = 0 /\ task \in [Worker -> Task]
  BY <1>1, NoCallMade
<1>3. UNCHANGED <<backend, secrets>>
  BY DEF Migrated
<1>4. task'[t].sub = 0 /\ task'[t].pc # "insert"
  BY <1>2, LeaveQuiet, TaskIs DEF Migrated, Goto
<1> QED BY <1>3, <1>4 DEF Quiet

\* SecretSet leaves the secret store alone.
LEMMA SecretSetQuiet ==
  ASSUME TypeOK, ShapeInv, NEW t \in Worker, SecretSet(t)
  PROVE Quiet(t)
<1>1. task[t].pc # "store" \/ task[t].todo = {}
  BY DEF SecretSet
<1>2. task[t] \in Task /\ task[t].sub = 0 /\ task \in [Worker -> Task]
  BY <1>1, NoCallMade
<1>3. UNCHANGED <<backend, secrets>>
  BY DEF SecretSet
<1>4. task'[t].sub = 0 /\ task'[t].pc # "insert"
  BY <1>2, LeaveQuiet, TaskIs DEF SecretSet, Goto
<1> QED BY <1>3, <1>4 DEF Quiet

\* Stage leaves the secret store alone.
LEMMA StageQuiet ==
  ASSUME TypeOK, ShapeInv, NEW t \in Worker, Stage(t)
  PROVE Quiet(t)
<1>1. task[t].pc # "store" \/ task[t].todo = {}
  BY DEF Stage
<1>2. task[t] \in Task /\ task[t].sub = 0 /\ task \in [Worker -> Task]
  BY <1>1, NoCallMade
<1>3. UNCHANGED <<backend, secrets>>
  BY DEF Stage
<1>4. ASSUME NEW seen, AfterStage(t, seen)
      PROVE task'[t].sub = 0 /\ task'[t].pc # "insert"
  <2> DEFINE sg == IF task[t].stage = "login" THEN "refresh" ELSE "fetch"
             n == [task[t] EXCEPT !.seen = seen, !.stage = sg]
  <2>1. (\E ok : Leave(t, ok)) \/ task' = [task EXCEPT ![t] = n]
    BY <1>4 DEF AfterStage, Goto
  <2>2. task[t].pc = "stage"
    BY StageCases
  <2> HIDE DEF sg
  <2>3. n.sub = 0 /\ n.pc # "insert"
    BY <1>2, <2>2, TaskIs
  <2> HIDE DEF n
  <2> QED BY <1>2, <2>1, <2>3, LeaveQuiet
<1>5. CASE \E v \in {0, task[t].ver} : AfterState(t, v)
  BY <1>3, <1>4, <1>5, LeaveQuiet DEF AfterState, Err, Quiet
<1>6. CASE Err(t)
  BY <1>3, <1>6, LeaveQuiet DEF Err, Quiet
<1>7. CASE AfterStage(t, task[t].seen)
  BY <1>3, <1>4, <1>7 DEF Quiet
<1> QED BY <1>5, <1>6, <1>7, StageCases


\* A step of a store call leaves the data or puts the entry of that call.
LEMMA StoreStepData ==
  ASSUME TypeOK, ShapeInv, FileInv, NEW t \in Worker, NEW op, StoreStep(t, op)
  PROVE /\ task[t].src \in Source /\ op \in StoreCall /\ op \in task[t].todo
        /\ task[t].pc = "store" /\ backend' = backend
        /\ data' = data \/ data' = Put(data, task[t].src, op)
<1>1. \E sub : Storing(t, sub, op)
  BY DEF StoreStep, MapSet, FileLoad, FileSave, EntrySet, IndexLoad, IndexSave,
         StoreFails
<1>2. /\ task[t].src \in Source /\ op \in StoreCall /\ op \in task[t].todo
      /\ task[t].pc = "store"
  BY <1>1, StoringOp
<1>3. CASE StoreFails(t, op)
  <2>1. /\ backend' = backend
        /\ \/ data' = data
           \/ backend = "file" /\ task[t].sub = 1
              /\ data' = Put(task[t].file, task[t].src, op)
    BY <1>3 DEF StoreFails
  <2> QED BY <1>2, <2>1 DEF FileInv
<1>4. CASE FileSave(t, op)
  <2>1. /\ backend' = backend /\ backend = "file" /\ Storing(t, 1, op)
        /\ data' = Put(task[t].file, task[t].src, op)
    BY <1>4 DEF FileSave, StoreFrame
  <2>2. task[t].sub = 1
    BY <2>1, StoringOp
  <2> QED BY <1>2, <2>1, <2>2 DEF FileInv
<1>5. CASE \/ MapSet(t, op) \/ FileLoad(t, op) \/ EntrySet(t, op)
           \/ IndexLoad(t, op) \/ IndexSave(t, op)
  <2>1. /\ backend' = backend
        /\ data' = data \/ data' = Put(data, task[t].src, op)
    BY <1>5 DEF MapSet, FileLoad, EntrySet, IndexLoad, IndexSave, StoreFrame,
                secrets
  <2> QED BY <1>2, <2>1
<1> QED BY <1>3, <1>4, <1>5 DEF StoreStep

\* While one worker holds the file's mutex no other is between load and save.
LEMMA MutexTaken ==
  ASSUME TypeOK, FileInv, NEW t \in Worker, backend = "file",
         holder \in {t, Nobody}
  PROVE \A u \in Worker \ {t} : task[u].sub # 1
BY Scopes DEF FileInv

\* The image a worker loaded stays what the file holds until it saves it.
LEMMA StoreStepFile ==
  ASSUME TypeOK, ShapeInv, FileInv, NEW t \in Worker, NEW op, StoreStep(t, op)
  PROVE FileInv'
<1> DEFINE tk == task[t]
<1>1. Moved(t) /\ backend' = backend
  BY StoreStepStep, StoreStepData DEF Confined
<1>2. tk \in Task /\ task \in [Worker -> Task]
  BY DEF TypeOK
<1>3. CASE backend # "file"
  BY <1>1, <1>3 DEF FileInv
<1>4. CASE backend = "file" /\ FileLoad(t, op)
  <2>1. holder = Nobody /\ holder' = t /\ data' = data
        /\ task' = [task EXCEPT ![t] = [tk EXCEPT !.sub = 1, !.call = op,
                                                  !.file = data]]
    BY <1>4 DEF FileLoad, Goto
  <2>2. task'[t].file = data /\ \A u \in Worker \ {t} : task'[u].sub # 1
    BY <1>1, <1>2, <1>4, <2>1, MutexTaken, TaskIs DEF Moved
  <2> QED BY <2>1, <2>2 DEF FileInv
<1>5. CASE backend = "file" /\ FileSave(t, op)
  <2>1. Storing(t, 1, op)
    BY <1>5 DEF FileSave
  <2>2. tk.sub = 1
    BY <2>1, StoringOp
  <2>3. holder = t
    BY <1>5, <2>2 DEF FileInv
  <2>4. task'[t].sub = 0
    BY <1>2, <1>5, TaskIs DEF FileSave, Returned, Goto
  <2> QED BY <1>1, <1>5, <2>3, <2>4, MutexTaken DEF FileInv, Moved
<1>6. CASE backend = "file" /\ StoreFails(t, op)
  <2>1. holder \in {t, Nobody}
    BY <1>6 DEF StoreFails
  <2>2. task'[t].sub = 0
    <3>1. CASE Returned(t, op)
      BY <1>2, <3>1, TaskIs DEF Returned, Goto
    <3>2. CASE Err(t)
      BY <3>2, LeaveQuiet DEF Err
    <3>3. CASE ~Returned(t, op) /\ ~Err(t)
      <4> DEFINE pcv == CASE tk.op = "update" -> "revert"
                          [] tk.op = "create" -> "unmake"
                          [] OTHER -> "store"
      <4>1. task' = [task EXCEPT ![t] =
              [tk EXCEPT !.undo = TRUE, !.sub = 0, !.call = NoOp,
                         !.file = NoFile, !.keys = {}, !.pc = pcv,
                         !.todo = Restores(tk.had)]]
        BY <1>6, <3>3 DEF StoreFails, Goto
      <4> HIDE DEF pcv
      <4> QED BY <1>2, <4>1, TaskIs
    <3> QED BY <3>1, <3>2, <3>3
  <2> QED BY <1>1, <1>6, <2>1, <2>2, MutexTaken DEF FileInv, Moved
<1>7. \/ MapSet(t, op) \/ FileLoad(t, op) \/ FileSave(t, op) \/ EntrySet(t, op)
      \/ IndexLoad(t, op) \/ IndexSave(t, op) \/ StoreFails(t, op)
  BY DEF StoreStep
<1>8. CASE backend = "file"
  BY <1>4, <1>5, <1>6, <1>7, <1>8
     DEF MapSet, EntrySet, IndexLoad, IndexSave, Volatile
<1> QED BY <1>3, <1>8

\* Every step but those of store calls leaves the secret store alone.
LEMMA WorkerQuiet ==
  ASSUME TypeOK, ShapeInv, NEW t \in Worker, WorkerStep(t),
         ~\E op \in task[t].todo : StoreStep(t, op)
  PROVE Quiet(t)
BY ReadRowQuiet, SnapshotQuiet, InsertQuiet, ConfigureQuiet, CommitQuiet,
   DropQuiet, RevertQuiet, UnmakeQuiet, DbFailsQuiet, StoredQuiet,
   MigrateKeyQuiet, MigratedQuiet, SecretSetQuiet, StageQuiet DEF WorkerStep

\* A worker's step keeps FileInv.
LEMMA WorkerFile ==
  ASSUME TypeOK, ShapeInv, FileInv, NEW t \in Worker, WorkerStep(t)
  PROVE FileInv'
<1>1. CASE \E op \in task[t].todo : StoreStep(t, op)
  BY <1>1, StoreStepFile
<1>2. CASE ~\E op \in task[t].todo : StoreStep(t, op)
  <2>1. Quiet(t) /\ Moved(t)
    BY <1>2, WorkerQuiet, StepConfined DEF Confined
  <2> QED BY <2>1 DEF FileInv, Quiet, Moved, secrets
<1> QED BY <1>1, <1>2

\* A worker's step keeps the type and the shapes.
LEMMA WorkerTypes ==
  ASSUME TypeOK, ShapeInv, FileInv, NEW t \in Worker, WorkerStep(t)
  PROVE TypeOK' /\ ShapeInv'
<1>1. Moved(t) /\ RowStep(t) /\ SecretStep(t) /\ AckStep(t) /\ RestStep(t)
  BY StepConfined DEF Confined
<1>2. task' \in [Worker -> Task] /\ ShapeInv'
  <2> HIDE DEF Shape, Idle
  <2> QED BY <1>1 DEF Moved, ShapeInv
<1>3. backend' \in Backends /\ backend' = backend
  BY <1>1 DEF TypeOK, SecretStep
<1>4. row' \in [Source -> Row]
  BY <1>1 DEF RowStep
<1>5. /\ data' \in [Scope -> IF backend' = "env" THEN [Field -> Value] ELSE Secrets]
      /\ index' \in [Scope -> SUBSET Field] /\ holder' \in Worker \cup {Nobody}
  BY <1>1, <1>3 DEF SecretStep
<1>6. /\ phase' \in {"down", "boot", "serving"}
      /\ calls' \in 0..MaxCalls /\ upsets' \in Nat
      /\ born' \subseteq Source /\ mixed' \subseteq Source
  BY <1>1 DEF RestStep
<1>7. ack' \in [Source -> [row : Row, sec : Secrets]]
  BY <1>1 DEF AckStep
<1> QED BY <1>2, <1>3, <1>4, <1>5, <1>6, <1>7 DEF TypeOK

\* A call that begins keeps the type and the shapes.
LEMMA BeginTypes ==
  ASSUME TypeOK, ShapeInv, FileInv, NEW t \in Worker, NEW tk \in Task, Begun(t, tk)
  PROVE /\ TypeOK' /\ ShapeInv' /\ FileInv'
        /\ mixed' \in {mixed, mixed \cup {tk.src}}
        /\ task'[t] = tk /\ task[t] = Idle
        /\ \A u \in Worker \ {t} : task'[u] = task[u]
<1>1. /\ Begin(t, tk) /\ Fresh(tk) /\ calls' \in 0..MaxCalls
  BY DEF Begun
<1>2. /\ task[t] = Idle /\ task' = [task EXCEPT ![t] = tk] /\ Overlap(tk.src)
      /\ backend' = backend /\ row' = row /\ data' = data /\ index' = index
      /\ holder' = holder /\ phase' = phase /\ upsets' = upsets
      /\ born' = born /\ ack' = ack
  BY <1>1 DEF Begin, secrets
<1>3. Shape(tk) /\ tk.src \in Source /\ tk.sub = 0
  BY <1>1 DEF Fresh
<1>4. task \in [Worker -> Task]
  BY DEF TypeOK
<1>5. /\ task' \in [Worker -> Task] /\ task'[t] = tk
      /\ \A u \in Worker \ {t} : task'[u] = task[u]
  <2> HIDE DEF Task
  <2> QED BY <1>2, <1>4
<1>6. mixed' \in {mixed, mixed \cup {tk.src}} /\ mixed' \subseteq Source
  BY <1>2, <1>3 DEF Overlap, TypeOK
<1>7. ShapeInv'
  <2> HIDE DEF Shape
  <2> QED BY <1>3, <1>5 DEF ShapeInv
<1>8. FileInv'
  BY <1>2, <1>3, <1>5 DEF FileInv
<1>9. TypeOK'
  BY <1>1, <1>2, <1>5, <1>6 DEF TypeOK
<1> QED BY <1>2, <1>5, <1>6, <1>7, <1>8, <1>9

\* What a store holds after a start has the type.
LEMMA StartType ==
  ASSUME TypeOK
  PROVE Start \in [Scope -> IF backend = "env" THEN [Field -> Value] ELSE Secrets]
<1>1. CASE backend = "memory"
  BY <1>1, NothingTypes DEF Start
<1>2. CASE backend = "env"
  <2>1. [k \in Field |-> Unset] \in [Field -> Value]
    BY Values
  <2> QED BY <1>2, <2>1 DEF Start
<1>3. CASE backend \notin {"memory", "env"}
  <2>1. Start = data
    BY <1>3 DEF Start
  <2> QED BY <2>1 DEF TypeOK
<1> QED BY <1>1, <1>2, <1>3

\* A start keeps the type, the shapes and FileInv.
LEMMA RestartTypes ==
  ASSUME TypeOK, ShapeInv, FileInv, Restart
  PROVE TypeOK' /\ ShapeInv' /\ FileInv'
<1>1. /\ backend' = backend /\ row' = row /\ index' = index /\ holder' = holder
      /\ task' = task /\ calls' = calls /\ upsets' = upsets /\ born' = born
      /\ mixed' = mixed /\ data' = Start /\ phase' = "boot"
  BY DEF Restart, counters
<1>2. data' \in [Scope -> IF backend' = "env" THEN [Field -> Value] ELSE Secrets]
  BY <1>1, StartType
<1>3. ack' \in [Source -> [row : Row, sec : Secrets]]
  <2>1. ack \in [Source -> [row : Row, sec : Secrets]]
    BY DEF TypeOK
  <2>2. \A s \in Source : /\ environment[s] \in Secrets /\ NoSecret \in Secrets
                          /\ (IF backend = "env" THEN environment[s] ELSE NoSecret)
                               \in Secrets
    BY EnvironmentType, NothingTypes, Scopes
  <2>3. CASE Volatile
    <3>1. ack' = [s \in Source |-> [ack[s] EXCEPT !.sec =
                    IF backend = "env" THEN environment[s] ELSE NoSecret]]
      BY <2>3 DEF Restart
    <3> HIDE DEF environment, NoSecret, Secrets, Row
    <3> QED BY <2>1, <2>2, <3>1
  <2>4. CASE ~Volatile
    BY <2>1, <2>4 DEF Restart
  <2> QED BY <2>3, <2>4
<1>4. ShapeInv'
  BY <1>1 DEF ShapeInv
<1>5. FileInv'
  <2>1. CASE backend = "file"
    <3>1. data' = data
      BY <1>1, <2>1 DEF Start
    <3> QED BY <1>1, <3>1 DEF FileInv
  <2>2. CASE backend # "file"
    BY <1>1, <2>2 DEF FileInv
  <2> QED BY <2>1, <2>2
<1> QED BY <1>1, <1>2, <1>3, <1>4, <1>5 DEF TypeOK

\* So does a crash.
LEMMA CrashTypes ==
  ASSUME TypeOK, ShapeInv, FileInv, Crash
  PROVE TypeOK' /\ ShapeInv' /\ FileInv'
<1>1. /\ backend' = backend /\ row' = row /\ index' = index /\ data' = data
      /\ holder' = Nobody /\ ack' = ack /\ born' = born /\ calls' = calls
      /\ phase' = "down" /\ task' = [t \in Worker |-> Idle]
      /\ mixed' = mixed \cup {task[t].src : t \in {u \in Worker : task[u] # Idle}}
  BY DEF Crash, Upset
<1>2. upsets' \in Nat
  BY DEF Crash, Upset, TypeOK
<1>3. Idle \in Task /\ Shape(Idle) /\ Idle.sub = 0
  BY IdleType, IdleSub
<1>4. mixed' \subseteq Source
  <2>1. \A t \in Worker : task[t] # Idle => task[t].src \in Source
    BY DEF ShapeInv, Shape
  <2> QED BY <1>1, <2>1 DEF TypeOK
<1>5. task' \in [Worker -> Task] /\ ShapeInv' /\ FileInv'
  <2> HIDE DEF Idle, Task, Shape
  <2> QED BY <1>1, <1>3 DEF ShapeInv, FileInv
<1> QED BY <1>1, <1>2, <1>4, <1>5 DEF TypeOK

\* The initial states have the type, the shapes and FileInv.
LEMMA InitTypes ==
  ASSUME Init
  PROVE TypeOK /\ ShapeInv /\ FileInv
<1>1. data \in [Scope -> IF backend = "env" THEN [Field -> Value] ELSE Secrets]
  <2>1. CASE backend = "memory"
    BY <2>1, NothingTypes DEF Init
  <2>2. CASE backend = "env"
    <3>1. [k \in Field |-> Unset] \in [Field -> Value]
      BY Values
    <3> QED BY <2>2, <3>1 DEF Init
  <2>3. CASE backend \notin {"memory", "env"}
    <3>1. data = environment
      BY <2>3 DEF Init
    <3> QED BY <2>3, <3>1, EnvironmentType
  <2> QED BY <2>1, <2>2, <2>3
<1>2. row \in [Source -> Row]
  <2>1. {NoRow} \cup [live : {TRUE}, name : Name, conf : {Old}, state : {0}]
          \subseteq Row
    BY NothingTypes, Values DEF Row
  <2> QED BY <2>1 DEF Init
<1>3. index \in [Scope -> SUBSET Field]
  BY DEF Init
<1>4. Idle \in Task /\ Shape(Idle) /\ Idle.sub = 0
  BY IdleType, IdleSub
<1>5. task \in [Worker -> Task] /\ ShapeInv /\ FileInv
  <2>1. task = [t \in Worker |-> Idle]
    BY DEF Init
  <2> HIDE DEF Idle, Task, Shape
  <2> QED BY <1>4, <2>1 DEF ShapeInv, FileInv
<1>6. ack \in [Source -> [row : Row, sec : Secrets]]
  <2>1. \A s \in Source : [k \in Field |-> get(s, k)] \in Secrets
    <3> SUFFICES ASSUME NEW s \in Source, NEW k \in Field
                 PROVE get(s, k) \in Secret
      BY DEF Secrets
    <3>1. s \in Scope
      BY Scopes
    <3>2. environment[s][k] \in Secret
      BY <3>1, EnvironmentType DEF Secrets
    <3>3. CASE backend = "env"
      BY <1>1, <3>1, <3>2, <3>3, Values DEF get
    <3>4. CASE backend # "env"
      BY <1>1, <3>1, <3>4 DEF get, Secrets
    <3> QED BY <3>3, <3>4
  <2>2. ack = [s \in Source |-> [row |-> row[s], sec |-> [k \in Field |-> get(s, k)]]]
    BY DEF Init
  <2> HIDE DEF Row, Secrets
  <2> QED BY <1>2, <2>1, <2>2
<1>7. /\ backend \in Backends /\ holder = Nobody /\ phase \in {"boot", "serving"}
      /\ calls = 0 /\ upsets = 0 /\ born = Existing /\ mixed = {}
  BY DEF Init
<1>8. Existing \subseteq Source /\ MaxCalls \in Nat
  BY SourceAssumption
<1> QED BY <1>1, <1>2, <1>3, <1>5, <1>6, <1>7, <1>8 DEF TypeOK

\* Every step keeps the type, the shapes and FileInv.
LEMMA NextTypes ==
  ASSUME TypeOK, ShapeInv, FileInv, [Next]_vars
  PROVE TypeOK' /\ ShapeInv' /\ FileInv'
<1>1. CASE UNCHANGED vars
  BY <1>1 DEF vars, TypeOK, ShapeInv, FileInv
<1>2. CASE CallBegins
  BY <1>2, CallsBegin, BeginTypes
<1>3. CASE BootRefuses
  <2>1. phase' = "down" /\ UNCHANGED <<backend, row, data, index, holder, task,
                                       calls, upsets, born, ack, mixed>>
    BY <1>3 DEF BootRefuses, secrets, counters
  <2> QED BY <2>1 DEF TypeOK, ShapeInv, FileInv
<1>4. CASE \E t \in Worker : WorkerStep(t)
  BY <1>4, WorkerTypes, WorkerFile
<1>5. CASE Crash
  BY <1>5, CrashTypes
<1>6. CASE Restart
  BY <1>6, RestartTypes
<1> QED BY <1>1, <1>2, <1>3, <1>4, <1>5, <1>6, NextIs

\* The variables keep their types, every call has the shape its step needs,
\* and the file store's mutex is held by the call between its load and its
\* save, whose copy of the file is the file.
THEOREM TypeCorrect == Spec => [](TypeOK /\ ShapeInv /\ FileInv)
<1>1. Init => TypeOK /\ ShapeInv /\ FileInv
  BY InitTypes
<1>2. TypeOK /\ ShapeInv /\ FileInv /\ [Next]_vars => (TypeOK /\ ShapeInv /\ FileInv)'
  BY NextTypes
<1> QED BY <1>1, <1>2, PTL DEF Spec

----------------------------------------------------------------------------
(***************************************************************************)
(* The four backends are the map of the SecretStore trait.                 *)
(***************************************************************************)
Map == [sc \in Scope |-> [k \in Field |-> get(sc, k)]]
Begins == IF backend = "env" THEN environment ELSE [sc \in Scope |-> NoSecret]

\* The initial states map to initial states of SecretMap.
LEMMA StoreInit == TypeOK /\ Init => Store!Init
<1> SUFFICES ASSUME TypeOK, Init PROVE Store!Init
  OBVIOUS
<1>1. Map \in [Scope -> [Field -> (Secret \ {Missing}) \cup {Missing}]]
  <2>1. \A sc \in Scope, k \in Field : get(sc, k) \in Secret
    BY GetType
  <2> HIDE DEF get
  <2> QED BY <2>1 DEF Map
<1>2. ASSUME Volatile PROVE Map = Begins
  <2>1. CASE backend = "memory"
    <3>1. data = [sc \in Scope |-> NoSecret]
      BY <2>1 DEF Init
    <3>2. \A sc \in Scope, k \in Field : get(sc, k) = NoSecret[k]
      BY <2>1, <3>1 DEF get
    <3>3. Begins = [sc \in Scope |-> NoSecret]
      BY <2>1 DEF Begins
    <3> QED BY <3>2, <3>3 DEF Map, NoSecret
  <2>2. CASE backend = "env"
    <3>1. data = [sc \in Scope |-> [k \in Field |-> Unset]]
      BY <2>2 DEF Init
    <3>2. \A sc \in Scope, k \in Field : get(sc, k) = environment[sc][k]
      BY <2>2, <3>1 DEF get
    <3>3. Begins = environment /\ environment \in [Scope -> Secrets]
      BY <2>2, EnvironmentType DEF Begins
    <3> HIDE DEF environment
    <3> QED BY <3>2, <3>3 DEF Map, Secrets
  <2> QED BY <1>2, <2>1, <2>2 DEF Volatile
<1>3. Volatile \in BOOLEAN
  BY DEF Volatile
<1> QED BY <1>1, <1>2, <1>3 DEF Store!Init, Map, Begins

\* Where the data does not change, nor does what get returns.
LEMMA GetSame ==
  ASSUME UNCHANGED <<backend, data>>
  PROVE /\ Map' = Map /\ Begins' = Begins /\ Volatile' = Volatile
        /\ \A sc, k : get(sc, k)' = get(sc, k)
BY DEF Map, Begins, Volatile, get, environment

\* One store call changes what get returns for its entry and no other.
LEMMA GetPut ==
  ASSUME TypeOK, NEW s \in Source, NEW op \in StoreCall, backend' = backend,
         data' = Put(data, s, op)
  PROVE \A sc \in Scope, k \in Field :
          get(sc, k)' = IF sc = s /\ k = op.key THEN op.val ELSE get(sc, k)
<1> SUFFICES ASSUME NEW sc \in Scope, NEW k \in Field
             PROVE get(sc, k)' = IF sc = s /\ k = op.key THEN op.val
                                 ELSE get(sc, k)
  OBVIOUS
<1>1. s \in Scope /\ op.key \in Field /\ op.val \in Secret /\ op.val # Unset
  BY Values, Scopes DEF StoreCall
<1>2. DOMAIN data = Scope /\ DOMAIN data[s] = Field
  BY <1>1 DEF TypeOK, Secrets
<1>3. data'[sc][k] = IF sc = s /\ k = op.key THEN op.val ELSE data[sc][k]
  BY <1>1, <1>2 DEF Put
<1>4. environment[sc][k]' = environment[sc][k]
  BY DEF environment
<1> HIDE DEF environment
<1> QED BY <1>1, <1>3, <1>4 DEF get

\* A put is the one step SecretMap takes for a set or a delete.
LEMMA StoreSet ==
  ASSUME TypeOK, NEW s \in Source, NEW op \in StoreCall, backend' = backend,
         data' = Put(data, s, op)
  PROVE Store!Next
<1>1. s \in Scope /\ op.key \in Field /\ op.val \in Secret
  BY Scopes DEF StoreCall
<1>2. Map' = [Map EXCEPT ![s][op.key] = op.val]
  <2>1. \A sc \in Scope, k \in Field :
          get(sc, k)' = IF sc = s /\ k = op.key THEN op.val ELSE get(sc, k)
    BY GetPut
  <2> HIDE DEF get
  <2> QED BY <1>1, <2>1 DEF Map
<1>3. Begins' = Begins /\ Volatile' = Volatile
  BY DEF Begins, Volatile, environment
<1>4. Store!Set(s, op.key, op.val)
  BY <1>2, <1>3 DEF Store!Set, Map, Begins
<1>5. CASE op.val = Missing
  <2>1. Store!Delete(s, op.key)
    BY <1>4, <1>5 DEF Store!Delete
  <2> QED BY <1>1, <2>1 DEF Store!Next
<1>6. CASE op.val # Missing
  <2>1. op.val \in Secret \ {Missing}
    BY <1>1, <1>6
  <2> QED BY <1>1, <1>4, <2>1 DEF Store!Next
<1> QED BY <1>5, <1>6

\* A start of the process is SecretMap's restart.
LEMMA StoreRestarts ==
  ASSUME TypeOK, Restart
  PROVE Store!Next
<1>1. backend' = backend /\ data' = Start
  BY DEF Restart
<1>2. Begins' = Begins /\ Volatile' = Volatile
  BY <1>1 DEF Begins, Volatile, environment
<1>3. CASE backend = "memory"
  <2>1. data' = [sc \in Scope |-> NoSecret] /\ Begins = [sc \in Scope |-> NoSecret]
    BY <1>1, <1>3 DEF Start, Begins
  <2>2. \A sc \in Scope, k \in Field : get(sc, k)' = NoSecret[k]
    BY <1>1, <1>3, <2>1 DEF get
  <2>3. Map' = Begins
    BY <2>1, <2>2 DEF Map, NoSecret
  <2> QED
    BY <1>2, <1>3, <2>3 DEF Store!Next, Store!Restart, Map, Begins, Volatile
<1>4. CASE backend = "env"
  <2>1. data' = [sc \in Scope |-> [k \in Field |-> Unset]] /\ Begins = environment
    BY <1>1, <1>4 DEF Start, Begins
  <2>2. environment' = environment /\ environment \in [Scope -> Secrets]
    BY EnvironmentType DEF environment
  <2>3. \A sc \in Scope, k \in Field : get(sc, k)' = environment[sc][k]
    <3> HIDE DEF environment
    <3> QED BY <1>1, <1>4, <2>1, <2>2 DEF get
  <2>4. Map' = Begins
    <3> HIDE DEF environment
    <3> QED BY <2>1, <2>2, <2>3 DEF Map, Secrets
  <2> QED
    BY <1>2, <1>4, <2>4 DEF Store!Next, Store!Restart, Map, Begins, Volatile
<1>5. CASE ~Volatile
  <2>1. data' = data
    BY <1>1, <1>5 DEF Start, Volatile
  <2>2. Map' = Map
    BY <1>1, <2>1, GetSame
  <2> QED BY <1>2, <1>5, <2>2 DEF Store!Next, Store!Restart, Map, Begins
<1> QED BY <1>3, <1>4, <1>5 DEF Volatile

\* A step that leaves the data alone stutters.
LEMMA StoreStays ==
  ASSUME UNCHANGED <<backend, data>>
  PROVE UNCHANGED <<Map, Begins, Volatile>>
BY GetSame

\* Every step is a step of SecretMap or stutters.
LEMMA StoreNext ==
  ASSUME TypeOK, ShapeInv, FileInv, [Next]_vars
  PROVE Store!Next \/ UNCHANGED <<Map, Begins, Volatile>>
<1>1. CASE UNCHANGED vars
  BY <1>1, StoreStays DEF vars
<1>2. CASE CallBegins
  <2>1. \E t \in Worker, tk \in Task : Begin(t, tk)
    BY <1>2, CallsBegin DEF Begun
  <2> QED BY <2>1, StoreStays DEF Begin, secrets
<1>3. CASE BootRefuses
  BY <1>3, StoreStays DEF BootRefuses, secrets
<1>4. ASSUME NEW t \in Worker, WorkerStep(t)
      PROVE Store!Next \/ UNCHANGED <<Map, Begins, Volatile>>
  <2>1. ASSUME NEW op, StoreStep(t, op)
        PROVE Store!Next \/ UNCHANGED <<Map, Begins, Volatile>>
    BY <2>1, StoreStepData, StoreStays, StoreSet
  <2>2. CASE ~\E op \in task[t].todo : StoreStep(t, op)
    BY <1>4, <2>2, WorkerQuiet, StoreStays DEF Quiet, secrets
  <2> QED BY <2>1, <2>2
<1>5. CASE Crash
  BY <1>5, StoreStays DEF Crash
<1>6. CASE Restart
  BY <1>6, StoreRestarts
<1> QED BY <1>1, <1>2, <1>3, <1>4, <1>5, <1>6, NextIs

\* Every backend implements the map of the SecretStore trait: one call changes
\* what get returns for one key of one scope, whatever other calls, failures
\* and crashes come between its steps (store.rs, backends/*.rs).
THEOREM StoreIsMapHolds == Spec => StoreIsMap
<1>1. TypeOK /\ Init => Store!Init
  BY StoreInit
<1>2. TypeOK /\ ShapeInv /\ FileInv /\ [Next]_vars =>
        [Store!Next]_<<Map, Begins, Volatile>>
  BY StoreNext
<1>3. TypeOK /\ ShapeInv /\ FileInv /\ [Next]_vars =>
        [Store!Next]_<<[sc \in Scope |-> [k \in Field |-> get(sc, k)]],
                       IF backend = "env" THEN environment
                       ELSE [sc \in Scope |-> NoSecret], Volatile>>
  BY <1>2 DEF Map, Begins
<1>4. Spec => [](TypeOK /\ ShapeInv /\ FileInv)
  BY TypeCorrect
<1>5. Init => TypeOK
  BY InitTypes
<1> QED BY <1>1, <1>3, <1>4, <1>5, PTL DEF Spec, StoreIsMap, Store!Spec

----------------------------------------------------------------------------
(***************************************************************************)
(* A row is inserted once, and no late write brings a deleted one back.    *)
(***************************************************************************)
InsertInv ==
  /\ \A t \in Worker : task[t].pc = "insert" => task[t].src \notin born
  /\ \A t, u \in Worker :
       /\ task[t].pc = "insert" /\ task[u].pc = "insert"
       /\ task[t].src = task[u].src
       => t = u

\* What a step of a worker other than its insert does to its row.
Late(t) == \A s \in Source : ~row[s].live => ~row'[s].live

\* No row written, none brought back.
LEMMA LateSame == ASSUME UNCHANGED row, NEW t PROVE Late(t)
BY DEF Late

\* A row that was there may be written without bringing one back.
LEMMA LateSet ==
  ASSUME TypeOK, NEW t, NEW s \in Source, NEW r,
         row[s].live \/ ~r.live,
         row' = [row EXCEPT ![s] = r]
  PROVE Late(t)
<1>1. row \in [Source -> Row]
  BY DEF TypeOK
<1> HIDE DEF Row
<1> QED BY <1>1 DEF Late

\* The UPDATE statement writes only a row that is there.
LEMMA LateUpdate ==
  ASSUME TypeOK, NEW t, NEW s \in Source, NEW r, UpdateRow(s, r)
  PROVE Late(t)
<1>1. CASE row[s].live
  BY <1>1, LateSet DEF UpdateRow
<1>2. CASE ~row[s].live
  BY <1>2, LateSame DEF UpdateRow
<1> QED BY <1>1, <1>2

\* No step but the insertion of create_source brings a row back.
LEMMA WorkerLate ==
  ASSUME TypeOK, ShapeInv, FileInv, NEW t \in Worker, WorkerStep(t), ~Insert(t)
  PROVE Late(t) /\ born' = born
<1> DEFINE tk == task[t]
<1>1. tk.pc # "idle" => tk.src \in Source
  BY DEF ShapeInv, Shape
<1>2. ~NoRow.live
  BY DEF NoRow
<1>3. CASE \E op \in tk.todo : StoreStep(t, op)
  <2>1. row' = row /\ born' = born
    BY <1>3 DEF StoreStep, MapSet, FileLoad, FileSave, EntrySet, IndexLoad,
                IndexSave, StoreFails, StoreFrame
  <2> QED BY <2>1, LateSame
<1>4. CASE \/ ReadRow(t) \/ Snapshot(t) \/ DbFails(t) \/ Stored(t)
           \/ MigrateKey(t) \/ Migrated(t) \/ SecretSet(t)
  <2>1. row' = row /\ born' = born
    BY <1>4 DEF ReadRow, Snapshot, DbFails, Stored, MigrateKey, Migrated,
                SecretSet
  <2> QED BY <2>1, LateSame
<1>5. CASE Configure(t)
  <2>1. tk.src \in Source /\ born' = born
    BY <1>1, <1>5 DEF Configure
  <2>2. CASE row[tk.src].live
    <3>1. row' = [row EXCEPT ![tk.src] = [row[tk.src] EXCEPT !.conf = tk.ver]]
      BY <1>5, <2>2 DEF Configure
    <3> HIDE DEF tk
    <3> QED BY <2>1, <2>2, <3>1, LateSet
  <2>3. CASE ~row[tk.src].live
    BY <1>5, <2>1, <2>3, LateSame DEF Configure
  <2> QED BY <2>2, <2>3
<1>6. CASE Commit(t)
  <2>1. tk.src \in Source /\ born' = born
    BY <1>1, <1>6 DEF Commit
  <2>2. \/ row' = row
        \/ \E r : UpdateRow(tk.src, r)
    BY <1>6 DEF Commit
  <2> HIDE DEF tk
  <2> QED BY <2>1, <2>2, LateSame, LateUpdate
<1>7. CASE Drop(t) \/ Unmake(t)
  <2>1. tk.src \in Source /\ born' = born /\ row' = [row EXCEPT ![tk.src] = NoRow]
    BY <1>1, <1>7 DEF Drop, Unmake
  <2> HIDE DEF tk, NoRow
  <2> QED BY <1>2, <2>1, LateSet
<1>8. CASE Revert(t)
  <2>1. tk.src \in Source /\ born' = born /\ UpdateRow(tk.src, tk.seen)
    BY <1>1, <1>8 DEF Revert
  <2> HIDE DEF tk
  <2> QED BY <2>1, LateUpdate
<1>9. CASE Stage(t)
  <2>1. tk.src \in Source /\ born' = born
    BY <1>1, <1>9, StageCases
  <2>2. \/ row' = row
        \/ \E r : UpdateRow(tk.src, r)
    BY <1>9, StageCases DEF AfterState
  <2> HIDE DEF tk
  <2> QED BY <2>1, <2>2, LateSame, LateUpdate
<1> QED BY <1>3, <1>4, <1>5, <1>6, <1>7, <1>8, <1>9 DEF WorkerStep

\* No step leads to an insertion: only beginning does.
LEMMA WorkerInsert ==
  ASSUME TypeOK, ShapeInv, FileInv, NEW t \in Worker, WorkerStep(t)
  PROVE task'[t].pc # "insert"
<1>1. CASE ~\E op \in task[t].todo : StoreStep(t, op)
  BY <1>1, WorkerQuiet DEF Quiet
<1>2. ASSUME NEW op, StoreStep(t, op)
      PROVE task'[t].pc # "insert"
  <2>1. task[t] \in Task /\ task \in [Worker -> Task] /\ task[t].pc = "store"
    BY <1>2, StoreStepData DEF TypeOK
  <2>2. CASE Returned(t, op)
    BY <2>1, <2>2, TaskIs DEF Returned, Goto
  <2>3. CASE FileLoad(t, op)
    BY <2>1, <2>3, TaskIs DEF FileLoad, Goto
  <2>4. CASE EntrySet(t, op)
    BY <2>1, <2>4, TaskIs DEF EntrySet, Goto
  <2>5. CASE IndexLoad(t, op)
    BY <2>1, <2>5, TaskIs DEF IndexLoad, Goto
  <2>6. CASE StoreFails(t, op) /\ Err(t)
    BY <2>6, LeaveQuiet DEF Err
  <2>7. CASE StoreFails(t, op) /\ ~Err(t) /\ ~Returned(t, op)
    <3> DEFINE pcv == CASE task[t].op = "update" -> "revert"
                        [] task[t].op = "create" -> "unmake"
                        [] OTHER -> "store"
    <3>1. task' = [task EXCEPT ![t] =
            [task[t] EXCEPT !.undo = TRUE, !.sub = 0, !.call = NoOp,
                            !.file = NoFile, !.keys = {}, !.pc = pcv,
                            !.todo = Restores(task[t].had)]]
      BY <2>7 DEF StoreFails, Goto
    <3>2. pcv # "insert"
      OBVIOUS
    <3> HIDE DEF pcv
    <3> QED BY <2>1, <3>1, <3>2, TaskIs
  <2> QED BY <1>2, <2>2, <2>3, <2>4, <2>5, <2>6, <2>7
          DEF StoreStep, MapSet, FileSave, IndexSave
<1> QED BY <1>1, <1>2

\* A row is inserted for a source that never had one.
LEMMA InsertOnce ==
  ASSUME TypeOK, ShapeInv, FileInv, InsertInv, [Next]_vars
  PROVE /\ InsertInv'
        /\ \A s \in born : ~row[s].live => ~row'[s].live
<1>1. born \subseteq Source
  BY DEF TypeOK
<1>2. CASE UNCHANGED vars
  BY <1>2 DEF vars, InsertInv
<1>3. CASE CallBegins
  <2>1. PICK t \in Worker, tk \in Task : Begun(t, tk)
    BY <1>3, CallsBegin
  <2>2. /\ task'[t] = tk /\ \A u \in Worker \ {t} : task'[u] = task[u]
        /\ row' = row /\ born' = born
    BY <2>1, BeginTypes DEF Begun, Begin
  <2>3. tk.pc = "insert" => tk.op = "create"
    BY <2>1 DEF Begun, Fresh
  <2>4. tk.pc = "insert" =>
          tk.src \notin born /\ \A u \in Worker : task[u].src # tk.src
    BY <2>1, <2>3 DEF Begun, Unborn
  <2> QED BY <2>2, <2>4 DEF InsertInv
<1>4. CASE BootRefuses
  BY <1>4 DEF BootRefuses, InsertInv
<1>5. ASSUME NEW t \in Worker, WorkerStep(t)
      PROVE InsertInv' /\ \A s \in born : ~row[s].live => ~row'[s].live
  <2>1. /\ task'[t].pc # "insert" /\ \A u \in Worker \ {t} : task'[u] = task[u]
        /\ \A o \in Source \ {task[t].src} : row'[o] = row[o]
    BY <1>5, WorkerInsert, StepConfined DEF Confined, Moved, RowStep
  <2>2. CASE Insert(t)
    <3>1. born' = born \cup {task[t].src} /\ task[t].pc = "insert"
      BY <2>2 DEF Insert
    <3>2. task[t].src \notin born
      BY <3>1 DEF InsertInv
    <3> QED BY <1>1, <2>1, <3>1, <3>2 DEF InsertInv
  <2>3. CASE ~Insert(t)
    <3>1. Late(t) /\ born' = born
      BY <1>5, <2>3, WorkerLate
    <3> QED BY <1>1, <2>1, <3>1 DEF InsertInv, Late
  <2> QED BY <2>2, <2>3
<1>6. CASE Crash
  <2>1. task' = [t \in Worker |-> Idle] /\ row' = row
    BY <1>6 DEF Crash
  <2>2. Idle.pc # "insert"
    BY IdleFields
  <2> HIDE DEF Idle
  <2> QED BY <2>1, <2>2 DEF InsertInv
<1>7. CASE Restart
  BY <1>7 DEF Restart, InsertInv
<1> QED BY <1>2, <1>3, <1>4, <1>5, <1>6, <1>7, NextIs

\* At the beginning nobody inserts.
LEMMA InitInsert == ASSUME Init PROVE InsertInv
<1>1. task = [t \in Worker |-> Idle] /\ Idle.pc # "insert"
  BY IdleFields DEF Init
<1> HIDE DEF Idle
<1> QED BY <1>1 DEF InsertInv

\* A source whose row was deleted stays deleted, whatever call read the row
\* before it went and writes it back late: an update, a revert or the state
\* that a script run saves (source_service.rs, source_repository.rs).
THEOREM DeletedStaysDeletedHolds == Spec => DeletedStaysDeleted
<1> DEFINE Inv == TypeOK /\ ShapeInv /\ FileInv /\ InsertInv
           Kept == \A s \in born : ~row[s].live => ~row'[s].live
<1>1. Init => Inv
  BY InitTypes, InitInsert
<1>2. Inv /\ [Next]_vars => Inv' /\ Kept
  BY NextTypes, InsertOnce
<1>3. Inv /\ [Next]_vars => [Kept]_vars
  BY <1>2
<1> HIDE DEF Inv, Kept
<1>4. Spec => [][Kept]_vars
  BY <1>1, <1>2, <1>3, PTL DEF Spec
<1> QED BY <1>4 DEF DeletedStaysDeleted, Kept

----------------------------------------------------------------------------
(***************************************************************************)
(* Calls on one source do not overlap, unless the source is mixed; a start *)
(* makes one call at a time.                                               *)
(***************************************************************************)
Owns(t) == task[t].src \notin mixed \/ (phase = "boot" /\ ~task[t].undo)

AloneInv ==
  /\ \A t, u \in Worker :
       Busy(t) /\ t # u /\ task[t].src \notin mixed => task[u].src # task[t].src
  /\ phase = "boot" => \A t, u \in Worker : Busy(t) /\ Busy(u) => t = u
  /\ phase = "down" => \A t \in Worker : ~Busy(t)

\* A worker is idle, or busy with a source.
LEMMA IdleOrBusy ==
  ASSUME TypeOK, ShapeInv, NEW t \in Worker
  PROVE /\ Busy(t) => task[t].src \in Source
        /\ ~Busy(t) => task[t] = Idle /\ task[t].src = ""
        /\ task[t] = Idle => ~Busy(t)
BY IdleFields DEF ShapeInv, Shape, Busy

\* The same of the next state.
LEMMA NextIdleOrBusy ==
  ASSUME TypeOK', ShapeInv', NEW t \in Worker
  PROVE /\ Busy(t)' => task'[t].src \in Source
        /\ ~Busy(t)' => task'[t] = Idle /\ task'[t].src = ""
        /\ task'[t] = Idle => ~Busy(t)'
BY IdleFields DEF ShapeInv, Shape, Busy

\* Only a busy worker takes a step.
LEMMA WorkerBusy ==
  ASSUME TypeOK, ShapeInv, NEW t \in Worker, WorkerStep(t)
  PROVE Busy(t) /\ task[t].src \in Source
<1>1. ASSUME NEW op \in task[t].todo PROVE task[t].pc # "idle"
  BY <1>1, IdleOrBusy, IdleFields DEF Busy
<1>2. task[t].pc # "idle"
  BY <1>1 DEF WorkerStep, ReadRow, Snapshot, Insert, Configure, Commit, Drop,
              Revert, Unmake, DbFails, Stored, MigrateKey, Migrated, SecretSet,
              Stage
<1> QED BY <1>2, IdleOrBusy DEF Busy

\* No step of a call makes calls overlap.
LEMMA WorkerAlone ==
  ASSUME TypeOK, ShapeInv, FileInv, AloneInv, NEW t \in Worker, WorkerStep(t)
  PROVE AloneInv'
<1>1. Busy(t) /\ task[t].src \in Source
  BY WorkerBusy
<1>2. /\ TypeOK' /\ ShapeInv' /\ Moved(t) /\ RestStep(t)
  BY WorkerTypes, StepConfined DEF Confined
<1>3. /\ \A u \in Worker \ {t} : task'[u] = task[u]
      /\ task'[t] = Idle \/ task'[t].src = task[t].src
  BY <1>2 DEF Moved
<1>4. mixed \subseteq mixed'
  BY <1>2 DEF RestStep
<1>5. phase' = phase \/ (phase = "boot" /\ task'[t] = Idle /\ phase' # "boot")
  BY <1>2 DEF RestStep
<1>6. \A u \in Worker : Busy(u)' => Busy(u) /\ task'[u].src = task[u].src
  BY <1>1, <1>2, <1>3, NextIdleOrBusy DEF Busy
<1>7. ASSUME NEW u \in Worker, NEW v \in Worker, Busy(u)', u # v,
             task'[u].src \notin mixed'
      PROVE task'[v].src # task'[u].src
  <2>1. Busy(u) /\ task'[u].src = task[u].src /\ task[u].src \notin mixed
    BY <1>4, <1>6, <1>7
  <2>2. task[v].src # task[u].src /\ task[u].src \in Source
    BY <1>7, <2>1, IdleOrBusy DEF AloneInv
  <2>3. CASE Busy(v)'
    BY <1>6, <2>1, <2>2, <2>3
  <2>4. CASE ~Busy(v)'
    BY <1>2, <2>1, <2>2, <2>4, NextIdleOrBusy, Scopes
  <2> QED BY <2>3, <2>4
<1>8. phase' = "boot" => \A u, v \in Worker : Busy(u)' /\ Busy(v)' => u = v
  BY <1>5, <1>6 DEF AloneInv
<1>9. phase' = "down" => \A u \in Worker : ~Busy(u)'
  <2>1. CASE phase' = phase
    BY <1>6, <2>1 DEF AloneInv
  <2>2. CASE phase = "boot" /\ task'[t] = Idle
    <3>1. ~Busy(t)'
      BY <1>2, <2>2, NextIdleOrBusy
    <3> QED BY <1>1, <1>6, <2>2, <3>1 DEF AloneInv
  <2> QED BY <1>5, <2>1, <2>2
<1> QED BY <1>7, <1>8, <1>9 DEF AloneInv

\* A call that begins on a source in use marks it mixed.
LEMMA BeginAlone ==
  ASSUME TypeOK, ShapeInv, FileInv, AloneInv, NEW t \in Worker, NEW tk \in Task,
         Begun(t, tk)
  PROVE AloneInv'
<1>1. /\ TypeOK' /\ ShapeInv' /\ task'[t] = tk /\ task[t] = Idle
      /\ \A u \in Worker \ {t} : task'[u] = task[u]
  BY BeginTypes
<1>2. /\ phase' = phase /\ phase \in {"boot", "serving"}
      /\ phase = "boot" => \A u \in Worker : task[u] = Idle
      /\ mixed' = IF \E u \in Worker : task[u].src = tk.src
                  THEN mixed \cup {tk.src} ELSE mixed
  BY DEF Begun, Begin, Overlap
<1>3. ASSUME NEW u \in Worker, NEW v \in Worker, Busy(u)', u # v,
             task'[u].src \notin mixed'
      PROVE task'[v].src # task'[u].src
  <2>1. CASE u = t
    BY <1>1, <1>2, <1>3, <2>1
  <2>2. CASE v = t
    BY <1>1, <1>2, <1>3, <2>2
  <2>3. CASE u # t /\ v # t
    BY <1>1, <1>2, <1>3, <2>3 DEF AloneInv, Busy
  <2> QED BY <2>1, <2>2, <2>3
<1>4. ASSUME phase' = "boot", NEW u \in Worker, Busy(u)'
      PROVE u = t
  <2>1. Idle.pc = "idle"
    BY IdleFields
  <2>2. \A v \in Worker \ {t} : task'[v].pc = "idle"
    <3> HIDE DEF Idle
    <3> QED BY <1>1, <1>2, <1>4, <2>1
  <2> QED BY <1>4, <2>2 DEF Busy
<1> QED BY <1>2, <1>3, <1>4 DEF AloneInv

\* AloneInv is inductive.
LEMMA NextAlone ==
  ASSUME TypeOK, ShapeInv, FileInv, AloneInv, [Next]_vars
  PROVE AloneInv'
<1>1. CASE UNCHANGED vars
  BY <1>1 DEF vars, AloneInv, Busy
<1>2. CASE CallBegins
  BY <1>2, CallsBegin, BeginAlone
<1>3. CASE BootRefuses
  <2>1. /\ phase' = "down" /\ task' = task /\ mixed' = mixed
        /\ \A t \in Worker : task[t] = Idle
    BY <1>3 DEF BootRefuses
  <2> HIDE DEF Idle
  <2> QED BY <2>1, IdleFields DEF AloneInv, Busy
<1>4. CASE \E t \in Worker : WorkerStep(t)
  BY <1>4, WorkerAlone
<1>5. CASE Crash
  <2>1. phase' = "down" /\ task' = [t \in Worker |-> Idle]
    BY <1>5 DEF Crash
  <2> HIDE DEF Idle
  <2> QED BY <2>1, IdleFields DEF AloneInv, Busy
<1>6. CASE Restart
  <2>1. phase = "down" /\ phase' = "boot" /\ task' = task /\ mixed' = mixed
    BY <1>6 DEF Restart
  <2> QED BY <2>1 DEF AloneInv, Busy
<1> QED BY <1>1, <1>2, <1>3, <1>4, <1>5, <1>6, NextIs

\* At the beginning nobody is in a call.
LEMMA InitAlone == ASSUME Init PROVE AloneInv
<1>1. task = [t \in Worker |-> Idle] /\ phase \in {"boot", "serving"}
  BY DEF Init
<1> HIDE DEF Idle
<1> QED BY <1>1, IdleFields DEF AloneInv, Busy

\* What a call that has its source for itself depends on is left alone by
\* the steps of the other workers.
LEMMA Undisturbed ==
  ASSUME TypeOK, ShapeInv, FileInv, AloneInv,
         NEW t \in Worker, NEW u \in Worker, t # u, WorkerStep(u),
         Busy(t)', Owns(t)'
  PROVE /\ task'[t] = task[t] /\ Busy(t) /\ Owns(t) /\ task[t].src \in Source
        /\ row'[task[t].src] = row[task[t].src]
        /\ ack'[task[t].src] = ack[task[t].src]
        /\ data'[task[t].src] = data[task[t].src]
        /\ index'[task[t].src] = index[task[t].src]
        /\ backend' = backend
<1>1. Busy(u) /\ task[u].src \in Source
  BY WorkerBusy
<1>2. Moved(u) /\ RowStep(u) /\ SecretStep(u) /\ AckStep(u) /\ RestStep(u)
  BY StepConfined DEF Confined
<1>3. task'[t] = task[t] /\ Busy(t) /\ task[t].src \in Source
  BY <1>2, IdleOrBusy DEF Moved, Busy
<1>4. Owns(t)
  BY <1>2, <1>3 DEF Owns, RestStep
<1>5. task[u].src # task[t].src
  BY <1>1, <1>3, <1>4 DEF AloneInv, Owns
<1> QED BY <1>2, <1>3, <1>4, <1>5, Scopes DEF RowStep, SecretStep, AckStep

----------------------------------------------------------------------------
(***************************************************************************)
(* The keyring's index lists the entries there are, except those a call is *)
(* still going to write.                                                   *)
(***************************************************************************)
SubInv == backend = "keyring" =>
  \A t \in Worker : Busy(t) /\ Owns(t) /\ task[t].sub # 0 =>
    /\ data[task[t].src][task[t].call.key] = task[t].call.val
    /\ task[t].sub = 2 => task[t].keys = index[task[t].src]

Pending(t) == CASE task[t].pc = "store" -> Keys(t)
                [] task[t].pc = "revert" -> Field
                [] task[t].pc = "unmake" -> Given(task[t])
                [] OTHER -> {}

Listed(s, k) == k \in index[s] <=> data[s][k] # Missing

IndexInv == backend = "keyring" =>
  /\ \A k \in Field : Listed(Plugin, k)
  /\ \A s \in Source \ mixed : \A k \in Field :
       Listed(s, k) \/ \E t \in Worker : task[t].src = s /\ k \in Pending(t)

\* A step leaves to the next what it was going to write, or writes it.
Hands(t) == task[t].src \in mixed' \/ Pending(t) \subseteq Pending(t)'

\* Outside the store part and the steps before an undo nothing is pending.
LEMMA PendingNone ==
  ASSUME NEW t, task[t].pc \notin {"store", "revert", "unmake"}
                \/ (task[t].pc = "store" /\ task[t].todo = {})
  PROVE Pending(t) = {}
BY DEF Pending, Keys

\* Before its undo an update has every field pending.
LEMMA PendingRevert ==
  ASSUME NEW t, task[t].pc = "revert"
  PROVE Pending(t) = Field
BY DEF Pending

\* And a create those it was given.
LEMMA PendingUnmake ==
  ASSUME NEW t, task[t].pc = "unmake"
  PROVE Pending(t) = Given(task[t])
BY DEF Pending

\* In the store part the fields still to be written are pending.
LEMMA PendingStore ==
  ASSUME NEW t, task[t].pc = "store"
  PROVE Pending(t) = {op.key : op \in task[t].todo}
BY DEF Pending, Keys

\* The same of the next state.
LEMMA NextPendingStore ==
  ASSUME NEW t, task'[t].pc = "store"
  PROVE Pending(t)' = {op.key : op \in task'[t].todo}
BY DEF Pending, Keys

\* Revert leaves to the store what it had pending.
LEMMA RevertHands ==
  ASSUME TypeOK, ShapeInv, NEW t \in Worker,
         task[t].pc = "revert",
         Goto(t, [task[t] EXCEPT !.pc = "store", !.todo = Restores(task[t].had)])
  PROVE Hands(t)
<1>1. task[t] \in Task /\ task \in [Worker -> Task] /\ task[t].had \in Secrets
  BY TaskFields DEF TypeOK
<1>2. task'[t].pc = "store" /\ task'[t].todo = Restores(task[t].had)
  BY <1>1, TaskIs DEF Goto
<1>3. \A k \in Field : \E op \in Restores(task[t].had) : op.key = k
  BY <1>1, RestoresType
<1> QED BY <1>2, <1>3, PendingRevert, NextPendingStore DEF Hands

\* So does Unmake.
LEMMA UnmakeHands ==
  ASSUME TypeOK, ShapeInv, NEW t \in Worker,
         task[t].pc = "unmake",
         Goto(t, [task[t] EXCEPT !.pc = "store", !.todo = Forgets(task[t])])
  PROVE Hands(t)
<1>1. task[t] \in Task /\ task \in [Worker -> Task]
  BY DEF TypeOK
<1>2. task'[t].pc = "store" /\ task'[t].todo = Forgets(task[t])
  BY <1>1, TaskIs DEF Goto
<1>3. \A k \in Given(task[t]) : \E op \in Forgets(task[t]) : op.key = k
  <2> SUFFICES ASSUME NEW k \in Given(task[t])
               PROVE \E op \in Forgets(task[t]) : op.key = k
    OBVIOUS
  <2>1. Op(0, k, Missing) \in Forgets(task[t])
    BY DEF Forgets
  <2>2. Op(0, k, Missing).key = k
    BY DEF Op
  <2> QED BY <2>1, <2>2
<1> QED BY <1>2, <1>3, PendingUnmake, NextPendingStore DEF Hands

\* A failed database step either loses nothing pending or marks the source
\* mixed.
LEMMA DbFailsHands ==
  ASSUME TypeOK, ShapeInv, NEW t \in Worker, DbFails(t)
  PROVE Hands(t)
<1>1. CASE task[t].pc \in {"read", "insert", "commit", "stage", "configure", "drop"}
  BY <1>1, PendingNone DEF Hands
<1>2. CASE task[t].pc \in {"revert", "unmake"}
  <2>1. mixed' = mixed \cup {task[t].src}
    BY <1>2 DEF DbFails, Mix
  <2> QED BY <2>1 DEF Hands
<1>3. task[t].pc \in {"read", "insert", "commit", "stage", "configure", "drop",
                      "revert", "unmake"}
  BY DEF DbFails
<1> QED BY <1>1, <1>2, <1>3

\* So does every step outside a store call.
LEMMA QuietHands ==
  ASSUME TypeOK, ShapeInv, NEW t \in Worker, WorkerStep(t),
         ~\E op \in task[t].todo : StoreStep(t, op)
  PROVE Hands(t)
<1>1. CASE Revert(t)
  BY <1>1, RevertHands DEF Revert
<1>2. CASE Unmake(t)
  BY <1>2, UnmakeHands DEF Unmake
<1>3. CASE \/ ReadRow(t) \/ Snapshot(t) \/ Insert(t) \/ Configure(t) \/ Commit(t)
           \/ Drop(t) \/ Stored(t) \/ MigrateKey(t) \/ Migrated(t)
           \/ SecretSet(t) \/ Stage(t)
  <2>1. \/ task[t].pc \notin {"store", "revert", "unmake"}
        \/ task[t].pc = "store" /\ task[t].todo = {}
    BY <1>3 DEF ReadRow, Snapshot, Insert, Configure, Commit, Drop, Stored,
                MigrateKey, Migrated, SecretSet, Stage
  <2> QED BY <2>1, PendingNone DEF Hands
<1> QED BY <1>1, <1>2, <1>3, DbFailsHands DEF WorkerStep

\* The steps of one call of the keyring.
LEMMA EntryHands ==
  ASSUME TypeOK, ShapeInv, NEW t \in Worker, NEW op, EntrySet(t, op)
  PROVE /\ Pending(t)' = Pending(t) /\ op.key \in Pending(t)
        /\ index' = index /\ data' = Put(data, task[t].src, op)
        /\ task'[t].sub = 1 /\ task'[t].call = op
<1>1. /\ Storing(t, 0, op) /\ index' = index
      /\ data' = Put(data, task[t].src, op)
      /\ task' = [task EXCEPT ![t] = [task[t] EXCEPT !.sub = 1, !.call = op]]
  BY DEF EntrySet, Goto
<1>2. task[t] \in Task /\ task[t].pc = "store" /\ op \in task[t].todo
  BY <1>1, StoringOp
<1>3. task \in [Worker -> Task]
  BY DEF TypeOK
<1>4. /\ task'[t].pc = "store" /\ task'[t].todo = task[t].todo
      /\ task'[t].sub = 1 /\ task'[t].call = op
  BY <1>1, <1>2, <1>3, TaskIs
<1> QED BY <1>1, <1>2, <1>4, PendingStore, NextPendingStore

\* The index is read.
LEMMA IndexLoadHands ==
  ASSUME TypeOK, ShapeInv, NEW t \in Worker, NEW op, IndexLoad(t, op)
  PROVE /\ Pending(t)' = Pending(t) /\ index' = index /\ data' = data
        /\ task[t].sub = 1 /\ task'[t].sub = 2 /\ task'[t].call = task[t].call
        /\ task'[t].keys = index[task[t].src]
<1>1. /\ Storing(t, 1, op) /\ index' = index /\ data' = data
      /\ task' = [task EXCEPT ![t] = [task[t] EXCEPT !.sub = 2,
                                        !.keys = index[task[t].src]]]
  BY DEF IndexLoad, Goto, secrets
<1>2. task[t] \in Task /\ task[t].pc = "store" /\ task[t].sub = 1
  BY <1>1, StoringOp
<1>3. task \in [Worker -> Task]
  BY DEF TypeOK
<1>4. /\ task'[t].pc = "store" /\ task'[t].todo = task[t].todo
      /\ task'[t].sub = 2 /\ task'[t].call = task[t].call
      /\ task'[t].keys = index[task[t].src]
  BY <1>1, <1>2, <1>3, TaskIs
<1> QED BY <1>1, <1>2, <1>4, PendingStore, NextPendingStore

\* The index is written, and its field no longer pending.
LEMMA IndexSaveHands ==
  ASSUME TypeOK, ShapeInv, NEW t \in Worker, NEW op, IndexSave(t, op)
  PROVE /\ Pending(t) \ {op.key} \subseteq Pending(t)' /\ data' = data
        /\ index' = [index EXCEPT ![task[t].src] = Indexed(task[t].keys, op)]
        /\ task[t].sub = 2 /\ op = task[t].call /\ task'[t].sub = 0
<1>1. /\ Storing(t, 2, op) /\ data' = data
      /\ index' = [index EXCEPT ![task[t].src] = Indexed(task[t].keys, op)]
      /\ task' = [task EXCEPT ![t] =
           [task[t] EXCEPT !.todo = task[t].todo \ {op}, !.sub = 0,
                           !.call = NoOp, !.file = NoFile, !.keys = {}]]
  BY DEF IndexSave, Returned, Goto
<1>2. task[t] \in Task /\ task[t].pc = "store" /\ task[t].sub = 2
  BY <1>1, StoringOp
<1>3. task \in [Worker -> Task] /\ op = task[t].call
  BY <1>1, <1>2 DEF TypeOK, Storing
<1>4. /\ task'[t].pc = "store" /\ task'[t].todo = task[t].todo \ {op}
      /\ task'[t].sub = 0
  BY <1>1, <1>2, <1>3, TaskIs
<1> QED BY <1>1, <1>2, <1>3, <1>4, PendingStore, NextPendingStore

\* A store call that fails leaves its field to the undo or marks the source
\* mixed.
LEMMA FailHands ==
  ASSUME TypeOK, ShapeInv, NEW t \in Worker, NEW op, StoreFails(t, op)
  PROVE Hands(t) /\ task'[t].sub = 0
<1> DEFINE tk == task[t]
<1>1. Storing(t, tk.sub, op)
  BY DEF StoreFails
<1>2. tk \in Task /\ tk.pc = "store" /\ Shape(tk) /\ tk.had \in Secrets
  BY <1>1, StoringOp, TaskFields
<1>3. task \in [Worker -> Task]
  BY DEF TypeOK
<1>4. CASE mixed' = mixed \cup {tk.src} /\ (Returned(t, op) \/ Err(t))
  <2>1. task'[t].sub = 0
    <3>1. CASE Returned(t, op)
      BY <1>2, <1>3, <3>1, TaskIs DEF Returned, Goto
    <3>2. CASE Err(t)
      BY <3>2, LeaveQuiet DEF Err
    <3> QED BY <1>4, <3>1, <3>2
  <2> QED BY <1>4, <2>1 DEF Hands
<1>5. CASE ~(mixed' = mixed \cup {tk.src} /\ (Returned(t, op) \/ Err(t)))
  <2> DEFINE pcv == CASE tk.op = "update" -> "revert"
                      [] tk.op = "create" -> "unmake"
                      [] OTHER -> "store"
             n == [tk EXCEPT !.undo = TRUE, !.sub = 0, !.call = NoOp,
                             !.file = NoFile, !.keys = {}, !.pc = pcv,
                             !.todo = Restores(tk.had)]
  <2>1. Goto(t, n) /\ tk.op \in {"update", "create", "delete"} /\ ~tk.undo
    BY <1>5 DEF StoreFails, Mix
  <2>2. /\ pcv = CASE tk.op = "update" -> "revert"
                   [] tk.op = "create" -> "unmake"
                   [] OTHER -> "store"
        /\ n.pc = pcv /\ n.todo = Restores(tk.had) /\ n.sub = 0
        /\ n.ask = tk.ask
    <3> HIDE DEF pcv
    <3> QED BY <1>2, TaskIs DEF pcv
  <2> HIDE DEF n, pcv
  <2>3. task'[t] = n
    BY <1>3, <2>1 DEF Goto
  <2>4. CASE tk.op = "update"
    <3>1. Pending(t)' = Field
      BY <2>2, <2>3, <2>4 DEF Pending
    <3>2. Pending(t) \subseteq Field
      <4>1. tk.todo \in SUBSET StoreCall
        BY <1>2, TaskFields
      <4> QED BY <1>2, <4>1, PendingStore DEF StoreCall
    <3> QED BY <2>2, <2>3, <3>1, <3>2 DEF Hands
  <2>5. CASE tk.op = "create"
    <3>1. Pending(t)' = Given(tk)
      <4>1. Given(n) = Given(tk)
        BY <2>2 DEF Given
      <4> QED BY <2>2, <2>3, <2>5, <4>1 DEF Pending
    <3>2. Pending(t) \subseteq Given(tk)
      BY <1>2, <2>5, PendingStore DEF Shape
    <3> QED BY <2>2, <2>3, <3>1, <3>2 DEF Hands
  <2>6. CASE tk.op = "delete"
    <3>1. task'[t].pc = "store" /\ task'[t].todo = Restores(tk.had)
      BY <2>2, <2>3, <2>6
    <3>2. \A k \in Field : \E o \in Restores(tk.had) : o.key = k
      BY <1>2, RestoresType
    <3>3. Pending(t) \subseteq Field
      <4>1. tk.todo \in SUBSET StoreCall
        BY <1>2, TaskFields
      <4> QED BY <1>2, <4>1, PendingStore DEF StoreCall
    <3> QED BY <2>2, <2>3, <3>1, <3>2, <3>3, NextPendingStore DEF Hands
  <2> QED BY <2>1, <2>4, <2>5, <2>6
<1> QED BY <1>4, <1>5

\* What a put leaves in its own scope and in the others.
LEMMA PutEntry ==
  ASSUME TypeOK, NEW s \in Source, NEW op \in StoreCall
  PROVE /\ Put(data, s, op)[s][op.key] = op.val
        /\ \A k \in Field \ {op.key} : Put(data, s, op)[s][k] = data[s][k]
<1>1. s \in Scope /\ op.key \in Field
  BY Scopes DEF StoreCall
<1>2. DOMAIN data = Scope /\ DOMAIN data[s] = Field
  BY <1>1 DEF TypeOK, Secrets
<1> QED BY <1>1, <1>2 DEF Put

\* A worker inside a keyring call is not disturbed by the others.
LEMMA SubOthers ==
  ASSUME TypeOK, ShapeInv, FileInv, AloneInv, SubInv, backend = "keyring",
         NEW t \in Worker, NEW u \in Worker \ {t}, WorkerStep(t),
         Busy(u)', Owns(u)', task'[u].sub # 0
  PROVE /\ data'[task'[u].src][task'[u].call.key] = task'[u].call.val
        /\ task'[u].sub = 2 => task'[u].keys = index'[task'[u].src]
<1>1. /\ task'[u] = task[u] /\ Busy(u) /\ Owns(u)
      /\ data'[task[u].src] = data[task[u].src]
      /\ index'[task[u].src] = index[task[u].src]
  BY Undisturbed
<1> QED BY <1>1 DEF SubInv

\* On the keyring a step is one of three store steps, a failure, or quiet.
LEMMA KeyringStep ==
  ASSUME TypeOK, ShapeInv, FileInv, backend = "keyring", NEW t \in Worker,
         WorkerStep(t)
  PROVE \/ Quiet(t) /\ Hands(t)
        \/ \E op : \/ EntrySet(t, op) \/ IndexLoad(t, op) \/ IndexSave(t, op)
                   \/ StoreFails(t, op)
<1>1. CASE ~\E op \in task[t].todo : StoreStep(t, op)
  BY <1>1, WorkerQuiet, QuietHands
<1>2. CASE \E op \in task[t].todo : StoreStep(t, op)
  BY <1>2 DEF StoreStep, MapSet, FileLoad, FileSave, Volatile
<1> QED BY <1>1, <1>2

\* Inside a keyring call the entry is written and the index as read.
LEMMA SubOwn ==
  ASSUME TypeOK, ShapeInv, FileInv, AloneInv, SubInv, backend = "keyring",
         NEW t \in Worker, WorkerStep(t),
         Busy(t)', Owns(t)', task'[t].sub # 0
  PROVE /\ data'[task'[t].src][task'[t].call.key] = task'[t].call.val
        /\ task'[t].sub = 2 => task'[t].keys = index'[task'[t].src]
<1>1. Busy(t) /\ task[t].src \in Source
  BY WorkerBusy
<1>2. Moved(t) /\ RestStep(t) /\ TypeOK' /\ ShapeInv'
  BY StepConfined, WorkerTypes DEF Confined
<1>3. task'[t].src = task[t].src
  BY <1>2, NextIdleOrBusy DEF Moved
<1>4. ASSUME NEW op, EntrySet(t, op)
      PROVE /\ data'[task'[t].src][task'[t].call.key] = task'[t].call.val
            /\ task'[t].sub = 2 => task'[t].keys = index'[task'[t].src]
  <2>1. /\ data' = Put(data, task[t].src, op) /\ task'[t].sub = 1
        /\ task'[t].call = op
    BY <1>4, EntryHands
  <2>2. op \in StoreCall
    BY <1>4, StoreStepData DEF StoreStep
  <2> QED BY <1>1, <1>3, <2>1, <2>2, PutEntry
<1>5. ASSUME NEW op, IndexLoad(t, op)
      PROVE /\ data'[task'[t].src][task'[t].call.key] = task'[t].call.val
            /\ task'[t].sub = 2 => task'[t].keys = index'[task'[t].src]
  <2>1. /\ index' = index /\ data' = data /\ task[t].sub = 1
        /\ task'[t].call = task[t].call /\ task'[t].keys = index[task[t].src]
    BY <1>5, IndexLoadHands
  <2>2. task'[t].undo = task[t].undo /\ mixed' = mixed /\ phase' = phase
    <3>1. task[t] \in Task /\ task \in [Worker -> Task]
      BY DEF TypeOK
    <3> QED BY <1>5, <3>1, TaskIs DEF IndexLoad, Goto, StoreFrame
  <2>3. Owns(t)
    BY <1>3, <2>2 DEF Owns
  <2> QED BY <1>1, <1>3, <2>1, <2>3 DEF SubInv
<1> QED BY <1>4, <1>5, KeyringStep, IndexSaveHands, FailHands DEF Quiet

\* A step keeps the index of its own source true or its difference pending.
LEMMA IndexOwn ==
  ASSUME TypeOK, ShapeInv, FileInv, AloneInv, SubInv, IndexInv,
         backend = "keyring", NEW t \in Worker, WorkerStep(t),
         NEW s \in Source, task[t].src = s, NEW k \in Field, s \notin mixed'
  PROVE \/ Listed(s, k)'
        \/ \E u \in Worker : task'[u].src = s /\ k \in Pending(u)'
<1>1. Busy(t) /\ s \in Source
  BY WorkerBusy
<1>2. Moved(t) /\ RestStep(t) /\ TypeOK' /\ ShapeInv'
  BY StepConfined, WorkerTypes DEF Confined
<1>3. s \notin mixed /\ Owns(t)
  BY <1>2 DEF RestStep, Owns
<1>4. \A u \in Worker \ {t} : task[u].src # s
  BY <1>1, <1>3 DEF AloneInv
<1>5. Listed(s, k) \/ k \in Pending(t)
  BY <1>1, <1>3, <1>4 DEF IndexInv
<1>6. k \in Pending(t)' => task'[t].src = s
  <2>1. task'[t] = Idle => Pending(t)' = {}
    BY IdleFields DEF Pending
  <2> QED BY <1>2, <2>1 DEF Moved
<1>7. CASE Quiet(t) /\ Hands(t)
  <2>1. Listed(s, k)' <=> Listed(s, k)
    BY <1>7 DEF Quiet, Listed, secrets
  <2> QED BY <1>5, <1>6, <1>7, <2>1 DEF Hands
<1>8. ASSUME NEW op, EntrySet(t, op)
      PROVE Listed(s, k)' \/ k \in Pending(t)'
  <2>1. /\ Pending(t)' = Pending(t) /\ op.key \in Pending(t)
        /\ index' = index /\ data' = Put(data, s, op)
    BY <1>8, EntryHands
  <2>2. op \in StoreCall
    BY <1>8, StoreStepData DEF StoreStep
  <2>3. CASE k = op.key
    BY <2>1, <2>3
  <2>4. CASE k # op.key
    <3>1. data'[s][k] = data[s][k]
      BY <1>1, <2>1, <2>2, <2>4, PutEntry
    <3> QED BY <1>5, <2>1, <3>1 DEF Listed
  <2> QED BY <2>3, <2>4
<1>9. ASSUME NEW op, IndexLoad(t, op)
      PROVE Listed(s, k)' \/ k \in Pending(t)'
  <2>1. Pending(t)' = Pending(t) /\ index' = index /\ data' = data
    BY <1>9, IndexLoadHands
  <2> QED BY <1>5, <2>1 DEF Listed
<1>10. ASSUME NEW op, IndexSave(t, op)
       PROVE Listed(s, k)' \/ k \in Pending(t)'
  <2>1. /\ Pending(t) \ {op.key} \subseteq Pending(t)' /\ data' = data
        /\ index' = [index EXCEPT ![s] = Indexed(task[t].keys, op)]
        /\ task[t].sub = 2 /\ op = task[t].call
    BY <1>10, IndexSaveHands
  <2>2. data[s][op.key] = op.val /\ task[t].keys = index[s]
    BY <1>1, <1>3, <2>1 DEF SubInv
  <2>3. index'[s] = Indexed(index[s], op)
    BY <1>1, <2>1, <2>2, Scopes DEF TypeOK
  <2>4. CASE k = op.key
    BY <2>1, <2>2, <2>3, <2>4 DEF Listed, Indexed
  <2>5. CASE k # op.key
    <3>1. k \in index'[s] <=> k \in index[s]
      BY <2>3, <2>5 DEF Indexed
    <3> QED BY <1>5, <2>1, <2>5, <3>1 DEF Listed
  <2> QED BY <2>4, <2>5
<1>11. ASSUME NEW op, StoreFails(t, op)
       PROVE Listed(s, k)' \/ k \in Pending(t)'
  <2>1. Hands(t) /\ index' = index /\ data' = data
    BY <1>11, FailHands DEF StoreFails
  <2> QED BY <1>5, <2>1 DEF Hands, Listed
<1> QED BY <1>6, <1>7, <1>8, <1>9, <1>10, <1>11, KeyringStep

\* A worker's step keeps SubInv and IndexInv.
LEMMA WorkerIndex ==
  ASSUME TypeOK, ShapeInv, FileInv, AloneInv, SubInv, IndexInv,
         NEW t \in Worker, WorkerStep(t)
  PROVE SubInv' /\ IndexInv'
<1>1. Busy(t) /\ task[t].src \in Source
  BY WorkerBusy
<1>2. Moved(t) /\ RestStep(t) /\ SecretStep(t)
  BY StepConfined DEF Confined
<1>3. CASE backend # "keyring"
  BY <1>2, <1>3 DEF SubInv, IndexInv, SecretStep
<1>4. CASE backend = "keyring"
  <2>1. SubInv'
    BY <1>4, SubOthers, SubOwn DEF SubInv
  <2>2. \A k \in Field : Listed(Plugin, k)'
    <3>1. data'[Plugin] = data[Plugin] /\ index'[Plugin] = index[Plugin]
      BY <1>1, <1>2, Scopes DEF SecretStep
    <3> QED BY <1>4, <3>1 DEF IndexInv, Listed
  <2>3. ASSUME NEW s \in Source \ mixed', NEW k \in Field
        PROVE Listed(s, k)' \/ \E u \in Worker : task'[u].src = s /\ k \in Pending(u)'
    <3>1. CASE s = task[t].src
      BY <1>4, <2>3, <3>1, IndexOwn
    <3>2. CASE s # task[t].src
      <4>1. data'[s] = data[s] /\ index'[s] = index[s] /\ s \notin mixed
        BY <1>2, <2>3, <3>2, Scopes DEF SecretStep, RestStep
      <4>2. Listed(s, k) \/ \E u \in Worker \ {t} : task[u].src = s /\ k \in Pending(u)
        BY <1>4, <3>2, <4>1 DEF IndexInv
      <4>3. \A u \in Worker \ {t} : task'[u] = task[u] /\ Pending(u)' = Pending(u)
        BY <1>2 DEF Moved, Pending, Keys, Given
      <4> QED BY <4>1, <4>2, <4>3 DEF Listed
    <3> QED BY <3>1, <3>2
  <2> QED BY <2>1, <2>2, <2>3 DEF IndexInv
<1> QED BY <1>3, <1>4

\* So does a call that begins.
LEMMA BeginIndex ==
  ASSUME TypeOK, ShapeInv, FileInv, AloneInv, SubInv, IndexInv,
         NEW t \in Worker, NEW tk \in Task, Begun(t, tk)
  PROVE SubInv' /\ IndexInv'
<1>1. /\ task'[t] = tk /\ task[t] = Idle
      /\ \A u \in Worker \ {t} : task'[u] = task[u]
      /\ mixed' \in {mixed, mixed \cup {tk.src}}
  BY BeginTypes
<1>2. /\ backend' = backend /\ data' = data /\ index' = index
      /\ phase' = phase /\ tk.sub = 0
  BY DEF Begun, Begin, Fresh, secrets
<1>3. SubInv'
  BY <1>1, <1>2 DEF SubInv, Owns, Busy
<1>4. \A u \in Worker : u # t => Pending(u)' = Pending(u)
  BY <1>1 DEF Pending, Keys, Given
<1>5. Pending(t) = {}
  BY <1>1, IdleFields, PendingNone
<1>6. IndexInv'
  BY <1>1, <1>2, <1>4, <1>5 DEF IndexInv, Listed
<1> QED BY <1>3, <1>6

\* SubInv and IndexInv are inductive.
LEMMA NextIndex ==
  ASSUME TypeOK, ShapeInv, FileInv, AloneInv, SubInv, IndexInv, [Next]_vars
  PROVE SubInv' /\ IndexInv'
<1>1. CASE UNCHANGED vars
  <2>1. /\ backend' = backend /\ data' = data /\ index' = index /\ task' = task
        /\ mixed' = mixed /\ phase' = phase
    BY <1>1 DEF vars
  <2> QED
    BY <2>1 DEF SubInv, IndexInv, Busy, Owns, Listed, Pending, Keys, Given
<1>2. CASE CallBegins
  BY <1>2, CallsBegin, BeginIndex
<1>3. CASE BootRefuses
  <2>1. /\ backend' = backend /\ data' = data /\ index' = index /\ task' = task
        /\ mixed' = mixed /\ phase = "boot" /\ phase' = "down"
    BY <1>3 DEF BootRefuses, secrets
  <2> QED
    BY <2>1 DEF SubInv, IndexInv, Busy, Owns, Listed, Pending, Keys, Given
<1>4. CASE \E t \in Worker : WorkerStep(t)
  BY <1>4, WorkerIndex
<1>5. CASE Crash
  <2>1. /\ backend' = backend /\ data' = data /\ index' = index
        /\ task' = [t \in Worker |-> Idle]
        /\ mixed' = mixed \cup {task[t].src : t \in {u \in Worker : task[u] # Idle}}
    BY <1>5 DEF Crash
  <2>2. \A t \in Worker : task[t] = Idle => Pending(t) = {}
    BY IdleFields, PendingNone
  <2>3. \A t \in Worker : task'[t].pc = "idle"
    <3> HIDE DEF Idle
    <3> QED BY <2>1, IdleFields
  <2>4. SubInv'
    BY <2>3 DEF SubInv, Busy
  <2>5. IndexInv'
    <3>1. \A s \in Source \ mixed' : s \notin mixed /\
            \A t \in Worker : task[t].src = s => Pending(t) = {}
      BY <2>1, <2>2
    <3> QED BY <2>1, <3>1 DEF IndexInv, Listed
  <2> QED BY <2>4, <2>5
<1>6. CASE Restart
  <2>1. /\ backend' = backend /\ index' = index /\ task' = task
        /\ mixed' = mixed /\ phase = "down"
    BY <1>6 DEF Restart
  <2>2. \A t \in Worker : ~Busy(t)
    BY <2>1 DEF AloneInv
  <2>3. backend = "keyring" => data' = data
    BY <1>6 DEF Restart, Start
  <2> QED BY <2>1, <2>2, <2>3
          DEF SubInv, IndexInv, Busy, Listed, Pending, Keys, Given
<1> QED BY <1>1, <1>2, <1>3, <1>4, <1>5, <1>6, NextIs

\* At the beginning the index lists what there is.
LEMMA InitIndex == ASSUME Init PROVE SubInv /\ IndexInv
<1>1. task = [t \in Worker |-> Idle]
      /\ index = [sc \in Scope |-> IF backend = "keyring"
                                   THEN {k \in Field : data[sc][k] # Missing}
                                   ELSE {}]
  BY DEF Init
<1>2. SubInv
  <2> HIDE DEF Idle
  <2> QED BY <1>1, IdleFields DEF SubInv, Busy
<1>3. IndexInv
  BY <1>1, Scopes DEF IndexInv, Listed
<1> QED BY <1>2, <1>3

\* Where no call is under way the mask is the secrets a script would be given.
LEMMA MaskFollows ==
  ASSUME TypeOK, ShapeInv, IndexInv
  PROVE MaskIsTrue
<1> SUFFICES ASSUME NEW s \in Source, Settled(s)
             PROVE /\ \A k \in Masked(s) : k \in Field /\ Effective(s, k) # Missing
                   /\ backend # "env" => \A k \in Field :
                        Effective(s, k) # Missing => k \in Masked(s)
  BY DEF MaskIsTrue
<1>1. s \in Scope /\ Plugin \in Scope
  BY Scopes
<1>2. \A sc \in {s, Plugin} : list_keys(sc) \subseteq Field
  BY <1>1 DEF list_keys, TypeOK
<1>3. \A sc \in {s, Plugin}, k \in Field :
        /\ k \in list_keys(sc) => get(sc, k) # Missing
        /\ backend # "env" /\ get(sc, k) # Missing => k \in list_keys(sc)
  <2> SUFFICES ASSUME NEW sc \in {s, Plugin}, NEW k \in Field
               PROVE /\ k \in list_keys(sc) => get(sc, k) # Missing
                     /\ backend # "env" /\ get(sc, k) # Missing => k \in list_keys(sc)
    OBVIOUS
  <2>1. CASE backend = "keyring"
    <3>1. \A t \in Worker : task[t].src # s
      BY DEF Settled
    <3>2. Listed(sc, k)
      BY <2>1, <3>1 DEF IndexInv, Settled
    <3> QED BY <2>1, <3>2 DEF Listed, list_keys, get
  <2>2. CASE backend = "env"
    BY <2>2, Values DEF list_keys, get
  <2>3. CASE backend \notin {"keyring", "env"}
    BY <2>3 DEF list_keys, get
  <2> QED BY <2>1, <2>2, <2>3
<1>4. \A k \in Field : Effective(s, k) # Missing
        <=> get(s, k) # Missing \/ get(Plugin, k) # Missing
  BY DEF Effective
<1> HIDE DEF list_keys, get, Effective
<1> QED BY <1>2, <1>3, <1>4 DEF Masked

\* The placeholders a source is shown with are true, whatever calls, failures
\* and crashes it went through: each stands for a secret a script would be
\* given and, outside the environment, each such secret has one
\* (source_service.rs, keyring_secret_store.rs).
THEOREM MaskIsTrueHolds == Spec => []MaskIsTrue
<1> DEFINE Inv == /\ TypeOK /\ ShapeInv /\ FileInv
                  /\ AloneInv /\ SubInv /\ IndexInv
<1>1. Init => Inv
  BY InitTypes, InitAlone, InitIndex
<1>2. Inv /\ [Next]_vars => Inv'
  BY NextTypes, NextAlone, NextIndex
<1>3. Inv => MaskIsTrue
  BY MaskFollows
<1> QED BY <1>1, <1>2, <1>3, PTL DEF Spec

----------------------------------------------------------------------------
(***************************************************************************)
(* What a call knows of its source while it has it for itself: tk is the   *)
(* call, r the source's row, a what the callers were told of it, g its     *)
(* secrets and p those of the legacy scope.                                *)
(***************************************************************************)
Held(sc) == [k \in Field |-> get(sc, k)]
Or(v, w) == IF v # Missing THEN v ELSE w

\* The secret a call means to leave behind under a key.
Target(tk, k) ==
  IF tk.undo THEN tk.had[k]
  ELSE IF tk.op = "delete" THEN Missing
  ELSE IF tk.ask[k] = "new" THEN tk.ver
  ELSE IF tk.ask[k] = "keep" THEN tk.eff[k]
  ELSE Missing

Writing(tk, g) ==
  tk.pc = "store" /\ tk.op # "run" =>
    /\ \A op \in tk.todo : op.val = Target(tk, op.key)
    /\ \A k \in Field :
         (\E op \in tk.todo : op.key = k) \/ g[k] = Target(tk, k)

Clear(tk, g) ==
  /\ tk.pc \in {"insert", "configure", "drop"} =>
       \A k \in Field : g[k] = Missing
  /\ tk.pc = "unmake" => \A k \in Field : k \in Given(tk) \/ g[k] = Missing

Kept(tk, g, p) ==
  tk.pc = "commit" => \A k \in Field : tk.eff[k] = Or(g[k], p[k])

Local(tk, g, p) == Writing(tk, g) /\ Clear(tk, g) /\ Kept(tk, g, p)

\* A secret is as good as the one the callers were told of.
Same(v, a, p, k) == Or(v, p[k]) = Or(a.sec[k], p[k])
Shows(r, a, g, p) ==
  /\ r = a.row
  /\ \A k \in Field : IF r.live THEN Same(g[k], a, p, k)
                      ELSE g[k] \in {Missing, a.sec[k]}

Promised(tk, a) ==
  CASE tk.op = "delete" -> [row |-> NoRow, sec |-> NoSecret]
    [] tk.op = "create" \/ (tk.op = "update" /\ tk.sets) ->
         [row |-> [live |-> TRUE, name |-> tk.name, conf |-> tk.ver,
                   state |-> a.row.state],
          sec |-> [k \in Field |-> CASE tk.ask[k] = "new" -> tk.ver
                                     [] tk.ask[k] = "keep" -> tk.eff[k]
                                     [] OTHER -> Missing]]
    [] OTHER -> [a EXCEPT !.row.name = tk.name]

\* The calls in which the row is still, or again, the one that was read.
AsRead(tk) ==
  \/ tk.pc \in {"snapshot", "commit", "drop", "migrate", "stage"}
  \/ tk.pc = "store" /\ tk.op \in {"delete", "run"}
  \/ tk.pc = "store" /\ tk.op = "update" /\ tk.undo
Rewritten(tk) ==
  tk.op = "update" /\ (tk.pc = "revert" \/ (tk.pc = "store" /\ ~tk.undo))
Remembers(tk) ==
  \/ tk.pc \in {"commit", "drop", "revert"}
  \/ tk.pc = "store" /\ tk.op \in {"update", "delete"}

ToldRow(tk, r, a) ==
  /\ AsRead(tk) => r = a.row /\ tk.seen = r /\ r.live
  /\ Rewritten(tk) => /\ r = Promised(tk, a).row
                      /\ tk.seen = a.row /\ tk.seen.live
  /\ tk.op = "create" => a.row = NoRow /\ a.sec = NoSecret
  /\ tk.pc = "insert" => r = NoRow
  /\ tk.pc = "configure" => r = [NoRow EXCEPT !.live = TRUE, !.name = tk.name]
  /\ tk.op = "create" /\ tk.pc = "store" =>
       r = IF tk.undo THEN NoRow ELSE Promised(tk, a).row

ToldSecrets(tk, r, a, g, p) ==
  /\ tk.pc = "read" => Shows(r, a, g, p)
  /\ tk.pc \in {"snapshot", "commit", "migrate", "stage"} =>
       \A k \in Field : Same(g[k], a, p, k)
  /\ Remembers(tk) => \A k \in Field : Same(tk.had[k], a, p, k)

ToldScript(tk, a, g, p) ==
  /\ tk.op = "run" => tk.ver # Missing
  /\ tk.pc = "store" /\ tk.op = "run" /\ tk.stage = "" =>
       /\ \A k \in Field : Same(g[k], a, p, k)
       /\ \A op \in tk.todo : Same(op.val, a, p, op.key)
  /\ tk.pc = "store" /\ tk.op = "run" /\ tk.stage # "" =>
       /\ \A k \in Field : k = ScriptField \/ Same(g[k], a, p, k)
       /\ \A op \in tk.todo : op.val = tk.ver /\ op.key = ScriptField
       /\ tk.todo = {} => g[ScriptField] = tk.ver

Told(tk, r, a, g, p) ==
  ToldRow(tk, r, a) /\ ToldSecrets(tk, r, a, g, p) /\ ToldScript(tk, a, g, p)

\* The call with which a start applies its file.
Booting(tk, r) ==
  /\ tk.op \in {"create", "update"} /\ tk.ask = FileAsk /\ tk.ver = FromFile
  /\ tk.sets
  /\ ~tk.undo /\ tk.pc # "insert" => r.live /\ r.name = FileName
  /\ tk.op = "create" => tk.name = FileName
  /\ tk.op = "update" /\ tk.pc = "read" => tk.name = ""
  /\ tk.op = "update" /\ tk.pc \in {"snapshot", "commit"} =>
       tk.name = FileName /\ tk.seen.live
  /\ ~tk.undo /\ tk.pc = "store" => r.conf = FromFile

BornInv ==
  /\ Existing \subseteq born
  /\ \A s \in Source : s \notin born =>
       row[s] = NoRow /\ ack[s] = [row |-> NoRow, sec |-> NoSecret]
       /\ \A k \in Field : Held(s)[k] = Missing
  /\ \A t \in Worker :
       task[t].pc \notin {"idle", "read", "insert"} => task[t].src \in born

LocalInv == \A t \in Worker, s \in Source :
  Busy(t) /\ Owns(t) /\ task[t].src = s => Local(task[t], Held(s), Held(Plugin))

ToldInv ==
  /\ \A t \in Worker, s \in Source :
       Busy(t) /\ s \notin mixed /\ task[t].src = s =>
         Told(task[t], row[s], ack[s], Held(s), Held(Plugin))
  /\ \A s \in Source : Settled(s) =>
       Shows(row[s], ack[s], Held(s), Held(Plugin))

BootingInv == phase = "boot" =>
  \A t \in Worker, s \in Source : Busy(t) /\ task[t].src = s =>
    /\ Booting(task[t], row[s])
    /\ ~task[t].undo => \A o \in Source \ {s} : ~Named(o)

----------------------------------------------------------------------------
(***************************************************************************)
(* Each step of a call keeps what the call knows, action by action.        *)
(***************************************************************************)
\* What the step of a call that goes on keeps: g becomes h.
Keeps(tk, n, r, rn, a, an, g, h, p) ==
  /\ n.src = tk.src /\ (tk.undo => n.undo)
  /\ Local(tk, g, p) => Local(n, h, p)
  /\ Told(tk, r, a, g, p) /\ Local(tk, g, p) => Told(n, rn, an, h, p)
  /\ Booting(tk, r) => Booting(n, rn)

\* ReadRow keeps what its call knows.
LEMMA ReadRowKeeps ==
  ASSUME TypeOK, ShapeInv, NEW t \in Worker, ReadRow(t) /\ row[task[t].src].live,
         NEW s \in Source, task[t].src = s, NEW g \in Secrets, NEW p \in Secrets
  PROVE Keeps(task[t], task'[t], row[s], row'[s], ack[s], ack'[s], g, g, p)
<1> DEFINE tk == task[t]
           pcv == IF tk.op = "run" THEN "migrate" ELSE "snapshot"
           nm == IF tk.name = "" THEN row[s].name ELSE tk.name
           n == [tk EXCEPT !.seen = row[s], !.left = Fields,
                         !.pc = pcv, !.name = nm]
<1>1. tk \in Task /\ Shape(tk) /\ task \in [Worker -> Task] /\ tk.src = s
  BY DEF TypeOK, ShapeInv
<1>2. task' = [task EXCEPT ![t] = n]
  BY DEF ReadRow, Goto
<1>3. /\ n.pc = pcv
      /\ n.op = tk.op
      /\ n.src = tk.src
      /\ n.name = nm
      /\ n.sets = tk.sets
      /\ n.ask = tk.ask
      /\ n.ver = tk.ver
      /\ n.seen = row[s]
      /\ n.had = tk.had
      /\ n.eff = tk.eff
      /\ n.todo = tk.todo
      /\ n.undo = tk.undo
      /\ n.stage = tk.stage
  <2> HIDE DEF pcv, nm
  <2> QED BY <1>1, TaskIs
<1>4. row'[s] = row[s]
  BY DEF ReadRow
<1>5. ack'[s] = ack[s]
  BY DEF ReadRow
<1>6. tk.pc = "read"
  BY DEF ReadRow
<1>7. row[s].live
  OBVIOUS
<1>8. pcv = IF tk.op = "run" THEN "migrate" ELSE "snapshot"
  OBVIOUS
<1>9. nm = IF tk.name = "" THEN row[s].name ELSE tk.name
  OBVIOUS
<1>20. task'[t] = n
  BY <1>1, <1>2
<1> HIDE DEF tk, n, pcv, nm
<1>21. Local(tk, g, p) => Local(n, g, p)
  BY <1>1, <1>3, <1>4, <1>5, <1>6, <1>7, <1>8, <1>9 DEF Local, Writing, Clear,
     Kept, Shape, Given, Target
<1>22. ASSUME Told(tk, row[s], ack[s], g, p), Local(tk, g, p)
      PROVE Told(n, row'[s], ack'[s], g, p)
  <2>1. ToldRow(n, row'[s], ack'[s])
    BY ZenonT(40), <1>1, <1>3, <1>4, <1>5, <1>6, <1>7, <1>8, <1>9, <1>22 DEF
       Told, ToldRow,
       AsRead, Rewritten, Promised, Shape, ToldSecrets, Shows
  <2>2. ToldSecrets(n, row'[s], ack'[s], g, p)
    BY ZenonT(40), <1>1, <1>3, <1>4, <1>5, <1>6, <1>7, <1>8, <1>9, <1>22 DEF
       Told, ToldRow,
       ToldSecrets, AsRead, Remembers, Shape, Shows, Same
  <2>3. ToldScript(n, ack'[s], g, p)
    BY <1>1, <1>3, <1>4, <1>5, <1>6, <1>7, <1>8, <1>9, <1>22 DEF Told, ToldRow,
       ToldSecrets, ToldScript, AsRead, Shape, Same
  <2> QED BY <2>1, <2>2, <2>3 DEF Told
<1>23. Booting(tk, row[s]) => Booting(n, row'[s])
  BY ZenonT(40), <1>1, <1>3, <1>4, <1>5, <1>6, <1>7, <1>8, <1>9 DEF Booting,
     Shape
<1> QED BY <1>3, <1>20, <1>21, <1>22, <1>23 DEF Keeps, tk

\* Insert keeps what its call knows.
LEMMA InsertKeeps ==
  ASSUME TypeOK, ShapeInv, NEW t \in Worker, Insert(t),
         NEW s \in Source, task[t].src = s, NEW g \in Secrets, NEW p \in Secrets
  PROVE Keeps(task[t], task'[t], row[s], row'[s], ack[s], ack'[s], g, g, p)
<1> DEFINE tk == task[t]
           n == [tk EXCEPT !.pc = "configure"]
<1>1. tk \in Task /\ Shape(tk) /\ task \in [Worker -> Task] /\ tk.src = s
  BY DEF TypeOK, ShapeInv
<1>2. task' = [task EXCEPT ![t] = n]
  BY DEF Insert, Goto
<1>3. /\ n.pc = "configure"
      /\ n.op = tk.op
      /\ n.src = tk.src
      /\ n.name = tk.name
      /\ n.sets = tk.sets
      /\ n.ask = tk.ask
      /\ n.ver = tk.ver
      /\ n.seen = tk.seen
      /\ n.had = tk.had
      /\ n.eff = tk.eff
      /\ n.todo = tk.todo
      /\ n.undo = tk.undo
      /\ n.stage = tk.stage
  BY <1>1, TaskIs
<1>4. row'[s] = [NoRow EXCEPT !.live = TRUE, !.name = tk.name]
  BY <1>1 DEF Insert, TypeOK
<1>5. ack'[s] = ack[s]
  BY DEF Insert
<1>6. tk.pc = "insert"
  BY DEF Insert
<1>7. row'[s].live = TRUE /\ row'[s].name = tk.name
  BY <1>4 DEF NoRow
<1>20. task'[t] = n
  BY <1>1, <1>2
<1> HIDE DEF tk, n
<1>21. Local(tk, g, p) => Local(n, g, p)
  BY <1>1, <1>3, <1>4, <1>5, <1>6, <1>7 DEF Local, Writing, Clear, Kept, Shape,
     Given, Target
<1>22. ASSUME Told(tk, row[s], ack[s], g, p), Local(tk, g, p)
      PROVE Told(n, row'[s], ack'[s], g, p)
  <2>1. ToldRow(n, row'[s], ack'[s])
    BY <1>1, <1>3, <1>4, <1>5, <1>6, <1>7, <1>22 DEF Told, ToldRow, AsRead,
       Rewritten, Promised, Shape
  <2>2. ToldSecrets(n, row'[s], ack'[s], g, p)
    BY <1>1, <1>3, <1>4, <1>5, <1>6, <1>7, <1>22 DEF Told, ToldRow,
       ToldSecrets, AsRead, Remembers, Shape, Shows, Same
  <2>3. ToldScript(n, ack'[s], g, p)
    BY <1>1, <1>3, <1>4, <1>5, <1>6, <1>7, <1>22 DEF Told, ToldRow,
       ToldSecrets, ToldScript, AsRead, Shape, Same
  <2> QED BY <2>1, <2>2, <2>3 DEF Told
<1>23. Booting(tk, row[s]) => Booting(n, row'[s])
  BY <1>1, <1>3, <1>4, <1>5, <1>6, <1>7 DEF Booting, Shape
<1> QED BY <1>3, <1>20, <1>21, <1>22, <1>23 DEF Keeps, tk

\* Migrated keeps what its call knows.
LEMMA MigratedKeeps ==
  ASSUME TypeOK, ShapeInv, NEW t \in Worker, Migrated(t),
         NEW s \in Source, task[t].src = s, NEW g \in Secrets, NEW p \in Secrets
  PROVE Keeps(task[t], task'[t], row[s], row'[s], ack[s], ack'[s], g, g, p)
<1> DEFINE tk == task[t]
           sg == IF tk.seen.state = 0 THEN "login" ELSE "refresh"
           n == [tk EXCEPT !.pc = "stage", !.stage = sg]
<1>1. tk \in Task /\ Shape(tk) /\ task \in [Worker -> Task] /\ tk.src = s
  BY DEF TypeOK, ShapeInv
<1>2. task' = [task EXCEPT ![t] = n]
  BY DEF Migrated, Goto
<1>3. /\ n.pc = "stage"
      /\ n.op = tk.op
      /\ n.src = tk.src
      /\ n.name = tk.name
      /\ n.sets = tk.sets
      /\ n.ask = tk.ask
      /\ n.ver = tk.ver
      /\ n.seen = tk.seen
      /\ n.had = tk.had
      /\ n.eff = tk.eff
      /\ n.todo = tk.todo
      /\ n.undo = tk.undo
      /\ n.stage = sg
  <2> HIDE DEF sg
  <2> QED BY <1>1, TaskIs
<1>4. row'[s] = row[s]
  BY DEF Migrated
<1>5. ack'[s] = ack[s]
  BY DEF Migrated
<1>6. tk.pc = "migrate"
  BY DEF Migrated
<1>20. task'[t] = n
  BY <1>1, <1>2
<1> HIDE DEF tk, n, sg
<1>21. Local(tk, g, p) => Local(n, g, p)
  BY <1>1, <1>3, <1>4, <1>5, <1>6 DEF Local, Writing, Clear, Kept, Shape,
     Given, Target
<1>22. ASSUME Told(tk, row[s], ack[s], g, p), Local(tk, g, p)
      PROVE Told(n, row'[s], ack'[s], g, p)
  <2>1. ToldRow(n, row'[s], ack'[s])
    BY ZenonT(40), <1>1, <1>3, <1>4, <1>5, <1>6, <1>22 DEF Told, ToldRow, AsRead,
       Rewritten, Promised, Shape
  <2>2. ToldSecrets(n, row'[s], ack'[s], g, p)
    BY ZenonT(40), <1>1, <1>3, <1>4, <1>5, <1>6, <1>22 DEF Told, ToldRow,
       ToldSecrets,
       AsRead, Remembers, Shape, Shows, Same
  <2>3. ToldScript(n, ack'[s], g, p)
    BY <1>1, <1>3, <1>4, <1>5, <1>6, <1>22 DEF Told, ToldRow, ToldSecrets,
       ToldScript, AsRead, Shape, Same
  <2> QED BY <2>1, <2>2, <2>3 DEF Told
<1>23. Booting(tk, row[s]) => Booting(n, row'[s])
  BY <1>1, <1>3, <1>4, <1>5, <1>6 DEF Booting, Shape
<1> QED BY <1>3, <1>20, <1>21, <1>22, <1>23 DEF Keeps, tk

\* MigrateSkips keeps what its call knows.
LEMMA MigrateSkipsKeeps ==
  ASSUME TypeOK, ShapeInv, NEW t \in Worker, MigrateKey(t) /\ ~Copies(t),
         NEW s \in Source, task[t].src = s, NEW g \in Secrets, NEW p \in Secrets
  PROVE Keeps(task[t], task'[t], row[s], row'[s], ack[s], ack'[s], g, g, p)
<1> DEFINE tk == task[t]
           n == [tk EXCEPT !.left = Tail(@)]
<1>1. tk \in Task /\ Shape(tk) /\ task \in [Worker -> Task] /\ tk.src = s
  BY DEF TypeOK, ShapeInv
<1>2. task' = [task EXCEPT ![t] = n]
  BY DEF MigrateKey, Goto, Copies
<1>3. /\ n.pc = tk.pc
      /\ n.op = tk.op
      /\ n.src = tk.src
      /\ n.name = tk.name
      /\ n.sets = tk.sets
      /\ n.ask = tk.ask
      /\ n.ver = tk.ver
      /\ n.seen = tk.seen
      /\ n.had = tk.had
      /\ n.eff = tk.eff
      /\ n.todo = tk.todo
      /\ n.undo = tk.undo
      /\ n.stage = tk.stage
  BY <1>1, TaskIs
<1>4. row'[s] = row[s]
  BY DEF MigrateKey, Copies
<1>5. ack'[s] = ack[s]
  BY DEF MigrateKey, Copies
<1>6. tk.pc = "migrate"
  BY DEF MigrateKey
<1>20. task'[t] = n
  BY <1>1, <1>2
<1> HIDE DEF tk, n
<1>21. Local(tk, g, p) => Local(n, g, p)
  BY <1>1, <1>3, <1>4, <1>5, <1>6 DEF Local, Writing, Clear, Kept, Shape,
     Given, Target
<1>22. ASSUME Told(tk, row[s], ack[s], g, p), Local(tk, g, p)
      PROVE Told(n, row'[s], ack'[s], g, p)
  <2>1. ToldRow(n, row'[s], ack'[s])
    BY ZenonT(40), <1>1, <1>3, <1>4, <1>5, <1>6, <1>22 DEF Told, ToldRow, AsRead,
       Rewritten, Promised, Shape
  <2>2. ToldSecrets(n, row'[s], ack'[s], g, p)
    BY ZenonT(40), <1>1, <1>3, <1>4, <1>5, <1>6, <1>22 DEF Told, ToldRow,
       ToldSecrets,
       AsRead, Remembers, Shape, Shows, Same
  <2>3. ToldScript(n, ack'[s], g, p)
    BY <1>1, <1>3, <1>4, <1>5, <1>6, <1>22 DEF Told, ToldRow, ToldSecrets,
       ToldScript, AsRead, Shape, Same
  <2> QED BY <2>1, <2>2, <2>3 DEF Told
<1>23. Booting(tk, row[s]) => Booting(n, row'[s])
  BY <1>1, <1>3, <1>4, <1>5, <1>6 DEF Booting, Shape
<1> QED BY <1>3, <1>20, <1>21, <1>22, <1>23 DEF Keeps, tk

\* SnapshotUpdate keeps what its call knows.
LEMMA SnapshotUpdateKeeps ==
  ASSUME TypeOK, ShapeInv, NEW t \in Worker, Snapshot(t) /\ task[t].op = "update" /\ ~Refused(t),
         NEW s \in Source, task[t].src = s, NEW g \in Secrets, NEW p \in Secrets,
         g = Held(s), p = Held(Plugin)
  PROVE Keeps(task[t], task'[t], row[s], row'[s], ack[s], ack'[s], g, g, p)
<1> DEFINE tk == task[t]
           hd == [k \in Field |-> get(s, k)]
           ef == [k \in Field |-> Effective(s, k)]
           n == [tk EXCEPT !.had = hd, !.eff = ef, !.pc = "commit"]
<1>1. tk \in Task /\ Shape(tk) /\ task \in [Worker -> Task] /\ tk.src = s
  BY DEF TypeOK, ShapeInv
<1>2. task' = [task EXCEPT ![t] = n]
  BY DEF Snapshot, Goto, Refused
<1>3. /\ n.pc = "commit"
      /\ n.op = tk.op
      /\ n.src = tk.src
      /\ n.name = tk.name
      /\ n.sets = tk.sets
      /\ n.ask = tk.ask
      /\ n.ver = tk.ver
      /\ n.seen = tk.seen
      /\ n.had = hd
      /\ n.eff = ef
      /\ n.todo = tk.todo
      /\ n.undo = tk.undo
      /\ n.stage = tk.stage
  <2> HIDE DEF hd, ef
  <2> QED BY <1>1, TaskIs
<1>4. row'[s] = row[s]
  BY DEF Snapshot, Refused
<1>5. ack'[s] = ack[s]
  BY DEF Snapshot, Refused
<1>6. tk.pc = "snapshot"
  BY DEF Snapshot
<1>7. tk.op = "update"
  OBVIOUS
<1>8. hd = g
  BY DEF Held
<1>9. \A k \in Field : ef[k] = Or(g[k], p[k])
  BY DEF Held, Effective, Or
<1>20. task'[t] = n
  BY <1>1, <1>2
<1> HIDE DEF tk, n, hd, ef
<1>21. Local(tk, g, p) => Local(n, g, p)
  BY <1>1, <1>3, <1>4, <1>5, <1>6, <1>7, <1>8, <1>9 DEF Local, Writing, Clear,
     Kept, Shape, Given, Target
<1>22. ASSUME Told(tk, row[s], ack[s], g, p), Local(tk, g, p)
      PROVE Told(n, row'[s], ack'[s], g, p)
  <2>1. ToldRow(n, row'[s], ack'[s])
    BY <1>1, <1>3, <1>4, <1>5, <1>6, <1>7, <1>8, <1>9, <1>22 DEF Told, ToldRow,
       AsRead, Rewritten, Promised, Shape
  <2>2. ToldSecrets(n, row'[s], ack'[s], g, p)
    BY <1>1, <1>3, <1>4, <1>5, <1>6, <1>7, <1>8, <1>9, <1>22 DEF Told, ToldRow,
       ToldSecrets, AsRead, Remembers, Shape, Shows, Same
  <2>3. ToldScript(n, ack'[s], g, p)
    BY <1>1, <1>3, <1>4, <1>5, <1>6, <1>7, <1>8, <1>9, <1>22 DEF Told, ToldRow,
       ToldSecrets, ToldScript, AsRead, Shape, Same
  <2> QED BY <2>1, <2>2, <2>3 DEF Told
<1>23. Booting(tk, row[s]) => Booting(n, row'[s])
  BY <1>1, <1>3, <1>4, <1>5, <1>6, <1>7, <1>8, <1>9 DEF Booting, Shape
<1> QED BY <1>3, <1>20, <1>21, <1>22, <1>23 DEF Keeps, tk

\* SnapshotDelete keeps what its call knows.
LEMMA SnapshotDeleteKeeps ==
  ASSUME TypeOK, ShapeInv, NEW t \in Worker, Snapshot(t) /\ task[t].op # "update" /\ ~Refused(t),
         NEW s \in Source, task[t].src = s, NEW g \in Secrets, NEW p \in Secrets,
         g = Held(s), p = Held(Plugin)
  PROVE Keeps(task[t], task'[t], row[s], row'[s], ack[s], ack'[s], g, g, p)
<1> DEFINE tk == task[t]
           hd == [k \in Field |-> get(s, k)]
           ef == [k \in Field |-> Effective(s, k)]
           n == [tk EXCEPT !.had = hd, !.eff = ef, !.pc = "store",
                         !.todo = Restores(NoSecret)]
<1>1. tk \in Task /\ Shape(tk) /\ task \in [Worker -> Task] /\ tk.src = s
  BY DEF TypeOK, ShapeInv
<1>2. task' = [task EXCEPT ![t] = n]
  BY DEF Snapshot, Goto, Refused
<1>3. /\ n.pc = "store"
      /\ n.op = tk.op
      /\ n.src = tk.src
      /\ n.name = tk.name
      /\ n.sets = tk.sets
      /\ n.ask = tk.ask
      /\ n.ver = tk.ver
      /\ n.seen = tk.seen
      /\ n.had = hd
      /\ n.eff = ef
      /\ n.todo = Restores(NoSecret)
      /\ n.undo = tk.undo
      /\ n.stage = tk.stage
  <2> HIDE DEF hd, ef
  <2> QED BY <1>1, TaskIs
<1>4. row'[s] = row[s]
  BY DEF Snapshot, Refused
<1>5. ack'[s] = ack[s]
  BY DEF Snapshot, Refused
<1>6. tk.pc = "snapshot"
  BY DEF Snapshot
<1>7. tk.op = "delete" /\ tk.undo = FALSE
  BY <1>1, <1>6, TaskFields DEF Shape
<1>8. hd = g
  BY DEF Held
<1>9. \A op \in Restores(NoSecret) : op.val = NoSecret[op.key] /\ op.key \in Field
  BY NothingTypes, RestoresType DEF StoreCall
<1>10. \A op \in Restores(NoSecret) : op.val = Missing
  BY <1>9 DEF NoSecret
<1>11. \A k \in Field : \E op \in Restores(NoSecret) : op.key = k
  BY NothingTypes, RestoresType
<1>20. task'[t] = n
  BY <1>1, <1>2
<1> HIDE DEF tk, n, hd, ef
<1>21. Local(tk, g, p) => Local(n, g, p)
  BY <1>1, <1>3, <1>4, <1>5, <1>6, <1>7, <1>8, <1>9, <1>10, <1>11 DEF Local,
     Writing, Clear, Kept, Shape, Given, Target
<1>22. ASSUME Told(tk, row[s], ack[s], g, p), Local(tk, g, p)
      PROVE Told(n, row'[s], ack'[s], g, p)
  <2>1. ToldRow(n, row'[s], ack'[s])
    BY <1>1, <1>3, <1>4, <1>5, <1>6, <1>7, <1>8, <1>9, <1>10, <1>11, <1>22 DEF
       Told, ToldRow, AsRead, Rewritten, Promised, Shape
  <2>2. ToldSecrets(n, row'[s], ack'[s], g, p)
    BY <1>1, <1>3, <1>4, <1>5, <1>6, <1>7, <1>8, <1>9, <1>10, <1>11, <1>22 DEF
       Told, ToldRow, ToldSecrets, AsRead, Remembers, Shape, Shows, Same
  <2>3. ToldScript(n, ack'[s], g, p)
    BY <1>1, <1>3, <1>4, <1>5, <1>6, <1>7, <1>8, <1>9, <1>10, <1>11, <1>22 DEF
       Told, ToldRow, ToldSecrets, ToldScript, AsRead, Shape, Same
  <2> QED BY <2>1, <2>2, <2>3 DEF Told
<1>23. Booting(tk, row[s]) => Booting(n, row'[s])
  BY <1>1, <1>3, <1>4, <1>5, <1>6, <1>7, <1>8, <1>9, <1>10, <1>11 DEF Booting,
     Shape
<1> QED BY <1>3, <1>20, <1>21, <1>22, <1>23 DEF Keeps, tk

\* ConfigureLives keeps what its call knows.
LEMMA ConfigureLivesKeeps ==
  ASSUME TypeOK, ShapeInv, NEW t \in Worker, Configure(t) /\ row[task[t].src].live,
         NEW s \in Source, task[t].src = s, NEW g \in Secrets, NEW p \in Secrets
  PROVE Keeps(task[t], task'[t], row[s], row'[s], ack[s], ack'[s], g, g, p)
<1> DEFINE tk == task[t]
           n == [tk EXCEPT !.pc = "store", !.todo = Persists(tk)]
<1>1. tk \in Task /\ Shape(tk) /\ task \in [Worker -> Task] /\ tk.src = s
  BY DEF TypeOK, ShapeInv
<1>2. task' = [task EXCEPT ![t] = n]
  BY DEF Configure, Goto
<1>3. /\ n.pc = "store"
      /\ n.op = tk.op
      /\ n.src = tk.src
      /\ n.name = tk.name
      /\ n.sets = tk.sets
      /\ n.ask = tk.ask
      /\ n.ver = tk.ver
      /\ n.seen = tk.seen
      /\ n.had = tk.had
      /\ n.eff = tk.eff
      /\ n.todo = Persists(tk)
      /\ n.undo = tk.undo
      /\ n.stage = tk.stage
  BY <1>1, TaskIs
<1>4. row'[s] = [row[s] EXCEPT !.conf = tk.ver]
  BY <1>1 DEF Configure, TypeOK
<1>5. ack'[s] = ack[s]
  BY DEF Configure
<1>6. tk.pc = "configure"
  BY DEF Configure
<1>7. tk.op = "create" \/ tk.op = "update"
  BY <1>1, <1>6 DEF Shape
<1>8. \A op \in Persists(tk) : op.key \in Field
  BY <1>1, <1>7, PersistsType DEF StoreCall
<1>9. \A op \in Persists(tk) :
        \/ op.key \in Given(tk) /\ tk.ask[op.key] = "new" /\ op.val = tk.ver
        \/ op.key \in Given(tk) /\ tk.ask[op.key] # "new" /\ op.val = tk.eff[op.key]
        \/ op.key \notin Given(tk) /\ tk.op # "create" /\ op.val = Missing
  BY <1>1, <1>7, PersistsType
<1>10. \A k \in Field : k \in Given(tk) \/ tk.op # "create" =>
             \E op \in Persists(tk) : op.key = k
  BY <1>1, <1>7, PersistsType
<1>11. \A k \in Field : tk.ask[k] \in {"new", "keep", "omit"}
  <2>1. tk.ask \in [Field -> {"new", "keep", "omit"}]
    BY <1>1, TaskFields
  <2> QED BY <2>1
<1>12. tk.undo = FALSE /\ tk.op = "create" /\ tk.sets
  BY <1>1, <1>6, TaskFields DEF Shape
<1>13. row[s] \in Row /\ row[s].live
  BY DEF TypeOK
<1>20. task'[t] = n
  BY <1>1, <1>2
<1> HIDE DEF tk, n
<1>30. \A op \in Persists(tk) : op.val = Target(n, op.key)
  <2>1. \A k \in Field : Target(n, k) = IF tk.ask[k] = "new" THEN tk.ver
                                   ELSE IF tk.ask[k] = "keep" THEN tk.eff[k]
                                   ELSE Missing
    BY <1>3, <1>12 DEF Target
  <2> QED BY <1>8, <1>9, <1>11, <2>1 DEF Given
<1>21. Local(tk, g, p) => Local(n, g, p)
  BY <1>1, <1>3, <1>4, <1>5, <1>6, <1>7, <1>8, <1>9, <1>10, <1>11, <1>12,
     <1>13, <1>30 DEF Local, Writing, Clear, Kept, Shape, Given, Target
<1>22. ASSUME Told(tk, row[s], ack[s], g, p), Local(tk, g, p)
      PROVE Told(n, row'[s], ack'[s], g, p)
  <2>0. row[s] = [NoRow EXCEPT !.live = TRUE, !.name = tk.name] /\ ack[s].row = NoRow
    BY <1>6, <1>12, <1>22 DEF Told, ToldRow
  <2>02. row'[s] = [live |-> TRUE, name |-> tk.name, conf |-> tk.ver,
                   state |-> ack[s].row.state]
    BY ZenonT(40), <1>4, <2>0 DEF NoRow
  <2>03. Promised(n, ack[s]).row = [live |-> TRUE, name |-> tk.name, conf |-> tk.ver,
                   state |-> ack[s].row.state]
    BY <1>3, <1>12 DEF Promised
  <2>1. ToldRow(n, row'[s], ack'[s])
    BY <1>1, <1>3, <1>4, <1>5, <1>6, <1>7, <1>8, <1>9, <1>10, <1>11, <1>12,
       <1>13, <1>30, <1>22, <2>02, <2>03 DEF Told, ToldRow, AsRead, Rewritten,
       Promised, Shape
  <2>2. ToldSecrets(n, row'[s], ack'[s], g, p)
    BY <1>1, <1>3, <1>4, <1>5, <1>6, <1>7, <1>8, <1>9, <1>10, <1>11, <1>12,
       <1>13, <1>30, <1>22 DEF Told, ToldRow, ToldSecrets, AsRead, Remembers,
       Shape, Shows, Same
  <2>3. ToldScript(n, ack'[s], g, p)
    BY <1>1, <1>3, <1>4, <1>5, <1>6, <1>7, <1>8, <1>9, <1>10, <1>11, <1>12,
       <1>13, <1>30, <1>22 DEF Told, ToldRow, ToldSecrets, ToldScript, AsRead,
       Shape, Same
  <2> QED BY <2>1, <2>2, <2>3 DEF Told
<1>23. Booting(tk, row[s]) => Booting(n, row'[s])
  BY ZenonT(40), <1>1, <1>3, <1>4, <1>5, <1>6, <1>7, <1>8, <1>9, <1>10, <1>11,
     <1>12,
     <1>13, <1>30 DEF Booting, Shape, Row
<1> QED BY <1>3, <1>20, <1>21, <1>22, <1>23 DEF Keeps, tk

\* ConfigureGone keeps what its call knows.
LEMMA ConfigureGoneKeeps ==
  ASSUME TypeOK, ShapeInv, NEW t \in Worker, Configure(t) /\ ~row[task[t].src].live,
         Goto(t, [task[t] EXCEPT !.pc = "unmake", !.undo = TRUE]),
         NEW s \in Source, task[t].src = s, NEW g \in Secrets, NEW p \in Secrets
  PROVE Keeps(task[t], task'[t], row[s], row'[s], ack[s], ack'[s], g, g, p)
<1> DEFINE tk == task[t]
           n == [tk EXCEPT !.pc = "unmake", !.undo = TRUE]
<1>1. tk \in Task /\ Shape(tk) /\ task \in [Worker -> Task] /\ tk.src = s
  BY DEF TypeOK, ShapeInv
<1>2. task' = [task EXCEPT ![t] = n]
  BY DEF Goto
<1>3. /\ n.pc = "unmake"
      /\ n.op = tk.op
      /\ n.src = tk.src
      /\ n.name = tk.name
      /\ n.sets = tk.sets
      /\ n.ask = tk.ask
      /\ n.ver = tk.ver
      /\ n.seen = tk.seen
      /\ n.had = tk.had
      /\ n.eff = tk.eff
      /\ n.todo = tk.todo
      /\ n.undo = TRUE
      /\ n.stage = tk.stage
  BY <1>1, TaskIs
<1>4. row'[s] = row[s]
  BY DEF Configure
<1>5. ack'[s] = ack[s]
  BY DEF Configure
<1>6. tk.pc = "configure"
  BY DEF Configure
<1>7. ~row[s].live
  OBVIOUS
<1>8. tk.op = "create"
  BY <1>1, <1>6 DEF Shape
<1>20. task'[t] = n
  BY <1>1, <1>2
<1> HIDE DEF tk, n
<1>21. Local(tk, g, p) => Local(n, g, p)
  BY <1>1, <1>3, <1>4, <1>5, <1>6, <1>7, <1>8 DEF Local, Writing, Clear, Kept,
     Shape, Given, Target
<1>22. ASSUME Told(tk, row[s], ack[s], g, p), Local(tk, g, p)
      PROVE Told(n, row'[s], ack'[s], g, p)
  <2>1. ToldRow(n, row'[s], ack'[s])
    BY <1>1, <1>3, <1>4, <1>5, <1>6, <1>7, <1>8, <1>22 DEF Told, ToldRow,
       AsRead, Rewritten, Promised, Shape, NoRow
  <2>2. ToldSecrets(n, row'[s], ack'[s], g, p)
    BY <1>1, <1>3, <1>4, <1>5, <1>6, <1>7, <1>8, <1>22 DEF Told, ToldRow,
       ToldSecrets, AsRead, Remembers, Shape, Shows, Same
  <2>3. ToldScript(n, ack'[s], g, p)
    BY <1>1, <1>3, <1>4, <1>5, <1>6, <1>7, <1>8, <1>22 DEF Told, ToldRow,
       ToldSecrets, ToldScript, AsRead, Shape, Same
  <2> QED BY <2>1, <2>2, <2>3 DEF Told
<1>23. Booting(tk, row[s]) => Booting(n, row'[s])
  BY <1>1, <1>3, <1>4, <1>5, <1>6, <1>7, <1>8 DEF Booting, Shape
<1> QED BY <1>3, <1>20, <1>21, <1>22, <1>23 DEF Keeps, tk

\* A bare step keeps what its call knows: a call that is alone on its source
\* finds its row there.
LEMMA BareKeeps ==
  ASSUME TypeOK, ShapeInv, NEW t \in Worker, Bare(t),
         NEW s \in Source, task[t].src = s, NEW g \in Secrets, NEW p \in Secrets
  PROVE Keeps(task[t], task'[t], row[s], row'[s], ack[s], ack'[s], g, g, p)
<1> DEFINE tk == task[t]
           n == [tk EXCEPT !.pc = "store", !.todo = Persists(tk)]
<1>1. tk \in Task /\ Shape(tk) /\ task \in [Worker -> Task] /\ tk.src = s
  BY DEF TypeOK, ShapeInv
<1>2. task' = [task EXCEPT ![t] = n]
  BY DEF Bare, Goto
<1>3. /\ n.pc = "store"
      /\ n.op = tk.op
      /\ n.src = tk.src
      /\ n.name = tk.name
      /\ n.sets = tk.sets
      /\ n.ask = tk.ask
      /\ n.ver = tk.ver
      /\ n.seen = tk.seen
      /\ n.had = tk.had
      /\ n.eff = tk.eff
      /\ n.todo = Persists(tk)
      /\ n.undo = tk.undo
      /\ n.stage = tk.stage
  BY <1>1, TaskIs
<1>4. tk.pc \in {"configure", "commit"} /\ tk.sets
  BY DEF Bare
<1>5. row[s] \in Row /\ ~row[s].live
  BY DEF Bare, TypeOK
<1>7. tk.op = "create" \/ tk.op = "update"
  BY <1>1, <1>4 DEF Shape
<1>8. \A op \in Persists(tk) : op.key \in Field
  BY <1>1, <1>7, PersistsType DEF StoreCall
<1>9. \A op \in Persists(tk) :
        \/ op.key \in Given(tk) /\ tk.ask[op.key] = "new" /\ op.val = tk.ver
        \/ op.key \in Given(tk) /\ tk.ask[op.key] # "new" /\ op.val = tk.eff[op.key]
        \/ op.key \notin Given(tk) /\ tk.op # "create" /\ op.val = Missing
  BY <1>1, <1>7, PersistsType
<1>10. \A k \in Field : k \in Given(tk) \/ tk.op # "create" =>
             \E op \in Persists(tk) : op.key = k
  BY <1>1, <1>7, PersistsType
<1>11. \A k \in Field : tk.ask[k] \in {"new", "keep", "omit"}
  <2>1. tk.ask \in [Field -> {"new", "keep", "omit"}]
    BY <1>1, TaskFields
  <2> QED BY <2>1
<1>12. tk.undo = FALSE
  BY <1>1, <1>4, TaskFields DEF Shape
<1>20. task'[t] = n
  BY <1>1, <1>2
<1> HIDE DEF tk, n
<1>30. \A op \in Persists(tk) : op.val = Target(n, op.key)
  <2>1. \A k \in Field : Target(n, k) = IF tk.ask[k] = "new" THEN tk.ver
                                   ELSE IF tk.ask[k] = "keep" THEN tk.eff[k]
                                   ELSE Missing
    BY <1>3, <1>7, <1>12 DEF Target
  <2> QED BY <1>8, <1>9, <1>11, <2>1 DEF Given
<1>21. Local(tk, g, p) => Local(n, g, p)
  <2>1. CASE tk.op = "update"
    BY <1>3, <1>10, <1>30, <2>1 DEF Local, Writing, Clear, Kept
  <2>2. CASE tk.op = "create"
    <3>1. tk.pc = "configure"
      BY <1>1, <1>4, <2>2 DEF Shape
    <3>2. \A k \in Field : k \in Given(tk) \/ Target(n, k) = Missing
      BY <1>3, <1>1, <1>12, <2>2 DEF Given, Target, Shape
    <3> QED BY <1>3, <1>10, <1>30, <3>1, <3>2 DEF Local, Writing, Clear, Kept
  <2> QED BY <1>7, <2>1, <2>2
<1>22. ~Told(tk, row[s], ack[s], g, p)
  BY <1>4, <1>5, <1>7, <1>12 DEF Told, ToldRow, AsRead, NoRow
<1>23. ~Booting(tk, row[s])
  BY <1>4, <1>5, <1>12 DEF Booting
<1> QED BY <1>3, <1>20, <1>21, <1>22, <1>23 DEF Keeps, tk

\* DbFailsConfigure keeps what its call knows.
LEMMA DbFailsConfigureKeeps ==
  ASSUME TypeOK, ShapeInv, NEW t \in Worker, DbFailsAt(t, "configure"),
         NEW s \in Source, task[t].src = s, NEW g \in Secrets, NEW p \in Secrets
  PROVE Keeps(task[t], task'[t], row[s], row'[s], ack[s], ack'[s], g, g, p)
<1> DEFINE tk == task[t]
           n == [tk EXCEPT !.pc = "unmake", !.undo = TRUE]
<1>1. tk \in Task /\ Shape(tk) /\ task \in [Worker -> Task] /\ tk.src = s
  BY DEF TypeOK, ShapeInv
<1>2. task' = [task EXCEPT ![t] = n]
  BY DEF DbFailsAt, Goto, DbFails
<1>3. /\ n.pc = "unmake"
      /\ n.op = tk.op
      /\ n.src = tk.src
      /\ n.name = tk.name
      /\ n.sets = tk.sets
      /\ n.ask = tk.ask
      /\ n.ver = tk.ver
      /\ n.seen = tk.seen
      /\ n.had = tk.had
      /\ n.eff = tk.eff
      /\ n.todo = tk.todo
      /\ n.undo = TRUE
      /\ n.stage = tk.stage
  BY <1>1, TaskIs
<1>4. row'[s] = row[s]
  BY DEF DbFailsAt, DbFails
<1>5. ack'[s] = ack[s]
  BY DEF DbFailsAt, DbFails
<1>6. tk.pc = "configure"
  BY DEF DbFailsAt
<1>7. tk.op = "create"
  BY <1>1, <1>6 DEF Shape
<1>20. task'[t] = n
  BY <1>1, <1>2
<1> HIDE DEF tk, n
<1>21. Local(tk, g, p) => Local(n, g, p)
  BY <1>1, <1>3, <1>4, <1>5, <1>6, <1>7 DEF Local, Writing, Clear, Kept, Shape,
     Given, Target
<1>22. ASSUME Told(tk, row[s], ack[s], g, p), Local(tk, g, p)
      PROVE Told(n, row'[s], ack'[s], g, p)
  <2>1. ToldRow(n, row'[s], ack'[s])
    BY <1>1, <1>3, <1>4, <1>5, <1>6, <1>7, <1>22 DEF Told, ToldRow, AsRead,
       Rewritten, Promised, Shape
  <2>2. ToldSecrets(n, row'[s], ack'[s], g, p)
    BY <1>1, <1>3, <1>4, <1>5, <1>6, <1>7, <1>22 DEF Told, ToldRow,
       ToldSecrets, AsRead, Remembers, Shape, Shows, Same
  <2>3. ToldScript(n, ack'[s], g, p)
    BY <1>1, <1>3, <1>4, <1>5, <1>6, <1>7, <1>22 DEF Told, ToldRow,
       ToldSecrets, ToldScript, AsRead, Shape, Same
  <2> QED BY <2>1, <2>2, <2>3 DEF Told
<1>23. Booting(tk, row[s]) => Booting(n, row'[s])
  BY <1>1, <1>3, <1>4, <1>5, <1>6, <1>7 DEF Booting, Shape
<1> QED BY <1>3, <1>20, <1>21, <1>22, <1>23 DEF Keeps, tk

\* DbFailsDrop keeps what its call knows.
LEMMA DbFailsDropKeeps ==
  ASSUME TypeOK, ShapeInv, NEW t \in Worker, DbFailsAt(t, "drop"),
         NEW s \in Source, task[t].src = s, NEW g \in Secrets, NEW p \in Secrets
  PROVE Keeps(task[t], task'[t], row[s], row'[s], ack[s], ack'[s], g, g, p)
<1> DEFINE tk == task[t]
           n == [tk EXCEPT !.pc = "store", !.undo = TRUE,
                         !.todo = Restores(tk.had)]
<1>1. tk \in Task /\ Shape(tk) /\ task \in [Worker -> Task] /\ tk.src = s
  BY DEF TypeOK, ShapeInv
<1>2. task' = [task EXCEPT ![t] = n]
  BY DEF DbFailsAt, Goto, DbFails
<1>3. /\ n.pc = "store"
      /\ n.op = tk.op
      /\ n.src = tk.src
      /\ n.name = tk.name
      /\ n.sets = tk.sets
      /\ n.ask = tk.ask
      /\ n.ver = tk.ver
      /\ n.seen = tk.seen
      /\ n.had = tk.had
      /\ n.eff = tk.eff
      /\ n.todo = Restores(tk.had)
      /\ n.undo = TRUE
      /\ n.stage = tk.stage
  BY <1>1, TaskIs
<1>4. row'[s] = row[s]
  BY DEF DbFailsAt, DbFails
<1>5. ack'[s] = ack[s]
  BY DEF DbFailsAt, DbFails
<1>6. tk.pc = "drop"
  BY DEF DbFailsAt
<1>7. tk.had \in Secrets
  BY <1>1, TaskFields
<1>8. \A op \in Restores(tk.had) : op.val = tk.had[op.key] /\ op.key \in Field
  BY <1>7, RestoresType DEF StoreCall
<1>9. \A k \in Field : \E op \in Restores(tk.had) : op.key = k
  BY <1>7, RestoresType
<1>10. tk.op = "delete"
  BY <1>1, <1>6 DEF Shape
<1>20. task'[t] = n
  BY <1>1, <1>2
<1> HIDE DEF tk, n
<1>21. Local(tk, g, p) => Local(n, g, p)
  BY <1>1, <1>3, <1>4, <1>5, <1>6, <1>7, <1>8, <1>9, <1>10 DEF Local, Writing,
     Clear, Kept, Shape, Given, Target
<1>22. ASSUME Told(tk, row[s], ack[s], g, p), Local(tk, g, p)
      PROVE Told(n, row'[s], ack'[s], g, p)
  <2>1. ToldRow(n, row'[s], ack'[s])
    BY <1>1, <1>3, <1>4, <1>5, <1>6, <1>7, <1>8, <1>9, <1>10, <1>22 DEF Told,
       ToldRow, AsRead, Rewritten, Promised, Shape
  <2>2. ToldSecrets(n, row'[s], ack'[s], g, p)
    BY <1>1, <1>3, <1>4, <1>5, <1>6, <1>7, <1>8, <1>9, <1>10, <1>22 DEF Told,
       ToldRow, ToldSecrets, AsRead, Remembers, Shape, Shows, Same
  <2>3. ToldScript(n, ack'[s], g, p)
    BY <1>1, <1>3, <1>4, <1>5, <1>6, <1>7, <1>8, <1>9, <1>10, <1>22 DEF Told,
       ToldRow, ToldSecrets, ToldScript, AsRead, Shape, Same
  <2> QED BY <2>1, <2>2, <2>3 DEF Told
<1>23. Booting(tk, row[s]) => Booting(n, row'[s])
  BY <1>1, <1>3, <1>4, <1>5, <1>6, <1>7, <1>8, <1>9, <1>10 DEF Booting, Shape
<1> QED BY <1>3, <1>20, <1>21, <1>22, <1>23 DEF Keeps, tk

\* CommitSets keeps what its call knows.
LEMMA CommitSetsKeeps ==
  ASSUME TypeOK, ShapeInv, NEW t \in Worker, Commit(t) /\ task[t].sets /\ row[task[t].src].live,
         NEW s \in Source, task[t].src = s, NEW g \in Secrets, NEW p \in Secrets
  PROVE Keeps(task[t], task'[t], row[s], row'[s], ack[s], ack'[s], g, g, p)
<1> DEFINE tk == task[t]
           n == [tk EXCEPT !.pc = "store", !.todo = Persists(tk)]
<1>1. tk \in Task /\ Shape(tk) /\ task \in [Worker -> Task] /\ tk.src = s
  BY DEF TypeOK, ShapeInv
<1>2. task' = [task EXCEPT ![t] = n]
  BY DEF Commit, Goto
<1>3. /\ n.pc = "store"
      /\ n.op = tk.op
      /\ n.src = tk.src
      /\ n.name = tk.name
      /\ n.sets = tk.sets
      /\ n.ask = tk.ask
      /\ n.ver = tk.ver
      /\ n.seen = tk.seen
      /\ n.had = tk.had
      /\ n.eff = tk.eff
      /\ n.todo = Persists(tk)
      /\ n.undo = tk.undo
      /\ n.stage = tk.stage
  BY <1>1, TaskIs
<1>4. row'[s] = [tk.seen EXCEPT !.name = tk.name, !.conf = tk.ver]
  BY <1>1 DEF Commit, TypeOK, UpdateRow
<1>5. ack'[s] = ack[s]
  BY DEF Commit
<1>6. tk.pc = "commit"
  BY DEF Commit
<1>7. tk.op = "create" \/ tk.op = "update"
  BY <1>1, <1>6 DEF Shape
<1>8. \A op \in Persists(tk) : op.key \in Field
  BY <1>1, <1>7, PersistsType DEF StoreCall
<1>9. \A op \in Persists(tk) :
        \/ op.key \in Given(tk) /\ tk.ask[op.key] = "new" /\ op.val = tk.ver
        \/ op.key \in Given(tk) /\ tk.ask[op.key] # "new" /\ op.val = tk.eff[op.key]
        \/ op.key \notin Given(tk) /\ tk.op # "create" /\ op.val = Missing
  BY <1>1, <1>7, PersistsType
<1>10. \A k \in Field : k \in Given(tk) \/ tk.op # "create" =>
             \E op \in Persists(tk) : op.key = k
  BY <1>1, <1>7, PersistsType
<1>11. \A k \in Field : tk.ask[k] \in {"new", "keep", "omit"}
  <2>1. tk.ask \in [Field -> {"new", "keep", "omit"}]
    BY <1>1, TaskFields
  <2> QED BY <2>1
<1>12. tk.undo = FALSE /\ tk.op = "update" /\ tk.sets
  BY <1>1, <1>6, TaskFields DEF Shape
<1>13. row[s] \in Row /\ tk.seen \in Row
  BY <1>1, TaskFields DEF TypeOK
<1>20. task'[t] = n
  BY <1>1, <1>2
<1> HIDE DEF tk, n
<1>30. \A op \in Persists(tk) : op.val = Target(n, op.key)
  <2>1. \A k \in Field : Target(n, k) = IF tk.ask[k] = "new" THEN tk.ver
                                   ELSE IF tk.ask[k] = "keep" THEN tk.eff[k]
                                   ELSE Missing
    BY <1>3, <1>12 DEF Target
  <2> QED BY <1>8, <1>9, <1>11, <2>1 DEF Given
<1>21. Local(tk, g, p) => Local(n, g, p)
  BY <1>1, <1>3, <1>4, <1>5, <1>6, <1>7, <1>8, <1>9, <1>10, <1>11, <1>12,
     <1>13, <1>30 DEF Local, Writing, Clear, Kept, Shape, Given, Target
<1>22. ASSUME Told(tk, row[s], ack[s], g, p), Local(tk, g, p)
      PROVE Told(n, row'[s], ack'[s], g, p)
  <2>0. tk.seen = ack[s].row /\ row[s] = ack[s].row /\ ack[s].row.live = TRUE
    BY <1>6, <1>12, <1>13, <1>22 DEF Told, ToldRow, AsRead, Row
  <2>02. row'[s] = [live |-> TRUE, name |-> tk.name, conf |-> tk.ver,
                   state |-> ack[s].row.state]
    BY <1>4, <1>13, <2>0 DEF Row
  <2>03. Promised(n, ack[s]).row = [live |-> TRUE, name |-> tk.name, conf |-> tk.ver,
                   state |-> ack[s].row.state]
    BY <1>3, <1>12 DEF Promised
  <2>1. ToldRow(n, row'[s], ack'[s])
    BY <1>1, <1>3, <1>4, <1>5, <1>6, <1>7, <1>8, <1>9, <1>10, <1>11, <1>12,
       <1>13, <1>30, <1>22, <2>02, <2>03 DEF Told, ToldRow, AsRead, Rewritten,
       Promised, Shape
  <2>2. ToldSecrets(n, row'[s], ack'[s], g, p)
    BY <1>1, <1>3, <1>4, <1>5, <1>6, <1>7, <1>8, <1>9, <1>10, <1>11, <1>12,
       <1>13, <1>30, <1>22 DEF Told, ToldRow, ToldSecrets, AsRead, Remembers,
       Shape, Shows, Same
  <2>3. ToldScript(n, ack'[s], g, p)
    BY <1>1, <1>3, <1>4, <1>5, <1>6, <1>7, <1>8, <1>9, <1>10, <1>11, <1>12,
       <1>13, <1>30, <1>22 DEF Told, ToldRow, ToldSecrets, ToldScript, AsRead,
       Shape, Same
  <2> QED BY <2>1, <2>2, <2>3 DEF Told
<1>23. Booting(tk, row[s]) => Booting(n, row'[s])
  BY ZenonT(40), <1>1, <1>3, <1>4, <1>5, <1>6, <1>7, <1>8, <1>9, <1>10, <1>11,
     <1>12,
     <1>13, <1>30 DEF Booting, Shape, Row
<1> QED BY <1>3, <1>20, <1>21, <1>22, <1>23 DEF Keeps, tk

\* Revert keeps what its call knows.
LEMMA RevertKeeps ==
  ASSUME TypeOK, ShapeInv, NEW t \in Worker, Revert(t),
         NEW s \in Source, task[t].src = s, NEW g \in Secrets, NEW p \in Secrets
  PROVE Keeps(task[t], task'[t], row[s], row'[s], ack[s], ack'[s], g, g, p)
<1> DEFINE tk == task[t]
           n == [tk EXCEPT !.pc = "store", !.todo = Restores(tk.had)]
<1>1. tk \in Task /\ Shape(tk) /\ task \in [Worker -> Task] /\ tk.src = s
  BY DEF TypeOK, ShapeInv
<1>2. task' = [task EXCEPT ![t] = n]
  BY DEF Revert, Goto
<1>3. /\ n.pc = "store"
      /\ n.op = tk.op
      /\ n.src = tk.src
      /\ n.name = tk.name
      /\ n.sets = tk.sets
      /\ n.ask = tk.ask
      /\ n.ver = tk.ver
      /\ n.seen = tk.seen
      /\ n.had = tk.had
      /\ n.eff = tk.eff
      /\ n.todo = Restores(tk.had)
      /\ n.undo = tk.undo
      /\ n.stage = tk.stage
  BY <1>1, TaskIs
<1>4. row'[s] = IF row[s].live THEN tk.seen ELSE row[s]
  BY <1>1 DEF Revert, TypeOK, UpdateRow
<1>5. ack'[s] = ack[s]
  BY DEF Revert
<1>6. tk.pc = "revert"
  BY DEF Revert
<1>7. tk.had \in Secrets
  BY <1>1, TaskFields
<1>8. \A op \in Restores(tk.had) : op.val = tk.had[op.key] /\ op.key \in Field
  BY <1>7, RestoresType DEF StoreCall
<1>9. \A k \in Field : \E op \in Restores(tk.had) : op.key = k
  BY <1>7, RestoresType
<1>10. tk.op = "update" /\ tk.undo = TRUE /\ tk.sets
  BY <1>1, <1>6, TaskFields DEF Shape
<1>20. task'[t] = n
  BY <1>1, <1>2
<1> HIDE DEF tk, n
<1>21. Local(tk, g, p) => Local(n, g, p)
  BY <1>1, <1>3, <1>4, <1>5, <1>6, <1>7, <1>8, <1>9, <1>10 DEF Local, Writing,
     Clear, Kept, Shape, Given, Target
<1>22. ASSUME Told(tk, row[s], ack[s], g, p), Local(tk, g, p)
      PROVE Told(n, row'[s], ack'[s], g, p)
  <2>0. row[s].live = TRUE /\ tk.seen = ack[s].row /\ tk.seen.live
    <3>1. row[s] = Promised(tk, ack[s]).row /\ tk.seen = ack[s].row /\ tk.seen.live
      BY <1>6, <1>10, <1>22 DEF Told, ToldRow, Rewritten
    <3>2. Promised(tk, ack[s]).row.live = TRUE
      BY <1>10 DEF Promised
    <3> QED BY <3>1, <3>2
  <2>1. ToldRow(n, row'[s], ack'[s])
    BY <1>1, <1>3, <1>4, <1>5, <1>6, <1>7, <1>8, <1>9, <1>10, <1>22, <2>0 DEF
       Told, ToldRow, AsRead, Rewritten, Promised, Shape
  <2>2. ToldSecrets(n, row'[s], ack'[s], g, p)
    BY <1>1, <1>3, <1>4, <1>5, <1>6, <1>7, <1>8, <1>9, <1>10, <1>22 DEF Told,
       ToldRow, ToldSecrets, AsRead, Remembers, Shape, Shows, Same
  <2>3. ToldScript(n, ack'[s], g, p)
    BY <1>1, <1>3, <1>4, <1>5, <1>6, <1>7, <1>8, <1>9, <1>10, <1>22 DEF Told,
       ToldRow, ToldSecrets, ToldScript, AsRead, Shape, Same
  <2> QED BY <2>1, <2>2, <2>3 DEF Told
<1>23. Booting(tk, row[s]) => Booting(n, row'[s])
  BY <1>1, <1>3, <1>4, <1>5, <1>6, <1>7, <1>8, <1>9, <1>10 DEF Booting, Shape
<1> QED BY <1>3, <1>20, <1>21, <1>22, <1>23 DEF Keeps, tk

\* Unmake keeps what its call knows.
LEMMA UnmakeKeeps ==
  ASSUME TypeOK, ShapeInv, NEW t \in Worker, Unmake(t),
         NEW s \in Source, task[t].src = s, NEW g \in Secrets, NEW p \in Secrets
  PROVE Keeps(task[t], task'[t], row[s], row'[s], ack[s], ack'[s], g, g, p)
<1> DEFINE tk == task[t]
           n == [tk EXCEPT !.pc = "store", !.todo = Forgets(tk)]
<1>1. tk \in Task /\ Shape(tk) /\ task \in [Worker -> Task] /\ tk.src = s
  BY DEF TypeOK, ShapeInv
<1>2. task' = [task EXCEPT ![t] = n]
  BY DEF Unmake, Goto
<1>3. /\ n.pc = "store"
      /\ n.op = tk.op
      /\ n.src = tk.src
      /\ n.name = tk.name
      /\ n.sets = tk.sets
      /\ n.ask = tk.ask
      /\ n.ver = tk.ver
      /\ n.seen = tk.seen
      /\ n.had = tk.had
      /\ n.eff = tk.eff
      /\ n.todo = Forgets(tk)
      /\ n.undo = tk.undo
      /\ n.stage = tk.stage
  BY <1>1, TaskIs
<1>4. row'[s] = NoRow
  BY <1>1 DEF Unmake, TypeOK
<1>5. ack'[s] = ack[s]
  BY DEF Unmake
<1>6. tk.pc = "unmake"
  BY DEF Unmake
<1>7. \A op \in Forgets(tk) : op.key \in Given(tk) /\ op.val = Missing
  BY <1>1, ForgetsType
<1>8. \A k \in Given(tk) : \E op \in Forgets(tk) : op.key = k
  BY <1>1, ForgetsType
<1>9. tk.op = "create" /\ tk.undo = TRUE /\ \A k \in Field : tk.had[k] = Missing
  <2>1. tk.op = "create" /\ tk.undo = TRUE
    BY <1>1, <1>6, TaskFields DEF Shape
  <2>2. tk.had = NoSecret
    BY <1>1, <2>1 DEF Shape
  <2> QED BY <2>1, <2>2 DEF NoSecret
<1>20. task'[t] = n
  BY <1>1, <1>2
<1> HIDE DEF tk, n
<1>21. Local(tk, g, p) => Local(n, g, p)
  BY <1>1, <1>3, <1>4, <1>5, <1>6, <1>7, <1>8, <1>9 DEF Local, Writing, Clear,
     Kept, Shape, Given, Target
<1>22. ASSUME Told(tk, row[s], ack[s], g, p), Local(tk, g, p)
      PROVE Told(n, row'[s], ack'[s], g, p)
  <2>1. ToldRow(n, row'[s], ack'[s])
    BY <1>1, <1>3, <1>4, <1>5, <1>6, <1>7, <1>8, <1>9, <1>22 DEF Told, ToldRow,
       AsRead, Rewritten, Promised, Shape
  <2>2. ToldSecrets(n, row'[s], ack'[s], g, p)
    BY <1>1, <1>3, <1>4, <1>5, <1>6, <1>7, <1>8, <1>9, <1>22 DEF Told, ToldRow,
       ToldSecrets, AsRead, Remembers, Shape, Shows, Same
  <2>3. ToldScript(n, ack'[s], g, p)
    BY <1>1, <1>3, <1>4, <1>5, <1>6, <1>7, <1>8, <1>9, <1>22 DEF Told, ToldRow,
       ToldSecrets, ToldScript, AsRead, Shape, Same
  <2> QED BY <2>1, <2>2, <2>3 DEF Told
<1>23. Booting(tk, row[s]) => Booting(n, row'[s])
  BY <1>1, <1>3, <1>4, <1>5, <1>6, <1>7, <1>8, <1>9 DEF Booting, Shape
<1> QED BY <1>3, <1>20, <1>21, <1>22, <1>23 DEF Keeps, tk

\* StoredDelete keeps what its call knows.
LEMMA StoredDeleteKeeps ==
  ASSUME TypeOK, ShapeInv, NEW t \in Worker, Stored(t) /\ ~task[t].undo /\ task[t].op = "delete",
         NEW s \in Source, task[t].src = s, NEW g \in Secrets, NEW p \in Secrets
  PROVE Keeps(task[t], task'[t], row[s], row'[s], ack[s], ack'[s], g, g, p)
<1> DEFINE tk == task[t]
           n == [tk EXCEPT !.pc = "drop"]
<1>1. tk \in Task /\ Shape(tk) /\ task \in [Worker -> Task] /\ tk.src = s
  BY DEF TypeOK, ShapeInv
<1>2. task' = [task EXCEPT ![t] = n]
  BY DEF Stored, Goto
<1>3. /\ n.pc = "drop"
      /\ n.op = tk.op
      /\ n.src = tk.src
      /\ n.name = tk.name
      /\ n.sets = tk.sets
      /\ n.ask = tk.ask
      /\ n.ver = tk.ver
      /\ n.seen = tk.seen
      /\ n.had = tk.had
      /\ n.eff = tk.eff
      /\ n.todo = tk.todo
      /\ n.undo = tk.undo
      /\ n.stage = tk.stage
  BY <1>1, TaskIs
<1>4. row'[s] = row[s]
  BY DEF Stored
<1>5. ack'[s] = ack[s]
  BY DEF Stored
<1>6. tk.pc = "store"
  BY DEF Stored
<1>7. tk.todo = {} /\ tk.undo = FALSE /\ tk.op = "delete"
  BY <1>1, TaskFields DEF Stored
<1>20. task'[t] = n
  BY <1>1, <1>2
<1> HIDE DEF tk, n
<1>21. Local(tk, g, p) => Local(n, g, p)
  BY <1>1, <1>3, <1>4, <1>5, <1>6, <1>7 DEF Local, Writing, Clear, Kept, Shape,
     Given, Target
<1>22. ASSUME Told(tk, row[s], ack[s], g, p), Local(tk, g, p)
      PROVE Told(n, row'[s], ack'[s], g, p)
  <2>1. ToldRow(n, row'[s], ack'[s])
    BY <1>1, <1>3, <1>4, <1>5, <1>6, <1>7, <1>22 DEF Told, ToldRow, AsRead,
       Rewritten, Promised, Shape
  <2>2. ToldSecrets(n, row'[s], ack'[s], g, p)
    BY <1>1, <1>3, <1>4, <1>5, <1>6, <1>7, <1>22 DEF Told, ToldRow,
       ToldSecrets, AsRead, Remembers, Shape, Shows, Same
  <2>3. ToldScript(n, ack'[s], g, p)
    BY <1>1, <1>3, <1>4, <1>5, <1>6, <1>7, <1>22 DEF Told, ToldRow,
       ToldSecrets, ToldScript, AsRead, Shape, Same
  <2> QED BY <2>1, <2>2, <2>3 DEF Told
<1>23. Booting(tk, row[s]) => Booting(n, row'[s])
  BY <1>1, <1>3, <1>4, <1>5, <1>6, <1>7 DEF Booting, Shape
<1> QED BY <1>3, <1>20, <1>21, <1>22, <1>23 DEF Keeps, tk

\* StoredMigration keeps what its call knows.
LEMMA StoredMigrationKeeps ==
  ASSUME TypeOK, ShapeInv, NEW t \in Worker, Stored(t) /\ ~task[t].undo /\ task[t].op = "run" /\ task[t].stage = "",
         NEW s \in Source, task[t].src = s, NEW g \in Secrets, NEW p \in Secrets
  PROVE Keeps(task[t], task'[t], row[s], row'[s], ack[s], ack'[s], g, g, p)
<1> DEFINE tk == task[t]
           n == [tk EXCEPT !.pc = "migrate"]
<1>1. tk \in Task /\ Shape(tk) /\ task \in [Worker -> Task] /\ tk.src = s
  BY DEF TypeOK, ShapeInv
<1>2. task' = [task EXCEPT ![t] = n]
  BY DEF Stored, Goto
<1>3. /\ n.pc = "migrate"
      /\ n.op = tk.op
      /\ n.src = tk.src
      /\ n.name = tk.name
      /\ n.sets = tk.sets
      /\ n.ask = tk.ask
      /\ n.ver = tk.ver
      /\ n.seen = tk.seen
      /\ n.had = tk.had
      /\ n.eff = tk.eff
      /\ n.todo = tk.todo
      /\ n.undo = tk.undo
      /\ n.stage = tk.stage
  BY <1>1, TaskIs
<1>4. row'[s] = row[s]
  BY DEF Stored
<1>5. ack'[s] = ack[s]
  BY DEF Stored
<1>6. tk.pc = "store"
  BY DEF Stored
<1>7. tk.todo = {} /\ tk.undo = FALSE /\ tk.op = "run" /\ tk.stage = ""
  BY <1>1, TaskFields DEF Stored
<1>20. task'[t] = n
  BY <1>1, <1>2
<1> HIDE DEF tk, n
<1>21. Local(tk, g, p) => Local(n, g, p)
  BY <1>1, <1>3, <1>4, <1>5, <1>6, <1>7 DEF Local, Writing, Clear, Kept, Shape,
     Given, Target
<1>22. ASSUME Told(tk, row[s], ack[s], g, p), Local(tk, g, p)
      PROVE Told(n, row'[s], ack'[s], g, p)
  <2>1. ToldRow(n, row'[s], ack'[s])
    BY <1>1, <1>3, <1>4, <1>5, <1>6, <1>7, <1>22 DEF Told, ToldRow, AsRead,
       Rewritten, Promised, Shape
  <2>2. ToldSecrets(n, row'[s], ack'[s], g, p)
    BY ZenonT(40), <1>1, <1>3, <1>4, <1>5, <1>6, <1>7, <1>22 DEF Told, ToldRow,
       ToldSecrets, AsRead, Remembers, Shape, Shows, Same, ToldScript
  <2>3. ToldScript(n, ack'[s], g, p)
    BY <1>1, <1>3, <1>4, <1>5, <1>6, <1>7, <1>22 DEF Told, ToldRow,
       ToldSecrets, ToldScript, AsRead, Shape, Same
  <2> QED BY <2>1, <2>2, <2>3 DEF Told
<1>23. Booting(tk, row[s]) => Booting(n, row'[s])
  BY <1>1, <1>3, <1>4, <1>5, <1>6, <1>7 DEF Booting, Shape
<1> QED BY <1>3, <1>20, <1>21, <1>22, <1>23 DEF Keeps, tk

\* StoredSecret keeps what its call knows.
LEMMA StoredSecretKeeps ==
  ASSUME TypeOK, ShapeInv, NEW t \in Worker, Stored(t) /\ ~task[t].undo /\ task[t].op = "run" /\ task[t].stage # "",
         NEW s \in Source, task[t].src = s, NEW g \in Secrets, NEW p \in Secrets
  PROVE Keeps(task[t], task'[t], row[s], row'[s], ack[s], ack'[s], g, g, p)
<1> DEFINE tk == task[t]
           n == [tk EXCEPT !.pc = "stage"]
<1>1. tk \in Task /\ Shape(tk) /\ task \in [Worker -> Task] /\ tk.src = s
  BY DEF TypeOK, ShapeInv
<1>2. task' = [task EXCEPT ![t] = n]
  BY DEF Stored, Goto
<1>3. /\ n.pc = "stage"
      /\ n.op = tk.op
      /\ n.src = tk.src
      /\ n.name = tk.name
      /\ n.sets = tk.sets
      /\ n.ask = tk.ask
      /\ n.ver = tk.ver
      /\ n.seen = tk.seen
      /\ n.had = tk.had
      /\ n.eff = tk.eff
      /\ n.todo = tk.todo
      /\ n.undo = tk.undo
      /\ n.stage = tk.stage
  BY <1>1, TaskIs
<1>4. row'[s] = row[s]
  BY DEF Stored
<1>5. /\ ack'[s].row = ack[s].row
      /\ \A k \in Field : ack'[s].sec[k] = IF k = ScriptField THEN tk.ver ELSE ack[s].sec[k]
  <2>1. /\ ack \in [Source -> [row : Row, sec : Secrets]]
        /\ ack' = [ack EXCEPT ![s].sec[ScriptField] = tk.ver]
    BY <1>1 DEF Stored, TypeOK
  <2> DEFINE a1 == [ack[s] EXCEPT !.sec[ScriptField] = tk.ver]
  <2>2. ack'[s] = a1
    BY <2>1
  <2>3. ack[s] \in [row : Row, sec : [Field -> Secret]]
    BY <2>1 DEF Secrets
  <2>4. a1.row = ack[s].row /\ \A k \in Field : a1.sec[k] =
          IF k = ScriptField THEN tk.ver ELSE ack[s].sec[k]
    BY <2>3
  <2> QED BY <2>2, <2>4
<1>6. tk.pc = "store"
  BY DEF Stored
<1>7. tk.todo = {} /\ tk.undo = FALSE /\ tk.op = "run" /\ tk.stage # ""
  BY <1>1, TaskFields DEF Stored
<1>20. task'[t] = n
  BY <1>1, <1>2
<1> HIDE DEF tk, n
<1>21. Local(tk, g, p) => Local(n, g, p)
  BY <1>1, <1>3, <1>4, <1>5, <1>6, <1>7 DEF Local, Writing, Clear, Kept, Shape,
     Given, Target
<1>22. ASSUME Told(tk, row[s], ack[s], g, p), Local(tk, g, p)
      PROVE Told(n, row'[s], ack'[s], g, p)
  <2>1. ToldRow(n, row'[s], ack'[s])
    BY <1>1, <1>3, <1>4, <1>5, <1>6, <1>7, <1>22 DEF Told, ToldRow, AsRead,
       Rewritten, Promised, Shape
  <2>2. ToldSecrets(n, row'[s], ack'[s], g, p)
    BY ZenonT(40), <1>1, <1>3, <1>4, <1>5, <1>6, <1>7, <1>22 DEF Told, ToldRow,
       ToldSecrets, AsRead, Remembers, Shape, Shows, Same, ToldScript
  <2>3. ToldScript(n, ack'[s], g, p)
    BY <1>1, <1>3, <1>4, <1>5, <1>6, <1>7, <1>22 DEF Told, ToldRow,
       ToldSecrets, ToldScript, AsRead, Shape, Same
  <2> QED BY <2>1, <2>2, <2>3 DEF Told
<1>23. Booting(tk, row[s]) => Booting(n, row'[s])
  BY <1>1, <1>3, <1>4, <1>5, <1>6, <1>7 DEF Booting, Shape
<1> QED BY <1>3, <1>20, <1>21, <1>22, <1>23 DEF Keeps, tk

\* MigrateCopies keeps what its call knows.
LEMMA MigrateCopiesKeeps ==
  ASSUME TypeOK, ShapeInv, NEW t \in Worker, MigrateKey(t) /\ Copies(t),
         NEW s \in Source, task[t].src = s, NEW g \in Secrets, NEW p \in Secrets,
         g = Held(s), p = Held(Plugin)
  PROVE Keeps(task[t], task'[t], row[s], row'[s], ack[s], ack'[s], g, g, p)
<1> DEFINE tk == task[t]
           op1 == Op(0, Head(tk.left), get(Plugin, Head(tk.left)))
           n == [tk EXCEPT !.left = Tail(@), !.pc = "store",
                         !.todo = {op1}]
<1>1. tk \in Task /\ Shape(tk) /\ task \in [Worker -> Task] /\ tk.src = s
  BY DEF TypeOK, ShapeInv
<1>2. task' = [task EXCEPT ![t] = n]
  BY DEF MigrateKey, Goto, Copies
<1>3. /\ n.pc = "store"
      /\ n.op = tk.op
      /\ n.src = tk.src
      /\ n.name = tk.name
      /\ n.sets = tk.sets
      /\ n.ask = tk.ask
      /\ n.ver = tk.ver
      /\ n.seen = tk.seen
      /\ n.had = tk.had
      /\ n.eff = tk.eff
      /\ n.todo = {op1}
      /\ n.undo = tk.undo
      /\ n.stage = tk.stage
  <2> HIDE DEF op1
  <2> QED BY <1>1, TaskIs
<1>4. row'[s] = row[s]
  BY DEF MigrateKey, Copies
<1>5. ack'[s] = ack[s]
  BY DEF MigrateKey, Copies
<1>6. tk.pc = "migrate"
  BY DEF MigrateKey
<1>7. Head(tk.left) \in Field
  BY LeftHead DEF MigrateKey
<1>8. /\ op1.key = Head(tk.left) /\ op1.val = p[Head(tk.left)]
      /\ g[Head(tk.left)] = Missing /\ op1.val # Missing
  BY <1>7 DEF Op, Held, Copies
<1>9. tk.op = "run" /\ tk.stage = ""
  BY <1>1, <1>6 DEF Shape
<1>20. task'[t] = n
  BY <1>1, <1>2
<1> HIDE DEF tk, n, op1
<1>21. Local(tk, g, p) => Local(n, g, p)
  BY <1>1, <1>3, <1>4, <1>5, <1>6, <1>7, <1>8, <1>9 DEF Local, Writing, Clear,
     Kept, Shape, Given, Target
<1>22. ASSUME Told(tk, row[s], ack[s], g, p), Local(tk, g, p)
      PROVE Told(n, row'[s], ack'[s], g, p)
  <2>1. ToldRow(n, row'[s], ack'[s])
    BY ZenonT(40), <1>1, <1>3, <1>4, <1>5, <1>6, <1>7, <1>8, <1>9, <1>22 DEF
       Told, ToldRow,
       AsRead, Rewritten, Promised, Shape
  <2>2. ToldSecrets(n, row'[s], ack'[s], g, p)
    BY <1>1, <1>3, <1>4, <1>5, <1>6, <1>7, <1>8, <1>9, <1>22 DEF Told, ToldRow,
       ToldSecrets, AsRead, Remembers, Shape, Shows, Same
  <2>3. ToldScript(n, ack'[s], g, p)
    <3>1. \A k \in Field : Same(g[k], ack[s], p, k)
      BY <1>6, <1>22 DEF Told, ToldSecrets
    <3>2. Same(op1.val, ack[s], p, op1.key)
      BY <1>7, <1>8, <3>1 DEF Same, Or
    <3>3. tk.ver # Missing
      BY <1>9, <1>22 DEF Told, ToldScript
    <3> QED BY <1>3, <1>5, <1>9, <3>1, <3>2, <3>3 DEF ToldScript
  <2> QED BY <2>1, <2>2, <2>3 DEF Told
<1>23. Booting(tk, row[s]) => Booting(n, row'[s])
  BY <1>1, <1>3, <1>4, <1>5, <1>6, <1>7, <1>8, <1>9 DEF Booting, Shape
<1> QED BY <1>3, <1>20, <1>21, <1>22, <1>23 DEF Keeps, tk

\* SecretSet keeps what its call knows.
LEMMA SecretSetKeeps ==
  ASSUME TypeOK, ShapeInv, NEW t \in Worker, SecretSet(t),
         NEW s \in Source, task[t].src = s, NEW g \in Secrets, NEW p \in Secrets
  PROVE Keeps(task[t], task'[t], row[s], row'[s], ack[s], ack'[s], g, g, p)
<1> DEFINE tk == task[t]
           op1 == Op(0, ScriptField, tk.ver)
           n == [tk EXCEPT !.sets = TRUE, !.pc = "store", !.todo = {op1}]
<1>1. tk \in Task /\ Shape(tk) /\ task \in [Worker -> Task] /\ tk.src = s
  BY DEF TypeOK, ShapeInv
<1>2. task' = [task EXCEPT ![t] = n]
  BY DEF SecretSet, Goto
<1>3. /\ n.pc = "store"
      /\ n.op = tk.op
      /\ n.src = tk.src
      /\ n.name = tk.name
      /\ n.sets = TRUE
      /\ n.ask = tk.ask
      /\ n.ver = tk.ver
      /\ n.seen = tk.seen
      /\ n.had = tk.had
      /\ n.eff = tk.eff
      /\ n.todo = {op1}
      /\ n.undo = tk.undo
      /\ n.stage = tk.stage
  <2> HIDE DEF op1
  <2> QED BY <1>1, TaskIs
<1>4. row'[s] = row[s]
  BY DEF SecretSet
<1>5. ack'[s] = ack[s]
  BY DEF SecretSet
<1>6. tk.pc = "stage"
  BY DEF SecretSet
<1>7. op1.key = ScriptField /\ op1.val = tk.ver
  BY DEF Op
<1>8. tk.op = "run" /\ tk.stage # ""
  BY <1>1, <1>6 DEF Shape
<1>20. task'[t] = n
  BY <1>1, <1>2
<1> HIDE DEF tk, n, op1
<1>21. Local(tk, g, p) => Local(n, g, p)
  BY <1>1, <1>3, <1>4, <1>5, <1>6, <1>7, <1>8 DEF Local, Writing, Clear, Kept,
     Shape, Given, Target
<1>22. ASSUME Told(tk, row[s], ack[s], g, p), Local(tk, g, p)
      PROVE Told(n, row'[s], ack'[s], g, p)
  <2>1. ToldRow(n, row'[s], ack'[s])
    BY ZenonT(40), <1>1, <1>3, <1>4, <1>5, <1>6, <1>7, <1>8, <1>22 DEF Told,
       ToldRow,
       AsRead, Rewritten, Promised, Shape
  <2>2. ToldSecrets(n, row'[s], ack'[s], g, p)
    BY <1>1, <1>3, <1>4, <1>5, <1>6, <1>7, <1>8, <1>22 DEF Told, ToldRow,
       ToldSecrets, AsRead, Remembers, Shape, Shows, Same
  <2>3. ToldScript(n, ack'[s], g, p)
    <3>1. \A k \in Field : Same(g[k], ack[s], p, k)
      BY <1>6, <1>22 DEF Told, ToldSecrets
    <3>2. tk.ver # Missing
      BY <1>8, <1>22 DEF Told, ToldScript
    <3> QED BY <1>3, <1>5, <1>7, <1>8, <3>1, <3>2 DEF ToldScript
  <2> QED BY <2>1, <2>2, <2>3 DEF Told
<1>23. Booting(tk, row[s]) => Booting(n, row'[s])
  BY <1>1, <1>3, <1>4, <1>5, <1>6, <1>7, <1>8 DEF Booting, Shape
<1> QED BY <1>3, <1>20, <1>21, <1>22, <1>23 DEF Keeps, tk

\* The fields of a task that a store call leaves alone.
Continues(tk, n) ==
  /\ n.op = tk.op /\ n.src = tk.src /\ n.name = tk.name /\ n.sets = tk.sets
  /\ n.ask = tk.ask /\ n.ver = tk.ver /\ n.seen = tk.seen /\ n.had = tk.had
  /\ n.eff = tk.eff /\ n.stage = tk.stage

\* What a store call makes of the secrets.
Writes(op, g, h) ==
  \A k \in Field : h[k] = g[k] \/ (k = op.key /\ h[k] = op.val)

\* A store call that waits or returns keeps what its call knows.
LEMMA StoreKeeps ==
  ASSUME NEW tk \in Task, NEW n, NEW op \in tk.todo, NEW r, NEW a,
         NEW g, NEW h, NEW p, op.key \in Field,
         tk.pc = "store", n.pc = "store", n.undo = tk.undo, Continues(tk, n),
         n.todo = tk.todo \/ (n.todo = tk.todo \ {op} /\ h[op.key] = op.val),
         Writes(op, g, h)
  PROVE Keeps(tk, n, r, r, a, a, g, h, p)
<1>1. ASSUME Local(tk, g, p) PROVE Local(n, h, p)
  <2>1. \A k : Target(n, k) = Target(tk, k)
    BY DEF Target, Continues
  <2>2. Writing(n, h)
    BY <1>1, <2>1 DEF Local, Writing, Writes, Continues
  <2> QED BY <2>2 DEF Local, Clear, Kept
<1>2. ASSUME Told(tk, r, a, g, p), Local(tk, g, p) PROVE Told(n, r, a, h, p)
  <2>1. ToldRow(n, r, a)
    <3>1. Promised(n, a) = Promised(tk, a)
      BY DEF Promised, Continues
    <3> QED BY <1>2, <3>1 DEF Told, ToldRow, AsRead, Rewritten, Continues
  <2>2. ToldSecrets(n, r, a, h, p)
    BY <1>2 DEF Told, ToldSecrets, Remembers, Continues
  <2>3. ToldScript(n, a, h, p)
    BY <1>2 DEF Told, ToldScript, Continues, Writes
  <2> QED BY <2>1, <2>2, <2>3 DEF Told
<1>3. Booting(tk, r) => Booting(n, r)
  BY DEF Booting, Continues
<1> QED BY <1>1, <1>2, <1>3 DEF Keeps, Continues

\* The last step of a store call takes it off what is left to do.
LEMMA StoreReturns ==
  ASSUME TypeOK, ShapeInv, NEW t \in Worker, NEW op,
         MapSet(t, op) \/ FileSave(t, op) \/ IndexSave(t, op)
  PROVE /\ Continues(task[t], task'[t]) /\ task'[t].pc = "store"
        /\ task'[t].undo = task[t].undo /\ task'[t].todo = task[t].todo \ {op}
        /\ row' = row /\ ack' = ack
<1> DEFINE tk == task[t]
           n == [tk EXCEPT !.todo = tk.todo \ {op}, !.sub = 0, !.call = NoOp,
                           !.file = NoFile, !.keys = {}]
<1>1. tk \in Task /\ task \in [Worker -> Task]
  BY DEF TypeOK
<1>2. task' = [task EXCEPT ![t] = n] /\ row' = row /\ ack' = ack
  BY DEF MapSet, FileSave, IndexSave, Returned, Goto, StoreFrame
<1>3. tk.pc = "store"
  BY DEF MapSet, FileSave, IndexSave, Storing
<1>4. /\ Continues(tk, n) /\ n.pc = tk.pc /\ n.undo = tk.undo
      /\ n.todo = tk.todo \ {op}
  BY <1>1, TaskIs DEF Continues
<1>5. task'[t] = n
  BY <1>1, <1>2
<1> HIDE DEF n
<1> QED BY <1>2, <1>3, <1>4, <1>5

\* The steps before it leave what is left to do.
LEMMA StoreWaits ==
  ASSUME TypeOK, ShapeInv, NEW t \in Worker, NEW op,
         FileLoad(t, op) \/ EntrySet(t, op) \/ IndexLoad(t, op)
  PROVE /\ Continues(task[t], task'[t]) /\ task'[t].pc = "store"
        /\ task'[t].undo = task[t].undo /\ task'[t].todo = task[t].todo
        /\ row' = row /\ ack' = ack
<1> DEFINE tk == task[t]
<1>1. tk \in Task /\ task \in [Worker -> Task]
  BY DEF TypeOK
<1>2. row' = row /\ ack' = ack /\ tk.pc = "store"
  BY DEF FileLoad, EntrySet, IndexLoad, StoreFrame, Storing
<1>3. CASE FileLoad(t, op)
  <2> DEFINE n == [tk EXCEPT !.sub = 1, !.call = op, !.file = data]
  <2>1. task' = [task EXCEPT ![t] = n]
    BY <1>3 DEF FileLoad, Goto
  <2>2. /\ Continues(tk, n) /\ n.pc = tk.pc /\ n.undo = tk.undo
        /\ n.todo = tk.todo
    BY <1>1, TaskIs DEF Continues
  <2>3. task'[t] = n
    BY <1>1, <2>1
  <2> HIDE DEF n
  <2> QED BY <1>2, <2>2, <2>3
<1>4. CASE EntrySet(t, op)
  <2> DEFINE n == [tk EXCEPT !.sub = 1, !.call = op]
  <2>1. task' = [task EXCEPT ![t] = n]
    BY <1>4 DEF EntrySet, Goto
  <2>2. /\ Continues(tk, n) /\ n.pc = tk.pc /\ n.undo = tk.undo
        /\ n.todo = tk.todo
    BY <1>1, TaskIs DEF Continues
  <2>3. task'[t] = n
    BY <1>1, <2>1
  <2> HIDE DEF n
  <2> QED BY <1>2, <2>2, <2>3
<1>5. CASE IndexLoad(t, op)
  <2> DEFINE n == [tk EXCEPT !.sub = 2, !.keys = index[tk.src]]
  <2>1. task' = [task EXCEPT ![t] = n]
    BY <1>5 DEF IndexLoad, Goto
  <2>2. /\ Continues(tk, n) /\ n.pc = tk.pc /\ n.undo = tk.undo
        /\ n.todo = tk.todo
    BY <1>1, TaskIs DEF Continues
  <2>3. task'[t] = n
    BY <1>1, <2>1
  <2> HIDE DEF n
  <2> QED BY <1>2, <2>2, <2>3
<1> QED BY <1>3, <1>4, <1>5

\* A store step writes at most its own entry.
LEMMA StoreWrites ==
  ASSUME TypeOK, ShapeInv, FileInv, NEW t \in Worker, NEW op, StoreStep(t, op),
         NEW s \in Source, task[t].src = s
  PROVE /\ op \in task[t].todo /\ op.key \in Field /\ backend' = backend
        /\ Writes(op, Held(s), Held(s)') /\ Held(Plugin)' = Held(Plugin)
        /\ data' = Put(data, s, op) => Held(s)'[op.key] = op.val
<1>1. /\ op \in StoreCall /\ op \in task[t].todo /\ backend' = backend
      /\ data' = data \/ data' = Put(data, s, op)
  BY StoreStepData
<1>2. op.key \in Field
  BY <1>1 DEF StoreCall
<1>3. CASE data' = data
  <2>1. \A sc, k : get(sc, k)' = get(sc, k)
    BY <1>1, <1>3, GetSame
  <2>2. Held(s)' = Held(s) /\ Held(Plugin)' = Held(Plugin)
    BY <2>1 DEF Held
  <2>3. data' = Put(data, s, op) => op.val = get(s, op.key)'
    <3> SUFFICES ASSUME data' = Put(data, s, op) PROVE op.val = get(s, op.key)'
      OBVIOUS
    <3>1. \A k \in Field : get(s, k)' = IF k = op.key THEN op.val ELSE get(s, k)
      BY ZenonT(40), <1>1, GetPut, Scopes
    <3> QED BY <1>2, <3>1
  <2> QED BY <1>1, <1>2, <2>2, <2>3 DEF Writes, Held
<1>4. CASE data' = Put(data, s, op)
  <2>1. \A sc \in Scope, k \in Field :
          get(sc, k)' = IF sc = s /\ k = op.key THEN op.val ELSE get(sc, k)
    BY <1>1, <1>4, GetPut
  <2>2. /\ \A k \in Field : Held(s)'[k] = IF k = op.key THEN op.val ELSE Held(s)[k]
        /\ Held(Plugin)' = Held(Plugin)
    BY <2>1, Scopes DEF Held
  <2> QED BY <1>1, <1>2, <2>2 DEF Writes
<1> QED BY <1>1, <1>3, <1>4

\* A call of the store that returns has written its entry.
LEMMA StoreWrote ==
  ASSUME TypeOK, ShapeInv, FileInv, SubInv, NEW t \in Worker, NEW op, Owns(t),
         MapSet(t, op) \/ FileSave(t, op) \/ IndexSave(t, op),
         NEW s \in Source, task[t].src = s
  PROVE Held(s)'[op.key] = op.val
<1>1. StoreStep(t, op)
  BY DEF StoreStep
<1>2. CASE MapSet(t, op)
  BY <1>1, <1>2, StoreWrites DEF MapSet
<1>3. CASE FileSave(t, op)
  <2>1. Storing(t, 1, op) /\ backend = "file" /\ data' = Put(task[t].file, s, op)
    BY <1>3 DEF FileSave
  <2>2. task[t].file = data
    BY <2>1, StoringOp DEF FileInv
  <2> QED BY <1>1, <2>1, <2>2, StoreWrites
<1>4. CASE IndexSave(t, op)
  <2>1. task[t].sub = 2 /\ op = task[t].call /\ data' = data
    BY <1>4, IndexSaveHands
  <2>2. backend = "keyring" /\ Busy(t)
    BY <1>4 DEF IndexSave, Storing, Busy
  <2>3. data[s][op.key] = op.val
    BY <2>1, <2>2 DEF SubInv
  <2>4. op.key \in Field /\ backend' = backend
    BY <1>1, StoreWrites
  <2>5. get(s, op.key)' = op.val
    BY <2>1, <2>2, <2>3, <2>4 DEF get
  <2> QED BY <2>4, <2>5 DEF Held
<1> QED BY <1>2, <1>3, <1>4

\* Every step of a store call that does not fail keeps what its call knows.
LEMMA StoreGoes ==
  ASSUME TypeOK, ShapeInv, FileInv, SubInv, NEW t \in Worker, NEW op, Owns(t),
         StoreStep(t, op), ~StoreFails(t, op), NEW s \in Source, task[t].src = s
  PROVE Keeps(task[t], task'[t], row[s], row'[s], ack[s], ack'[s],
              Held(s), Held(s)', Held(Plugin))
<1>1. task[t] \in Task
  BY DEF TypeOK
<1>2. op \in task[t].todo /\ op.key \in Field /\ Writes(op, Held(s), Held(s)')
  BY StoreWrites
<1>3. task[t].pc = "store"
  BY StoreStepData
<1>4. /\ Continues(task[t], task'[t]) /\ task'[t].pc = "store"
      /\ task'[t].undo = task[t].undo /\ row' = row /\ ack' = ack
      /\ \/ task'[t].todo = task[t].todo
         \/ task'[t].todo = task[t].todo \ {op} /\ Held(s)'[op.key] = op.val
  <2>1. CASE MapSet(t, op) \/ FileSave(t, op) \/ IndexSave(t, op)
    BY <2>1, StoreReturns, StoreWrote
  <2>2. CASE FileLoad(t, op) \/ EntrySet(t, op) \/ IndexLoad(t, op)
    BY <2>2, StoreWaits
  <2> QED BY <2>1, <2>2 DEF StoreStep
<1>5. row'[s] = row[s] /\ ack'[s] = ack[s]
  BY <1>4
<1> QED BY <1>1, <1>2, <1>3, <1>4, <1>5, StoreKeeps

\* A store call that fails turns its call to an undo that knows what it puts
\* back.
LEMMA FailsTurnsKeeps ==
  ASSUME TypeOK, ShapeInv, FileInv, NEW t \in Worker, NEW op,
         StoreFails(t, op) /\ ~task[t].undo /\ task[t].op # "run",
         NEW s \in Source, task[t].src = s
  PROVE Keeps(task[t], task'[t], row[s], row'[s], ack[s], ack'[s],
              Held(s), Held(s)', Held(Plugin))
<1> DEFINE tk == task[t]
           pcv == CASE tk.op = "update" -> "revert"
                              [] tk.op = "create" -> "unmake"
                              [] OTHER -> "store"
           n == [tk EXCEPT !.undo = TRUE, !.sub = 0, !.call = NoOp,
                     !.file = NoFile, !.keys = {}, !.pc = pcv,
                     !.todo = Restores(tk.had)]
           g == Held(s)
           h == Held(s)'
           p == Held(Plugin)
<1>1. tk \in Task /\ Shape(tk) /\ task \in [Worker -> Task] /\ tk.src = s
  BY DEF TypeOK, ShapeInv
<1>2. Storing(t, tk.sub, op) /\ StoreStep(t, op)
  BY DEF StoreFails, StoreStep
<1>3. tk.pc = "store" /\ op \in tk.todo
  BY <1>2, StoringOp
<1>4. tk.op \in {"update", "create", "delete"} /\ tk.undo = FALSE
  BY <1>1, <1>3, TaskFields DEF Shape
<1>5. task' = [task EXCEPT ![t] = n] /\ row' = row /\ ack' = ack
  BY DEF StoreFails, Goto
<1>6. /\ n.op = tk.op /\ n.src = tk.src /\ n.name = tk.name /\ n.sets = tk.sets
      /\ n.ask = tk.ask /\ n.ver = tk.ver /\ n.seen = tk.seen
      /\ n.had = tk.had /\ n.eff = tk.eff /\ n.stage = tk.stage
      /\ n.pc = pcv /\ n.undo = TRUE /\ n.todo = Restores(tk.had)
  <2> HIDE DEF pcv
  <2> QED BY <1>1, TaskIs
<1>7. /\ tk.op = "update" => n.pc = "revert"
      /\ tk.op = "create" => n.pc = "unmake"
      /\ tk.op = "delete" => n.pc = "store"
  BY <1>4, <1>6
<1>8. Writes(op, g, h)
  BY <1>2, StoreWrites
<1>9. tk.had \in Secrets
  BY <1>1, TaskFields
<1>10. /\ \A o \in Restores(tk.had) : o.val = tk.had[o.key] /\ o.key \in Field
       /\ \A k \in Field : \E o \in Restores(tk.had) : o.key = k
  BY <1>9, RestoresType DEF StoreCall
<1>11. task'[t] = n /\ row'[s] = row[s] /\ ack'[s] = ack[s]
  BY <1>1, <1>5
<1> HIDE DEF n, tk, pcv, g, h, p
<1>12. ASSUME Local(tk, g, p) PROVE Local(n, h, p)
  <2>1. Writing(n, h)
    BY <1>4, <1>6, <1>7, <1>10 DEF Writing, Target
  <2>2. Clear(n, h)
    <3> SUFFICES ASSUME n.pc = "unmake", NEW k \in Field, k \notin Given(n)
                 PROVE h[k] = Missing
      BY <1>4, <1>7 DEF Clear
    <3>1. tk.op = "create" /\ tk.ask[k] = "omit" /\ k \notin Given(tk)
      BY <1>4, <1>6, <1>7 DEF Given
    <3>2. \A o \in tk.todo : o.key \in Given(tk)
      BY <1>1, <1>3, <3>1 DEF Shape
    <3>3. g[k] = Target(tk, k)
      BY <1>3, <1>12, <3>1, <3>2 DEF Local, Writing
    <3>4. Target(tk, k) = Missing
      BY <1>4, <3>1 DEF Target
    <3>5. h[k] = g[k]
      BY <1>3, <1>8, <3>1, <3>2 DEF Writes
    <3> QED BY <3>3, <3>4, <3>5
  <2> QED BY <1>4, <1>7, <2>1, <2>2 DEF Local, Kept
<1>13. ASSUME Told(tk, row[s], ack[s], g, p), Local(tk, g, p)
       PROVE Told(n, row[s], ack[s], h, p)
  <2>1. ToldRow(n, row[s], ack[s])
    <3>1. Promised(n, ack[s]) = Promised(tk, ack[s])
      BY <1>6 DEF Promised
    <3> QED BY <1>3, <1>4, <1>6, <1>7, <1>13, <3>1
         DEF Told, ToldRow, AsRead, Rewritten
  <2>2. ToldSecrets(n, row[s], ack[s], h, p)
    BY <1>3, <1>4, <1>6, <1>7, <1>13 DEF Told, ToldSecrets, Remembers
  <2>3. ToldScript(n, ack[s], h, p)
    BY <1>4, <1>6 DEF ToldScript
  <2> QED BY <2>1, <2>2, <2>3 DEF Told
<1>14. Booting(tk, row[s]) => Booting(n, row[s])
  BY <1>4, <1>6, <1>7 DEF Booting
<1> QED BY <1>6, <1>11, <1>12, <1>13, <1>14 DEF Keeps, tk, g, h, p

\* A stage that goes on to the next, with the row that was read or a new state.
LEMMA StageKeeps ==
  ASSUME NEW tk \in Task, NEW n, NEW r \in Row, NEW rn, NEW a, NEW an, NEW g, NEW p,
         tk.pc = "stage", Shape(tk), n.pc = "stage", n.op = tk.op, n.src = tk.src,
         n.ver = tk.ver, n.undo = tk.undo,
         an.sec = a.sec,
         r = a.row /\ tk.seen = r /\ r.live => rn = an.row /\ n.seen = rn /\ rn.live
  PROVE Keeps(tk, n, r, rn, a, an, g, g, p)
<1>1. tk.op = "run"
  BY DEF Shape
<1>2. Local(n, g, p)
  BY DEF Local, Writing, Clear, Kept
<1>3. ASSUME Told(tk, r, a, g, p) PROVE Told(n, rn, an, g, p)
  <2>1. ToldRow(n, rn, an)
    BY <1>1, <1>3 DEF Told, ToldRow, AsRead, Rewritten
  <2>2. ToldSecrets(n, rn, an, g, p)
    BY <1>3 DEF Told, ToldSecrets, Remembers, Same
  <2>3. ToldScript(n, an, g, p)
    BY <1>3 DEF Told, ToldScript
  <2> QED BY <2>1, <2>2, <2>3 DEF Told
<1>4. ~Booting(tk, r)
  BY <1>1 DEF Booting
<1> QED BY <1>2, <1>3, <1>4 DEF Keeps

\* A stage that is not the last keeps what its run knows.
LEMMA StageGoesKeeps ==
  ASSUME TypeOK, ShapeInv, NEW t \in Worker, Stage(t), Busy(t)',
         NEW s \in Source, task[t].src = s, NEW g, NEW p
  PROVE Keeps(task[t], task'[t], row[s], row'[s], ack[s], ack'[s], g, g, p)
<1> DEFINE tk == task[t]
           sg == IF tk.stage = "login" THEN "refresh" ELSE "fetch"
<1>1. tk \in Task /\ Shape(tk) /\ task \in [Worker -> Task] /\ tk.pc = "stage"
      /\ row \in [Source -> Row] /\ tk.seen \in Row
      /\ ack \in [Source -> [row : Row, sec : Secrets]]
  BY TaskFields DEF TypeOK, ShapeInv, Stage
<1>2. \A ok : ~Leave(t, ok)
  BY <1>1, IdleFields DEF Leave, Busy
<1>3. ASSUME NEW seen, AfterStage(t, seen)
      PROVE /\ task'[t].pc = "stage" /\ task'[t].op = tk.op
            /\ task'[t].src = tk.src /\ task'[t].ver = tk.ver
            /\ task'[t].undo = tk.undo /\ task'[t].seen = seen
  <2> DEFINE n == [tk EXCEPT !.seen = seen, !.stage = sg]
  <2>1. task' = [task EXCEPT ![t] = n]
    BY <1>2, <1>3 DEF AfterStage, Goto
  <2>2. task'[t] = n
    BY <1>1, <2>1
  <2>3. /\ n.pc = "stage" /\ n.op = tk.op /\ n.src = tk.src /\ n.ver = tk.ver
        /\ n.undo = tk.undo /\ n.seen = seen
    <3> HIDE DEF sg
    <3> QED BY <1>1, TaskIs
  <2> HIDE DEF n
  <2> QED BY <2>2, <2>3
<1>4. CASE AfterStage(t, tk.seen) /\ UNCHANGED <<row, ack>>
  <2>1. row'[s] = row[s] /\ ack'[s] = ack[s]
    BY <1>4
  <2>2. row[s] \in Row
    BY <1>1
  <2> QED BY <1>1, <1>3, <1>4, <2>1, <2>2, StageKeeps
<1>5. ASSUME NEW v \in {0, tk.ver}, AfterState(t, v)
      PROVE Keeps(task[t], task'[t], row[s], row'[s], ack[s], ack'[s], g, g, p)
  <2> DEFINE seen == [tk.seen EXCEPT !.state = v]
             saved == [seen EXCEPT !.conf = row[s].conf]
  <2>1. /\ row[s].live
        /\ AfterStage(t, seen) /\ ack' = [ack EXCEPT ![s].row.state = v]
        /\ row' = [row EXCEPT ![s] = saved]
    BY <1>2, <1>5 DEF AfterState, Err, UpdateRow
  <2>2. row'[s] = saved /\ row[s] \in Row
    BY <1>1, <2>1
  <2>3. ack'[s] = [ack[s] EXCEPT !.row.state = v]
    BY <1>1, <2>1
  <2>4. ack[s] \in [row : Row, sec : Secrets]
    BY <1>1
  <2>5. ack'[s].sec = ack[s].sec /\ ack'[s].row = [ack[s].row EXCEPT !.state = v]
    <3> HIDE DEF Row, Secrets
    <3> QED BY <2>3, <2>4
  <2>6. ASSUME row[s] = ack[s].row, tk.seen = row[s], row[s].live
        PROVE saved = [ack[s].row EXCEPT !.state = v] /\ saved = seen /\ saved.live
    <3>1. \A r \in Row : [[r EXCEPT !.state = v] EXCEPT !.conf = r.conf]
                        = [r EXCEPT !.state = v]
      BY DEF Row
    <3>2. \A r \in Row : [r EXCEPT !.state = v].live = r.live
      BY DEF Row
    <3>3. seen = [row[s] EXCEPT !.state = v]
      BY <2>6
    <3> HIDE DEF seen, Row
    <3>4. saved = [[row[s] EXCEPT !.state = v] EXCEPT !.conf = row[s].conf]
      BY <3>3
    <3>5. saved = [row[s] EXCEPT !.state = v]
      BY <2>2, <3>1, <3>4
    <3> HIDE DEF saved
    <3> QED BY <2>2, <2>6, <3>2, <3>3, <3>5
  <2>7. task'[t].seen = seen
    BY <1>3, <2>1
  <2> HIDE DEF saved, seen, tk
  <2>8. /\ task'[t].pc = "stage" /\ task'[t].op = tk.op
        /\ task'[t].src = tk.src /\ task'[t].ver = tk.ver
        /\ task'[t].undo = tk.undo
    BY <1>3, <2>1
  <2>9. row[s] = ack[s].row /\ tk.seen = row[s] /\ row[s].live =>
          row'[s] = ack'[s].row /\ task'[t].seen = row'[s] /\ row'[s].live
    BY <2>2, <2>5, <2>6, <2>7
  <2>10. Keeps(tk, task'[t], row[s], row'[s], ack[s], ack'[s], g, g, p)
    BY <1>1, <2>2, <2>5, <2>8, <2>9, StageKeeps
  <2> QED BY <2>10 DEF tk
<1> QED BY <1>2, <1>4, <1>5, StageCases DEF Err

----------------------------------------------------------------------------
(***************************************************************************)
(* A step of a call that goes on.                                          *)
(***************************************************************************)
Goes(t, s) == Keeps(task[t], task'[t], row[s], row'[s], ack[s], ack'[s],
                    Held(s), Held(s)', Held(Plugin))

\* An undo that failed itself goes on, and marks its source.
Undoes(t) ==
  /\ task[t].src \in mixed' /\ task[t].undo /\ task'[t].undo
  /\ task'[t].pc = "store" /\ Continues(task[t], task'[t]) /\ row' = row

\* What a store holds of a scope are secrets.
LEMMA HeldType ==
  ASSUME TypeOK, NEW sc \in Scope PROVE Held(sc) \in Secrets
BY GetType DEF Held, Secrets

\* Where the data does not change, nor does what is held of a scope.
LEMMA HeldSame ==
  ASSUME UNCHANGED <<backend, data>>, NEW sc PROVE Held(sc)' = Held(sc)
<1>1. \A k : get(sc, k)' = get(sc, k)
  BY GetSame
<1> QED BY <1>1 DEF Held

\* A call that goes on does not leave.
LEMMA GoesOn ==
  ASSUME TypeOK, NEW t \in Worker, Busy(t)'
  PROVE \A ok : ~Leave(t, ok)
<1>1. task \in [Worker -> Task]
  BY DEF TypeOK
<1> QED BY <1>1, IdleFields DEF Leave, Busy

\* A database step of an undo that fails leaves the undo going on, marked.
LEMMA DbFailsUndoing ==
  ASSUME TypeOK, ShapeInv, NEW t \in Worker,
         DbFailsAt(t, "revert") \/ DbFailsAt(t, "unmake")
  PROVE Undoes(t)
<1> DEFINE tk == task[t]
           todo == IF tk.pc = "revert" THEN Restores(tk.had) ELSE Forgets(tk)
           n == [tk EXCEPT !.pc = "store", !.todo = todo]
<1>1. tk \in Task /\ Shape(tk) /\ task \in [Worker -> Task]
  BY DEF TypeOK, ShapeInv
<1>2. tk.undo = TRUE
  BY <1>1, TaskFields DEF DbFailsAt, Shape
<1>3. task' = [task EXCEPT ![t] = n] /\ row' = row /\ tk.src \in mixed'
  BY DEF DbFailsAt, DbFails, Goto, Mix
<1>4. Continues(tk, n) /\ n.pc = "store" /\ n.undo = tk.undo
  <2> HIDE DEF todo
  <2> QED BY <1>1, TaskIs DEF Continues
<1>5. task'[t] = n
  BY <1>1, <1>3
<1> HIDE DEF n
<1> QED BY <1>2, <1>3, <1>4, <1>5 DEF Undoes

\* So does a store call of the undo of create_source.
LEMMA FailsUndoing ==
  ASSUME TypeOK, ShapeInv, NEW t \in Worker, NEW op, StoreFails(t, op),
         task[t].undo, task[t].op = "create"
  PROVE Undoes(t)
<1> DEFINE tk == task[t]
           n == [tk EXCEPT !.todo = tk.todo \ {op}, !.sub = 0, !.call = NoOp,
                           !.file = NoFile, !.keys = {}]
<1>1. tk \in Task /\ task \in [Worker -> Task]
  BY DEF TypeOK
<1>2. tk.undo = TRUE
  BY <1>1, TaskFields
<1>3. /\ task' = [task EXCEPT ![t] = n] /\ row' = row /\ tk.src \in mixed'
      /\ tk.pc = "store"
  BY DEF StoreFails, Returned, Goto, Mix, Storing
<1>4. Continues(tk, n) /\ n.pc = tk.pc /\ n.undo = tk.undo
  BY <1>1, TaskIs DEF Continues
<1>5. task'[t] = n
  BY <1>1, <1>3
<1> HIDE DEF n
<1> QED BY <1>2, <1>3, <1>4, <1>5 DEF Undoes

\* The steps that are not steps of a store call.
LEMMA QuietGoes ==
  ASSUME TypeOK, ShapeInv, NEW t \in Worker, WorkerStep(t), Busy(t)',
         ~\E op \in task[t].todo : StoreStep(t, op),
         NEW s \in Source, task[t].src = s
  PROVE Goes(t, s) \/ Undoes(t)
<1> DEFINE K == Keeps(task[t], task'[t], row[s], row'[s], ack[s], ack'[s],
                      Held(s), Held(s), Held(Plugin))
<1>1. \A ok : ~Leave(t, ok)
  BY GoesOn
<1>2. ~Err(t) /\ ~Succeed(t)
  BY <1>1 DEF Err, Succeed
<1>3. Held(s) \in Secrets /\ Held(Plugin) \in Secrets
  BY HeldType, Scopes
<1>4. Held(s)' = Held(s)
  BY WorkerQuiet, HeldSame DEF Quiet, secrets
<1> SUFFICES K \/ Undoes(t)
  BY <1>4 DEF Goes
<1> HIDE DEF Undoes
<1>5. task[t] \in Task /\ Shape(task[t])
  BY DEF TypeOK, ShapeInv
<1>6. CASE ReadRow(t)
  <2>1. row[s].live
    BY <1>2, <1>6 DEF ReadRow
  <2> QED BY <1>3, <1>6, <2>1, ReadRowKeeps
<1>7. CASE Snapshot(t)
  <2>1. ~Refused(t)
    BY <1>2, <1>7, SnapshotRefused
  <2> QED BY <1>3, <1>7, <2>1, SnapshotUpdateKeeps, SnapshotDeleteKeeps
<1>8. CASE Insert(t)
  BY <1>3, <1>8, InsertKeeps
<1>9. CASE Configure(t)
  BY <1>3, <1>9, ConfigureLivesKeeps, ConfigureGoneKeeps, GoneConfigures, BareKeeps
<1>10. CASE Commit(t)
  <2>1. task[t].sets
    BY <1>2, <1>10 DEF Commit
  <2> QED BY <1>2, <1>3, <1>10, <2>1, CommitSetsKeeps, GoneCommits, BareKeeps
<1>11. CASE Drop(t)
  BY <1>2, <1>11 DEF Drop
<1>12. CASE Revert(t)
  BY <1>3, <1>12, RevertKeeps
<1>13. CASE Unmake(t)
  BY <1>3, <1>13, UnmakeKeeps
<1>14. CASE DbFails(t)
  <2>1. task[t].pc \in {"configure", "drop", "revert", "unmake"}
    BY <1>2, <1>14 DEF DbFails
  <2> QED BY <1>3, <1>14, <2>1, DbFailsConfigureKeeps, DbFailsDropKeeps,
             DbFailsUndoing DEF DbFailsAt
<1>15. CASE Stored(t)
  <2>1. ~task[t].undo /\ task[t].op \in {"delete", "run"}
    <3>1. task[t].undo \in BOOLEAN
      BY <1>5, TaskFields
    <3>2. CASE task[t].undo
      <4>1. task[t].op # "run"
        BY <1>5, <3>2 DEF Shape
      <4> QED BY <1>2, <1>15, <3>2, <4>1 DEF Stored
    <3>3. CASE ~task[t].undo
      <4>1. CASE task[t].op \notin {"delete", "run"}
        BY <1>2, <1>15, <3>3, <4>1 DEF Stored
      <4> QED BY <3>3, <4>1
    <3> QED BY <3>1, <3>2, <3>3
  <2> QED BY <1>3, <1>15, <2>1, StoredDeleteKeeps, StoredMigrationKeeps,
             StoredSecretKeeps
<1>16. CASE MigrateKey(t)
  BY <1>3, <1>16, MigrateCopiesKeeps, MigrateSkipsKeeps
<1>17. CASE Migrated(t)
  BY <1>3, <1>17, MigratedKeeps
<1>18. CASE SecretSet(t)
  BY <1>3, <1>18, SecretSetKeeps
<1>19. CASE Stage(t)
  BY <1>19, StageGoesKeeps
<1> QED
  BY <1>6, <1>7, <1>8, <1>9, <1>10, <1>11, <1>12, <1>13, <1>14, <1>15, <1>16,
     <1>17, <1>18, <1>19 DEF WorkerStep

\* A step with which a call goes on keeps what the call knows, or is of an
\* undo that failed.
LEMMA StepGoes ==
  ASSUME TypeOK, ShapeInv, FileInv, SubInv, NEW t \in Worker, WorkerStep(t),
         Busy(t)', NEW s \in Source, task[t].src = s
  PROVE Undoes(t) \/ Goes(t, s)
        \/ (~Owns(t) /\ Continues(task[t], task'[t]) /\ task'[t].pc = "store"
            /\ task[t].pc = "store"
            /\ task'[t].undo = task[t].undo /\ row' = row)
<1>1. CASE ~\E op \in task[t].todo : StoreStep(t, op)
  BY <1>1, QuietGoes
<1>2. ASSUME NEW op, StoreFails(t, op)
      PROVE Undoes(t) \/ Goes(t, s)
  <2>1. task[t] \in Task /\ Shape(task[t]) /\ Storing(t, task[t].sub, op)
    BY <1>2 DEF TypeOK, ShapeInv, StoreFails
  <2>2. task[t].pc = "store"
    BY <2>1, StoringOp
  <2>3. task[t].op \in {"create", "update", "delete", "run"} /\ task[t].undo \in BOOLEAN
        /\ (task[t].undo => task[t].op # "run")
    BY <2>1, <2>2, TaskFields DEF Shape
  <2>4. ~Err(t)
    BY GoesOn DEF Err
  <2>5. task[t].undo => task[t].op = "create"
    BY <1>2, <2>3, <2>4 DEF StoreFails
  <2>6. ~task[t].undo => task[t].op # "run"
    BY <1>2, <2>3, <2>4 DEF StoreFails
  <2> QED BY <1>2, <2>3, <2>5, <2>6, FailsUndoing, FailsTurnsKeeps DEF Goes
<1>3. ASSUME NEW op, StoreStep(t, op), ~StoreFails(t, op)
      PROVE Goes(t, s)
            \/ (~Owns(t) /\ Continues(task[t], task'[t]) /\ task'[t].pc = "store"
                /\ task[t].pc = "store"
                /\ task'[t].undo = task[t].undo /\ row' = row)
  <2>1. CASE Owns(t)
    BY <1>3, <2>1, StoreGoes DEF Goes
  <2>2. CASE ~Owns(t)
    BY <1>3, <2>2, StoreReturns, StoreWaits, StoreStepData DEF StoreStep
  <2> QED BY <2>1, <2>2
<1> QED BY <1>1, <1>2, <1>3

\* What a call knows it knows after each of its steps, as long as the source
\* is its own; and what it is to do at a start it remembers.
LEMMA Going ==
  ASSUME TypeOK, ShapeInv, FileInv, SubInv, NEW t \in Worker, WorkerStep(t),
         Busy(t)', NEW s \in Source, task[t].src = s
  PROVE /\ Owns(t)' => Owns(t) /\ Goes(t, s)
        /\ (task[t].undo => task'[t].undo) /\ phase' = phase
        /\ task'[t].src = s /\ mixed \subseteq mixed'
        /\ Booting(task[t], row[s]) => Booting(task'[t], row'[s])
<1>1. Moved(t) /\ RestStep(t) /\ task[t] \in Task /\ Shape(task[t])
  BY StepConfined DEF Confined, TypeOK, ShapeInv
<1>2. task'[t] # Idle
  BY IdleFields DEF Busy
<1>3. task'[t].src = s /\ phase' = phase /\ mixed \subseteq mixed'
  BY <1>1, <1>2 DEF Moved, RestStep
<1>4. CASE Undoes(t)
  <2>1. ~Owns(t)'
    BY <1>3, <1>4 DEF Undoes, Owns
  <2>2. Booting(task[t], row[s]) => Booting(task'[t], row'[s])
    BY <1>4 DEF Undoes, Booting, Continues
  <2> QED BY <1>3, <1>4, <2>1, <2>2 DEF Undoes
<1>5. CASE Goes(t, s)
  <2>1. /\ (task[t].undo => task'[t].undo)
        /\ Booting(task[t], row[s]) => Booting(task'[t], row'[s])
    BY <1>5 DEF Goes, Keeps
  <2>2. Owns(t)' => Owns(t)
    BY <1>3, <2>1 DEF Owns
  <2> QED BY <1>3, <1>5, <2>1, <2>2
<1>6. CASE ~Owns(t) /\ Continues(task[t], task'[t]) /\ task'[t].pc = "store"
           /\ task[t].pc = "store" /\ task'[t].undo = task[t].undo /\ row' = row
  <2>1. ~Owns(t)'
    BY <1>3, <1>6 DEF Owns
  <2>2. Booting(task[t], row[s]) => Booting(task'[t], row'[s])
    BY <1>6 DEF Booting, Continues
  <2> QED BY <1>3, <1>6, <2>1, <2>2
<1> QED BY <1>4, <1>5, <1>6, StepGoes

----------------------------------------------------------------------------
(***************************************************************************)
(* The step with which a call ends.                                        *)
(***************************************************************************)
\* A step to another place in the call does not end it.
LEMMA GotoBusy ==
  ASSUME TypeOK, NEW t \in Worker, NEW n, Goto(t, n), n.pc # "idle"
  PROVE Busy(t)'
<1>1. task'[t] = n
  BY DEF TypeOK, Goto
<1> QED BY <1>1 DEF Busy

\* These steps never end a call.
LEMMA PlainGoto ==
  ASSUME TypeOK, NEW t \in Worker,
         Insert(t) \/ Configure(t) \/ Revert(t) \/ Unmake(t) \/ Migrated(t)
         \/ SecretSet(t) \/ MigrateKey(t)
  PROVE Busy(t)'
<1>1. task[t] \in Task
  BY DEF TypeOK
<1>2. CASE Insert(t)
  BY <1>1, <1>2, TaskIs, GotoBusy DEF Insert
<1>3. CASE Configure(t)
  BY <1>1, <1>3, TaskIs, GotoBusy DEF Configure
<1>4. CASE Revert(t)
  BY <1>1, <1>4, TaskIs, GotoBusy DEF Revert
<1>5. CASE Unmake(t)
  BY <1>1, <1>5, TaskIs, GotoBusy DEF Unmake
<1>6. CASE Migrated(t)
  BY <1>1, <1>6, TaskIs, GotoBusy DEF Migrated
<1>7. CASE SecretSet(t)
  BY <1>1, <1>7, TaskIs, GotoBusy DEF SecretSet
<1>8. CASE MigrateKey(t)
  <2> DEFINE m == [task[t] EXCEPT !.left = Tail(@)]
             n == [m EXCEPT !.pc = "store",
                     !.todo = {Op(0, Head(task[t].left), get(Plugin, Head(task[t].left)))}]
  <2>1. m.pc = "migrate" /\ n.pc = "store"
    BY <1>1, <1>8, TaskIs DEF MigrateKey
  <2>2. Goto(t, m) \/ Goto(t, n)
    BY <1>8 DEF MigrateKey
  <2> HIDE DEF m, n
  <2> QED BY <2>1, <2>2, GotoBusy
<1> QED BY <1>2, <1>3, <1>4, <1>5, <1>6, <1>7, <1>8

\* How a call ends.
Fails(t) == Err(t) /\ row' = row
Returns(t) ==
  \/ Fails(t) /\ task[t].pc \in {"read", "insert", "snapshot", "commit", "stage"}
  \/ Fails(t) /\ task[t].pc = "store" /\ task[t].todo = {} /\ task[t].undo
  \/ Commit(t) /\ ~task[t].sets
  \/ Drop(t)
  \/ Stored(t) /\ Succeed(t) /\ ~task[t].undo /\ task[t].op \in {"create", "update"}
  \/ Stage(t)

\* A call that ends returns in one of six ways, or gives up an undo or a run
\* at a failed store call and marks its source.
LEMMA WorkerEnds ==
  ASSUME TypeOK, ShapeInv, FileInv, NEW t \in Worker, WorkerStep(t), ~Busy(t)'
  PROVE \/ Returns(t) /\ UNCHANGED <<backend, data>>
        \/ Err(t) /\ task[t].src \in mixed'
<1>1. task[t] \in Task /\ Shape(task[t])
  BY DEF TypeOK, ShapeInv
<1>2. ASSUME NEW op, StoreStep(t, op)
      PROVE Err(t) /\ task[t].src \in mixed'
  <2>1. StoreFails(t, op)
    BY <1>2, StoreReturns, StoreWaits DEF StoreStep, Busy
  <2>2. Storing(t, task[t].sub, op)
    BY <2>1 DEF StoreFails
  <2>3. task[t].pc = "store" /\ task[t].undo \in BOOLEAN
    BY <1>1, <2>2, StoringOp, TaskFields
  <2>4. task[t].undo \/ task[t].op = "run"
    <3>1. ASSUME ~task[t].undo, task[t].op # "run" PROVE FALSE
      <4> DEFINE tk == task[t]
                 pcv == CASE tk.op = "update" -> "revert"
                              [] tk.op = "create" -> "unmake"
                              [] OTHER -> "store"
                 n == [tk EXCEPT !.undo = TRUE, !.sub = 0, !.call = NoOp,
                         !.file = NoFile, !.keys = {}, !.pc = pcv,
                         !.todo = Restores(tk.had)]
      <4>1. Goto(t, n)
        BY <2>1, <3>1 DEF StoreFails
      <4>2. pcv # "idle"
        OBVIOUS
      <4>3. n.pc = pcv
        <5> HIDE DEF pcv
        <5> QED BY <1>1, TaskIs
      <4> HIDE DEF n, pcv
      <4> QED BY <4>1, <4>2, <4>3, GotoBusy
    <3> QED BY <3>1
  <2>5. ~Returned(t, op)
    <3> DEFINE tk == task[t]
               n == [tk EXCEPT !.todo = tk.todo \ {op}, !.sub = 0,
                       !.call = NoOp, !.file = NoFile, !.keys = {}]
    <3>1. n.pc = "store"
      BY <1>1, <2>3, TaskIs
    <3>2. Returned(t, op) => Goto(t, n)
      BY DEF Returned
    <3> HIDE DEF n
    <3> QED BY <3>1, <3>2, GotoBusy
  <2>6. Mix(task[t].src) /\ Err(t)
    BY <1>1, <2>1, <2>3, <2>4, <2>5 DEF StoreFails
  <2>7. mixed \subseteq Source /\ task[t].src \in mixed'
    BY <2>6 DEF Mix, TypeOK
  <2> QED BY <2>6, <2>7
<1>3. ASSUME ~\E op \in task[t].todo : StoreStep(t, op)
      PROVE Returns(t)
  <2>1. CASE ReadRow(t)
    <3>1. ASSUME row[task[t].src].live PROVE FALSE
      <4> DEFINE tk == task[t]
                 n == [tk EXCEPT !.seen = row[tk.src], !.left = Fields,
                    !.pc = IF tk.op = "run" THEN "migrate" ELSE "snapshot",
                    !.name = IF tk.name = "" THEN row[tk.src].name ELSE @]
      <4>1. Goto(t, n)
        BY <2>1, <3>1 DEF ReadRow
      <4>2. n.pc # "idle"
        BY <1>1, TaskIs
      <4> HIDE DEF n
      <4> QED BY <4>1, <4>2, GotoBusy
    <3>2. Err(t) /\ row' = row /\ task[t].pc = "read"
      BY <2>1, <3>1 DEF ReadRow
    <3> QED BY <3>2 DEF Returns, Fails
  <2>2. CASE Snapshot(t)
    <3>1. ASSUME ~Refused(t) PROVE FALSE
      <4> DEFINE tk == task[t]
                 hd == [k \in Field |-> get(tk.src, k)]
                 ef == [k \in Field |-> Effective(tk.src, k)]
                 n == [tk EXCEPT !.had = hd, !.eff = ef, !.pc = "commit"]
                 m == [tk EXCEPT !.had = hd, !.eff = ef, !.pc = "store",
                         !.todo = Restores(NoSecret)]
      <4>1. Goto(t, n) \/ Goto(t, m)
        BY <2>2, <3>1 DEF Snapshot, Refused
      <4>2. n.pc # "idle" /\ m.pc # "idle"
        <5> HIDE DEF hd, ef
        <5> QED BY <1>1, TaskIs
      <4> HIDE DEF n, m
      <4> QED BY <4>1, <4>2, GotoBusy
    <3>2. Err(t) /\ row' = row /\ task[t].pc = "snapshot"
      BY <2>2, <3>1, SnapshotRefused DEF Snapshot
    <3> QED BY <3>2 DEF Returns, Fails
  <2>3. CASE Commit(t)
    <3>1. ASSUME task[t].sets, row[task[t].src].live \/ ~Err(t) PROVE FALSE
      <4>1. Goto(t, [task[t] EXCEPT !.pc = "store", !.todo = Persists(task[t])])
        BY <2>3, <3>1 DEF Commit
      <4>2. [task[t] EXCEPT !.pc = "store", !.todo = Persists(task[t])].pc # "idle"
        BY <1>1, TaskIs
      <4> QED BY <4>1, <4>2, GotoBusy
    <3>2. ~task[t].sets \/ (Err(t) /\ row' = row /\ task[t].pc = "commit")
      BY <2>3, <3>1 DEF Commit
    <3> QED BY <2>3, <3>2 DEF Returns, Fails
  <2>4. CASE DbFails(t)
    <3>1. ASSUME task[t].pc \in {"configure", "drop", "revert", "unmake"} PROVE FALSE
      <4> DEFINE tk == task[t]
                 a == [tk EXCEPT !.pc = "unmake", !.undo = TRUE]
                 b == [tk EXCEPT !.pc = "store", !.undo = TRUE,
                              !.todo = Restores(tk.had)]
                 c == [tk EXCEPT !.pc = "store", !.todo = Restores(tk.had)]
                 d == [tk EXCEPT !.pc = "store", !.todo = Forgets(tk)]
      <4>1. Goto(t, a) \/ Goto(t, b) \/ Goto(t, c) \/ Goto(t, d)
        BY <2>4, <3>1 DEF DbFails
      <4>2. a.pc # "idle" /\ b.pc # "idle" /\ c.pc # "idle" /\ d.pc # "idle"
        BY <1>1, TaskIs
      <4> HIDE DEF a, b, c, d
      <4> QED BY <4>1, <4>2, GotoBusy
    <3>2. Err(t) /\ row' = row /\ task[t].pc \in {"read", "insert", "commit", "stage"}
      BY <2>4, <3>1 DEF DbFails
    <3> QED BY <3>2 DEF Returns, Fails
  <2>5. CASE Stored(t)
    <3>1. task[t].pc = "store" /\ task[t].todo = {} /\ row' = row /\ task[t].undo \in BOOLEAN
      BY <1>1, <2>5, TaskFields DEF Stored
    <3>2. CASE task[t].undo
      <4>1. task[t].op # "run"
        BY <1>1, <3>2 DEF Shape
      <4>2. Err(t)
        BY <2>5, <3>2, <4>1 DEF Stored
      <4> QED BY <3>1, <3>2, <4>2 DEF Returns, Fails
    <3>3. CASE ~task[t].undo /\ task[t].op \in {"delete", "run"}
      <4>1. \E pc \in {"drop", "migrate", "stage"} : Goto(t, [task[t] EXCEPT !.pc = pc])
        BY <2>5, <3>3 DEF Stored
      <4>2. \A pc : [task[t] EXCEPT !.pc = pc].pc = pc
        BY <1>1, TaskIs
      <4> QED BY <4>1, <4>2, GotoBusy
    <3>4. CASE ~task[t].undo /\ task[t].op \notin {"delete", "run"}
      <4>1. Succeed(t)
        BY <2>5, <3>4 DEF Stored
      <4>2. task[t].op \in {"create", "update"}
        BY <1>1, <3>1, <3>4, TaskFields DEF Shape
      <4> QED BY <2>5, <3>4, <4>1, <4>2 DEF Returns
    <3> QED BY <3>2, <3>3, <3>4
  <2> QED
    BY <1>3, <2>1, <2>2, <2>3, <2>4, <2>5, PlainGoto DEF WorkerStep, Returns
<1>4. ~(\E op \in task[t].todo : StoreStep(t, op)) => UNCHANGED <<backend, data>>
  BY WorkerQuiet DEF Quiet, secrets
<1> QED BY <1>2, <1>3, <1>4

\* A call that fails after an undo, or before it did anything, leaves what the
\* callers were told.
LEMMA FailsShows ==
  ASSUME NEW tk \in Task, Shape(tk), NEW r, NEW a, NEW g, NEW p,
         Local(tk, g, p), Told(tk, r, a, g, p),
         \/ tk.pc \in {"read", "insert", "snapshot", "commit", "stage"}
         \/ tk.pc = "store" /\ tk.todo = {} /\ tk.undo
  PROVE Shows(r, a, g, p)
<1>1. CASE tk.pc = "read"
  BY <1>1 DEF Told, ToldSecrets
<1>2. CASE tk.pc = "insert"
  <2>1. tk.op = "create"
    BY <1>2 DEF Shape
  <2>2. r = NoRow /\ a.row = NoRow /\ \A k \in Field : g[k] = Missing
    BY <1>2, <2>1 DEF Told, ToldRow, Local, Clear
  <2> QED BY <2>2 DEF Shows, NoRow
<1>3. CASE tk.pc \in {"snapshot", "commit", "stage"}
  BY <1>3 DEF Told, ToldRow, ToldSecrets, AsRead, Shows
<1>4. CASE tk.pc = "store" /\ tk.todo = {} /\ tk.undo
  <2>1. tk.op \in {"create", "update", "delete"}
    BY <1>4, TaskFields DEF Shape
  <2>2. \A k \in Field : g[k] = tk.had[k]
    BY <1>4, <2>1 DEF Local, Writing, Target
  <2>3. CASE tk.op = "create"
    <3>1. r = NoRow /\ a.row = NoRow /\ tk.had = NoSecret
      BY <1>4, <2>3 DEF Told, ToldRow, Shape
    <3> QED BY <2>2, <3>1 DEF Shows, NoRow, NoSecret
  <2>4. CASE tk.op \in {"update", "delete"}
    <3>1. r = a.row /\ r.live
      BY <1>4, <2>4 DEF Told, ToldRow, AsRead
    <3>2. \A k \in Field : Same(tk.had[k], a, p, k)
      BY <1>4, <2>4 DEF Told, ToldSecrets, Remembers
    <3> QED BY <2>2, <3>1, <3>2 DEF Shows
  <2> QED BY <2>1, <2>3, <2>4
<1> QED BY <1>1, <1>2, <1>3, <1>4

\* The answer of a call that succeeds.
LEMMA Answer ==
  ASSUME TypeOK, NEW t \in Worker, Succeed(t), NEW s \in Source, task[t].src = s
  PROVE ack'[s] = Promised(task[t], ack[s])
<1>1. ack \in [Source -> [row : Row, sec : Secrets]]
  BY DEF TypeOK
<1>2. ack' = [ack EXCEPT ![s] = Promise(t)] /\ Promise(t) = Promised(task[t], ack[s])
  BY DEF Succeed, Promise, Promised
<1> HIDE DEF Row, Secrets
<1> QED BY <1>1, <1>2

\* A create or an update that made its last store call has done what it
\* promised.
LEMMA StoredShows ==
  ASSUME NEW tk \in Task, Shape(tk), NEW r, NEW a, NEW g \in Secrets, NEW p,
         Local(tk, g, p), Told(tk, r, a, g, p),
         tk.pc = "store", tk.todo = {}, ~tk.undo, tk.op \in {"create", "update"}
  PROVE Shows(r, Promised(tk, a), g, p)
<1>1. tk.sets /\ tk.ask \in [Field -> {"new", "keep", "omit"}]
  BY TaskFields DEF Shape
<1>2. \A k \in Field : g[k] = Promised(tk, a).sec[k]
  <2>1. \A k \in Field : g[k] = Target(tk, k)
    BY DEF Local, Writing
  <2> QED BY <1>1, <2>1 DEF Target, Promised
<1>3. r = Promised(tk, a).row /\ r.live
  <2>1. r = Promised(tk, a).row
    BY DEF Told, ToldRow, Rewritten
  <2>2. Promised(tk, a).row.live = TRUE
    BY <1>1 DEF Promised
  <2> QED BY <2>1, <2>2
<1> QED BY <1>2, <1>3 DEF Shows, Same

\* A renaming changes the name in the row and in the answer.
LEMMA RenamedShows ==
  ASSUME TypeOK, ShapeInv, NEW t \in Worker, Commit(t), ~task[t].sets,
         NEW s \in Source, task[t].src = s, NEW g, NEW p,
         Told(task[t], row[s], ack[s], g, p)
  PROVE Shows(row'[s], ack'[s], g, p)
<1> DEFINE tk == task[t]
           seen == [tk.seen EXCEPT !.name = tk.name, !.conf = row[s].conf]
<1>1. tk \in Task /\ Shape(tk) /\ tk.pc = "commit" /\ row \in [Source -> Row]
      /\ ack \in [Source -> [row : Row, sec : Secrets]]
  BY DEF TypeOK, ShapeInv, Commit
<1>2. tk.op = "update"
  BY <1>1 DEF Shape
<1>3. UpdateRow(s, seen) /\ Succeed(t)
  BY DEF Commit
<1>4. /\ row[s] = ack[s].row /\ tk.seen = row[s] /\ row[s].live
      /\ \A k \in Field : Same(g[k], ack[s], p, k)
  BY <1>1 DEF Told, ToldRow, ToldSecrets, AsRead
<1>5. row'[s] = seen /\ row[s] \in Row
  BY <1>1, <1>3, <1>4 DEF UpdateRow
<1>6. ack'[s] = [ack[s] EXCEPT !.row.name = tk.name]
  BY <1>2, <1>3, Answer DEF Promised
<1>7. ack'[s].sec = ack[s].sec /\ ack'[s].row = [ack[s].row EXCEPT !.name = tk.name]
  <2>1. ack[s] \in [row : Row, sec : Secrets]
    BY <1>1
  <2> HIDE DEF Row, Secrets
  <2> QED BY <1>6, <2>1
<1>8. /\ \A r \in Row : [r EXCEPT !.name = tk.name, !.conf = r.conf]
                      = [r EXCEPT !.name = tk.name]
      /\ \A r \in Row : [r EXCEPT !.name = tk.name].live = r.live
  BY DEF Row
<1>9. seen = [row[s] EXCEPT !.name = tk.name] /\ (row[s].live => seen.live)
  <2>1. seen = [row[s] EXCEPT !.name = tk.name, !.conf = row[s].conf]
    BY <1>4
  <2> HIDE DEF seen, Row, tk
  <2> QED BY ZenonT(40), <1>5, <1>8, <2>1
<1> HIDE DEF seen
<1> QED BY <1>4, <1>5, <1>7, <1>9 DEF Shows, Same

\* A script's last stage.
LEMMA StageShows ==
  ASSUME TypeOK, ShapeInv, NEW t \in Worker, Stage(t), ~Busy(t)',
         NEW s \in Source, task[t].src = s, NEW g, NEW p,
         Told(task[t], row[s], ack[s], g, p)
  PROVE Shows(row'[s], ack'[s], g, p)
<1> DEFINE tk == task[t]
<1>1. tk \in Task /\ Shape(tk) /\ tk.pc = "stage" /\ row \in [Source -> Row]
      /\ ack \in [Source -> [row : Row, sec : Secrets]]
  BY DEF TypeOK, ShapeInv, Stage
<1>2. /\ row[s] = ack[s].row /\ tk.seen = row[s] /\ row[s].live
      /\ \A k \in Field : Same(g[k], ack[s], p, k)
  BY <1>1 DEF Told, ToldRow, ToldSecrets, AsRead
<1>3. CASE UNCHANGED <<row, ack>>
  BY <1>2, <1>3 DEF Shows
<1>4. ASSUME NEW v, AfterState(t, v)
      PROVE Shows(row'[s], ack'[s], g, p)
  <2> DEFINE saved == [[tk.seen EXCEPT !.state = v] EXCEPT !.conf = row[s].conf]
  <2>1. /\ UpdateRow(s, saved)
        /\ ack' = [ack EXCEPT ![s].row.state = v]
    BY <1>2, <1>4 DEF AfterState
  <2>2. row'[s] = saved /\ row[s] \in Row
    BY <1>1, <1>2, <2>1 DEF UpdateRow
  <2>3. ack'[s].sec = ack[s].sec /\ ack'[s].row = [ack[s].row EXCEPT !.state = v]
    <3>1. ack[s] \in [row : Row, sec : Secrets]
      BY <1>1
    <3>2. ack'[s] = [ack[s] EXCEPT !.row.state = v]
      BY <1>1, <2>1
    <3> HIDE DEF Row, Secrets
    <3> QED BY <3>1, <3>2
  <2>4. /\ \A r \in Row : [[r EXCEPT !.state = v] EXCEPT !.conf = r.conf]
                        = [r EXCEPT !.state = v]
        /\ \A r \in Row : [r EXCEPT !.state = v].live = r.live
    BY DEF Row
  <2>5. saved = [row[s] EXCEPT !.state = v] /\ (row[s].live => saved.live)
    <3>1. saved = [[row[s] EXCEPT !.state = v] EXCEPT !.conf = row[s].conf]
      BY <1>2
    <3> HIDE DEF saved, Row, tk
    <3> QED BY ZenonT(40), <2>2, <2>4, <3>1
  <2> HIDE DEF saved
  <2> QED BY <1>2, <2>2, <2>3, <2>5 DEF Shows, Same
<1> QED BY <1>3, <1>4, StageCases DEF Err

\* A call that ends leaves what the callers are told.
LEMMA EndsShow ==
  ASSUME TypeOK, ShapeInv, FileInv, NEW t \in Worker, WorkerStep(t), ~Busy(t)',
         NEW s \in Source, task[t].src = s, s \notin mixed',
         Told(task[t], row[s], ack[s], Held(s), Held(Plugin)),
         Local(task[t], Held(s), Held(Plugin))
  PROVE Shows(row'[s], ack'[s], Held(s)', Held(Plugin)')
<1>1. Returns(t) /\ UNCHANGED <<backend, data>>
  BY WorkerEnds
<1>2. Held(s)' = Held(s) /\ Held(Plugin)' = Held(Plugin)
  BY <1>1, HeldSame
<1> DEFINE g == Held(s)
           p == Held(Plugin)
<1> SUFFICES Shows(row'[s], ack'[s], g, p)
  BY <1>2
<1>3. task[t] \in Task /\ Shape(task[t]) /\ g \in Secrets
  BY HeldType, Scopes DEF TypeOK, ShapeInv
<1> HIDE DEF g, p
<1>4. Told(task[t], row[s], ack[s], g, p) /\ Local(task[t], g, p)
  BY DEF g, p
<1>5. CASE /\ Fails(t)
           /\ \/ task[t].pc \in {"read", "insert", "snapshot", "commit", "stage"}
              \/ task[t].pc = "store" /\ task[t].todo = {} /\ task[t].undo
  <2>1. row'[s] = row[s] /\ ack'[s] = ack[s]
    BY <1>5 DEF Fails, Err
  <2> QED BY <1>3, <1>4, <1>5, <2>1, FailsShows
<1>6. CASE Commit(t) /\ ~task[t].sets
  BY <1>4, <1>6, RenamedShows
<1>7. CASE Drop(t)
  <2>1. row'[s] = NoRow
    BY <1>7 DEF Drop, TypeOK
  <2>2. task[t].op = "delete" /\ Succeed(t) /\ task[t].pc = "drop"
    BY <1>3, <1>7 DEF Drop, Shape
  <2>3. ack'[s].row = NoRow
    <3>1. Promised(task[t], ack[s]) = [row |-> NoRow, sec |-> NoSecret]
      BY <2>2 DEF Promised
    <3>2. ack'[s] = Promised(task[t], ack[s])
      BY <2>2, Answer
    <3> HIDE DEF NoRow, NoSecret
    <3> QED BY <3>1, <3>2
  <2>4. \A k \in Field : g[k] = Missing
    BY <1>4, <2>2 DEF Local, Clear
  <2>5. NoRow.live = FALSE
    BY DEF NoRow
  <2> HIDE DEF NoRow
  <2>6. row'[s] = ack'[s].row /\ ~row'[s].live
    BY <2>1, <2>3, <2>5
  <2> QED BY <2>4, <2>6 DEF Shows
<1>8. CASE Stored(t) /\ Succeed(t) /\ ~task[t].undo /\ task[t].op \in {"create", "update"}
  <2>1. row'[s] = row[s] /\ task[t].pc = "store" /\ task[t].todo = {}
    BY <1>8 DEF Stored
  <2>2. ack'[s] = Promised(task[t], ack[s])
    BY <1>8, Answer
  <2> QED BY <1>3, <1>4, <1>8, <2>1, <2>2, StoredShows
<1>9. CASE Stage(t)
  BY <1>4, <1>9, StageShows
<1> QED BY <1>1, <1>5, <1>6, <1>7, <1>8, <1>9 DEF Returns

----------------------------------------------------------------------------
(***************************************************************************)
(* Every step of a worker keeps what the calls know, and what the callers  *)
(* were told of the sources on which there is no call.                     *)
(***************************************************************************)
\* What is held of a scope changes with its data only.
LEMMA HeldFrame ==
  ASSUME NEW sc, backend' = backend, data'[sc] = data[sc]
  PROVE Held(sc)' = Held(sc)
BY DEF Held, get, environment

\* No step of a worker changes the legacy scope.
LEMMA PluginHeld ==
  ASSUME TypeOK, ShapeInv, FileInv, NEW u \in Worker, WorkerStep(u)
  PROVE Held(Plugin)' = Held(Plugin)
<1>1. task[u].src \in Source /\ SecretStep(u)
  BY WorkerBusy, StepConfined DEF Confined
<1>2. backend' = backend /\ data'[Plugin] = data[Plugin]
  BY <1>1, Scopes DEF SecretStep
<1> QED BY <1>2, HeldFrame

\* A step of a worker keeps LocalInv.
LEMMA WorkerLocal ==
  ASSUME TypeOK, ShapeInv, FileInv, AloneInv, SubInv, LocalInv,
         NEW u \in Worker, WorkerStep(u)
  PROVE LocalInv'
<1> SUFFICES ASSUME NEW t \in Worker, NEW s \in Source, Busy(t)', Owns(t)',
                    task'[t].src = s
             PROVE Local(task'[t], Held(s)', Held(Plugin)')
  BY DEF LocalInv
<1>1. Held(Plugin)' = Held(Plugin)
  BY PluginHeld
<1>2. CASE t = u
  <2>1. task[u].src \in Source /\ Busy(u)
    BY WorkerBusy
  <2>2. task[u].src = s
    BY <1>2, <2>1, Going
  <2>3. Owns(u) /\ Goes(u, s)
    BY <1>2, <2>2, Going
  <2>4. Local(task[u], Held(s), Held(Plugin))
    BY <2>1, <2>2, <2>3 DEF LocalInv
  <2> QED BY <1>1, <1>2, <2>3, <2>4 DEF Goes, Keeps
<1>3. CASE t # u
  <2>1. /\ task'[t] = task[t] /\ Busy(t) /\ Owns(t) /\ backend' = backend
        /\ data'[task[t].src] = data[task[t].src]
    BY <1>3, Undisturbed
  <2>2. Held(s)' = Held(s)
    BY <2>1, HeldFrame
  <2>3. Local(task[t], Held(s), Held(Plugin))
    BY <2>1 DEF LocalInv
  <2> QED BY <1>1, <2>1, <2>2, <2>3
<1> QED BY <1>2, <1>3

\* A step of a worker keeps ToldInv.
LEMMA WorkerTold ==
  ASSUME TypeOK, ShapeInv, FileInv, AloneInv, SubInv, LocalInv, ToldInv,
         NEW u \in Worker, WorkerStep(u)
  PROVE ToldInv'
<1>1. Held(Plugin)' = Held(Plugin)
  BY PluginHeld
<1>2. task[u].src \in Source /\ Busy(u)
  BY WorkerBusy
<1>3. Moved(u) /\ RowStep(u) /\ SecretStep(u) /\ AckStep(u) /\ RestStep(u)
  BY StepConfined DEF Confined
<1>4. ASSUME NEW t \in Worker, NEW s \in Source, Busy(t)', s \notin mixed',
             task'[t].src = s
      PROVE Told(task'[t], row'[s], ack'[s], Held(s)', Held(Plugin)')
  <2>1. Owns(t)'
    BY <1>4 DEF Owns
  <2>2. CASE t = u
    <3>1. task[u].src = s
      BY <1>2, <1>4, <2>2, Going
    <3>2. Owns(u) /\ Goes(u, s) /\ s \notin mixed
      BY <1>3, <1>4, <2>1, <2>2, <3>1, Going DEF RestStep
    <3>3. Local(task[u], Held(s), Held(Plugin))
      BY <1>2, <3>1, <3>2 DEF LocalInv
    <3>4. Told(task[u], row[s], ack[s], Held(s), Held(Plugin))
      BY <1>2, <3>1, <3>2 DEF ToldInv
    <3> QED BY <1>1, <2>2, <3>2, <3>3, <3>4 DEF Goes, Keeps
  <2>3. CASE t # u
    <3>1. /\ task'[t] = task[t] /\ Busy(t) /\ backend' = backend
          /\ data'[task[t].src] = data[task[t].src]
          /\ row'[task[t].src] = row[task[t].src]
          /\ ack'[task[t].src] = ack[task[t].src]
      BY <1>4, <2>1, <2>3, Undisturbed
    <3>2. Held(s)' = Held(s)
      BY <1>4, <3>1, HeldFrame
    <3>3. s \notin mixed
      BY <1>3, <1>4 DEF RestStep
    <3>4. Told(task[t], row[s], ack[s], Held(s), Held(Plugin))
      BY <1>4, <3>1, <3>3 DEF ToldInv
    <3> QED BY <1>1, <1>4, <3>1, <3>2, <3>4
  <2> QED BY <2>2, <2>3
<1>5. ASSUME NEW s \in Source, Settled(s)'
      PROVE Shows(row'[s], ack'[s], Held(s)', Held(Plugin)')
  <2>1. s \notin mixed' /\ s \notin mixed /\ \A t \in Worker : task'[t].src # s
    BY <1>3, <1>5 DEF Settled, RestStep
  <2>2. CASE task[u].src = s
    <3>1. ~Busy(u)'
      BY <2>1, <2>2, Going
    <3>2. Owns(u)
      BY <2>1, <2>2 DEF Owns
    <3>3. Local(task[u], Held(s), Held(Plugin))
      BY <1>2, <2>2, <3>2 DEF LocalInv
    <3>4. Told(task[u], row[s], ack[s], Held(s), Held(Plugin))
      BY <1>2, <2>1, <2>2 DEF ToldInv
    <3> QED BY <2>1, <2>2, <3>1, <3>3, <3>4, EndsShow
  <2>3. CASE task[u].src # s
    <3>1. /\ row'[s] = row[s] /\ ack'[s] = ack[s] /\ backend' = backend
          /\ data'[s] = data[s]
      BY <1>3, <2>3, Scopes DEF RowStep, AckStep, SecretStep
    <3>2. Held(s)' = Held(s)
      BY <3>1, HeldFrame
    <3>3. \A t \in Worker : task[t].src # s
      BY <1>3, <2>1, <2>3 DEF Moved
    <3>4. Shows(row[s], ack[s], Held(s), Held(Plugin))
      BY <2>1, <3>3 DEF ToldInv, Settled
    <3> QED BY <1>1, <3>1, <3>2, <3>4
  <2> QED BY <2>2, <2>3
<1> QED BY <1>4, <1>5 DEF ToldInv

\* A step of a worker keeps BootingInv.
LEMMA WorkerBooting ==
  ASSUME TypeOK, ShapeInv, FileInv, AloneInv, SubInv, BootingInv,
         NEW u \in Worker, WorkerStep(u)
  PROVE BootingInv'
<1>1. task[u].src \in Source /\ Busy(u)
  BY WorkerBusy
<1>2. Moved(u) /\ RowStep(u) /\ RestStep(u)
  BY StepConfined DEF Confined
<1> SUFFICES ASSUME phase' = "boot", NEW t \in Worker, NEW s \in Source,
                    Busy(t)', task'[t].src = s
             PROVE /\ Booting(task'[t], row'[s])
                   /\ ~task'[t].undo => \A o \in Source \ {s} : ~Named(o)'
  BY DEF BootingInv
<1>3. phase = "boot"
  BY <1>2 DEF RestStep
<1>4. t = u
  <2> SUFFICES ASSUME t # u PROVE FALSE
    OBVIOUS
  <2>1. Busy(t)
    BY <1>2 DEF Moved, Busy
  <2> QED BY <1>1, <1>3, <2>1 DEF AloneInv
<1>5. task[u].src = s
  BY <1>1, <1>4, Going
<1>6. /\ task[u].undo => task'[u].undo
      /\ Booting(task[u], row[s]) => Booting(task'[u], row'[s])
  BY <1>4, <1>5, Going
<1>7. /\ Booting(task[u], row[s])
      /\ ~task[u].undo => \A o \in Source \ {s} : ~Named(o)
  BY <1>1, <1>3, <1>5 DEF BootingInv
<1>8. \A o \in Source \ {s} : row'[o] = row[o]
  BY <1>2, <1>5 DEF RowStep
<1>9. \A o \in Source \ {s} : ~Named(o) => ~Named(o)'
  BY <1>8 DEF Named
<1> QED BY <1>4, <1>6, <1>7, <1>9

\* The steps of a call that has only begun.
LEMMA EarlySteps ==
  ASSUME TypeOK, ShapeInv, FileInv, NEW t \in Worker, WorkerStep(t),
         task[t].pc \in {"read", "insert"}
  PROVE ReadRow(t) \/ Insert(t) \/ DbFails(t)
<1>1. ~\E op \in task[t].todo : StoreStep(t, op)
  BY StoreStepData
<1> QED BY <1>1 DEF WorkerStep, Snapshot, Configure, Commit, Drop, Revert,
  Unmake, Stored, MigrateKey, Migrated, SecretSet, Stage

\* A step of a worker keeps BornInv.
LEMMA WorkerBorn ==
  ASSUME TypeOK, ShapeInv, FileInv, BornInv, NEW u \in Worker, WorkerStep(u)
  PROVE BornInv'
<1>1. task[u].src \in Source /\ Busy(u)
  BY WorkerBusy
<1>2. Moved(u) /\ RowStep(u) /\ SecretStep(u) /\ AckStep(u) /\ RestStep(u)
  BY StepConfined DEF Confined
<1>3. born \subseteq born'
  BY <1>2 DEF RestStep
<1> DEFINE early == task[u].pc \in {"read", "insert"}
<1>4. task[u].src \in born \/ early
  BY <1>1 DEF BornInv, Busy
<1>5. ASSUME early
      PROVE \/ task[u].src \in born'
            \/ /\ row' = row /\ ack' = ack /\ UNCHANGED <<backend, data>>
               /\ task'[u] = Idle
  <2>1. CASE Insert(u)
    BY <2>1 DEF Insert
  <2>2. CASE DbFails(u)
    <3>1. Err(u) /\ row' = row /\ UNCHANGED <<backend, data>>
      BY <1>5, <2>2 DEF DbFails, secrets
    <3> QED BY <3>1, LeavesTo DEF Err
  <2>3. CASE ReadRow(u)
    <3>1. CASE row[task[u].src].live
      <4>1. ~NoRow.live
        BY DEF NoRow
      <4>2. task[u].src \in born
        BY <1>1, <3>1, <4>1 DEF BornInv
      <4> QED BY <1>3, <4>2
    <3>2. CASE ~row[task[u].src].live
      <4>1. Err(u) /\ row' = row /\ UNCHANGED <<backend, data>>
        BY <2>3, <3>2 DEF ReadRow, secrets
      <4> QED BY <4>1, LeavesTo DEF Err
    <3> QED BY <3>1, <3>2
  <2> QED BY <1>5, <2>1, <2>2, <2>3, EarlySteps
<1>6. ASSUME NEW s \in Source, s \notin born'
      PROVE /\ row'[s] = NoRow /\ ack'[s] = [row |-> NoRow, sec |-> NoSecret]
            /\ \A k \in Field : Held(s)'[k] = Missing
  <2>1. /\ row'[s] = row[s] /\ ack'[s] = ack[s]
        /\ backend' = backend /\ data'[s] = data[s]
    <3>1. CASE task[u].src = s
      BY <1>3, <1>4, <1>5, <1>6, <3>1
    <3>2. CASE task[u].src # s
      BY <1>2, <3>2, Scopes DEF RowStep, AckStep, SecretStep
    <3> QED BY <3>1, <3>2
  <2>2. Held(s)' = Held(s)
    BY <2>1, HeldFrame
  <2> QED BY <1>3, <1>6, <2>1, <2>2 DEF BornInv
<1>7. ASSUME NEW t \in Worker, task'[t].pc \notin {"idle", "read", "insert"}
      PROVE task'[t].src \in born'
  <2>1. CASE t = u
    <3>1. task'[u] # Idle
      BY <1>7, <2>1, IdleFields
    <3>2. task'[u].src = task[u].src
      BY <1>2, <3>1 DEF Moved
    <3> QED BY <1>3, <1>4, <1>5, <2>1, <3>1, <3>2
  <2>2. CASE t # u
    BY <1>2, <1>3, <1>7, <2>2 DEF Moved, BornInv
  <2> QED BY <2>1, <2>2
<1> QED BY <1>3, <1>6, <1>7 DEF BornInv

----------------------------------------------------------------------------
(***************************************************************************)
(* The other steps, and the beginning.                                     *)
(***************************************************************************)
\* A call that begins finds its source as the callers were told, or marks it mixed.
LEMMA BeginWhole ==
  ASSUME TypeOK, ShapeInv, FileInv, AloneInv, BornInv, LocalInv, ToldInv,
         NEW t \in Worker, NEW tk \in Task, Begun(t, tk)
  PROVE BornInv' /\ LocalInv' /\ ToldInv' /\ BootingInv'
<1>1. /\ task'[t] = tk /\ task[t] = Idle
      /\ \A u \in Worker \ {t} : task'[u] = task[u]
  BY BeginTypes
<1>2. /\ Fresh(tk) /\ (tk.op = "create" => Unborn(tk.src))
      /\ phase = "boot" => Applies(tk) /\ \A u \in Worker : task[u] = Idle
      /\ backend' = backend /\ data' = data /\ row' = row /\ ack' = ack
      /\ born' = born /\ phase' = phase /\ Overlap(tk.src)
  BY DEF Begun, Begin, secrets
<1>3. \A sc : Held(sc)' = Held(sc)
  BY <1>2, HeldSame
<1>4. /\ tk.src \in Source /\ tk.todo = {} /\ ~tk.undo
      /\ \/ tk.op = "create" /\ tk.pc = "insert"
         \/ tk.op \in {"update", "delete", "run"} /\ tk.pc = "read"
      /\ tk.op = "run" => tk.ver # Missing
  BY <1>2 DEF Fresh
<1>5. tk.op = "create" =>
        /\ row[tk.src] = NoRow
        /\ ack[tk.src] = [row |-> NoRow, sec |-> NoSecret]
        /\ \A k \in Field : Held(tk.src)[k] = Missing
  BY <1>2, <1>4 DEF BornInv, Unborn
<1>6. /\ mixed \subseteq mixed'
      /\ \A s \in Source : Settled(s)' => Settled(s)
      /\ tk.src \notin mixed' => Settled(tk.src)
  <2>1. /\ mixed \subseteq mixed'
        /\ tk.src \notin mixed' => \A u \in Worker : task[u].src # tk.src
    BY <1>2 DEF Overlap
  <2>2. ASSUME NEW s \in Source, Settled(s)' PROVE Settled(s)
    <3>1. s \notin mixed /\ \A u \in Worker : task'[u].src # s
      BY <2>1, <2>2 DEF Settled
    <3>2. task[t].src # s
      BY <1>1, IdleFields, Scopes
    <3> QED BY <1>1, <3>1, <3>2 DEF Settled
  <2> QED BY <2>1, <2>2 DEF Settled
<1>7. BornInv'
  <2>1. \A u \in Worker : task'[u].pc \notin {"idle", "read", "insert"} =>
          task'[u].src \in born'
    BY <1>1, <1>2, <1>4 DEF BornInv
  <2> QED BY <1>2, <1>3, <2>1 DEF BornInv
<1>8. LocalInv'
  <2>1. Local(tk, Held(tk.src), Held(Plugin))
    BY <1>4, <1>5 DEF Local, Writing, Clear, Kept
  <2>2. ASSUME NEW u \in Worker, NEW s \in Source, u # t, Busy(u)', Owns(u)',
               task'[u].src = s
        PROVE Local(task[u], Held(s), Held(Plugin))
    <3>1. task'[u] = task[u] /\ Busy(u) /\ Owns(u) /\ task[u].src = s
      BY <1>1, <1>2, <1>6, <2>2 DEF Busy, Owns
    <3> QED BY <3>1 DEF LocalInv
  <2> QED BY <1>1, <1>3, <2>1, <2>2 DEF LocalInv
<1>9. ToldInv'
  <2>1. ASSUME tk.src \notin mixed'
        PROVE Told(tk, row[tk.src], ack[tk.src], Held(tk.src), Held(Plugin))
    <3> DEFINE r == row[tk.src]
               a == ack[tk.src]
               g == Held(tk.src)
               p == Held(Plugin)
    <3>1. Shows(r, a, g, p)
      BY <1>4, <1>6, <2>1 DEF ToldInv
    <3>2. tk.op = "create" => r = NoRow /\ a.row = NoRow /\ a.sec = NoSecret
      <4> HIDE DEF NoRow, NoSecret
      <4> QED BY <1>5
    <3> HIDE DEF r, a, g, p
    <3>3. ToldRow(tk, r, a)
      BY <1>4, <3>2 DEF ToldRow, AsRead, Rewritten
    <3>4. ToldSecrets(tk, r, a, g, p)
      BY <1>4, <3>1 DEF ToldSecrets, Remembers
    <3>5. ToldScript(tk, a, g, p)
      BY <1>4 DEF ToldScript
    <3>6. Told(tk, r, a, g, p)
      BY <3>3, <3>4, <3>5 DEF Told
    <3> QED BY <3>6 DEF r, a, g, p
  <2>2. ASSUME NEW u \in Worker, NEW s \in Source, u # t, Busy(u)',
               s \notin mixed', task'[u].src = s
        PROVE Told(task[u], row[s], ack[s], Held(s), Held(Plugin))
    <3>1. Busy(u) /\ s \notin mixed /\ task[u].src = s
      BY <1>1, <1>6, <2>2 DEF Busy
    <3> QED BY <3>1 DEF ToldInv
  <2>3. \A s \in Source : Settled(s)' =>
          Shows(row[s], ack[s], Held(s), Held(Plugin))
    BY <1>6 DEF ToldInv
  <2> QED BY <1>1, <1>2, <1>3, <2>1, <2>2, <2>3 DEF ToldInv
<1>10. BootingInv'
  <2> SUFFICES ASSUME phase' = "boot", NEW u \in Worker, NEW s \in Source,
                      Busy(u)', task'[u].src = s
               PROVE Booting(tk, row[s]) /\ u = t /\ s = tk.src
                     /\ \A o \in Source \ {s} : ~Named(o)'
    BY <1>1, <1>2 DEF BootingInv
  <2>1. u = t
    <3> HIDE DEF Idle
    <3> QED BY <1>1, <1>2, IdleFields DEF Busy
  <2>2. s = tk.src /\ Applies(tk)
    BY <1>1, <1>2, <2>1
  <2>3. Booting(tk, row[s])
    BY <1>4, <2>2 DEF Booting, Applies, Named
  <2>4. \A o \in Source \ {s} : ~Named(o)'
    BY <1>2, <2>2 DEF Applies, Named
  <2> QED BY <2>1, <2>2, <2>3, <2>4
<1> QED BY <1>7, <1>8, <1>9, <1>10

\* A crash leaves the sources no call was on as they are, and marks the others.
LEMMA CrashWhole ==
  ASSUME TypeOK, ShapeInv, FileInv, BornInv, ToldInv, Crash
  PROVE BornInv' /\ LocalInv' /\ ToldInv' /\ BootingInv'
<1>1. /\ backend' = backend /\ data' = data /\ row' = row /\ ack' = ack
      /\ born' = born /\ phase' = "down" /\ task' = [t \in Worker |-> Idle]
      /\ mixed' = mixed \cup {task[t].src : t \in {u \in Worker : task[u] # Idle}}
  BY DEF Crash
<1>2. \A sc : Held(sc)' = Held(sc)
  BY <1>1, HeldSame
<1>3. \A t \in Worker : task'[t].pc = "idle"
  <2> HIDE DEF Idle
  <2> QED BY <1>1, IdleFields
<1>4. ASSUME NEW s \in Source, Settled(s)' PROVE Settled(s)
  <2>1. s \notin mixed' /\ s \notin mixed
    BY <1>1, <1>4 DEF Settled
  <2>2. ASSUME NEW t \in Worker PROVE task[t].src # s
    <3>1. CASE task[t] # Idle
      BY <1>1, <2>1, <3>1
    <3>2. CASE task[t] = Idle
      BY <3>2, IdleFields, Scopes
    <3> QED BY <3>1, <3>2
  <2> QED BY <2>1, <2>2 DEF Settled
<1>5. LocalInv' /\ BootingInv'
  BY <1>3 DEF LocalInv, BootingInv, Busy
<1>6. ToldInv'
  <2>1. \A s \in Source : Settled(s)' =>
          Shows(row[s], ack[s], Held(s), Held(Plugin))
    BY <1>4 DEF ToldInv
  <2> QED BY <1>1, <1>2, <1>3, <2>1 DEF ToldInv, Busy
<1>7. BornInv'
  BY <1>1, <1>2, <1>3 DEF BornInv
<1> QED BY <1>5, <1>6, <1>7

\* The environment has secrets of the sources there were at the beginning only.
LEMMA Unheard ==
  ASSUME NEW s \in Source, s \notin Existing
  PROVE \A k \in Field : environment[s][k] = Missing
BY Scopes DEF environment

\* A start over a volatile store finds the secrets that the callers are told
\* of, the environment's or none.
LEMMA RestartHolds ==
  ASSUME TypeOK, Restart, NEW s \in Source
  PROVE /\ ack'[s].row = ack[s].row
        /\ IF Volatile
           THEN /\ \A k \in Field : Held(s)'[k] = ack'[s].sec[k]
                /\ ack'[s].sec = IF backend = "env" THEN environment[s] ELSE NoSecret
           ELSE ack'[s] = ack[s] /\ Held(s)' = Held(s)
                /\ Held(Plugin)' = Held(Plugin)
<1>1. backend' = backend /\ data' = Start /\ s \in Scope
  BY Scopes DEF Restart
<1>2. CASE Volatile
  <2>1. ack[s] \in [row : Row, sec : Secrets]
    BY DEF TypeOK
  <2>2. ack'[s] = [ack[s] EXCEPT !.sec =
                     IF backend = "env" THEN environment[s] ELSE NoSecret]
    BY <1>2 DEF Restart
  <2>3. /\ ack'[s].row = ack[s].row
        /\ ack'[s].sec = IF backend = "env" THEN environment[s] ELSE NoSecret
    <3> HIDE DEF environment, NoSecret, Row, Secrets
    <3> QED BY <2>1, <2>2
  <2>4. ASSUME NEW k \in Field PROVE Held(s)'[k] = ack'[s].sec[k]
    <3>1. Held(s)'[k] = get(s, k)'
      BY DEF Held
    <3>2. CASE backend = "env"
      <4>1. data'[s][k] = Unset
        BY <1>1, <3>2 DEF Start
      <4>2. get(s, k)' = environment'[s][k]
        BY <1>1, <3>2, <4>1 DEF get
      <4>3. environment' = environment
        BY DEF environment
      <4> QED BY <2>3, <3>1, <3>2, <4>2, <4>3
    <3>3. CASE backend = "memory"
      <4>1. data'[s][k] = NoSecret[k]
        BY <1>1, <3>3 DEF Start
      <4> QED BY <1>1, <2>3, <3>1, <3>3, <4>1 DEF get
    <3> QED BY <1>2, <3>2, <3>3 DEF Volatile
  <2> QED BY <1>2, <2>3, <2>4
<1>3. CASE ~Volatile
  <2>1. data' = data /\ ack' = ack
    BY <1>1, <1>3 DEF Start, Volatile, Restart
  <2> QED BY <1>1, <1>3, <2>1, HeldSame
<1> QED BY <1>2, <1>3

\* A start keeps what is known, over a volatile store too.
LEMMA RestartWhole ==
  ASSUME TypeOK, ShapeInv, FileInv, AloneInv, BornInv, ToldInv, Restart
  PROVE BornInv' /\ LocalInv' /\ ToldInv' /\ BootingInv'
<1>1. row' = row /\ task' = task /\ mixed' = mixed /\ born' = born
      /\ phase = "down"
  BY DEF Restart
<1>2. \A t \in Worker : ~Busy(t)'
  BY <1>1 DEF AloneInv, Busy
<1>3. LocalInv' /\ BootingInv'
  BY <1>2 DEF LocalInv, BootingInv
<1>4. ASSUME NEW s \in Source, Settled(s)'
      PROVE Shows(row'[s], ack'[s], Held(s)', Held(Plugin)')
  <2>1. Shows(row[s], ack[s], Held(s), Held(Plugin))
    BY <1>1, <1>4 DEF Settled, ToldInv
  <2>2. CASE Volatile
    BY <1>1, <2>1, <2>2, RestartHolds DEF Shows, Same
  <2>3. CASE ~Volatile
    BY <1>1, <2>1, <2>3, RestartHolds
  <2> QED BY <2>2, <2>3
<1>5. ASSUME NEW s \in Source, s \notin born
      PROVE /\ row'[s] = NoRow /\ ack'[s] = [row |-> NoRow, sec |-> NoSecret]
            /\ \A k \in Field : Held(s)'[k] = Missing
  <2>1. /\ row[s] = NoRow /\ ack[s] = [row |-> NoRow, sec |-> NoSecret]
        /\ \A k \in Field : Held(s)[k] = Missing
        /\ s \notin Existing
    BY <1>5 DEF BornInv
  <2>2. CASE Volatile
    <3>1. environment[s] = NoSecret
      BY <2>1, Unheard, Scopes DEF environment, NoSecret
    <3>2. ack'[s].sec = NoSecret /\ ack'[s].row = ack[s].row
          /\ \A k \in Field : Held(s)'[k] = NoSecret[k]
      <4> HIDE DEF NoSecret
      <4> QED BY <2>2, <3>1, RestartHolds
    <3>3. ack'[s] = [row |-> ack'[s].row, sec |-> ack'[s].sec]
      <4>1. ack'[s] \in [row : Row, sec : Secrets]
        BY RestartTypes DEF TypeOK
      <4> HIDE DEF Row, Secrets
      <4> QED BY <4>1
    <3>4. ack[s].row = NoRow
      <4> HIDE DEF NoRow, NoSecret
      <4> QED BY <2>1
    <3>5. ack'[s] = [row |-> NoRow, sec |-> NoSecret]
      <4> HIDE DEF NoRow, NoSecret
      <4> QED BY <3>2, <3>3, <3>4
    <3>6. \A k \in Field : NoSecret[k] = Missing
      BY DEF NoSecret
    <3> HIDE DEF NoRow, NoSecret
    <3> QED BY <1>1, <2>1, <3>2, <3>5, <3>6
  <2>3. CASE ~Volatile
    <3> HIDE DEF NoRow, NoSecret
    <3> QED BY <1>1, <2>1, <2>3, RestartHolds
  <2> QED BY <2>2, <2>3
<1>6. BornInv'
  <2>1. \A t \in Worker : task'[t].pc = "idle"
    BY <1>2 DEF Busy
  <2> QED BY <1>1, <1>5, <2>1 DEF BornInv
<1>7. ToldInv'
  BY <1>2, <1>4 DEF ToldInv
<1> QED BY <1>3, <1>6, <1>7

\* A start that is refused changes nothing.
LEMMA RefusesWhole ==
  ASSUME TypeOK, ShapeInv, FileInv, BornInv, ToldInv, BootRefuses
  PROVE BornInv' /\ LocalInv' /\ ToldInv' /\ BootingInv'
<1>1. /\ backend' = backend /\ data' = data /\ row' = row /\ ack' = ack
      /\ born' = born /\ phase' = "down" /\ task' = task /\ mixed' = mixed
      /\ \A t \in Worker : task[t] = Idle
  BY DEF BootRefuses, secrets
<1>2. \A sc : Held(sc)' = Held(sc)
  BY <1>1, HeldSame
<1>3. \A t \in Worker : task'[t].pc = "idle"
  <2> HIDE DEF Idle
  <2> QED BY <1>1, IdleFields
<1>4. LocalInv' /\ BootingInv'
  BY <1>3 DEF LocalInv, BootingInv, Busy
<1>5. ToldInv'
  <2>1. \A s \in Source : Settled(s)' => Settled(s)
    BY <1>1 DEF Settled
  <2> QED BY <1>1, <1>2, <1>3, <2>1 DEF ToldInv, Busy
<1>6. BornInv'
  BY <1>1, <1>2, <1>3 DEF BornInv
<1> QED BY <1>4, <1>5, <1>6

\* What is known of the calls is inductive.
LEMMA NextWhole ==
  ASSUME TypeOK, ShapeInv, FileInv, AloneInv, SubInv,
         BornInv, LocalInv, ToldInv, BootingInv, [Next]_vars
  PROVE BornInv' /\ LocalInv' /\ ToldInv' /\ BootingInv'
<1>1. CASE UNCHANGED vars
  <2>1. /\ backend' = backend /\ data' = data /\ row' = row /\ ack' = ack
        /\ born' = born /\ phase' = phase /\ task' = task /\ mixed' = mixed
    BY <1>1 DEF vars
  <2>2. \A sc : Held(sc)' = Held(sc)
    BY <2>1, HeldSame
  <2> QED BY <2>1, <2>2 DEF BornInv, LocalInv, ToldInv, BootingInv, Busy, Owns,
                            Settled, Named
<1>2. CASE CallBegins
  BY <1>2, CallsBegin, BeginWhole
<1>3. CASE BootRefuses
  BY <1>3, RefusesWhole
<1>4. CASE \E t \in Worker : WorkerStep(t)
  BY <1>4, WorkerBorn, WorkerLocal, WorkerTold, WorkerBooting
<1>5. CASE Crash
  BY <1>5, CrashWhole
<1>6. CASE Restart
  BY <1>6, RestartWhole
<1> QED BY <1>1, <1>2, <1>3, <1>4, <1>5, <1>6, NextIs

\* And true at the beginning.
LEMMA InitWhole ==
  ASSUME Init
  PROVE BornInv /\ LocalInv /\ ToldInv /\ BootingInv
<1>1. /\ born = Existing /\ task = [t \in Worker |-> Idle]
      /\ ack = [s \in Source |-> [row |-> row[s], sec |-> Held(s)]]
  BY DEF Init, Held
<1>2. \A t \in Worker : task[t].pc = "idle"
  <2> HIDE DEF Idle
  <2> QED BY <1>1, IdleFields
<1>3. LocalInv /\ BootingInv
  BY <1>2 DEF LocalInv, BootingInv, Busy
<1>4. ToldInv
  BY <1>1, <1>2 DEF ToldInv, Busy, Shows, Same
<1>5. ASSUME NEW s \in Source, s \notin Existing
      PROVE /\ row[s] = NoRow /\ ack[s] = [row |-> NoRow, sec |-> NoSecret]
            /\ \A k \in Field : Held(s)[k] = Missing
  <2>1. row[s] = NoRow
    <3>1. row[s] \in {NoRow} \cup [live: {TRUE}, name: Name, conf: {Old}, state: {0}]
          /\ ~row[s].live
      BY <1>5 DEF Init
    <3> QED BY <3>1
  <2>2. ASSUME NEW k \in Field PROVE get(s, k) = Missing
    <3>1. s \in Scope /\ environment[s][k] = Missing
      BY <1>5, Unheard, Scopes
    <3>2. CASE backend = "memory"
      BY <3>1, <3>2 DEF Init, get, NoSecret
    <3>3. CASE backend = "env"
      <4>1. data[s][k] = Unset
        BY <3>1, <3>3 DEF Init
      <4> QED BY <3>1, <3>3, <4>1 DEF get
    <3>4. CASE backend \notin {"memory", "env"}
      <4>1. data = environment
        BY <3>4 DEF Init
      <4> QED BY <3>1, <3>4, <4>1 DEF get
    <3> QED BY <3>2, <3>3, <3>4
  <2>3. Held(s) = NoSecret
    BY <2>2 DEF Held, NoSecret
  <2>4. ack[s] = [row |-> NoRow, sec |-> NoSecret]
    <3> HIDE DEF NoRow, NoSecret
    <3> QED BY <1>1, <2>1, <2>3
  <2> QED BY <2>1, <2>2, <2>4 DEF Held
<1>6. BornInv
  BY <1>1, <1>2, <1>5 DEF BornInv
<1> QED BY <1>3, <1>4, <1>6

----------------------------------------------------------------------------
(***************************************************************************)
(* What the callers are told is true, and so is a start.                   *)
(***************************************************************************)
\* All that is known of the calls, and inductive.
CallsInv ==
  /\ TypeOK /\ ShapeInv /\ FileInv /\ AloneInv
  /\ SubInv /\ IndexInv /\ BornInv /\ LocalInv /\ ToldInv /\ BootingInv

\* What the callers are told of a source that no call is on is what the property
\* says it is.
LEMMA WholeFollows ==
  ASSUME ToldInv PROVE CallsAreWhole
<1> SUFFICES ASSUME NEW s \in Source, Settled(s)
             PROVE /\ row[s] = ack[s].row
                   /\ \A k \in Field :
                        IF row[s].live
                        THEN Effective(s, k) = IF ack[s].sec[k] # Missing
                                               THEN ack[s].sec[k]
                                               ELSE get(Plugin, k)
                        ELSE get(s, k) \in {Missing, ack[s].sec[k]}
  BY DEF CallsAreWhole
<1>1. Shows(row[s], ack[s], Held(s), Held(Plugin))
  BY DEF ToldInv
<1>2. \A k \in Field : Held(s)[k] = get(s, k) /\ Held(Plugin)[k] = get(Plugin, k)
  BY DEF Held
<1> HIDE DEF get
<1> QED BY <1>1, <1>2 DEF Shows, Same, Or, Effective

\* A start begins to serve with the step that ends the call on its file.
LEMMA ServesLast ==
  ASSUME CallsInv, Next, phase = "boot", phase' = "serving"
  PROVE \E t \in Worker :
          /\ WorkerStep(t) /\ Stored(t) /\ Succeed(t) /\ ~task[t].undo
          /\ Busy(t) /\ task[t].src \in Source /\ Booting(task[t], row[task[t].src])
          /\ UNCHANGED <<backend, data>>
<1> USE DEF CallsInv
<1>1. PICK t \in Worker : WorkerStep(t)
  <2>1. CASE CallBegins
    BY <2>1, CallsBegin DEF Begun, Begin
  <2> QED BY <2>1, NextIs DEF BootRefuses, Crash, Restart
<1>2. Busy(t) /\ task[t].src \in Source
  BY <1>1, WorkerBusy
<1>3. RestStep(t)
  BY <1>1, StepConfined DEF Confined
<1>4. ~Busy(t)'
  BY <1>3, IdleFields DEF RestStep, Busy
<1>5. Booting(task[t], row[task[t].src])
  BY <1>2 DEF BootingInv
<1>6. ~Err(t)
  BY DEF Err, Leave
<1>7. Returns(t) /\ UNCHANGED <<backend, data>>
  BY <1>1, <1>4, <1>6, WorkerEnds
<1>8. task[t] \in Task /\ Shape(task[t])
  BY DEF TypeOK, ShapeInv
<1>9. task[t].sets /\ task[t].op \in {"create", "update"}
  BY <1>5 DEF Booting
<1>10. ~Drop(t)
  BY <1>8, <1>9 DEF Drop, Shape
<1>11. ~Stage(t)
  BY <1>8, <1>9 DEF Stage, Shape
<1>12. Stored(t) /\ Succeed(t) /\ ~task[t].undo
  BY <1>6, <1>7, <1>9, <1>10, <1>11 DEF Returns, Fails
<1> QED BY <1>1, <1>2, <1>5, <1>7, <1>12

\* By then the call has written all of the file.
LEMMA BootEnds ==
  ASSUME CallsInv, Next, phase = "boot", phase' = "serving"
  PROVE Converged'
<1>1. PICK t \in Worker :
        /\ WorkerStep(t) /\ Stored(t) /\ Succeed(t) /\ ~task[t].undo
        /\ Busy(t) /\ task[t].src \in Source /\ Booting(task[t], row[task[t].src])
        /\ UNCHANGED <<backend, data>>
  BY ServesLast
<1> DEFINE tk == task[t]
<1>0. PICK s \in Source : s = task[t].src
  BY <1>1
<1>2. tk.pc = "store" /\ tk.todo = {} /\ row' = row
  BY <1>1 DEF Stored
<1>3. \A k \in Field : Held(s)[k] = Target(tk, k)
  <2>1. Local(tk, Held(s), Held(Plugin))
    BY <1>1, <1>0 DEF CallsInv, LocalInv, Owns
  <2>2. tk.op # "run"
    BY <1>1 DEF Booting
  <2> QED BY <1>2, <2>1, <2>2 DEF Local, Writing
<1>4. row[s].live /\ row[s].name = FileName /\ row[s].conf = FromFile
  BY <1>1, <1>0, <1>2 DEF Booting
<1>5. \A o \in Source \ {s} : ~Named(o)
  BY <1>1, <1>0 DEF CallsInv, BootingInv
<1>6. {o \in Source : row'[o].live /\ row'[o].name = FileName} = {s}
  BY <1>1, <1>2, <1>4, <1>5 DEF Named
<1>7. ASSUME NEW k \in Field
      PROVE Effective(s, k)' = IF FileAsk[k] = "new" THEN FromFile
                               ELSE get(Plugin, k)'
  <2>1. Held(s)[k] = IF FileAsk[k] = "new" THEN FromFile ELSE Missing
    <3>1. FileAsk[k] # "keep" /\ tk.op \in {"create", "update"} /\ ~tk.undo
          /\ tk.ask = FileAsk /\ tk.ver = FromFile
      BY <1>1, Asked DEF Booting
    <3> QED BY <1>3, <3>1 DEF Target
  <2>2. get(s, k)' = Held(s)[k]
    <3>1. get(s, k)' = get(s, k)
      BY <1>1, GetSame
    <3> QED BY <3>1 DEF Held
  <2>3. FromFile # Missing
    BY Values
  <2>4. Effective(s, k)' = IF get(s, k)' # Missing THEN get(s, k)'
                           ELSE get(Plugin, k)'
    BY DEF Effective, Missing
  <2> HIDE DEF get
  <2> QED BY <2>1, <2>2, <2>3, <2>4 DEF Missing
<1>8. row'[s].conf = FromFile /\ s \in Source
  BY <1>1, <1>2, <1>4
<1> QED BY <1>6, <1>7, <1>8 DEF Converged

\* CallsInv is inductive.
LEMMA NextCalls ==
  ASSUME CallsInv, [Next]_vars PROVE CallsInv'
BY NextTypes, NextAlone, NextIndex, NextWhole DEF CallsInv

\* At the beginning there are no calls, and the callers were told of nothing else.
LEMMA InitCalls ==
  ASSUME Init PROVE CallsInv
BY InitTypes, InitAlone, InitIndex, InitWhole DEF CallsInv

\* A call on a source is whole, whatever failed once on its way and whichever
\* secret backend is used: after it returned the row, the configuration and the
\* secrets are those of the last call that reported success, and a deleted
\* source has left no secret (create_source, update_source and delete_source of
\* source_service.rs, and the script runs that migrate and set secrets).
THEOREM CallsAreWholeHolds == Spec => []CallsAreWhole
<1>1. Init => CallsInv
  BY InitCalls
<1>2. CallsInv /\ [Next]_vars => CallsInv'
  BY NextCalls
<1>3. CallsInv => CallsAreWhole
  BY WholeFollows DEF CallsInv
<1> QED BY <1>1, <1>2, <1>3, PTL DEF Spec

\* A start that gets as far as serving has made the database what the
\* configuration file says, whatever was left behind: one source of that name,
\* with the file's configuration and secrets (apply_sources of the headless
\* start).
THEOREM BootConvergesHolds == Spec => BootConverges
<1> DEFINE Ends == phase = "boot" /\ phase' = "serving" => Converged'
<1>1. Init => CallsInv
  BY InitCalls
<1>2. CallsInv /\ [Next]_vars => CallsInv' /\ [Ends]_vars
  BY NextCalls, BootEnds
<1> HIDE DEF Ends
<1>3. Spec => [][Ends]_vars
  BY <1>1, <1>2, PTL DEF Spec
<1> QED BY <1>3 DEF BootConverges, Ends
=============================================================================
