--------------------------- MODULE PluginInstall ---------------------------
(***************************************************************************)
(* Installing, upgrading and deleting one plugin: PluginInstallService     *)
(* (crates/app-core/src/plugin_install.rs), delete_plugin_handler          *)
(* (crates/app-http-server/src/handlers/plugins.rs) and the creation and   *)
(* deletion of the plugin's sources (source_service/ops.rs), which need    *)
(* the plugin's row and directory.                                         *)
(*                                                                         *)
(* A step is one SQL statement or transaction or one file-system call.     *)
(* remove_dir_all may fail half-way and leave a directory that is not      *)
(* whole; the copy into the staging directory is one step, since nobody    *)
(* else knows its name.                                                    *)
(***************************************************************************)
EXTENDS Naturals, FiniteSets

CONSTANTS
  Worker,     \* concurrent requests
  Version,    \* versions of the plugin that are uploaded
  Id,         \* row ids; a timestamp, so one is never used twice
  Source,     \* source ids
  None,       \* no row, no directory
  Scenarios   \* the circumstances considered: a set of Scenario records

(***************************************************************************)
(* Which operations requests perform, whether only one request is served   *)
(* at a time, how many calls of the behaviour may fail, and whether the    *)
(* process may die.                                                        *)
(***************************************************************************)
OpKinds == {"install", "delete", "source"}
Scenario == [ops : SUBSET OpKinds, solo : BOOLEAN, maxFaults : 0..2,
             crashes : BOOLEAN]

ASSUME WorkerAssumption == IsFiniteSet(Worker)
ASSUME NoneAssumption == None \notin [ver : Version, id : Id]
                         /\ None \notin [ver : Version, whole : BOOLEAN]
ASSUME ScenariosAssumption == Scenarios \subseteq Scenario

VARIABLES
  env,       \* the scenario of this behaviour
  row,       \* plugins: the plugin's row, or None
  target,    \* plugins_dir/<plugin_id>
  temp,      \* per worker: plugins_dir/<plugin_id>.tmp.<nonce>
  backup,    \* per worker: plugins_dir/<plugin_id>.backup.<nonce>
  left,      \* the directories earlier requests left under their backup names
  sources,   \* source_instances of the plugin
  used,      \* row ids and source ids drawn so far
  pc, want, existing,  \* per worker: control, version uploaded, row read
  faults     \* failures so far

vars == <<env, row, target, temp, backup, left, sources, used, pc, want,
          existing, faults>>
dirs == <<target, temp, backup, left>>

Dir(v) == [ver |-> v, whole |-> TRUE]

Init ==
  /\ env \in Scenarios
  /\ row = None
  /\ target = None
  /\ temp = [w \in Worker |-> None]
  /\ backup = [w \in Worker |-> None]
  /\ left = {}
  /\ sources = {}
  /\ used = {}
  /\ pc = [w \in Worker |-> "idle"]
  /\ want = [w \in Worker |-> None]
  /\ existing = [w \in Worker |-> None]
  /\ faults = 0

----------------------------------------------------------------------------
(***************************************************************************)
(* A request for operation op may arrive at worker w.                      *)
(***************************************************************************)
Ready(w, op) ==
  /\ op \in env.ops
  /\ pc[w] = "idle"
  /\ env.solo => \A u \in Worker : pc[u] = "idle"

Goto(w, label) == pc' = [pc EXCEPT ![w] = label]

(***************************************************************************)
(* The request ends and its locals with it.                                *)
(***************************************************************************)
Return(w) ==
  /\ Goto(w, "idle")
  /\ want' = [want EXCEPT ![w] = None]
  /\ existing' = [existing EXCEPT ![w] = None]

Continue(w, label) == Goto(w, label) /\ UNCHANGED <<want, existing>>

(***************************************************************************)
(* A call works; it fails although nothing is in its way; it fails for     *)
(* that reason or because something is.                                    *)
(***************************************************************************)
Works == UNCHANGED <<faults, env>>
Fault == faults < env.maxFaults /\ faults' = faults + 1 /\ UNCHANGED env
Fails(blocked) ==
  \/ blocked /\ Works
  \/ ~ blocked /\ Fault

(***************************************************************************)
(* What a failed remove_dir_all leaves of directory d.                     *)
(***************************************************************************)
Remains(d) == IF d = None THEN {None} ELSE {d, [d EXCEPT !.whole = FALSE]}

SetTemp(w, d) == temp' = [temp EXCEPT ![w] = d]
SetBackup(w, d) == backup' = [backup EXCEPT ![w] = d]

(***************************************************************************)
(* load_installed_plugin: the row is there and the directory loads.        *)
(***************************************************************************)
Loadable == row # None /\ target # None /\ target.whole

----------------------------------------------------------------------------
(* install_from_dir.                                                       *)

(***************************************************************************)
(* The upload is loaded and the existing row read.  The names of the       *)
(* staging directories hold a nonce, so what an earlier request left under *)
(* its own names stays where it is.                                        *)
(***************************************************************************)
BeginInstall(w, v) ==
  /\ Ready(w, "install")
  /\ Cardinality(Id \ used) > Cardinality({u \in Worker : want[u] # None})
  /\ want' = [want EXCEPT ![w] = v]
  /\ existing' = [existing EXCEPT ![w] = row]
  /\ Goto(w, "check")
  /\ left' = left \cup ({backup[w]} \ {None})
  /\ SetTemp(w, None) /\ SetBackup(w, None)
  /\ Works /\ UNCHANGED <<row, target, sources, used>>

(***************************************************************************)
(* The same version again, or a directory without a row, is refused.       *)
(***************************************************************************)
Refused(w) ==
  IF existing[w] # None THEN existing[w].ver = want[w] ELSE target # None

CheckExisting(w) ==
  /\ pc[w] = "check"
  /\ \/ Refused(w) /\ Return(w)
     \/ ~ Refused(w) /\ Continue(w, "stage")
  /\ Works /\ UNCHANGED <<row, sources, used>> /\ UNCHANGED dirs

(***************************************************************************)
(* Copy to the staging directory and load the copy; it is removed again    *)
(* when either fails.                                                      *)
(***************************************************************************)
Stage(w) ==
  /\ pc[w] = "stage"
  /\ \/ /\ SetTemp(w, Dir(want[w])) /\ Works
        /\ Continue(w, IF existing[w] = None THEN "exists" ELSE "swapOut")
     \/ Fault /\ Return(w) /\ UNCHANGED temp
  /\ UNCHANGED <<row, target, backup, left, sources, used>>

(***************************************************************************)
(* atomic_install_new_plugin_dir: exists(), rename(), then the row.  The   *)
(* rename fails when another request has put the directory there.          *)
(***************************************************************************)
CheckTarget(w) ==
  /\ pc[w] = "exists"
  /\ \/ target # None /\ SetTemp(w, None) /\ Return(w)
     \/ target = None /\ Continue(w, "place") /\ UNCHANGED temp
  /\ Works /\ UNCHANGED <<row, target, backup, left, sources, used>>

\* Mutant of Place: the directory replaces one that is there.
PlaceOver(w) ==
  /\ pc[w] = "place"
  /\ target' = temp[w] /\ SetTemp(w, None)
  /\ Continue(w, "insert")
  /\ Works /\ UNCHANGED <<row, backup, left, sources, used>>

Place(w) ==
  /\ pc[w] = "place"
  /\ \/ /\ target = None /\ Works
        /\ target' = temp[w] /\ SetTemp(w, None)
        /\ Continue(w, "insert")
     \/ Fails(target # None) /\ Return(w) /\ UNCHANGED <<target, temp>>
  /\ UNCHANGED <<row, backup, left, sources, used>>

WriteRow(w) ==
  \E i \in Id \ used :
    /\ row' = [ver |-> want[w], id |-> i]
    /\ used' = used \cup {i}

InsertRow(w) ==
  /\ pc[w] = "insert"
  /\ \/ row = None /\ WriteRow(w) /\ Works /\ Return(w)
     \/ /\ Fails(row # None)
        /\ Continue(w, "undoNew")
        /\ UNCHANGED <<row, used>>
  /\ UNCHANGED sources /\ UNCHANGED dirs

RemoveTarget(w) ==
  \/ target' = None /\ Works
  \/ target' \in Remains(target) /\ Fault

UndoNew(w) ==
  /\ pc[w] = "undoNew"
  /\ RemoveTarget(w)
  /\ Return(w)
  /\ UNCHANGED <<row, temp, backup, left, sources, used>>

\* Mutant of SwapOut: the old directory is removed, not kept.
SwapOutForGood(w) ==
  /\ pc[w] = "swapOut"
  /\ target # None /\ target' = None
  /\ Continue(w, "swapIn")
  /\ Works /\ UNCHANGED <<row, temp, backup, left, sources, used>>

(***************************************************************************)
(* atomic_upgrade_plugin_dir: the old directory becomes the backup ...     *)
(***************************************************************************)
SwapOut(w) ==
  /\ pc[w] = "swapOut"
  /\ \/ /\ target # None /\ Works
        /\ SetBackup(w, target) /\ target' = None
        /\ Continue(w, "swapIn")
        /\ UNCHANGED temp
     \/ /\ Fails(target = None)
        /\ SetTemp(w, None)
        /\ Return(w)
        /\ UNCHANGED <<target, backup>>
  /\ UNCHANGED <<row, left, sources, used>>

(***************************************************************************)
(* ... the new one takes its place, or the backup is renamed back ...      *)
(***************************************************************************)
SwapIn(w) ==
  /\ pc[w] = "swapIn"
  /\ \/ /\ target = None /\ Works
        /\ target' = temp[w] /\ SetTemp(w, None)
        /\ Continue(w, "replace")
     \/ /\ Fails(target # None)
        /\ SetTemp(w, None)
        /\ Continue(w, "swapBack")
        /\ UNCHANGED target
  /\ UNCHANGED <<row, backup, left, sources, used>>

SwapBack(w) ==
  /\ pc[w] = "swapBack"
  /\ \/ /\ target = None /\ Works
        /\ target' = backup[w] /\ SetBackup(w, None)
     \/ /\ Fails(target # None)
        /\ UNCHANGED <<target, backup>>
  /\ Return(w)
  /\ UNCHANGED <<row, temp, left, sources, used>>

(***************************************************************************)
(* ... the row is replaced (an error when there is none any more) ...      *)
(***************************************************************************)
ReplaceRow(w) ==
  /\ pc[w] = "replace"
  /\ \/ row # None /\ WriteRow(w) /\ Works /\ Continue(w, "dropBackup")
     \/ /\ Fails(row = None)
        /\ Continue(w, "undoTarget")
        /\ UNCHANGED <<row, used>>
  /\ UNCHANGED sources /\ UNCHANGED dirs

(***************************************************************************)
(* ... and the backup goes; when that fails everything is undone: the row, *)
(* the directory, and what is left of the backup comes back.               *)
(***************************************************************************)
DropBackup(w) ==
  /\ pc[w] = "dropBackup"
  /\ \/ SetBackup(w, None) /\ Works /\ Return(w)
     \/ /\ Fault
        /\ \E d \in Remains(backup[w]) : SetBackup(w, d)
        /\ Continue(w, "rollback")
  /\ UNCHANGED <<row, target, temp, left, sources, used>>

\* Mutant of RollbackRow: the new row stays when the old directory returns.
RollbackNothing(w) ==
  /\ pc[w] = "rollback"
  /\ Continue(w, "undoTarget")
  /\ Works /\ UNCHANGED <<row, sources, used>> /\ UNCHANGED dirs

RollbackRow(w) ==
  /\ pc[w] = "rollback"
  /\ \/ row # None /\ row' = existing[w] /\ Works
     \/ Fails(row = None) /\ UNCHANGED row
  /\ Continue(w, "undoTarget")
  /\ UNCHANGED <<sources, used>> /\ UNCHANGED dirs

UndoTarget(w) ==
  /\ pc[w] = "undoTarget"
  /\ RemoveTarget(w)
  /\ Continue(w, "restore")
  /\ UNCHANGED <<row, temp, backup, left, sources, used>>

(***************************************************************************)
(* restore_backup_dir: whatever is in the way is removed, then the backup  *)
(* renamed; either call may fail.                                          *)
(***************************************************************************)
RestoreBackup(w) ==
  /\ pc[w] = "restore"
  /\ \/ /\ Works
        /\ target' = backup[w] /\ SetBackup(w, None)
     \/ Fault /\ target' \in Remains(target) \cup {None} /\ UNCHANGED backup
  /\ Return(w)
  /\ UNCHANGED <<row, temp, left, sources, used>>

----------------------------------------------------------------------------
(* delete_plugin_handler.                                                  *)

BeginDelete(w) ==
  /\ Ready(w, "delete")
  /\ row # None
  /\ existing' = [existing EXCEPT ![w] = row]
  /\ Goto(w, "attached")
  /\ Works /\ UNCHANGED <<row, sources, used, want>> /\ UNCHANGED dirs

CheckAttached(w) ==
  /\ pc[w] = "attached"
  /\ \/ sources # {} /\ Return(w)
     \/ sources = {} /\ Continue(w, "deleteRow")
  /\ Works /\ UNCHANGED <<row, sources, used>> /\ UNCHANGED dirs

(***************************************************************************)
(* DELETE ... WHERE id = ?: a row that an upgrade has replaced meanwhile   *)
(* stays, and the number of rows is not looked at.                         *)
(***************************************************************************)
DeleteRow(w) ==
  /\ pc[w] = "deleteRow"
  /\ \/ /\ Works
        /\ row' = IF row = existing[w] THEN None ELSE row
        /\ Continue(w, "removeDir")
     \/ Fault /\ Return(w) /\ UNCHANGED row
  /\ UNCHANGED <<sources, used>> /\ UNCHANGED dirs

RemoveDir(w) ==
  /\ pc[w] = "removeDir"
  /\ RemoveTarget(w)
  /\ Return(w)
  /\ UNCHANGED <<row, temp, backup, left, sources, used>>

----------------------------------------------------------------------------
(* Sources of the plugin.                                                  *)

BeginCreateSource(w) ==
  /\ Ready(w, "source")
  /\ Loadable
  /\ Continue(w, "insertSource")
  /\ Works /\ UNCHANGED <<row, sources, used>> /\ UNCHANGED dirs

InsertSource(w) ==
  /\ pc[w] = "insertSource"
  /\ \/ \E s \in Source \ used :
          sources' = sources \cup {s} /\ used' = used \cup {s} /\ Works
     \/ Fails(Source \subseteq used) /\ UNCHANGED <<sources, used>>
  /\ Return(w)
  /\ UNCHANGED row /\ UNCHANGED dirs

(***************************************************************************)
(* delete_source loads the plugin first (for its secret fields).           *)
(***************************************************************************)
DeleteSource(s) ==
  /\ \E w \in Worker : Ready(w, "source")
  /\ s \in sources /\ Loadable
  /\ sources' = sources \ {s}
  /\ Works /\ UNCHANGED <<row, used, pc, want, existing>> /\ UNCHANGED dirs

(***************************************************************************)
(* The process dies; the next start does not look at the directories.      *)
(***************************************************************************)
Crash ==
  /\ env.crashes
  /\ pc' = [w \in Worker |-> "idle"]
  /\ want' = [w \in Worker |-> None]
  /\ existing' = [w \in Worker |-> None]
  /\ Works /\ UNCHANGED <<row, sources, used>> /\ UNCHANGED dirs

----------------------------------------------------------------------------
Step(w) ==
  \/ CheckExisting(w) \/ Stage(w) \/ CheckTarget(w) \/ Place(w)
  \/ InsertRow(w) \/ UndoNew(w) \/ SwapOut(w) \/ SwapIn(w) \/ SwapBack(w)
  \/ ReplaceRow(w) \/ DropBackup(w) \/ RollbackRow(w) \/ UndoTarget(w)
  \/ RestoreBackup(w) \/ CheckAttached(w) \/ DeleteRow(w) \/ RemoveDir(w)
  \/ InsertSource(w)

Next ==
  \/ \E w \in Worker, v \in Version : BeginInstall(w, v)
  \/ \E w \in Worker : BeginDelete(w) \/ BeginCreateSource(w) \/ Step(w)
  \/ \E s \in Source : DeleteSource(s)
  \/ Crash

Spec == Init /\ [][Next]_vars

----------------------------------------------------------------------------
PCs == {"idle", "check", "stage", "exists", "place", "insert", "undoNew",
        "swapOut", "swapIn", "swapBack", "replace", "dropBackup", "rollback",
        "undoTarget", "restore", "attached", "deleteRow", "removeDir",
        "insertSource"}
Rows == [ver : Version, id : Id] \cup {None}
Dirs == [ver : Version, whole : BOOLEAN] \cup {None}

TypeOK ==
  /\ env \in Scenarios
  /\ row \in Rows
  /\ target \in Dirs
  /\ temp \in [Worker -> Dirs]
  /\ backup \in [Worker -> Dirs]
  /\ left \subseteq Dirs
  /\ sources \subseteq Source
  /\ used \subseteq Id \cup Source
  /\ pc \in [Worker -> PCs]
  /\ want \in [Worker -> Version \cup {None}]
  /\ existing \in [Worker -> Rows]
  /\ faults \in 0..env.maxFaults

(***************************************************************************)
(* The directories kept under backup names.                                *)
(***************************************************************************)
Kept == {backup[w] : w \in Worker} \cup left

Quiet == \A w \in Worker : pc[w] = "idle"

(***************************************************************************)
(* A crash loses nothing (plugin_install.rs): at every moment, so after a  *)
(* crash at any moment, the registered version's whole directory is the    *)
(* target or a backup.  For one request at a time and a disk that works.   *)
(***************************************************************************)
Recoverable ==
  env.solo /\ env.maxFaults = 0 /\ row # None =>
    Dir(row.ver) \in {target} \cup Kept

(***************************************************************************)
(* Requests that install and upgrade the plugin at the same time, and a    *)
(* crash on top, may leave another version in place than the registered    *)
(* one (each renames and records in steps of its own), but never lose all  *)
(* of them: no rename, undo or clean-up destroys the last whole copy.  A   *)
(* concurrent deletion may (it deletes by the row it read before).         *)
(***************************************************************************)
SomeCopyLeft ==
  env.ops = {"install"} /\ env.maxFaults = 0 /\ row # None =>
    \E v \in Version : Dir(v) \in {target} \cup Kept

(***************************************************************************)
(* A request that returns leaves the disk in order (plugin_install.rs,     *)
(* and the tests' assert_no_plugin_staging_dirs): a failed install,        *)
(* upgrade or delete is undone, so the directory of a registered plugin is *)
(* there and has the registered version although one call failed,          *)
(* whichever it was; and when none failed, neither a temp nor a backup     *)
(* directory stays.                                                        *)
(***************************************************************************)
ReturnsInOrder ==
  env.solo /\ env.maxFaults <= 1 /\ ~ env.crashes /\ Quiet =>
    /\ row # None => target # None /\ target.ver = row.ver
    /\ faults = 0 => \A w \in Worker : temp[w] = None /\ backup[w] = None

(***************************************************************************)
(* handlers/plugins.rs refuses to delete a plugin that still has sources   *)
(* ("插件仍有关联来源实例，禁止删除"): a source's plugin is registered.     *)
(***************************************************************************)
AttachedPluginStays == sources # {} => row # None
============================================================================
