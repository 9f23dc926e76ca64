------------------------ MODULE PluginInstallProofs ------------------------
(***************************************************************************)
(* Theorems about PluginInstall, for any finite number of concurrent       *)
(* requests and any versions, row ids, sources and scenarios.              *)
(***************************************************************************)
EXTENDS PluginInstall, FiniteSetTheorems, TLAPS

(***************************************************************************)
(* The states of an install (existing row or not), by what has happened.   *)
(***************************************************************************)
NewPcs == {"exists", "place", "insert", "undoNew"}
SwapPcs == {"swapIn", "swapBack", "replace", "dropBackup", "rollback",
            "undoTarget", "restore"}
InstallPcs == {"check", "stage", "swapOut"} \cup NewPcs \cup SwapPcs
DeletePcs == {"attached", "deleteRow"}

(***************************************************************************)
(* What a request knows and has in its own directories, whatever the       *)
(* others do.                                                              *)
(***************************************************************************)
Local(w) ==
  /\ pc[w] \in InstallPcs => want[w] \in Version
  /\ pc[w] \in NewPcs => existing[w] = None
  /\ pc[w] \in SwapPcs \cup {"swapOut"} \cup DeletePcs => existing[w] # None
  /\ pc[w] \in {"exists", "place", "swapOut", "swapIn"} =>
       temp[w] = Dir(want[w])
  /\ pc[w] \in InstallPcs \ SwapPcs => backup[w] = None
  /\ pc[w] \in SwapPcs => backup[w] # None

LocalInv == \A w \in Worker : Local(w)

(***************************************************************************)
(* One request at a time: what it read is still so, and the target is what *)
(* it put there.                                                           *)
(***************************************************************************)
Alone(w) == \A u \in Worker \ {w} : pc[u] = "idle"

Undisturbed(w) ==
  /\ pc[w] \in {"check", "stage", "swapOut", "swapIn", "swapBack", "replace"}
                 \cup NewPcs \cup DeletePcs => existing[w] = row
  /\ pc[w] = "removeDir" => row = None
  /\ pc[w] \in {"dropBackup", "rollback"} => row # None /\ row.ver = want[w]
  /\ \/ pc[w] \in {"exists", "place", "swapIn", "swapBack"}
     \/ pc[w] = "stage" /\ existing[w] = None
     => target = None
  /\ pc[w] \in {"insert", "undoNew", "replace", "dropBackup", "rollback"} =>
       target = Dir(want[w])

SoloInv ==
  env.solo =>
    \A w \in Worker : (pc[w] # "idle" => Alone(w)) /\ Undisturbed(w)

(***************************************************************************)
(* One request at a time and a disk that works: nothing is undone, and the *)
(* registered version's directory is kept.                                 *)
(***************************************************************************)
Undoing == {"undoNew", "swapBack", "rollback", "undoTarget", "restore"}

KeptInv ==
  env.solo /\ env.maxFaults = 0 =>
    /\ \A w \in Worker : pc[w] \notin Undoing
    /\ row # None => Dir(row.ver) \in {target} \cup Kept

(***************************************************************************)
(* One request at a time, one failure and no crash: the target is the      *)
(* registered version's except while an upgrade swaps directories; then    *)
(* the backup is.  An undo is under way only when the failure is spent.    *)
(***************************************************************************)
Orderly(w) ==
  /\ pc[w] \in SwapPcs => backup[w].ver = existing[w].ver
  /\ pc[w] \in {"undoTarget", "restore"} => row = existing[w]
  /\ pc[w] \in Undoing => faults = 1
  /\ faults = 0 /\ temp[w] # None =>
       pc[w] \in {"exists", "place", "swapOut", "swapIn"}
  /\ faults = 0 /\ backup[w] # None => pc[w] \in SwapPcs

Matching == row = None \/ (target # None /\ target.ver = row.ver)
Swapping(w) == pc[w] \in SwapPcs \ {"dropBackup"}

OrderInv ==
  env.solo /\ env.maxFaults <= 1 /\ ~ env.crashes =>
    /\ Matching \/ \E w \in Worker : Swapping(w)
    /\ \A w \in Worker : Orderly(w)

(***************************************************************************)
(* Racing installs on a disk that works.  A request that has placed its    *)
(* directory and finds a row when it goes to insert its own removes a      *)
(* target that may be another request's: an undoer.  There are always more *)
(* copies that no upgrade is about to drop (safe backups, and the target)  *)
(* than undoers, or a directory an earlier request left.                   *)
(***************************************************************************)
Whole == {Dir(v) : v \in Version}
Undoers == {w \in Worker : pc[w] \in {"insert", "undoNew"}}
Safe == {w \in Worker : backup[w] # None
                        /\ pc[w] \notin {"replace", "dropBackup"}}
AtTarget == IF target = None THEN 0 ELSE 1

Racing(w) ==
  /\ temp[w] \in Whole \cup {None} /\ backup[w] \in Whole \cup {None}
  /\ pc[w] \in InstallPcs \cup {"idle"}
  /\ pc[w] \notin {"rollback", "undoTarget", "restore"}
  /\ existing[w] # None => row # None
  /\ row = None =>
       /\ pc[w] = "insert" => target # None
       /\ pc[w] # "undoNew"
       /\ \A u \in Worker : pc[w] = "insert" /\ pc[u] = "insert" => u = w

Outnumbered ==
  row # None => \/ left # {}
                \/ Cardinality(Undoers) < Cardinality(Safe) + AtTarget

CopyInv ==
  env.ops = {"install"} /\ env.maxFaults = 0 =>
    /\ target \in Whole \cup {None} /\ left \subseteq Whole
    /\ \A w \in Worker : Racing(w)
    /\ Outnumbered

----------------------------------------------------------------------------
(***************************************************************************)
(* Directories and rows, and what a failed removal leaves of a directory.  *)
(***************************************************************************)
LEMMA DirFacts ==
  /\ \A v \in Version : Dir(v) \in Dirs /\ Dir(v) # None /\ Dir(v).ver = v
  /\ \A v \in Version, i \in Id :
       LET r == [ver |-> v, id |-> i]
       IN r \in Rows /\ r # None /\ r.ver = v
  /\ \A d \in Dirs : \A e \in Remains(d) :
       e \in Dirs /\ (e = None <=> d = None) /\ (d # None => e.ver = d.ver)
<1>1. ASSUME NEW v \in Version
      PROVE  Dir(v) \in Dirs /\ Dir(v) # None /\ Dir(v).ver = v
  <2>1. Dir(v) \in [ver : Version, whole : BOOLEAN] /\ Dir(v).ver = v
    BY DEF Dir
  <2> QED
    BY <2>1, NoneAssumption DEF Dirs
<1>2. \A v \in Version, i \in Id :
        LET r == [ver |-> v, id |-> i]
        IN r \in Rows /\ r # None /\ r.ver = v
  BY NoneAssumption DEF Rows
<1>3. ASSUME NEW d \in Dirs, NEW e \in Remains(d)
      PROVE  e \in Dirs /\ (e = None <=> d = None) /\ (d # None => e.ver = d.ver)
  <2>1. CASE d = None
    BY <1>3, <2>1 DEF Remains
  <2>2. CASE d # None
    <3>1. d \in [ver : Version, whole : BOOLEAN] /\ e \in {d, [d EXCEPT !.whole = FALSE]}
      BY <1>3, <2>2 DEF Remains, Dirs
    <3>2. e \in [ver : Version, whole : BOOLEAN] /\ e.ver = d.ver
      BY <3>1
    <3> QED
      BY <2>2, <3>2, NoneAssumption DEF Dirs
  <2> QED
    BY <2>1, <2>2
<1> QED
  BY <1>1, <1>2, <1>3

(***************************************************************************)
(* A request touches only its own locals and directories.                  *)
(***************************************************************************)
Arrives(w) ==
  \/ \E v \in Version : BeginInstall(w, v)
  \/ BeginDelete(w) \/ BeginCreateSource(w)

(***************************************************************************)
(* What a step of a request leaves to the others.                          *)
(***************************************************************************)
LEMMA Frame ==
  ASSUME TypeOK, NEW w \in Worker, Arrives(w) \/ Step(w)
  PROVE  /\ env' = env
         /\ \A u \in Worker \ {w} :
              /\ pc'[u] = pc[u] /\ want'[u] = want[u]
              /\ existing'[u] = existing[u]
              /\ temp'[u] = temp[u] /\ backup'[u] = backup[u]
<1>0. /\ temp \in [Worker -> Dirs] /\ backup \in [Worker -> Dirs]
      /\ pc \in [Worker -> PCs] /\ want \in [Worker -> Version \cup {None}]
      /\ existing \in [Worker -> Rows]
  BY DEF TypeOK
<1> USE DEF Return, Continue, Goto, Works, Fault, Fails, SetTemp, SetBackup, dirs
<1>1. CASE Arrives(w)
  BY <1>0, <1>1 DEF Arrives, BeginInstall, BeginDelete, BeginCreateSource
<1>2. CASE CheckExisting(w) \/ Stage(w) \/ CheckTarget(w) \/ Place(w)
  BY <1>0, <1>2 DEF CheckExisting, Stage, CheckTarget, Place
<1>3. CASE InsertRow(w) \/ UndoNew(w)
  BY <1>0, <1>3 DEF InsertRow, UndoNew, RemoveTarget
<1>4. CASE SwapOut(w) \/ SwapIn(w) \/ SwapBack(w)
  BY <1>0, <1>4 DEF SwapOut, SwapIn, SwapBack
<1>5. CASE ReplaceRow(w) \/ DropBackup(w) \/ RollbackRow(w)
  BY <1>0, <1>5 DEF ReplaceRow, DropBackup, RollbackRow
<1>6. CASE UndoTarget(w) \/ RestoreBackup(w)
  BY <1>0, <1>6 DEF UndoTarget, RestoreBackup, RemoveTarget
<1>7. CASE CheckAttached(w) \/ DeleteRow(w) \/ RemoveDir(w) \/ InsertSource(w)
  BY <1>0, <1>7
  DEF CheckAttached, DeleteRow, RemoveDir, InsertSource, RemoveTarget
<1> QED
  BY <1>1, <1>2, <1>3, <1>4, <1>5, <1>6, <1>7 DEF Step

(***************************************************************************)
(* The circumstances of a behaviour do not change.                         *)
(***************************************************************************)
LEMMA EnvFixed == TypeOK /\ [Next]_vars => env' = env
<1>1. ASSUME TypeOK, Next PROVE env' = env
  BY <1>1, Frame DEF Next, Arrives, DeleteSource, Crash, Works
<1> QED
  BY <1>1 DEF vars

(***************************************************************************)
(* The counter of failures stays within the scenario's bound.              *)
(***************************************************************************)
LEMMA FaultsBounded ==
  ASSUME TypeOK, Works \/ Fault
  PROVE  env' \in Scenarios /\ faults' \in 0..env'.maxFaults
<1>1. env \in Scenario /\ faults \in 0..env.maxFaults /\ env \in Scenarios
  BY ScenariosAssumption DEF TypeOK
<1>2. env.maxFaults \in 0..2
  BY <1>1 DEF Scenario
<1> QED
  BY <1>1, <1>2 DEF Works, Fault

(***************************************************************************)
(* Every variable has its type at the start, and every step keeps it.      *)
(***************************************************************************)
LEMMA TypeInit == Init => TypeOK
<1> SUFFICES ASSUME Init PROVE TypeOK
  OBVIOUS
<1>1. env \in Scenarios /\ env.maxFaults \in 0..2
  BY ScenariosAssumption DEF Init, Scenario
<1> QED
  BY <1>1 DEF Init, TypeOK, Rows, Dirs, PCs

(***************************************************************************)
(* Every step keeps the types.                                             *)
(***************************************************************************)
LEMMA TypeStep == TypeOK /\ LocalInv /\ [Next]_vars => TypeOK'
<1> SUFFICES ASSUME TypeOK, LocalInv, [Next]_vars PROVE TypeOK'
  OBVIOUS
<1>0. /\ env \in Scenarios /\ faults \in 0..env.maxFaults
      /\ row \in Rows /\ target \in Dirs
      /\ temp \in [Worker -> Dirs] /\ backup \in [Worker -> Dirs]
      /\ left \subseteq Dirs /\ sources \subseteq Source
      /\ used \subseteq Id \cup Source
      /\ pc \in [Worker -> PCs] /\ want \in [Worker -> Version \cup {None}]
      /\ existing \in [Worker -> Rows]
  BY DEF TypeOK
<1>n. None \in Rows /\ None \in Dirs
  BY DEF Rows, Dirs
<1>l. PCs = {"idle"} \cup InstallPcs \cup DeletePcs \cup {"removeDir", "insertSource"}
  BY DEF PCs, InstallPcs, NewPcs, SwapPcs, DeletePcs
<1> USE DEF Return, Continue, Goto, SetTemp, SetBackup, dirs
<1>1. ASSUME NEW w \in Worker, NEW v \in Version, BeginInstall(w, v)
      PROVE  TypeOK'
  BY <1>0, <1>1, <1>n, FaultsBounded DEF BeginInstall, TypeOK, PCs
<1>r. ASSUME NEW w \in Worker, pc[w] \in InstallPcs, WriteRow(w)
      PROVE  row' \in Rows /\ used' \subseteq Id \cup Source
  BY <1>0, <1>r, DirFacts DEF WriteRow, LocalInv, Local
<1>2. ASSUME NEW w \in Worker, BeginDelete(w) PROVE TypeOK'
  BY <1>0, <1>2, <1>n, FaultsBounded
  DEF BeginDelete, TypeOK, PCs, Fails
<1>3. ASSUME NEW w \in Worker, BeginCreateSource(w) PROVE TypeOK'
  BY <1>0, <1>3, <1>n, FaultsBounded
  DEF BeginCreateSource, TypeOK, PCs, Fails
<1>4. ASSUME NEW w \in Worker, CheckExisting(w) PROVE TypeOK'
  BY <1>0, <1>4, <1>n, FaultsBounded
  DEF CheckExisting, TypeOK, PCs, Fails
<1>5. ASSUME NEW w \in Worker, Stage(w) PROVE TypeOK'
  BY <1>0, <1>5, <1>n, FaultsBounded, DirFacts
  DEF Stage, TypeOK, PCs, Fails, InstallPcs, LocalInv, Local
<1>6. ASSUME NEW w \in Worker, CheckTarget(w) PROVE TypeOK'
  BY <1>0, <1>6, <1>n, FaultsBounded
  DEF CheckTarget, TypeOK, PCs, Fails
<1>7. ASSUME NEW w \in Worker, Place(w) PROVE TypeOK'
  BY <1>0, <1>7, <1>n, FaultsBounded
  DEF Place, TypeOK, PCs, Fails
<1>8. ASSUME NEW w \in Worker, InsertRow(w) PROVE TypeOK'
  BY <1>0, <1>8, <1>n, FaultsBounded, <1>r
  DEF InsertRow, TypeOK, PCs, Fails, InstallPcs, NewPcs, SwapPcs
<1>9. ASSUME NEW w \in Worker, UndoNew(w) PROVE TypeOK'
  BY <1>0, <1>9, <1>n, FaultsBounded, DirFacts
  DEF UndoNew, TypeOK, PCs, Fails, RemoveTarget
<1>10. ASSUME NEW w \in Worker, SwapOut(w) PROVE TypeOK'
  BY <1>0, <1>10, <1>n, FaultsBounded
  DEF SwapOut, TypeOK, PCs, Fails
<1>11. ASSUME NEW w \in Worker, SwapIn(w) PROVE TypeOK'
  BY <1>0, <1>11, <1>n, FaultsBounded
  DEF SwapIn, TypeOK, PCs, Fails
<1>12. ASSUME NEW w \in Worker, SwapBack(w) PROVE TypeOK'
  BY <1>0, <1>12, <1>n, FaultsBounded
  DEF SwapBack, TypeOK, PCs, Fails
<1>13. ASSUME NEW w \in Worker, ReplaceRow(w) PROVE TypeOK'
  BY <1>0, <1>13, <1>n, FaultsBounded, <1>r
  DEF ReplaceRow, TypeOK, PCs, Fails, InstallPcs, NewPcs, SwapPcs
<1>14. ASSUME NEW w \in Worker, DropBackup(w) PROVE TypeOK'
  BY <1>0, <1>14, <1>n, FaultsBounded, DirFacts
  DEF DropBackup, TypeOK, PCs, Fails
<1>15. ASSUME NEW w \in Worker, RollbackRow(w) PROVE TypeOK'
  BY <1>0, <1>15, <1>n, FaultsBounded
  DEF RollbackRow, TypeOK, PCs, Fails
<1>16. ASSUME NEW w \in Worker, UndoTarget(w) PROVE TypeOK'
  BY <1>0, <1>16, <1>n, FaultsBounded, DirFacts
  DEF UndoTarget, TypeOK, PCs, Fails, RemoveTarget
<1>17. ASSUME NEW w \in Worker, RestoreBackup(w) PROVE TypeOK'
  BY <1>0, <1>17, <1>n, FaultsBounded, DirFacts
  DEF RestoreBackup, TypeOK, PCs, Fails
<1>18. ASSUME NEW w \in Worker, CheckAttached(w) PROVE TypeOK'
  BY <1>0, <1>18, <1>n, FaultsBounded
  DEF CheckAttached, TypeOK, PCs, Fails
<1>19. ASSUME NEW w \in Worker, DeleteRow(w) PROVE TypeOK'
  BY <1>0, <1>19, <1>n, FaultsBounded
  DEF DeleteRow, TypeOK, PCs, Fails
<1>20. ASSUME NEW w \in Worker, RemoveDir(w) PROVE TypeOK'
  BY <1>0, <1>20, <1>n, FaultsBounded, DirFacts
  DEF RemoveDir, TypeOK, PCs, Fails, RemoveTarget
<1>21. ASSUME NEW w \in Worker, InsertSource(w) PROVE TypeOK'
  BY <1>0, <1>21, <1>n, FaultsBounded
  DEF InsertSource, TypeOK, PCs, Fails
<1>22. ASSUME NEW s \in Source, DeleteSource(s) PROVE TypeOK'
  BY <1>0, <1>22, FaultsBounded DEF DeleteSource, TypeOK
<1>23. CASE Crash
  BY <1>0, <1>23, <1>n, FaultsBounded DEF Crash, TypeOK, PCs
<1>24. CASE UNCHANGED vars
  BY <1>24 DEF vars, TypeOK
<1> QED
  BY <1>1, <1>2, <1>3, <1>4, <1>5, <1>6, <1>7, <1>8, <1>9, <1>10, <1>11, <1>12, <1>13, <1>14, <1>15, <1>16, <1>17, <1>18, <1>19, <1>20, <1>21, <1>22, <1>23, <1>24
  DEF Next, Step

(***************************************************************************)
(* Each request's own facts hold at the start, and a step keeps them: it   *)
(* is enough to look at the request that moves.                            *)
(***************************************************************************)
LEMMA LocalInit == Init => LocalInv
BY DEF Init, LocalInv, Local, InstallPcs, NewPcs, SwapPcs, DeletePcs

(***************************************************************************)
(* A step keeps what its request knows.                                    *)
(***************************************************************************)
LEMMA LocalStep == TypeOK /\ LocalInv /\ [Next]_vars => LocalInv'
<1> SUFFICES ASSUME TypeOK, LocalInv, [Next]_vars PROVE LocalInv'
  OBVIOUS
<1>0. /\ row \in Rows /\ target \in Dirs
      /\ temp \in [Worker -> Dirs] /\ backup \in [Worker -> Dirs]
      /\ pc \in [Worker -> PCs] /\ want \in [Worker -> Version \cup {None}]
      /\ existing \in [Worker -> Rows]
  BY DEF TypeOK
<1>1. ASSUME NEW w \in Worker, Arrives(w) \/ Step(w), Local(w)' PROVE LocalInv'
  BY <1>1, Frame DEF LocalInv, Local
<1> USE DEF Return, Continue, Goto, SetTemp, SetBackup, dirs
<1> USE DEF Local, InstallPcs, NewPcs, SwapPcs, DeletePcs
<1>2. ASSUME NEW w \in Worker, NEW v \in Version, BeginInstall(w, v)
      PROVE  Local(w)'
  BY <1>0, <1>2 DEF BeginInstall, LocalInv
<1>3. ASSUME NEW w \in Worker, BeginDelete(w) PROVE Local(w)'
  BY <1>0, <1>3 DEF BeginDelete, LocalInv
<1>4. ASSUME NEW w \in Worker, BeginCreateSource(w) PROVE Local(w)'
  BY <1>0, <1>4 DEF BeginCreateSource, LocalInv
<1>5. ASSUME NEW w \in Worker, CheckExisting(w) PROVE Local(w)'
  BY <1>0, <1>5 DEF CheckExisting, LocalInv, Refused
<1>6. ASSUME NEW w \in Worker, Stage(w) PROVE Local(w)'
  BY <1>0, <1>6, DirFacts DEF Stage, LocalInv
<1>7. ASSUME NEW w \in Worker, CheckTarget(w) PROVE Local(w)'
  BY <1>0, <1>7 DEF CheckTarget, LocalInv
<1>8. ASSUME NEW w \in Worker, Place(w) PROVE Local(w)'
  BY <1>0, <1>8 DEF Place, LocalInv
<1>9. ASSUME NEW w \in Worker, InsertRow(w) PROVE Local(w)'
  BY <1>0, <1>9 DEF InsertRow, LocalInv
<1>10. ASSUME NEW w \in Worker, UndoNew(w) PROVE Local(w)'
  BY <1>0, <1>10 DEF UndoNew, LocalInv
<1>11. ASSUME NEW w \in Worker, SwapOut(w) PROVE Local(w)'
  BY <1>0, <1>11 DEF SwapOut, LocalInv
<1>12. ASSUME NEW w \in Worker, SwapIn(w) PROVE Local(w)'
  BY <1>0, <1>12 DEF SwapIn, LocalInv
<1>13. ASSUME NEW w \in Worker, SwapBack(w) PROVE Local(w)'
  BY <1>0, <1>13 DEF SwapBack, LocalInv
<1>14. ASSUME NEW w \in Worker, ReplaceRow(w) PROVE Local(w)'
  BY <1>0, <1>14 DEF ReplaceRow, LocalInv
<1>15. ASSUME NEW w \in Worker, DropBackup(w) PROVE Local(w)'
  BY <1>0, <1>15, DirFacts DEF DropBackup, LocalInv
<1>16. ASSUME NEW w \in Worker, RollbackRow(w) PROVE Local(w)'
  BY <1>0, <1>16 DEF RollbackRow, LocalInv
<1>17. ASSUME NEW w \in Worker, UndoTarget(w) PROVE Local(w)'
  BY <1>0, <1>17 DEF UndoTarget, LocalInv
<1>18. ASSUME NEW w \in Worker, RestoreBackup(w) PROVE Local(w)'
  BY <1>0, <1>18 DEF RestoreBackup, LocalInv
<1>19. ASSUME NEW w \in Worker, CheckAttached(w) PROVE Local(w)'
  BY <1>0, <1>19 DEF CheckAttached, LocalInv
<1>20. ASSUME NEW w \in Worker, DeleteRow(w) PROVE Local(w)'
  BY <1>0, <1>20 DEF DeleteRow, LocalInv
<1>21. ASSUME NEW w \in Worker, RemoveDir(w) PROVE Local(w)'
  BY <1>0, <1>21 DEF RemoveDir, LocalInv
<1>22. ASSUME NEW w \in Worker, InsertSource(w) PROVE Local(w)'
  BY <1>0, <1>22 DEF InsertSource, LocalInv
<1>23. CASE (\E s \in Source : DeleteSource(s)) \/ UNCHANGED vars
  BY <1>23 DEF DeleteSource, vars, LocalInv
<1>24. CASE Crash
  BY <1>0, <1>24 DEF Crash, LocalInv
<1> HIDE DEF Local
<1> QED
  BY <1>1, <1>2, <1>3, <1>4, <1>5, <1>6, <1>7, <1>8, <1>9, <1>10, <1>11, <1>12, <1>13, <1>14, <1>15, <1>16, <1>17, <1>18, <1>19, <1>20, <1>21, <1>22, <1>23, <1>24
  DEF Next, Step, Arrives

(***************************************************************************)
(* The same for requests that are served one at a time.                   *)
(***************************************************************************)
LEMMA SoloInit == Init => SoloInv
BY DEF Init, SoloInv, Alone, Undisturbed, NewPcs, DeletePcs

(***************************************************************************)
(* When requests are served one at a time, nobody else is at work beside   *)
(* the one that moves.                                                     *)
(***************************************************************************)
LEMMA SoloAlone ==
  ASSUME TypeOK, SoloInv, env.solo, NEW w \in Worker, Arrives(w) \/ Step(w)
  PROVE  Alone(w) /\ Alone(w)'
<1>1. CASE pc[w] # "idle"
  BY <1>1, Frame DEF SoloInv, Alone
<1>2. CASE pc[w] = "idle"
  <2>1. Arrives(w)
    BY <1>2 DEF Step, CheckExisting, Stage, CheckTarget, Place, InsertRow,
       UndoNew, SwapOut, SwapIn, SwapBack, ReplaceRow, DropBackup,
       RollbackRow, UndoTarget, RestoreBackup, CheckAttached, DeleteRow,
       RemoveDir, InsertSource
  <2>2. Alone(w)
    BY <2>1 DEF Arrives, BeginInstall, BeginDelete, BeginCreateSource, Ready,
       Alone
  <2> QED
    BY <2>2, Frame DEF Alone
<1> QED
  BY <1>1, <1>2

(***************************************************************************)
(* What a request that is alone has read stays so.                         *)
(***************************************************************************)
LEMMA SoloStep == TypeOK /\ LocalInv /\ SoloInv /\ [Next]_vars => SoloInv'
<1> SUFFICES ASSUME TypeOK, LocalInv, SoloInv, [Next]_vars PROVE SoloInv'
  OBVIOUS
<1>0. /\ row \in Rows /\ target \in Dirs
      /\ temp \in [Worker -> Dirs] /\ backup \in [Worker -> Dirs]
      /\ pc \in [Worker -> PCs] /\ want \in [Worker -> Version \cup {None}]
      /\ existing \in [Worker -> Rows]
  BY DEF TypeOK
<1>1. ASSUME NEW w \in Worker, Arrives(w) \/ Step(w),
             env.solo => Undisturbed(w)'
      PROVE  SoloInv'
  <2>1. env' = env
    BY <1>1, Frame
  <2>2. ASSUME env.solo, NEW u \in Worker
        PROVE  (pc'[u] # "idle" => Alone(u)') /\ Undisturbed(u)'
    <3>1. Alone(w)'
      BY <1>1, <2>2, SoloAlone
    <3>2. CASE u = w
      BY <1>1, <2>2, <3>1, <3>2
    <3>3. CASE u # w
      BY <3>1, <3>3 DEF Alone, Undisturbed, NewPcs, DeletePcs
    <3> QED
      BY <3>2, <3>3
  <2> QED
    BY <2>1, <2>2 DEF SoloInv
<1> USE DEF Return, Continue, Goto, SetTemp, SetBackup, dirs
<1> USE DEF Undisturbed, NewPcs, DeletePcs
<1>2. ASSUME NEW w \in Worker, NEW v \in Version, BeginInstall(w, v), env.solo
       PROVE  Undisturbed(w)'
  BY <1>0, <1>2
  DEF BeginInstall, SoloInv
<1>3. ASSUME NEW w \in Worker, BeginDelete(w), env.solo
       PROVE  Undisturbed(w)'
  BY <1>0, <1>3
  DEF BeginDelete, SoloInv
<1>4. ASSUME NEW w \in Worker, BeginCreateSource(w), env.solo
       PROVE  Undisturbed(w)'
  BY <1>0, <1>4
  DEF BeginCreateSource, SoloInv
<1>5. ASSUME NEW w \in Worker, CheckExisting(w), env.solo
       PROVE  Undisturbed(w)'
  BY <1>0, <1>5
  DEF CheckExisting, SoloInv, Refused
<1>6. ASSUME NEW w \in Worker, Stage(w), env.solo
       PROVE  Undisturbed(w)'
  BY <1>0, <1>6, DirFacts
  DEF Stage, SoloInv, LocalInv, Local, InstallPcs, SwapPcs
<1>7. ASSUME NEW w \in Worker, CheckTarget(w), env.solo
       PROVE  Undisturbed(w)'
  BY <1>0, <1>7
  DEF CheckTarget, SoloInv
<1>8. ASSUME NEW w \in Worker, Place(w), env.solo
       PROVE  Undisturbed(w)'
  BY <1>0, <1>8, DirFacts
  DEF Place, SoloInv, LocalInv, Local, InstallPcs, SwapPcs
<1>9. ASSUME NEW w \in Worker, InsertRow(w), env.solo
       PROVE  Undisturbed(w)'
  BY <1>0, <1>9, DirFacts
  DEF InsertRow, SoloInv, LocalInv, Local, InstallPcs, SwapPcs, WriteRow
<1>10. ASSUME NEW w \in Worker, UndoNew(w), env.solo
       PROVE  Undisturbed(w)'
  BY <1>0, <1>10
  DEF UndoNew, SoloInv
<1>11. ASSUME NEW w \in Worker, SwapOut(w), env.solo
       PROVE  Undisturbed(w)'
  BY <1>0, <1>11, DirFacts
  DEF SwapOut, SoloInv, LocalInv, Local, InstallPcs, SwapPcs
<1>12. ASSUME NEW w \in Worker, SwapIn(w), env.solo
       PROVE  Undisturbed(w)'
  BY <1>0, <1>12, DirFacts
  DEF SwapIn, SoloInv, LocalInv, Local, InstallPcs, SwapPcs
<1>13. ASSUME NEW w \in Worker, SwapBack(w), env.solo
       PROVE  Undisturbed(w)'
  BY <1>0, <1>13
  DEF SwapBack, SoloInv
<1>14. ASSUME NEW w \in Worker, ReplaceRow(w), env.solo
       PROVE  Undisturbed(w)'
  BY <1>0, <1>14, DirFacts
  DEF ReplaceRow, SoloInv, LocalInv, Local, InstallPcs, SwapPcs, WriteRow
<1>15. ASSUME NEW w \in Worker, DropBackup(w), env.solo
       PROVE  Undisturbed(w)'
  BY <1>0, <1>15, DirFacts
  DEF DropBackup, SoloInv, LocalInv, Local, InstallPcs, SwapPcs
<1>16. ASSUME NEW w \in Worker, RollbackRow(w), env.solo
       PROVE  Undisturbed(w)'
  BY <1>0, <1>16
  DEF RollbackRow, SoloInv
<1>17. ASSUME NEW w \in Worker, UndoTarget(w), env.solo
       PROVE  Undisturbed(w)'
  BY <1>0, <1>17
  DEF UndoTarget, SoloInv
<1>18. ASSUME NEW w \in Worker, RestoreBackup(w), env.solo
       PROVE  Undisturbed(w)'
  BY <1>0, <1>18
  DEF RestoreBackup, SoloInv
<1>19. ASSUME NEW w \in Worker, CheckAttached(w), env.solo
       PROVE  Undisturbed(w)'
  BY <1>0, <1>19
  DEF CheckAttached, SoloInv
<1>20. ASSUME NEW w \in Worker, DeleteRow(w), env.solo
       PROVE  Undisturbed(w)'
  BY <1>0, <1>20
  DEF DeleteRow, SoloInv
<1>21. ASSUME NEW w \in Worker, RemoveDir(w), env.solo
       PROVE  Undisturbed(w)'
  BY <1>0, <1>21
  DEF RemoveDir, SoloInv
<1>22. ASSUME NEW w \in Worker, InsertSource(w), env.solo
       PROVE  Undisturbed(w)'
  BY <1>0, <1>22
  DEF InsertSource, SoloInv
<1>23. CASE (\E s \in Source : DeleteSource(s)) \/ UNCHANGED vars
  <2>1. UNCHANGED <<env, pc, row, target, want, existing>>
    BY <1>23 DEF DeleteSource, Works, vars
  <2> QED
    BY <2>1 DEF SoloInv, Alone
<1>24. CASE Crash
  <2>1. \A w \in Worker : pc'[w] = "idle"
    BY <1>24 DEF Crash
  <2> QED
    BY <2>1 DEF SoloInv, Alone
<1> HIDE DEF Undisturbed
<1> QED
  BY <1>1, <1>2, <1>3, <1>4, <1>5, <1>6, <1>7, <1>8, <1>9, <1>10, <1>11, <1>12, <1>13, <1>14, <1>15, <1>16, <1>17, <1>18, <1>19, <1>20, <1>21, <1>22, <1>23, <1>24
  DEF Next, Step, Arrives

(***************************************************************************)
(* A directory that is the target, a backup or left behind.                *)
(***************************************************************************)
HasCopy(d) == d = target \/ (\E u \in Worker : backup[u] = d) \/ d \in left

(***************************************************************************)
(* The directories Recoverable looks at, without a set of all of them.     *)
(***************************************************************************)
LEMMA Copies == \A d : d \in {target} \cup Kept <=> HasCopy(d)
BY DEF Kept, HasCopy

(***************************************************************************)
(* On a disk that works no call fails without a reason.                    *)
(***************************************************************************)
LEMMA NoFault == TypeOK /\ env.maxFaults = 0 => ~ Fault
BY DEF TypeOK, Fault

(***************************************************************************)
(* At the start no plugin is registered.                                   *)
(***************************************************************************)
LEMMA KeptInit == Init => KeptInv
BY DEF Init, KeptInv, Undoing

(***************************************************************************)
(* On a disk that works an upgrade takes the target away only after it has *)
(* its backup, and drops the backup only after the row names the target.   *)
(***************************************************************************)
LEMMA KeptStep ==
  TypeOK /\ LocalInv /\ SoloInv /\ KeptInv /\ [Next]_vars => KeptInv'
<1> SUFFICES ASSUME TypeOK, LocalInv, SoloInv, KeptInv, [Next]_vars,
                    (env.solo /\ env.maxFaults = 0)'
             PROVE  /\ \A w \in Worker : pc'[w] \notin Undoing
                    /\ row' # None => HasCopy(Dir(row.ver))'
  <2>1. \A d : HasCopy(d)' => d \in {target'} \cup Kept'
    BY DEF HasCopy, Kept
  <2>2. HasCopy(Dir(row.ver))' => Dir(row'.ver) \in {target'} \cup Kept'
    BY <2>1 DEF HasCopy, Dir
  <2> QED
    BY <2>2 DEF KeptInv, Dir
<1> DEFINE Goal == /\ \A w \in Worker : pc'[w] \notin Undoing
                   /\ row' # None => HasCopy(Dir(row.ver))'
<1>0. /\ row \in Rows /\ target \in Dirs
      /\ temp \in [Worker -> Dirs] /\ backup \in [Worker -> Dirs]
      /\ pc \in [Worker -> PCs] /\ want \in [Worker -> Version \cup {None}]
      /\ existing \in [Worker -> Rows]
  BY DEF TypeOK
<1>e. env' = env
  BY EnvFixed
<1>p. /\ ~ Fault /\ env.solo /\ env.maxFaults = 0
      /\ \A w \in Worker : pc[w] \notin Undoing
      /\ row # None => HasCopy(Dir(row.ver))
      /\ row # None => Dir(row.ver) # None /\ row.ver \in Version
  <2>1. row # None => row.ver \in Version
    BY <1>0 DEF Rows
  <2> QED
    BY <1>e, <2>1, NoFault, Copies, DirFacts DEF KeptInv
<1>w. ASSUME NEW w \in Worker, Arrives(w) \/ Step(w), pc'[w] \notin Undoing
      PROVE  \A u \in Worker : pc'[u] \notin Undoing
  BY <1>p, <1>w, Frame
<1>k. ASSUME UNCHANGED <<row, target, backup, left>>
      PROVE  row' # None => HasCopy(Dir(row.ver))'
  BY <1>p, <1>k DEF HasCopy
<1>m. ASSUME NEW w \in Worker
      PROVE  Local(w) /\ Undisturbed(w)
  BY <1>p DEF LocalInv, SoloInv
<1> HIDE DEF Goal
<1> USE DEF Return, Continue, Goto, SetTemp, SetBackup, dirs, Fails
<1>1. ASSUME NEW w \in Worker, NEW v \in Version, BeginInstall(w, v) PROVE Goal
  <2>1. pc'[w] \notin Undoing
    BY <1>0, <1>p, <1>m, <1>1
    DEF BeginInstall, Undoing, Local, Undisturbed, NewPcs, SwapPcs
  <2>2. row' # None => HasCopy(Dir(row.ver))'
    BY <1>0, <1>p, <1>m, <1>1, DirFacts
    DEF BeginInstall, HasCopy, Local, Undisturbed, NewPcs, SwapPcs, InstallPcs,
        DeletePcs
  <2> QED
    BY <1>w, <1>1, <2>1, <2>2 DEF Goal, Arrives, Step
<1>2. ASSUME NEW w \in Worker, BeginDelete(w) PROVE Goal
  <2>1. pc'[w] \notin Undoing /\ UNCHANGED <<row, target, backup, left>>
    BY <1>0, <1>p, <1>2 DEF BeginDelete, Undoing
  <2> QED
    BY <1>w, <1>k, <1>2, <2>1 DEF Goal, Arrives, Step
<1>3. ASSUME NEW w \in Worker, BeginCreateSource(w) PROVE Goal
  <2>1. pc'[w] \notin Undoing /\ UNCHANGED <<row, target, backup, left>>
    BY <1>0, <1>p, <1>3 DEF BeginCreateSource, Undoing
  <2> QED
    BY <1>w, <1>k, <1>3, <2>1 DEF Goal, Arrives, Step
<1>4. ASSUME NEW w \in Worker, CheckExisting(w) PROVE Goal
  <2>1. pc'[w] \notin Undoing /\ UNCHANGED <<row, target, backup, left>>
    BY <1>0, <1>p, <1>4 DEF CheckExisting, Undoing
  <2> QED
    BY <1>w, <1>k, <1>4, <2>1 DEF Goal, Arrives, Step
<1>5. ASSUME NEW w \in Worker, Stage(w) PROVE Goal
  <2>1. pc'[w] \notin Undoing /\ UNCHANGED <<row, target, backup, left>>
    BY <1>0, <1>p, <1>5 DEF Stage, Undoing
  <2> QED
    BY <1>w, <1>k, <1>5, <2>1 DEF Goal, Arrives, Step
<1>6. ASSUME NEW w \in Worker, CheckTarget(w) PROVE Goal
  <2>1. pc'[w] \notin Undoing /\ UNCHANGED <<row, target, backup, left>>
    BY <1>0, <1>p, <1>6 DEF CheckTarget, Undoing
  <2> QED
    BY <1>w, <1>k, <1>6, <2>1 DEF Goal, Arrives, Step
<1>7. ASSUME NEW w \in Worker, Place(w) PROVE Goal
  <2>1. pc'[w] \notin Undoing
    BY <1>0, <1>p, <1>m, <1>7
    DEF Place, Undoing, Local, Undisturbed, NewPcs, SwapPcs
  <2>2. row' # None => HasCopy(Dir(row.ver))'
    BY <1>0, <1>p, <1>m, <1>7, DirFacts
    DEF Place, HasCopy, Local, Undisturbed, NewPcs, SwapPcs, InstallPcs,
        DeletePcs
  <2> QED
    BY <1>w, <1>7, <2>1, <2>2 DEF Goal, Arrives, Step
<1>8. ASSUME NEW w \in Worker, InsertRow(w) PROVE Goal
  <2>1. pc'[w] \notin Undoing
    BY <1>0, <1>p, <1>m, <1>8
    DEF InsertRow, Undoing, Local, Undisturbed, NewPcs, SwapPcs
  <2>2. row' # None => HasCopy(Dir(row.ver))'
    BY <1>0, <1>p, <1>m, <1>8, DirFacts
    DEF InsertRow, HasCopy, Local, Undisturbed, NewPcs, SwapPcs, InstallPcs,
        DeletePcs, WriteRow
  <2> QED
    BY <1>w, <1>8, <2>1, <2>2 DEF Goal, Arrives, Step
<1>9. ASSUME NEW w \in Worker, UndoNew(w) PROVE Goal
  BY <1>p, <1>9 DEF UndoNew, Undoing
<1>10. ASSUME NEW w \in Worker, SwapOut(w) PROVE Goal
  <2>1. pc'[w] \notin Undoing
    BY <1>0, <1>p, <1>m, <1>10
    DEF SwapOut, Undoing, Local, Undisturbed, NewPcs, SwapPcs
  <2>2. row' # None => HasCopy(Dir(row.ver))'
    BY <1>0, <1>p, <1>m, <1>10, DirFacts
    DEF SwapOut, HasCopy, Local, Undisturbed, NewPcs, SwapPcs, InstallPcs,
        DeletePcs
  <2> QED
    BY <1>w, <1>10, <2>1, <2>2 DEF Goal, Arrives, Step
<1>11. ASSUME NEW w \in Worker, SwapIn(w) PROVE Goal
  <2>1. pc'[w] \notin Undoing
    BY <1>0, <1>p, <1>m, <1>11
    DEF SwapIn, Undoing, Local, Undisturbed, NewPcs, SwapPcs
  <2>2. row' # None => HasCopy(Dir(row.ver))'
    BY <1>0, <1>p, <1>m, <1>11, DirFacts
    DEF SwapIn, HasCopy, Local, Undisturbed, NewPcs, SwapPcs, InstallPcs,
        DeletePcs
  <2> QED
    BY <1>w, <1>11, <2>1, <2>2 DEF Goal, Arrives, Step
<1>12. ASSUME NEW w \in Worker, SwapBack(w) PROVE Goal
  BY <1>p, <1>12 DEF SwapBack, Undoing
<1>13. ASSUME NEW w \in Worker, ReplaceRow(w) PROVE Goal
  <2>1. pc'[w] \notin Undoing
    BY <1>0, <1>p, <1>m, <1>13
    DEF ReplaceRow, Undoing, Local, Undisturbed, NewPcs, SwapPcs
  <2>2. row' # None => HasCopy(Dir(row.ver))'
    BY <1>0, <1>p, <1>m, <1>13, DirFacts
    DEF ReplaceRow, HasCopy, Local, Undisturbed, NewPcs, SwapPcs, InstallPcs,
        DeletePcs, WriteRow
  <2> QED
    BY <1>w, <1>13, <2>1, <2>2 DEF Goal, Arrives, Step
<1>14. ASSUME NEW w \in Worker, DropBackup(w) PROVE Goal
  <2>1. pc'[w] \notin Undoing
    BY <1>0, <1>p, <1>m, <1>14
    DEF DropBackup, Undoing, Local, Undisturbed, NewPcs, SwapPcs
  <2>2. row' # None => HasCopy(Dir(row.ver))'
    BY <1>0, <1>p, <1>m, <1>14, DirFacts
    DEF DropBackup, HasCopy, Local, Undisturbed, NewPcs, SwapPcs, InstallPcs,
        DeletePcs
  <2> QED
    BY <1>w, <1>14, <2>1, <2>2 DEF Goal, Arrives, Step
<1>15. ASSUME NEW w \in Worker, RollbackRow(w) PROVE Goal
  BY <1>p, <1>15 DEF RollbackRow, Undoing
<1>16. ASSUME NEW w \in Worker, UndoTarget(w) PROVE Goal
  BY <1>p, <1>16 DEF UndoTarget, Undoing
<1>17. ASSUME NEW w \in Worker, RestoreBackup(w) PROVE Goal
  BY <1>p, <1>17 DEF RestoreBackup, Undoing
<1>18. ASSUME NEW w \in Worker, CheckAttached(w) PROVE Goal
  <2>1. pc'[w] \notin Undoing /\ UNCHANGED <<row, target, backup, left>>
    BY <1>0, <1>p, <1>18 DEF CheckAttached, Undoing
  <2> QED
    BY <1>w, <1>k, <1>18, <2>1 DEF Goal, Arrives, Step
<1>19. ASSUME NEW w \in Worker, DeleteRow(w) PROVE Goal
  <2>1. pc'[w] \notin Undoing
    BY <1>0, <1>p, <1>m, <1>19
    DEF DeleteRow, Undoing, Local, Undisturbed, NewPcs, SwapPcs
  <2>2. row' # None => HasCopy(Dir(row.ver))'
    BY <1>0, <1>p, <1>m, <1>19, DirFacts
    DEF DeleteRow, HasCopy, Local, Undisturbed, NewPcs, SwapPcs, InstallPcs,
        DeletePcs
  <2> QED
    BY <1>w, <1>19, <2>1, <2>2 DEF Goal, Arrives, Step
<1>20. ASSUME NEW w \in Worker, RemoveDir(w) PROVE Goal
  <2>1. pc'[w] \notin Undoing
    BY <1>0, <1>p, <1>m, <1>20
    DEF RemoveDir, Undoing, Local, Undisturbed, NewPcs, SwapPcs
  <2>2. row' # None => HasCopy(Dir(row.ver))'
    BY <1>0, <1>p, <1>m, <1>20, DirFacts
    DEF RemoveDir, HasCopy, Local, Undisturbed, NewPcs, SwapPcs, InstallPcs,
        DeletePcs, RemoveTarget
  <2> QED
    BY <1>w, <1>20, <2>1, <2>2 DEF Goal, Arrives, Step
<1>21. ASSUME NEW w \in Worker, InsertSource(w) PROVE Goal
  <2>1. pc'[w] \notin Undoing /\ UNCHANGED <<row, target, backup, left>>
    BY <1>0, <1>p, <1>21 DEF InsertSource, Undoing
  <2> QED
    BY <1>w, <1>k, <1>21, <2>1 DEF Goal, Arrives, Step
<1>22. ASSUME (\E s \in Source : DeleteSource(s)) \/ UNCHANGED vars PROVE Goal
  <2>1. UNCHANGED <<pc, row, target, backup, left>>
    BY <1>22 DEF DeleteSource, vars
  <2> QED
    BY <1>p, <1>k, <2>1 DEF Goal
<1>23. ASSUME Crash PROVE Goal
  <2>1. UNCHANGED <<row, target, backup, left>>
        /\ \A w \in Worker : pc'[w] = "idle"
    BY <1>23 DEF Crash
  <2> QED
    BY <1>k, <2>1 DEF Goal, Undoing
<1> QED
  <2>1. Goal
    BY <1>1, <1>2, <1>3, <1>4, <1>5, <1>6, <1>7, <1>8, <1>9, <1>10, <1>11, <1>12, <1>13, <1>14, <1>15, <1>16, <1>17, <1>18, <1>19, <1>20, <1>21, <1>22, <1>23
    DEF Next, Step
  <2> QED
    BY <2>1 DEF Goal

(***************************************************************************)
(* With one failure at most every request leaves the directory              *)
(* of the registered version behind, and nothing else when none failed.    *)
(***************************************************************************)
LEMMA OrderInit == Init => OrderInv
BY DEF Init, OrderInv, Matching, Orderly, SwapPcs, Undoing

(***************************************************************************)
(* Every step keeps the target the registered version's, or is part of a   *)
(* swap that can still end so.                                             *)
(***************************************************************************)
LEMMA OrderStep ==
  TypeOK /\ LocalInv /\ SoloInv /\ OrderInv /\ [Next]_vars => OrderInv'
<1> SUFFICES ASSUME TypeOK, LocalInv, SoloInv, OrderInv, [Next]_vars,
                    (env.solo /\ env.maxFaults <= 1 /\ ~ env.crashes)'
             PROVE  /\ Matching' \/ \E w \in Worker : Swapping(w)'
                    /\ \A w \in Worker : Orderly(w)'
  BY DEF OrderInv
<1> DEFINE Goal == /\ Matching' \/ \E w \in Worker : Swapping(w)'
                   /\ \A w \in Worker : Orderly(w)'
<1>0. /\ row \in Rows /\ target \in Dirs
      /\ temp \in [Worker -> Dirs] /\ backup \in [Worker -> Dirs]
      /\ pc \in [Worker -> PCs] /\ want \in [Worker -> Version \cup {None}]
      /\ existing \in [Worker -> Rows]
  BY DEF TypeOK
<1>e. env' = env
  BY EnvFixed
<1>p. /\ env.solo /\ ~ env.crashes
      /\ Matching \/ \E w \in Worker : Swapping(w)
      /\ \A w \in Worker : Orderly(w) /\ Local(w) /\ Undisturbed(w)
      /\ faults \in Nat /\ (Fault => faults = 0 /\ faults' = 1)
      /\ (Works => faults' = faults)
  <2>1. env \in Scenario /\ faults \in 0..env.maxFaults
    BY ScenariosAssumption DEF TypeOK
  <2>2. env.maxFaults \in 0..2 /\ env.maxFaults <= 1
    BY <1>e, <2>1 DEF Scenario
  <2> QED
    BY <1>e, <2>1, <2>2 DEF OrderInv, LocalInv, SoloInv, Fault, Works
<1>w. ASSUME NEW w \in Worker, Arrives(w) \/ Step(w), Works \/ Fault,
             (Matching \/ Swapping(w)) =>
               Orderly(w)' /\ (Matching' \/ Swapping(w)')
      PROVE  Goal
  <2>1. Alone(w) /\ Alone(w)'
    BY <1>p, <1>w, SoloAlone
  <2>2. Matching \/ Swapping(w)
    BY <1>p, <2>1 DEF Alone, Swapping, SwapPcs
  <2>3. ASSUME NEW u \in Worker \ {w} PROVE Orderly(u)'
    <3>1. pc'[u] = "idle" /\ pc[u] = "idle"
      BY <2>1 DEF Alone
    <3>2. temp'[u] = temp[u] /\ backup'[u] = backup[u]
      BY <1>w, Frame
    <3>3. faults' = 0 => faults = 0
      BY <1>p, <1>w
    <3> QED
      BY <1>p, <3>1, <3>2, <3>3 DEF Orderly, SwapPcs, Undoing
  <2> QED
    BY <1>w, <2>2, <2>3
<1> HIDE DEF Goal
<1> USE DEF Return, Continue, Goto, SetTemp, SetBackup, dirs, Fails
<1>1. ASSUME NEW w \in Worker, NEW v \in Version, BeginInstall(w, v) PROVE Goal
  <2>1. Works \/ Fault
    BY <1>1 DEF BeginInstall, Ready
  <2>2. ASSUME Matching \/ Swapping(w)
        PROVE  Orderly(w)' /\ (Matching' \/ Swapping(w)')
    BY <1>0, <1>p, <1>1, <2>2, DirFacts
    DEF BeginInstall, Matching, Swapping, Orderly, Local, Undisturbed, Undoing,
        InstallPcs, NewPcs, SwapPcs, DeletePcs, Ready
  <2> QED
    BY <1>w, <1>1, <2>1, <2>2 DEF Arrives, Step
<1>2. ASSUME NEW w \in Worker, BeginDelete(w) PROVE Goal
  <2>1. Works \/ Fault
    BY <1>2 DEF BeginDelete, Ready
  <2>2. ASSUME Matching \/ Swapping(w)
        PROVE  Orderly(w)' /\ (Matching' \/ Swapping(w)')
    BY <1>0, <1>p, <1>2, <2>2, DirFacts
    DEF BeginDelete, Matching, Swapping, Orderly, Local, Undisturbed, Undoing,
        InstallPcs, NewPcs, SwapPcs, DeletePcs, Ready
  <2> QED
    BY <1>w, <1>2, <2>1, <2>2 DEF Arrives, Step
<1>3. ASSUME NEW w \in Worker, BeginCreateSource(w) PROVE Goal
  <2>1. Works \/ Fault
    BY <1>3 DEF BeginCreateSource, Ready
  <2>2. ASSUME Matching \/ Swapping(w)
        PROVE  Orderly(w)' /\ (Matching' \/ Swapping(w)')
    BY <1>0, <1>p, <1>3, <2>2, DirFacts
    DEF BeginCreateSource, Matching, Swapping, Orderly, Local, Undisturbed, Undoing,
        InstallPcs, NewPcs, SwapPcs, DeletePcs, Ready
  <2> QED
    BY <1>w, <1>3, <2>1, <2>2 DEF Arrives, Step
<1>4. ASSUME NEW w \in Worker, CheckExisting(w) PROVE Goal
  <2>1. Works \/ Fault
    BY <1>4 DEF CheckExisting
  <2>2. ASSUME Matching \/ Swapping(w)
        PROVE  Orderly(w)' /\ (Matching' \/ Swapping(w)')
    BY <1>0, <1>p, <1>4, <2>2, DirFacts
    DEF CheckExisting, Matching, Swapping, Orderly, Local, Undisturbed, Undoing,
        InstallPcs, NewPcs, SwapPcs, DeletePcs
  <2> QED
    BY <1>w, <1>4, <2>1, <2>2 DEF Arrives, Step
<1>5. ASSUME NEW w \in Worker, Stage(w) PROVE Goal
  <2>1. Works \/ Fault
    BY <1>5 DEF Stage
  <2>2. ASSUME Matching \/ Swapping(w)
        PROVE  Orderly(w)' /\ (Matching' \/ Swapping(w)')
    BY <1>0, <1>p, <1>5, <2>2, DirFacts
    DEF Stage, Matching, Swapping, Orderly, Local, Undisturbed, Undoing,
        InstallPcs, NewPcs, SwapPcs, DeletePcs
  <2> QED
    BY <1>w, <1>5, <2>1, <2>2 DEF Arrives, Step
<1>6. ASSUME NEW w \in Worker, CheckTarget(w) PROVE Goal
  <2>1. Works \/ Fault
    BY <1>6 DEF CheckTarget
  <2>2. ASSUME Matching \/ Swapping(w)
        PROVE  Orderly(w)' /\ (Matching' \/ Swapping(w)')
    BY <1>0, <1>p, <1>6, <2>2, DirFacts
    DEF CheckTarget, Matching, Swapping, Orderly, Local, Undisturbed, Undoing,
        InstallPcs, NewPcs, SwapPcs, DeletePcs
  <2> QED
    BY <1>w, <1>6, <2>1, <2>2 DEF Arrives, Step
<1>7. ASSUME NEW w \in Worker, Place(w) PROVE Goal
  <2>1. Works \/ Fault
    BY <1>7 DEF Place
  <2>2. ASSUME Matching \/ Swapping(w)
        PROVE  Orderly(w)' /\ (Matching' \/ Swapping(w)')
    BY <1>0, <1>p, <1>7, <2>2, DirFacts
    DEF Place, Matching, Swapping, Orderly, Local, Undisturbed, Undoing,
        InstallPcs, NewPcs, SwapPcs, DeletePcs
  <2> QED
    BY <1>w, <1>7, <2>1, <2>2 DEF Arrives, Step
<1>8. ASSUME NEW w \in Worker, InsertRow(w) PROVE Goal
  <2>1. Works \/ Fault
    BY <1>8 DEF InsertRow, WriteRow
  <2>2. ASSUME Matching \/ Swapping(w)
        PROVE  Orderly(w)' /\ (Matching' \/ Swapping(w)')
    BY <1>0, <1>p, <1>8, <2>2, DirFacts
    DEF InsertRow, Matching, Swapping, Orderly, Local, Undisturbed, Undoing,
        InstallPcs, NewPcs, SwapPcs, DeletePcs, WriteRow
  <2> QED
    BY <1>w, <1>8, <2>1, <2>2 DEF Arrives, Step
<1>9. ASSUME NEW w \in Worker, UndoNew(w) PROVE Goal
  <2>1. Works \/ Fault
    BY <1>9 DEF UndoNew, RemoveTarget
  <2>2. ASSUME Matching \/ Swapping(w)
        PROVE  Orderly(w)' /\ (Matching' \/ Swapping(w)')
    BY <1>0, <1>p, <1>9, <2>2, DirFacts
    DEF UndoNew, Matching, Swapping, Orderly, Local, Undisturbed, Undoing,
        InstallPcs, NewPcs, SwapPcs, DeletePcs, RemoveTarget
  <2> QED
    BY <1>w, <1>9, <2>1, <2>2 DEF Arrives, Step
<1>10. ASSUME NEW w \in Worker, SwapOut(w) PROVE Goal
  <2>1. Works \/ Fault
    BY <1>10 DEF SwapOut
  <2>2. ASSUME Matching \/ Swapping(w)
        PROVE  Orderly(w)' /\ (Matching' \/ Swapping(w)')
    BY <1>0, <1>p, <1>10, <2>2, DirFacts
    DEF SwapOut, Matching, Swapping, Orderly, Local, Undisturbed, Undoing,
        InstallPcs, NewPcs, SwapPcs, DeletePcs
  <2> QED
    BY <1>w, <1>10, <2>1, <2>2 DEF Arrives, Step
<1>11. ASSUME NEW w \in Worker, SwapIn(w) PROVE Goal
  <2>1. Works \/ Fault
    BY <1>11 DEF SwapIn
  <2>2. ASSUME Matching \/ Swapping(w)
        PROVE  Orderly(w)' /\ (Matching' \/ Swapping(w)')
    BY <1>0, <1>p, <1>11, <2>2, DirFacts
    DEF SwapIn, Matching, Swapping, Orderly, Local, Undisturbed, Undoing,
        InstallPcs, NewPcs, SwapPcs, DeletePcs
  <2> QED
    BY <1>w, <1>11, <2>1, <2>2 DEF Arrives, Step
<1>12. ASSUME NEW w \in Worker, SwapBack(w) PROVE Goal
  <2>1. Works \/ Fault
    BY <1>12 DEF SwapBack
  <2>2. ASSUME Matching \/ Swapping(w)
        PROVE  Orderly(w)' /\ (Matching' \/ Swapping(w)')
    BY <1>0, <1>p, <1>12, <2>2, DirFacts
    DEF SwapBack, Matching, Swapping, Orderly, Local, Undisturbed, Undoing,
        InstallPcs, NewPcs, SwapPcs, DeletePcs
  <2> QED
    BY <1>w, <1>12, <2>1, <2>2 DEF Arrives, Step
<1>13. ASSUME NEW w \in Worker, ReplaceRow(w) PROVE Goal
  <2>1. Works \/ Fault
    BY <1>13 DEF ReplaceRow, WriteRow
  <2>2. ASSUME Matching \/ Swapping(w)
        PROVE  Orderly(w)' /\ (Matching' \/ Swapping(w)')
    BY <1>0, <1>p, <1>13, <2>2, DirFacts
    DEF ReplaceRow, Matching, Swapping, Orderly, Local, Undisturbed, Undoing,
        InstallPcs, NewPcs, SwapPcs, DeletePcs, WriteRow
  <2> QED
    BY <1>w, <1>13, <2>1, <2>2 DEF Arrives, Step
<1>14. ASSUME NEW w \in Worker, DropBackup(w) PROVE Goal
  <2>1. Works \/ Fault
    BY <1>14 DEF DropBackup
  <2>2. ASSUME Matching \/ Swapping(w)
        PROVE  Orderly(w)' /\ (Matching' \/ Swapping(w)')
    BY <1>0, <1>p, <1>14, <2>2, DirFacts
    DEF DropBackup, Matching, Swapping, Orderly, Local, Undisturbed, Undoing,
        InstallPcs, NewPcs, SwapPcs, DeletePcs
  <2> QED
    BY <1>w, <1>14, <2>1, <2>2 DEF Arrives, Step
<1>15. ASSUME NEW w \in Worker, RollbackRow(w) PROVE Goal
  <2>1. Works \/ Fault
    BY <1>15 DEF RollbackRow
  <2>2. ASSUME Matching \/ Swapping(w)
        PROVE  Orderly(w)' /\ (Matching' \/ Swapping(w)')
    BY <1>0, <1>p, <1>15, <2>2, DirFacts
    DEF RollbackRow, Matching, Swapping, Orderly, Local, Undisturbed, Undoing,
        InstallPcs, NewPcs, SwapPcs, DeletePcs
  <2> QED
    BY <1>w, <1>15, <2>1, <2>2 DEF Arrives, Step
<1>16. ASSUME NEW w \in Worker, UndoTarget(w) PROVE Goal
  <2>1. Works \/ Fault
    BY <1>16 DEF UndoTarget, RemoveTarget
  <2>2. ASSUME Matching \/ Swapping(w)
        PROVE  Orderly(w)' /\ (Matching' \/ Swapping(w)')
    BY <1>0, <1>p, <1>16, <2>2, DirFacts
    DEF UndoTarget, Matching, Swapping, Orderly, Local, Undisturbed, Undoing,
        InstallPcs, NewPcs, SwapPcs, DeletePcs, RemoveTarget
  <2> QED
    BY <1>w, <1>16, <2>1, <2>2 DEF Arrives, Step
<1>17. ASSUME NEW w \in Worker, RestoreBackup(w) PROVE Goal
  <2>1. Works \/ Fault
    BY <1>17 DEF RestoreBackup
  <2>2. ASSUME Matching \/ Swapping(w)
        PROVE  Orderly(w)' /\ (Matching' \/ Swapping(w)')
    BY <1>0, <1>p, <1>17, <2>2, DirFacts
    DEF RestoreBackup, Matching, Swapping, Orderly, Local, Undisturbed, Undoing,
        InstallPcs, NewPcs, SwapPcs, DeletePcs
  <2> QED
    BY <1>w, <1>17, <2>1, <2>2 DEF Arrives, Step
<1>18. ASSUME NEW w \in Worker, CheckAttached(w) PROVE Goal
  <2>1. Works \/ Fault
    BY <1>18 DEF CheckAttached
  <2>2. ASSUME Matching \/ Swapping(w)
        PROVE  Orderly(w)' /\ (Matching' \/ Swapping(w)')
    BY <1>0, <1>p, <1>18, <2>2, DirFacts
    DEF CheckAttached, Matching, Swapping, Orderly, Local, Undisturbed, Undoing,
        InstallPcs, NewPcs, SwapPcs, DeletePcs
  <2> QED
    BY <1>w, <1>18, <2>1, <2>2 DEF Arrives, Step
<1>19. ASSUME NEW w \in Worker, DeleteRow(w) PROVE Goal
  <2>1. Works \/ Fault
    BY <1>19 DEF DeleteRow
  <2>2. ASSUME Matching \/ Swapping(w)
        PROVE  Orderly(w)' /\ (Matching' \/ Swapping(w)')
    BY <1>0, <1>p, <1>19, <2>2, DirFacts
    DEF DeleteRow, Matching, Swapping, Orderly, Local, Undisturbed, Undoing,
        InstallPcs, NewPcs, SwapPcs, DeletePcs
  <2> QED
    BY <1>w, <1>19, <2>1, <2>2 DEF Arrives, Step
<1>20. ASSUME NEW w \in Worker, RemoveDir(w) PROVE Goal
  <2>1. Works \/ Fault
    BY <1>20 DEF RemoveDir, RemoveTarget
  <2>2. ASSUME Matching \/ Swapping(w)
        PROVE  Orderly(w)' /\ (Matching' \/ Swapping(w)')
    BY <1>0, <1>p, <1>20, <2>2, DirFacts
    DEF RemoveDir, Matching, Swapping, Orderly, Local, Undisturbed, Undoing,
        InstallPcs, NewPcs, SwapPcs, DeletePcs, RemoveTarget
  <2> QED
    BY <1>w, <1>20, <2>1, <2>2 DEF Arrives, Step
<1>21. ASSUME NEW w \in Worker, InsertSource(w) PROVE Goal
  <2>1. Works \/ Fault
    BY <1>21 DEF InsertSource
  <2>2. ASSUME Matching \/ Swapping(w)
        PROVE  Orderly(w)' /\ (Matching' \/ Swapping(w)')
    BY <1>0, <1>p, <1>21, <2>2, DirFacts
    DEF InsertSource, Matching, Swapping, Orderly, Local, Undisturbed, Undoing,
        InstallPcs, NewPcs, SwapPcs, DeletePcs
  <2> QED
    BY <1>w, <1>21, <2>1, <2>2 DEF Arrives, Step
<1>22. ASSUME (\E s \in Source : DeleteSource(s)) \/ UNCHANGED vars
       PROVE  Goal
  <2>1. UNCHANGED <<pc, row, target, temp, backup, existing, faults>>
    BY <1>22 DEF DeleteSource, Works, dirs, vars
  <2> QED
    BY <1>p, <2>1 DEF Goal, Matching, Swapping, Orderly
<1>23. ~ Crash
  BY <1>p DEF Crash
<1> QED
  <2>1. Goal
    BY <1>1, <1>2, <1>3, <1>4, <1>5, <1>6, <1>7, <1>8, <1>9, <1>10, <1>11, <1>12, <1>13, <1>14, <1>15, <1>16, <1>17, <1>18, <1>19, <1>20, <1>21, <1>22, <1>23
    DEF Next, Step
  <2> QED
    BY <2>1 DEF Goal

(***************************************************************************)
(* Sets of requests are finite and can be counted.                          *)
(***************************************************************************)
LEMMA Counting ==
  \A X \in SUBSET Worker :
    /\ Cardinality(X) \in Nat
    /\ \A w \in Worker :
         /\ w \notin X => Cardinality(X \cup {w}) = Cardinality(X) + 1
         /\ w \in X => Cardinality(X \ {w}) = Cardinality(X) - 1
    /\ Cardinality(X) = 0 <=> X = {}
<1> SUFFICES ASSUME NEW X \in SUBSET Worker
             PROVE  /\ Cardinality(X) \in Nat
                    /\ \A w \in Worker :
                         /\ w \notin X =>
                              Cardinality(X \cup {w}) = Cardinality(X) + 1
                         /\ w \in X =>
                              Cardinality(X \ {w}) = Cardinality(X) - 1
                    /\ Cardinality(X) = 0 <=> X = {}
  OBVIOUS
<1>1. IsFiniteSet(X)
  BY FS_Subset, WorkerAssumption
<1> QED
  BY <1>1, FS_CardinalityType, FS_AddElement, FS_RemoveElement, FS_EmptySet

(***************************************************************************)
(* At the start nobody races.                                              *)
(***************************************************************************)
LEMMA CopyInit == Init => CopyInv
BY DEF Init, CopyInv, Racing, Outnumbered

(***************************************************************************)
(* While there is no row, one request at most is about to insert one, and  *)
(* its directory stays the target.                                         *)
(***************************************************************************)
LEMMA RacingStep ==
  ASSUME TypeOK, LocalInv, CopyInv, [Next]_vars,
         (env.ops = {"install"} /\ env.maxFaults = 0)'
  PROVE  /\ target' \in Whole \cup {None} /\ left' \subseteq Whole
         /\ \A w \in Worker : Racing(w)'
         /\ row # None => row' # None
<1> DEFINE Goal == /\ target' \in Whole \cup {None} /\ left' \subseteq Whole
                   /\ \A w \in Worker : Racing(w)'
                   /\ row # None => row' # None
<1>0. /\ row \in Rows /\ target \in Dirs
      /\ temp \in [Worker -> Dirs] /\ backup \in [Worker -> Dirs]
      /\ pc \in [Worker -> PCs] /\ want \in [Worker -> Version \cup {None}]
      /\ existing \in [Worker -> Rows]
  BY DEF TypeOK
<1>e. env' = env
  BY EnvFixed
<1>p. /\ ~ Fault /\ env.ops = {"install"}
      /\ target \in Whole \cup {None} /\ left \subseteq Whole
      /\ \A w \in Worker : Racing(w) /\ Local(w)
  BY <1>e, NoFault DEF CopyInv, LocalInv
<1>w. ASSUME NEW w \in Worker, Arrives(w) \/ Step(w), Racing(w)',
             target' \in Whole \cup {None}, left' \subseteq Whole,
             row' = None => /\ row = None
                            /\ target # None => target' # None
                            /\ pc'[w] = "insert" =>
                                 \A u \in Worker \ {w} : pc[u] # "insert"
      PROVE  Goal
  <2>1. ASSUME NEW u \in Worker \ {w} PROVE Racing(u)'
    BY <1>p, <1>w, Frame DEF Racing
  <2> QED
    BY <1>w, <2>1
<1> HIDE DEF Goal
<1> USE DEF Return, Continue, Goto, SetTemp, SetBackup, dirs, Fails
<1> USE DEF InstallPcs, NewPcs, SwapPcs
<1>1. ASSUME NEW w \in Worker, NEW v \in Version, BeginInstall(w, v) PROVE Goal
  <2>1. Racing(w)'
    BY <1>0, <1>p, <1>1 DEF BeginInstall, Racing, Local, Ready
  <2>2. target' \in Whole \cup {None} /\ left' \subseteq Whole
    BY <1>0, <1>p, <1>1 DEF BeginInstall, Racing, Ready
  <2>3. row' = None => /\ row = None /\ (target # None => target' # None)
                       /\ pc'[w] = "insert" =>
                            \A u \in Worker \ {w} : pc[u] # "insert"
    BY <1>0, <1>p, <1>1 DEF BeginInstall, Racing, Local, Ready
  <2> QED
    BY <1>w, <1>1, <2>1, <2>2, <2>3 DEF Arrives, Step
<1>2. ASSUME NEW w \in Worker, CheckExisting(w) PROVE Goal
  <2>1. Racing(w)'
    BY <1>0, <1>p, <1>2 DEF CheckExisting, Racing, Local
  <2>2. target' \in Whole \cup {None} /\ left' \subseteq Whole
    BY <1>0, <1>p, <1>2 DEF CheckExisting, Racing
  <2>3. row' = None => /\ row = None /\ (target # None => target' # None)
                       /\ pc'[w] = "insert" =>
                            \A u \in Worker \ {w} : pc[u] # "insert"
    BY <1>0, <1>p, <1>2 DEF CheckExisting, Racing, Local
  <2> QED
    BY <1>w, <1>2, <2>1, <2>2, <2>3 DEF Arrives, Step
<1>3. ASSUME NEW w \in Worker, Stage(w) PROVE Goal
  <2>1. Racing(w)'
    BY <1>0, <1>p, <1>3, DirFacts DEF Stage, Racing, Local, Whole
  <2>2. target' \in Whole \cup {None} /\ left' \subseteq Whole
    BY <1>0, <1>p, <1>3 DEF Stage, Racing, Whole
  <2>3. row' = None => /\ row = None /\ (target # None => target' # None)
                       /\ pc'[w] = "insert" =>
                            \A u \in Worker \ {w} : pc[u] # "insert"
    BY <1>0, <1>p, <1>3, DirFacts DEF Stage, Racing, Local, Whole
  <2> QED
    BY <1>w, <1>3, <2>1, <2>2, <2>3 DEF Arrives, Step
<1>4. ASSUME NEW w \in Worker, CheckTarget(w) PROVE Goal
  <2>1. Racing(w)'
    BY <1>0, <1>p, <1>4 DEF CheckTarget, Racing, Local
  <2>2. target' \in Whole \cup {None} /\ left' \subseteq Whole
    BY <1>0, <1>p, <1>4 DEF CheckTarget, Racing
  <2>3. row' = None => /\ row = None /\ (target # None => target' # None)
                       /\ pc'[w] = "insert" =>
                            \A u \in Worker \ {w} : pc[u] # "insert"
    BY <1>0, <1>p, <1>4 DEF CheckTarget, Racing, Local
  <2> QED
    BY <1>w, <1>4, <2>1, <2>2, <2>3 DEF Arrives, Step
<1>5. ASSUME NEW w \in Worker, Place(w) PROVE Goal
  <2>1. Racing(w)'
    BY <1>0, <1>p, <1>5, DirFacts DEF Place, Racing, Local
  <2>2. target' \in Whole \cup {None} /\ left' \subseteq Whole
    BY <1>0, <1>p, <1>5 DEF Place, Racing
  <2>3. row' = None => /\ row = None /\ (target # None => target' # None)
                       /\ pc'[w] = "insert" =>
                            \A u \in Worker \ {w} : pc[u] # "insert"
    BY <1>0, <1>p, <1>5, DirFacts DEF Place, Racing, Local
  <2> QED
    BY <1>w, <1>5, <2>1, <2>2, <2>3 DEF Arrives, Step
<1>6. ASSUME NEW w \in Worker, InsertRow(w) PROVE Goal
  <2>1. Racing(w)'
    BY <1>0, <1>p, <1>6, DirFacts DEF InsertRow, Racing, Local, WriteRow
  <2>2. target' \in Whole \cup {None} /\ left' \subseteq Whole
    BY <1>0, <1>p, <1>6 DEF InsertRow, Racing
  <2>3. row' = None => /\ row = None /\ (target # None => target' # None)
                       /\ pc'[w] = "insert" =>
                            \A u \in Worker \ {w} : pc[u] # "insert"
    BY <1>0, <1>p, <1>6, DirFacts DEF InsertRow, Racing, Local, WriteRow
  <2> QED
    BY <1>w, <1>6, <2>1, <2>2, <2>3 DEF Arrives, Step
<1>7. ASSUME NEW w \in Worker, UndoNew(w) PROVE Goal
  <2>1. Racing(w)'
    BY <1>0, <1>p, <1>7 DEF UndoNew, Racing, Local, RemoveTarget
  <2>2. target' \in Whole \cup {None} /\ left' \subseteq Whole
    BY <1>0, <1>p, <1>7 DEF UndoNew, Racing, RemoveTarget
  <2>3. row' = None => /\ row = None /\ (target # None => target' # None)
                       /\ pc'[w] = "insert" =>
                            \A u \in Worker \ {w} : pc[u] # "insert"
    BY <1>0, <1>p, <1>7 DEF UndoNew, Racing, Local, RemoveTarget
  <2> QED
    BY <1>w, <1>7, <2>1, <2>2, <2>3 DEF Arrives, Step
<1>8. ASSUME NEW w \in Worker, SwapOut(w) PROVE Goal
  <2>1. Racing(w)'
    BY <1>0, <1>p, <1>8 DEF SwapOut, Racing, Local
  <2>2. target' \in Whole \cup {None} /\ left' \subseteq Whole
    BY <1>0, <1>p, <1>8 DEF SwapOut, Racing
  <2>3. row' = None => /\ row = None /\ (target # None => target' # None)
                       /\ pc'[w] = "insert" =>
                            \A u \in Worker \ {w} : pc[u] # "insert"
    BY <1>0, <1>p, <1>8 DEF SwapOut, Racing, Local
  <2> QED
    BY <1>w, <1>8, <2>1, <2>2, <2>3 DEF Arrives, Step
<1>9. ASSUME NEW w \in Worker, SwapIn(w) PROVE Goal
  <2>1. Racing(w)'
    BY <1>0, <1>p, <1>9, DirFacts DEF SwapIn, Racing, Local
  <2>2. target' \in Whole \cup {None} /\ left' \subseteq Whole
    BY <1>0, <1>p, <1>9 DEF SwapIn, Racing
  <2>3. row' = None => /\ row = None /\ (target # None => target' # None)
                       /\ pc'[w] = "insert" =>
                            \A u \in Worker \ {w} : pc[u] # "insert"
    BY <1>0, <1>p, <1>9, DirFacts DEF SwapIn, Racing, Local
  <2> QED
    BY <1>w, <1>9, <2>1, <2>2, <2>3 DEF Arrives, Step
<1>10. ASSUME NEW w \in Worker, SwapBack(w) PROVE Goal
  <2>1. Racing(w)'
    BY <1>0, <1>p, <1>10 DEF SwapBack, Racing, Local
  <2>2. target' \in Whole \cup {None} /\ left' \subseteq Whole
    BY <1>0, <1>p, <1>10 DEF SwapBack, Racing
  <2>3. row' = None => /\ row = None /\ (target # None => target' # None)
                       /\ pc'[w] = "insert" =>
                            \A u \in Worker \ {w} : pc[u] # "insert"
    BY <1>0, <1>p, <1>10 DEF SwapBack, Racing, Local
  <2> QED
    BY <1>w, <1>10, <2>1, <2>2, <2>3 DEF Arrives, Step
<1>11. ASSUME NEW w \in Worker, ReplaceRow(w) PROVE Goal
  <2>1. Racing(w)'
    BY <1>0, <1>p, <1>11, DirFacts DEF ReplaceRow, Racing, Local, WriteRow
  <2>2. target' \in Whole \cup {None} /\ left' \subseteq Whole
    BY <1>0, <1>p, <1>11 DEF ReplaceRow, Racing
  <2>3. row' = None => /\ row = None /\ (target # None => target' # None)
                       /\ pc'[w] = "insert" =>
                            \A u \in Worker \ {w} : pc[u] # "insert"
    BY <1>0, <1>p, <1>11, DirFacts DEF ReplaceRow, Racing, Local, WriteRow
  <2> QED
    BY <1>w, <1>11, <2>1, <2>2, <2>3 DEF Arrives, Step
<1>12. ASSUME NEW w \in Worker, DropBackup(w) PROVE Goal
  <2>1. Racing(w)'
    BY <1>0, <1>p, <1>12 DEF DropBackup, Racing, Local
  <2>2. target' \in Whole \cup {None} /\ left' \subseteq Whole
    BY <1>0, <1>p, <1>12 DEF DropBackup, Racing
  <2>3. row' = None => /\ row = None /\ (target # None => target' # None)
                       /\ pc'[w] = "insert" =>
                            \A u \in Worker \ {w} : pc[u] # "insert"
    BY <1>0, <1>p, <1>12 DEF DropBackup, Racing, Local
  <2> QED
    BY <1>w, <1>12, <2>1, <2>2, <2>3 DEF Arrives, Step
<1>13. ASSUME NEW w \in Worker
       PROVE  /\ ~ BeginDelete(w) /\ ~ BeginCreateSource(w) /\ ~ RollbackRow(w)
              /\ ~ UndoTarget(w) /\ ~ RestoreBackup(w) /\ ~ CheckAttached(w)
              /\ ~ DeleteRow(w) /\ ~ RemoveDir(w) /\ ~ InsertSource(w)
  BY <1>p
  DEF Racing, BeginDelete, BeginCreateSource, Ready, RollbackRow, UndoTarget,
      RestoreBackup, CheckAttached, DeleteRow, RemoveDir, InsertSource
<1>14. ASSUME NEW s \in Source PROVE ~ DeleteSource(s)
  BY <1>p DEF DeleteSource, Ready
<1>15. ASSUME Crash PROVE Goal
  BY <1>0, <1>p, <1>15 DEF Crash, Goal, Racing
<1>16. ASSUME UNCHANGED vars PROVE Goal
  BY <1>p, <1>16 DEF vars, Goal, Racing
<1> QED
  <2>1. Goal
    BY <1>1, <1>2, <1>3, <1>4, <1>5, <1>6, <1>7, <1>8, <1>9, <1>10, <1>11, <1>12, <1>13, <1>14, <1>15, <1>16
    DEF Next, Step
  <2> QED
    BY <2>1 DEF Goal

(***************************************************************************)
(* No step lets the undoers catch up: what takes a copy away either moves *)
(* it, or leaves a new one at the target, or is one undoer less.           *)
(***************************************************************************)
LEMMA OutnumberedStep ==
  ASSUME TypeOK, LocalInv, CopyInv, [Next]_vars,
         (env.ops = {"install"} /\ env.maxFaults = 0)'
  PROVE  Outnumbered'
<1>0. /\ row \in Rows /\ target \in Dirs
      /\ temp \in [Worker -> Dirs] /\ backup \in [Worker -> Dirs]
      /\ pc \in [Worker -> PCs] /\ want \in [Worker -> Version \cup {None}]
      /\ existing \in [Worker -> Rows]
  BY DEF TypeOK
<1>e. env' = env
  BY EnvFixed
<1>p. /\ ~ Fault /\ env.ops = {"install"} /\ Outnumbered
      /\ \A w \in Worker : Racing(w) /\ Local(w)
  BY <1>e, NoFault DEF CopyInv, LocalInv
<1>c. /\ Undoers \in SUBSET Worker /\ Safe \in SUBSET Worker
      /\ Cardinality(Undoers) \in Nat /\ Cardinality(Safe) \in Nat
      /\ AtTarget \in {0, 1}
  BY Counting DEF Undoers, Safe, AtTarget
<1>d. ASSUME Undoers' = Undoers, Safe' = Safe, AtTarget' = AtTarget,
             UNCHANGED <<row, left>>
      PROVE  Outnumbered'
  BY <1>d, <1>p DEF Outnumbered
<1>u. ASSUME NEW w \in Worker, Arrives(w) \/ Step(w)
      PROVE  /\ Undoers' = IF pc'[w] \in {"insert", "undoNew"}
                           THEN Undoers \cup {w} ELSE Undoers \ {w}
             /\ Safe' = IF /\ backup'[w] # None
                           /\ pc'[w] \notin {"replace", "dropBackup"}
                        THEN Safe \cup {w} ELSE Safe \ {w}
  BY <1>u, Frame DEF Undoers, Safe
<1>m. \A w \in Worker : /\ w \in Undoers <=> pc[w] \in {"insert", "undoNew"}
                        /\ w \in Safe <=> /\ backup[w] # None
                                          /\ pc[w] \notin {"replace", "dropBackup"}
  BY DEF Undoers, Safe
<1>s. ASSUME NEW w \in Worker, Arrives(w) \/ Step(w),
             UNCHANGED <<row, target, backup, left>>,
             pc[w] \notin {"replace", "dropBackup"},
             pc'[w] \notin {"replace", "dropBackup"},
             pc[w] \in {"insert", "undoNew"} <=> pc'[w] \in {"insert", "undoNew"}
      PROVE  Outnumbered'
  <2>1. Undoers' = Undoers
    BY <1>s, <1>u, <1>m
  <2>2. Safe' = Safe
    BY <1>s, <1>u, <1>m
  <2> QED
    BY <1>s, <1>d, <2>1, <2>2 DEF AtTarget
<1> USE DEF Return, Continue, Goto, SetTemp, SetBackup, dirs, Fails
<1> USE DEF InstallPcs, NewPcs, SwapPcs
<1>1. ASSUME NEW w \in Worker, NEW v \in Version, BeginInstall(w, v)
      PROVE  Outnumbered'
  <2>1. /\ pc[w] = "idle" /\ pc'[w] = "check" /\ backup'[w] = None
        /\ UNCHANGED <<row, target>> /\ left' = left \cup ({backup[w]} \ {None})
    BY <1>0, <1>1 DEF BeginInstall, Ready
  <2>2. CASE backup[w] # None \/ left # {}
    BY <2>1, <2>2 DEF Outnumbered
  <2>3. CASE backup[w] = None /\ left = {}
    <3>1. Undoers' = Undoers /\ Safe' = Safe
      BY <1>1, <1>u, <1>m, <2>1, <2>3 DEF Arrives
    <3> QED
      BY <1>d, <2>1, <2>3, <3>1 DEF AtTarget
  <2> QED
    BY <2>2, <2>3
<1>2. ASSUME NEW w \in Worker, CheckExisting(w) PROVE Outnumbered'
  BY <1>0, <1>2, <1>s DEF CheckExisting, Step
<1>3. ASSUME NEW w \in Worker, Stage(w) PROVE Outnumbered'
  BY <1>0, <1>3, <1>s DEF Stage, Step
<1>4. ASSUME NEW w \in Worker, CheckTarget(w) PROVE Outnumbered'
  BY <1>0, <1>4, <1>s DEF CheckTarget, Step
<1>5. ASSUME NEW w \in Worker, Place(w) PROVE Outnumbered'
  <2>1. CASE target # None
    BY <1>0, <1>5, <1>p, <1>s, <2>1 DEF Place, Step
  <2>2. CASE target = None
    <3>1. /\ pc[w] = "place" /\ pc'[w] = "insert" /\ target' = temp[w]
          /\ UNCHANGED <<row, backup, left>>
      BY <1>0, <1>5, <1>p, <2>2 DEF Place
    <3>2. target' # None
      BY <1>p, <3>1, DirFacts DEF Local
    <3>3. /\ Undoers' = Undoers \cup {w} /\ w \notin Undoers
          /\ Safe' = Safe
      BY <1>5, <1>u, <1>m, <3>1 DEF Step
    <3>4. Cardinality(Undoers') = Cardinality(Undoers) + 1
      BY <1>c, <3>3, Counting
    <3> QED
      BY <1>c, <1>p, <2>2, <3>1, <3>2, <3>3, <3>4 DEF Outnumbered, AtTarget
  <2> QED
    BY <2>1, <2>2
<1>6. ASSUME NEW w \in Worker, InsertRow(w) PROVE Outnumbered'
  <2>1. CASE row # None
    BY <1>0, <1>6, <1>p, <1>s, <2>1 DEF InsertRow, Step
  <2>2. CASE row = None
    <3>1. /\ pc[w] = "insert" /\ pc'[w] = "idle"
          /\ UNCHANGED <<target, backup, left>>
      BY <1>0, <1>6, <1>p, <2>2 DEF InsertRow
    <3>2. Undoers' = {} /\ target' # None
      <4>1. Undoers' = Undoers \ {w}
        BY <1>6, <1>u, <3>1 DEF Step
      <4>2. \A u \in Worker \ {w} : u \notin Undoers
        BY <1>p, <1>m, <2>2, <3>1 DEF Racing
      <4> QED
        BY <1>c, <1>p, <2>2, <3>1, <4>1, <4>2 DEF Racing
    <3>3. Cardinality(Undoers') = 0 /\ Cardinality(Safe') \in Nat
      <4>1. Safe' \in SUBSET Worker
        BY DEF Safe
      <4> QED
        BY <3>2, <4>1, Counting
    <3> QED
      BY <3>2, <3>3 DEF Outnumbered, AtTarget
  <2> QED
    BY <2>1, <2>2
<1>7. ASSUME NEW w \in Worker, UndoNew(w) PROVE Outnumbered'
  <2>1. /\ pc[w] = "undoNew" /\ pc'[w] = "idle" /\ target' = None
        /\ UNCHANGED <<row, backup, left>>
    BY <1>0, <1>7, <1>p DEF UndoNew, RemoveTarget
  <2>2. Undoers' = Undoers \ {w} /\ w \in Undoers /\ Safe' = Safe
    BY <1>7, <1>u, <1>m, <2>1 DEF Step
  <2>3. Cardinality(Undoers') = Cardinality(Undoers) - 1
    BY <1>c, <2>2, Counting
  <2> QED
    BY <1>c, <1>p, <2>1, <2>2, <2>3 DEF Outnumbered, AtTarget
<1>8. ASSUME NEW w \in Worker, SwapOut(w) PROVE Outnumbered'
  <2>1. CASE target = None
    BY <1>0, <1>8, <1>p, <1>s, <2>1 DEF SwapOut, Step
  <2>2. CASE target # None
    <3>1. /\ pc[w] = "swapOut" /\ pc'[w] = "swapIn" /\ backup[w] = None
          /\ backup'[w] = target /\ target' = None /\ UNCHANGED <<row, left>>
      BY <1>0, <1>8, <1>p, <2>2 DEF SwapOut, Local
    <3>2. Undoers' = Undoers /\ Safe' = Safe \cup {w} /\ w \notin Safe
      BY <1>8, <1>u, <1>m, <2>2, <3>1 DEF Step
    <3>3. Cardinality(Safe') = Cardinality(Safe) + 1
      BY <1>c, <3>2, Counting
    <3> QED
      BY <1>c, <1>p, <2>2, <3>1, <3>2, <3>3 DEF Outnumbered, AtTarget
  <2> QED
    BY <2>1, <2>2
<1>9. ASSUME NEW w \in Worker, NEW d, pc[w] \in {"swapIn", "swapBack"},
             Step(w), target = None, target' = d, d # None,
             \/ backup'[w] = None
             \/ pc'[w] = "replace",
             pc'[w] \notin {"insert", "undoNew"}, UNCHANGED <<row, left>>
      PROVE  Outnumbered'
  <2>1. Undoers' = Undoers /\ Safe' = Safe \ {w} /\ w \in Safe
    BY <1>9, <1>p, <1>u, <1>m DEF Local
  <2>2. Cardinality(Safe') = Cardinality(Safe) - 1
    BY <1>c, <2>1, Counting
  <2> QED
    BY <1>c, <1>p, <1>9, <2>1, <2>2 DEF Outnumbered, AtTarget
<1>10. ASSUME NEW w \in Worker, SwapIn(w) PROVE Outnumbered'
  <2>1. CASE target # None
    BY <1>0, <1>10, <1>p, <1>s, <2>1 DEF SwapIn, Step
  <2>2. CASE target = None
    <3>1. temp[w] # None
      BY <1>p, <1>10, DirFacts DEF Local, SwapIn
    <3> QED
      BY <1>0, <1>9, <1>10, <1>p, <2>2, <3>1 DEF SwapIn, Step
  <2> QED
    BY <2>1, <2>2
<1>11. ASSUME NEW w \in Worker, SwapBack(w) PROVE Outnumbered'
  <2>1. CASE target # None
    BY <1>0, <1>11, <1>p, <1>s, <2>1 DEF SwapBack, Step
  <2>2. CASE target = None
    <3>1. backup[w] # None
      BY <1>p, <1>11 DEF Local, SwapBack
    <3>2. /\ pc[w] = "swapBack" /\ pc'[w] = "idle" /\ target' = backup[w]
          /\ backup'[w] = None /\ UNCHANGED <<row, left>>
      BY <1>0, <1>11, <1>p, <2>2 DEF SwapBack
    <3> QED
      BY <1>9, <1>11, <2>2, <3>1, <3>2 DEF Step
  <2> QED
    BY <2>1, <2>2
<1>12. ASSUME NEW w \in Worker, ReplaceRow(w) PROVE Outnumbered'
  <2>1. row # None
    BY <1>p, <1>12 DEF Racing, Local, ReplaceRow
  <2>2. /\ pc[w] = "replace" /\ pc'[w] = "dropBackup"
        /\ UNCHANGED <<target, backup, left>>
    BY <1>0, <1>12, <1>p, <2>1 DEF ReplaceRow
  <2>3. Undoers' = Undoers /\ Safe' = Safe
    BY <1>12, <1>u, <1>m, <2>2 DEF Step
  <2> QED
    BY <1>p, <2>1, <2>2, <2>3 DEF Outnumbered, AtTarget
<1>13. ASSUME NEW w \in Worker, DropBackup(w) PROVE Outnumbered'
  <2>1. /\ pc[w] = "dropBackup" /\ pc'[w] = "idle" /\ backup'[w] = None
        /\ UNCHANGED <<row, target, left>>
    BY <1>0, <1>13, <1>p DEF DropBackup
  <2>2. Undoers' = Undoers \ {w} /\ w \notin Undoers
    BY <1>13, <1>u, <1>m, <2>1 DEF Step
  <2>3. Safe' = Safe \ {w} /\ w \notin Safe
    BY <1>13, <1>u, <1>m, <2>1 DEF Step
  <2> QED
    BY <1>d, <2>1, <2>2, <2>3 DEF AtTarget
<1>14. ASSUME NEW w \in Worker
       PROVE  /\ ~ BeginDelete(w) /\ ~ BeginCreateSource(w) /\ ~ RollbackRow(w)
              /\ ~ UndoTarget(w) /\ ~ RestoreBackup(w) /\ ~ CheckAttached(w)
              /\ ~ DeleteRow(w) /\ ~ RemoveDir(w) /\ ~ InsertSource(w)
  BY <1>p
  DEF Racing, BeginDelete, BeginCreateSource, Ready, RollbackRow, UndoTarget,
      RestoreBackup, CheckAttached, DeleteRow, RemoveDir, InsertSource
<1>15. ASSUME NEW s \in Source PROVE ~ DeleteSource(s)
  BY <1>p DEF DeleteSource, Ready
<1>16. ASSUME Crash PROVE Outnumbered'
  <2>1. /\ UNCHANGED <<row, target, backup, left>>
        /\ \A w \in Worker : pc'[w] = "idle"
    BY <1>16 DEF Crash
  <2>2. Undoers' = {} /\ Safe \subseteq Safe' /\ Safe' \in SUBSET Worker
    BY <2>1 DEF Undoers, Safe
  <2>3. Cardinality(Undoers') = 0 /\ Cardinality(Safe') \in Nat
    BY <2>2, Counting
  <2>4. Cardinality(Safe) <= Cardinality(Safe')
    <3>1. IsFiniteSet(Safe')
      BY <2>2, FS_Subset, WorkerAssumption
    <3> QED
      BY <2>2, <3>1, FS_Subset
  <2> QED
    BY <1>c, <1>p, <2>1, <2>3, <2>4 DEF Outnumbered, AtTarget
<1>17. ASSUME UNCHANGED vars PROVE Outnumbered'
  BY <1>d, <1>17 DEF vars, Undoers, Safe, AtTarget
<1> QED
  BY <1>1, <1>2, <1>3, <1>4, <1>5, <1>6, <1>7, <1>8, <1>10, <1>11, <1>12,
     <1>13, <1>14, <1>15, <1>16, <1>17
  DEF Next, Step

(***************************************************************************)
(* The two parts of what racing installs keep.                             *)
(***************************************************************************)
LEMMA CopyStep == TypeOK /\ LocalInv /\ CopyInv /\ [Next]_vars => CopyInv'
BY RacingStep, OutnumberedStep DEF CopyInv

----------------------------------------------------------------------------
(***************************************************************************)
(* Type correctness of every reachable state.                              *)
(***************************************************************************)
THEOREM TypeCorrect == Spec => []TypeOK
BY TypeInit, TypeStep, LocalInit, LocalStep, PTL DEF Spec

(***************************************************************************)
(* A crash at any moment loses nothing: with one request at a time and a   *)
(* disk that works, the registered version's whole directory is the target *)
(* or a backup.                                                            *)
(***************************************************************************)
THEOREM RecoverableHolds == Spec => []Recoverable
<1>1. KeptInv => Recoverable
  BY DEF KeptInv, Recoverable
<1> QED
  BY <1>1, TypeInit, TypeStep, LocalInit, LocalStep, SoloInit, SoloStep,
     KeptInit, KeptStep, PTL DEF Spec

(***************************************************************************)
(* A request that returns leaves the disk in order, also when one call     *)
(* failed.                                                                 *)
(***************************************************************************)
THEOREM ReturnsInOrderHolds == Spec => []ReturnsInOrder
<1>1. OrderInv => ReturnsInOrder
  BY DEF OrderInv, ReturnsInOrder, Quiet, Matching, Swapping, Orderly, SwapPcs
<1> QED
  BY <1>1, TypeInit, TypeStep, LocalInit, LocalStep, SoloInit, SoloStep,
     OrderInit, OrderStep, PTL DEF Spec

(***************************************************************************)
(* However many installs race, and wherever a crash interrupts them, they  *)
(* never destroy the last whole copy of a registered plugin.               *)
(***************************************************************************)
THEOREM SomeCopyLeftHolds == Spec => []SomeCopyLeft
<1>1. CopyInv /\ TypeOK => SomeCopyLeft
  <2> SUFFICES ASSUME CopyInv, env.ops = {"install"}, env.maxFaults = 0,
                      row # None
               PROVE  \E v \in Version : Dir(v) \in {target} \cup Kept
    BY DEF SomeCopyLeft
  <2>1. \/ left # {} \/ target # None
        \/ \E w \in Worker : backup[w] # None
    <3>1. CASE Safe = {}
      BY <3>1, Counting DEF CopyInv, Outnumbered, AtTarget, Undoers
    <3>2. CASE Safe # {}
      BY <3>2 DEF Safe
    <3> QED
      BY <3>1, <3>2
  <2> QED
    BY <2>1 DEF CopyInv, Racing, Whole, Kept
<1> QED
  BY <1>1, TypeInit, TypeStep, LocalInit, LocalStep, CopyInit, CopyStep, PTL
  DEF Spec
============================================================================
