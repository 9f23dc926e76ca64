------------------------- MODULE DesktopCoreProofs -------------------------
(***************************************************************************)
(* Theorems about DesktopCore, for any number of core processes, bridge    *)
(* tasks, runs of the bootstrap effect, closers and crashes.               *)
(***************************************************************************)
EXTENDS DesktopCore, TLAPS

USE DesktopAssumption DEF Token

(***************************************************************************)
(* Whoever reads a bootstrap line holds its process, and only a call that  *)
(* waits for a process holds one.                                          *)
(***************************************************************************)
HandInv ==
  \A a \in Actor :
    /\ pc[a] = "bootline" => hand[a] \in Proc
    /\ hand[a] # NoProc => pc[a] \in {"bootline", "cleared", "stopping"}

(***************************************************************************)
(* Before the shell opens nothing runs; beside the preload nothing does;   *)
(* only the preload and the window's bootstrap start a core.               *)
(***************************************************************************)
BootInv ==
  /\ shell = "new" => ui.phase = "idle" /\ \A a \in Actor : pc[a] = "idle"
  /\ pc[Setup] # "idle" =>
       ui.phase = "idle" /\ \A a \in Actor \ {Setup} : pc[a] = "idle"
  /\ \A a \in Actor :
       pc[a] \in {"start", "launch", "bootline"} => a \in Mount \cup {Setup}

(***************************************************************************)
(* What is stored of a child came with its bootstrap line: a pid never     *)
(* without a token, a child never without having come up.                  *)
(***************************************************************************)
PidHasToken == mgr.pid => mgr.token # NoToken

ChildInv == mgr.child # NoProc => issued[mgr.child] # NoToken

(***************************************************************************)
(* A core that printed its line has come up, and the lock of the data      *)
(* directory admits one core at a time.                                    *)
(***************************************************************************)
CoreInv ==
  /\ \A p \in Proc : issued[p] # NoToken => ~(proc[p] \in {"unused", "starting"})
  /\ \A p, q \in Proc :
       proc[p] \in {"serving", "closing"} /\ proc[q] \in {"serving", "closing"}
         => p = q

(***************************************************************************)
(* The inductive invariant.                                                *)
(***************************************************************************)
IInv ==
  /\ TypeOK /\ BootInv /\ HandInv /\ PidHasToken /\ ChildInv /\ CoreInv
  /\ TokenHasOwner

(***************************************************************************)
(* With one start at a time (see NoOrphanHolds): a start that is past its  *)
(* check finds nothing stored.                                             *)
(***************************************************************************)
StartInv ==
  /\ NoOrphan
  /\ \A p \in own : proc[p] # "unused"
  /\ \A a \in Actor : pc[a] \in {"launch", "bootline"} => mgr.child = NoProc

-----------------------------------------------------------------------------
(***************************************************************************)
(* reap_child_if_exited keeps the state or, when the child has exited,     *)
(* clears it.                                                              *)
(***************************************************************************)
LEMMA ReapedIs ==
  ASSUME TypeOK
  PROVE  /\ Reaped(mgr) \in Manager
         /\ \/ Reaped(mgr) = mgr
            \/ /\ Reaped(mgr) = NoCore
               /\ mgr.child \in Proc /\ proc[mgr.child] = "exited"
  BY DEF TypeOK, Reaped, NoCore, Manager

(***************************************************************************)
(* try_restore_admin_token changes nothing in a state in which a known pid *)
(* comes with a token.                                                     *)
(***************************************************************************)
LEMMA RestoredIs ==
  ASSUME TypeOK, NEW m \in Manager
  PROVE  /\ Restored(m) \in Manager
         /\ (m.pid => m.token # NoToken) => Restored(m) = m
  BY DEF TypeOK, Restored, Manager

(***************************************************************************)
(* What a command reads before its await is a state of the manager.        *)
(***************************************************************************)
LEMMA SessionTyped ==
  ASSUME TypeOK PROVE Session \in Manager /\ Restored(mgr) \in Manager
<1>1. Reaped(mgr) \in Manager BY ReapedIs
<1>2. mgr \in Manager BY DEF TypeOK
<1>3. file \in Token BY DEF TypeOK
<1> QED BY <1>1, <1>2, <1>3 DEF Session, Restored, Manager

(***************************************************************************)
(* Storing a state of the manager keeps the bridge tasks typed.            *)
(***************************************************************************)
LEMMA BecomeTyped ==
  ASSUME TypeOK, NEW m \in Manager, Become(m)
  PROVE  mgr' \in Manager /\ bridge' \in [Task -> {"idle", "opening"} \cup Proc]
  BY DEF TypeOK, Become

(***************************************************************************)
(* The window's queue only holds bridge events.                            *)
(***************************************************************************)
LEMMA EmitTyped ==
  ASSUME TypeOK, NEW k \in {"connected", "disconnected"}, Emit(k)
  PROVE  inbox' \in Seq({"connected", "disconnected"})
  BY DEF TypeOK, Emit

(***************************************************************************)
(* Setting the stream's flag leaves the phase of the window alone.         *)
(***************************************************************************)
LEMMA SetActiveTyped ==
  ASSUME NEW u \in Window, NEW v \in BOOLEAN
  PROVE  SetActive(u, v) \in Window /\ SetActive(u, v).phase = u.phase
  BY DEF SetActive, Window
(***************************************************************************)
(* The parts of the type invariant, and what a step does to its actor.     *)
(***************************************************************************)
ControlOK ==
  /\ pc \in [Actor -> Labels] /\ ret \in [Actor -> Callers]
  /\ res \in [Actor -> {"yes", "no", "err"}]
  /\ tok \in [Actor -> Token \cup {NoToken}]

Moves(a) ==
  \/ \E l \in Labels : Go(a, l)
  \/ \E l \in Labels, t \in Token \cup {NoToken} : Await(a, l, t)
  \/ \E l \in Labels, b \in Callers : Call(a, l, b)
  \/ \E r \in {"yes", "no", "err"} : Return(a, r)
  \/ Done(a)

(***************************************************************************)
(* A step of an actor keeps the control state typed.                       *)
(***************************************************************************)
LEMMA MovesTyped ==
  ASSUME TypeOK, NEW a \in Actor, Moves(a)
  PROVE  ControlOK'
<1>0. ControlOK BY DEF TypeOK, ControlOK
<1>1. ASSUME NEW l \in Labels, Go(a, l) PROVE ControlOK'
  BY <1>0, <1>1 DEF ControlOK, Go
<1>2. ASSUME NEW l \in Labels, NEW t \in Token \cup {NoToken}, Await(a, l, t)
      PROVE  ControlOK'
  BY <1>0, <1>2 DEF ControlOK, Await
<1>3. ASSUME NEW l \in Labels, NEW b \in Callers, Call(a, l, b) PROVE ControlOK'
  BY <1>0, <1>3 DEF ControlOK, Call
<1>4. ASSUME NEW r \in {"yes", "no", "err"}, Return(a, r) PROVE ControlOK'
  <2>1. pc' \in [Actor -> Labels]
    BY <1>0, <1>4 DEF ControlOK, Return, Labels, Callers
  <2>2. ret' \in [Actor -> Callers]
    BY <1>0, <1>4 DEF ControlOK, Return, Labels, Callers
  <2>3. res' \in [Actor -> {"yes", "no", "err"}]
    BY <1>0, <1>4 DEF ControlOK, Return, Labels, Callers
  <2>4. tok' \in [Actor -> Token \cup {NoToken}]
    BY <1>0, <1>4 DEF ControlOK, Return, Labels, Callers
  <2> QED BY <2>1, <2>2, <2>3, <2>4 DEF ControlOK
<1>5. CASE Done(a)
  <2>1. pc' \in [Actor -> Labels]
    BY <1>0, <1>5 DEF ControlOK, Done, Labels, Callers
  <2>2. res' \in [Actor -> {"yes", "no", "err"}]
    BY <1>0, <1>5 DEF ControlOK, Done, Labels, Callers
  <2>3. ret' = ret /\ tok' = tok BY <1>5 DEF Done
  <2> QED BY <1>0, <2>1, <2>2, <2>3 DEF ControlOK
<1> QED BY <1>1, <1>2, <1>3, <1>4, <1>5 DEF Moves

CoresOK ==
  /\ proc \in [Proc -> {"unused", "starting", "serving", "closing", "exited"}]
  /\ issued \in [Proc -> Token \cup {NoToken}]
  /\ own \subseteq Proc
  /\ file \in Token
  /\ mgr \in Manager
  /\ bridge \in [Task -> {"idle", "opening"} \cup Proc]
  /\ hand \in [Actor -> Proc \cup {NoProc}]

ShellOK ==
  /\ ui \in Window
  /\ inbox \in Seq({"connected", "disconnected"})
  /\ shell \in {"new", "open", "closed"} /\ upsets \in Nat

(***************************************************************************)
(* The type invariant in three parts: cores, control and window.           *)
(***************************************************************************)
LEMMA TypeSplit == TypeOK <=> CoresOK /\ ControlOK /\ ShellOK
  BY DEF TypeOK, CoresOK, ControlOK, ShellOK

(***************************************************************************)
(* Every step of a command moves its own actor and no other.               *)
(***************************************************************************)
LEMMA CommandMoves ==
  ASSUME TypeOK, NEW a \in Actor, Command(a) \/ LaunchFails(a)
  PROVE  Moves(a)
<1>0. Session.token \in Token \cup {NoToken}
  BY SessionTyped DEF Manager
<1>a. ASSUME NEW l \in Labels, Go(a, l) PROVE Moves(a) BY <1>a DEF Moves
<1>b. ASSUME NEW l \in Labels, NEW t \in Token \cup {NoToken}, Await(a, l, t)
      PROVE  Moves(a)
  BY <1>b DEF Moves
<1>c. ASSUME NEW r \in {"yes", "no", "err"}, Return(a, r) PROVE Moves(a)
  BY <1>c DEF Moves
<1>1. CASE StartCheck(a)
  BY <1>0, <1>a, <1>b, <1>c, <1>1 DEF StartCheck, Labels, Callers
<1>2. CASE Launch(a)
  BY <1>0, <1>a, <1>b, <1>c, <1>2 DEF Launch, Labels, Callers
<1>3. CASE StoreStarted(a)
  BY <1>0, <1>a, <1>b, <1>c, <1>3 DEF StoreStarted, Labels, Callers
<1>4. CASE BootlineFails(a)
  BY <1>0, <1>a, <1>b, <1>c, <1>4 DEF BootlineFails, Labels, Callers
<1>5. CASE WaitUntilHealthy(a)
  BY <1>0, <1>a, <1>b, <1>c, <1>5 DEF WaitUntilHealthy, Labels, Callers
<1>6. CASE ClearStarted(a)
  BY <1>0, <1>a, <1>b, <1>c, <1>6 DEF ClearStarted, Labels, Callers
<1>7. CASE Cleared(a)
  BY <1>0, <1>a, <1>b, <1>c, <1>7 DEF Cleared, Labels, Callers
<1>8. CASE StopTake(a)
  BY <1>0, <1>a, <1>b, <1>c, <1>8 DEF StopTake, Labels, Callers
<1>9. CASE StopTerminated(a)
  BY <1>0, <1>a, <1>b, <1>c, <1>9 DEF StopTerminated, Labels, Callers
<1>10. CASE StopRemotely(a)
  BY <1>0, <1>a, <1>b, <1>c, <1>10 DEF StopRemotely, Labels, Callers
<1>11. CASE StopClear(a)
  BY <1>0, <1>a, <1>b, <1>c, <1>11 DEF StopClear, Labels, Callers
<1>12. CASE StatusRead(a)
  BY <1>0, <1>a, <1>b, <1>c, <1>12 DEF StatusRead, Labels, Callers
<1>13. CASE StatusProbe(a)
  BY <1>0, <1>a, <1>b, <1>c, <1>13 DEF StatusProbe, Labels, Callers
<1>14. CASE ApiRead(a)
  BY <1>0, <1>a, <1>b, <1>c, <1>14 DEF ApiRead, Labels, Callers
<1>15. CASE ApiSend(a)
  BY <1>0, <1>a, <1>b, <1>c, <1>15 DEF ApiSend, Labels, Callers
<1>16. CASE BridgeRead(a)
  BY <1>0, <1>a, <1>b, <1>c, <1>16 DEF BridgeRead, Labels, Callers
<1>17. CASE BridgeProbe(a)
  BY <1>0, <1>a, <1>b, <1>c, <1>17 DEF BridgeProbe, Labels, Callers
<1>18. CASE BridgeSpawn(a)
  BY <1>0, <1>a, <1>b, <1>c, <1>18 DEF BridgeSpawn, Labels, Callers
<1>19. CASE LaunchFails(a)
  BY <1>0, <1>a, <1>b, <1>c, <1>19 DEF LaunchFails, Labels, Callers
<1> QED
  BY <1>1, <1>2, <1>3, <1>4, <1>5, <1>6, <1>7, <1>8, <1>9, <1>10, <1>11, <1>12,
     <1>13, <1>14, <1>15, <1>16, <1>17, <1>18, <1>19 DEF Command
(***************************************************************************)
(* The default state of the manager is a state of the manager.             *)
(***************************************************************************)
LEMMA NoCoreTyped == NoCore \in Manager
  BY DEF NoCore, Manager

(***************************************************************************)
(* A step of a command keeps processes, manager and bridges typed; a start *)
(* that reads its bootstrap line holds a process.                          *)
(***************************************************************************)
LEMMA CommandCores ==
  ASSUME TypeOK, HandInv, NEW a \in Actor, Command(a) \/ LaunchFails(a)
  PROVE  CoresOK'
<1>0. CoresOK BY TypeSplit
<1>1. Session \in Manager /\ Restored(mgr) \in Manager /\ Reaped(mgr) \in Manager
  BY SessionTyped, ReapedIs
<1>2. ASSUME NEW m \in Manager, Become(m)
      PROVE  mgr' \in Manager /\ bridge' \in [Task -> {"idle", "opening"} \cup Proc]
  BY <1>2, BecomeTyped
<1>3. CASE StartCheck(a)
  BY <1>0, <1>1, <1>2, <1>3 DEF StartCheck, CoresOK, cores
<1>4. CASE Launch(a)
  BY <1>0, <1>1, <1>4 DEF Launch, CoresOK, cores
<1>5. CASE StoreStarted(a)
  BY <1>0, <1>5 DEF StoreStarted, At, HandInv, CoresOK, cores, Manager
<1>6. CASE BootlineFails(a)
  BY <1>0, <1>1, <1>6 DEF BootlineFails, CoresOK, cores
<1>7. CASE WaitUntilHealthy(a)
  BY <1>0, <1>1, <1>7 DEF WaitUntilHealthy, CoresOK, cores
<1>8. CASE ClearStarted(a)
  BY <1>0, <1>2, NoCoreTyped, <1>8 DEF ClearStarted, CoresOK, Manager
<1>9. CASE Cleared(a)
  BY <1>0, <1>1, <1>9 DEF Cleared, CoresOK, cores
<1>10. CASE StopTake(a)
  <2>1. [Session EXCEPT !.child = NoProc, !.task = NoTask] \in Manager
    BY <1>1 DEF Manager
  <2>2. mgr' \in Manager /\ bridge' \in [Task -> {"idle", "opening"} \cup Proc]
    BY <2>1, <1>2, <1>10 DEF StopTake
  <2>3. Session.child \in Proc \cup {NoProc} BY <1>1 DEF Manager
  <2> QED BY <1>0, <2>2, <2>3, <1>10 DEF StopTake, CoresOK
<1>11. CASE StopTerminated(a)
  BY <1>0, <1>1, <1>11 DEF StopTerminated, CoresOK, cores
<1>12. CASE StopRemotely(a)
  BY <1>0, <1>1, <1>12 DEF StopRemotely, CoresOK, cores
<1>13. CASE StopClear(a)
  BY <1>0, <1>13 DEF StopClear, CoresOK, cores, Manager
<1>14. CASE StatusRead(a)
  BY <1>0, <1>1, <1>2, <1>14 DEF StatusRead, CoresOK, cores
<1>15. CASE StatusProbe(a)
  BY <1>0, <1>1, <1>15 DEF StatusProbe, CoresOK, cores
<1>16. CASE ApiRead(a)
  BY <1>0, <1>1, <1>2, <1>16 DEF ApiRead, CoresOK, cores
<1>17. CASE ApiSend(a)
  BY <1>0, <1>1, <1>17 DEF ApiSend, CoresOK, cores
<1>18. CASE BridgeRead(a)
  <2>1. [Session EXCEPT !.task = NoTask] \in Manager
    BY <1>1 DEF Manager
  <2>2. mgr' \in Manager /\ bridge' \in [Task -> {"idle", "opening"} \cup Proc]
    BY <1>1, <2>1, <1>2, <1>18 DEF BridgeRead
  <2> QED BY <1>0, <2>2, <1>18 DEF BridgeRead, CoresOK, cores
<1>19. CASE BridgeProbe(a)
  BY <1>0, <1>1, <1>19 DEF BridgeProbe, CoresOK, cores
<1>20. CASE BridgeSpawn(a)
  BY <1>0, <1>20 DEF BridgeSpawn, CoresOK, cores, Manager
<1>21. CASE LaunchFails(a)
  BY <1>0, <1>1, <1>21 DEF LaunchFails, CoresOK, cores
<1> QED
  BY <1>3, <1>4, <1>5, <1>6, <1>7, <1>8, <1>9, <1>10, <1>11, <1>12, <1>13,
     <1>14, <1>15, <1>16, <1>17, <1>18, <1>19, <1>20, <1>21 DEF Command

(***************************************************************************)
(* A step of a command keeps the window and its queue typed.               *)
(***************************************************************************)
LEMMA CommandShell ==
  ASSUME TypeOK, NEW a \in Actor, Command(a) \/ LaunchFails(a)
  PROVE  ShellOK'
<1>0. ShellOK BY TypeSplit
<1>1. ASSUME UNCHANGED <<ui, shell>>,
             UNCHANGED inbox \/ Emit("disconnected") \/ Emit("connected"),
             Upset \/ Calm
      PROVE  ShellOK'
  BY <1>0, <1>1, EmitTyped DEF ShellOK, Upset, Calm
<1>2. CASE StartCheck(a)
  BY <1>1, <1>2 DEF StartCheck, Calm
<1>3. CASE Launch(a)
  BY <1>1, <1>3 DEF Launch, Calm
<1>4. CASE StoreStarted(a)
  BY <1>1, <1>4 DEF StoreStarted, Calm
<1>5. CASE BootlineFails(a)
  BY <1>1, <1>5 DEF BootlineFails, Calm
<1>6. CASE WaitUntilHealthy(a)
  BY <1>1, <1>6 DEF WaitUntilHealthy, Calm
<1>7. CASE ClearStarted(a)
  BY <1>1, <1>7 DEF ClearStarted, Calm
<1>8. CASE Cleared(a)
  BY <1>1, <1>8 DEF Cleared, Calm
<1>9. CASE StopTake(a)
  BY <1>1, <1>9 DEF StopTake, Calm
<1>10. CASE StopTerminated(a)
  BY <1>1, <1>10 DEF StopTerminated, Calm
<1>11. CASE StopRemotely(a)
  BY <1>1, <1>11 DEF StopRemotely, Calm
<1>12. CASE StopClear(a)
  BY <1>1, <1>12 DEF StopClear, Calm
<1>13. CASE StatusRead(a)
  BY <1>1, <1>13 DEF StatusRead, Calm
<1>14. CASE StatusProbe(a)
  BY <1>1, <1>14 DEF StatusProbe, Calm
<1>15. CASE ApiRead(a)
  BY <1>1, <1>15 DEF ApiRead, Calm
<1>16. CASE ApiSend(a)
  BY <1>1, <1>16 DEF ApiSend, Calm
<1>17. CASE BridgeRead(a)
  BY <1>1, <1>17 DEF BridgeRead, Calm
<1>18. CASE BridgeProbe(a)
  BY <1>1, <1>18 DEF BridgeProbe, Calm
<1>19. CASE BridgeSpawn(a)
  BY <1>1, <1>19 DEF BridgeSpawn, Calm
<1>20. CASE LaunchFails(a)
  BY <1>1, <1>20 DEF LaunchFails, Calm
<1> QED
  BY <1>2, <1>3, <1>4, <1>5, <1>6, <1>7, <1>8, <1>9, <1>10, <1>11, <1>12,
     <1>13, <1>14, <1>15, <1>16, <1>17, <1>18, <1>19, <1>20 DEF Command

(***************************************************************************)
(* The end of the shell leaves a typed state.                              *)
(***************************************************************************)
LEMMA ExitTyped == ASSUME TypeOK, Exit PROVE TypeOK'
<1>1. FreshUi \in Window BY DEF FreshUi, Window
<1>2. "idle" \in Labels /\ "idle" \in Callers BY DEF Labels, Callers
<1> QED BY <1>1, <1>2, NoCoreTyped DEF Exit, TypeOK

(***************************************************************************)
(* The window's bootstrap starts from a typed state.                       *)
(***************************************************************************)
LEMMA StartBootTyped ==
  ASSUME TypeOK, StartBoot
  PROVE  pc' \in [Actor -> Labels] /\ ret' \in [Actor -> Callers] /\ ui' \in Window
  BY DEF TypeOK, StartBoot, FreshUi, Window, Labels, Callers

(***************************************************************************)
(* Every step keeps the types.                                             *)
(***************************************************************************)
LEMMA TypeStep == ASSUME TypeOK, HandInv, [Next]_vars PROVE TypeOK'
<1>0. CoresOK /\ ControlOK /\ ShellOK BY TypeSplit
<1>s. CoresOK' /\ ControlOK' /\ ShellOK' => TypeOK'
  BY DEF TypeOK, CoresOK, ControlOK, ShellOK
<1>m. ASSUME NEW a \in Actor, Moves(a) PROVE ControlOK' BY <1>m, MovesTyped
<1>g. ASSUME NEW a \in Actor, NEW l \in Labels, Go(a, l) PROVE ControlOK'
  BY <1>g, <1>m DEF Moves
<1>c. ASSUME NEW a \in Actor, NEW l \in Labels, NEW b \in Callers, Call(a, l, b)
      PROVE  ControlOK'
  BY <1>c, <1>m DEF Moves
<1>d. ASSUME NEW a \in Actor, Done(a) PROVE ControlOK' BY <1>d, <1>m DEF Moves
<1>b. ASSUME NEW m \in Manager, Become(m)
      PROVE  mgr' \in Manager /\ bridge' \in [Task -> {"idle", "opening"} \cup Proc]
  BY <1>b, BecomeTyped
<1>S. Session \in Manager BY SessionTyped
<1>u. ASSUME Upset \/ Calm PROVE upsets' \in Nat
  BY <1>0, <1>u DEF Upset, Calm, ShellOK
<1>1. ASSUME NEW p \in Proc, CoreComesUp(p) \/ CoreExits(p) \/ CoreCrashes(p)
      PROVE  TypeOK'
  <2>1. CASE CoreComesUp(p)
    <3>1. proc' \in [Proc -> {"unused", "starting", "serving", "closing", "exited"}]
      BY <1>0, <2>1 DEF CoreComesUp, CoresOK
    <3>2. issued' \in [Proc -> Token \cup {NoToken}]
      BY <1>0, <2>1 DEF CoreComesUp, CoresOK
    <3> QED BY <1>0, <1>s, <2>1, <3>1, <3>2
         DEF CoreComesUp, CoresOK, ControlOK, ShellOK, commands
  <2>2. CASE CoreExits(p)
    BY <1>0, <1>s, <2>2
       DEF CoreExits, CoresOK, ControlOK, ShellOK, cores, commands
  <2>3. CASE CoreCrashes(p)
    BY <1>0, <1>s, <1>u, <2>3
       DEF CoreCrashes, CoresOK, ControlOK, ShellOK, cores, commands
  <2> QED BY <1>1, <2>1, <2>2, <2>3
<1>2. CASE RotateAdminToken
  BY <1>0, <1>s, <1>u, <1>2
     DEF RotateAdminToken, CoresOK, ControlOK, ShellOK, commands
<1>3. ASSUME NEW a \in Actor, Command(a) \/ LaunchFails(a) PROVE TypeOK'
  BY <1>s, <1>3, CommandCores, CommandShell, CommandMoves, MovesTyped
<1>4. ASSUME NEW t \in Task, BridgeConnects(t) PROVE TypeOK'
  BY <1>0, <1>s, <1>4
     DEF BridgeConnects, Serving, CoresOK, ControlOK, ShellOK, cores, commands
<1>5. ASSUME NEW t \in Task, BridgeEnds(t) PROVE TypeOK'
  <2>1. inbox' \in Seq({"connected", "disconnected"})
    BY <1>5, EmitTyped DEF BridgeEnds
  <2> QED BY <1>0, <1>s, <1>u, <1>5, <2>1
       DEF BridgeEnds, CoresOK, ControlOK, ShellOK, cores, commands
<1>6. CASE Listen
  <2>1. ui' \in Window BY <1>0, <1>6, SetActiveTyped DEF Listen, ShellOK
  <2>2. inbox' \in Seq({"connected", "disconnected"})
    BY <1>0, <1>6 DEF Listen, ShellOK
  <2> QED BY <1>0, <1>s, <1>6, <2>1, <2>2
       DEF Listen, CoresOK, ControlOK, ShellOK, cores, commands
<1>7. ASSUME NEW m \in Mount, BootAsked(m) PROVE TypeOK'
  <2>1. m \in Actor BY DEF Actor
  <2>2. ControlOK' BY <1>7, <1>g, <1>c, <2>1 DEF BootAsked, Labels, Callers
  <2> QED BY <1>0, <1>s, <1>7, <2>2 DEF BootAsked, CoresOK, ShellOK, cores
<1>8. ASSUME NEW m \in Mount, BootStarted(m) PROVE TypeOK'
  <2>1. m \in Actor BY DEF Actor
  <2>2. ControlOK' BY <1>8, <1>d, <1>c, <2>1 DEF BootStarted, Labels, Callers
  <2>3. ui' \in Window BY <1>0, <1>8 DEF BootStarted, ShellOK, Window
  <2> QED
    BY <1>0, <1>s, <1>8, <2>2, <2>3 DEF BootStarted, CoresOK, ShellOK, cores
<1>9. ASSUME NEW m \in Mount, BootHealth(m) PROVE TypeOK'
  <2>1. m \in Actor BY DEF Actor
  <2>2. ControlOK' BY <1>9, <1>d, <2>1 DEF BootHealth
  <2>3. ui' \in Window BY <1>0, <1>9 DEF BootHealth, ShellOK, Window
  <2> QED BY <1>0, <1>s, <1>S, <1>b, <1>9, <2>2, <2>3
       DEF BootHealth, CoresOK, ShellOK, cores
<1>10. Beat \in Actor BY DEF Actor
<1>11. CASE BeatStart
  <2>1. ControlOK' BY <1>11, <1>10, <1>c DEF BeatStart, Labels, Callers
  <2> QED BY <1>0, <1>s, <1>11, <2>1 DEF BeatStart, CoresOK, ShellOK, cores
<1>12. CASE BeatStatus
  <2>1. ControlOK'
    BY <1>12, <1>10, <1>c, <1>d, <1>g DEF BeatStatus, Labels, Callers
  <2>2. ui' \in Window BY <1>0, <1>12 DEF BeatStatus, EndRound, ShellOK, Window
  <2> QED
    BY <1>0, <1>s, <1>12, <2>1, <2>2 DEF BeatStatus, CoresOK, ShellOK, cores
<1>13. CASE BeatHealth
  <2>1. ControlOK' BY <1>13, <1>10, <1>d DEF BeatHealth
  <2>2. ui' \in Window BY <1>0, <1>13 DEF BeatHealth, EndRound, ShellOK, Window
  <2> QED BY <1>0, <1>s, <1>S, <1>b, <1>13, <2>1, <2>2
       DEF BeatHealth, CoresOK, ShellOK, cores
<1>14. CASE OpenShell
  <2>1. CASE StartBoot /\ UNCHANGED <<res, tok>>
    BY <1>0, <1>s, <1>14, <2>1, StartBootTyped
       DEF OpenShell, CoresOK, ControlOK, ShellOK, cores
  <2>2. CASE Call(Setup, "start", "preloaded") /\ UNCHANGED ui
    <3>1. ControlOK' BY <2>2, <1>c DEF Actor, Labels, Callers
    <3> QED
      BY <1>0, <1>s, <1>14, <2>2, <3>1 DEF OpenShell, CoresOK, ShellOK, cores
  <2> QED BY <1>14, <2>1, <2>2 DEF OpenShell
<1>15. CASE Preloaded
  BY <1>0, <1>s, <1>15, ExitTyped, StartBootTyped
     DEF Preloaded, CoresOK, ControlOK, ShellOK, cores
<1>16. ASSUME NEW c \in Closer,
              Quit(c) \/ QuitAndStop(c) \/ CloseRequested(c) \/ Closing(c)
       PROVE  TypeOK'
  <2>1. c \in Actor BY DEF Actor
  <2>2. CASE Quit(c) BY <2>2, ExitTyped DEF Quit
  <2>3. CASE QuitAndStop(c)
    <3>1. ControlOK' BY <2>1, <2>3, <1>c DEF QuitAndStop, Labels, Callers
    <3> QED
      BY <1>0, <1>s, <1>u, <2>3, <3>1 DEF QuitAndStop, CoresOK, ShellOK, cores
  <2>4. CASE CloseRequested(c)
    <3>1. ControlOK' BY <2>1, <2>4, <1>c DEF CloseRequested, Labels, Callers
    <3> QED BY <1>0, <1>s, <1>u, <2>4, <3>1
         DEF CloseRequested, CoresOK, ShellOK, cores
  <2>5. CASE CloseBehavior(c)
    <3>1. Done(c) \/ Go(c, "destroy") \/ Call(c, "stop", "destroy")
      BY <2>5 DEF CloseBehavior
    <3>2. ControlOK' BY <2>1, <3>1, <1>c, <1>d, <1>g DEF Labels, Callers
    <3> QED
      BY <1>0, <1>s, <2>5, <3>2 DEF CloseBehavior, CoresOK, ShellOK, cores
  <2>6. CASE DestroyWindow(c) BY <2>6, ExitTyped DEF DestroyWindow
  <2> QED BY <1>16, <2>2, <2>3, <2>4, <2>5, <2>6 DEF Closing
<1>17. CASE UNCHANGED vars
  BY <1>17 DEF vars, TypeOK
<1> QED
  BY <1>1, <1>2, <1>3, <1>4, <1>5, <1>6, <1>7, <1>8, <1>9, <1>11, <1>12, <1>13,
     <1>14, <1>15, <1>16, <1>17 DEF Next, Boot, Heartbeat

(***************************************************************************)
(* Where a start is before it has a child to store.                        *)
(***************************************************************************)
Starting == {"start", "launch", "bootline"}

(***************************************************************************)
(* A step of one actor leaves every other actor where it is.               *)
(***************************************************************************)
LEMMA OthersStay ==
  ASSUME TypeOK, NEW a \in Actor, Moves(a), NEW b \in Actor \ {a}
  PROVE  pc'[b] = pc[b] /\ tok'[b] = tok[b]
  BY DEF TypeOK, Moves, Go, Await, Call, Return, Done

(***************************************************************************)
(* Commands run in an open shell, and only a start goes on with a start.   *)
(***************************************************************************)
LEMMA CommandPc ==
  ASSUME TypeOK, NEW a \in Actor, Command(a) \/ LaunchFails(a)
  PROVE  /\ Open /\ pc[a] # "idle" /\ UNCHANGED <<ui, shell>>
         /\ pc'[a] \in Starting => pc[a] \in Starting
<1>0. pc \in [Actor -> Labels] /\ ret[a] \in Callers BY DEF TypeOK
<1>r. ret[a] \notin Starting BY <1>0 DEF Callers, Starting
<1> DEFINE Goal == /\ Open /\ pc[a] # "idle" /\ UNCHANGED <<ui, shell>>
                   /\ pc'[a] \in Starting => pc[a] \in Starting
<1>1. CASE StartCheck(a)
  BY <1>0, <1>r, <1>1 DEF StartCheck, At, Go, Await, Call, Return, Starting
<1>2. CASE Launch(a)
  BY <1>0, <1>r, <1>2 DEF Launch, At, Go, Await, Call, Return, Starting
<1>3. CASE StoreStarted(a)
  BY <1>0, <1>r, <1>3 DEF StoreStarted, At, Go, Await, Call, Return, Starting
<1>4. CASE BootlineFails(a)
  BY <1>0, <1>r, <1>4 DEF BootlineFails, At, Go, Await, Call, Return, Starting
<1>5. CASE WaitUntilHealthy(a)
  BY <1>0, <1>r, <1>5 DEF WaitUntilHealthy, At, Go, Await, Call, Return,
     Starting
<1>6. CASE ClearStarted(a)
  BY <1>0, <1>r, <1>6 DEF ClearStarted, At, Go, Await, Call, Return, Starting
<1>7. CASE Cleared(a)
  BY <1>0, <1>r, <1>7 DEF Cleared, At, Go, Await, Call, Return, Starting
<1>8. CASE StopTake(a)
  BY <1>0, <1>r, <1>8 DEF StopTake, At, Go, Await, Call, Return, Starting
<1>9. CASE StopTerminated(a)
  BY <1>0, <1>r, <1>9 DEF StopTerminated, At, Go, Await, Call, Return, Starting
<1>10. CASE StopRemotely(a)
  BY <1>0, <1>r, <1>10 DEF StopRemotely, At, Go, Await, Call, Return, Starting
<1>11. CASE StopClear(a)
  BY <1>0, <1>r, <1>11 DEF StopClear, At, Go, Await, Call, Return, Starting
<1>12. CASE StatusRead(a)
  BY <1>0, <1>r, <1>12 DEF StatusRead, At, Go, Await, Call, Return, Starting
<1>13. CASE StatusProbe(a)
  BY <1>0, <1>r, <1>13 DEF StatusProbe, At, Go, Await, Call, Return, Starting
<1>14. CASE ApiRead(a)
  BY <1>0, <1>r, <1>14 DEF ApiRead, At, Go, Await, Call, Return, Starting
<1>15. CASE ApiSend(a)
  BY <1>0, <1>r, <1>15 DEF ApiSend, At, Go, Await, Call, Return, Starting
<1>16. CASE BridgeRead(a)
  BY <1>0, <1>r, <1>16 DEF BridgeRead, At, Go, Await, Call, Return, Starting
<1>17. CASE BridgeProbe(a)
  BY <1>0, <1>r, <1>17 DEF BridgeProbe, At, Go, Await, Call, Return, Starting
<1>18. CASE BridgeSpawn(a)
  BY <1>0, <1>r, <1>18 DEF BridgeSpawn, At, Go, Await, Call, Return, Starting
<1>19. CASE LaunchFails(a)
  BY <1>0, <1>r, <1>19 DEF LaunchFails, At, Go, Await, Call, Return, Starting
<1> QED
  BY <1>1, <1>2, <1>3, <1>4, <1>5, <1>6, <1>7, <1>8, <1>9, <1>10, <1>11, <1>12,
     <1>13, <1>14, <1>15, <1>16, <1>17, <1>18, <1>19 DEF Command

(***************************************************************************)
(* Nothing runs beside the preload, and only the preload and the runs of   *)
(* the bootstrap effect start a core.                                      *)
(***************************************************************************)
LEMMA BootStep == ASSUME TypeOK, BootInv, [Next]_vars PROVE BootInv'
<1>0. pc \in [Actor -> Labels] /\ ret \in [Actor -> Callers] /\ ui \in Window
  BY DEF TypeOK
<1>A. /\ Beat \in Actor /\ Setup \in Actor
      /\ Mount \subseteq Actor /\ Closer \subseteq Actor
  BY DEF Actor
<1>N. /\ \A m \in Mount : m # Setup /\ m # Beat
      /\ \A c \in Closer : c # Setup /\ c # Beat
      /\ Beat # Setup
  BY DEF Beat, Setup
<1>x. ASSUME Exit PROVE BootInv'
  BY <1>x, <1>A DEF Exit, BootInv
<1>b. ASSUME StartBoot PROVE /\ pc'[Setup] = "idle" 
                             /\ \A a \in Actor : pc'[a] \in {"idle", "status"}
  BY <1>b, <1>A, <1>N DEF StartBoot
<1>u. ASSUME UNCHANGED <<pc, ui, shell>> PROVE BootInv'
  BY <1>u DEF BootInv
<1>k. ASSUME NEW a \in Actor \ {Setup}, shell # "new", UNCHANGED shell,
             pc[Setup] = "idle", pc' = [pc EXCEPT ![a] = pc'[a]],
             pc'[a] \in Starting => a \in Mount
      PROVE  BootInv'
  BY <1>k, <1>0, <1>A DEF BootInv, Starting
<1>1. ASSUME NEW p \in Proc, CoreComesUp(p) \/ CoreExits(p) \/ CoreCrashes(p)
      PROVE  BootInv'
  BY <1>1, <1>u DEF CoreComesUp, CoreExits, CoreCrashes, commands
<1>2. CASE RotateAdminToken BY <1>2, <1>u DEF RotateAdminToken, commands
<1>3. ASSUME NEW a \in Actor, Command(a) \/ LaunchFails(a) PROVE BootInv'
  <2>1. /\ Open /\ pc[a] # "idle" /\ UNCHANGED <<ui, shell>>
        /\ pc'[a] \in Starting => pc[a] \in Starting
    BY <1>3, CommandPc
  <2>2. \A b \in Actor \ {a} : pc'[b] = pc[b] BY <1>3, CommandMoves, OthersStay
  <2>3. shell # "new" BY <2>1 DEF Open
  <2>4. \A b \in Actor : pc'[b] \in Starting => pc[b] \in Starting
    BY <2>1, <2>2
  <2>5. pc'[Setup] # "idle" =>
          ui.phase = "idle" /\ \A b \in Actor \ {Setup} : pc'[b] = "idle"
    BY <2>1, <2>2, <1>A DEF BootInv
  <2> QED BY <2>1, <2>3, <2>4, <2>5 DEF BootInv, Starting
<1>4. ASSUME NEW t \in Task, BridgeConnects(t) \/ BridgeEnds(t) PROVE BootInv'
  BY <1>4, <1>u DEF BridgeConnects, BridgeEnds, commands
<1>5. CASE Listen
  <2>1. ui'.phase = ui.phase BY <1>0, <1>5, SetActiveTyped DEF Listen
  <2> QED BY <2>1, <1>5 DEF Listen, BootInv, commands
<1>6. ASSUME NEW m \in Mount, Boot(m) PROVE BootInv'
  <2>1. m \in Actor \ {Setup} BY <1>A, <1>N
  <2>2. Open /\ pc[m] # "idle" /\ UNCHANGED shell
    BY <1>6 DEF Boot, BootAsked, BootStarted, BootHealth, At
  <2>3. pc' = [pc EXCEPT ![m] = pc'[m]]
    BY <1>6, <1>0, <2>1 DEF Boot, BootAsked, BootStarted, BootHealth, Go, Call,
       Done
  <2> QED BY <1>k, <2>1, <2>2, <2>3 DEF BootInv, Open
<1>7. CASE Heartbeat
  <2>1. Open /\ (ui.phase # "idle" \/ pc[Beat] # "idle")
    BY <1>7 DEF Heartbeat, BeatStart, BeatStatus, BeatHealth, At
  <2>2. pc[Setup] = "idle" BY <2>1, <1>A, <1>N DEF BootInv
  <2>3. UNCHANGED shell
    BY <1>7 DEF Heartbeat, BeatStart, BeatStatus, BeatHealth
  <2>4. pc' = [pc EXCEPT ![Beat] = pc'[Beat]] /\ pc'[Beat] \notin Starting
    BY <1>7, <1>0, <1>A
       DEF Heartbeat, BeatStart, BeatStatus, BeatHealth, Go, Call, Done, Starting
  <2> QED BY <1>k, <1>A, <1>N, <2>1, <2>2, <2>3, <2>4 DEF Open
<1>8. CASE OpenShell
  <2>1. CASE StartBoot
    BY <1>8, <2>1, <1>b DEF OpenShell, BootInv
  <2>2. CASE Call(Setup, "start", "preloaded") /\ UNCHANGED ui
    BY <1>0, <1>A, <1>8, <2>2 DEF OpenShell, Call, BootInv
  <2> QED BY <1>8, <2>1, <2>2 DEF OpenShell
<1>9. CASE Preloaded
  <2>1. CASE Exit BY <2>1, <1>x
  <2>2. CASE StartBoot /\ UNCHANGED shell
    BY <1>9, <2>2, <1>b DEF Preloaded, At, Open, BootInv
  <2> QED BY <1>9, <2>1, <2>2 DEF Preloaded
<1>10. ASSUME NEW c \in Closer,
              Quit(c) \/ QuitAndStop(c) \/ CloseRequested(c) \/ Closing(c)
       PROVE  BootInv'
  <2>1. CASE Exit BY <2>1, <1>x
  <2>2. CASE QuitAndStop(c) \/ CloseRequested(c) \/ CloseBehavior(c)
    <3>1. c \in Actor \ {Setup} BY <1>A, <1>N
    <3>2. Open /\ (ui.phase # "idle" \/ pc[c] # "idle")
      BY <2>2 DEF QuitAndStop, CloseRequested, CloseBehavior, At
    <3>3. pc[Setup] = "idle" BY <3>1, <3>2, <1>A DEF BootInv
    <3>4. UNCHANGED shell
      BY <2>2 DEF QuitAndStop, CloseRequested, CloseBehavior
    <3>5. pc' = [pc EXCEPT ![c] = pc'[c]] /\ pc'[c] \notin Starting
      BY <2>2, <1>0, <3>1
         DEF QuitAndStop, CloseRequested, CloseBehavior, Go, Call, Done, Starting
    <3> QED BY <1>k, <3>1, <3>2, <3>3, <3>4, <3>5 DEF Open
  <2> QED BY <1>10, <2>1, <2>2 DEF Quit, Closing, DestroyWindow
<1>11. CASE UNCHANGED vars BY <1>11, <1>u DEF vars, commands
<1> QED
  BY <1>1, <1>2, <1>3, <1>4, <1>5, <1>6, <1>7, <1>8, <1>9, <1>10, <1>11 DEF
     Next

(***************************************************************************)
(* Where a call must not be disturbed: it holds a process, or the token it *)
(* is about to drop.                                                       *)
(***************************************************************************)
Held == {"bootline", "cleared", "stopping", "stopped"}

(***************************************************************************)
(* A step is quiet when it leaves processes and handles alone, and of the  *)
(* manager's state changes at most the bridge task, or forgets a child     *)
(* that exited.                                                            *)
(***************************************************************************)
SameCore == mgr'.child = mgr.child /\ mgr'.pid = mgr.pid /\ mgr'.token = mgr.token
Forgotten ==
  /\ mgr.child \in Proc /\ proc[mgr.child] = "exited"
  /\ mgr'.child = NoProc /\ ~mgr'.pid /\ mgr'.token = NoToken

QuietStep ==
  /\ UNCHANGED <<proc, issued, own, hand>>
  /\ SameCore \/ Forgotten
  /\ \A a \in Actor :
       /\ pc[a] \in Held => pc'[a] = pc[a] /\ tok'[a] = tok[a]
       /\ pc'[a] = "bootline" => pc[a] = "bootline"
       /\ pc'[a] = "launch" => pc[a] = "launch" \/ mgr'.child = NoProc

(***************************************************************************)
(* The other steps: those of core processes, and those that handle a       *)
(* child.                                                                  *)
(***************************************************************************)
CoreStep(p) == CoreComesUp(p) \/ CoreExits(p) \/ CoreCrashes(p)
ChildStep(a) ==
  \/ Launch(a) \/ StoreStarted(a) \/ BootlineFails(a) \/ ClearStarted(a)
  \/ Cleared(a) \/ StopTake(a) \/ StopTerminated(a) \/ StopRemotely(a)
  \/ StopClear(a)

(***************************************************************************)
(* What a command reads is the manager's state or, after the child exited, *)
(* the empty one; restoring the token changes neither.                     *)
(***************************************************************************)
LEMMA SessionIs ==
  ASSUME TypeOK, PidHasToken
  PROVE  /\ Session = Reaped(mgr) /\ Restored(mgr) = mgr
         /\ Session \in Manager
         /\ \/ Session = mgr
            \/ Session = NoCore /\ mgr.child \in Proc /\ proc[mgr.child] = "exited"
<1>1. mgr \in Manager BY DEF TypeOK
<1>2. NoCore.pid = FALSE BY DEF NoCore
<1>3. Restored(mgr) = mgr BY <1>1, RestoredIs DEF PidHasToken
<1>4. Restored(Reaped(mgr)) = Reaped(mgr)
  BY <1>1, <1>2, ReapedIs, RestoredIs DEF PidHasToken
<1> QED BY <1>3, <1>4, ReapedIs DEF Session

(***************************************************************************)
(* A command that stores what it read keeps child, pid and token or        *)
(* forgets them with a child that exited.                                  *)
(***************************************************************************)
LEMMA SessionReads ==
  ASSUME TypeOK, PidHasToken,
         NEW m \in {Session, Reaped(mgr), [Session EXCEPT !.task = NoTask]},
         mgr' = m
  PROVE  SameCore \/ Forgotten
<1>1. mgr \in Manager BY DEF TypeOK
<1> QED
  BY <1>1, SessionIs, NoCoreTyped DEF SameCore, Forgotten, Manager, NoCore

(***************************************************************************)
(* The steps of commands that only read, probe, call or open a bridge are  *)
(* quiet.                                                                  *)
(***************************************************************************)
LEMMA QuietCommands ==
  ASSUME TypeOK, PidHasToken, NEW a \in Actor,
         StartCheck(a) \/ WaitUntilHealthy(a) \/ StatusRead(a) \/ StatusProbe(a)
           \/ ApiRead(a) \/ ApiSend(a) \/ BridgeRead(a) \/ BridgeProbe(a)
           \/ BridgeSpawn(a) \/ LaunchFails(a)
  PROVE  QuietStep
<1>0. pc \in [Actor -> Labels] /\ ret[a] \in Callers /\ mgr \in Manager
  BY DEF TypeOK
<1>1. ret[a] \notin {"launch", "bootline"} BY <1>0 DEF Callers
<1>2. \A b \in Actor \ {a} : pc'[b] = pc[b] /\ tok'[b] = tok[b]
  BY CommandMoves, OthersStay DEF Command
<1>3. ASSUME UNCHANGED <<proc, issued, own, hand>>, SameCore \/ Forgotten,
             pc[a] \notin Held, pc'[a] # "bootline",
             pc'[a] = "launch" => pc[a] = "launch" \/ mgr'.child = NoProc
      PROVE  QuietStep
  BY <1>2, <1>3 DEF QuietStep
<1>4. ASSUME mgr' = mgr PROVE SameCore BY <1>4 DEF SameCore
<1>5. ASSUME NEW m, Become(m) PROVE mgr' = m BY <1>5 DEF Become
<1>6. ASSUME NEW m \in {Session, Reaped(mgr), [Session EXCEPT !.task = NoTask]},
             Become(m)
      PROVE  SameCore \/ Forgotten
  BY <1>5, <1>6, SessionReads
<1>7. CASE StartCheck(a)
  <2>1. Become(Reaped(mgr)) /\ UNCHANGED <<cores, hand>> /\ pc[a] = "start"
    BY <1>7 DEF StartCheck, At
  <2>2. pc'[a] = IF mgr'.child # NoProc THEN "status" ELSE "launch"
    BY <1>0, <1>7, <1>5 DEF StartCheck, Go
  <2> QED BY <1>3, <1>6, <2>1, <2>2 DEF Held, cores
<1>8. CASE WaitUntilHealthy(a)
  BY <1>0, <1>1, <1>3, <1>4, <1>8 DEF WaitUntilHealthy, At, Go, Await, Call,
     Return, Held, cores
<1>9. CASE StatusRead(a)
  BY <1>0, <1>1, <1>3, <1>6, <1>9 DEF StatusRead, At, Go, Await, Call, Return,
     Held, cores
<1>10. CASE StatusProbe(a)
  BY <1>0, <1>1, <1>3, <1>4, SessionIs, <1>10 DEF StatusProbe, At, Go, Await,
     Call, Return, Held, cores
<1>11. CASE ApiRead(a)
  BY <1>0, <1>1, <1>3, <1>6, <1>11 DEF ApiRead, At, Go, Await, Call, Return,
     Held, cores
<1>12. CASE ApiSend(a)
  BY <1>0, <1>1, <1>3, <1>4, <1>12 DEF ApiSend, At, Go, Await, Call, Return,
     Held, cores
<1>13. CASE BridgeRead(a)
  BY <1>0, <1>1, <1>3, <1>6, <1>13 DEF BridgeRead, At, Go, Await, Call, Return,
     Held, cores
<1>14. CASE BridgeProbe(a)
  BY <1>0, <1>1, <1>3, <1>4, <1>14 DEF BridgeProbe, At, Go, Await, Call,
     Return, Held, cores
<1>15. CASE BridgeSpawn(a)
  BY <1>0, <1>1, <1>3, <1>4, <1>15 DEF BridgeSpawn, At, Go, Await, Call,
     Return, Held, cores, SameCore, Manager
<1>16. CASE LaunchFails(a)
  BY <1>0, <1>1, <1>3, <1>4, <1>16 DEF LaunchFails, At, Go, Await, Call,
     Return, Held, cores
<1> QED BY <1>7, <1>8, <1>9, <1>10, <1>11, <1>12, <1>13, <1>14, <1>15, <1>16

(***************************************************************************)
(* Every step is quiet, ends the shell, is a step of a core process, or is *)
(* one of the nine steps that launch, store, take, stop or forget a child. *)
(***************************************************************************)
LEMMA Classified ==
  ASSUME TypeOK, BootInv, PidHasToken, [Next]_vars
  PROVE  \/ QuietStep \/ Exit
         \/ \E p \in Proc : CoreStep(p)
         \/ \E a \in Actor : ChildStep(a)
<1> DEFINE Goal == \/ QuietStep \/ Exit
                   \/ \E p \in Proc : CoreStep(p)
                   \/ \E a \in Actor : ChildStep(a)
<1>0. pc \in [Actor -> Labels] /\ ret \in [Actor -> Callers] /\ mgr \in Manager
  BY DEF TypeOK
<1>A. /\ Beat \in Actor /\ Setup \in Actor
      /\ Mount \subseteq Actor /\ Closer \subseteq Actor
  BY DEF Actor
<1>N. Setup \notin Mount BY DEF Setup
<1>1. ASSUME UNCHANGED <<proc, issued, own, hand, pc, tok>>, mgr' = mgr
      PROVE  QuietStep
  BY <1>1 DEF QuietStep, SameCore
<1>2. ASSUME NEW a \in Actor, UNCHANGED <<proc, issued, own, hand, tok>>,
             SameCore \/ Forgotten, pc[a] \notin Held,
             pc' = [pc EXCEPT ![a] = pc'[a]], pc'[a] \notin {"launch", "bootline"}
      PROVE  QuietStep
  BY <1>0, <1>2 DEF QuietStep
<1>3. ASSUME Become(Session) PROVE SameCore \/ Forgotten
  BY <1>3, SessionReads DEF Become
<1>4. ASSUME mgr' = mgr PROVE SameCore BY <1>4 DEF SameCore
<1>5. ASSUME NEW a \in Actor, Command(a) \/ LaunchFails(a) PROVE Goal
  BY <1>5, QuietCommands DEF Command, ChildStep
<1>6. ASSUME NEW m \in Mount, Boot(m) PROVE QuietStep
  <2>1. m \in Actor BY <1>A
  <2>2. UNCHANGED <<proc, issued, own, hand, tok>> /\ (SameCore \/ Forgotten)
    BY <1>3, <1>4, <1>6
       DEF Boot, BootAsked, BootStarted, BootHealth, Go, Call, Done, cores
  <2>3. pc[m] \notin Held
    BY <1>6 DEF Boot, BootAsked, BootStarted, BootHealth, At, Held
  <2>4. pc' = [pc EXCEPT ![m] = pc'[m]] /\ pc'[m] \notin {"launch", "bootline"}
    BY <1>6, <1>0, <2>1 DEF Boot, BootAsked, BootStarted, BootHealth, Go, Call,
       Done
  <2> QED BY <1>2, <2>1, <2>2, <2>3, <2>4
<1>7. ASSUME Heartbeat PROVE QuietStep
  <2>2. UNCHANGED <<proc, issued, own, hand, tok>> /\ (SameCore \/ Forgotten)
    BY <1>3, <1>4, <1>7
       DEF Heartbeat, BeatStart, BeatStatus, BeatHealth, Go, Call, Done, cores
  <2>3. pc[Beat] \notin Held
    BY <1>7 DEF Heartbeat, BeatStart, BeatStatus, BeatHealth, At, Held
  <2>4. /\ pc' = [pc EXCEPT ![Beat] = pc'[Beat]]
        /\ pc'[Beat] \notin {"launch", "bootline"}
    BY <1>7, <1>0, <1>A DEF Heartbeat, BeatStart, BeatStatus, BeatHealth, Go,
       Call, Done
  <2> QED BY <1>2, <1>A, <2>2, <2>3, <2>4
<1>8. ASSUME NEW c \in Closer,
             Quit(c) \/ QuitAndStop(c) \/ CloseRequested(c) \/ Closing(c)
      PROVE  QuietStep \/ Exit
  <2>1. CASE Exit BY <2>1
  <2>2. CASE QuitAndStop(c) \/ CloseRequested(c) \/ CloseBehavior(c)
    <3>1. c \in Actor BY <1>A
    <3>2. UNCHANGED <<proc, issued, own, hand, tok>> /\ SameCore
      BY <1>4, <2>2
         DEF QuitAndStop, CloseRequested, CloseBehavior, Go, Call, Done, cores
    <3>3. pc[c] \notin Held
      BY <2>2 DEF QuitAndStop, CloseRequested, CloseBehavior, At, Held
    <3>4. pc' = [pc EXCEPT ![c] = pc'[c]] /\ pc'[c] \notin {"launch", "bootline"}
      BY <2>2, <1>0, <3>1
         DEF QuitAndStop, CloseRequested, CloseBehavior, Go, Call, Done
    <3> QED BY <1>2, <3>1, <3>2, <3>3, <3>4
  <2> QED BY <1>8, <2>1, <2>2 DEF Quit, Closing, DestroyWindow
<1>9. ASSUME StartBoot, UNCHANGED <<proc, issued, own, hand, mgr>>,
             \A a \in Actor : pc[a] \notin Held
      PROVE  QuietStep
  <2>1. \A a \in Actor : pc'[a] \notin {"launch", "bootline"}
    BY <1>9 DEF StartBoot
  <2> QED BY <1>4, <1>9, <2>1 DEF QuietStep
<1>10. CASE OpenShell
  <2>1. \A a \in Actor : pc[a] = "idle" BY <1>10 DEF OpenShell, BootInv
  <2>2. CASE StartBoot
    BY <1>9, <1>10, <2>1, <2>2 DEF OpenShell, cores, Held
  <2>3. CASE Call(Setup, "start", "preloaded")
    <3>1. pc' = [pc EXCEPT ![Setup] = "start"] /\ UNCHANGED tok
      BY <2>3 DEF Call
    <3> QED
      BY <1>0, <1>A, <1>2, <1>4, <1>10, <2>1, <3>1 DEF OpenShell, cores, Held
  <2> QED BY <1>10, <2>2, <2>3 DEF OpenShell
<1>11. CASE Preloaded
  <2>1. pc[Setup] = "preloaded" /\ \A a \in Actor \ {Setup} : pc[a] = "idle"
    BY <1>11 DEF Preloaded, At, BootInv
  <2>2. \A a \in Actor : pc[a] \notin Held BY <2>1 DEF Held
  <2> QED BY <1>9, <1>11, <2>2 DEF Preloaded, cores
<1>12. CASE RotateAdminToken BY <1>1, <1>12 DEF RotateAdminToken, commands
<1>13. ASSUME NEW t \in Task, BridgeConnects(t) \/ BridgeEnds(t) PROVE QuietStep
  BY <1>1, <1>13 DEF BridgeConnects, BridgeEnds, cores, commands
<1>14. CASE Listen BY <1>1, <1>14 DEF Listen, cores, commands
<1>15. CASE UNCHANGED vars BY <1>1, <1>15 DEF vars
<1> QED
  BY <1>5, <1>6, <1>7, <1>8, <1>10, <1>11, <1>12, <1>13, <1>14, <1>15
     DEF Next, CoreStep

(***************************************************************************)
(* A step that handles a child moves its own actor only.                   *)
(***************************************************************************)
LEMMA ChildStepPc ==
  ASSUME TypeOK, NEW a \in Actor, ChildStep(a)
  PROVE  \A b \in Actor \ {a} : pc'[b] = pc[b] /\ tok'[b] = tok[b]
  BY CommandMoves, OthersStay DEF Command, ChildStep

(***************************************************************************)
(* Only a call that waits for a process holds one.                         *)
(***************************************************************************)
LEMMA HandStep == ASSUME IInv, [Next]_vars PROVE HandInv'
<1>0. /\ pc \in [Actor -> Labels] /\ ret \in [Actor -> Callers] /\ mgr \in Manager
      /\ hand \in [Actor -> Proc \cup {NoProc}]
  BY DEF IInv, TypeOK
<1>1. CASE QuietStep BY <1>1 DEF QuietStep, IInv, HandInv, Held
<1>2. CASE Exit BY <1>2 DEF Exit, HandInv
<1>3. ASSUME NEW p \in Proc, CoreStep(p) PROVE HandInv'
  BY <1>3 DEF CoreStep, CoreComesUp, CoreExits, CoreCrashes, IInv, HandInv,
     commands
<1>4. ASSUME NEW a \in Actor, ChildStep(a) PROVE HandInv'
  <2>1. \A b \in Actor \ {a} : pc'[b] = pc[b] BY <1>4, ChildStepPc DEF IInv
  <2>2. ASSUME NEW h, hand' = [hand EXCEPT ![a] = h],
               pc'[a] = "bootline" => h \in Proc,
               h # NoProc => pc'[a] \in {"bootline", "cleared", "stopping"}
        PROVE  HandInv'
    BY <1>0, <2>1, <2>2 DEF IInv, HandInv
  <2>3. ret[a] # "bootline" BY <1>0 DEF Callers
  <2>4. CASE Launch(a)
    <3>1. PICK p \in Proc : proc[p] = "unused" /\ hand' = [hand EXCEPT ![a] = p]
      BY <2>4 DEF Launch
    <3> QED BY <1>0, <2>2, <2>4, <3>1 DEF Launch, Go
  <2>5. CASE StoreStarted(a)
    BY <1>0, <2>2, <2>5 DEF StoreStarted, Go
  <2>6. CASE BootlineFails(a)
    BY <1>0, <2>2, <2>6 DEF BootlineFails, Go
  <2>7. CASE ClearStarted(a)
    <3>1. CASE mgr.child = NoProc
      <4>1. hand' = hand /\ pc'[a] = ret[a] /\ pc[a] = "clear"
        BY <1>0, <2>7, <3>1 DEF ClearStarted, Return, At
      <4> QED BY <1>0, <2>1, <2>3, <4>1 DEF IInv, HandInv
    <3>2. CASE mgr.child # NoProc
      BY <1>0, <2>2, <2>7, <3>2 DEF ClearStarted, Go
    <3> QED BY <3>1, <3>2
  <2>8. CASE Cleared(a) BY <1>0, <2>2, <2>3, <2>8 DEF Cleared, Return
  <2>9. CASE StopTake(a) BY <1>0, <2>2, <2>9 DEF StopTake, Await
  <2>10. CASE StopTerminated(a) BY <1>0, <2>2, <2>10 DEF StopTerminated, Go
  <2>11. CASE StopRemotely(a)
    BY <1>0, <2>1, <2>11 DEF StopRemotely, Go, At, IInv, HandInv
  <2>12. CASE StopClear(a)
    BY <1>0, <2>1, <2>12 DEF StopClear, Go, At, IInv, HandInv
  <2> QED
    BY <1>4, <2>4, <2>5, <2>6, <2>7, <2>8, <2>9, <2>10, <2>11, <2>12 DEF
       ChildStep
<1> QED BY <1>1, <1>2, <1>3, <1>4, Classified DEF IInv

(***************************************************************************)
(* At most one core has the lock, and a core that printed its line has     *)
(* come up.                                                                *)
(***************************************************************************)
LEMMA CoreStepKeeps == ASSUME IInv, [Next]_vars PROVE CoreInv'
<1>0. /\ proc \in [Proc -> {"unused", "starting", "serving", "closing", "exited"}]
      /\ issued \in [Proc -> Token \cup {NoToken}] /\ CoreInv
  BY DEF IInv, TypeOK
<1>1. CASE QuietStep BY <1>0, <1>1 DEF QuietStep, CoreInv
<1>2. CASE Exit BY <1>0, <1>2 DEF Exit, CoreInv
<1>3. ASSUME issued' = issued,
             \A p \in Proc :
               /\ proc'[p] \in {"serving", "closing"} =>
                    proc[p] \in {"serving", "closing"}
               /\ proc'[p] \in {"unused", "starting"} => issued[p] = NoToken
      PROVE  CoreInv'
  BY <1>0, <1>3 DEF CoreInv
<1>4. ASSUME NEW p \in Proc, CoreStep(p) PROVE CoreInv'
  <2>1. CASE CoreComesUp(p)
    <3>1. CASE LockFree
      BY <1>0, <2>1, <3>1 DEF CoreComesUp, LockFree, CoreInv
    <3>2. CASE ~LockFree
      BY <1>0, <1>3, <2>1, <3>2 DEF CoreComesUp, CoreInv
    <3> QED BY <3>1, <3>2
  <2>2. CASE CoreExits(p) BY <1>0, <1>3, <2>2 DEF CoreExits, CoreInv
  <2>3. CASE CoreCrashes(p) BY <1>0, <1>3, <2>3 DEF CoreCrashes, CoreInv
  <2> QED BY <1>4, <2>1, <2>2, <2>3 DEF CoreStep
<1>5. ASSUME NEW a \in Actor, ChildStep(a) PROVE CoreInv'
  <2>1. CASE Launch(a)
    <3>1. PICK p \in Proc :
            proc[p] = "unused" /\ proc' = [proc EXCEPT ![p] = "starting"]
      BY <2>1 DEF Launch
    <3> QED BY <1>0, <1>3, <2>1, <3>1 DEF Launch, CoreInv
  <2>2. CASE StoreStarted(a) \/ Cleared(a) \/ StopTerminated(a) \/ StopClear(a)
    BY <1>0, <2>2 DEF StoreStarted, Cleared, StopTerminated, StopClear, cores,
       CoreInv
  <2>3. CASE BootlineFails(a)
    BY <1>0, <1>3, <2>3 DEF BootlineFails, CoreInv
  <2>4. CASE ClearStarted(a) BY <1>0, <1>3, <2>4 DEF ClearStarted, CoreInv
  <2>5. CASE StopTake(a) BY <1>0, <1>3, <2>5 DEF StopTake, CoreInv
  <2>6. CASE StopRemotely(a) BY <1>0, <1>3, <2>6 DEF StopRemotely, CoreInv
  <2> QED BY <1>5, <2>1, <2>2, <2>3, <2>4, <2>5, <2>6 DEF ChildStep
<1> QED BY <1>1, <1>2, <1>4, <1>5, Classified DEF IInv

(***************************************************************************)
(* A stored child has printed its line, and a known pid comes with a       *)
(* token.                                                                  *)
(***************************************************************************)
LEMMA ChildStepKeeps == ASSUME IInv, [Next]_vars PROVE PidHasToken' /\ ChildInv'
<1> DEFINE Goal == PidHasToken' /\ ChildInv'
<1>0. /\ mgr \in Manager /\ issued \in [Proc -> Token \cup {NoToken}]
      /\ PidHasToken /\ ChildInv
  BY DEF IInv, TypeOK
<1>1. CASE QuietStep
  BY <1>0, <1>1 DEF QuietStep, SameCore, Forgotten, PidHasToken, ChildInv
<1>2. CASE Exit BY <1>2 DEF Exit, NoCore, PidHasToken, ChildInv
<1>3. ASSUME NEW p \in Proc, CoreStep(p) PROVE Goal
  <2>1. file # NoToken BY DEF IInv, TypeOK
  <2>2. mgr' = mgr /\ \A q \in Proc : issued[q] # NoToken => issued'[q] # NoToken
    BY <1>0, <1>3, <2>1 DEF CoreStep, CoreComesUp, CoreExits, CoreCrashes
  <2> QED BY <1>0, <2>2 DEF PidHasToken, ChildInv, Manager
<1>4. ASSUME NEW a \in Actor, ChildStep(a) PROVE Goal
  <2>1. CASE \/ Launch(a) \/ Cleared(a) \/ StopTerminated(a)
             \/ StopRemotely(a) \/ BootlineFails(a)
    BY <1>0, <2>1
       DEF Launch, Cleared, StopTerminated, StopRemotely, BootlineFails, cores,
           PidHasToken, ChildInv
  <2>2. CASE StoreStarted(a)
    BY <1>0, <2>2 DEF StoreStarted, cores, PidHasToken, ChildInv, Manager
  <2>3. CASE ClearStarted(a)
    BY <1>0, <2>3 DEF ClearStarted, Become, NoCore, PidHasToken, ChildInv
  <2>4. CASE StopTake(a)
    <3>1. mgr' = [Session EXCEPT !.child = NoProc, !.task = NoTask]
      BY <2>4 DEF StopTake, Become
    <3>2. Session \in Manager /\ (Session = mgr \/ Session = NoCore)
      BY SessionIs DEF IInv
    <3> QED BY <1>0, <3>1, <3>2 DEF PidHasToken, ChildInv, Manager, NoCore
  <2>5. CASE StopClear(a)
    BY <1>0, <2>5 DEF StopClear, cores, PidHasToken, ChildInv, Manager
  <2> QED BY <1>4, <2>1, <2>2, <2>3, <2>4, <2>5 DEF ChildStep
<1> QED BY <1>1, <1>2, <1>3, <1>4, Classified DEF IInv

(***************************************************************************)
(* No step leaves the token behind without its child or a stop that drops  *)
(* it.                                                                     *)
(***************************************************************************)
LEMMA OwnerStep == ASSUME IInv, [Next]_vars PROVE TokenHasOwner'
<1>0. /\ mgr \in Manager /\ issued \in [Proc -> Token \cup {NoToken}]
      /\ pc \in [Actor -> Labels] /\ tok \in [Actor -> Token \cup {NoToken}]
      /\ TokenHasOwner
  BY DEF IInv, TypeOK
<1>1. CASE QuietStep
  BY <1>0, <1>1 DEF QuietStep, SameCore, Forgotten, TokenHasOwner, Held
<1>2. CASE Exit BY <1>2 DEF Exit, NoCore, TokenHasOwner
<1>3. ASSUME NEW p \in Proc, CoreStep(p) PROVE TokenHasOwner'
  <2>1. mgr' = mgr /\ pc' = pc /\ tok' = tok
    BY <1>3 DEF CoreStep, CoreComesUp, CoreExits, CoreCrashes, commands
  <2>2. mgr.child # NoProc => issued'[mgr.child] = issued[mgr.child]
    BY <1>0, <1>3
       DEF CoreStep, CoreComesUp, CoreExits, CoreCrashes, IInv, CoreInv, ChildInv, Manager
  <2> QED BY <1>0, <2>1, <2>2 DEF TokenHasOwner
<1>4. ASSUME NEW a \in Actor, ChildStep(a) PROVE TokenHasOwner'
  <2>1. \A b \in Actor \ {a} : pc'[b] = pc[b] /\ tok'[b] = tok[b]
    BY <1>4, ChildStepPc DEF IInv
  <2>2. ASSUME mgr' = mgr, issued' = issued,
               pc[a] \in {"stopping", "stopped"} =>
                 pc'[a] \in {"stopping", "stopped"} /\ tok'[a] = tok[a]
        PROVE  TokenHasOwner'
    BY <1>0, <2>1, <2>2 DEF TokenHasOwner
  <2>3. CASE Launch(a) \/ Cleared(a) \/ BootlineFails(a)
    BY <2>2, <2>3 DEF Launch, Cleared, BootlineFails, At, cores
  <2>4. CASE StopTerminated(a) \/ StopRemotely(a)
    BY <1>0, <2>2, <2>4 DEF StopTerminated, StopRemotely, Go, cores
  <2>5. CASE StoreStarted(a)
    BY <1>0, <2>5 DEF StoreStarted, At, IInv, HandInv, cores, TokenHasOwner,
       Manager
  <2>6. CASE ClearStarted(a)
    BY <2>6 DEF ClearStarted, Become, NoCore, TokenHasOwner
  <2>7. CASE StopTake(a)
    <3>1. mgr' = [Session EXCEPT !.child = NoProc, !.task = NoTask]
      BY <2>7 DEF StopTake, Become
    <3>2. Session \in Manager /\ mgr'.token = Session.token
      BY <3>1, SessionIs DEF IInv, Manager
    <3>3. pc'[a] = "stopping" /\ tok'[a] = Session.token
      BY <1>0, <2>7 DEF StopTake, Await
    <3> QED BY <3>2, <3>3 DEF TokenHasOwner
  <2>8. CASE StopClear(a)
    BY <1>0, <2>8 DEF StopClear, TokenHasOwner, Manager
  <2> QED BY <1>4, <2>3, <2>4, <2>5, <2>6, <2>7, <2>8 DEF ChildStep
<1> QED BY <1>1, <1>2, <1>3, <1>4, Classified DEF IInv

(***************************************************************************)
(* The invariant holds when the shell is started.                          *)
(***************************************************************************)
LEMMA Initially == Init => IInv
<1> SUFFICES ASSUME Init PROVE IInv OBVIOUS
<1>1. TypeOK
  BY DEF Init, TypeOK, NoCore, Manager, FreshUi, Window, Labels, Callers
<1>2. BootInv BY DEF Init, BootInv, FreshUi
<1>3. HandInv /\ PidHasToken /\ ChildInv /\ TokenHasOwner
  BY DEF Init, NoCore, HandInv, PidHasToken, ChildInv, TokenHasOwner
<1>4. CoreInv BY DEF Init, CoreInv
<1> QED BY <1>1, <1>2, <1>3, <1>4 DEF IInv

(***************************************************************************)
(* The invariant holds in every reachable state.                           *)
(***************************************************************************)
THEOREM Invariance == Spec => []IInv
<1>1. IInv /\ [Next]_vars => IInv'
  BY TypeStep, BootStep, HandStep, CoreStepKeeps, ChildStepKeeps, OwnerStep DEF
     IInv
<1> QED BY Initially, <1>1, PTL DEF Spec

(***************************************************************************)
(* Every variable of the shell and its cores keeps its type.               *)
(***************************************************************************)
THEOREM TypeCorrect == Spec => []TypeOK
<1>1. IInv => TypeOK BY DEF IInv
<1> QED BY <1>1, Invariance, PTL

(***************************************************************************)
(* The admin token in memory belongs to the stored child, or a stop is     *)
(* under way that drops it; for any number of windows, closers, cores and  *)
(* crashes.                                                                *)
(***************************************************************************)
THEOREM TokenHasOwnerHolds == Spec => []TokenHasOwner
<1>1. IInv => TokenHasOwner BY DEF IInv
<1> QED BY <1>1, Invariance, PTL

(***************************************************************************)
(* A running core of this session that is kept (or just launched) is still *)
(* kept after the step, unless a start stores a dead child over another    *)
(* child.                                                                  *)
(***************************************************************************)
LEMMA KeptStep ==
  ASSUME IInv, [Next]_vars, NEW p \in own', proc'[p] \in {"starting", "serving"},
         p \in own => mgr.child = p \/ \E a \in Actor : hand[a] = p
  PROVE  \/ mgr'.child = p \/ \E a \in Actor : hand'[a] = p
         \/ /\ \E a \in Actor : StoreStarted(a)
            /\ mgr.child # NoProc
            /\ mgr'.child # NoProc /\ proc'[mgr'.child] # "serving"
<1> DEFINE Goal == \/ mgr'.child = p \/ \E a \in Actor : hand'[a] = p
                   \/ /\ \E a \in Actor : StoreStarted(a)
                      /\ mgr.child # NoProc
                      /\ mgr'.child # NoProc /\ proc'[mgr'.child] # "serving"
<1>0. /\ mgr \in Manager /\ hand \in [Actor -> Proc \cup {NoProc}]
      /\ own \subseteq Proc
      /\ proc \in [Proc -> {"unused", "starting", "serving", "closing", "exited"}]
  BY DEF IInv, TypeOK
<1>p. p # NoProc /\ p \in Proc
  <2>1. TypeOK' BY TypeStep DEF IInv
  <2> QED BY <2>1 DEF TypeOK
<1>1. CASE QuietStep BY <1>0, <1>1 DEF QuietStep, SameCore, Forgotten
<1>2. CASE Exit BY <1>2 DEF Exit
<1>3. ASSUME NEW q \in Proc, CoreStep(q) PROVE Goal
  <2>1. own' = own /\ mgr' = mgr /\ hand' = hand
    BY <1>3 DEF CoreStep, CoreComesUp, CoreExits, CoreCrashes, commands
  <2> QED BY <2>1
<1>4. ASSUME NEW a \in Actor, ChildStep(a) PROVE Goal
  <2>0. /\ HandInv
        /\ hand[a] # NoProc => pc[a] \in {"bootline", "cleared", "stopping"}
    BY DEF IInv, HandInv
  <2>1. CASE Launch(a)
    <3>1. PICK q \in Proc : /\ hand' = [hand EXCEPT ![a] = q]
                            /\ own' = own \cup {q} /\ mgr' = mgr /\ pc[a] = "launch"
      BY <2>1 DEF Launch, At
    <3> QED BY <1>0, <1>p, <2>0, <3>1
  <2>2. CASE StoreStarted(a)
    <3>1. /\ mgr'.child = hand[a] /\ hand' = [hand EXCEPT ![a] = NoProc]
          /\ own' = own /\ proc' = proc
          /\ hand[a] \in Proc /\ issued[hand[a]] # NoToken
      BY <1>0, <2>0, <2>2 DEF StoreStarted, HandInv, At, cores, Manager
    <3>2. CASE mgr.child = p /\ p # hand[a]
      <4>1. proc[p] = "serving"
        BY <1>0, <1>p, <3>1, <3>2 DEF IInv, ChildInv, CoreInv
      <4>2. proc[hand[a]] # "serving"
        BY <1>p, <3>1, <3>2, <4>1 DEF IInv, CoreInv
      <4> QED BY <1>p, <2>2, <3>1, <3>2, <4>2
    <3>3. CASE mgr.child # p \/ p = hand[a]
      BY <1>0, <1>p, <3>1, <3>3
    <3> QED BY <3>2, <3>3
  <2>3. CASE BootlineFails(a)
    <3>1. /\ hand' = [hand EXCEPT ![a] = NoProc] /\ own' = own /\ mgr' = mgr
          /\ hand[a] \in Proc
          /\ \/ proc' = [proc EXCEPT ![hand[a]] = "exited"]
             \/ proc' = proc /\ proc[hand[a]] = "exited"
      BY <2>0, <2>3 DEF BootlineFails, HandInv, At
    <3>2. hand[a] # p BY <1>0, <1>p, <3>1
    <3> QED BY <1>0, <1>p, <3>1, <3>2
  <2>4. CASE ClearStarted(a)
    <3>1. hand[a] = NoProc BY <2>0, <2>4 DEF ClearStarted, At
    <3>2. /\ own' = own
          /\ hand' = IF mgr.child = NoProc THEN hand
                     ELSE [hand EXCEPT ![a] = mgr.child]
      BY <2>4 DEF ClearStarted
    <3> QED BY <1>0, <1>p, <2>4, <3>1, <3>2 DEF ClearStarted
  <2>5. CASE Cleared(a) \/ StopTerminated(a)
    <3>1. /\ hand' = [hand EXCEPT ![a] = NoProc] /\ own' = own /\ mgr' = mgr
          /\ proc' = proc /\ proc[hand[a]] = "exited"
      BY <2>5 DEF Cleared, StopTerminated, cores
    <3> QED BY <1>0, <1>p, <3>1
  <2>6. CASE StopTake(a)
    <3>1. hand[a] = NoProc BY <2>0, <2>6 DEF StopTake, At
    <3>2. /\ own' = own /\ hand' = [hand EXCEPT ![a] = Session.child]
          /\ proc' = [q \in Proc |->
                        IF q = Session.child /\ proc[q] = "serving" THEN "closing"
                        ELSE proc[q]]
      BY <2>6 DEF StopTake
    <3>3. Session = mgr \/ proc[mgr.child] = "exited"
      BY SessionIs DEF IInv
    <3> QED BY <1>0, <1>p, <3>1, <3>2, <3>3
  <2>7. CASE StopRemotely(a) BY <1>0, <1>p, <2>7 DEF StopRemotely
  <2>8. CASE StopClear(a) BY <1>0, <1>p, <2>8 DEF StopClear, cores, Manager
  <2> QED BY <1>4, <2>1, <2>2, <2>3, <2>4, <2>5, <2>6, <2>7, <2>8 DEF ChildStep
<1> QED BY <1>1, <1>2, <1>3, <1>4, Classified DEF IInv

(***************************************************************************)
(* However starts, stops and crashes overlap, the only step that loses a   *)
(* running core stores a dead child over it.                               *)
(***************************************************************************)
THEOREM LostOnlyToDeadHolds == Spec => LostOnlyToDead
<1>1. ASSUME IInv, [Next]_vars,
             NEW p \in own', Runs(p)', p \in own => Kept(p)
      PROVE  Kept(p)' \/ (mgr'.child # NoProc /\ proc'[mgr'.child] # "serving")
  BY <1>1, KeptStep DEF Runs, Kept
<1>2. IInv /\ [Next]_vars =>
        [\A p \in own' : Runs(p)' /\ (p \in own => Kept(p)) =>
           Kept(p)' \/ (mgr'.child # NoProc /\ proc'[mgr'.child] # "serving")]_vars
  BY <1>1
<1> QED BY <1>2, Invariance, PTL DEF Spec, LostOnlyToDead

(***************************************************************************)
(* A process runs only once it was launched, and never becomes unused      *)
(* again.                                                                  *)
(***************************************************************************)
LEMMA ProcStep ==
  ASSUME IInv, [Next]_vars, NEW p \in Proc
  PROVE  /\ proc'[p] \in {"starting", "serving"} =>
              proc[p] \in {"unused", "starting", "serving"}
         /\ proc'[p] = "unused" => proc[p] = "unused"
         /\ p \in own' => p \in own \/ proc'[p] = "starting"
<1> DEFINE Goal ==
      /\ proc'[p] \in {"starting", "serving"} =>
              proc[p] \in {"unused", "starting", "serving"}
      /\ proc'[p] = "unused" => proc[p] = "unused"
      /\ p \in own' => p \in own \/ proc'[p] = "starting"
<1>0. /\ proc \in [Proc -> {"unused", "starting", "serving", "closing", "exited"}]
      /\ own \subseteq Proc
  BY DEF IInv, TypeOK
<1>1. CASE QuietStep BY <1>1 DEF QuietStep
<1>2. CASE Exit BY <1>2 DEF Exit
<1>3. ASSUME NEW q \in Proc, CoreStep(q) PROVE Goal
  BY <1>0, <1>3 DEF CoreStep, CoreComesUp, CoreExits, CoreCrashes, cores
<1>4. ASSUME NEW a \in Actor, ChildStep(a) PROVE Goal
  <2>1. CASE Launch(a)
    <3>1. PICK q \in Proc :
            /\ proc[q] = "unused" /\ proc' = [proc EXCEPT ![q] = "starting"]
            /\ own' = own \cup {q}
      BY <2>1 DEF Launch
    <3> QED BY <1>0, <3>1
  <2>2. CASE StoreStarted(a) \/ Cleared(a) \/ StopTerminated(a) \/ StopClear(a)
    BY <2>2 DEF StoreStarted, Cleared, StopTerminated, StopClear, cores
  <2>3. CASE BootlineFails(a) BY <1>0, <2>3 DEF BootlineFails
  <2>4. CASE ClearStarted(a) BY <1>0, <2>4 DEF ClearStarted
  <2>5. CASE StopTake(a) BY <1>0, <2>5 DEF StopTake
  <2>6. CASE StopRemotely(a) BY <1>0, <2>6 DEF StopRemotely
  <2> QED BY <1>4, <2>1, <2>2, <2>3, <2>4, <2>5, <2>6 DEF ChildStep
<1> QED BY <1>1, <1>2, <1>3, <1>4, Classified DEF IInv

(***************************************************************************)
(* With one start at a time nothing is stored when a start launches, so    *)
(* its child replaces nothing.                                             *)
(***************************************************************************)
LEMMA StartStep ==
  ASSUME Mount = {LiveMount}, IInv, StartInv, [Next]_vars
  PROVE  StartInv'
<1>0. /\ mgr \in Manager /\ pc \in [Actor -> Labels] /\ ret \in [Actor -> Callers]
      /\ own \subseteq Proc
  BY DEF IInv, TypeOK
<1>a. Setup \in Actor BY DEF Actor
<1>1. ASSUME NEW a \in Actor, NEW b \in Actor \ {a},
             pc[a] \in {"launch", "bootline"}, pc[b] \in {"launch", "bootline"}
      PROVE  FALSE
  <2>1. a \in {LiveMount, Setup} /\ b \in {LiveMount, Setup}
    BY <1>1 DEF IInv, BootInv
  <2> QED BY <1>1, <1>a, <2>1 DEF IInv, BootInv
<1>o. own' \subseteq Proc
  <2>1. TypeOK' BY TypeStep DEF IInv
  <2> QED BY <2>1 DEF TypeOK
<1>2. NoOrphan'
  <2>1. ASSUME NEW p \in own', Runs(p)' PROVE Kept(p)'
    <3>1. p \in own => mgr.child = p \/ \E a \in Actor : hand[a] = p
      <4>1. p \in own /\ Runs(p) => mgr.child = p \/ \E a \in Actor : hand[a] = p
        BY DEF StartInv, NoOrphan, Kept
      <4>2. p \in own => Runs(p) BY <2>1, <1>o, ProcStep DEF StartInv, Runs
      <4> QED BY <4>1, <4>2
    <3>2. ASSUME NEW a \in Actor, StoreStarted(a) PROVE mgr.child = NoProc
      BY <3>2 DEF StoreStarted, At, StartInv
    <3> QED BY <2>1, <3>1, <3>2, KeptStep DEF Runs, Kept
  <2> QED BY <2>1 DEF NoOrphan
<1>3. ASSUME NEW p \in own' PROVE proc'[p] # "unused"
  BY <1>3, <1>o, ProcStep DEF StartInv
<1>4. ASSUME NEW a \in Actor, pc'[a] \in {"launch", "bootline"}
      PROVE  mgr'.child = NoProc
  <2>1. CASE QuietStep
    BY <1>4, <2>1 DEF QuietStep, SameCore, Forgotten, StartInv
  <2>2. CASE Exit BY <1>4, <2>2 DEF Exit
  <2>3. ASSUME NEW p \in Proc, CoreStep(p) PROVE mgr'.child = NoProc
    <3>1. pc' = pc /\ mgr' = mgr
      BY <2>3 DEF CoreStep, CoreComesUp, CoreExits, CoreCrashes, commands
    <3> QED BY <1>4, <3>1 DEF StartInv
  <2>4. ASSUME NEW b \in Actor, ChildStep(b) PROVE mgr'.child = NoProc
    <3>1. \A c \in Actor \ {b} : pc'[c] = pc[c] BY <2>4, ChildStepPc DEF IInv
    <3>2. CASE StoreStarted(b)
      <4>1. pc[b] = "bootline" /\ pc'[b] = "healthy"
        BY <1>0, <3>2 DEF StoreStarted, At, Go
      <4> QED BY <1>1, <1>4, <3>1, <4>1
    <3>3. CASE Launch(b)
      BY <1>0, <1>4, <3>1, <3>3 DEF Launch, At, Go, StartInv
    <3>4. CASE \/ BootlineFails(b) \/ ClearStarted(b) \/ Cleared(b) \/ StopTake(b)
               \/ StopTerminated(b) \/ StopRemotely(b) \/ StopClear(b)
      <4>1. pc'[b] \notin {"launch", "bootline"}
        BY <1>0, <3>4 DEF BootlineFails, ClearStarted, Cleared, StopTake,
           StopTerminated,
              StopRemotely, StopClear, Go, Await, Return, Callers
      <4>2. mgr'.child = mgr.child \/ mgr'.child = NoProc
        <5>1. CASE StopTake(b)
          <6>1. mgr' = [Session EXCEPT !.child = NoProc, !.task = NoTask]
            BY <5>1 DEF StopTake, Become
          <6>2. Session \in Manager BY SessionIs DEF IInv
          <6> QED BY <6>1, <6>2 DEF Manager
        <5>2. CASE ClearStarted(b) BY <5>2 DEF ClearStarted, Become, NoCore
        <5>3. CASE StopClear(b) BY <1>0, <5>3 DEF StopClear, Manager
        <5>4. CASE \/ BootlineFails(b) \/ Cleared(b)
                   \/ StopTerminated(b) \/ StopRemotely(b)
          BY <5>4 DEF BootlineFails, Cleared, StopTerminated, StopRemotely
        <5> QED BY <3>4, <5>1, <5>2, <5>3, <5>4
      <4> QED BY <1>4, <3>1, <4>1, <4>2 DEF StartInv
    <3> QED BY <2>4, <3>2, <3>3, <3>4 DEF ChildStep
  <2> QED BY <2>1, <2>2, <2>3, <2>4, Classified DEF IInv
<1> QED BY <1>2, <1>3, <1>4 DEF StartInv

(***************************************************************************)
(* With one run of the bootstrap effect, no running core of this session   *)
(* is ever lost, for any number of closers, crashes and cores.             *)
(***************************************************************************)
THEOREM NoOrphanHolds ==
  ASSUME Mount = {LiveMount} PROVE Spec => []NoOrphan
<1>1. Init => StartInv
  <2> SUFFICES ASSUME Init PROVE StartInv OBVIOUS
  <2>1. own = {} /\ mgr.child = NoProc BY DEF Init, NoCore
  <2> QED BY <2>1 DEF StartInv, NoOrphan
<1>2. IInv /\ StartInv /\ [Next]_vars => StartInv' BY StartStep
<1>3. StartInv => NoOrphan BY DEF StartInv
<1> QED BY <1>1, <1>2, <1>3, Invariance, PTL DEF Spec
=============================================================================
