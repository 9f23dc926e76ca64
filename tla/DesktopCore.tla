---------------------------- MODULE DesktopCore ----------------------------
(***************************************************************************)
(* The desktop shell and the core processes it starts: CoreManager's state *)
(* behind its mutex, the commands that run against it concurrently, the    *)
(* bridge that forwards the core's event stream, and the connection state  *)
(* the window shows.                                                       *)
(*                                                                         *)
(* A command releases the mutex at every await, so each critical section   *)
(* and each awaited HTTP exchange is a step of its own.  Addresses,        *)
(* versions, toasts and query caches are display data and left out.        *)
(***************************************************************************)
EXTENDS Naturals, Sequences, FiniteSets

CONSTANTS
  Proc,         \* core processes that may be launched
  Task,         \* tasks of the event bridge
  Mount,        \* runs of the window's bootstrap effect
  LiveMount,    \* the one whose component is still mounted
  Closer,       \* actors that may close the window
  NoProc, NoTask, NoToken,
  MaxUpsets,    \* crashes, lost answers and close requests in a behaviour
  MaxInbox      \* bridge events on their way to the window

Beat == "beat"    \* the window's heartbeat timer
Setup == "setup"  \* the shell's setup hook, which may preload the core
Actor == Mount \cup Closer \cup {Beat, Setup}
Token == Nat \ {0}

ASSUME DesktopAssumption ==
  /\ LiveMount \in Mount
  /\ NoProc \notin Proc /\ NoTask \notin Task /\ NoToken \notin Nat
  /\ Beat \notin Mount \cup Closer /\ Setup \notin Mount \cup Closer
  /\ Mount \cap Closer = {}

VARIABLES
  proc,      \* what each core process is doing
  issued,    \* the admin token in the bootstrap line of each process
  own,       \* processes launched by this session of the shell
  file,      \* admin_token in the data directory and in the serving core
  mgr,       \* CoreState: child, pid, token, task
  bridge,    \* each bridge task: idle, opening, or the core it streams from
  pc,        \* where each actor is
  ret,       \* where it goes on when the command returns
  res,       \* what the last command returned to it
  hand,      \* the process it holds outside CoreState
  tok,       \* the token it read before its last await
  ui,        \* the window: phase, active, prev, cancelled
  inbox,     \* bridge events not yet delivered to the window
  shell,     \* not yet started, open, or closed
  upsets

Open == shell = "open"

commands == <<pc, ret, res, hand, tok>>
cores == <<proc, issued, own, file>>
vars == <<proc, issued, own, file, mgr, bridge, pc, ret, res, hand, tok, ui,
          inbox, shell, upsets>>

(***************************************************************************)
(* CoreState::default.                                                     *)
(***************************************************************************)
NoCore == [child |-> NoProc, pid |-> FALSE, token |-> NoToken, task |-> NoTask]

(***************************************************************************)
(* The window's store when it opens.                                       *)
(***************************************************************************)
FreshUi == [phase |-> "idle", active |-> FALSE, prev |-> FALSE,
            cancelled |-> FALSE]

(***************************************************************************)
(* Where an actor can be: where it returns to from a command, or inside    *)
(* one.                                                                    *)
(***************************************************************************)
Callers == {"idle", "asked", "started", "bridged", "beat", "beat2", "behave",
            "destroy", "preloaded"}
Labels == Callers \cup
  {"start", "launch", "bootline", "healthy", "clear", "cleared", "stop",
   "stopping", "stopped", "status", "status2", "api", "api2", "events",
   "events2", "events3"}

Manager == [child : Proc \cup {NoProc}, pid : BOOLEAN,
            token : Token \cup {NoToken}, task : Task \cup {NoTask}]
Window == [phase : {"idle", "booting", "running", "disconnected", "error"},
           active : BOOLEAN, prev : BOOLEAN, cancelled : BOOLEAN]

TypeOK ==
  /\ proc \in [Proc -> {"unused", "starting", "serving", "closing", "exited"}]
  /\ issued \in [Proc -> Token \cup {NoToken}]
  /\ own \subseteq Proc
  /\ file \in Token
  /\ mgr \in Manager
  /\ bridge \in [Task -> {"idle", "opening"} \cup Proc]
  /\ pc \in [Actor -> Labels] /\ ret \in [Actor -> Callers]
  /\ res \in [Actor -> {"yes", "no", "err"}]
  /\ hand \in [Actor -> Proc \cup {NoProc}]
  /\ tok \in [Actor -> Token \cup {NoToken}]
  /\ ui \in Window
  /\ inbox \in Seq({"connected", "disconnected"})
  /\ shell \in {"new", "open", "closed"} /\ upsets \in Nat

(***************************************************************************)
(* Moving an actor, calling a command of the manager and returning from    *)
(* it.                                                                     *)
(***************************************************************************)
At(a, l) == Open /\ pc[a] = l
Go(a, l) == pc' = [pc EXCEPT ![a] = l] /\ UNCHANGED <<ret, res, tok>>
Await(a, l, t) ==
  /\ pc' = [pc EXCEPT ![a] = l] /\ tok' = [tok EXCEPT ![a] = t]
  /\ UNCHANGED <<ret, res>>
Call(a, l, back) ==
  /\ pc' = [pc EXCEPT ![a] = l] /\ ret' = [ret EXCEPT ![a] = back]
  /\ res' = [res EXCEPT ![a] = "no"] /\ UNCHANGED tok
Return(a, r) ==
  /\ pc' = [pc EXCEPT ![a] = ret[a]] /\ res' = [res EXCEPT ![a] = r]
  /\ ret' = [ret EXCEPT ![a] = "idle"] /\ tok' = [tok EXCEPT ![a] = NoToken]
Done(a) ==
  /\ pc' = [pc EXCEPT ![a] = "idle"] /\ res' = [res EXCEPT ![a] = "no"]
  /\ UNCHANGED <<ret, tok>>

Upset == upsets < MaxUpsets /\ upsets' = upsets + 1
Calm == UNCHANGED upsets

(***************************************************************************)
(* The core: what answers on the port, and to which token.                 *)
(***************************************************************************)
Serving == {p \in Proc : proc[p] = "serving"}
Healthy == Serving # {}
Authenticated(t) == Serving # {} /\ t = file

(***************************************************************************)
(* A child that exited is forgotten together with its token and bridge.    *)
(***************************************************************************)
KeepDeadToken(m) ==  \* mutant
  IF m.child # NoProc /\ proc[m.child] = "exited"
  THEN [m EXCEPT !.child = NoProc, !.task = NoTask] ELSE m
Reaped(m) ==
  IF m.child # NoProc /\ proc[m.child] = "exited" THEN NoCore ELSE m

(***************************************************************************)
(* The token on disk completes the state of a child that has none.         *)
(***************************************************************************)
Restored(m) ==
  IF m.token = NoToken /\ m.child # NoProc /\ m.pid
  THEN [m EXCEPT !.token = file] ELSE m

Session == Restored(Reaped(mgr))

(***************************************************************************)
(* The manager's new state; a bridge task that it drops is aborted, which  *)
(* sends the window nothing.                                               *)
(***************************************************************************)
Become(m) ==
  /\ mgr' = m
  /\ bridge' = [t \in Task |->
                  IF t = mgr.task /\ m.task # t THEN "idle" ELSE bridge[t]]

SetActive(u, v) ==
  [u EXCEPT !.active = v,
            !.cancelled = @ \/ (v # u.active /\ pc[Beat] # "idle")]

(***************************************************************************)
(* An event of the bridge is queued for the window's listener.             *)
(***************************************************************************)
Emit(k) == Len(inbox) < MaxInbox /\ inbox' = Append(inbox, k)

(***************************************************************************)
(* The shell starts beside no core, or beside one that an earlier session  *)
(* left running.                                                           *)
(***************************************************************************)
Init ==
  /\ \E left \in {{}} \cup {{p} : p \in Proc} :
       /\ proc = [p \in Proc |-> IF p \in left THEN "serving" ELSE "unused"]
       /\ issued = [p \in Proc |-> IF p \in left THEN 1 ELSE NoToken]
  /\ own = {} /\ file = 1 /\ mgr = NoCore
  /\ bridge = [t \in Task |-> "idle"]
  /\ pc = [a \in Actor |-> "idle"] /\ ret = [a \in Actor |-> "idle"]
  /\ res = [a \in Actor |-> "no"] /\ hand = [a \in Actor |-> NoProc]
  /\ tok = [a \in Actor |-> NoToken] /\ ui = FreshUi /\ inbox = <<>>
  /\ shell = "new" /\ upsets = 0

-----------------------------------------------------------------------------
(***************************************************************************)
(* Core processes.                                                         *)
(***************************************************************************)

(***************************************************************************)
(* A launched core takes the lock of the data directory, loads its token,  *)
(* binds the port and prints its bootstrap line; when another one holds    *)
(* the lock it exits.                                                      *)
(***************************************************************************)
LockFree == \A p \in Proc : proc[p] \notin {"serving", "closing"}

CoreComesUp(p) ==
  /\ proc[p] = "starting"
  /\ IF LockFree
     THEN /\ proc' = [proc EXCEPT ![p] = "serving"]
          /\ issued' = [issued EXCEPT ![p] = file]
     ELSE proc' = [proc EXCEPT ![p] = "exited"] /\ UNCHANGED issued
  /\ UNCHANGED <<own, file, mgr, bridge, commands, ui, inbox, shell,
                 upsets>>

(***************************************************************************)
(* After SIGTERM or a remote shutdown the core drains and exits; the shell *)
(* kills a child that takes longer than three seconds.                     *)
(***************************************************************************)
CoreExits(p) ==
  /\ proc[p] = "closing"
  /\ proc' = [proc EXCEPT ![p] = "exited"]
  /\ UNCHANGED <<issued, own, file, mgr, bridge, commands, ui, inbox, shell, upsets>>

(***************************************************************************)
(* A core dies, at any moment of its life.                                 *)
(***************************************************************************)
CoreCrashes(p) ==
  /\ proc[p] \in {"starting", "serving"}
  /\ Upset
  /\ proc' = [proc EXCEPT ![p] = "exited"]
  /\ UNCHANGED <<issued, own, file, mgr, bridge, commands, ui, inbox, shell>>

(***************************************************************************)
(* A client other than the shell rotates the admin token.                  *)
(***************************************************************************)
RotateAdminToken ==
  /\ Healthy /\ Upset
  /\ file' = file + 1
  /\ UNCHANGED <<proc, issued, own, mgr, bridge, commands, ui, inbox, shell>>

-----------------------------------------------------------------------------
(***************************************************************************)
(* CoreManager::start_core.                                                *)
(***************************************************************************)
StartCheck(a) ==
  /\ At(a, "start")
  /\ LET m == Reaped(mgr) IN
       /\ Become(m)
       /\ Go(a, IF m.child # NoProc THEN "status" ELSE "launch")
  /\ UNCHANGED <<cores, hand, ui, inbox, shell, upsets>>

Launch(a) ==
  /\ At(a, "launch")
  /\ \E p \in Proc : proc[p] = "unused"
  /\ LET p == CHOOSE p \in Proc : proc[p] = "unused" IN
       /\ proc' = [proc EXCEPT ![p] = "starting"]
       /\ own' = own \cup {p}
       /\ hand' = [hand EXCEPT ![a] = p]
  /\ Go(a, "bootline")
  /\ UNCHANGED <<issued, file, mgr, bridge, ui, inbox, shell,
                 upsets>>

(***************************************************************************)
(* No binary is found, which ends the start at once, or it cannot be       *)
(* spawned, which clears the state first.                                  *)
(***************************************************************************)
LaunchFails(a) ==
  /\ At(a, "launch") /\ Upset
  /\ Return(a, "err") \/ Go(a, "clear")
  /\ UNCHANGED <<cores, mgr, bridge, hand, ui, inbox, shell>>

(***************************************************************************)
(* The bootstrap line arrives: the child becomes the manager's, whatever   *)
(* was stored before.                                                      *)
(***************************************************************************)
StoreStarted(a) ==
  /\ At(a, "bootline") /\ issued[hand[a]] # NoToken
  /\ mgr' = [mgr EXCEPT !.child = hand[a], !.pid = TRUE,
                        !.token = issued[hand[a]]]
  /\ hand' = [hand EXCEPT ![a] = NoProc]
  /\ Go(a, "healthy")
  /\ UNCHANGED <<cores, bridge, ui, inbox, shell, upsets>>

(***************************************************************************)
(* No line: the process exited, or ten seconds passed and it is            *)
(* terminated.                                                             *)
(***************************************************************************)
BootlineFails(a) ==
  /\ At(a, "bootline") /\ issued[hand[a]] = NoToken
  /\ IF proc[hand[a]] = "exited" THEN Calm /\ UNCHANGED proc
     ELSE Upset /\ proc' = [proc EXCEPT ![hand[a]] = "exited"]
  /\ hand' = [hand EXCEPT ![a] = NoProc]
  /\ Go(a, "clear")
  /\ UNCHANGED <<issued, own, file, mgr, bridge, ui, inbox, shell>>

(***************************************************************************)
(* wait_until_healthy: the token is read anew in every round; it fails     *)
(* when the token is gone or, after five seconds, when nobody answers to   *)
(* it.                                                                     *)
(***************************************************************************)
WaitUntilHealthy(a) ==
  /\ At(a, "healthy")
  /\ \/ Authenticated(mgr.token) /\ Calm /\ Go(a, "status")
     \/ (IF Authenticated(mgr.token) THEN Upset ELSE Calm) /\ Go(a, "clear")
  /\ UNCHANGED <<cores, mgr, bridge, hand, ui, inbox, shell>>

(***************************************************************************)
(* clear_started_child_state: whatever child is stored is taken and        *)
(* terminated, and the start returns its error.                            *)
(***************************************************************************)
ForgetWithoutKill(a) ==  \* mutant
  /\ At(a, "clear")
  /\ Become(NoCore)
  /\ Return(a, "err")
  /\ UNCHANGED <<cores, hand, ui, inbox, shell, upsets>>
ClearStarted(a) ==
  /\ At(a, "clear")
  /\ Become(NoCore)
  /\ proc' = [p \in Proc |->
                IF p = mgr.child /\ proc[p] = "serving" THEN "closing"
                ELSE proc[p]]
  /\ IF mgr.child = NoProc
     THEN Return(a, "err") /\ UNCHANGED hand
     ELSE Go(a, "cleared") /\ hand' = [hand EXCEPT ![a] = mgr.child]
  /\ UNCHANGED <<issued, own, file, ui, inbox, shell, upsets>>

Cleared(a) ==
  /\ At(a, "cleared") /\ proc[hand[a]] = "exited"
  /\ hand' = [hand EXCEPT ![a] = NoProc]
  /\ Return(a, "err")
  /\ UNCHANGED <<cores, mgr, bridge, ui, inbox, shell, upsets>>

-----------------------------------------------------------------------------
(***************************************************************************)
(* CoreManager::stop_core: the child is taken and terminated outside the   *)
(* lock; without one, the core is asked over the API; then the token is    *)
(* dropped.                                                                *)
(***************************************************************************)
StopTake(a) ==
  /\ At(a, "stop")
  /\ LET m == Session IN
       /\ Become([m EXCEPT !.child = NoProc, !.task = NoTask])
       /\ hand' = [hand EXCEPT ![a] = m.child]
       /\ Await(a, "stopping", m.token)
       /\ proc' = [p \in Proc |->
                     IF p = m.child /\ proc[p] = "serving" THEN "closing"
                     ELSE proc[p]]
  /\ UNCHANGED <<issued, own, file, ui, inbox, shell, upsets>>

StopTerminated(a) ==
  /\ At(a, "stopping") /\ hand[a] # NoProc
  /\ proc[hand[a]] = "exited"
  /\ hand' = [hand EXCEPT ![a] = NoProc]
  /\ Go(a, "stopped")
  /\ UNCHANGED <<cores, mgr, bridge, ui, inbox, shell, upsets>>

StopRemotely(a) ==
  /\ At(a, "stopping") /\ hand[a] = NoProc
  /\ proc' = [p \in Proc |->
                IF proc[p] = "serving" /\ Authenticated(tok[a]) THEN "closing"
                ELSE proc[p]]
  /\ Go(a, "stopped")
  /\ UNCHANGED <<issued, own, file, mgr, bridge, hand, ui, inbox, shell, upsets>>

StopClear(a) ==
  /\ At(a, "stopped")
  /\ mgr' = [mgr EXCEPT !.token = NoToken, !.pid = FALSE]
  /\ Go(a, "status")
  /\ UNCHANGED <<cores, bridge, hand, ui, inbox, shell, upsets>>

-----------------------------------------------------------------------------
(***************************************************************************)
(* CoreManager::compose_status_payload: the core is asked with the token   *)
(* when there is one, else its public health; an answer may be lost or     *)
(* refused by the rate limit.                                              *)
(***************************************************************************)
StatusRead(a) ==
  /\ At(a, "status")
  /\ Become(Session)
  /\ Await(a, "status2", Session.token)
  /\ UNCHANGED <<cores, hand, ui, inbox, shell, upsets>>

StatusProbe(a) ==
  /\ At(a, "status2")
  /\ \/ /\ Authenticated(tok[a]) /\ Calm
        /\ Return(a, "yes") /\ mgr' = Restored(mgr)
     \/ /\ ~Authenticated(tok[a]) /\ Calm
        /\ Return(a, IF tok[a] = NoToken /\ Healthy THEN "yes" ELSE "no")
        /\ UNCHANGED mgr
     \/ Healthy /\ Upset /\ Return(a, "no") /\ UNCHANGED mgr
  /\ UNCHANGED <<cores, bridge, hand, ui, inbox, shell>>

(***************************************************************************)
(* CoreManager::proxy_api_call on a management path: the token is read,    *)
(* the core's identity checked with it, and the request sent.              *)
(***************************************************************************)
ApiRead(a) ==
  /\ At(a, "api")
  /\ Become(Session)
  /\ Await(a, "api2", Session.token)
  /\ UNCHANGED <<cores, hand, ui, inbox, shell, upsets>>

ApiSend(a) ==
  /\ At(a, "api2")
  /\ Return(a, IF Authenticated(tok[a]) THEN "yes" ELSE "err")
  /\ UNCHANGED <<cores, mgr, bridge, hand, ui, inbox, shell, upsets>>

-----------------------------------------------------------------------------
(***************************************************************************)
(* CoreManager::start_events_bridge.  A bridge that still runs is left     *)
(* alone, a finished one dropped; without a core nothing happens.          *)
(***************************************************************************)
KeepFinished(a) ==  \* mutant
  /\ At(a, "events")
  /\ LET m == Session IN
       IF m.task # NoTask
       THEN Become(m) /\ Return(a, "yes")
       ELSE /\ Become([m EXCEPT !.task = NoTask])
            /\ IF m.child = NoProc /\ m.token = NoToken THEN Return(a, "yes")
               ELSE Await(a, "events2", m.token)
  /\ UNCHANGED <<cores, hand, ui, inbox, shell, upsets>>
BridgeRead(a) ==
  /\ At(a, "events")
  /\ LET m == Session IN
       IF m.task # NoTask /\ bridge[m.task] # "idle"
       THEN Become(m) /\ Return(a, "yes")
       ELSE /\ Become([m EXCEPT !.task = NoTask])
            /\ IF m.child = NoProc /\ m.token = NoToken THEN Return(a, "yes")
               ELSE Await(a, "events2", m.token)
  /\ UNCHANGED <<cores, hand, ui, inbox, shell, upsets>>

(***************************************************************************)
(* The bridge starts once the core answers to the token.                   *)
(***************************************************************************)
BridgeProbe(a) ==
  /\ At(a, "events2")
  /\ \/ /\ Authenticated(tok[a]) /\ Calm /\ Go(a, "events3")
        /\ UNCHANGED inbox
     \/ /\ tok[a] = NoToken \/ ~Authenticated(tok[a])
        /\ Calm /\ Emit("disconnected") /\ Return(a, "yes")
  /\ UNCHANGED <<cores, mgr, bridge, hand, ui, shell>>

(***************************************************************************)
(* The task announces itself before it connects, and is stored; a task     *)
(* stored by another call meanwhile goes on, detached.                     *)
(***************************************************************************)
BridgeSpawn(a) ==
  /\ At(a, "events3")
  /\ \E t \in Task : bridge[t] = "idle"
  /\ LET t == CHOOSE t \in Task : bridge[t] = "idle" IN
       /\ bridge' = [bridge EXCEPT ![t] = "opening"]
       /\ mgr' = [mgr EXCEPT !.task = t]
  /\ Emit("connected")
  /\ Return(a, "yes")
  /\ UNCHANGED <<cores, hand, ui, shell, upsets>>

BridgeConnects(t) ==
  /\ Open /\ bridge[t] = "opening"
  /\ \E p \in Serving : bridge' = [bridge EXCEPT ![t] = p]
  /\ UNCHANGED <<cores, mgr, commands, ui, inbox, shell, upsets>>

CanStream(t) == IF bridge[t] = "opening" THEN Healthy ELSE bridge[t] \in Serving

(***************************************************************************)
(* The connection is refused, ends with the core, or breaks: the task      *)
(* tells the window and is finished.                                       *)
(***************************************************************************)
BridgeEnds(t) ==
  /\ Open /\ bridge[t] # "idle"
  /\ IF CanStream(t) THEN Upset ELSE Calm
  /\ bridge' = [bridge EXCEPT ![t] = "idle"]
  /\ Emit("disconnected")
  /\ UNCHANGED <<cores, mgr, commands, ui, shell>>

(***************************************************************************)
(* The window's listener.                                                  *)
(***************************************************************************)
Listen ==
  /\ Open /\ inbox # <<>>
  /\ ui' = SetActive(ui, Head(inbox) = "connected")
  /\ inbox' = Tail(inbox)
  /\ UNCHANGED <<cores, mgr, bridge, commands, shell, upsets>>

-----------------------------------------------------------------------------
(***************************************************************************)
(* The bootstrap effect of the window: ask, start if nothing runs, then    *)
(* open the bridge and read health and settings.  A run whose component is *)
(* unmounted still starts the core but leaves the window alone.            *)
(***************************************************************************)
BootAsked(m) ==
  /\ At(m, "asked")
  /\ IF res[m] = "yes" THEN Go(m, "started") ELSE Call(m, "start", "started")
  /\ UNCHANGED <<cores, mgr, bridge, hand, ui, inbox, shell, upsets>>

BootStarted(m) ==
  /\ At(m, "started")
  /\ IF m = LiveMount /\ res[m] = "yes" THEN Call(m, "events", "bridged")
     ELSE Done(m)
  /\ ui' = IF m # LiveMount THEN ui
           ELSE CASE res[m] = "yes" -> [ui EXCEPT !.phase = "running",
                                                  !.prev = TRUE]
                  [] res[m] = "no" -> [ui EXCEPT !.phase = "disconnected",
                                                 !.prev = FALSE]
                  [] OTHER -> [ui EXCEPT !.phase = "error"]
  /\ UNCHANGED <<cores, mgr, bridge, hand, inbox, shell, upsets>>

(***************************************************************************)
(* fetchCoreHealth is proxy_api_call on the public path, which needs no    *)
(* token.                                                                  *)
(***************************************************************************)
BootHealth(m) ==
  /\ At(m, "bridged")
  /\ Become(Session)
  /\ Done(m)
  /\ ui' = IF Healthy THEN ui ELSE [ui EXCEPT !.phase = "error"]
  /\ UNCHANGED <<cores, hand, inbox, shell, upsets>>

(***************************************************************************)
(* The heartbeat.  A change of the stream's flag re-registers the effect   *)
(* and cancels the round under way; a failed health check leaves the       *)
(* remembered state of the core as it was.                                 *)
(***************************************************************************)
BeatStart ==
  /\ At(Beat, "idle") /\ ui.phase # "idle"
  /\ Call(Beat, "status", "beat")
  /\ UNCHANGED <<cores, mgr, bridge, hand, ui, inbox, shell, upsets>>

EndRound(u) == [u EXCEPT !.cancelled = FALSE]

BeatKeepsStream ==  \* mutant
  /\ At(Beat, "beat")
  /\ IF ui.cancelled THEN Done(Beat) /\ ui' = EndRound(ui)
     ELSE IF res[Beat] = "yes"
     THEN /\ IF ui.prev /\ ui.active THEN Go(Beat, "beat2")
             ELSE Call(Beat, "events", "beat2")
          /\ UNCHANGED ui
     ELSE /\ Done(Beat)
          /\ ui' = [ui EXCEPT !.phase = "disconnected",
                              !.prev = FALSE]
  /\ UNCHANGED <<cores, mgr, bridge, hand, inbox, shell, upsets>>
BeatStatus ==
  /\ At(Beat, "beat")
  /\ IF ui.cancelled THEN Done(Beat) /\ ui' = EndRound(ui)
     ELSE IF res[Beat] = "yes"
     THEN /\ IF ui.prev /\ ui.active THEN Go(Beat, "beat2")
             ELSE Call(Beat, "events", "beat2")
          /\ UNCHANGED ui
     ELSE /\ Done(Beat)
          /\ ui' = [ui EXCEPT !.phase = "disconnected", !.active = FALSE,
                              !.prev = FALSE]
  /\ UNCHANGED <<cores, mgr, bridge, hand, inbox, shell, upsets>>

BeatHealth ==
  /\ At(Beat, "beat2")
  /\ Become(Session)
  /\ Done(Beat)
  /\ ui' = EndRound(
       CASE Healthy -> [ui EXCEPT !.prev = TRUE,
                          !.phase = IF ui.cancelled THEN @ ELSE "running"]
         [] ~Healthy /\ ~ui.cancelled -> [ui EXCEPT !.phase = "error",
                                                    !.active = FALSE]
         [] OTHER -> ui)
  /\ UNCHANGED <<cores, hand, inbox, shell, upsets>>

-----------------------------------------------------------------------------
(***************************************************************************)
(* The shell opens, with or without preloading the core; a preload that    *)
(* fails ends it.                                                          *)
(***************************************************************************)
StartBoot ==
  /\ pc' = [a \in Actor |-> IF a \in Mount THEN "status" ELSE "idle"]
  /\ ret' = [a \in Actor |-> IF a \in Mount THEN "asked" ELSE "idle"]
  /\ ui' = [FreshUi EXCEPT !.phase = "booting"]

OpenShell ==
  /\ shell = "new"
  /\ shell' = "open"
  /\ \/ StartBoot /\ UNCHANGED <<res, tok>>
     \/ Call(Setup, "start", "preloaded") /\ UNCHANGED ui
  /\ UNCHANGED <<cores, mgr, bridge, hand, inbox, upsets>>

(***************************************************************************)
(* The shell exits when its window is destroyed: its memory and its tasks  *)
(* are gone, the processes it launched are not.                            *)
(***************************************************************************)
Exit ==
  /\ shell' = "closed" /\ own' = {} /\ mgr' = NoCore
  /\ bridge' = [t \in Task |-> "idle"]
  /\ pc' = [a \in Actor |-> "idle"] /\ ret' = [a \in Actor |-> "idle"]
  /\ res' = [a \in Actor |-> "no"] /\ hand' = [a \in Actor |-> NoProc]
  /\ tok' = [a \in Actor |-> NoToken] /\ ui' = FreshUi /\ inbox' = <<>>
  /\ UNCHANGED <<proc, issued, file, upsets>>

Preloaded ==
  /\ At(Setup, "preloaded")
  /\ IF res[Setup] = "err" THEN Exit
     ELSE /\ StartBoot
          /\ UNCHANGED <<cores, mgr, bridge, res, hand, tok, inbox,
                         shell, upsets>>

(***************************************************************************)
(* Quitting from the tray, with or without the core, and the idle timer.   *)
(***************************************************************************)
Quit(c) ==
  /\ At(c, "idle") /\ ui.phase # "idle"
  /\ Exit

QuitAndStop(c) ==
  /\ At(c, "idle") /\ ui.phase # "idle" /\ Upset
  /\ Call(c, "stop", "destroy")
  /\ UNCHANGED <<cores, mgr, bridge, hand, ui, inbox, shell>>

(***************************************************************************)
(* Closing the window asks the core for gui_close_behavior; without an     *)
(* answer the window is only minimised.                                    *)
(***************************************************************************)
CloseRequested(c) ==
  /\ At(c, "idle") /\ ui.phase # "idle" /\ Upset
  /\ Call(c, "api", "behave")
  /\ UNCHANGED <<cores, mgr, bridge, hand, ui, inbox, shell>>

CloseBehavior(c) ==
  /\ At(c, "behave")
  /\ \E b \in {"tray_minimize", "close_gui", "close_gui_and_stop_core"} :
       /\ res[c] # "yes" => b = "tray_minimize"
       /\ CASE b = "tray_minimize" -> Done(c)
            [] b = "close_gui" -> Go(c, "destroy")
            [] OTHER -> Call(c, "stop", "destroy")
  /\ UNCHANGED <<cores, mgr, bridge, hand, ui, inbox, shell,
                 upsets>>

DestroyWindow(c) == At(c, "destroy") /\ Exit

-----------------------------------------------------------------------------
Command(a) ==
  \/ StartCheck(a) \/ Launch(a) \/ StoreStarted(a) \/ BootlineFails(a)
  \/ WaitUntilHealthy(a) \/ ClearStarted(a) \/ Cleared(a)
  \/ StopTake(a) \/ StopTerminated(a) \/ StopRemotely(a) \/ StopClear(a)
  \/ StatusRead(a) \/ StatusProbe(a)
  \/ ApiRead(a) \/ ApiSend(a)
  \/ BridgeRead(a) \/ BridgeProbe(a) \/ BridgeSpawn(a)

Boot(m) == BootAsked(m) \/ BootStarted(m) \/ BootHealth(m)
Heartbeat == BeatStart \/ BeatStatus \/ BeatHealth
Closing(c) == CloseBehavior(c) \/ DestroyWindow(c)

Next ==
  \/ \E p \in Proc : CoreComesUp(p) \/ CoreExits(p) \/ CoreCrashes(p)
  \/ RotateAdminToken
  \/ \E a \in Actor : Command(a) \/ LaunchFails(a)
  \/ \E t \in Task : BridgeConnects(t) \/ BridgeEnds(t)
  \/ Listen
  \/ \E m \in Mount : Boot(m)
  \/ Heartbeat
  \/ OpenShell \/ Preloaded
  \/ \E c \in Closer : Quit(c) \/ QuitAndStop(c) \/ CloseRequested(c)
                         \/ Closing(c)

Spec == Init /\ [][Next]_vars

(***************************************************************************)
(* Every process, task and handler that can go on does; the heartbeat's    *)
(* timer fires.  Users, crashes and lost answers owe nothing.              *)
(***************************************************************************)
Fairness ==
  /\ \A p \in Proc : WF_vars(CoreComesUp(p)) /\ WF_vars(CoreExits(p))
  /\ \A a \in Actor : WF_vars(Command(a))
  /\ \A t \in Task : WF_vars(BridgeConnects(t))
                       /\ WF_vars(~CanStream(t) /\ BridgeEnds(t))
  /\ WF_vars(Listen) /\ WF_vars(Heartbeat) /\ WF_vars(Preloaded)
  /\ \A m \in Mount : WF_vars(Boot(m))
  /\ \A c \in Closer : WF_vars(Closing(c))

FairSpec == Spec /\ Fairness

-----------------------------------------------------------------------------
(***************************************************************************)
(* A core that runs, and that this session of the shell has a handle of:   *)
(* it is the manager's child, or held by a call that will store it or wait *)
(* for its end.                                                            *)
(***************************************************************************)
Runs(p) == proc[p] \in {"starting", "serving"}
Kept(p) == mgr.child = p \/ \E a \in Actor : hand[a] = p

(***************************************************************************)
(* A core that this session launched and that still runs is never lost,    *)
(* however the start, stops, status calls and crashes overlap.  It holds   *)
(* as long as no two starts overlap: one run of the bootstrap effect       *)
(* (Mount = {LiveMount}), after the preload if there is one.               *)
(***************************************************************************)
NoOrphan == \A p \in own : Runs(p) => Kept(p)

(***************************************************************************)
(* When starts do overlap (React's StrictMode runs the effect twice),      *)
(* there is one way to lose a running core: store_started_child_state puts *)
(* a child that died after its bootstrap line over it.  Two living ones    *)
(* never meet there, because the lock of the data directory admits one.    *)
(***************************************************************************)
LostOnlyToDead ==
  [][\A p \in own' : Runs(p)' /\ (p \in own => Kept(p)) =>
       Kept(p)' \/ (mgr'.child # NoProc /\ proc'[mgr'.child] # "serving")]_vars

(***************************************************************************)
(* The admin token in memory is the one the stored child was started with, *)
(* or a stop is under way that will drop it: it never outlives the child   *)
(* it was issued by, so it is not offered to whoever holds the port next   *)
(* (the comment in try_restore_admin_token).                               *)
(***************************************************************************)
TokenHasOwner ==
  mgr.token # NoToken =>
    \/ mgr.child # NoProc /\ mgr.token = issued[mgr.child]
    \/ \E a \in Actor : pc[a] \in {"stopping", "stopped"} /\ tok[a] = mgr.token

(***************************************************************************)
(* When the core is gone for good, an open window ends up saying so, with  *)
(* its event stream inactive, although an aborted bridge reports nothing   *)
(* and late bridge events may still arrive: the heartbeat corrects them.   *)
(***************************************************************************)
WindowNotices ==
  <>[](Open /\ ~Healthy) =>
    <>[](ui.phase \in {"disconnected", "error"} /\ ~ui.active)

(***************************************************************************)
(* When the manager keeps a serving child whose token it knows, the window *)
(* ends up running and the manager's bridge streams, whatever broke        *)
(* before: a finished bridge is replaced by the heartbeat.                 *)
(***************************************************************************)
Managed == mgr.child \in Serving /\ mgr.token = file
StreamUp == mgr.task # NoTask /\ bridge[mgr.task] \in Serving
StreamReturns ==
  <>[](Open /\ Managed) => <>[](ui.phase = "running" /\ StreamUp)
=============================================================================
