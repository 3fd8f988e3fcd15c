----------------------------- MODULE Connection -----------------------------
(***************************************************************************)
(* The life of one ElectrumClient (tokio-electrum, client.rs): the calls   *)
(* connect(), disconnect(), shutdown() and Drop on one side, and on the    *)
(* other the connection task that connect() spawns.  They share            *)
(*                                                                         *)
(*   - an atomic status and an atomic `running` flag,                      *)
(*   - the async mutex around the receiver of the command queue,           *)
(*   - a tokio Notify that carries termination requests.                   *)
(*                                                                         *)
(* A step is what happens between two accesses to this shared state.  The  *)
(* calls are synchronous functions: on a multi-thread runtime they and the *)
(* task interleave at every step, on a current-thread runtime whatever     *)
(* runs keeps the thread until it returns or awaits.                       *)
(***************************************************************************)
EXTENDS Status, Integers, FiniteSets

CONSTANTS
  Callers,        \* the application threads or tasks that hold the client
  Tasks,          \* slots for the connection tasks alive at the same time
  NoTask,         \* nobody holds the receiver's mutex
  RuntimeModes,   \* the runtimes to consider; TRUE: multi-thread, FALSE: current-thread
  ReconnectModes  \* the values of Config::reconnect to consider

ASSUME NoTaskAssumption == NoTask \notin Tasks
ASSUME NamesAssumption == Callers \cap Tasks = {}
ASSUME ModesAssumption == RuntimeModes \subseteq BOOLEAN /\ ReconnectModes \subseteq BOOLEAN

VARIABLES
  status,     \* AtomicElectrumConnectionStatus
  running,    \* AtomicBool: a connection task passed the swap and has not stopped
  terminate,  \* state of the terminate Notify: "Empty", "Waiting", "Notified"
  woken,      \* the registered waiter was handed a notification it has not seen
  rxLock,     \* the task that holds the MutexGuard of the command receiver
  pc,         \* where each connection task is
  call,       \* where each caller is inside the client's methods
  dropped,    \* the ElectrumClient was dropped
  config,     \* Config::reconnect and the runtime, never changed
  told        \* history: what the calls accepted so far ask for (see Tells)

vars == <<status, running, terminate, woken, rxLock, pc, call, dropped,
          config, told>>

-----------------------------------------------------------------------------
(* Program points.                                                          *)

\* In the select! of _try_connect, of post_connection, and of the back-off.
Selects == {"Connecting", "Serving", "Sleeping"}

\* Inside the loop of connection_task, with the receiver locked.
LoopPoints ==
  Selects \cup {"Connect", "Check", "MarkDisconnected", "MarkTerminated", "Stop"}

\* From the successful swap of `running` to the store that clears it.
RunningPoints == LoopPoints \cup {"Locking"}

TaskPoints == RunningPoints \cup {"None", "Spawned", "Return"}

CallPoints ==
  {"idle", "connect.mark", "connect.spawn", "disconnect.notify",
   "disconnect.mark", "shutdown.notify", "shutdown.mark"}

\* Somebody waits on the Notify: the state of the Notify is "Waiting" until
\* it is notified, and `woken` from then until it is polled again.
Registered == terminate = "Waiting" \/ woken

\* The task gave up the thread: not polled yet, gone, or pending in a select!.
\* The select! of the only running task is pending once it is registered.
Yielded(t) ==
  \/ pc[t] \in {"None", "Spawned"}
  \/ pc[t] \in Selects /\ Registered

\* Who holds a thread right now.
Busy == {c \in Callers : call[c] # "idle"} \cup {t \in Tasks : ~Yielded(t)}

\* a may take a step: on a current-thread runtime only if nobody else is
\* between two await points.
MayRun(a) == config.multiThread \/ Busy \subseteq {a}

-----------------------------------------------------------------------------
(* tokio::sync::Notify, as notify_one(), notified() and the cancellation of *)
(* notified() are used on the terminate channel.                            *)

\* notify_one(): hand the notification to the waiter, else keep one permit.
NotifyOne ==
  /\ terminate' = IF terminate = "Waiting" THEN "Empty" ELSE "Notified"
  /\ woken' = (woken \/ terminate = "Waiting")

\* The pending notified() is dropped by the select!: a notification it was
\* handed and did not see goes back as a permit.
CancelNotified ==
  /\ terminate' = IF woken THEN "Notified"
                  ELSE IF terminate = "Waiting" THEN "Empty" ELSE terminate
  /\ woken' = FALSE

\* A poll of notified() that completes.
TakeNotification ==
  \/ /\ woken
     /\ woken' = FALSE
     /\ UNCHANGED terminate
  \/ /\ ~woken
     /\ terminate = "Notified"
     /\ terminate' = "Empty"
     /\ UNCHANGED woken

-----------------------------------------------------------------------------
Init ==
  /\ status = "Initialized"
  /\ running = FALSE
  /\ terminate = "Empty"
  /\ woken = FALSE
  /\ rxLock = NoTask
  /\ pc = [t \in Tasks |-> "None"]
  /\ call = [c \in Callers |-> "idle"]
  /\ dropped = FALSE
  /\ config \in [reconnect : ReconnectModes, multiThread : RuntimeModes]
  /\ told = "none"

-----------------------------------------------------------------------------
(* The application's calls.  A call that returns at its first test changes  *)
(* nothing and is a stuttering step.                                        *)

\* Bound: a connect() starts only if a slot is left for the task it spawns.
SlotLeft ==
  Cardinality({c \in Callers : call[c] \in {"connect.mark", "connect.spawn"}})
    < Cardinality({t \in Tasks : pc[t] = "None"})

\* The history of the accepted calls: "none", then "connect" as long as no
\* call asked to stop, "stop" after one that did, "reconnect" after a later
\* connect().
Tells == {"none", "connect", "stop", "reconnect"}

TellConnect == told' = IF told \in {"stop", "reconnect"} THEN "reconnect" ELSE "connect"

\* The call of c goes from one point to the next.
CallMoves(c, from, to) ==
  /\ MayRun(c)
  /\ call[c] = from
  /\ call' = [call EXCEPT ![c] = to]

\* connect(): the status allows it.
Connect(c) ==
  /\ ~dropped
  /\ SlotLeft
  /\ CanConnect(status)
  /\ CallMoves(c, "idle", "connect.mark")
  /\ TellConnect
  /\ UNCHANGED <<status, running, terminate, woken, rxLock, pc, dropped, config>>

\* connect(): set the status to Pending.
ConnectMark(c) ==
  /\ CallMoves(c, "connect.mark", "connect.spawn")
  /\ status' = "Pending"
  /\ UNCHANGED <<running, terminate, woken, rxLock, pc, dropped, config, told>>

\* spawn_connection_task(): spawn unless a task says it is running.
ConnectSpawn(c) ==
  /\ CallMoves(c, "connect.spawn", "idle")
  /\ \/ running /\ UNCHANGED pc
     \/ /\ ~running
        /\ \E t \in Tasks : pc[t] = "None" /\ pc' = [pc EXCEPT ![t] = "Spawned"]
  /\ UNCHANGED <<status, running, terminate, woken, rxLock, dropped, config, told>>

\* disconnect(): the client is neither terminated nor shut down.
Disconnect(c) ==
  /\ ~dropped
  /\ ~IsTerminated(status) /\ ~IsShutdown(status)
  /\ CallMoves(c, "idle", "disconnect.notify")
  /\ told' = "stop"
  /\ UNCHANGED <<status, running, terminate, woken, rxLock, pc, dropped, config>>

\* disconnect(): request the termination, before the status says so.
DisconnectNotify(c) ==
  /\ CallMoves(c, "disconnect.notify", "disconnect.mark")
  /\ NotifyOne
  /\ UNCHANGED <<status, running, rxLock, pc, dropped, config, told>>

DisconnectMark(c) ==
  /\ CallMoves(c, "disconnect.mark", "idle")
  /\ status' = "Terminated"
  /\ UNCHANGED <<running, terminate, woken, rxLock, pc, dropped, config, told>>

\* shutdown(): the client is not shut down yet.
Shutdown(c) ==
  /\ ~dropped
  /\ ~IsShutdown(status)
  /\ CallMoves(c, "idle", "shutdown.notify")
  /\ told' = "stop"
  /\ UNCHANGED <<status, running, terminate, woken, rxLock, pc, dropped, config>>

ShutdownNotify(c) ==
  /\ CallMoves(c, "shutdown.notify", "shutdown.mark")
  /\ NotifyOne
  /\ UNCHANGED <<status, running, rxLock, pc, dropped, config, told>>

ShutdownMark(c) ==
  /\ CallMoves(c, "shutdown.mark", "idle")
  /\ status' = "Shutdown"
  /\ UNCHANGED <<running, terminate, woken, rxLock, pc, dropped, config, told>>

\* Drop: no other reference is left, so no call is in flight and none follows.
\* It runs shutdown(), whose first test it includes.
Drop(c) ==
  /\ ~dropped
  /\ \A d \in Callers : call[d] = "idle"
  /\ MayRun(c)
  /\ dropped' = TRUE
  /\ told' = "stop"
  /\ call' = IF IsShutdown(status) THEN call ELSE [call EXCEPT ![c] = "shutdown.notify"]
  /\ UNCHANGED <<status, running, terminate, woken, rxLock, pc, config>>

-----------------------------------------------------------------------------
(* The connection task.                                                     *)

\* The task t goes from one point to the next.
TaskMoves(t, from, to) ==
  /\ MayRun(t)
  /\ pc[t] = from
  /\ pc' = [pc EXCEPT ![t] = to]

\* Variant of Start without the re-check of the swapped value.
StartUnguarded(t) ==
  /\ TaskMoves(t, "Spawned", "Locking")
  /\ running' = TRUE
  /\ UNCHANGED <<status, terminate, woken, rxLock, call, dropped, config, told>>

\* connection_task(): swap `running`; a second task returns at once.
Start(t) ==
  /\ TaskMoves(t, "Spawned", IF running THEN "None" ELSE "Locking")
  /\ running' = TRUE
  /\ UNCHANGED <<status, terminate, woken, rxLock, call, dropped, config, told>>

\* connection_task(): lock the receiver.
AcquireRx(t) ==
  /\ rxLock = NoTask
  /\ TaskMoves(t, "Locking", "Connect")
  /\ rxLock' = t
  /\ UNCHANGED <<status, running, terminate, woken, call, dropped, config, told>>

\* _try_connect(): set the status to Connecting, enter the select!.
SetConnecting(t) ==
  /\ TaskMoves(t, "Connect", "Connecting")
  /\ status' = "Connecting"
  /\ UNCHANGED <<running, terminate, woken, rxLock, call, dropped, config, told>>

\* A select! polls notified() for the first time and finds no permit.
Register(t) ==
  /\ MayRun(t)
  /\ pc[t] \in Selects
  /\ ~woken /\ terminate = "Empty"
  /\ terminate' = "Waiting"
  /\ UNCHANGED <<status, running, woken, rxLock, pc, call, dropped, config, told>>

\* _try_connect(): the server accepted, which needs the select! to be pending
\* meanwhile; the session starts.
ConnectOk(t) ==
  /\ Registered
  /\ TaskMoves(t, "Connecting", "Serving")
  /\ CancelNotified
  /\ status' = "Connected"
  /\ UNCHANGED <<running, rxLock, call, dropped, config, told>>

\* _try_connect(): connecting failed or timed out.
ConnectErr(t) ==
  /\ TaskMoves(t, "Connecting", "Check")
  /\ CancelNotified
  /\ status' = "Disconnected"
  /\ UNCHANGED <<running, rxLock, call, dropped, config, told>>

\* _try_connect(): termination requested while connecting.
ConnectTerminated(t) ==
  /\ TaskMoves(t, "Connecting", "Check")
  /\ TakeNotification
  /\ UNCHANGED <<status, running, rxLock, call, dropped, config, told>>

\* post_connection(): the worker, the sender or the receiver ended.
ConnectionEnds(t) ==
  /\ TaskMoves(t, "Serving", "Check")
  /\ CancelNotified
  /\ UNCHANGED <<status, running, rxLock, call, dropped, config, told>>

\* Variant of ServeTerminated: the select! has no such branch.
ServeTerminatedNever(t) == FALSE

\* post_connection(): termination requested during the session.
ServeTerminated(t) ==
  /\ TaskMoves(t, "Serving", "Check")
  /\ TakeNotification
  /\ UNCHANGED <<status, running, rxLock, call, dropped, config, told>>

\* Variant of AfterConnection that does not look for a shutdown.
AfterConnectionIgnoresShutdown(s) ==
  IF IsTerminated(s) THEN "Stop"
  ELSE IF ~config.reconnect THEN "MarkTerminated"
  ELSE IF IsDisconnectedTerminatedOrShutdown(s) THEN "Sleeping"
  ELSE "MarkDisconnected"

\* Variant of AfterConnection that stops after a failed attempt too.
AfterConnectionGivesUp(s) ==
  IF IsDisconnectedTerminatedOrShutdown(s) THEN "Stop"
  ELSE IF ~config.reconnect THEN "MarkTerminated"
  ELSE "MarkDisconnected"

\* Variant of AfterConnection that does not look at Config::reconnect.
AfterConnectionAlwaysRetries(s) ==
  IF IsTerminated(s) \/ IsShutdown(s) THEN "Stop"
  ELSE IF IsDisconnectedTerminatedOrShutdown(s) THEN "Sleeping"
  ELSE "MarkDisconnected"

\* Variant of AfterConnection that breaks the loop without a last status.
AfterConnectionNoMark(s) ==
  IF IsTerminated(s) \/ IsShutdown(s) \/ ~config.reconnect THEN "Stop"
  ELSE IF IsDisconnectedTerminatedOrShutdown(s) THEN "Sleeping"
  ELSE "MarkDisconnected"

\* What connection_task() does next, given the status it reads once after a
\* connection.
AfterConnection(s) ==
  IF IsTerminated(s) \/ IsShutdown(s) THEN "Stop"
  ELSE IF ~config.reconnect THEN "MarkTerminated"
  ELSE IF IsDisconnectedTerminatedOrShutdown(s) THEN "Sleeping"
  ELSE "MarkDisconnected"

CheckStatus(t) ==
  /\ TaskMoves(t, "Check", AfterConnection(status))
  /\ UNCHANGED <<status, running, terminate, woken, rxLock, call, dropped, config, told>>

\* Variant of MarkDisconnected with the status the comments call "banned".
MarkBanned(t) ==
  /\ TaskMoves(t, "MarkDisconnected", "Sleeping")
  /\ status' = "Banned"
  /\ UNCHANGED <<running, terminate, woken, rxLock, call, dropped, config, told>>

MarkDisconnected(t) ==
  /\ TaskMoves(t, "MarkDisconnected", "Sleeping")
  /\ status' = "Disconnected"
  /\ UNCHANGED <<running, terminate, woken, rxLock, call, dropped, config, told>>

\* Variant of MarkTerminated that clears `running` inside the loop.
MarkTerminatedClears(t) ==
  /\ TaskMoves(t, "MarkTerminated", "Stop")
  /\ status' = "Terminated"
  /\ running' = FALSE
  /\ UNCHANGED <<terminate, woken, rxLock, call, dropped, config, told>>

\* Variant of MarkTerminated that does not store the status.
MarkTerminatedSilent(t) ==
  /\ TaskMoves(t, "MarkTerminated", "Stop")
  /\ UNCHANGED <<status, running, terminate, woken, rxLock, call, dropped, config, told>>

\* connection_task(): reconnection is disabled.
MarkTerminated(t) ==
  /\ TaskMoves(t, "MarkTerminated", "Stop")
  /\ status' = "Terminated"
  /\ UNCHANGED <<running, terminate, woken, rxLock, call, dropped, config, told>>

\* connection_task(): the back-off, which is never zero, ended; try again.
SleepElapsed(t) ==
  /\ Registered
  /\ TaskMoves(t, "Sleeping", "Connect")
  /\ CancelNotified
  /\ UNCHANGED <<status, running, rxLock, call, dropped, config, told>>

\* connection_task(): termination requested during the back-off.
SleepTerminated(t) ==
  /\ TaskMoves(t, "Sleeping", "Stop")
  /\ TakeNotification
  /\ UNCHANGED <<status, running, rxLock, call, dropped, config, told>>

\* connection_task(): clear `running`, still holding the receiver.
MarkStopped(t) ==
  /\ TaskMoves(t, "Stop", "Return")
  /\ running' = FALSE
  /\ UNCHANGED <<status, terminate, woken, rxLock, call, dropped, config, told>>

\* Variant of Return that leaks the MutexGuard.
ReturnLocked(t) ==
  /\ TaskMoves(t, "Return", "None")
  /\ UNCHANGED <<status, running, terminate, woken, rxLock, call, dropped, config, told>>

\* connection_task(): return; the MutexGuard of the receiver is dropped.
Return(t) ==
  /\ TaskMoves(t, "Return", "None")
  /\ rxLock' = NoTask
  /\ UNCHANGED <<status, running, terminate, woken, call, dropped, config, told>>

-----------------------------------------------------------------------------
\* The step of a call that has begun.
CallStep(c) ==
  \/ ConnectMark(c) \/ ConnectSpawn(c)
  \/ DisconnectNotify(c) \/ DisconnectMark(c)
  \/ ShutdownNotify(c) \/ ShutdownMark(c)

\* The application begins a call.
CallBegin(c) == Connect(c) \/ Disconnect(c) \/ Shutdown(c) \/ Drop(c)

\* The task takes a termination request.
TakeTermination(t) == ConnectTerminated(t) \/ ServeTerminated(t) \/ SleepTerminated(t)

\* A step the task takes sooner or later: its own code, the connection
\* attempt (connection_timeout bounds it) and the timer of the back-off.
TaskStep(t) ==
  \/ Start(t) \/ AcquireRx(t) \/ SetConnecting(t) \/ Register(t)
  \/ ConnectOk(t) \/ ConnectErr(t)
  \/ CheckStatus(t) \/ MarkDisconnected(t) \/ MarkTerminated(t)
  \/ SleepElapsed(t) \/ MarkStopped(t) \/ Return(t)

\* The client is gone and so is its task.
Finished ==
  /\ dropped
  /\ \A c \in Callers : call[c] = "idle"
  /\ \A t \in Tasks : pc[t] = "None"
  /\ UNCHANGED vars

Next ==
  \/ \E c \in Callers : CallBegin(c) \/ CallStep(c)
  \/ \E t \in Tasks : TaskStep(t) \/ TakeTermination(t) \/ ConnectionEnds(t)
  \/ Finished

Spec == Init /\ [][Next]_vars

\* The runtime polls a task that was woken again and again (its run queues
\* are FIFO), whoever else runs in between; a begun call runs to its end; a
\* select! starts with a random branch, so a termination request that is
\* pending every time the task waits is taken some time.  Nothing obliges
\* a connection to end or the application to call.
Fairness ==
  /\ \A t \in Tasks : SF_vars(TaskStep(t)) /\ SF_vars(TakeTermination(t))
  /\ \A c \in Callers : SF_vars(CallStep(c))

FairSpec == Spec /\ Fairness

-----------------------------------------------------------------------------
\* Every variable keeps its type.
TypeOK ==
  /\ status \in Statuses
  /\ running \in BOOLEAN
  /\ terminate \in {"Empty", "Waiting", "Notified"}
  /\ woken \in BOOLEAN
  /\ rxLock \in Tasks \cup {NoTask}
  /\ pc \in [Tasks -> TaskPoints]
  /\ call \in [Callers -> CallPoints]
  /\ dropped \in BOOLEAN
  /\ config \in [reconnect : BOOLEAN, multiThread : BOOLEAN]
  /\ told \in Tells

\* At most one task is past the swap, and `running` says whether one is
\* (the re-check at the start of connection_task).
OneLoop ==
  /\ \A t, u \in Tasks : pc[t] \in RunningPoints /\ pc[u] \in RunningPoints => t = u
  /\ running <=> \E t \in Tasks : pc[t] \in RunningPoints

\* A task waits for the receiver only while a task that has already stopped
\* returns: never behind a task that is connected, connecting or sleeping
\* (the MutexGuard lives as long as connection_task).
LockWaitShort ==
  \A t \in Tasks : pc[t] = "Locking" /\ rxLock # NoTask =>
    /\ rxLock # t
    /\ pc[rxLock] = "Return"

\* A client that shows Connected or is Connecting has a task that is in that
\* phase, or that left it and has yet to write the next status: no such
\* status outlives the task (set_status and its callers).
StatusHasTask ==
  /\ PublicStatus(status) = "Connected" =>
       \E t \in Tasks : pc[t] \in {"Serving", "Check", "MarkDisconnected", "MarkTerminated"}
  /\ status = "Connecting" =>
       \E t \in Tasks : pc[t] \in {"Connecting", "Check", "MarkDisconnected", "MarkTerminated"}

\* After the first connect() and as long as nobody asks the client to stop,
\* a client that reconnects has a task, or a call about to spawn it: two
\* simultaneous connect() never cancel each other out (spawn_connection_task
\* and the swap of connection_task).
KeepAlive ==
  config.reconnect /\ told = "connect" =>
    \/ \E t \in Tasks : pc[t] \in {"Spawned"} \cup (RunningPoints \ {"Stop"})
    \/ \E c \in Callers : call[c] \in {"connect.mark", "connect.spawn"}

\* On a current-thread runtime a client that nobody asked to stop and that has
\* no task any more can be connected again: with reconnection disabled the task
\* leaves the status Terminated behind, not one that connect() refuses
\* (connection_task).
ConnectAgain ==
  /\ ~config.multiThread
  /\ told \in {"none", "connect"}
  /\ \A c \in Callers : call[c] = "idle"
  /\ \A t \in Tasks : pc[t] = "None"
  => CanConnect(status)

\* On a current-thread runtime disconnect() and shutdown() end a session: when
\* the status says terminated or shut down during a session, the task of that
\* session returns, unless a later connect() sets the status to Pending first.
StopHonouredOnOneThread ==
  \A t \in Tasks :
    (~config.multiThread /\ pc[t] = "Serving" /\ status \in {"Terminated", "Shutdown"})
      ~> (pc[t] = "None" \/ status = "Pending")

\* A termination request made while a task runs does not stay in the Notify
\* for ever: it is taken, or the task stops.
TerminationTaken == ((terminate = "Notified" \/ woken) /\ running)
                      ~> (~running \/ (terminate # "Notified" /\ ~woken))

\* A spawned task gets the receiver and tries to connect, or finds another
\* task running and returns: it never waits for the receiver for ever.
SpawnedRuns ==
  \A t \in Tasks : (pc[t] = "Spawned") ~> (pc[t] \in {"Connecting", "None"})

\* The phase of the abstract loop: that of the one task past the swap.
LoopPhase ==
  CASE \E t \in Tasks : pc[t] \in {"Locking", "Connect", "Connecting"} -> "attempting"
    [] \E t \in Tasks : pc[t] = "Serving" -> "serving"
    [] \E t \in Tasks : pc[t] \in {"Check", "MarkDisconnected", "MarkTerminated"} -> "deciding"
    [] \E t \in Tasks : pc[t] = "Sleeping" -> "waiting"
    [] OTHER -> "stopped"

Loop == INSTANCE ConnectionLoop WITH phase <- LoopPhase, reconnect <- config.reconnect

\* However the calls race with the tasks, together they behave as one loop
\* that nobody but the application or a disabled reconnection ends, and that
\* stays in no phase but the session (connection_task): Connection implements
\* ConnectionLoop.
ImplementsLoop == Loop!LiveSpec

-----------------------------------------------------------------------------
(* What the documentation and the tests promise and the code does not keep. *)

\* Terminated is "The connection has been terminated and no retry will occur"
\* (status.rs), and disconnect() and shutdown() store their status during a
\* session to end it: that session ends, on every runtime.
ServingStopHonoured ==
  \A t \in Tasks :
    (pc[t] = "Serving" /\ status \in {"Terminated", "Shutdown"})
      ~> (pc[t] = "None" \/ status = "Pending")

\* Pending is "The client will try to connect shortly", Disconnected is "The
\* connection failed, but another attempt will occur soon" (status.rs): with
\* no call in flight on a client that somebody still holds, a task exists to make
\* that attempt.
AttemptPromise ==
  /\ ~dropped
  /\ status \in {"Pending", "Disconnected"}
  /\ \A c \in Callers : call[c] = "idle"
  => \E t \in Tasks : pc[t] # "None"

\* "We rely on Drop for disconnection" (client.rs); test_shutdown_on_drop
\* asserts that the task is not running one second after the drop.
DropStopsTask == dropped ~> ~running

\* connect() "automatically reconnects in case of disconnection" (client.rs):
\* a termination request taken by the task is one nobody withdrew by a later
\* connect().
OnlyStopsTerminate ==
  [][(\E t \in Tasks : TakeTermination(t)) => told = "stop"]_vars

=============================================================================
