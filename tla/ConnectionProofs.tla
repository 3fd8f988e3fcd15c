-------------------------- MODULE ConnectionProofs --------------------------
(***************************************************************************)
(* Theorems about Connection, for any sets of callers and task slots and   *)
(* for both runtimes.  The inductive invariant IInv adds to the properties *)
(* the ownership of the receiver's mutex (for LockWaitShort) and what no   *)
(* step does before somebody asks the client to stop (for KeepAlive and    *)
(* ConnectAgain).  The last section shows that Connection implements       *)
(* ConnectionLoop.                                                         *)
(***************************************************************************)
EXTENDS Connection, TLAPS

\* The points at which a task holds the guard of the receiver.
LockPoints == LoopPoints \cup {"Return"}

\* The guard belongs to the one task at these points.
LockOwner ==
  /\ \A t \in Tasks : pc[t] \in LockPoints => rxLock = t
  /\ rxLock # NoTask => pc[rxLock] \in LockPoints

\* Before the first disconnect(), shutdown() or drop, nobody is notified and
\* a client that reconnects is neither terminated nor on its way there.
NobodyStops ==
  told \in {"none", "connect"} =>
    /\ terminate # "Notified"
    /\ ~woken
    /\ \A c \in Callers : call[c] \in {"idle", "connect.mark", "connect.spawn"}
    /\ config.reconnect =>
         /\ ~IsTerminated(status) /\ ~IsShutdown(status)
         /\ \A t \in Tasks : pc[t] \notin {"MarkTerminated", "Stop", "Return"}

\* Before the first call there is no task and no call in flight.
NobodyBegins ==
  told = "none" =>
    /\ \A t \in Tasks : pc[t] = "None"
    /\ \A c \in Callers : call[c] = "idle"

\* Only a client that reconnects marks a lost connection.
MarksToRetry == \A t \in Tasks : pc[t] = "MarkDisconnected" => config.reconnect

\* On one thread and before the first request to stop, a task on its way out
\* leaves the status Terminated behind, and so does the last one to leave.
LeavesTerminated ==
  ~config.multiThread /\ told \in {"none", "connect"} =>
    /\ status # "Shutdown"
    /\ \A t \in Tasks : pc[t] \in {"Stop", "Return"} => status = "Terminated"
    /\ ConnectAgain

IInv ==
  /\ TypeOK /\ OneLoop /\ LockOwner /\ StatusHasTask
  /\ NobodyStops /\ KeepAlive /\ NobodyBegins /\ MarksToRetry
  /\ LeavesTerminated

-----------------------------------------------------------------------------
\* The steps of the calls, and the steps of the task, under one name each for
\* the proofs.
CallSteps(c) == CallBegin(c) \/ CallStep(c)

TaskSteps(t) == TaskStep(t) \/ TakeTermination(t) \/ ConnectionEnds(t)

\* A step is a call's, a task's, or changes nothing.
LEMMA NextCases ==
  ASSUME [Next]_vars
  PROVE  \/ \E c \in Callers : CallSteps(c)
         \/ \E t \in Tasks : TaskSteps(t)
         \/ UNCHANGED vars
BY Zenon DEF Next, CallSteps, TaskSteps, Finished

USE DEF Statuses, TaskPoints, RunningPoints, LoopPoints, Selects, CallPoints

-----------------------------------------------------------------------------
\* The initial states have their types.
LEMMA InitType == Init => TypeOK
BY ModesAssumption DEF Init, TypeOK, Tells

\* A call preserves the types.
LEMMA CallType ==
  ASSUME TypeOK, NEW c \in Callers, CallSteps(c)
  PROVE  TypeOK'
<1> USE DEF TypeOK, Tells
<1>1. CASE Connect(c)
  BY <1>1 DEF Connect, CallMoves, TellConnect
<1>2. CASE ConnectMark(c)
  BY <1>2 DEF ConnectMark, CallMoves
<1>3. CASE ConnectSpawn(c)
  BY <1>3 DEF ConnectSpawn, CallMoves
<1>4. CASE Disconnect(c)
  BY <1>4 DEF Disconnect, CallMoves
<1>5. CASE DisconnectNotify(c)
  BY <1>5 DEF DisconnectNotify, CallMoves, NotifyOne
<1>6. CASE DisconnectMark(c)
  BY <1>6 DEF DisconnectMark, CallMoves
<1>7. CASE Shutdown(c)
  BY <1>7 DEF Shutdown, CallMoves
<1>8. CASE ShutdownNotify(c)
  BY <1>8 DEF ShutdownNotify, CallMoves, NotifyOne
<1>9. CASE ShutdownMark(c)
  BY <1>9 DEF ShutdownMark, CallMoves
<1>10. CASE Drop(c)
  BY <1>10 DEF Drop
<1> QED
  BY <1>1, <1>2, <1>3, <1>4, <1>5, <1>6, <1>7, <1>8, 
     <1>9, <1>10 DEF CallSteps, CallBegin, CallStep

\* A step of a task preserves the types.
LEMMA TaskType ==
  ASSUME TypeOK, NEW t \in Tasks, TaskSteps(t)
  PROVE  TypeOK'
<1> USE DEF TypeOK, Tells
<1>1. CASE Start(t)
  BY <1>1 DEF Start, TaskMoves
<1>2. CASE AcquireRx(t)
  BY <1>2 DEF AcquireRx, TaskMoves
<1>3. CASE SetConnecting(t)
  BY <1>3 DEF SetConnecting, TaskMoves
<1>4. CASE Register(t)
  BY <1>4 DEF Register
<1>5. CASE ConnectOk(t)
  BY <1>5 DEF ConnectOk, TaskMoves, CancelNotified
<1>6. CASE ConnectErr(t)
  BY <1>6 DEF ConnectErr, TaskMoves, CancelNotified
<1>7. CASE ConnectTerminated(t)
  BY <1>7 DEF ConnectTerminated, TaskMoves, TakeNotification
<1>8. CASE ConnectionEnds(t)
  BY <1>8 DEF ConnectionEnds, TaskMoves, CancelNotified
<1>9. CASE ServeTerminated(t)
  BY <1>9 DEF ServeTerminated, TaskMoves, TakeNotification
<1>10. CASE CheckStatus(t)
  BY <1>10 DEF CheckStatus, AfterConnection, TaskMoves
<1>11. CASE MarkDisconnected(t)
  BY <1>11 DEF MarkDisconnected, TaskMoves
<1>12. CASE MarkTerminated(t)
  BY <1>12 DEF MarkTerminated, TaskMoves
<1>13. CASE SleepElapsed(t)
  BY <1>13 DEF SleepElapsed, TaskMoves, CancelNotified
<1>14. CASE SleepTerminated(t)
  BY <1>14 DEF SleepTerminated, TaskMoves, TakeNotification
<1>15. CASE MarkStopped(t)
  BY <1>15 DEF MarkStopped, TaskMoves
<1>16. CASE Return(t)
  BY <1>16 DEF Return, TaskMoves
<1> QED
  BY <1>1, <1>2, <1>3, <1>4, <1>5, <1>6, <1>7, <1>8, 
     <1>9, <1>10, <1>11, <1>12, <1>13, <1>14, <1>15, <1>16 DEF TaskSteps, TaskStep, TakeTermination

\* Every variable keeps its type.
THEOREM TypeCorrect == Spec => []TypeOK
<1>1. TypeOK /\ [Next]_vars => TypeOK'
  <2>1. ASSUME TypeOK, UNCHANGED vars
        PROVE  TypeOK'
    BY <2>1 DEF TypeOK, vars
  <2> QED
    BY <2>1, NextCases, CallType, TaskType
<1> QED
  BY <1>1, InitType, PTL DEF Spec

-----------------------------------------------------------------------------
(* One loop, and the owner of the receiver.                                 *)

\* A call leaves the tasks that run, the flag and the receiver alone: it
\* only fills an empty slot.
LEMMA CallKeepsLoops ==
  ASSUME TypeOK, NEW c \in Callers, CallSteps(c)
  PROVE  /\ UNCHANGED <<running, rxLock>>
         /\ \A t \in Tasks : pc'[t] = pc[t] \/ (pc[t] = "None" /\ pc'[t] = "Spawned")
<1> USE DEF TypeOK
<1>1. CASE Connect(c)
  BY <1>1 DEF Connect, CallMoves, TellConnect
<1>2. CASE ConnectMark(c)
  BY <1>2 DEF ConnectMark, CallMoves
<1>3. CASE ConnectSpawn(c)
  BY <1>3 DEF ConnectSpawn, CallMoves
<1>4. CASE Disconnect(c)
  BY <1>4 DEF Disconnect, CallMoves
<1>5. CASE DisconnectNotify(c)
  BY <1>5 DEF DisconnectNotify, CallMoves, NotifyOne
<1>6. CASE DisconnectMark(c)
  BY <1>6 DEF DisconnectMark, CallMoves
<1>7. CASE Shutdown(c)
  BY <1>7 DEF Shutdown, CallMoves
<1>8. CASE ShutdownNotify(c)
  BY <1>8 DEF ShutdownNotify, CallMoves, NotifyOne
<1>9. CASE ShutdownMark(c)
  BY <1>9 DEF ShutdownMark, CallMoves
<1>10. CASE Drop(c)
  BY <1>10 DEF Drop
<1> QED
  BY <1>1, <1>2, <1>3, <1>4, <1>5, <1>6, <1>7, <1>8, 
     <1>9, <1>10 DEF CallSteps, CallBegin, CallStep

\* A call preserves both.
LEMMA CallLoop ==
  ASSUME TypeOK, OneLoop, LockOwner, NEW c \in Callers, CallSteps(c)
  PROVE  OneLoop' /\ LockOwner'
<1>1. /\ UNCHANGED <<running, rxLock>>
      /\ \A t \in Tasks : pc'[t] = pc[t] \/ (pc[t] = "None" /\ pc'[t] = "Spawned")
  BY CallKeepsLoops
<1>2. OneLoop'
  BY <1>1 DEF OneLoop
<1>3. LockOwner'
  BY <1>1 DEF LockOwner, LockPoints, TypeOK
<1> QED
  BY <1>2, <1>3

\* A step of a task preserves both: only the swap of Start sets the flag and
\* only MarkStopped clears it, while the task that leaves or enters the loop
\* holds the receiver.
LEMMA TaskLoop ==
  ASSUME TypeOK, OneLoop, LockOwner, NEW t \in Tasks, TaskSteps(t)
  PROVE  OneLoop' /\ LockOwner'
<1> USE DEF TypeOK, OneLoop, LockOwner, LockPoints
<1>1. CASE Start(t)
  BY <1>1 DEF Start, TaskMoves
<1>2. CASE AcquireRx(t)
  BY <1>2, NoTaskAssumption DEF AcquireRx, TaskMoves
<1>3. CASE SetConnecting(t)
  BY <1>3 DEF SetConnecting, TaskMoves
<1>4. CASE Register(t)
  BY <1>4 DEF Register
<1>5. CASE ConnectOk(t)
  BY <1>5 DEF ConnectOk, TaskMoves, CancelNotified
<1>6. CASE ConnectErr(t)
  BY <1>6 DEF ConnectErr, TaskMoves, CancelNotified
<1>7. CASE ConnectTerminated(t)
  BY <1>7 DEF ConnectTerminated, TaskMoves, TakeNotification
<1>8. CASE ConnectionEnds(t)
  BY <1>8 DEF ConnectionEnds, TaskMoves, CancelNotified
<1>9. CASE ServeTerminated(t)
  BY <1>9 DEF ServeTerminated, TaskMoves, TakeNotification
<1>10. CASE CheckStatus(t)
  BY <1>10 DEF CheckStatus, AfterConnection, TaskMoves
<1>11. CASE MarkDisconnected(t)
  BY <1>11 DEF MarkDisconnected, TaskMoves
<1>12. CASE MarkTerminated(t)
  BY <1>12 DEF MarkTerminated, TaskMoves
<1>13. CASE SleepElapsed(t)
  BY <1>13 DEF SleepElapsed, TaskMoves, CancelNotified
<1>14. CASE SleepTerminated(t)
  BY <1>14 DEF SleepTerminated, TaskMoves, TakeNotification
<1>15. CASE MarkStopped(t)
  BY <1>15 DEF MarkStopped, TaskMoves
<1>16. CASE Return(t)
  BY <1>16 DEF Return, TaskMoves
<1> QED
  BY <1>1, <1>2, <1>3, <1>4, <1>5, <1>6, <1>7, <1>8, 
     <1>9, <1>10, <1>11, <1>12, <1>13, <1>14, <1>15, <1>16 DEF TaskSteps, TaskStep, TakeTermination

-----------------------------------------------------------------------------
(* The status and the task behind it.                                       *)

\* A call stores no status that needs a task.
LEMMA CallStatus ==
  ASSUME TypeOK, StatusHasTask, NEW c \in Callers, CallSteps(c)
  PROVE  StatusHasTask'
<1>1. \A t \in Tasks : pc'[t] = pc[t] \/ (pc[t] = "None" /\ pc'[t] = "Spawned")
  BY CallKeepsLoops
<1>2. status' = status \/ status' \in {"Pending", "Terminated", "Shutdown"}
  BY DEF CallSteps, CallBegin, CallStep, Connect, ConnectMark, ConnectSpawn,
     Disconnect, DisconnectNotify, DisconnectMark, Shutdown, ShutdownNotify,
     ShutdownMark, Drop
<1> QED
  BY <1>1, <1>2 DEF StatusHasTask, PublicStatus

\* A task that leaves the points that justify the status stores another one.
LEMMA TaskStatus ==
  ASSUME TypeOK, StatusHasTask, NEW t \in Tasks, TaskSteps(t)
  PROVE  StatusHasTask'
<1> USE DEF TypeOK, StatusHasTask, PublicStatus, IsTerminated, IsShutdown,
             IsDisconnectedTerminatedOrShutdown
<1>1. CASE Start(t)
  BY <1>1 DEF Start, TaskMoves
<1>2. CASE AcquireRx(t)
  BY <1>2 DEF AcquireRx, TaskMoves
<1>3. CASE SetConnecting(t)
  BY <1>3 DEF SetConnecting, TaskMoves
<1>4. CASE Register(t)
  BY <1>4 DEF Register
<1>5. CASE ConnectOk(t)
  BY <1>5 DEF ConnectOk, TaskMoves, CancelNotified
<1>6. CASE ConnectErr(t)
  BY <1>6 DEF ConnectErr, TaskMoves, CancelNotified
<1>7. CASE ConnectTerminated(t)
  BY <1>7 DEF ConnectTerminated, TaskMoves, TakeNotification
<1>8. CASE ConnectionEnds(t)
  BY <1>8 DEF ConnectionEnds, TaskMoves, CancelNotified
<1>9. CASE ServeTerminated(t)
  BY <1>9 DEF ServeTerminated, TaskMoves, TakeNotification
<1>10. CASE CheckStatus(t)
  BY <1>10 DEF CheckStatus, AfterConnection, TaskMoves
<1>11. CASE MarkDisconnected(t)
  BY <1>11 DEF MarkDisconnected, TaskMoves
<1>12. CASE MarkTerminated(t)
  BY <1>12 DEF MarkTerminated, TaskMoves
<1>13. CASE SleepElapsed(t)
  BY <1>13 DEF SleepElapsed, TaskMoves, CancelNotified
<1>14. CASE SleepTerminated(t)
  BY <1>14 DEF SleepTerminated, TaskMoves, TakeNotification
<1>15. CASE MarkStopped(t)
  BY <1>15 DEF MarkStopped, TaskMoves
<1>16. CASE Return(t)
  BY <1>16 DEF Return, TaskMoves
<1> QED
  BY <1>1, <1>2, <1>3, <1>4, <1>5, <1>6, <1>7, <1>8, 
     <1>9, <1>10, <1>11, <1>12, <1>13, <1>14, <1>15, <1>16 DEF TaskSteps, TaskStep, TakeTermination

-----------------------------------------------------------------------------
(* Nothing stops before the application asks for it.                        *)

\* Only disconnect(), shutdown() and a drop notify, and they say so first.
LEMMA CallNobodyStops ==
  ASSUME TypeOK, NobodyStops, NEW c \in Callers, CallSteps(c)
  PROVE  NobodyStops'
<1> USE DEF TypeOK, NobodyStops, Tells, IsTerminated, IsShutdown
<1>1. CASE Connect(c)
  BY <1>1 DEF Connect, CallMoves, TellConnect
<1>2. CASE ConnectMark(c)
  BY <1>2 DEF ConnectMark, CallMoves
<1>3. CASE ConnectSpawn(c)
  BY <1>3 DEF ConnectSpawn, CallMoves
<1>4. CASE Disconnect(c)
  BY <1>4 DEF Disconnect, CallMoves
<1>5. CASE DisconnectNotify(c)
  BY <1>5 DEF DisconnectNotify, CallMoves, NotifyOne
<1>6. CASE DisconnectMark(c)
  BY <1>6 DEF DisconnectMark, CallMoves
<1>7. CASE Shutdown(c)
  BY <1>7 DEF Shutdown, CallMoves
<1>8. CASE ShutdownNotify(c)
  BY <1>8 DEF ShutdownNotify, CallMoves, NotifyOne
<1>9. CASE ShutdownMark(c)
  BY <1>9 DEF ShutdownMark, CallMoves
<1>10. CASE Drop(c)
  BY <1>10 DEF Drop
<1> QED
  BY <1>1, <1>2, <1>3, <1>4, <1>5, <1>6, <1>7, <1>8, 
     <1>9, <1>10 DEF CallSteps, CallBegin, CallStep

\* Un-notified, a task leaves its loop for no other reason than a final status
\* or a disabled reconnection.
LEMMA TaskNobodyStops ==
  ASSUME TypeOK, NobodyStops, NEW t \in Tasks, TaskSteps(t)
  PROVE  NobodyStops'
<1> USE DEF TypeOK, NobodyStops, Tells, IsTerminated, IsShutdown,
             IsDisconnectedTerminatedOrShutdown
<1>1. CASE Start(t)
  BY <1>1 DEF Start, TaskMoves
<1>2. CASE AcquireRx(t)
  BY <1>2 DEF AcquireRx, TaskMoves
<1>3. CASE SetConnecting(t)
  BY <1>3 DEF SetConnecting, TaskMoves
<1>4. CASE Register(t)
  BY <1>4 DEF Register
<1>5. CASE ConnectOk(t)
  BY <1>5 DEF ConnectOk, TaskMoves, CancelNotified
<1>6. CASE ConnectErr(t)
  BY <1>6 DEF ConnectErr, TaskMoves, CancelNotified
<1>7. CASE ConnectTerminated(t)
  BY <1>7 DEF ConnectTerminated, TaskMoves, TakeNotification
<1>8. CASE ConnectionEnds(t)
  BY <1>8 DEF ConnectionEnds, TaskMoves, CancelNotified
<1>9. CASE ServeTerminated(t)
  BY <1>9 DEF ServeTerminated, TaskMoves, TakeNotification
<1>10. CASE CheckStatus(t)
  BY <1>10 DEF CheckStatus, AfterConnection, TaskMoves
<1>11. CASE MarkDisconnected(t)
  BY <1>11 DEF MarkDisconnected, TaskMoves
<1>12. CASE MarkTerminated(t)
  BY <1>12 DEF MarkTerminated, TaskMoves
<1>13. CASE SleepElapsed(t)
  BY <1>13 DEF SleepElapsed, TaskMoves, CancelNotified
<1>14. CASE SleepTerminated(t)
  BY <1>14 DEF SleepTerminated, TaskMoves, TakeNotification
<1>15. CASE MarkStopped(t)
  BY <1>15 DEF MarkStopped, TaskMoves
<1>16. CASE Return(t)
  BY <1>16 DEF Return, TaskMoves
<1> QED
  BY <1>1, <1>2, <1>3, <1>4, <1>5, <1>6, <1>7, <1>8, 
     <1>9, <1>10, <1>11, <1>12, <1>13, <1>14, <1>15, <1>16 DEF TaskSteps, TaskStep, TakeTermination

\* A call preserves KeepAlive: connect() spawns a task, or sees `running`,
\* which OneLoop backs with a task that NobodyStops keeps from stopping.
LEMMA CallKeepAlive ==
  ASSUME TypeOK, OneLoop, NobodyStops, KeepAlive, NEW c \in Callers, CallSteps(c)
  PROVE  KeepAlive'
<1> USE DEF TypeOK, OneLoop, NobodyStops, KeepAlive, Tells
<1>1. CASE Connect(c)
  BY <1>1 DEF Connect, CallMoves, TellConnect
<1>2. CASE ConnectMark(c)
  BY <1>2 DEF ConnectMark, CallMoves
<1>3. CASE ConnectSpawn(c)
  BY <1>3 DEF ConnectSpawn, CallMoves
<1>4. CASE Disconnect(c)
  BY <1>4 DEF Disconnect, CallMoves
<1>5. CASE DisconnectNotify(c)
  BY <1>5 DEF DisconnectNotify, CallMoves, NotifyOne
<1>6. CASE DisconnectMark(c)
  BY <1>6 DEF DisconnectMark, CallMoves
<1>7. CASE Shutdown(c)
  BY <1>7 DEF Shutdown, CallMoves
<1>8. CASE ShutdownNotify(c)
  BY <1>8 DEF ShutdownNotify, CallMoves, NotifyOne
<1>9. CASE ShutdownMark(c)
  BY <1>9 DEF ShutdownMark, CallMoves
<1>10. CASE Drop(c)
  BY <1>10 DEF Drop
<1> QED
  BY <1>1, <1>2, <1>3, <1>4, <1>5, <1>6, <1>7, <1>8, 
     <1>9, <1>10 DEF CallSteps, CallBegin, CallStep

\* A step of a task preserves KeepAlive.
LEMMA TaskKeepAlive ==
  ASSUME TypeOK, OneLoop, NobodyStops, KeepAlive, NEW t \in Tasks, TaskSteps(t)
  PROVE  KeepAlive'
<1> USE DEF TypeOK, OneLoop, NobodyStops, KeepAlive, Tells, IsTerminated, IsShutdown,
             IsDisconnectedTerminatedOrShutdown
<1>1. CASE Start(t)
  BY <1>1 DEF Start, TaskMoves
<1>2. CASE AcquireRx(t)
  BY <1>2 DEF AcquireRx, TaskMoves
<1>3. CASE SetConnecting(t)
  BY <1>3 DEF SetConnecting, TaskMoves
<1>4. CASE Register(t)
  BY <1>4 DEF Register
<1>5. CASE ConnectOk(t)
  BY <1>5 DEF ConnectOk, TaskMoves, CancelNotified
<1>6. CASE ConnectErr(t)
  BY <1>6 DEF ConnectErr, TaskMoves, CancelNotified
<1>7. CASE ConnectTerminated(t)
  BY <1>7 DEF ConnectTerminated, TaskMoves, TakeNotification
<1>8. CASE ConnectionEnds(t)
  BY <1>8 DEF ConnectionEnds, TaskMoves, CancelNotified
<1>9. CASE ServeTerminated(t)
  BY <1>9 DEF ServeTerminated, TaskMoves, TakeNotification
<1>10. CASE CheckStatus(t)
  BY <1>10 DEF CheckStatus, AfterConnection, TaskMoves
<1>11. CASE MarkDisconnected(t)
  BY <1>11 DEF MarkDisconnected, TaskMoves
<1>12. CASE MarkTerminated(t)
  BY <1>12 DEF MarkTerminated, TaskMoves
<1>13. CASE SleepElapsed(t)
  BY <1>13 DEF SleepElapsed, TaskMoves, CancelNotified
<1>14. CASE SleepTerminated(t)
  BY <1>14 DEF SleepTerminated, TaskMoves, TakeNotification
<1>15. CASE MarkStopped(t)
  BY <1>15 DEF MarkStopped, TaskMoves
<1>16. CASE Return(t)
  BY <1>16 DEF Return, TaskMoves
<1> QED
  BY <1>1, <1>2, <1>3, <1>4, <1>5, <1>6, <1>7, <1>8, 
     <1>9, <1>10, <1>11, <1>12, <1>13, <1>14, <1>15, <1>16 DEF TaskSteps, TaskStep, TakeTermination

\* A call that has begun said so in the history, and only such a call spawns.
LEMMA CallNobodyBegins ==
  ASSUME TypeOK, NobodyBegins, NEW c \in Callers, CallSteps(c)
  PROVE  NobodyBegins'
BY DEF TypeOK, NobodyBegins, Tells, CallSteps, CallBegin, CallStep, CallMoves,
   TellConnect, Connect, ConnectMark, ConnectSpawn, Disconnect, DisconnectNotify,
   DisconnectMark, Shutdown, ShutdownNotify, ShutdownMark, Drop

\* A task takes no step while there is none, and no step of a task is a call.
LEMMA TaskNobodyBegins ==
  ASSUME TypeOK, NobodyBegins, NEW t \in Tasks, TaskSteps(t)
  PROVE  NobodyBegins'
<1>1. pc[t] # "None" /\ UNCHANGED <<told, call>>
  BY DEF TaskSteps, TaskStep, TakeTermination, TaskMoves, Start, AcquireRx,
     SetConnecting, Register, ConnectOk, ConnectErr, ConnectTerminated, ConnectionEnds,
     ServeTerminated, CheckStatus, MarkDisconnected, MarkTerminated, SleepElapsed,
     SleepTerminated, MarkStopped, Return
<1> QED
  BY <1>1 DEF NobodyBegins

\* A call marks nothing.
LEMMA CallMarks ==
  ASSUME TypeOK, MarksToRetry, NEW c \in Callers, CallSteps(c)
  PROVE  MarksToRetry' /\ UNCHANGED config
<1>1. UNCHANGED config
  BY DEF CallSteps, CallBegin, CallStep, Connect, ConnectMark, ConnectSpawn,
     Disconnect, DisconnectNotify, DisconnectMark, Shutdown, ShutdownNotify,
     ShutdownMark, Drop
<1> QED
  BY <1>1, CallKeepsLoops DEF MarksToRetry

\* A task comes to mark a lost connection only after it looked at
\* Config::reconnect.
LEMMA TaskMarks ==
  ASSUME TypeOK, MarksToRetry, NEW t \in Tasks, TaskSteps(t)
  PROVE  MarksToRetry'
<1>1. UNCHANGED config
  BY DEF TaskSteps, TaskStep, TakeTermination, Start, AcquireRx,
     SetConnecting, Register, ConnectOk, ConnectErr, ConnectTerminated, ConnectionEnds,
     ServeTerminated, CheckStatus, MarkDisconnected, MarkTerminated, SleepElapsed,
     SleepTerminated, MarkStopped, Return
<1>2. \A u \in Tasks \ {t} : pc'[u] = pc[u]
  BY DEF TypeOK, TaskSteps, TaskStep, TakeTermination, TaskMoves, Start, AcquireRx,
     SetConnecting, Register, ConnectOk, ConnectErr, ConnectTerminated, ConnectionEnds,
     ServeTerminated, CheckStatus, MarkDisconnected, MarkTerminated, SleepElapsed,
     SleepTerminated, MarkStopped, Return
<1>3. pc'[t] = "MarkDisconnected" => config.reconnect
  <2>1. CASE CheckStatus(t)
    BY <2>1 DEF TypeOK, CheckStatus, TaskMoves, AfterConnection
  <2>2. CASE ~CheckStatus(t)
    BY <2>2 DEF TypeOK, TaskSteps, TaskStep, TakeTermination, TaskMoves, Start, AcquireRx,
       SetConnecting, Register, ConnectOk, ConnectErr, ConnectTerminated, ConnectionEnds,
       ServeTerminated, MarkDisconnected, MarkTerminated, SleepElapsed,
       SleepTerminated, MarkStopped, Return
  <2> QED
    BY <2>1, <2>2
<1> QED
  BY <1>1, <1>2, <1>3 DEF MarksToRetry

-----------------------------------------------------------------------------
(* One thread.                                                              *)

\* Who takes a step holds the thread, or nobody else does.
LEMMA CallAlone ==
  ASSUME TypeOK, NEW c \in Callers, CallSteps(c), ~config.multiThread
  PROVE  \A t \in Tasks : pc[t] \notin {"Stop", "Return"}
<1>1. MayRun(c)
  BY DEF CallSteps, CallBegin, CallStep, CallMoves, Connect, ConnectMark, ConnectSpawn,
     Disconnect, DisconnectNotify, DisconnectMark, Shutdown, ShutdownNotify,
     ShutdownMark, Drop
<1>2. ASSUME NEW t \in Tasks, pc[t] \in {"Stop", "Return"}
      PROVE  FALSE
  <2>1. t \in Busy
    BY <1>2 DEF Busy, Yielded
  <2>2. t = c
    BY <1>1, <2>1 DEF MayRun
  <2> QED
    BY <2>2, NamesAssumption
<1> QED
  BY <1>2

\* A task that is about to leave keeps the thread.
LEMMA TaskAlone ==
  ASSUME TypeOK, NEW t \in Tasks, TaskSteps(t), ~config.multiThread
  PROVE  \A u \in Tasks \ {t} : pc[u] \notin {"Stop", "Return"}
<1>1. MayRun(t)
  BY DEF TaskSteps, TaskStep, TakeTermination, TaskMoves, Start, AcquireRx,
     SetConnecting, Register, ConnectOk, ConnectErr, ConnectTerminated, ConnectionEnds,
     ServeTerminated, CheckStatus, MarkDisconnected, MarkTerminated, SleepElapsed,
     SleepTerminated, MarkStopped, Return
<1>2. ASSUME NEW u \in Tasks \ {t}, pc[u] \in {"Stop", "Return"}
      PROVE  FALSE
  <2>1. u \in Busy
    BY <1>2 DEF Busy, Yielded
  <2> QED
    BY <1>1, <2>1 DEF MayRun
<1> QED
  BY <1>2

\* A call preserves LeavesTerminated: the last call to return has spawned a
\* task or seen `running`, which OneLoop backs with a task.
LEMMA CallLeaves ==
  ASSUME TypeOK, OneLoop, NobodyStops, LeavesTerminated, NEW c \in Callers, CallSteps(c)
  PROVE  LeavesTerminated'
<1> USE DEF TypeOK, OneLoop, NobodyStops, LeavesTerminated, ConnectAgain, CanConnect, Tells
<1>0. ~config.multiThread => \A t \in Tasks : pc[t] \notin {"Stop", "Return"}
  BY CallAlone
<1>1. CASE Connect(c)
  BY <1>1, <1>0 DEF Connect, CallMoves, TellConnect
<1>2. CASE ConnectMark(c)
  BY <1>2, <1>0 DEF ConnectMark, CallMoves
<1>3. CASE ConnectSpawn(c)
  BY <1>3, <1>0 DEF ConnectSpawn, CallMoves
<1>4. CASE Disconnect(c)
  BY <1>4, <1>0 DEF Disconnect, CallMoves
<1>5. CASE DisconnectNotify(c)
  BY <1>5, <1>0 DEF DisconnectNotify, CallMoves, NotifyOne
<1>6. CASE DisconnectMark(c)
  BY <1>6, <1>0 DEF DisconnectMark, CallMoves
<1>7. CASE Shutdown(c)
  BY <1>7, <1>0 DEF Shutdown, CallMoves
<1>8. CASE ShutdownNotify(c)
  BY <1>8, <1>0 DEF ShutdownNotify, CallMoves, NotifyOne
<1>9. CASE ShutdownMark(c)
  BY <1>9, <1>0 DEF ShutdownMark, CallMoves
<1>10. CASE Drop(c)
  BY <1>10, <1>0 DEF Drop
<1> QED
  BY <1>1, <1>2, <1>3, <1>4, <1>5, <1>6, <1>7, <1>8, 
     <1>9, <1>10 DEF CallSteps, CallBegin, CallStep

\* A step of a task preserves it: the task that leaves the loop before the
\* first request to stop found the status Terminated or stored it, and nobody
\* else runs until it is gone.
LEMMA TaskLeaves ==
  ASSUME TypeOK, OneLoop, NobodyStops, LeavesTerminated, NEW t \in Tasks, TaskSteps(t)
  PROVE  LeavesTerminated'
<1> USE DEF TypeOK, OneLoop, NobodyStops, LeavesTerminated, ConnectAgain, CanConnect, Tells,
             IsTerminated, IsShutdown, IsDisconnectedTerminatedOrShutdown
<1>0. ~config.multiThread => \A u \in Tasks \ {t} : pc[u] \notin {"Stop", "Return"}
  BY TaskAlone
<1>1. CASE Start(t)
  BY <1>1, <1>0 DEF Start, TaskMoves
<1>2. CASE AcquireRx(t)
  BY <1>2, <1>0 DEF AcquireRx, TaskMoves
<1>3. CASE SetConnecting(t)
  BY <1>3, <1>0 DEF SetConnecting, TaskMoves
<1>4. CASE Register(t)
  BY <1>4, <1>0 DEF Register
<1>5. CASE ConnectOk(t)
  BY <1>5, <1>0 DEF ConnectOk, TaskMoves, CancelNotified
<1>6. CASE ConnectErr(t)
  BY <1>6, <1>0 DEF ConnectErr, TaskMoves, CancelNotified
<1>7. CASE ConnectTerminated(t)
  BY <1>7, <1>0 DEF ConnectTerminated, TaskMoves, TakeNotification
<1>8. CASE ConnectionEnds(t)
  BY <1>8, <1>0 DEF ConnectionEnds, TaskMoves, CancelNotified
<1>9. CASE ServeTerminated(t)
  BY <1>9, <1>0 DEF ServeTerminated, TaskMoves, TakeNotification
<1>10. CASE CheckStatus(t)
  BY <1>10, <1>0 DEF CheckStatus, AfterConnection, TaskMoves
<1>11. CASE MarkDisconnected(t)
  BY <1>11, <1>0 DEF MarkDisconnected, TaskMoves
<1>12. CASE MarkTerminated(t)
  BY <1>12, <1>0 DEF MarkTerminated, TaskMoves
<1>13. CASE SleepElapsed(t)
  BY <1>13, <1>0 DEF SleepElapsed, TaskMoves, CancelNotified
<1>14. CASE SleepTerminated(t)
  BY <1>14, <1>0 DEF SleepTerminated, TaskMoves, TakeNotification
<1>15. CASE MarkStopped(t)
  BY <1>15, <1>0 DEF MarkStopped, TaskMoves
<1>16. CASE Return(t)
  BY <1>16, <1>0 DEF Return, TaskMoves
<1> QED
  BY <1>1, <1>2, <1>3, <1>4, <1>5, <1>6, <1>7, <1>8, 
     <1>9, <1>10, <1>11, <1>12, <1>13, <1>14, <1>15, <1>16 DEF TaskSteps, TaskStep, TakeTermination

-----------------------------------------------------------------------------
(* The inductive invariant and the theorems.                                *)

\* The inductive invariant holds at first.
LEMMA InitIInv == Init => IInv
<1> SUFFICES ASSUME Init
             PROVE  IInv
  OBVIOUS
<1>1. TypeOK
  BY InitType
<1>2. LeavesTerminated
  BY DEF Init, LeavesTerminated, ConnectAgain, CanConnect
<1>3. /\ OneLoop /\ LockOwner /\ StatusHasTask
      /\ NobodyStops /\ KeepAlive /\ NobodyBegins /\ MarksToRetry
  BY DEF Init, MarksToRetry, OneLoop, LockOwner, LockPoints, StatusHasTask, NobodyStops, KeepAlive, NobodyBegins,
     PublicStatus, IsTerminated, IsShutdown
<1> QED
  BY <1>1, <1>2, <1>3 DEF IInv

\* Every step preserves it.
LEMMA NextIInv == IInv /\ [Next]_vars => IInv'
<1> SUFFICES ASSUME IInv, [Next]_vars
             PROVE  IInv'
  OBVIOUS
<1> USE DEF IInv
<1>1. ASSUME NEW c \in Callers, CallSteps(c)
      PROVE  IInv'
  BY <1>1, CallType, CallLoop, CallStatus, CallNobodyStops, CallKeepAlive,
     CallNobodyBegins, CallMarks, CallLeaves
<1>2. ASSUME NEW t \in Tasks, TaskSteps(t)
      PROVE  IInv'
  BY <1>2, TaskType, TaskLoop, TaskStatus, TaskNobodyStops, TaskKeepAlive,
     TaskNobodyBegins, TaskMarks, TaskLeaves
<1>3. CASE UNCHANGED vars
  BY <1>3 DEF vars, TypeOK, OneLoop, LockOwner, LockPoints, StatusHasTask, NobodyStops,
     KeepAlive, NobodyBegins, MarksToRetry, LeavesTerminated, ConnectAgain, PublicStatus, IsTerminated, IsShutdown
<1> QED
  BY <1>1, <1>2, <1>3, NextCases

\* The inductive invariant holds in every reachable state.
THEOREM Invariant == Spec => []IInv
BY InitIInv, NextIInv, PTL DEF Spec

\* At most one connection loop runs, and `running` says whether one does, for
\* any number of callers and of spawned tasks and on both runtimes: the
\* re-check in connection_task makes the unguarded test in
\* spawn_connection_task harmless.
THEOREM SingleLoop == Spec => []OneLoop
<1>1. IInv => OneLoop
  BY DEF IInv
<1> QED
  BY <1>1, Invariant, PTL

\* A new loop waits for the command receiver only while the previous loop
\* returns: `running` is cleared before the guard is dropped, and by then the
\* old task awaits nothing.
THEOREM ShortLockWait == Spec => []LockWaitShort
<1>1. IInv => LockWaitShort
  BY NoTaskAssumption DEF IInv, TypeOK, OneLoop, LockOwner, LockPoints, LockWaitShort
<1> QED
  BY <1>1, Invariant, PTL

\* The statuses Connected and Connecting never outlive the task that stored
\* them.
THEOREM StatusBacked == Spec => []StatusHasTask
<1>1. IInv => StatusHasTask
  BY DEF IInv
<1> QED
  BY <1>1, Invariant, PTL

\* However many connect() race, a reconnecting client that was never asked to
\* stop keeps a task or is about to spawn one.
THEOREM StaysAlive == Spec => []KeepAlive
<1>1. IInv => KeepAlive
  BY DEF IInv
<1> QED
  BY <1>1, Invariant, PTL

\* On a current-thread runtime a client that nobody asked to stop can be
\* connected again once its task is gone: connection_task stores Terminated
\* last, and nobody writes the status after that.
THEOREM ConnectsAgain == Spec => []ConnectAgain
<1>1. IInv => ConnectAgain
  BY DEF IInv, LeavesTerminated, ConnectAgain
<1> QED
  BY <1>1, Invariant, PTL

-----------------------------------------------------------------------------
(* Connection implements ConnectionLoop.                                    *)

\* The phase a task past the swap stands for.
PhaseAt(p) ==
  IF p \in {"Locking", "Connect", "Connecting"} THEN "attempting"
  ELSE IF p = "Serving" THEN "serving"
  ELSE IF p \in {"Check", "MarkDisconnected", "MarkTerminated"} THEN "deciding"
  ELSE IF p = "Sleeping" THEN "waiting"
  ELSE "stopped"

\* The loop is in the phase of the running task, or stopped if none runs.
LEMMA PhaseOfTask ==
  OneLoop =>
    /\ \A t \in Tasks : pc[t] \in RunningPoints => LoopPhase = PhaseAt(pc[t])
    /\ (\A t \in Tasks : pc[t] \notin RunningPoints) => LoopPhase = "stopped"
<1> SUFFICES ASSUME OneLoop
             PROVE  /\ \A t \in Tasks : pc[t] \in RunningPoints => LoopPhase = PhaseAt(pc[t])
                    /\ (\A t \in Tasks : pc[t] \notin RunningPoints) => LoopPhase = "stopped"
  OBVIOUS
<1>1. ASSUME NEW t \in Tasks, pc[t] \in RunningPoints
      PROVE  LoopPhase = PhaseAt(pc[t])
  <2>1. \A u \in Tasks : pc[u] \in RunningPoints => u = t
    BY <1>1 DEF OneLoop
  <2>2. \A u \in Tasks : pc[u] \in RunningPoints => pc[u] = pc[t]
    BY <2>1
  <2> QED
    BY <1>1, <2>2 DEF LoopPhase, PhaseAt
<1>2. ASSUME \A t \in Tasks : pc[t] \notin RunningPoints
      PROVE  LoopPhase = "stopped"
  BY <1>2 DEF LoopPhase
<1> QED
  BY <1>1, <1>2

\* The same in the next state.
LEMMA PhaseOfTaskNext ==
  OneLoop' =>
    /\ \A t \in Tasks : pc'[t] \in RunningPoints => LoopPhase' = PhaseAt(pc'[t])
    /\ (\A t \in Tasks : pc'[t] \notin RunningPoints) => LoopPhase' = "stopped"
<1> SUFFICES ASSUME OneLoop'
             PROVE  /\ \A t \in Tasks : pc'[t] \in RunningPoints => LoopPhase' = PhaseAt(pc'[t])
                    /\ (\A t \in Tasks : pc'[t] \notin RunningPoints) => LoopPhase' = "stopped"
  OBVIOUS
<1>1. ASSUME NEW t \in Tasks, pc'[t] \in RunningPoints
      PROVE  LoopPhase' = PhaseAt(pc'[t])
  <2>1. \A u \in Tasks : pc'[u] \in RunningPoints => u = t
    BY <1>1 DEF OneLoop
  <2>2. \A u \in Tasks : pc'[u] \in RunningPoints => pc'[u] = pc'[t]
    BY <2>1
  <2> QED
    BY <1>1, <2>2 DEF LoopPhase, PhaseAt
<1>2. ASSUME \A t \in Tasks : pc'[t] \notin RunningPoints
      PROVE  LoopPhase' = "stopped"
  BY <1>2 DEF LoopPhase
<1> QED
  BY <1>1, <1>2

\* A call is a request or nothing in the abstract loop: it moves no task that
\* runs.
LEMMA CallImplements ==
  ASSUME IInv, IInv', NEW c \in Callers, CallSteps(c)
  PROVE  [Loop!Next]_(Loop!vars)
<1>1. \A t \in Tasks : pc'[t] = pc[t] \/ (pc[t] = "None" /\ pc'[t] = "Spawned")
  BY CallKeepsLoops DEF IInv
<1>2. UNCHANGED LoopPhase
  BY <1>1 DEF LoopPhase
<1>3. UNCHANGED config
  BY CallMarks DEF IInv
<1>4. told' = told \/ told' = "stop" \/ TellConnect
  BY DEF CallSteps, CallBegin, CallStep, Connect, ConnectMark, ConnectSpawn,
     Disconnect, DisconnectNotify, DisconnectMark, Shutdown, ShutdownNotify,
     ShutdownMark, Drop
<1>5. CASE told' = told
  BY <1>2, <1>3, <1>5 DEF Loop!vars
<1>6. CASE told' = "stop"
  BY <1>2, <1>3, <1>6 DEF Loop!Next, Loop!AskStop
<1>7. CASE TellConnect
  BY <1>2, <1>3, <1>7 DEF Loop!Next, Loop!AskConnect, TellConnect, IInv, TypeOK, Tells
<1> QED
  BY <1>4, <1>5, <1>6, <1>7

\* A step of a task moves the abstract loop along one of its arrows.
LEMMA TaskImplements ==
  ASSUME IInv, IInv', NEW t \in Tasks, TaskSteps(t)
  PROVE  [Loop!Next]_(Loop!vars)
<1> DEFINE before == LoopPhase
           after  == LoopPhase'
<1>1. UNCHANGED <<told, config>>
  BY DEF TaskSteps, TaskStep, TakeTermination, TaskMoves, Start, AcquireRx,
     SetConnecting, Register, ConnectOk, ConnectErr, ConnectTerminated, ConnectionEnds,
     ServeTerminated, CheckStatus, MarkDisconnected, MarkTerminated, SleepElapsed,
     SleepTerminated, MarkStopped, Return
<1>2. told # "none"
  BY DEF TaskSteps, TaskStep, TakeTermination, TaskMoves, Start, AcquireRx,
     SetConnecting, Register, ConnectOk, ConnectErr, ConnectTerminated, ConnectionEnds,
     ServeTerminated, CheckStatus, MarkDisconnected, MarkTerminated, SleepElapsed,
     SleepTerminated, MarkStopped, Return, IInv, NobodyBegins
<1>3. /\ pc[t] \in RunningPoints => before = PhaseAt(pc[t])
      /\ (\A u \in Tasks : pc[u] \notin RunningPoints) => before = "stopped"
  BY PhaseOfTask DEF IInv
<1>4. /\ pc'[t] \in RunningPoints => after = PhaseAt(pc'[t])
      /\ (\A u \in Tasks : pc'[u] \notin RunningPoints) => after = "stopped"
  BY PhaseOfTaskNext DEF IInv
<1>5. pc \in [Tasks -> TaskPoints] /\ pc' \in [Tasks -> TaskPoints]
  BY DEF IInv, TypeOK
<1>6. CASE UNCHANGED LoopPhase
  BY <1>1, <1>6 DEF Loop!vars
<1>7. CASE Start(t)
  <2>1. CASE running
    <3>1. \A u \in Tasks : pc'[u] = pc[u] \/ (pc[u] = "Spawned" /\ pc'[u] = "None")
      BY <1>7, <2>1, <1>5 DEF Start, TaskMoves
    <3>2. UNCHANGED LoopPhase
      BY <3>1 DEF LoopPhase
    <3> QED
      BY <3>2, <1>6
  <2>2. CASE ~running
    <3>1. before = "stopped"
      BY <2>2, <1>3 DEF IInv, OneLoop
    <3>2. after = "attempting"
      BY <1>7, <2>2, <1>4, <1>5 DEF Start, TaskMoves, PhaseAt
    <3> QED
      BY <1>1, <1>2, <3>1, <3>2 DEF Loop!Next, Loop!Begin, Loop!Moves
  <2> QED
    BY <2>1, <2>2
<1>8. CASE AcquireRx(t) \/ SetConnecting(t)
  BY <1>8, <1>3, <1>4, <1>5, <1>6 DEF AcquireRx, SetConnecting, TaskMoves, PhaseAt
<1>9. CASE Register(t)
  BY <1>9, <1>6 DEF Register, LoopPhase
<1>10. CASE ConnectOk(t)
  <2>1. before = "attempting" /\ after = "serving"
    BY <1>10, <1>3, <1>4, <1>5 DEF ConnectOk, TaskMoves, PhaseAt
  <2> QED
    BY <1>1, <2>1 DEF Loop!Next, Loop!Connected, Loop!Moves
<1>11. CASE ConnectErr(t) \/ ConnectTerminated(t)
  <2>1. before = "attempting" /\ after = "deciding"
    BY <1>11, <1>3, <1>4, <1>5 DEF ConnectErr, ConnectTerminated, TaskMoves, PhaseAt
  <2> QED
    BY <1>1, <2>1 DEF Loop!Next, Loop!Failed, Loop!Moves
<1>12. CASE ConnectionEnds(t) \/ ServeTerminated(t)
  <2>1. before = "serving" /\ after = "deciding"
    BY <1>12, <1>3, <1>4, <1>5 DEF ConnectionEnds, ServeTerminated, TaskMoves, PhaseAt
  <2> QED
    BY <1>1, <2>1 DEF Loop!Next, Loop!SessionEnds, Loop!Moves
<1>13. CASE CheckStatus(t)
  <2>1. before = "deciding"
    BY <1>13, <1>3, <1>5 DEF CheckStatus, TaskMoves, PhaseAt
  <2>2. CASE pc'[t] = "Stop"
    <3>1. after = "stopped"
      BY <2>2, <1>4 DEF PhaseAt
    <3>2. IsTerminated(status) \/ IsShutdown(status)
      BY <1>13, <2>2, <1>5 DEF CheckStatus, TaskMoves, AfterConnection
    <3>3. ~config.reconnect \/ told \in {"stop", "reconnect"}
      BY <3>2, <1>2 DEF IInv, TypeOK, Tells, NobodyStops
    <3> QED
      BY <1>1, <2>1, <3>1, <3>3 DEF Loop!Next, Loop!End, Loop!Moves
  <2>3. CASE pc'[t] = "Sleeping"
    <3>1. after = "waiting"
      BY <2>3, <1>4 DEF PhaseAt
    <3>2. config.reconnect
      BY <1>13, <2>3, <1>5 DEF CheckStatus, TaskMoves, AfterConnection
    <3> QED
      BY <1>1, <2>1, <3>1, <3>2 DEF Loop!Next, Loop!WillRetry, Loop!Moves
  <2>4. CASE pc'[t] \in {"MarkDisconnected", "MarkTerminated"}
    BY <2>1, <2>4, <1>4, <1>6 DEF PhaseAt
  <2>5. pc'[t] \in {"Stop", "Sleeping", "MarkDisconnected", "MarkTerminated"}
    BY <1>13, <1>5 DEF CheckStatus, TaskMoves, AfterConnection
  <2> QED
    BY <2>2, <2>3, <2>4, <2>5

<1>14. CASE MarkDisconnected(t)
  <2>1. before = "deciding" /\ after = "waiting"
    BY <1>14, <1>3, <1>4, <1>5 DEF MarkDisconnected, TaskMoves, PhaseAt
  <2>2. config.reconnect
    BY <1>14 DEF MarkDisconnected, TaskMoves, IInv, MarksToRetry
  <2> QED
    BY <1>1, <2>1, <2>2 DEF Loop!Next, Loop!WillRetry, Loop!Moves
<1>15. CASE MarkTerminated(t)
  <2>1. before = "deciding" /\ after = "stopped"
    BY <1>15, <1>3, <1>4, <1>5 DEF MarkTerminated, TaskMoves, PhaseAt
  <2>2. ~config.reconnect \/ told \in {"stop", "reconnect"}
    BY <1>15, <1>2 DEF MarkTerminated, TaskMoves, IInv, TypeOK, Tells, NobodyStops
  <2> QED
    BY <1>1, <2>1, <2>2 DEF Loop!Next, Loop!End, Loop!Moves
<1>16. CASE SleepElapsed(t)
  <2>1. before = "waiting" /\ after = "attempting"
    BY <1>16, <1>3, <1>4, <1>5 DEF SleepElapsed, TaskMoves, PhaseAt
  <2> QED
    BY <1>1, <2>1 DEF Loop!Next, Loop!Retry, Loop!Moves
<1>17. CASE SleepTerminated(t)
  <2>1. before = "waiting" /\ after = "stopped"
    BY <1>17, <1>3, <1>4, <1>5 DEF SleepTerminated, TaskMoves, PhaseAt
  <2>2. told \in {"stop", "reconnect"}
    BY <1>17, <1>2 DEF SleepTerminated, TakeNotification, IInv, TypeOK, Tells, NobodyStops
  <2> QED
    BY <1>1, <2>1, <2>2 DEF Loop!Next, Loop!End, Loop!Moves
<1>18. CASE MarkStopped(t)
  <2>1. before = "stopped"
    BY <1>18, <1>3 DEF MarkStopped, TaskMoves, PhaseAt
  <2>2. \A u \in Tasks : pc'[u] \notin RunningPoints
    BY <1>18, <1>5 DEF MarkStopped, TaskMoves, IInv, OneLoop
  <2> QED
    BY <2>1, <2>2, <1>4, <1>6
<1>19. CASE Return(t)
  <2>1. \A u \in Tasks : pc'[u] = pc[u] \/ (pc[u] = "Return" /\ pc'[u] = "None")
    BY <1>19, <1>5 DEF Return, TaskMoves
  <2>2. UNCHANGED LoopPhase
    BY <2>1 DEF LoopPhase
  <2> QED
    BY <2>2, <1>6
<1> QED
  BY <1>7, <1>8, <1>9, <1>10, <1>11, <1>12, <1>13, <1>14, <1>15, <1>16, <1>17, <1>18, <1>19
     DEF TaskSteps, TaskStep, TakeTermination

\* For any number of callers and task slots and on both runtimes, the tasks and
\* the calls behave as the one loop of ConnectionLoop: it begins after a
\* connect() and ends only by request or with reconnection disabled.
THEOREM Implements == Spec => Loop!Spec
<1>1. Init => Loop!Init
  BY ModesAssumption DEF Init, Loop!Init, LoopPhase
<1>2. IInv /\ IInv' /\ [Next]_vars => [Loop!Next]_(Loop!vars)
  <2> SUFFICES ASSUME IInv, IInv', [Next]_vars
               PROVE  [Loop!Next]_(Loop!vars)
    OBVIOUS
  <2>1. CASE UNCHANGED vars
    BY <2>1 DEF vars, Loop!vars, LoopPhase
  <2> QED
    BY <2>1, NextCases, CallImplements, TaskImplements
<1> QED
  BY <1>1, <1>2, Invariant, PTL DEF Spec, Loop!Spec

=============================================================================
