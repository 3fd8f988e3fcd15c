--------------------------- MODULE Notifications ---------------------------
(***************************************************************************)
(* The notifications of an ElectrumClient (tokio-electrum, client.rs): a   *)
(* broadcast channel between those who change the status or hear from the  *)
(* server, and the streams that notifications() returns.                   *)
(*                                                                         *)
(* The writers are the callers of connect(), disconnect(), shutdown() and  *)
(* Drop, and the connection task.  set_status() stores the status and then *)
(* broadcasts it, two steps without a lock; shutdown() broadcasts a last   *)
(* Shutdown after them.  What the task does between two statuses is left   *)
(* to Connection: here it may go wherever its loop can take it, which      *)
(* includes stores over the status of a shutdown.                          *)
(***************************************************************************)
EXTENDS Status, Integers, Sequences, FiniteSets

CONSTANTS
  Callers,   \* the application threads that change the client
  Task,      \* the connection task, as a writer
  Streams,   \* the streams the application opens
  Capacity,  \* length of the ring of the broadcast channel
  MaxSent    \* bound: notifications sent in a behaviour

ASSUME TaskAssumption == Task \notin Callers
ASSUME BoundsAssumption == Capacity \in Nat \ {0} /\ MaxSent \in Nat

Writers == Callers \cup {Task}

VARIABLES
  status,   \* AtomicElectrumConnectionStatus
  sent,     \* every notification broadcast so far
  todo,     \* the stores and broadcasts a writer has still to do, in order
  phase,    \* where the connection task is in its loop, "gone" without one
  dropped,  \* the ElectrumClient was dropped
  stream,   \* the streams: where they are, their cursor, what was missed
  belief,   \* the status the application knows from each stream
  overlap   \* history: two writers were inside set_status() at once

vars == <<status, sent, todo, phase, dropped, stream, belief, overlap>>

-----------------------------------------------------------------------------
(* What a writer does.                                                      *)

\* ElectrumNotification: a status as the application sees it, an event of the
\* server (a header or a script hash), or the end.
Sendable == {"Connecting", "Connected", "Disconnected", "Event", "Shutdown"}

Store(s) == [op |-> "store", what |-> s]
Send(n)  == [op |-> "send", what |-> n]
Spawn    == [op |-> "spawn", what |-> "task"]

\* Variant of SetStatus that broadcasts first.
SetStatusSendsFirst(s) == <<Send(PublicStatus(s)), Store(s)>>

\* set_status(): store, then broadcast.
SetStatus(s) == <<Store(s), Send(PublicStatus(s))>>

\* Variant of ShutdownSteps that broadcasts only the status.
ShutdownStepsQuiet == SetStatus("Shutdown")

\* shutdown(), after its test.
ShutdownSteps == SetStatus("Shutdown") \o <<Send("Shutdown")>>

\* Inside set_status(): some store or broadcast of a status is left.
Writing(w) == \E i \in DOMAIN todo[w] : todo[w][i].op # "spawn"

\* Bound: the broadcasts a writer is about to begin fit in MaxSent.
Fits(steps) ==
  LET sends == {wi \in Writers \X (1..3) :
                  wi[2] \in DOMAIN todo[wi[1]] /\ todo[wi[1]][wi[2]].op = "send"}
  IN Len(sent) + Cardinality(sends) + Len(steps) - 1 <= MaxSent

\* w starts on these steps.
Begins(w, steps) ==
  /\ todo[w] = <<>>
  /\ Fits(steps)
  /\ todo' = [todo EXCEPT ![w] = steps]
  /\ overlap' = (overlap \/ \E v \in Writers \ {w} : Writing(v))

-----------------------------------------------------------------------------
Init ==
  /\ status = "Initialized"
  /\ sent = <<>>
  /\ todo = [w \in Writers |-> <<>>]
  /\ phase = "gone"
  /\ dropped = FALSE
  /\ stream = [s \in Streams |-> [at |-> "none", next |-> 1, lagged |-> FALSE]]
  /\ belief = [s \in Streams |-> "unknown"]
  /\ overlap = FALSE

\* w performs its next step.  A task that is spawned while another one lives
\* returns at once.
Step(w) ==
  /\ todo[w] # <<>>
  /\ todo' = [todo EXCEPT ![w] = Tail(@)]
  /\ LET step == Head(todo[w]) IN
       /\ status' = IF step.op = "store" THEN step.what ELSE status
       /\ sent' = IF step.op = "send" THEN Append(sent, step.what) ELSE sent
       /\ phase' = IF step.op = "spawn" /\ phase = "gone" THEN "ready" ELSE phase
  /\ UNCHANGED <<dropped, stream, belief, overlap>>

\* connect(): Pending, then the task.
Connect(c) ==
  /\ ~dropped
  /\ CanConnect(status)
  /\ Begins(c, SetStatus("Pending") \o <<Spawn>>)
  /\ UNCHANGED <<status, sent, phase, dropped, stream, belief>>

Disconnect(c) ==
  /\ ~dropped
  /\ ~IsTerminated(status) /\ ~IsShutdown(status)
  /\ Begins(c, SetStatus("Terminated"))
  /\ UNCHANGED <<status, sent, phase, dropped, stream, belief>>

Shutdown(c) ==
  /\ ~dropped
  /\ ~IsShutdown(status)
  /\ Begins(c, ShutdownSteps)
  /\ UNCHANGED <<status, sent, phase, dropped, stream, belief>>

\* Drop: the client has no other reference, so no method of it is running.
Drop(c) ==
  /\ ~dropped
  /\ \A d \in Callers : todo[d] = <<>>
  /\ \A s \in Streams : stream[s].at # "checked"
  /\ dropped' = TRUE
  /\ IF IsShutdown(status) THEN UNCHANGED <<todo, overlap>> ELSE Begins(c, ShutdownSteps)
  /\ UNCHANGED <<status, sent, phase, stream, belief>>

-----------------------------------------------------------------------------
(* The connection task.                                                     *)

\* The statuses the task sets, and where it is before and after.
TaskWrites ==
  {<<"ready", "Connecting", "attempting">>,
   <<"attempting", "Connected", "serving">>, <<"attempting", "Disconnected", "lost">>,
   <<"lost", "Disconnected", "ready">>, <<"lost", "Terminated", "gone">>}

\* The task goes on without a status: an attempt or a session that ends, a
\* back-off, a request to stop.
TaskSilently ==
  {<<"attempting", "lost">>, <<"serving", "lost">>, <<"lost", "ready">>,
   <<"lost", "gone">>, <<"ready", "gone">>}

TaskSets ==
  \E w \in TaskWrites :
    /\ phase = w[1]
    /\ Begins(Task, SetStatus(w[2]))
    /\ phase' = w[3]
    /\ UNCHANGED <<status, sent, dropped, stream, belief>>

TaskGoesOn ==
  /\ todo[Task] = <<>>
  /\ \E m \in TaskSilently : phase = m[1] /\ phase' = m[2]
  /\ UNCHANGED <<status, sent, todo, dropped, stream, belief, overlap>>

\* receiver_message_handler(): the server sent a header or a script status.
ServerEvent ==
  /\ phase = "serving"
  /\ todo[Task] = <<>>
  /\ Fits(<<Send("Event"), Send("Event")>>)
  /\ sent' = Append(sent, "Event")
  /\ UNCHANGED <<status, todo, phase, dropped, stream, belief, overlap>>

-----------------------------------------------------------------------------
(* The streams.                                                             *)

\* notifications(): an empty stream if the client is shut down.
Check(s) ==
  /\ ~dropped
  /\ stream[s].at = "none"
  /\ stream' = [stream EXCEPT ![s].at = IF IsShutdown(status) THEN "ended" ELSE "checked"]
  /\ UNCHANGED <<status, sent, todo, phase, dropped, belief, overlap>>

\* notifications(): subscribe to what is sent from now on.
Subscribe(s) ==
  /\ stream[s].at = "checked"
  /\ stream' = [stream EXCEPT ![s].at = "open", ![s].next = Len(sent) + 1]
  /\ UNCHANGED <<status, sent, todo, phase, dropped, belief, overlap>>

\* The application calls status() once it has its stream.
ReadStatus(s) ==
  /\ ~dropped
  /\ stream[s].at = "open"
  /\ belief[s] = "unknown"
  /\ belief' = [belief EXCEPT ![s] = PublicStatus(status)]
  /\ UNCHANGED <<status, sent, todo, phase, dropped, stream, overlap>>

\* Nobody can send any more: the client and its task are gone.
Released == dropped /\ phase = "gone" /\ \A w \in Writers : todo[w] = <<>>

Overrun(s) == stream[s].next + Capacity <= Len(sent)

\* The stream yields the next notification; after Shutdown it ends.
Receive(s) ==
  /\ stream[s].at = "open"
  /\ ~Overrun(s)
  /\ stream[s].next <= Len(sent)
  /\ LET n == sent[stream[s].next] IN
       /\ stream' = [stream EXCEPT ![s].next = @ + 1,
                                   ![s].at = IF n = "Shutdown" THEN "ended" ELSE "open"]
       /\ belief' = IF n \in {"Event", "Shutdown"} THEN belief ELSE [belief EXCEPT ![s] = n]
  /\ UNCHANGED <<status, sent, todo, phase, dropped, overlap>>

\* Variant of Lag that retries the notification that was overwritten.
LagStays(s) ==
  /\ stream[s].at = "open"
  /\ Overrun(s)
  /\ stream' = [stream EXCEPT ![s].lagged = TRUE]
  /\ UNCHANGED <<status, sent, todo, phase, dropped, belief, overlap>>

\* Variant of Lag that goes past the newest notification.
LagToNext(s) ==
  /\ stream[s].at = "open"
  /\ Overrun(s)
  /\ stream' = [stream EXCEPT ![s].lagged = TRUE, ![s].next = Len(sent) + Capacity]
  /\ UNCHANGED <<status, sent, todo, phase, dropped, belief, overlap>>

\* recv() fails with Lagged: the cursor goes to the oldest notification kept.
Lag(s) ==
  /\ stream[s].at = "open"
  /\ Overrun(s)
  /\ stream' = [stream EXCEPT ![s].lagged = TRUE, ![s].next = Len(sent) - Capacity + 1]
  /\ UNCHANGED <<status, sent, todo, phase, dropped, belief, overlap>>

\* recv() fails with Closed.
Closed(s) ==
  /\ stream[s].at = "open"
  /\ stream[s].next = Len(sent) + 1
  /\ Released
  /\ stream' = [stream EXCEPT ![s].at = "ended"]
  /\ UNCHANGED <<status, sent, todo, phase, dropped, belief, overlap>>

-----------------------------------------------------------------------------
Call(c) == Connect(c) \/ Disconnect(c) \/ Shutdown(c) \/ Drop(c)

Poll(s) == Receive(s) \/ Lag(s) \/ Closed(s)

Next ==
  \/ \E w \in Writers : Step(w)
  \/ \E c \in Callers : Call(c)
  \/ TaskSets \/ TaskGoesOn \/ ServerEvent
  \/ \E s \in Streams : Check(s) \/ Subscribe(s) \/ ReadStatus(s) \/ Poll(s)

Spec == Init /\ [][Next]_vars

\* A writer finishes what it began and the application keeps polling its
\* streams.
Fairness ==
  /\ \A w \in Writers : WF_vars(Step(w))
  /\ \A s \in Streams : WF_vars(Subscribe(s)) /\ WF_vars(Poll(s))

FairSpec == Spec /\ Fairness

-----------------------------------------------------------------------------
\* Every variable keeps its type, and a cursor its place in what was sent.
TypeOK ==
  /\ status \in Statuses
  /\ sent \in Seq(Sendable)
  /\ todo \in [Writers -> Seq([op : {"store", "send", "spawn"},
                               what : Statuses \cup Sendable \cup {"task"}])]
  /\ phase \in {"gone", "ready", "attempting", "serving", "lost"}
  /\ dropped \in BOOLEAN /\ overlap \in BOOLEAN
  /\ stream \in [Streams -> [at : {"none", "checked", "open", "ended"},
                             next : Nat \ {0}, lagged : BOOLEAN]]
  /\ \A s \in Streams : stream[s].next <= Len(sent) + 1
  /\ belief \in [Streams -> {"unknown", "Connecting", "Connected", "Disconnected"}]

\* An application that subscribes, then asks for the status and follows the
\* notifications knows the status, whenever it has read all of them, missed
\* none and no status is being set, as long as no two set_status() overlapped
\* (the order of the store and the broadcast in set_status, and of the
\* subscription and the test in notifications).
FollowerAgrees ==
  \A s \in Streams :
    /\ stream[s].at = "open" /\ stream[s].next = Len(sent) + 1 /\ ~stream[s].lagged
    /\ belief[s] # "unknown"
    /\ ~overlap /\ \A w \in Writers : ~Writing(w)
    => belief[s] = PublicStatus(status)

\* A stream that is open when shutdown() is about to store its status ends,
\* unless it lags (shutdown announces the end after the status).
KeptUpStreamEnds ==
  \A s \in Streams :
    (/\ stream[s].at = "open"
     /\ \E w \in Writers : todo[w] # <<>> /\ Head(todo[w]) = Store("Shutdown"))
      ~> (stream[s].at = "ended" \/ stream[s].lagged)

\* Once the client and its task are gone every stream ends, one that lost the
\* Shutdown by lagging and one that subscribed after it too (the recv loop of
\* notifications).
ReleasedStreamsEnd ==
  \A s \in Streams : (Released /\ stream[s].at = "open") ~> stream[s].at = "ended"

-----------------------------------------------------------------------------
\* shutdown() says "Shutdown all notification loops" (client.rs): a stream that
\* is open once the client is shut down ends.
ShutdownEndsStreams ==
  \A s \in Streams : (IsShutdown(status) /\ stream[s].at = "open") ~> stream[s].at = "ended"

=============================================================================
