------------------------------ MODULE Requests ------------------------------
(***************************************************************************)
(* The requests of an ElectrumClient (tokio-electrum, client.rs).  A call  *)
(* puts a batch of requests on the bounded command queue and, unless it is *)
(* a subscription, waits for all the responses.  The sender of the current *)
(* session hands the batches to the streaming client and pings the server. *)
(* The queue and its receiver outlive the session: Connection says when    *)
(* there is one, here it starts and is lost at any time.                   *)
(*                                                                         *)
(* The streaming client (electrum_streaming_client) and the server are     *)
(* external: the requests of a batch handed over in a session are answered *)
(* in any order, refused or never answered, and when the session ends the  *)
(* futures of unanswered ones may resolve to an error or stay pending.     *)
(*                                                                         *)
(* Time is not modelled: a timeout may fire whenever its future is         *)
(* pending.                                                                *)
(***************************************************************************)
EXTENDS Integers, SequencesExt

CONSTANTS
  Calls,            \* calls of the request API, each made once
  Subscriptions,    \* those that do not wait for a response
  Lenient,          \* those that leave failed requests out (batch_estimate_fee)
  Sizes,            \* the numbers of requests the batch of a call may have
  QueueSize,        \* command_channel_size
  MaxPingTimeouts   \* max_consecutive_ping_timeouts

ASSUME CallsAssumption == Subscriptions \subseteq Calls /\ Lenient \subseteq Calls
ASSUME BatchesAssumption == Sizes \in [Calls -> SUBSET Nat]
ASSUME SizesAssumption == QueueSize \in Nat \ {0} /\ MaxPingTimeouts \in Nat \ {0}

VARIABLES
  phase,         \* where each call is, or how it returned
  size,          \* the number of requests of its batch
  result,        \* the requests whose answers it returned, by position
  queue,         \* the command channel: the calls whose batch is in it
  session,       \* post_connection runs
  sender,        \* the sender is in its select! or awaits a ping
  alive,         \* the server of this session still answers
  inflight,      \* requests <<call, position>> handed over in this session, whose
                 \* answer is awaited
  outcome,       \* what the futures of a call's responses resolve to
  signalled,     \* waiting calls that the last notify_waiters() reached
  pingPermit,    \* the ping Notify holds a permit
  pingTimeouts,  \* consecutive_ping_timeouts of this session
  accepted,      \* history: the batches the channel took, in order
  handed         \* history: the batches handed to the streaming client

vars == <<phase, size, result, queue, session, sender, alive, inflight, outcome, signalled,
          pingPermit, pingTimeouts, accepted, handed>>

callVars == <<phase, size, result, outcome, signalled>>
queueVars == <<queue, accepted, handed>>
sessionVars == <<session, sender, alive, inflight, pingPermit, pingTimeouts>>

Returned ==
  {"Accepted", "Saturated", "Replied", "Failed", "TimedOut", "Disconnected"}

Phases == {"Idle", "Sending", "Sent", "Waiting"} \cup Returned

-----------------------------------------------------------------------------
Init ==
  /\ phase = [r \in Calls |-> "Idle"]
  /\ size = [r \in Calls |-> 0]
  /\ result = [r \in Calls |-> <<>>]
  /\ queue = <<>>
  /\ session = FALSE
  /\ sender = "Select"
  /\ alive = TRUE
  /\ inflight = {}
  /\ outcome = [r \in Calls |-> <<>>]
  /\ signalled = {}
  /\ pingPermit = FALSE
  /\ pingTimeouts = 0
  /\ accepted = <<>>
  /\ handed = <<>>

-----------------------------------------------------------------------------
(* The calls: send_batch() and wait_batch_response().                       *)

CallMoves(r, from, to) ==
  /\ phase[r] = from
  /\ phase' = [phase EXCEPT ![r] = to]

RequestsOf(r) == {r} \X (1 .. size[r])

\* wait_batch_response() returns; its futures are dropped.
Returns(r, how, answers) ==
  /\ CallMoves(r, "Waiting", how)
  /\ result' = [result EXCEPT ![r] = answers]
  /\ outcome' = [outcome EXCEPT ![r] = <<>>]
  /\ signalled' = signalled \ {r}
  /\ inflight' = inflight \ RequestsOf(r)
  /\ UNCHANGED <<size, queueVars, session, sender, alive, pingPermit, pingTimeouts>>

\* The application makes the call.  Without requests it returns at once.
Call(r) ==
  /\ \E n \in Sizes[r] :
       /\ CallMoves(r, "Idle", IF n > 0 THEN "Sending"
                              ELSE IF r \in Subscriptions THEN "Accepted" ELSE "Replied")
       /\ size' = [size EXCEPT ![r] = n]
       /\ outcome' = [outcome EXCEPT ![r] = [i \in 1 .. n |-> "none"]]
  /\ UNCHANGED <<result, signalled, queueVars, sessionVars>>

\* send_batch(): the channel has room.  A subscription returns at once.
Enqueue(r) ==
  /\ Len(queue) < QueueSize
  /\ CallMoves(r, "Sending", IF r \in Subscriptions THEN "Accepted" ELSE "Sent")
  /\ queue' = Append(queue, r)
  /\ accepted' = Append(accepted, r)
  /\ UNCHANGED <<size, result, outcome, signalled, handed, sessionVars>>

\* Variant of SendTimeout that has queued the batch when it gives up.
SendTimeoutLate(r) ==
  /\ Len(queue) = QueueSize
  /\ CallMoves(r, "Sending", "Saturated")
  /\ queue' = Append(queue, r)
  /\ accepted' = Append(accepted, r)
  /\ UNCHANGED <<size, result, outcome, signalled, handed, sessionVars>>

\* send_batch(): no room until request_timeout; the batch is not queued.
SendTimeout(r) ==
  /\ Len(queue) = QueueSize
  /\ CallMoves(r, "Sending", "Saturated")
  /\ UNCHANGED <<size, result, outcome, signalled, queueVars, sessionVars>>

\* wait_batch_response(): the select! and its two futures exist from here on.
\* A session that ends earlier is not noticed.
Register(r) ==
  /\ CallMoves(r, "Sent", "Waiting")
  /\ UNCHANGED <<size, result, outcome, signalled, queueVars, sessionVars>>

\* join_all() resolves when all the futures of the responses have.
Resolved(r) == \A i \in 1 .. size[r] : outcome[r][i] # "none"

Answered(r) == {i \in 1 .. size[r] : outcome[r][i] = "answer"}

\* Variant of Resolve that leaves failed requests out of every result.
ResolveSkips(r) ==
  /\ phase[r] = "Waiting" /\ Resolved(r)
  /\ Returns(r, "Replied", SetToSortSeq(Answered(r), <))

\* The responses are there: the first error is the result, or all the answers
\* in order; or a map of the answers there are.
Resolve(r) ==
  /\ phase[r] = "Waiting" /\ Resolved(r)
  /\ IF r \in Lenient \/ Answered(r) = 1 .. size[r]
       THEN Returns(r, "Replied", [i \in Answered(r) |-> i])
       ELSE Returns(r, "Failed", <<>>)

\* wait_batch_response(): the session ended while the call was waiting,
\* whether its batch was handed over or is still queued.
NoticeDisconnection(r) ==
  /\ r \in signalled
  /\ Returns(r, "Disconnected", <<>>)

\* Variant of WaitTimeout: the timeout is armed during a session only.
WaitTimeoutConnected(r) ==
  /\ phase[r] = "Waiting" /\ session /\ ~Resolved(r)
  /\ Returns(r, "TimedOut", <<>>)

\* wait_batch_response(): not all responses until request_timeout; those that
\* came are lost.  The batch stays where it is.
WaitTimeout(r) ==
  /\ phase[r] = "Waiting" /\ ~Resolved(r)
  /\ Returns(r, "TimedOut", <<>>)

-----------------------------------------------------------------------------
(* The session: post_connection() and the futures of its select!.           *)

\* A connection succeeded.
SessionStart ==
  /\ ~session
  /\ session' = TRUE
  /\ UNCHANGED <<callVars, queueVars, sender, alive, inflight, pingPermit, pingTimeouts>>

\* The calls that hold the futures of their responses.
Listening == {r \in Calls \ Subscriptions : phase[r] \in {"Sent", "Waiting"}}

\* The select! of post_connection completes: the streaming client goes away,
\* with the batches it still holds, and disconnected() wakes the calls that
\* wait.  What is local to the session starts afresh in the next one; the
\* permit of the ping Notify is not.
EndSession(pending) ==
  /\ session' = FALSE
  /\ sender' = "Select"
  /\ alive' = TRUE
  /\ inflight' = {}
  /\ pingTimeouts' = 0
  /\ \E failed \in SUBSET pending :
       outcome' = [r \in Calls |-> [i \in DOMAIN outcome[r] |->
                                     IF <<r, i>> \in failed THEN "error" ELSE outcome[r][i]]]
  /\ signalled' = signalled \cup {r \in Calls : phase[r] = "Waiting"}
  /\ UNCHANGED <<phase, size, result>>

\* The worker or the receiver ends, or a termination request is taken.
ConnectionLost ==
  /\ session
  /\ EndSession(inflight)
  /\ UNCHANGED <<queueVars, pingPermit>>

\* sender_message_handler(): the next batch, unless a ping is due (biased).
NextBatch ==
  /\ session /\ sender = "Select" /\ ~pingPermit
  /\ queue # <<>>
  /\ queue' = Tail(queue)
  /\ handed' = Append(handed, Head(queue))
  /\ UNCHANGED accepted

\* The requests of a batch whose responses somebody awaits.
Awaited(r) == IF r \in Listening THEN RequestsOf(r) ELSE {}

SendBatch ==
  /\ NextBatch
  /\ inflight' = inflight \cup Awaited(Head(queue))
  /\ UNCHANGED <<callVars, session, sender, alive, pingPermit, pingTimeouts>>

\* Variant of SendBatchFails that puts the batch back on the queue.
SendBatchRequeues ==
  /\ session /\ sender = "Select" /\ ~pingPermit
  /\ queue # <<>>
  /\ queue' = Append(Tail(queue), Head(queue))
  /\ EndSession(inflight)
  /\ UNCHANGED <<accepted, handed, pingPermit>>

\* The streaming client refuses the batch, which is lost with the session.
SendBatchFails ==
  /\ NextBatch
  /\ EndSession(inflight \cup Awaited(Head(queue)))
  /\ UNCHANGED pingPermit

\* The server answers a request of this session, or answers with an error.  An
\* answer that nobody awaits goes nowhere.
Answer(r) ==
  /\ session /\ alive
  /\ \E i \in 1 .. size[r], o \in {"answer", "error"} :
       /\ <<r, i>> \in inflight
       /\ inflight' = inflight \ {<<r, i>>}
       /\ outcome' = [outcome EXCEPT ![r][i] = o]
  /\ UNCHANGED <<phase, size, result, signalled, queueVars, session, sender, alive,
                 pingPermit, pingTimeouts>>

\* The server stops answering; nobody is told.
ServerHangs ==
  /\ session /\ alive
  /\ alive' = FALSE
  /\ UNCHANGED <<callVars, queueVars, session, sender, inflight, pingPermit, pingTimeouts>>

\* pinger(): PING_INTERVAL elapsed.  Assumes ping_timeout < PING_INTERVAL, as
\* by default, so that no tick comes during a ping.
PingerTick ==
  /\ session /\ sender = "Select" /\ ~pingPermit
  /\ pingPermit' = TRUE
  /\ UNCHANGED <<callVars, queueVars, session, sender, alive, inflight, pingTimeouts>>

\* sender_message_handler(): send a ping and await its answer; no batch is
\* taken meanwhile.
PingStart ==
  /\ session /\ sender = "Select" /\ pingPermit
  /\ pingPermit' = FALSE
  /\ sender' = "Pinging"
  /\ UNCHANGED <<callVars, queueVars, session, alive, inflight, pingTimeouts>>

PingOk ==
  /\ session /\ sender = "Pinging" /\ alive
  /\ sender' = "Select"
  /\ pingTimeouts' = 0
  /\ UNCHANGED <<callVars, queueVars, session, alive, inflight, pingPermit>>

\* Variant of PingTimeout that never gives the session up.
PingTimeoutForgives ==
  /\ session /\ sender = "Pinging"
  /\ pingTimeouts' = 0
  /\ sender' = "Select"
  /\ UNCHANGED <<callVars, queueVars, session, alive, inflight, pingPermit>>

\* Variant of PingTimeout that keeps the permit of the ping.
PingTimeoutRepings ==
  /\ session /\ sender = "Pinging"
  /\ pingTimeouts' = 0
  /\ sender' = "Select"
  /\ pingPermit' = TRUE
  /\ UNCHANGED <<callVars, queueVars, session, alive, inflight>>

\* Variant of PingTimeout that allows one timeout more.
PingTimeoutLate ==
  /\ session /\ sender = "Pinging"
  /\ \/ /\ pingTimeouts + 1 <= MaxPingTimeouts
        /\ pingTimeouts' = pingTimeouts + 1
        /\ sender' = "Select"
        /\ UNCHANGED <<callVars, session, alive, inflight>>
     \/ /\ pingTimeouts + 1 > MaxPingTimeouts
        /\ EndSession(inflight)
  /\ UNCHANGED <<queueVars, pingPermit>>

\* The ping timed out; after enough of them in a row the session ends.
PingTimeout ==
  /\ session /\ sender = "Pinging"
  /\ \/ /\ pingTimeouts + 1 < MaxPingTimeouts
        /\ pingTimeouts' = pingTimeouts + 1
        /\ sender' = "Select"
        /\ UNCHANGED <<callVars, session, alive, inflight>>
     \/ /\ pingTimeouts + 1 >= MaxPingTimeouts
        /\ EndSession(inflight)
  /\ UNCHANGED <<queueVars, pingPermit>>

\* The ping failed for another reason.
PingFails ==
  /\ session /\ sender = "Pinging"
  /\ EndSession(inflight)
  /\ UNCHANGED <<queueVars, pingPermit>>

-----------------------------------------------------------------------------
\* A step of a call that was made.
CallStep(r) ==
  \/ Enqueue(r) \/ SendTimeout(r) \/ Register(r)
  \/ Resolve(r) \/ NoticeDisconnection(r) \/ WaitTimeout(r)

\* The end of a ping.
PingEnds == PingOk \/ PingTimeout \/ PingFails

Next ==
  \/ \E r \in Calls : Call(r) \/ CallStep(r) \/ Answer(r)
  \/ SessionStart \/ ConnectionLost \/ ServerHangs
  \/ SendBatch \/ SendBatchFails
  \/ PingerTick \/ PingStart \/ PingEnds

Spec == Init /\ [][Next]_vars

\* A call's futures are polled and its timeouts fire; in a session the timer
\* of the pinger fires, a ping due is sent and every ping ends (ping_timeout).
\* The sender is polled between two ticks of the pinger, PING_INTERVAL apart,
\* so a queued batch is taken if the queue is free of pings again and again.
Fairness ==
  /\ \A r \in Calls : WF_vars(CallStep(r))
  /\ WF_vars(PingerTick) /\ WF_vars(PingStart) /\ WF_vars(PingEnds)
  /\ SF_vars(SendBatch \/ SendBatchFails)

FairSpec == Spec /\ Fairness

-----------------------------------------------------------------------------
\* Every variable keeps its type, and the channel its bound.
TypeOK ==
  /\ phase \in [Calls -> Phases]
  /\ size \in [Calls -> Nat]
  /\ \A r \in Calls : size[r] \in {0} \cup Sizes[r]
  /\ DOMAIN result = Calls /\ DOMAIN outcome = Calls
  /\ \A r \in Calls :
       /\ DOMAIN result[r] \subseteq 1 .. size[r] /\ Range(result[r]) \subseteq 1 .. size[r]
       /\ DOMAIN outcome[r] \in {{}, 1 .. size[r]}
       /\ Range(outcome[r]) \subseteq {"none", "answer", "error"}
  /\ queue \in Seq(Calls) /\ Len(queue) <= QueueSize
  /\ accepted \in Seq(Calls) /\ handed \in Seq(Calls)
  /\ session \in BOOLEAN /\ sender \in {"Select", "Pinging"} /\ alive \in BOOLEAN
  /\ pingPermit \in BOOLEAN /\ pingTimeouts \in 0 .. (MaxPingTimeouts - 1)
  /\ inflight \subseteq UNION {RequestsOf(r) : r \in Listening}
  /\ signalled \subseteq Calls

\* Across any number of sessions the batches the channel took are handed to
\* the streaming client once each and in order; the others are still queued
\* (the receiver's guard is kept by connection_task for all its sessions).
HandedInOrder ==
  /\ accepted = handed \o queue
  /\ \A i, j \in 1 .. Len(accepted) : accepted[i] = accepted[j] => i = j

\* A call that returns CommandQueueSaturated left nothing behind: it may be
\* repeated without sending its batch twice (send_batch).
SaturatedNotSent ==
  \A r \in Calls : phase[r] = "Saturated" => r \notin Range(accepted)

\* A batch that succeeds has the answer to each of its requests at the place of
\* the request, whatever the order of the answers, the errors among them and
\* the sessions meanwhile: "This avoids silently dropping the error, which may
\* cause a partial sync" (batch_script_get_history, and the callers that zip its
\* result with their scripts).  The fees that are left out move no others.
RepliesAligned ==
  \A r \in Calls : phase[r] = "Replied" =>
    /\ size[r] > 0 => r \in Range(handed)
    /\ r \notin Lenient => DOMAIN result[r] = 1 .. size[r]
    /\ \A i \in DOMAIN result[r] : result[r][i] = i

\* Every call returns, connected or not (the timeouts of send_batch and of
\* wait_batch_response).
CallReturns ==
  \A r \in Calls : (phase[r] # "Idle") ~> (phase[r] \in Returned)

\* A session whose server went silent ends (max_consecutive_ping_timeouts).
SilentSessionEnds == (session /\ ~alive) ~> ~session

\* A queued batch is handed over, or the session ends: pings do not keep the
\* sender from the queue for ever (biased select! of sender_message_handler).
QueueDrains ==
  \A r \in Calls :
    (session /\ r \in Range(queue)) ~> (~session \/ r \notin Range(queue))

=============================================================================
