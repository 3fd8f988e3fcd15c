--------------------------- MODULE RequestsProofs ---------------------------
(***************************************************************************)
(* Theorems about Requests, for any calls, batches and sizes of the queue. *)
(* The inductive invariant IInv adds to the properties what ties a call to *)
(* its batch: a batch enters the queue once, while its call is still       *)
(* sending (for HandedInOrder and SaturatedNotSent), and nothing resolves  *)
(* before it was handed over (for RepliesAligned).                         *)
(***************************************************************************)
EXTENDS Requests, SequenceTheorems, TLAPS

\* Only a call whose send_batch() succeeded has its batch in the channel or
\* beyond.
AcceptedOnce ==
  \A r \in Range(accepted) : phase[r] \notin {"Idle", "Sending", "Saturated"}

\* The futures of the responses exist while the call may wait for them, and
\* only a call that returned its replies has a result.
FuturesOfCalls ==
  \A r \in Calls :
    /\ phase[r] \in {"Sending", "Sent", "Waiting"} => DOMAIN outcome[r] = 1 .. size[r]
    /\ phase[r] # "Replied" => DOMAIN result[r] = {}

\* What is awaited from the server, or resolved, was handed over.
HandedFirst ==
  /\ \A q \in inflight : q[1] \in Range(handed)
  /\ \A r \in Calls : \A i \in DOMAIN outcome[r] :
       outcome[r][i] # "none" => r \in Range(handed)

IInv ==
  /\ TypeOK /\ HandedInOrder /\ AcceptedOnce
  /\ FuturesOfCalls /\ HandedFirst /\ RepliesAligned

-----------------------------------------------------------------------------
(* Sequences.                                                               *)

\* An element appended is the only new one.
LEMMA RangeAppend ==
  ASSUME NEW S, NEW seq, seq \in Seq(S), NEW e, e \in S
  PROVE  Range(Append(seq, e)) = Range(seq) \cup {e}
<1>1. <<e>> \in Seq(S) /\ Range(<<e>>) = {e}
  BY DEF Range
<1>2. Append(seq, e) = seq \o <<e>>
  BY AppendIsConcat
<1>3. Range(seq \o <<e>>) = Range(seq) \cup Range(<<e>>)
  BY <1>1, RangeConcatenation
<1> QED
  BY <1>1, <1>2, <1>3

\* The head goes from the front of a queue to the end of what left it.
LEMMA HeadMoves ==
  ASSUME NEW S, NEW done \in Seq(S), NEW seq \in Seq(S), seq # <<>>
  PROVE  /\ Head(seq) \in S /\ Tail(seq) \in Seq(S)
         /\ Append(done, Head(seq)) \o Tail(seq) = done \o seq
         /\ Range(Append(done, Head(seq))) = Range(done) \cup {Head(seq)}
<1>1. Head(seq) \in S /\ Tail(seq) \in Seq(S)
  BY HeadTailProperties
<1>2. Append(done, Head(seq)) = done \o <<Head(seq)>> /\ <<Head(seq)>> \in Seq(S)
  BY <1>1, AppendIsConcat
<1>3. <<Head(seq)>> \o Tail(seq) = seq
  BY <1>1
<1>4. Append(done, Head(seq)) \o Tail(seq) = done \o seq
  BY <1>1, <1>2, <1>3, ConcatAssociative
<1> QED
  BY <1>1, <1>4, RangeAppend

\* An element joins the end of a queue.
LEMMA LastJoins ==
  \A p, q \in Seq(Calls), e \in Calls : Append(p \o q, e) = p \o Append(q, e)
<1> TAKE p, q \in Seq(Calls), e \in Calls
<1>1. p \o q \in Seq(Calls) /\ <<e>> \in Seq(Calls)
  BY ConcatProperties
<1>2. Append(p \o q, e) = (p \o q) \o <<e>> /\ Append(q, e) = q \o <<e>>
  BY <1>1, AppendIsConcat
<1> QED
  BY <1>1, <1>2, ConcatAssociative

-----------------------------------------------------------------------------
\* The steps by what they do to the calls, to the queue and to the session.
CallSteps(r) ==
  \/ Call(r) \/ Enqueue(r) \/ SendTimeout(r) \/ Register(r)
  \/ Resolve(r) \/ NoticeDisconnection(r) \/ WaitTimeout(r)

SessionSteps ==
  \/ SessionStart \/ ConnectionLost \/ ServerHangs \/ SendBatch \/ SendBatchFails
  \/ PingerTick \/ PingStart \/ PingOk \/ PingTimeout \/ PingFails

\* A step is a call's, the session's, or changes nothing.
LEMMA NextCases ==
  ASSUME [Next]_vars
  PROVE  (\E r \in Calls : CallSteps(r) \/ Answer(r)) \/ SessionSteps \/ UNCHANGED vars
BY Zenon DEF Next, CallStep, PingEnds, CallSteps, SessionSteps

USE DEF Returned, Phases

-----------------------------------------------------------------------------
(* Types.                                                                   *)

\* The types in four parts: the calls, the queue, the session, and the requests
\* in flight, which belong to calls that listen.
CallTypes ==
  /\ phase \in [Calls -> Phases]
  /\ size \in [Calls -> Nat]
  /\ \A r \in Calls : size[r] \in {0} \cup Sizes[r]
  /\ DOMAIN result = Calls /\ DOMAIN outcome = Calls
  /\ \A r \in Calls :
       /\ DOMAIN result[r] \subseteq 1 .. size[r] /\ Range(result[r]) \subseteq 1 .. size[r]
       /\ DOMAIN outcome[r] \in {{}, 1 .. size[r]}
       /\ Range(outcome[r]) \subseteq {"none", "answer", "error"}

QueueTypes ==
  /\ queue \in Seq(Calls) /\ Len(queue) <= QueueSize
  /\ accepted \in Seq(Calls) /\ handed \in Seq(Calls)

SessionTypes ==
  /\ session \in BOOLEAN /\ sender \in {"Select", "Pinging"} /\ alive \in BOOLEAN
  /\ pingPermit \in BOOLEAN /\ pingTimeouts \in 0 .. (MaxPingTimeouts - 1)

InflightTypes ==
  /\ \A q \in inflight : \E r \in Calls \ Subscriptions :
       phase[r] \in {"Sent", "Waiting"} /\ q \in RequestsOf(r)
  /\ signalled \subseteq Calls

\* The parts make up TypeOK.
LEMMA TypeParts == TypeOK <=> CallTypes /\ QueueTypes /\ SessionTypes /\ InflightTypes
<1>1. inflight \subseteq UNION {RequestsOf(r) : r \in Listening}
        <=> \A q \in inflight : \E r \in Calls \ Subscriptions :
              phase[r] \in {"Sent", "Waiting"} /\ q \in RequestsOf(r)
  BY DEF Listening
<1> QED
  BY <1>1, Zenon DEF TypeOK, CallTypes, QueueTypes, SessionTypes, InflightTypes

\* The end of a session: what it leaves of the session, and of the futures.
LEMMA EndSessionEffect ==
  ASSUME NEW pending, EndSession(pending)
  PROVE  /\ session' = FALSE /\ sender' = "Select" /\ alive' = TRUE
         /\ inflight' = {} /\ pingTimeouts' = 0
         /\ signalled' = signalled \cup {r \in Calls : phase[r] = "Waiting"}
         /\ phase' = phase /\ size' = size /\ result' = result
         /\ DOMAIN outcome' = Calls
         /\ \A r \in Calls :
              /\ DOMAIN outcome'[r] = DOMAIN outcome[r]
              /\ \A i \in DOMAIN outcome[r] :
                   \/ outcome'[r][i] = outcome[r][i]
                   \/ outcome'[r][i] = "error" /\ <<r, i>> \in pending
<1>1. /\ session' = FALSE /\ sender' = "Select" /\ alive' = TRUE
      /\ inflight' = {} /\ pingTimeouts' = 0
      /\ signalled' = signalled \cup {r \in Calls : phase[r] = "Waiting"}
      /\ phase' = phase /\ size' = size /\ result' = result
  BY Zenon DEF EndSession
<1>2. PICK failed \in SUBSET pending :
        outcome' = [r \in Calls |-> [i \in DOMAIN outcome[r] |->
                                      IF <<r, i>> \in failed THEN "error" ELSE outcome[r][i]]]
  BY Zenon DEF EndSession
<1>3. DOMAIN outcome' = Calls
  BY <1>2, Zenon
<1>4. ASSUME NEW r \in Calls
      PROVE  outcome'[r] = [i \in DOMAIN outcome[r] |->
                              IF <<r, i>> \in failed THEN "error" ELSE outcome[r][i]]
  BY <1>2, Zenon
<1>5. ASSUME NEW r \in Calls
      PROVE  /\ DOMAIN outcome'[r] = DOMAIN outcome[r]
             /\ \A i \in DOMAIN outcome[r] :
                  \/ outcome'[r][i] = outcome[r][i]
                  \/ outcome'[r][i] = "error" /\ <<r, i>> \in pending
  <2>1. DOMAIN outcome'[r] = DOMAIN outcome[r]
    BY <1>4, Zenon
  <2>2. ASSUME NEW i \in DOMAIN outcome[r]
        PROVE  \/ outcome'[r][i] = outcome[r][i]
               \/ outcome'[r][i] = "error" /\ <<r, i>> \in pending
    <3>1. outcome'[r][i] = IF <<r, i>> \in failed THEN "error" ELSE outcome[r][i]
      BY <1>4, Zenon
    <3> QED
      BY <3>1, <1>2, Zenon
  <2> QED
    BY <2>1, <2>2
<1> QED
  BY <1>1, <1>3, <1>5

\* The types hold at first.
LEMMA InitType == Init => TypeOK
<1> SUFFICES ASSUME Init
             PROVE  CallTypes /\ QueueTypes /\ SessionTypes /\ InflightTypes
  BY TypeParts
<1>1. CallTypes
  BY DEF Init, CallTypes, Range
<1>2. QueueTypes
  BY SizesAssumption DEF Init, QueueTypes
<1>3. SessionTypes
  <2>1. pingTimeouts \in 0 .. (MaxPingTimeouts - 1)
    BY SizesAssumption DEF Init
  <2> QED
    BY <2>1, Zenon DEF Init, SessionTypes
<1>4. InflightTypes
  BY DEF Init, InflightTypes
<1> QED
  BY <1>1, <1>2, <1>3, <1>4

\* What the end of a session leaves of it has the types.
LEMMA EndSessionType ==
  ASSUME NEW pending, EndSession(pending), SessionTypes, pingPermit' = pingPermit
  PROVE  SessionTypes'
<1>1. session' = FALSE /\ sender' = "Select" /\ alive' = TRUE /\ pingTimeouts' = 0
  BY EndSessionEffect, Zenon
<1>2. pingTimeouts' \in 0 .. (MaxPingTimeouts - 1)
  BY <1>1, SizesAssumption
<1> QED
  BY <1>1, <1>2, Zenon DEF SessionTypes

\* The session's own variables keep their types.
LEMMA SessionType ==
  ASSUME SessionTypes, SessionSteps
  PROVE  SessionTypes'
<1> USE SizesAssumption DEF SessionTypes, sessionVars
<1>1. CASE SessionStart
  BY <1>1 DEF SessionStart
<1>2. CASE ConnectionLost
  BY <1>2, EndSessionType, Zenon DEF ConnectionLost
<1>3. CASE ServerHangs
  BY <1>3 DEF ServerHangs
<1>4. CASE SendBatch
  BY <1>4 DEF SendBatch
<1>5. CASE SendBatchFails
  BY <1>5, EndSessionType, Zenon DEF SendBatchFails
<1>6. CASE PingerTick
  BY <1>6 DEF PingerTick
<1>7. CASE PingStart
  BY <1>7 DEF PingStart
<1>8. CASE PingOk
  BY <1>8 DEF PingOk
<1>9. CASE PingTimeout
  <2>1. CASE EndSession(inflight)
    BY <1>9, <2>1, EndSessionType, Zenon DEF PingTimeout
  <2>2. CASE ~ EndSession(inflight)
    <3>1. /\ session' = session /\ sender' = "Select" /\ alive' = alive /\ pingPermit' = pingPermit
          /\ pingTimeouts + 1 < MaxPingTimeouts /\ pingTimeouts' = pingTimeouts + 1
      BY <1>9, <2>2, Zenon DEF PingTimeout
    <3>2. pingTimeouts' \in 0 .. (MaxPingTimeouts - 1)
      BY <3>1
    <3> QED
      BY <3>1, <3>2, Zenon
  <2> QED
    BY <2>1, <2>2
<1>10. CASE PingFails
  BY <1>10, EndSessionType, Zenon DEF PingFails
<1> QED
  BY <1>1, <1>2, <1>3, <1>4, <1>5, <1>6, <1>7, <1>8, <1>9, <1>10 DEF SessionSteps

-----------------------------------------------------------------------------
(* What the session and the answers do to the calls and the queue.          *)

\* Of the requests in "pending" some keep their futures waiting, and those of
\* the others resolve.
Settles(pending) ==
  /\ inflight' \subseteq pending
  /\ DOMAIN outcome' = Calls
  /\ \A r \in Calls :
       /\ DOMAIN outcome'[r] = DOMAIN outcome[r]
       /\ \A i \in DOMAIN outcome[r] :
            \/ outcome'[r][i] = outcome[r][i]
            \/ outcome'[r][i] \in {"answer", "error"} /\ <<r, i>> \in pending

HandsOver ==
  /\ queue # <<>> /\ queue' = Tail(queue)
  /\ handed' = Append(handed, Head(queue)) /\ accepted' = accepted

SettlesSome ==
  /\ phase' = phase /\ size' = size /\ result' = result
  /\ signalled \subseteq Calls => signalled' \subseteq Calls
  /\ \/ queue' = queue /\ handed' = handed /\ accepted' = accepted /\ Settles(inflight)
     \/ HandsOver /\ Settles(inflight \cup Awaited(Head(queue)))

LEMMA EndSessionSettles ==
  ASSUME NEW pending, EndSession(pending)
  PROVE  /\ phase' = phase /\ size' = size /\ result' = result
         /\ signalled \subseteq Calls => signalled' \subseteq Calls
         /\ Settles(pending)
<1>1. \A r \in Calls :
         /\ DOMAIN outcome'[r] = DOMAIN outcome[r]
         /\ \A i \in DOMAIN outcome[r] :
              \/ outcome'[r][i] = outcome[r][i]
              \/ outcome'[r][i] = "error" /\ <<r, i>> \in pending
  BY EndSessionEffect, Zenon
<1>2. DOMAIN outcome' = Calls /\ inflight' = {}
  BY EndSessionEffect, Zenon
<1>3. Settles(pending)
  BY <1>1, <1>2, Zenon DEF Settles
<1>4. signalled \subseteq Calls => signalled' \subseteq Calls
  BY EndSessionEffect, Zenon
<1> QED
  BY <1>3, <1>4, EndSessionEffect, Zenon

\* Requests that are only added to those in flight settle nothing.
LEMMA NothingSettles ==
  ASSUME DOMAIN outcome = Calls, NEW pending, inflight' \subseteq pending, UNCHANGED callVars
  PROVE  /\ phase' = phase /\ size' = size /\ result' = result
         /\ signalled \subseteq Calls => signalled' \subseteq Calls
         /\ Settles(pending)
BY Zenon DEF Settles, callVars

LEMMA SessionSettles ==
  ASSUME CallTypes, SessionSteps
  PROVE  SettlesSome
<1> USE DEF CallTypes, SettlesSome, sessionVars, queueVars
<1>1. CASE SessionStart
  BY <1>1, NothingSettles, Zenon DEF SessionStart
<1>2. CASE ConnectionLost
  BY <1>2, EndSessionSettles, Zenon DEF ConnectionLost
<1>3. CASE ServerHangs
  BY <1>3, NothingSettles, Zenon DEF ServerHangs
<1>4. CASE SendBatch
  BY <1>4, NothingSettles, Zenon DEF SendBatch, NextBatch, HandsOver
<1>5. CASE SendBatchFails
  BY <1>5, EndSessionSettles, Zenon DEF SendBatchFails, NextBatch, HandsOver
<1>6. CASE PingerTick
  BY <1>6, NothingSettles, Zenon DEF PingerTick
<1>7. CASE PingStart
  BY <1>7, NothingSettles, Zenon DEF PingStart
<1>8. CASE PingOk
  BY <1>8, NothingSettles, Zenon DEF PingOk
<1>9. CASE PingTimeout
  BY <1>9, EndSessionSettles, NothingSettles, Zenon DEF PingTimeout
<1>10. CASE PingFails
  BY <1>10, EndSessionSettles, Zenon DEF PingFails
<1> QED
  BY <1>1, <1>2, <1>3, <1>4, <1>5, <1>6, <1>7, <1>8, <1>9, <1>10, Zenon DEF SessionSteps

LEMMA AnswerSettles ==
  ASSUME CallTypes, NEW r \in Calls, Answer(r)
  PROVE  SettlesSome
<1>1. PICK i \in 1 .. size[r], o \in {"answer", "error"} :
        /\ <<r, i>> \in inflight /\ inflight' = inflight \ {<<r, i>>}
        /\ outcome' = [outcome EXCEPT ![r][i] = o]
  BY Zenon DEF Answer
<1>2. DOMAIN outcome = Calls
  BY DEF CallTypes
<1>3. /\ DOMAIN outcome' = Calls
      /\ outcome'[r] = [outcome[r] EXCEPT ![i] = o]
      /\ \A s \in Calls : s # r => outcome'[s] = outcome[s]
  BY <1>1, <1>2
<1>4. Settles(inflight)
  <2>1. inflight' \subseteq inflight
    BY <1>1
  <2>2. ASSUME NEW s \in Calls
        PROVE  /\ DOMAIN outcome'[s] = DOMAIN outcome[s]
               /\ \A j \in DOMAIN outcome[s] :
                    \/ outcome'[s][j] = outcome[s][j]
                    \/ outcome'[s][j] \in {"answer", "error"} /\ <<s, j>> \in inflight
    <3>1. CASE s = r
      BY <1>1, <1>3, <3>1
    <3>2. CASE s # r
      BY <1>3, <3>2
    <3> QED
      BY <3>1, <3>2
  <2> QED
    BY <1>3, <2>1, <2>2 DEF Settles
<1> QED
  BY <1>4, Zenon DEF Answer, SettlesSome, queueVars

\* A batch handed over is a call's, and joins what was handed over.
LEMMA HandsOverFacts ==
  ASSUME QueueTypes, HandsOver
  PROVE  /\ Head(queue) \in Calls /\ QueueTypes'
         /\ handed' \o queue' = handed \o queue
         /\ Range(handed') = Range(handed) \cup {Head(queue)}
<1>1. /\ queue \in Seq(Calls) /\ queue # <<>> /\ queue' = Tail(queue) /\ Len(queue) <= QueueSize
      /\ handed \in Seq(Calls) /\ handed' = Append(handed, Head(queue))
      /\ accepted \in Seq(Calls) /\ accepted' = accepted
  BY Zenon DEF QueueTypes, HandsOver
<1>2. /\ Head(queue) \in Calls /\ queue' \in Seq(Calls)
      /\ handed' \o queue' = handed \o queue
      /\ Range(handed') = Range(handed) \cup {Head(queue)}
  BY <1>1, HeadMoves
<1>3. handed' \in Seq(Calls)
  BY <1>1, <1>2
<1>4. Len(queue') <= QueueSize
  BY <1>1, SizesAssumption
<1> QED
  BY <1>1, <1>2, <1>3, <1>4 DEF QueueTypes

LEMMA SettlesCallTypes ==
  ASSUME CallTypes, SettlesSome
  PROVE  CallTypes'
<1>1. PICK pending : Settles(pending)
  BY Zenon DEF SettlesSome
<1>2. phase' = phase /\ size' = size /\ result' = result
  BY Zenon DEF SettlesSome
<1>3. DOMAIN outcome' = Calls
  BY <1>1, Zenon DEF Settles
<1>4. ASSUME NEW r \in Calls
      PROVE  /\ DOMAIN outcome'[r] \in {{}, 1 .. size'[r]}
             /\ Range(outcome'[r]) \subseteq {"none", "answer", "error"}
  <2>1. DOMAIN outcome'[r] = DOMAIN outcome[r] /\ DOMAIN outcome[r] \in {{}, 1 .. size[r]}
    BY <1>1, Zenon DEF Settles, CallTypes
  <2>2. \A i \in DOMAIN outcome[r] : outcome[r][i] \in {"none", "answer", "error"}
    BY DEF CallTypes, Range
  <2>3. \A i \in DOMAIN outcome[r] :
          outcome'[r][i] = outcome[r][i] \/ outcome'[r][i] \in {"answer", "error"}
    BY <1>1, Zenon DEF Settles
  <2> QED
    BY <1>2, <2>1, <2>2, <2>3 DEF Range
<1> QED
  BY <1>2, <1>3, <1>4, Zenon DEF CallTypes

\* Settling keeps every part of the invariant, but the session's types.
LEMMA SettlesInductive ==
  ASSUME IInv, SettlesSome
  PROVE  /\ CallTypes' /\ QueueTypes' /\ InflightTypes' /\ HandedInOrder'
         /\ AcceptedOnce' /\ FuturesOfCalls' /\ HandedFirst' /\ RepliesAligned'
<1>1. CallTypes /\ QueueTypes /\ InflightTypes
  BY TypeParts, Zenon DEF IInv
<1>2. CallTypes'
  BY <1>1, SettlesCallTypes
<1>3. phase' = phase /\ size' = size /\ result' = result
  BY Zenon DEF SettlesSome
<1>4. accepted' = accepted
  BY Zenon DEF SettlesSome, HandsOver
<1>5. /\ QueueTypes' /\ handed' \o queue' = handed \o queue
      /\ Range(handed) \subseteq Range(handed')
  <2>1. CASE HandsOver
    BY <1>1, <2>1, HandsOverFacts, Zenon
  <2>2. CASE ~ HandsOver
    BY <1>1, <2>2, Zenon DEF SettlesSome, QueueTypes
  <2> QED
    BY <2>1, <2>2
<1>6. PICK pending :
        /\ Settles(pending)
        /\ \A q \in pending :
             /\ \E r \in Calls \ Subscriptions :
                  phase[r] \in {"Sent", "Waiting"} /\ q \in RequestsOf(r)
             /\ q[1] \in Range(handed')
  <2>1. CASE HandsOver /\ Settles(inflight \cup Awaited(Head(queue)))
    <3>1. Head(queue) \in Calls /\ Range(handed') = Range(handed) \cup {Head(queue)}
      BY <1>1, <2>1, HandsOverFacts, Zenon
    <3>2. \A q \in inflight :
             /\ \E r \in Calls \ Subscriptions :
                  phase[r] \in {"Sent", "Waiting"} /\ q \in RequestsOf(r)
             /\ q[1] \in Range(handed')
      BY <1>1, <3>1, Zenon DEF InflightTypes, IInv, HandedFirst
    <3>3. \A q \in Awaited(Head(queue)) :
             /\ Head(queue) \in Calls \ Subscriptions /\ phase[Head(queue)] \in {"Sent", "Waiting"}
             /\ q \in RequestsOf(Head(queue)) /\ q[1] = Head(queue)
      BY DEF Awaited, Listening, RequestsOf
    <3>4. \A q \in inflight \cup Awaited(Head(queue)) :
             /\ \E r \in Calls \ Subscriptions :
                  phase[r] \in {"Sent", "Waiting"} /\ q \in RequestsOf(r)
             /\ q[1] \in Range(handed')
      BY <3>1, <3>2, <3>3, Zenon
    <3> QED
      BY <2>1, <3>4, Zenon
  <2>2. CASE handed' = handed /\ Settles(inflight)
    BY <1>1, <2>2, Zenon DEF InflightTypes, IInv, HandedFirst
  <2> QED
    BY <2>1, <2>2, Zenon DEF SettlesSome
<1>7. InflightTypes'
  BY <1>1, <1>3, <1>6 DEF InflightTypes, Settles, SettlesSome, RequestsOf
<1>8. HandedInOrder'
  BY <1>4, <1>5, Zenon DEF IInv, HandedInOrder
<1>9. AcceptedOnce'
  BY <1>3, <1>4, Zenon DEF IInv, AcceptedOnce
<1>10. FuturesOfCalls'
  BY <1>3, <1>6, Zenon DEF IInv, FuturesOfCalls, Settles
<1>11. HandedFirst'
  <2>1. \A q \in inflight' : q[1] \in Range(handed')
    BY <1>6, Zenon DEF Settles
  <2>2. ASSUME NEW r \in Calls, NEW i \in DOMAIN outcome'[r], outcome'[r][i] # "none"
        PROVE  r \in Range(handed')
    <3>1. i \in DOMAIN outcome[r]
      BY <2>2, <1>6, Zenon DEF Settles
    <3>2. CASE outcome'[r][i] = outcome[r][i]
      BY <1>5, <2>2, <3>1, <3>2, Zenon DEF IInv, HandedFirst
    <3>3. CASE <<r, i>> \in pending
      BY <1>6, <3>3
    <3> QED
      BY <1>6, <3>1, <3>2, <3>3, Zenon DEF Settles
  <2> QED
    BY <2>1, <2>2, Zenon DEF HandedFirst
<1>12. RepliesAligned'
  BY <1>3, <1>5, Zenon DEF IInv, RepliesAligned
<1> QED
  BY <1>2, <1>5, <1>7, <1>8, <1>9, <1>10, <1>11, <1>12

-----------------------------------------------------------------------------
(* The steps of a call.  The conjuncts that speak of every call follow for  *)
(* the others from what was true of them.                                   *)

\* The parts of the invariant that speak of one call.
OfCall(r) ==
  /\ phase[r] \in Phases /\ size[r] \in Nat /\ size[r] \in {0} \cup Sizes[r]
  /\ DOMAIN result[r] \subseteq 1 .. size[r] /\ Range(result[r]) \subseteq 1 .. size[r]
  /\ DOMAIN outcome[r] \in {{}, 1 .. size[r]}
  /\ Range(outcome[r]) \subseteq {"none", "answer", "error"}
  /\ phase[r] \in {"Sending", "Sent", "Waiting"} => DOMAIN outcome[r] = 1 .. size[r]
  /\ phase[r] # "Replied" => DOMAIN result[r] = {}
  /\ \A i \in DOMAIN outcome[r] : outcome[r][i] # "none" => r \in Range(handed)
  /\ phase[r] = "Replied" =>
       /\ size[r] > 0 => r \in Range(handed)
       /\ r \notin Lenient => DOMAIN result[r] = 1 .. size[r]
       /\ \A i \in DOMAIN result[r] : result[r][i] = i

\* The functions over the calls.
OverCalls ==
  /\ phase \in [Calls -> Phases] /\ size \in [Calls -> Nat]
  /\ DOMAIN result = Calls /\ DOMAIN outcome = Calls

\* What holds of the batches, of the queue and of the requests in flight.
OfBatches ==
  QueueTypes /\ InflightTypes /\ HandedInOrder /\ AcceptedOnce
  /\ \A q \in inflight : q[1] \in Range(handed)

LEMMA PartsOfInvariant ==
  IInv <=> OverCalls /\ (\A r \in Calls : OfCall(r)) /\ OfBatches /\ SessionTypes
<1>1. CallTypes <=> /\ OverCalls
                    /\ \A r \in Calls :
                         /\ size[r] \in {0} \cup Sizes[r]
                         /\ DOMAIN result[r] \subseteq 1 .. size[r]
                         /\ Range(result[r]) \subseteq 1 .. size[r]
                         /\ DOMAIN outcome[r] \in {{}, 1 .. size[r]}
                         /\ Range(outcome[r]) \subseteq {"none", "answer", "error"}
  BY Zenon DEF CallTypes, OverCalls
<1>2. OverCalls => \A r \in Calls : phase[r] \in Phases /\ size[r] \in Nat
  BY DEF OverCalls
<1>3. ASSUME IInv
      PROVE  OverCalls /\ (\A r \in Calls : OfCall(r)) /\ OfBatches /\ SessionTypes
  <2>1. CallTypes /\ QueueTypes /\ SessionTypes /\ InflightTypes
    BY <1>3, TypeParts, Zenon DEF IInv
  <2>2. OverCalls
    BY <2>1, <1>1, Zenon
  <2>3. OfBatches
    BY <1>3, <2>1, Zenon DEF IInv, OfBatches, HandedFirst
  <2>4. ASSUME NEW r \in Calls
        PROVE  OfCall(r)
    BY <1>1, <1>2, <1>3, <2>1, <2>2, Zenon
       DEF IInv, OfCall, FuturesOfCalls, HandedFirst, RepliesAligned
  <2> QED
    BY <2>1, <2>2, <2>3, <2>4
<1>4. ASSUME OverCalls, \A r \in Calls : OfCall(r), OfBatches, SessionTypes
      PROVE  IInv
  <2>1. CallTypes
    BY <1>1, <1>4, Zenon DEF OfCall
  <2>2. TypeOK /\ HandedInOrder /\ AcceptedOnce
    BY <1>4, <2>1, TypeParts, Zenon DEF OfBatches
  <2>3. FuturesOfCalls /\ HandedFirst /\ RepliesAligned
    BY <1>4, Zenon DEF OfCall, OfBatches, FuturesOfCalls, HandedFirst, RepliesAligned
  <2> QED
    BY <2>2, <2>3, Zenon DEF IInv
<1> QED
  BY <1>3, <1>4

\* A step of one call keeps what holds of the others.
Others(r) ==
  /\ handed' = handed
  /\ \A s \in Calls \ {r} :
       /\ phase'[s] = phase[s] /\ size'[s] = size[s]
       /\ result'[s] = result[s] /\ outcome'[s] = outcome[s]

LEMMA OthersStay ==
  ASSUME NEW r \in Calls, Others(r), \A s \in Calls : OfCall(s), OfCall(r)'
  PROVE  \A s \in Calls : OfCall(s)'
<1>1. ASSUME NEW s \in Calls, s # r
      PROVE  OfCall(s)'
  <2>1. OfCall(s) /\ phase'[s] = phase[s] /\ size'[s] = size[s] /\ handed' = handed
        /\ result'[s] = result[s] /\ outcome'[s] = outcome[s]
    BY <1>1, Zenon DEF Others
  <2> QED
    BY <2>1, Zenon DEF OfCall
<1> QED
  BY <1>1, Zenon

\* What a move of a call's phase does.
LEMMA Moves ==
  ASSUME OverCalls, NEW r \in Calls, NEW from, NEW to \in Phases, CallMoves(r, from, to)
  PROVE  /\ phase[r] = from /\ phase' \in [Calls -> Phases]
         /\ phase'[r] = to /\ \A s \in Calls \ {r} : phase'[s] = phase[s]
BY DEF OverCalls, CallMoves

\* What is in flight, and who accepted batches, as the phase of a call moves on.
LEMMA MovesOfBatches ==
  ASSUME OverCalls, OfBatches, NEW r \in Calls, NEW from, NEW to \in Phases,
         CallMoves(r, from, to), UNCHANGED queueVars, signalled' \subseteq signalled,
         \A s \in Calls \ {r} : size'[s] = size[s],
         \/ from \in {"Idle", "Sending"} /\ inflight' = inflight
         \/ from = "Sent" /\ to = "Waiting" /\ size' = size /\ inflight' = inflight
         \/ from = "Waiting" /\ to \notin {"Idle", "Sending", "Saturated"}
            /\ inflight' = inflight \ RequestsOf(r) /\ size' = size
  PROVE  OfBatches'
<1>1. /\ phase[r] = from /\ phase'[r] = to
      /\ \A s \in Calls \ {r} : phase'[s] = phase[s]
  BY Moves, Zenon
<1>2. QueueTypes /\ InflightTypes /\ HandedInOrder /\ AcceptedOnce
      /\ \A q \in inflight : q[1] \in Range(handed)
  BY Zenon DEF OfBatches
<1>3. queue' = queue /\ accepted' = accepted /\ handed' = handed
  BY Zenon DEF queueVars
<1>4. QueueTypes' /\ HandedInOrder'
  BY <1>2, <1>3, Zenon DEF QueueTypes, HandedInOrder
<1>5. AcceptedOnce'
  <2>1. Range(accepted) \subseteq Calls
    BY <1>2 DEF QueueTypes, Range
  <2> QED
    BY <1>1, <1>2, <1>3, <2>1, Zenon DEF AcceptedOnce
<1>6. inflight' \subseteq inflight
  BY SMT
<1>7. InflightTypes'
  <2>1. ASSUME NEW q \in inflight'
        PROVE  \E s \in Calls \ Subscriptions :
                 phase'[s] \in {"Sent", "Waiting"} /\ q \in RequestsOf(s)'
    <3>1. PICK s \in Calls \ Subscriptions : phase[s] \in {"Sent", "Waiting"} /\ q \in RequestsOf(s)
      BY <1>2, <1>6, <2>1, Zenon DEF InflightTypes
    <3>2. CASE s # r
      BY <1>1, <3>1, <3>2 DEF RequestsOf
    <3>3. CASE s = r
      BY <1>1, <2>1, <3>1, <3>3 DEF RequestsOf
    <3> QED
      BY <3>2, <3>3
  <2> QED
    BY <1>2, <2>1, Zenon DEF InflightTypes
<1> QED
  BY <1>2, <1>3, <1>4, <1>5, <1>6, <1>7, Zenon DEF OfBatches

\* The invariant over a step of one call, from its parts.
CallInvariant == OverCalls /\ (\A r \in Calls : OfCall(r)) /\ OfBatches

LEMMA CallKeeps ==
  ASSUME CallInvariant, NEW r \in Calls, Call(r)
  PROVE  CallInvariant'
<1>1. PICK n \in Sizes[r], to \in {"Sending", "Accepted", "Replied"} :
        /\ CallMoves(r, "Idle", to)
        /\ n > 0 <=> to = "Sending"
        /\ size' = [size EXCEPT ![r] = n]
        /\ outcome' = [outcome EXCEPT ![r] = [i \in 1 .. n |-> "none"]]
        /\ UNCHANGED <<result, signalled, queueVars, sessionVars>>
  <2>1. PICK n \in Sizes[r] :
          /\ CallMoves(r, "Idle", IF n > 0 THEN "Sending"
                                  ELSE IF r \in Subscriptions THEN "Accepted" ELSE "Replied")
          /\ size' = [size EXCEPT ![r] = n]
          /\ outcome' = [outcome EXCEPT ![r] = [i \in 1 .. n |-> "none"]]
    BY Zenon DEF Call
  <2>2. UNCHANGED <<result, signalled, queueVars, sessionVars>>
    BY Zenon DEF Call
  <2>3. CASE n > 0
    BY <2>1, <2>2, <2>3
  <2>4. CASE ~ (n > 0) /\ r \in Subscriptions
    BY <2>1, <2>2, <2>4
  <2>5. CASE ~ (n > 0) /\ r \notin Subscriptions
    BY <2>1, <2>2, <2>5
  <2> QED
    BY <2>3, <2>4, <2>5
<1>2. OverCalls /\ OfCall(r)
  BY Zenon DEF CallInvariant
<1>3. /\ phase[r] = "Idle" /\ phase' \in [Calls -> Phases]
      /\ phase'[r] = to /\ \A s \in Calls \ {r} : phase'[s] = phase[s]
  BY <1>1, <1>2, Moves
<1>4. n \in Nat
  BY BatchesAssumption
<1>5. /\ OverCalls' /\ size'[r] = n /\ outcome'[r] = [i \in 1 .. n |-> "none"]
      /\ result'[r] = result[r] /\ Others(r)
  BY <1>1, <1>2, <1>3, <1>4 DEF OverCalls, Others, queueVars
<1>6. OfCall(r)'
  <2>1. DOMAIN result[r] = {}
    BY <1>2, <1>3 DEF OfCall
  <2>2. Range(result'[r]) = {} /\ DOMAIN result'[r] = {}
    BY <1>5, <2>1 DEF Range
  <2>3. DOMAIN outcome'[r] = 1 .. n /\ Range(outcome'[r]) \subseteq {"none"}
        /\ \A i \in 1 .. n : outcome'[r][i] = "none"
    BY <1>5 DEF Range
  <2>4. to = "Replied" => 1 .. n = {}
    BY <1>1, <1>4
  <2> QED
    BY <1>1, <1>3, <1>4, <1>5, <2>2, <2>3, <2>4 DEF OfCall
<1>7. OfBatches'
  BY <1>1, <1>2, <1>5, MovesOfBatches DEF CallInvariant, sessionVars, Others
<1> QED
  BY <1>5, <1>6, <1>7, OthersStay, Zenon DEF CallInvariant

\* The step leaves the batch and the futures of the call as they are.
LEMMA MoveKeeps ==
  ASSUME CallInvariant, NEW r \in Calls, NEW from, NEW to, CallMoves(r, from, to),
         UNCHANGED <<size, result, outcome, signalled, queueVars, sessionVars>>,
         \/ from = "Sending" /\ to = "Saturated"
         \/ from = "Sent" /\ to = "Waiting"
  PROVE  CallInvariant'
<1>1. OverCalls /\ OfCall(r) /\ to \in Phases
  BY SMT DEF CallInvariant
<1>2. /\ phase[r] = from /\ phase' \in [Calls -> Phases]
      /\ phase'[r] = to /\ \A s \in Calls \ {r} : phase'[s] = phase[s]
  BY <1>1, Moves
<1>3. OverCalls' /\ Others(r)
  BY <1>1, <1>2, Zenon DEF OverCalls, Others, queueVars
<1>4. OfCall(r)'
  <2>1. /\ size' = size /\ result' = result /\ outcome' = outcome /\ handed' = handed
    BY Zenon DEF queueVars
  <2>2. phase[r] # "Replied" /\ phase'[r] # "Replied" /\ phase[r] \in {"Sending", "Sent", "Waiting"}
    BY <1>2
  <2> QED
    BY <1>1, <1>2, <2>1, <2>2, Zenon DEF OfCall
<1>5. OfBatches'
  BY <1>1, MovesOfBatches DEF CallInvariant, sessionVars
<1> QED
  BY <1>3, <1>4, <1>5, OthersStay, Zenon DEF CallInvariant

LEMMA EnqueueKeeps ==
  ASSUME CallInvariant, NEW r \in Calls, Enqueue(r)
  PROVE  CallInvariant'
<1>1. PICK to \in {"Accepted", "Sent"} : CallMoves(r, "Sending", to)
  <2>1. CASE r \in Subscriptions
    BY <2>1 DEF Enqueue
  <2>2. CASE r \notin Subscriptions
    BY <2>2 DEF Enqueue
  <2> QED
    BY <2>1, <2>2
<1>2. OverCalls /\ OfCall(r) /\ OfBatches
  BY Zenon DEF CallInvariant
<1>3. /\ phase[r] = "Sending" /\ phase' \in [Calls -> Phases]
      /\ phase'[r] = to /\ \A s \in Calls \ {r} : phase'[s] = phase[s]
  BY <1>1, <1>2, Moves
<1>4. /\ Len(queue) < QueueSize /\ queue' = Append(queue, r) /\ accepted' = Append(accepted, r)
      /\ size' = size /\ result' = result /\ outcome' = outcome /\ signalled' = signalled
      /\ handed' = handed /\ inflight' = inflight
  BY Zenon DEF Enqueue, sessionVars
<1>5. OverCalls' /\ Others(r)
  BY <1>2, <1>3, <1>4, Zenon DEF OverCalls, Others
<1>6. OfCall(r)'
  <2>1. phase[r] # "Replied" /\ phase'[r] # "Replied" /\ phase[r] \in {"Sending", "Sent", "Waiting"}
    BY <1>3
  <2>2. phase'[r] \in Phases
    BY <1>3
  <2> QED
    BY <1>2, <1>4, <2>1, <2>2, Zenon DEF OfCall
<1>7. /\ queue \in Seq(Calls) /\ handed \in Seq(Calls) /\ accepted \in Seq(Calls)
      /\ accepted = handed \o queue /\ Len(queue) <= QueueSize
  BY <1>2, Zenon DEF OfBatches, QueueTypes, HandedInOrder
<1>8. r \notin Range(accepted) /\ Range(accepted') = Range(accepted) \cup {r}
  <2>1. r \notin Range(accepted)
    BY <1>2, <1>3, Zenon DEF OfBatches, AcceptedOnce
  <2>2. Range(Append(accepted, r)) = Range(accepted) \cup {r}
    <3>1. \A q \in Seq(Calls), e \in Calls : Range(Append(q, e)) = Range(q) \cup {e}
      BY RangeAppend
    <3> QED
      BY <1>7, <3>1
  <2> QED
    BY <1>4, <2>1, <2>2, Zenon
<1>9. QueueTypes'
  BY <1>4, <1>7, SizesAssumption DEF QueueTypes
<1>10. HandedInOrder'
  <2>1. accepted' = handed' \o queue'
    <3>1. Append(handed \o queue, r) = handed \o Append(queue, r)
      BY <1>7, LastJoins
    <3> QED
      BY <1>4, <1>7, <3>1, Zenon
  <2>2. \A i, j \in 1 .. Len(accepted) : accepted[i] = accepted[j] => i = j
    BY <1>2, Zenon DEF OfBatches, HandedInOrder
  <2>3. \A i \in 1 .. Len(accepted) : accepted[i] # r
    BY <1>8 DEF Range
  <2>4. /\ Len(accepted') = Len(accepted) + 1 /\ accepted'[Len(accepted) + 1] = r
        /\ \A i \in 1 .. Len(accepted) : accepted'[i] = accepted[i]
    BY <1>4, <1>7
  <2>5. \A i, j \in 1 .. Len(accepted') : accepted'[i] = accepted'[j] => i = j
    <3>1. ASSUME NEW i \in 1 .. Len(accepted'), NEW j \in 1 .. Len(accepted'),
                 accepted'[i] = accepted'[j]
          PROVE  i = j
      <4>1. Len(accepted) \in Nat
        BY <1>7
      <4>2. CASE i \in 1 .. Len(accepted) /\ j \in 1 .. Len(accepted)
        BY <2>2, <2>4, <3>1, <4>2
      <4>3. CASE i = Len(accepted) + 1 \/ j = Len(accepted) + 1
        BY <2>3, <2>4, <3>1, <4>1, <4>3
      <4> QED
        BY <2>4, <4>1, <4>2, <4>3
    <3> QED
      BY <3>1
  <2> QED
    BY <2>1, <2>5 DEF HandedInOrder
<1>11. AcceptedOnce'
  <2>1. Range(accepted) \subseteq Calls
    BY <1>7 DEF Range
  <2> QED
    BY <1>2, <1>3, <1>8, <2>1 DEF OfBatches, AcceptedOnce
<1>12. InflightTypes'
  <2>1. ASSUME NEW q \in inflight'
        PROVE  \E s \in Calls \ Subscriptions :
                 phase'[s] \in {"Sent", "Waiting"} /\ q \in RequestsOf(s)'
    <3>1. PICK s \in Calls \ Subscriptions : phase[s] \in {"Sent", "Waiting"} /\ q \in RequestsOf(s)
      BY <1>2, <1>4, <2>1, Zenon DEF OfBatches, InflightTypes
    <3> QED
      BY <1>3, <1>4, <3>1 DEF RequestsOf
  <2> QED
    BY <1>2, <1>4, <2>1, Zenon DEF InflightTypes, OfBatches
<1>13. \A q \in inflight' : q[1] \in Range(handed')
  BY <1>2, <1>4, Zenon DEF OfBatches
<1>14. OfBatches'
  BY <1>9, <1>10, <1>11, <1>12, <1>13, Zenon DEF OfBatches
<1> QED
  BY <1>5, <1>6, <1>14, OthersStay, Zenon DEF CallInvariant

\* The call returns "how", with these answers.
LEMMA ReturnsKeep ==
  ASSUME CallInvariant, NEW r \in Calls, NEW how, NEW answers, Returns(r, how, answers),
         \/ how \in {"Failed", "TimedOut", "Disconnected"} /\ DOMAIN answers = {}
         \/ /\ how = "Replied" /\ DOMAIN answers \subseteq 1 .. size[r]
            /\ \A i \in DOMAIN answers : answers[i] = i
            /\ size[r] > 0 => r \in Range(handed)
            /\ r \notin Lenient => DOMAIN answers = 1 .. size[r]
  PROVE  CallInvariant'
<1>1. OverCalls /\ OfCall(r) /\ how \in Phases
  BY SMT DEF CallInvariant
<1>2. /\ CallMoves(r, "Waiting", how)
      /\ result' = [result EXCEPT ![r] = answers] /\ outcome' = [outcome EXCEPT ![r] = <<>>]
      /\ signalled' = signalled \ {r} /\ inflight' = inflight \ RequestsOf(r)
      /\ size' = size /\ UNCHANGED queueVars
  BY Zenon DEF Returns
<1>3. /\ phase[r] = "Waiting" /\ phase' \in [Calls -> Phases]
      /\ phase'[r] = how /\ \A s \in Calls \ {r} : phase'[s] = phase[s]
  BY <1>1, <1>2, Moves
<1>4. handed' = handed
  BY <1>2, Zenon DEF queueVars
<1>5. OverCalls' /\ Others(r) /\ result'[r] = answers /\ outcome'[r] = <<>>
  BY <1>1, <1>2, <1>3, <1>4 DEF OverCalls, Others
<1>6. OfCall(r)'
  <2>1. DOMAIN outcome'[r] = {} /\ Range(outcome'[r]) = {}
    BY <1>5 DEF Range
  <2>2. DOMAIN answers \subseteq 1 .. size[r] /\ Range(answers) \subseteq 1 .. size[r]
        /\ (how # "Replied" => DOMAIN answers = {})
    BY DEF Range
  <2>3. how \notin {"Sending", "Sent", "Waiting"}
    OBVIOUS
  <2>4. how = "Replied" =>
          /\ size[r] > 0 => r \in Range(handed)
          /\ r \notin Lenient => DOMAIN answers = 1 .. size[r]
          /\ \A i \in DOMAIN answers : answers[i] = i
    OBVIOUS
  <2>5. size[r] \in Nat /\ size[r] \in {0} \cup Sizes[r]
    BY <1>1, Zenon DEF OfCall
  <2> QED
    BY <1>1, <1>2, <1>3, <1>4, <1>5, <2>1, <2>2, <2>3, <2>4, <2>5, Zenon DEF OfCall
<1>7. OfBatches'
  BY <1>1, <1>2, MovesOfBatches DEF CallInvariant
<1> QED
  BY <1>5, <1>6, <1>7, OthersStay, Zenon DEF CallInvariant

LEMMA ResolveKeeps ==
  ASSUME CallInvariant, NEW r \in Calls, Resolve(r)
  PROVE  CallInvariant'
<1>1. /\ phase[r] = "Waiting" /\ Resolved(r) /\ OfCall(r)
      /\ Answered(r) \subseteq 1 .. size[r]
  BY Zenon DEF Resolve, CallInvariant, Answered
<1>2. CASE r \in Lenient \/ Answered(r) = 1 .. size[r]
  <2> DEFINE answers == [i \in Answered(r) |-> i]
  <2>1. Returns(r, "Replied", answers)
    BY <1>2, Zenon DEF Resolve
  <2>2. DOMAIN answers = Answered(r) /\ \A i \in DOMAIN answers : answers[i] = i
    OBVIOUS
  <2>3. size[r] > 0 => r \in Range(handed)
    <3>1. ASSUME size[r] > 0
          PROVE  r \in Range(handed)
      <4>1. size[r] \in Nat /\ DOMAIN outcome[r] = 1 .. size[r]
            /\ \A i \in DOMAIN outcome[r] : outcome[r][i] # "none" => r \in Range(handed)
        BY <1>1, Zenon DEF OfCall
      <4>2. 1 \in 1 .. size[r]
        BY <3>1, <4>1
      <4> QED
        BY <1>1, <4>1, <4>2, Zenon DEF Resolved
    <3> QED
      BY <3>1
  <2>4. DOMAIN answers \subseteq 1 .. size[r] /\ (r \notin Lenient => DOMAIN answers = 1 .. size[r])
    BY <1>1, <1>2, <2>2, Zenon
  <2> HIDE DEF answers
  <2> QED
    BY <2>1, <2>2, <2>3, <2>4, ReturnsKeep, Zenon
<1>3. CASE ~ (r \in Lenient \/ Answered(r) = 1 .. size[r])
  <2>1. Returns(r, "Failed", <<>>)
    BY <1>3, Zenon DEF Resolve
  <2>2. DOMAIN <<>> = {}
    OBVIOUS
  <2>3. "Failed" \in {"Failed", "TimedOut", "Disconnected"}
    OBVIOUS
  <2> QED
    BY <2>1, <2>2, <2>3, ReturnsKeep, Zenon
<1> QED
  BY <1>2, <1>3

\* The steps of the calls keep the invariant.
LEMMA CallStepsKeep ==
  ASSUME CallInvariant, NEW r \in Calls, CallSteps(r)
  PROVE  CallInvariant'
<1>1. CASE SendTimeout(r)
  <2>1. CallMoves(r, "Sending", "Saturated")
        /\ UNCHANGED <<size, result, outcome, signalled, queueVars, sessionVars>>
    BY <1>1, Zenon DEF SendTimeout
  <2> QED
    BY <2>1, MoveKeeps, Zenon
<1>2. CASE Register(r)
  BY <1>2, MoveKeeps, Zenon DEF Register
<1>3. CASE NoticeDisconnection(r) \/ WaitTimeout(r)
  <2>1. PICK how \in {"Failed", "TimedOut", "Disconnected"} : Returns(r, how, <<>>)
    BY <1>3, Zenon DEF NoticeDisconnection, WaitTimeout
  <2>2. DOMAIN <<>> = {}
    OBVIOUS
  <2> QED
    BY <2>1, <2>2, ReturnsKeep, Zenon
<1> QED
  BY <1>1, <1>2, <1>3, CallKeeps, EnqueueKeeps, ResolveKeeps, Zenon DEF CallSteps

\* They leave the session alone, or end the wait for some requests only.
LEMMA CallStepsSession ==
  ASSUME SessionTypes, NEW r \in Calls, CallSteps(r)
  PROVE  SessionTypes'
BY Zenon DEF SessionTypes, CallSteps, Call, Enqueue, SendTimeout, Register, Resolve,
             NoticeDisconnection, WaitTimeout, Returns, sessionVars

LEMMA AnswerSession ==
  ASSUME SessionTypes, NEW r \in Calls, Answer(r)
  PROVE  SessionTypes'
BY Zenon DEF SessionTypes, Answer

-----------------------------------------------------------------------------
(* The invariant, and the properties.                                       *)

LEMMA InitInvariant == Init => IInv
<1> SUFFICES ASSUME Init
             PROVE  IInv
  OBVIOUS
<1>1. TypeOK
  BY InitType
<1>2. Range(accepted) = {} /\ Range(handed) = {} /\ Len(accepted) = 0
      /\ accepted = <<>> /\ handed = <<>> /\ queue = <<>>
  BY DEF Init, Range
<1>3. HandedInOrder /\ AcceptedOnce
  BY <1>2 DEF HandedInOrder, AcceptedOnce
<1>4. \A r \in Calls : phase[r] = "Idle" /\ DOMAIN result[r] = {} /\ DOMAIN outcome[r] = {}
  BY DEF Init
<1>5. inflight = {}
  BY DEF Init
<1>6. FuturesOfCalls /\ HandedFirst /\ RepliesAligned
  BY <1>4, <1>5 DEF FuturesOfCalls, HandedFirst, RepliesAligned
<1> QED
  BY <1>1, <1>3, <1>6 DEF IInv

\* The parts after a step.
LEMMA PrimedParts ==
  /\ (CallInvariant /\ SessionTypes <=> IInv)'
  /\ (TypeOK <=> CallTypes /\ QueueTypes /\ SessionTypes /\ InflightTypes)'
<1>1. /\ CallInvariant /\ SessionTypes <=> IInv
      /\ TypeOK <=> CallTypes /\ QueueTypes /\ SessionTypes /\ InflightTypes
  BY PartsOfInvariant, TypeParts, Zenon DEF CallInvariant
<1> QED
  BY <1>1, PTL

LEMMA NextInvariant == IInv /\ [Next]_vars => IInv'
<1> SUFFICES ASSUME IInv, [Next]_vars
             PROVE  IInv'
  OBVIOUS
<1>1. CallInvariant /\ SessionTypes /\ CallTypes
  BY PartsOfInvariant, TypeParts, Zenon DEF CallInvariant, IInv
<1>2. CASE \E r \in Calls : CallSteps(r)
  BY <1>1, <1>2, PrimedParts, CallStepsKeep, CallStepsSession, Zenon
<1>3. CASE SettlesSome /\ SessionTypes'
  <2>1. TypeOK'
    BY <1>3, PrimedParts, SettlesInductive, Zenon
  <2> QED
    BY <1>3, <2>1, SettlesInductive, Zenon DEF IInv
<1>4. CASE \E r \in Calls : Answer(r)
  BY <1>1, <1>3, <1>4, AnswerSettles, AnswerSession, Zenon
<1>5. CASE SessionSteps
  BY <1>1, <1>3, <1>5, SessionSettles, SessionType, Zenon
<1>6. CASE UNCHANGED vars
  <2>1. /\ UNCHANGED <<phase, size, result, outcome, inflight, signalled>>
        /\ UNCHANGED <<queue, accepted, handed>>
        /\ UNCHANGED <<session, sender, alive, pingPermit, pingTimeouts>>
    BY <1>6, Zenon DEF vars
  <2>2. CallTypes' /\ QueueTypes' /\ SessionTypes'
    BY <1>1, <2>1, TypeParts, Zenon DEF IInv, CallTypes, QueueTypes, SessionTypes
  <2>3. InflightTypes'
    BY <1>1, <2>1, TypeParts, Zenon DEF IInv, InflightTypes, RequestsOf
  <2>4. TypeOK'
    BY PrimedParts, <2>2, <2>3, Zenon
  <2>5. HandedInOrder' /\ AcceptedOnce' /\ FuturesOfCalls' /\ HandedFirst' /\ RepliesAligned'
    BY <2>1, Zenon DEF IInv, HandedInOrder, AcceptedOnce, FuturesOfCalls, HandedFirst,
       RepliesAligned
  <2> QED
    BY <2>4, <2>5, Zenon DEF IInv
<1> QED
  BY <1>2, <1>4, <1>5, <1>6, NextCases, Zenon

\* The inductive invariant holds always.
THEOREM Invariant == Spec => []IInv
<1> QED
  BY InitInvariant, NextInvariant, PTL DEF Spec

\* The types hold, and the channel never holds more batches than its size.
THEOREM TypeCorrect == Spec => []TypeOK
<1>1. IInv => TypeOK
  BY DEF IInv
<1> QED
  BY <1>1, Invariant, PTL

\* Whatever the sessions, the calls that give up and the timeouts: the batches
\* are handed to the streaming client once each, in the order of acceptance.
THEOREM AlwaysHandedInOrder == Spec => []HandedInOrder
<1>1. IInv => HandedInOrder
  BY DEF IInv
<1> QED
  BY <1>1, Invariant, PTL

\* send_batch() that reports a full queue has queued nothing, then or later.
THEOREM SaturatedIsNotSent == Spec => []SaturatedNotSent
<1>1. IInv => SaturatedNotSent
  BY DEF IInv, AcceptedOnce, SaturatedNotSent
<1> QED
  BY <1>1, Invariant, PTL

\* A result has each answer at the place of its request; without failed
\* requests to leave out it is complete.
THEOREM RepliesAreAligned == Spec => []RepliesAligned
<1>1. IInv => RepliesAligned
  BY DEF IInv
<1> QED
  BY <1>1, Invariant, PTL

=============================================================================
