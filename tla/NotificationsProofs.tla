------------------------ MODULE NotificationsProofs ------------------------
(***************************************************************************)
(* Theorems about Notifications, for any writers, streams, capacity of the *)
(* channel and length of the history.  FollowerAgrees speaks of the        *)
(* moments when all is read and nothing is being set.  The inductive       *)
(* invariant says what holds in between: as long as no two set_status()    *)
(* overlapped, either some writer has stored a status it is about to       *)
(* broadcast, or the last status broadcast is the one stored, and a stream *)
(* with no status left to read is the one of an application that knows it. *)
(***************************************************************************)
EXTENDS Notifications, SequenceTheorems, TLAPS

\* The statuses as an application sees them.
Public == {"Connecting", "Connected", "Disconnected"}

\* Next in q is the broadcast of a status.
Announces(q) == q # <<>> /\ q[1].op = "send" /\ q[1].what \in Public

\* No status is between its store and its broadcast.
Settled == \A w \in Writers : ~Announces(todo[w])

\* No status was broadcast from the n-th notification on.
QuietFrom(n) == \A i \in DOMAIN sent : i >= n => sent[i] \notin Public

\* What a writer has left: a store is the first step and the broadcast of its
\* status the next, and a status is broadcast after its store only.
WellFormed(q) ==
  \A i \in DOMAIN q :
    /\ q[i].op = "store" =>
         i = 1 /\ q[i].what \in Statuses /\ Len(q) > 1 /\ q[2] = Send(PublicStatus(q[1].what))
    /\ q[i].op = "send" => q[i].what \in Sendable
    /\ q[i].op = "send" /\ q[i].what \in Public => i = 1 \/ (i = 2 /\ q[1].op = "store")

\* The application asks for the status once it has its stream.
AsksLater ==
  \A s \in Streams : stream[s].at \in {"none", "checked"} => belief[s] = "unknown"

\* One writer at a time is inside set_status().
Serial == \A v, w \in Writers : Writing(v) /\ Writing(w) => v = w

\* The status about to be broadcast is the one stored.
Announced == \A w \in Writers : Announces(todo[w]) => todo[w][1].what = PublicStatus(status)

\* The last status broadcast is the one stored.
LastIsStatus ==
  Settled => \A i \in DOMAIN sent :
    sent[i] \in Public /\ QuietFrom(i + 1) => sent[i] = PublicStatus(status)

\* Who has no status left to read knows the one stored.
Informed ==
  Settled => \A s \in Streams :
    /\ stream[s].at = "open" /\ ~stream[s].lagged /\ belief[s] # "unknown"
    /\ QuietFrom(stream[s].next)
    => belief[s] = PublicStatus(status)

IInv ==
  /\ TypeOK /\ AsksLater
  /\ \A w \in Writers : WellFormed(todo[w])
  /\ ~overlap => Serial /\ Announced /\ LastIsStatus /\ Informed

-----------------------------------------------------------------------------
(* What the writers have to do.                                             *)

Steps == [op : {"store", "send", "spawn"}, what : Statuses \cup Sendable \cup {"task"}]

LEMMA PublicStatusType == \A s : PublicStatus(s) \in Public
BY DEF PublicStatus, Public

\* What a writer begins with: a status to set, alone, before the task is
\* spawned or before the end is broadcast.
BeginsWith(q) ==
  \E x \in Statuses :
    \/ q = SetStatus(x)
    \/ q = SetStatus(x) \o <<Spawn>>
    \/ q = SetStatus(x) \o <<Send("Shutdown")>>

LEMMA BeginsWellFormed ==
  ASSUME NEW q, BeginsWith(q)
  PROVE  q \in Seq(Steps) /\ WellFormed(q) /\ q[1].op = "store" /\ q # <<>>
<1> USE DEF Store, Send, Spawn, Steps, Sendable, Public, Statuses
<1>1. PICK x \in Statuses :
        \/ q = SetStatus(x)
        \/ q = SetStatus(x) \o <<Spawn>>
        \/ q = SetStatus(x) \o <<Send("Shutdown")>>
  BY Zenon DEF BeginsWith
<1>2. PICK p \in Public : p = PublicStatus(x) /\ SetStatus(x) = <<Store(x), Send(p)>>
  BY PublicStatusType DEF SetStatus
<1>3. CASE q = <<Store(x), Send(p)>>
  <2>1. q \in Seq(Steps) /\ q # <<>> /\ Len(q) = 2 /\ q[1] = Store(x) /\ q[2] = Send(p)
    BY <1>3
  <2> QED
    BY <1>2, <2>1 DEF WellFormed
<1>4. CASE q = <<Store(x), Send(p)>> \o <<Spawn>>
  <2>1. q \in Seq(Steps) /\ q # <<>> /\ Len(q) = 3 /\ q[1] = Store(x) /\ q[2] = Send(p) /\ q[3] = Spawn
    BY <1>4
  <2> QED
    BY <1>2, <2>1 DEF WellFormed
<1>5. CASE q = <<Store(x), Send(p)>> \o <<Send("Shutdown")>>
  <2>1. q \in Seq(Steps) /\ q # <<>> /\ Len(q) = 3 /\ q[1] = Store(x) /\ q[2] = Send(p)
        /\ q[3] = Send("Shutdown")
    BY <1>5
  <2> QED
    BY <1>2, <2>1 DEF WellFormed
<1> QED
  BY <1>1, <1>2, <1>3, <1>4, <1>5

\* A writer that has performed its first step.
LEMMA TailWellFormed ==
  ASSUME NEW q \in Seq(Steps), q # <<>>, WellFormed(q)
  PROVE  /\ Head(q) = q[1] /\ q[1] \in Steps
         /\ Tail(q) \in Seq(Steps) /\ WellFormed(Tail(q))
         /\ \A i \in DOMAIN Tail(q) : i + 1 \in DOMAIN q /\ Tail(q)[i] = q[i + 1]
         /\ q[1].op = "store" => /\ q[1].what \in Statuses /\ Announces(Tail(q))
                                 /\ Tail(q)[1].what = PublicStatus(q[1].what)
         /\ q[1].op # "store" => ~Announces(Tail(q))
<1>1. /\ Head(q) = q[1] /\ q[1] \in Steps /\ Tail(q) \in Seq(Steps) /\ 1 \in DOMAIN q
      /\ \A i \in DOMAIN Tail(q) : i + 1 \in DOMAIN q /\ Tail(q)[i] = q[i + 1] /\ i # 0
      /\ Len(q) > 1 => Tail(q) # <<>>
      /\ Tail(q) # <<>> => 1 \in DOMAIN Tail(q)
  OBVIOUS
<1>2. \A i \in DOMAIN Tail(q) : Tail(q)[i].op # "store"
  BY <1>1 DEF WellFormed
<1>3. WellFormed(Tail(q))
  <2>1. ASSUME NEW i \in DOMAIN Tail(q), Tail(q)[i].op = "send", Tail(q)[i].what \in Public
        PROVE  i = 1
    BY <1>1, <2>1 DEF WellFormed
  <2>2. ASSUME NEW i \in DOMAIN Tail(q), Tail(q)[i].op = "send"
        PROVE  Tail(q)[i].what \in Sendable
    BY <1>1, <2>2 DEF WellFormed
  <2> QED
    BY <1>2, <2>1, <2>2 DEF WellFormed
<1>4. ASSUME q[1].op = "store"
      PROVE  /\ q[1].what \in Statuses /\ Announces(Tail(q))
             /\ Tail(q)[1].what = PublicStatus(q[1].what)
  <2>1. q[1].what \in Statuses /\ Len(q) > 1 /\ q[2] = Send(PublicStatus(q[1].what))
    BY <1>1, <1>4 DEF WellFormed
  <2>2. Tail(q)[1] = q[2] /\ Tail(q) # <<>>
    BY <1>1, <2>1
  <2> QED
    BY <2>1, <2>2, PublicStatusType DEF Announces, Send
<1>5. ASSUME q[1].op # "store", Announces(Tail(q))
      PROVE  FALSE
  <2>1. 1 \in DOMAIN Tail(q) /\ Tail(q)[1] = q[2] /\ 2 \in DOMAIN q
        /\ Tail(q)[1].op = "send" /\ Tail(q)[1].what \in Public
    BY <1>1, <1>5 DEF Announces
  <2> QED
    BY <1>5, <2>1 DEF WellFormed
<1> QED
  BY <1>1, <1>3, <1>4, <1>5

-----------------------------------------------------------------------------
(* The steps of the writers.                                                *)

\* The types in three parts.
HistoryTypes == status \in Statuses /\ sent \in Seq(Sendable) /\ todo \in [Writers -> Seq(Steps)]

TaskTypes ==
  /\ phase \in {"gone", "ready", "attempting", "serving", "lost"}
  /\ dropped \in BOOLEAN /\ overlap \in BOOLEAN

StreamTypes ==
  /\ stream \in [Streams -> [at : {"none", "checked", "open", "ended"},
                             next : Nat \ {0}, lagged : BOOLEAN]]
  /\ belief \in [Streams -> {"unknown", "Connecting", "Connected", "Disconnected"}]

Cursors == \A s \in Streams : stream[s].next <= Len(sent) + 1

LEMMA TypeParts == TypeOK <=> HistoryTypes /\ TaskTypes /\ StreamTypes /\ Cursors
BY Zenon DEF TypeOK, HistoryTypes, TaskTypes, StreamTypes, Cursors, Steps

LEMMA PrimedParts == (TypeOK <=> HistoryTypes /\ TaskTypes /\ StreamTypes /\ Cursors)'
BY TypeParts, PTL

\* Another notification than a status tells nothing new.
LEMMA OtherNotification ==
  ASSUME HistoryTypes, StreamTypes, Cursors, LastIsStatus, Informed,
         NEW e \in Sendable, e \notin Public,
         sent' = Append(sent, e), UNCHANGED <<status, stream, belief>>, Settled' => Settled
  PROVE  LastIsStatus' /\ Informed' /\ Cursors'
<1>1. /\ sent \in Seq(Sendable) /\ Len(sent') = Len(sent) + 1 /\ sent'[Len(sent) + 1] = e
      /\ \A i \in DOMAIN sent : i \in DOMAIN sent' /\ sent'[i] = sent[i]
      /\ \A i \in DOMAIN sent' : i \in DOMAIN sent \/ i = Len(sent) + 1
  BY DEF HistoryTypes
<1>2. \A n : QuietFrom(n)' => QuietFrom(n)
  BY <1>1, Zenon DEF QuietFrom
<1>3. LastIsStatus'
  <2>1. ASSUME Settled', NEW i \in DOMAIN sent', sent'[i] \in Public, QuietFrom(i + 1)'
        PROVE  sent'[i] = PublicStatus(status')
    <3>1. i \in DOMAIN sent /\ sent[i] = sent'[i]
      BY <1>1, <2>1
    <3> QED
      BY <1>2, <2>1, <3>1, Zenon DEF LastIsStatus
  <2> QED
    BY <2>1, Zenon DEF LastIsStatus
<1>4. Informed'
  BY <1>2, Zenon DEF Informed
<1>5. Cursors'
  <2>1. \A s \in Streams : stream[s].next \in Nat
    BY DEF StreamTypes
  <2> QED
    BY <1>1, <2>1 DEF Cursors
<1> QED
  BY <1>3, <1>4, <1>5

\* The broadcast of the status that is stored.
LEMMA StatusNotification ==
  ASSUME HistoryTypes, StreamTypes, Cursors, sent' = Append(sent, PublicStatus(status)),
         UNCHANGED <<status, stream, belief>>
  PROVE  LastIsStatus' /\ Informed' /\ Cursors'
<1> DEFINE last == Len(sent) + 1
<1>1. /\ sent \in Seq(Sendable) /\ Len(sent') = last /\ sent'[last] = PublicStatus(status)
      /\ last \in DOMAIN sent' /\ \A i \in DOMAIN sent' : i \in Nat /\ i <= last
      /\ last \in Nat
  BY DEF HistoryTypes
<1>2. sent'[last] \in Public
  BY <1>1, PublicStatusType
<1> HIDE DEF last
<1>3. \A n : QuietFrom(n)' => ~ (last >= n)
  BY <1>1, <1>2, Zenon DEF QuietFrom
<1>4. LastIsStatus'
  <2>1. ASSUME NEW i \in DOMAIN sent', QuietFrom(i + 1)'
        PROVE  i = last
    BY <1>1, <1>3, <2>1
  <2> QED
    BY <1>1, <2>1, Zenon DEF LastIsStatus
<1>5. \A s \in Streams : stream[s].next \in Nat /\ last >= stream[s].next
  BY <1>1 DEF StreamTypes, Cursors, last
<1>6. Informed'
  BY <1>3, <1>5, Zenon DEF Informed
<1>7. Cursors'
  BY <1>1, <1>5 DEF Cursors
<1> QED
  BY <1>4, <1>6, <1>7

\* The rest of the invariant.
WritersInv == \A w \in Writers : WellFormed(todo[w])
SettingInv == ~overlap => Serial /\ Announced /\ LastIsStatus /\ Informed

LEMMA InvParts ==
  IInv <=> HistoryTypes /\ TaskTypes /\ StreamTypes /\ Cursors /\ AsksLater /\ WritersInv /\ SettingInv
BY TypeParts, Zenon DEF IInv, WritersInv, SettingInv

LEMMA PrimedInv ==
  (IInv <=> HistoryTypes /\ TaskTypes /\ StreamTypes /\ Cursors /\ AsksLater /\ WritersInv /\ SettingInv)'
BY InvParts, PTL

\* A step of a writer keeps the invariant.
LEMMA StepKeeps ==
  ASSUME IInv, NEW w \in Writers, Step(w)
  PROVE  IInv'
<1> DEFINE q == todo[w]
<1>1. HistoryTypes /\ TaskTypes /\ StreamTypes /\ Cursors /\ AsksLater /\ WritersInv /\ SettingInv
  BY InvParts
<1>2. q \in Seq(Steps) /\ q # <<>> /\ WellFormed(q)
  BY <1>1 DEF HistoryTypes, WritersInv, Step
<1>3. /\ Head(q) = q[1] /\ q[1] \in Steps /\ 1 \in DOMAIN q
      /\ Tail(q) \in Seq(Steps) /\ WellFormed(Tail(q))
      /\ \A i \in DOMAIN Tail(q) : i + 1 \in DOMAIN q /\ Tail(q)[i] = q[i + 1]
      /\ q[1].op = "store" => /\ q[1].what \in Statuses /\ Announces(Tail(q))
                              /\ Tail(q)[1].what = PublicStatus(q[1].what)
      /\ q[1].op # "store" => ~Announces(Tail(q))
      /\ q[1].op = "send" => q[1].what \in Sendable
  <2>1. 1 \in DOMAIN q
    BY <1>2
  <2>2. q[1].op = "send" => q[1].what \in Sendable
    BY <1>2, <2>1 DEF WellFormed
  <2> QED
    BY <1>2, <2>1, <2>2, TailWellFormed
<1>4. /\ todo' = [todo EXCEPT ![w] = Tail(q)]
      /\ status' = IF q[1].op = "store" THEN q[1].what ELSE status
      /\ sent' = IF q[1].op = "send" THEN Append(sent, q[1].what) ELSE sent
      /\ phase' = IF q[1].op = "spawn" /\ phase = "gone" THEN "ready" ELSE phase
      /\ UNCHANGED <<dropped, stream, belief, overlap>>
  BY <1>3, Zenon DEF Step
<1>5. /\ todo \in [Writers -> Seq(Steps)] /\ todo' \in [Writers -> Seq(Steps)]
      /\ todo'[w] = Tail(q) /\ \A v \in Writers \ {w} : todo'[v] = todo[v]
  BY <1>1, <1>3, <1>4 DEF HistoryTypes
<1> HIDE DEF q
<1>6. HistoryTypes'
  BY <1>1, <1>3, <1>4, <1>5 DEF HistoryTypes
<1>7. TaskTypes' /\ StreamTypes' /\ AsksLater'
  BY <1>1, <1>4, Zenon DEF TaskTypes, StreamTypes, AsksLater
<1>8. WritersInv'
  BY <1>1, <1>3, <1>5, Zenon DEF WritersInv
<1>9. Serial => Serial'
  <2>1. \A v \in Writers : Writing(v)' => Writing(v)
    <3>1. ASSUME Writing(w)'
          PROVE  Writing(w)
      <4>1. PICK i \in DOMAIN Tail(q) : Tail(q)[i].op # "spawn"
        BY <1>5, <3>1, Zenon DEF Writing
      <4>2. i + 1 \in DOMAIN q /\ q[i + 1].op # "spawn"
        BY <1>3, <4>1, Zenon
      <4> QED
        BY <4>2, Zenon DEF Writing, q
    <3> QED
      BY <1>5, <3>1, Zenon DEF Writing
  <2> QED
    BY <2>1, Zenon DEF Serial
<1>10. ASSUME NEW v \in Writers \ {w}, Announces(todo'[v])
       PROVE  Announces(todo[v]) /\ Writing(v)
  <2>1. Announces(todo[v])
    BY <1>5, <1>10, Zenon
  <2>2. todo[v] \in Seq(Steps) /\ todo[v] # <<>> /\ todo[v][1].op = "send"
    BY <1>5, <2>1, Zenon DEF Announces
  <2>3. 1 \in DOMAIN todo[v]
    BY <2>2
  <2>4. "send" # "spawn"
    OBVIOUS
  <2> QED
    BY <2>1, <2>2, <2>3, <2>4, Zenon DEF Writing
<1>11. q[1].op \in {"store", "send"} => Writing(w)
  BY <1>3, Zenon DEF Writing, q
<1>12. CASE q[1].op = "store"
  <2>1. Announces(todo'[w]) /\ todo'[w][1].what = PublicStatus(status')
    BY <1>3, <1>4, <1>5, <1>12, Zenon
  <2>2. sent' = sent
    BY <1>4, <1>12
  <2>3. Cursors'
    BY <1>1, <1>4, <2>2, Zenon DEF Cursors
  <2>4. ~Settled'
    BY <2>1, Zenon DEF Settled
  <2>5. Serial => Announced'
    BY <1>10, <1>11, <1>12, <2>1, Zenon DEF Announced, Serial
  <2>6. SettingInv'
    BY <1>1, <1>4, <1>9, <2>4, <2>5, Zenon DEF SettingInv, LastIsStatus, Informed
  <2> QED
    BY <1>1, <1>6, <1>7, <1>8, <2>3, <2>6, PrimedInv, Zenon
<1>13. CASE q[1].op # "store"
  <2>1. status' = status /\ ~Announces(todo'[w])
    BY <1>3, <1>4, <1>5, <1>13, Zenon
  <2>2. Announced => Announced'
    BY <1>5, <1>10, <2>1, Zenon DEF Announced
  <2>3. ~Announces(q) => (Settled' => Settled)
    BY <1>5, <2>1, Zenon DEF Settled, q
  <2>4. CASE q[1].op = "send" /\ q[1].what \in Public
    <3>1. Announces(q)
      BY <1>2, <2>4, Zenon DEF Announces
    <3>2. Announced => q[1].what = PublicStatus(status)
      BY <3>1, Zenon DEF Announced, q
    <3>3. sent' = Append(sent, q[1].what)
      BY <1>4, <2>4
    <3>4. Announced => LastIsStatus' /\ Informed'
      BY <1>1, <1>4, <2>1, <3>2, <3>3, StatusNotification, Zenon
    <3>5. Cursors'
      BY <1>1, <1>4, <1>6, <3>3 DEF Cursors, HistoryTypes, StreamTypes
    <3>6. SettingInv'
      BY <1>1, <1>4, <1>9, <2>2, <3>4, Zenon DEF SettingInv
    <3> QED
      BY <1>1, <1>6, <1>7, <1>8, <3>5, <3>6, PrimedInv, Zenon
  <2>5. CASE q[1].op = "send" /\ q[1].what \notin Public
    <3>1. ~Announces(q)
      BY <2>5, Zenon DEF Announces
    <3>2. sent' = Append(sent, q[1].what) /\ q[1].what \in Sendable
      BY <1>3, <1>4, <2>5
    <3>3. LastIsStatus /\ Informed => LastIsStatus' /\ Informed'
      BY <1>1, <1>4, <2>1, <2>3, <2>5, <3>1, <3>2, OtherNotification, Zenon
    <3>4. Cursors'
      BY <1>1, <1>4, <1>6, <3>2 DEF Cursors, HistoryTypes, StreamTypes
    <3>5. SettingInv'
      BY <1>1, <1>4, <1>9, <2>2, <3>3, Zenon DEF SettingInv
    <3> QED
      BY <1>1, <1>6, <1>7, <1>8, <3>4, <3>5, PrimedInv, Zenon
  <2>6. CASE q[1].op # "send"
    <3>1. sent' = sent /\ ~Announces(q)
      BY <1>4, <2>6, Zenon DEF Announces
    <3>2. Cursors' /\ (LastIsStatus /\ Informed => LastIsStatus' /\ Informed')
      BY <1>1, <1>4, <2>1, <2>3, <3>1, Zenon DEF Cursors, LastIsStatus, Informed, QuietFrom
    <3>3. SettingInv'
      BY <1>1, <1>4, <1>9, <2>2, <3>2, Zenon DEF SettingInv
    <3> QED
      BY <1>1, <1>6, <1>7, <1>8, <3>2, <3>3, PrimedInv, Zenon
  <2> QED
    BY <2>4, <2>5, <2>6
<1> QED
  BY <1>12, <1>13

\* A writer that begins finds no other one inside set_status(), or it overlaps.
LEMMA BeginsKeeps ==
  ASSUME IInv, NEW w \in Writers, NEW q, BeginsWith(q), Begins(w, q),
         UNCHANGED <<status, sent, stream, belief>>,
         phase' \in {"gone", "ready", "attempting", "serving", "lost"}, dropped' \in BOOLEAN
  PROVE  IInv'
<1>1. HistoryTypes /\ TaskTypes /\ StreamTypes /\ Cursors /\ AsksLater /\ WritersInv /\ SettingInv
  BY InvParts
<1>2. q \in Seq(Steps) /\ WellFormed(q) /\ q[1].op = "store" /\ q # <<>> /\ ~Announces(q)
  <2>1. "store" # "send"
    OBVIOUS
  <2> QED
    BY <2>1, BeginsWellFormed, Zenon DEF Announces
<1>3. /\ todo[w] = <<>> /\ todo' = [todo EXCEPT ![w] = q]
      /\ overlap' = (overlap \/ \E v \in Writers \ {w} : Writing(v))
  BY Zenon DEF Begins
<1>4. /\ todo' \in [Writers -> Seq(Steps)]
      /\ todo'[w] = q /\ \A v \in Writers \ {w} : todo'[v] = todo[v]
  BY <1>1, <1>2, <1>3 DEF HistoryTypes
<1>5. HistoryTypes' /\ WritersInv'
  <2>1. WritersInv'
    BY <1>1, <1>2, <1>4, Zenon DEF WritersInv
  <2> QED
    BY <1>1, <1>4, <2>1, Zenon DEF HistoryTypes
<1>6. StreamTypes' /\ Cursors' /\ AsksLater'
  BY <1>1, Zenon DEF StreamTypes, Cursors, AsksLater
<1>7. TaskTypes'
  <2>1. overlap' \in BOOLEAN
    BY <1>3, Zenon
  <2> QED
    BY <2>1, Zenon DEF TaskTypes
<1>8. ASSUME ~overlap'
      PROVE  Serial' /\ Announced' /\ LastIsStatus' /\ Informed'
  <2>1. ~overlap /\ \A v \in Writers \ {w} : ~Writing(v)
    BY <1>3, <1>8, Zenon
  <2>2. \A v \in Writers \ {w} : ~Writing(v)'
    BY <1>4, <2>1, Zenon DEF Writing
  <2>3. Serial'
    BY <2>2, Zenon DEF Serial
  <2>4. Announced'
    BY <1>1, <1>2, <1>4, <2>1, Zenon DEF SettingInv, Announced
  <2>5. ~Announces(todo[w])
    BY <1>3, Zenon DEF Announces
  <2>6. Settled' => Settled
    BY <1>4, <2>5, Zenon DEF Settled
  <2> QED
    BY <1>1, <2>1, <2>3, <2>4, <2>6, Zenon DEF SettingInv, LastIsStatus, Informed, QuietFrom
<1>9. SettingInv'
  BY <1>8, Zenon DEF SettingInv
<1> QED
  BY <1>5, <1>6, <1>7, <1>9, PrimedInv, Zenon

LEMMA SetStatusBegins ==
  ASSUME NEW x \in Statuses
  PROVE  /\ BeginsWith(SetStatus(x)) /\ BeginsWith(SetStatus(x) \o <<Spawn>>)
         /\ BeginsWith(SetStatus(x) \o <<Send("Shutdown")>>)
BY Zenon DEF BeginsWith

LEMMA ShutdownBegins == BeginsWith(ShutdownSteps)
<1>1. "Shutdown" \in Statuses
  BY DEF Statuses
<1> QED
  BY <1>1, SetStatusBegins, Zenon DEF ShutdownSteps

\* Neither a writer's step nor a stream's.
LEMMA QuietKeeps ==
  ASSUME IInv, UNCHANGED <<status, sent, todo, stream, belief, overlap>>,
         phase' \in {"gone", "ready", "attempting", "serving", "lost"}, dropped' \in BOOLEAN
  PROVE  IInv'
<1>1. HistoryTypes /\ TaskTypes /\ StreamTypes /\ Cursors /\ AsksLater /\ WritersInv /\ SettingInv
  BY InvParts
<1>2. HistoryTypes' /\ StreamTypes' /\ Cursors' /\ AsksLater' /\ WritersInv'
  BY <1>1, Zenon DEF HistoryTypes, StreamTypes, Cursors, AsksLater, WritersInv
<1>3. TaskTypes'
  BY <1>1, Zenon DEF TaskTypes
<1>4. SettingInv'
  BY <1>1, Zenon DEF SettingInv, Serial, Writing, Announced, LastIsStatus, Informed, Settled,
     QuietFrom
<1> QED
  BY <1>2, <1>3, <1>4, PrimedInv, Zenon

\* The calls of the application.
LEMMA CallKeeps ==
  ASSUME IInv, NEW c \in Callers, Call(c)
  PROVE  IInv'
<1>1. c \in Writers /\ TaskTypes
  BY InvParts, Zenon DEF Writers
<1>2. "Pending" \in Statuses /\ "Terminated" \in Statuses
  BY DEF Statuses
<1>3. CASE Connect(c)
  BY <1>1, <1>2, <1>3, SetStatusBegins, BeginsKeeps, Zenon DEF Connect, TaskTypes
<1>4. CASE Disconnect(c)
  BY <1>1, <1>2, <1>4, SetStatusBegins, BeginsKeeps, Zenon DEF Disconnect, TaskTypes
<1>5. CASE Shutdown(c)
  BY <1>1, <1>5, ShutdownBegins, BeginsKeeps, Zenon DEF Shutdown, TaskTypes
<1>6. CASE Drop(c)
  BY <1>1, <1>6, ShutdownBegins, BeginsKeeps, QuietKeeps, Zenon DEF Drop, TaskTypes
<1> QED
  BY <1>3, <1>4, <1>5, <1>6, Zenon DEF Call

\* The connection task.
LEMMA TaskKeeps ==
  ASSUME IInv, TaskSets \/ TaskGoesOn
  PROVE  IInv'
<1>1. Task \in Writers /\ TaskTypes
  BY InvParts, Zenon DEF Writers
<1>2. CASE TaskSets
  <2>1. PICK m \in TaskWrites : Begins(Task, SetStatus(m[2])) /\ phase' = m[3]
    BY <1>2, Zenon DEF TaskSets
  <2>2. m[2] \in Statuses /\ m[3] \in {"gone", "ready", "attempting", "serving", "lost"}
    BY DEF TaskWrites, Statuses
  <2>3. UNCHANGED <<status, sent, stream, belief>> /\ dropped' = dropped
    BY <1>2, Zenon DEF TaskSets
  <2> QED
    BY <1>1, <2>1, <2>2, <2>3, SetStatusBegins, BeginsKeeps, Zenon DEF TaskTypes
<1>3. CASE TaskGoesOn
  <2>1. PICK m \in TaskSilently : phase' = m[2]
    BY <1>3, Zenon DEF TaskGoesOn
  <2>2. m[2] \in {"gone", "ready", "attempting", "serving", "lost"}
    BY DEF TaskSilently
  <2>3. UNCHANGED <<status, sent, todo, stream, belief, overlap>> /\ dropped' = dropped
    BY <1>3, Zenon DEF TaskGoesOn
  <2> QED
    BY <1>1, <2>1, <2>2, <2>3, QuietKeeps, Zenon DEF TaskTypes
<1> QED
  BY <1>2, <1>3

LEMMA EventKeeps ==
  ASSUME IInv, ServerEvent
  PROVE  IInv'
<1>1. HistoryTypes /\ TaskTypes /\ StreamTypes /\ Cursors /\ AsksLater /\ WritersInv /\ SettingInv
  BY InvParts
<1>2. sent' = Append(sent, "Event") /\ UNCHANGED <<status, todo, phase, dropped, stream, belief, overlap>>
  BY Zenon DEF ServerEvent
<1>3. "Event" \in Sendable /\ "Event" \notin Public
  BY DEF Sendable, Public
<1>4. HistoryTypes'
  BY <1>1, <1>2, <1>3 DEF HistoryTypes
<1>5. TaskTypes' /\ StreamTypes' /\ AsksLater' /\ WritersInv'
  BY <1>1, <1>2, Zenon DEF TaskTypes, StreamTypes, AsksLater, WritersInv
<1>6. Cursors'
  BY <1>1, <1>2, <1>4 DEF Cursors, HistoryTypes, StreamTypes
<1>7. /\ Settled' => Settled
      /\ Serial => Serial'
      /\ Announced => Announced'
  BY <1>2, Zenon DEF Settled, Serial, Writing, Announced
<1>8. LastIsStatus /\ Informed => LastIsStatus' /\ Informed'
  BY <1>1, <1>2, <1>3, <1>7, OtherNotification, Zenon
<1>9. SettingInv'
  BY <1>1, <1>2, <1>7, <1>8, Zenon DEF SettingInv
<1> QED
  BY <1>4, <1>5, <1>6, <1>9, PrimedInv, Zenon

-----------------------------------------------------------------------------
(* The steps of the streams.                                                *)

\* Only s moves; what holds of it afterwards is enough.
LEMMA StreamKeeps ==
  ASSUME IInv, NEW s \in Streams, StreamTypes',
         UNCHANGED <<status, sent, todo, phase, dropped, overlap>>,
         \A t \in Streams \ {s} : stream'[t] = stream[t] /\ belief'[t] = belief[t],
         stream'[s].next <= Len(sent) + 1,
         stream'[s].at \in {"none", "checked"} => belief'[s] = "unknown",
         /\ Settled /\ LastIsStatus /\ Informed
         /\ stream'[s].at = "open" /\ ~stream'[s].lagged /\ belief'[s] # "unknown"
         /\ QuietFrom(stream[s].next)'
         => belief'[s] = PublicStatus(status)
  PROVE  IInv'
<1>1. HistoryTypes /\ TaskTypes /\ StreamTypes /\ Cursors /\ AsksLater /\ WritersInv /\ SettingInv
  BY InvParts
<1>2. HistoryTypes' /\ TaskTypes' /\ WritersInv'
  BY <1>1, Zenon DEF HistoryTypes, TaskTypes, WritersInv
<1>3. Cursors' /\ AsksLater'
  BY <1>1, Zenon DEF Cursors, AsksLater
<1>4. status' = status /\ todo' = todo /\ sent' = sent /\ overlap' = overlap
  OBVIOUS
<1>5. (Settled' <=> Settled) /\ \A n : QuietFrom(n)' <=> QuietFrom(n)
  BY <1>4, Zenon DEF Settled, QuietFrom
<1>6. ASSUME LastIsStatus, Informed
      PROVE  Informed'
  <2>1. ASSUME Settled', NEW t \in Streams, stream'[t].at = "open", ~stream'[t].lagged,
               belief'[t] # "unknown", QuietFrom(stream[t].next)'
        PROVE  belief'[t] = PublicStatus(status')
    <3>1. CASE t = s
      BY <1>4, <1>5, <1>6, <2>1, <3>1, Zenon
    <3>2. CASE t # s
      BY <1>4, <1>5, <1>6, <2>1, <3>2, Zenon DEF Informed
    <3> QED
      BY <3>1, <3>2
  <2> QED
    BY <2>1, Zenon DEF Informed
<1>7. Serial => Serial'
  <2>1. \A v \in Writers : Writing(v)' <=> Writing(v)
    BY <1>4 DEF Writing
  <2> QED
    BY <2>1, Zenon DEF Serial
<1>8. Announced => Announced'
  BY <1>4, Zenon DEF Announced
<1>9. LastIsStatus => LastIsStatus'
  BY <1>4, <1>5, Zenon DEF LastIsStatus
<1>10. SettingInv'
  <2>1. overlap' <=> overlap
    BY <1>4
  <2> QED
    BY <1>1, <1>6, <1>7, <1>8, <1>9, <2>1, Zenon DEF SettingInv
<1> QED
  BY <1>2, <1>3, <1>10, PrimedInv, Zenon

\* What a stream may do to itself.
StreamSteps(s) ==
  Check(s) \/ Subscribe(s) \/ ReadStatus(s) \/ Receive(s) \/ Lag(s) \/ Closed(s)

LEMMA StreamStepsKeep ==
  ASSUME IInv, NEW s \in Streams, StreamSteps(s)
  PROVE  IInv'
<1>1. HistoryTypes /\ TaskTypes /\ StreamTypes /\ Cursors /\ AsksLater /\ WritersInv /\ SettingInv
  BY InvParts
<1>2. /\ stream[s].next \in Nat \ {0} /\ stream[s].next <= Len(sent) + 1
      /\ sent \in Seq(Sendable) /\ Len(sent) \in Nat
  BY <1>1 DEF StreamTypes, Cursors, HistoryTypes
<1>3. /\ stream[s].at \in {"none", "checked"} => belief[s] = "unknown"
      /\ /\ Settled /\ Informed /\ stream[s].at = "open" /\ ~stream[s].lagged
         /\ belief[s] # "unknown" /\ QuietFrom(stream[s].next)
         => belief[s] = PublicStatus(status)
  BY <1>1, Zenon DEF AsksLater, Informed
<1>4. CASE Check(s)
  <2>1. PICK at \in {"checked", "ended"} : stream' = [stream EXCEPT ![s].at = at]
    BY <1>4, Zenon DEF Check
  <2>2. belief' = belief /\ stream[s].at = "none"
        /\ UNCHANGED <<status, sent, todo, phase, dropped, overlap>>
    BY <1>4, Zenon DEF Check
  <2>3. StreamTypes' /\ stream'[s].at = at /\ stream'[s].next = stream[s].next
        /\ \A t \in Streams \ {s} : stream'[t] = stream[t]
    BY <1>1, <2>1, <2>2 DEF StreamTypes
  <2> QED
    BY <1>2, <1>3, <2>2, <2>3, StreamKeeps
<1>5. CASE Subscribe(s)
  <2>1. belief' = belief /\ stream[s].at = "checked"
        /\ UNCHANGED <<status, sent, todo, phase, dropped, overlap>>
    BY <1>5, Zenon DEF Subscribe
  <2>2. StreamTypes' /\ stream'[s].at = "open" /\ stream'[s].next = Len(sent) + 1
        /\ \A t \in Streams \ {s} : stream'[t] = stream[t]
    <3> DEFINE mid == [stream EXCEPT ![s].at = "open"]
    <3>1. stream' = [mid EXCEPT ![s].next = Len(sent) + 1]
      BY <1>5, Zenon DEF Subscribe
    <3>2. /\ mid \in [Streams -> [at : {"none", "checked", "open", "ended"},
                                  next : Nat \ {0}, lagged : BOOLEAN]]
          /\ mid[s].at = "open" /\ \A t \in Streams \ {s} : mid[t] = stream[t]
      BY <1>1 DEF StreamTypes
    <3> HIDE DEF mid
    <3>3. stream' \in [Streams -> [at : {"none", "checked", "open", "ended"},
                                   next : Nat \ {0}, lagged : BOOLEAN]]
      BY <1>2, <3>1, <3>2
    <3>4. stream'[s].at = "open" /\ stream'[s].next = Len(sent) + 1
          /\ \A t \in Streams \ {s} : stream'[t] = stream[t]
      BY <3>1, <3>2
    <3> QED
      BY <1>1, <2>1, <3>3, <3>4, Zenon DEF StreamTypes
  <2> QED
    BY <1>2, <1>3, <2>1, <2>2, StreamKeeps
<1>6. CASE ReadStatus(s)
  <2>1. stream' = stream /\ stream[s].at = "open"
        /\ UNCHANGED <<status, sent, todo, phase, dropped, overlap>>
    BY <1>6, Zenon DEF ReadStatus
  <2>2. PublicStatus(status) \in Public
    BY PublicStatusType
  <2>3. StreamTypes' /\ belief'[s] = PublicStatus(status)
        /\ \A t \in Streams \ {s} : belief'[t] = belief[t]
    BY <1>1, <1>6, <2>1, <2>2 DEF StreamTypes, ReadStatus, Public
  <2> QED
    BY <1>2, <2>1, <2>3, StreamKeeps
<1>7. CASE Receive(s)
  <2> DEFINE n == sent[stream[s].next]
             knows == IF n \in {"Event", "Shutdown"} THEN belief[s] ELSE n
  <2>1. stream[s].next \in DOMAIN sent /\ n \in Sendable /\ stream[s].at = "open"
        /\ UNCHANGED <<status, sent, todo, phase, dropped, overlap>>
    BY <1>2, <1>7 DEF Receive
  <2>2. /\ stream' \in [Streams -> [at : {"none", "checked", "open", "ended"},
                                    next : Nat \ {0}, lagged : BOOLEAN]]
        /\ stream'[s].at \in {"open", "ended"} /\ stream'[s].next = stream[s].next + 1
        /\ stream'[s].lagged = stream[s].lagged
        /\ \A t \in Streams \ {s} : stream'[t] = stream[t]
    <3>1. PICK at \in {"open", "ended"} :
            stream' = [stream EXCEPT ![s].next = @ + 1, ![s].at = at]
      BY <1>7, Zenon DEF Receive
    <3> DEFINE mid == [stream EXCEPT ![s].next = @ + 1]
    <3>2. stream' = [mid EXCEPT ![s].at = at]
      BY <3>1, Zenon
    <3>3. /\ mid \in [Streams -> [at : {"none", "checked", "open", "ended"},
                                  next : Nat \ {0}, lagged : BOOLEAN]]
          /\ mid[s].lagged = stream[s].lagged /\ mid[s].next = stream[s].next + 1
          /\ \A t \in Streams \ {s} : mid[t] = stream[t]
      <4>1. stream[s].next + 1 \in Nat \ {0}
        BY <1>2
      <4>2. mid \in [Streams -> [at : {"none", "checked", "open", "ended"},
                                 next : Nat \ {0}, lagged : BOOLEAN]]
        BY <1>1, <4>1 DEF StreamTypes
      <4>3. /\ mid[s].lagged = stream[s].lagged /\ mid[s].next = stream[s].next + 1
            /\ \A t \in Streams \ {s} : mid[t] = stream[t]
        BY <1>1 DEF StreamTypes
      <4> QED
        BY <4>2, <4>3
    <3> HIDE DEF mid
    <3> QED
      BY <3>2, <3>3
  <2>3. /\ belief' \in [Streams -> {"unknown", "Connecting", "Connected", "Disconnected"}]
        /\ belief'[s] = knows /\ \A t \in Streams \ {s} : belief'[t] = belief[t]
    BY <1>1, <1>7, <2>1 DEF StreamTypes, Receive, Sendable
  <2>4. ASSUME Settled, LastIsStatus, Informed, ~stream[s].lagged, knows # "unknown",
               QuietFrom(stream[s].next + 1)
        PROVE  knows = PublicStatus(status)
    <3>1. CASE n \in Public
      <4>1. knows = n
        BY <3>1 DEF Public
      <4>2. n = PublicStatus(status)
        BY <2>1, <2>4, <3>1, Zenon DEF LastIsStatus
      <4> QED
        BY <4>1, <4>2
    <3>2. CASE n \notin Public
      <4>1. knows = belief[s]
        BY <2>1, <3>2 DEF Public, Sendable
      <4>2. QuietFrom(stream[s].next)
        <5>1. \A i \in DOMAIN sent :
                i >= stream[s].next => i >= stream[s].next + 1 \/ i = stream[s].next
          BY <1>2
        <5> QED
          BY <2>4, <3>2, <5>1, Zenon DEF QuietFrom
      <4> QED
        BY <1>3, <2>1, <2>4, <4>1, <4>2, Zenon
    <3> QED
      BY <3>1, <3>2
  <2> HIDE DEF n, knows
  <2>5. QuietFrom(stream[s].next)' => QuietFrom(stream[s].next + 1)
    BY <2>1, <2>2, Zenon DEF QuietFrom
  <2>6. StreamTypes' /\ stream'[s].next <= Len(sent) + 1
    BY <1>2, <2>1, <2>2, <2>3 DEF StreamTypes
  <2>7. stream'[s].at \notin {"none", "checked"}
    BY <2>2
  <2> QED
    BY <2>1, <2>2, <2>3, <2>4, <2>5, <2>6, <2>7, StreamKeeps, Zenon
<1>8. CASE Lag(s)
  <2>1. belief' = belief /\ stream[s].at = "open" /\ stream[s].next + Capacity <= Len(sent)
        /\ UNCHANGED <<status, sent, todo, phase, dropped, overlap>>
    BY <1>8, Zenon DEF Lag, Overrun
  <2>2. Len(sent) - Capacity + 1 \in Nat \ {0} /\ Len(sent) - Capacity + 1 <= Len(sent) + 1
    BY <1>2, <2>1, BoundsAssumption
  <2>3. StreamTypes' /\ stream'[s].at = "open" /\ stream'[s].next = Len(sent) - Capacity + 1
        /\ stream'[s].lagged = TRUE /\ \A t \in Streams \ {s} : stream'[t] = stream[t]
    BY <1>1, <1>8, <2>1, <2>2 DEF StreamTypes, Lag
  <2> QED
    BY <2>1, <2>2, <2>3, StreamKeeps
<1>9. CASE Closed(s)
  <2>1. belief' = belief /\ UNCHANGED <<status, sent, todo, phase, dropped, overlap>>
    BY <1>9, Zenon DEF Closed
  <2>2. StreamTypes' /\ stream'[s].at = "ended" /\ stream'[s].next = stream[s].next
        /\ \A t \in Streams \ {s} : stream'[t] = stream[t]
    BY <1>1, <1>9, <2>1 DEF StreamTypes, Closed
  <2> QED
    BY <1>2, <2>1, <2>2, StreamKeeps
<1> QED
  BY <1>4, <1>5, <1>6, <1>7, <1>8, <1>9, Zenon DEF StreamSteps

-----------------------------------------------------------------------------
(* The invariant, and the properties.                                       *)

LEMMA InitInvariant == Init => IInv
<1> SUFFICES ASSUME Init
             PROVE  IInv
  OBVIOUS
<1>1. \A w \in Writers : DOMAIN todo[w] = {} /\ ~Announces(todo[w])
  BY DEF Init, Announces
<1>2. DOMAIN sent = {}
  BY DEF Init
<1>3. \A s \in Streams : belief[s] = "unknown"
  BY DEF Init
<1>4. HistoryTypes
  BY DEF Init, HistoryTypes, Statuses
<1>5. TaskTypes
  BY Zenon DEF Init, TaskTypes
<1>6. StreamTypes
  BY DEF Init, StreamTypes
<1>7. Cursors
  BY DEF Init, Cursors
<1>8. AsksLater /\ WritersInv
  BY <1>1, <1>3, Zenon DEF AsksLater, WritersInv, WellFormed
<1>9. SettingInv
  BY <1>1, <1>2, <1>3, Zenon DEF SettingInv, Serial, Writing, Announced, LastIsStatus, Informed
<1> QED
  BY <1>4, <1>5, <1>6, <1>7, <1>8, <1>9, InvParts, Zenon

LEMMA NextInvariant == IInv /\ [Next]_vars => IInv'
<1> SUFFICES ASSUME IInv, [Next]_vars
             PROVE  IInv'
  OBVIOUS
<1>1. CASE Next
  BY <1>1, StepKeeps, CallKeeps, TaskKeeps, EventKeeps, StreamStepsKeep, Zenon
     DEF Next, Poll, StreamSteps
<1>2. CASE UNCHANGED vars
  <2>1. phase \in {"gone", "ready", "attempting", "serving", "lost"} /\ dropped \in BOOLEAN
    BY Zenon DEF IInv, TypeOK
  <2>2. UNCHANGED <<status, sent, todo, stream, belief, overlap>>
        /\ phase' = phase /\ dropped' = dropped
    BY <1>2, Zenon DEF vars
  <2> QED
    BY <2>1, <2>2, QuietKeeps, Zenon
<1> QED
  BY <1>1, <1>2, Zenon

\* The inductive invariant holds always.
THEOREM Invariant == Spec => []IInv
<1> QED
  BY InitInvariant, NextInvariant, PTL DEF Spec

\* Every variable keeps its type; a cursor never runs past what was sent.
THEOREM TypeCorrect == Spec => []TypeOK
<1>1. IInv => TypeOK
  BY DEF IInv
<1> QED
  BY <1>1, Invariant, PTL

\* Whoever reads the status after it has its stream, and then every
\* notification, knows the status that set_status() stored.
THEOREM FollowersAgree == Spec => []FollowerAgrees
<1>1. IInv => FollowerAgrees
  <2> SUFFICES ASSUME IInv, NEW s \in Streams,
                      stream[s].at = "open", stream[s].next = Len(sent) + 1, ~stream[s].lagged,
                      belief[s] # "unknown", ~overlap, \A w \in Writers : ~Writing(w)
               PROVE  belief[s] = PublicStatus(status)
    BY Zenon DEF FollowerAgrees
  <2>1. HistoryTypes /\ SettingInv
    BY InvParts
  <2>2. Settled
    <3>1. ASSUME NEW w \in Writers, Announces(todo[w])
          PROVE  FALSE
      <4>1. todo[w] \in Seq(Steps) /\ todo[w] # <<>> /\ todo[w][1].op = "send"
        BY <2>1, <3>1 DEF HistoryTypes, Announces
      <4>2. 1 \in DOMAIN todo[w] /\ todo[w][1].op # "spawn"
        BY <4>1
      <4> QED
        BY <4>2, Zenon DEF Writing
    <3> QED
      BY <3>1, Zenon DEF Settled
  <2>3. QuietFrom(stream[s].next)
    BY <2>1 DEF QuietFrom, HistoryTypes
  <2> QED
    BY <2>1, <2>2, <2>3, Zenon DEF SettingInv, Informed
<1> QED
  BY <1>1, Invariant, PTL

=============================================================================
