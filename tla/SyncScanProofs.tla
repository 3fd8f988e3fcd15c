--------------------------- MODULE SyncScanProofs ---------------------------
(***************************************************************************)
(* Theorems about what a quiet call of Sync finds, for any keychains, gap, *)
(* transactions and sizes of a batch: the loop invariants of               *)
(* populate_with_spks, and what the steps after it leave of its result;    *)
(* and that every call ends.                                               *)
(***************************************************************************)
EXTENDS SyncProofs, FiniteSetTheorems

-----------------------------------------------------------------------------
(* The invariants.                                                          *)

Scanning == stage \in {"Tip", "Spks"}
Looking == stage \in {"Txids", "TxidHistories", "Outpoints", "OutpointHistories"}
Ending == stage \in {"PrevTxouts", "Anchors", "Update", "Done"}

\* How many scripts of the list have been dealt with.
Position == scan.taken - Len(scan.batch)

\* The stages and the kinds of calls.
StageInv ==
  /\ Scanning <=> scan.lists # <<>>
  /\ stage = "Idle" => request.kind = "none"
  /\ stage # "Idle" => request.kind \in {"full_scan", "sync"}
  /\ Looking => request.kind = "sync"

\* The batch holds the next scripts of the list, with their histories of now.
BatchInv ==
  Scanning =>
    LET list == Head(scan.lists) IN
    /\ Len(scan.batch) <= scan.taken /\ scan.taken <= Len(list)
    /\ \A j \in 1 .. Len(scan.batch) :
         /\ scan.batch[j].index = Position + j
         /\ scan.batch[j].script = list[Position + j]
         /\ quiet => scan.batch[j].history = History(list[Position + j])

\* The transactions of the wallet that the server has lost, of some scripts.
LostTo(n) ==
  {t \in wallet.txs \ Present : \E i \in 1 .. n : AllScripts[i] \in Touches(t)}

\* The scan of a sync has one list and a gap that is never reached.
EvictInv ==
  quiet /\ request.kind = "sync" =>
    /\ Scanning =>
         /\ scan.lists = <<AllScripts>> /\ scan.gap = Len(AllScripts) + 1
         /\ scan.expected = [s \in Scripts |-> {t \in wallet.txs : s \in Touches(t)}]
         /\ scan.unused <= Position
         /\ found.evicted = LostTo(Position)
    /\ Looking \/ Ending => found.evicted = LostTo(Len(AllScripts))

\* An outpoint's transaction and the one that spends it.
Residing(o) == {o[1]} \cup {t \in Present : o \in Inputs[t]}

OutpointInv ==
  quiet /\ request.kind = "sync" /\ Ending =>
    \A o \in request.outpoints : o[1] \in Present => Residing(o) \subseteq found.txs

\* A quiet sync has skipped no outpoint whose transaction the server has.
SkipInv ==
  quiet /\ stage = "OutpointHistories" =>
    \A o \in request.outpoints : o[1] \in Present => o \in found.ops

\* The entries that a scan of the first n scripts of a list finds.
Entries(list, n) == UNION {History(list[i]) : i \in 1 .. n}

\* Where the gap ends a list.
LastActive(list) == Max({i \in Scanned(list) : Used(list, i)} \cup {0})
ListEntries(list) == UNION {History(list[i]) : i \in Scanned(list)}
EntriesUpTo(n) == UNION {ListEntries(Keychains[k]) : k \in 1 .. n}

\* The update has these entries and no others.
Finds(entries) ==
  /\ found.txs = Ids(entries)
  /\ found.pending = {e \in entries : e[2] > 0}
  /\ found.seen = Ids({e \in entries : e[2] <= 0})

\* The lists that are done, and those that are not.
DoneInv == \A k \in 1 .. Len(scan.active) : scan.active[k] = LastActive(Keychains[k])

RestInv ==
  /\ Len(scan.active) + Len(scan.lists) = Len(Keychains)
  /\ \A i \in 1 .. Len(scan.lists) : scan.lists[i] = Keychains[Len(scan.active) + i]

\* The gap of a list of which n scripts have been dealt with.
GapInv(list, n) ==
  /\ scan.gap = StopGap /\ scan.unused < StopGap /\ scan.last + scan.unused = n
  /\ scan.last # 0 => Used(list, scan.last)
  /\ \A i \in (scan.last + 1) .. n : ~Used(list, i)
  /\ \A i \in 1 .. n : ~GapEnds(list, i)

\* A full scan has found what is in the lists that are done, and in the present
\* one so far.
ScanInv ==
  quiet /\ request.kind = "full_scan" =>
    /\ DoneInv
    /\ Scanning =>
         /\ RestInv
         /\ GapInv(Head(scan.lists), Position)
         /\ Finds(EntriesUpTo(Len(scan.active)) \cup Entries(Head(scan.lists), Position))
    /\ Ending => Len(scan.active) = Len(Keychains) /\ Finds(EntriesUpTo(Len(Keychains)))

SyncInv == StageInv /\ BatchInv /\ EvictInv /\ OutpointInv /\ ScanInv

-----------------------------------------------------------------------------
(* What a step leaves alone.                                                *)

\* While the server does not change, neither do its histories nor what they say
\* of a list.
LEMMA HistoriesKept ==
  ASSUME UNCHANGED place
  PROVE  /\ Present' = Present
         /\ \A s : History(s)' = History(s)
<1>1. Present' = Present
  BY DEF Present
<1>2. ASSUME NEW s
      PROVE  History(s)' = History(s)
  <2>1. History(s)' = {<<t, place'[t]>> : t \in {u \in Present' : s \in Touches(u)}}
    BY Zenon DEF History
  <2>2. History(s)' = {<<t, place[t]>> : t \in {u \in Present : s \in Touches(u)}}
    BY <1>1, <2>1, Zenon
  <2> QED
    BY <2>2, Zenon DEF History
<1> QED
  BY <1>1, <1>2, Zenon

LEMMA ListsKept ==
  ASSUME UNCHANGED place
  PROVE  /\ \A list, i : Used(list, i)' = Used(list, i)
         /\ \A list, i : GapEnds(list, i)' = GapEnds(list, i)
         /\ \A list : LastActive(list)' = LastActive(list)
         /\ \A list, n : Entries(list, n)' = Entries(list, n)
         /\ \A n : EntriesUpTo(n)' = EntriesUpTo(n)
<1>1. \A s : History(s)' = History(s)
  BY HistoriesKept, Zenon
<1>2. \A list, i : Used(list, i)' = Used(list, i)
  BY <1>1, Zenon DEF Used
<1>3. \A list, i : GapEnds(list, i)' <=> GapEnds(list, i)
  BY <1>2, Zenon DEF GapEnds
<1>4. \A list : Scanned(list)' = Scanned(list)
  <2> TAKE list
  <2>1. Scanned(list)' = {i \in DOMAIN list : \A j \in 1..i : ~GapEnds(list, j)'}
    BY Zenon DEF Scanned
  <2>2. Scanned(list)' = {i \in DOMAIN list : \A j \in 1..i : ~GapEnds(list, j)}
    BY <1>3, <2>1
  <2> QED
    BY <2>2, Zenon DEF Scanned
<1>5. ASSUME NEW list
      PROVE  LastActive(list)' = LastActive(list) /\ ListEntries(list)' = ListEntries(list)
  <2>1. {i \in Scanned(list)' : Used(list, i)'} = {i \in Scanned(list) : Used(list, i)}
    BY <1>2, <1>4
  <2>2. LastActive(list)' = Max({i \in Scanned(list)' : Used(list, i)'} \cup {0})
    BY Zenon DEF LastActive
  <2>3. LastActive(list) = Max({i \in Scanned(list) : Used(list, i)} \cup {0})
    BY Zenon DEF LastActive
  <2>4. {History(list[i])' : i \in Scanned(list)'} = {History(list[i]) : i \in Scanned(list)}
    BY <1>1, <1>4
  <2>5. ListEntries(list)' = UNION {History(list[i])' : i \in Scanned(list)'}
    BY Zenon DEF ListEntries
  <2>6. ListEntries(list) = UNION {History(list[i]) : i \in Scanned(list)}
    BY Zenon DEF ListEntries
  <2> QED
    BY <2>1, <2>2, <2>3, <2>4, <2>5, <2>6, Zenon
<1>6. ASSUME NEW list, NEW n
      PROVE  Entries(list, n)' = Entries(list, n)
  <2>1. Entries(list, n)' = UNION {History(list[i])' : i \in 1 .. n}
    BY Zenon DEF Entries
  <2>2. {History(list[i])' : i \in 1 .. n} = {History(list[i]) : i \in 1 .. n}
    BY <1>1
  <2> QED
    BY <2>1, <2>2, Zenon DEF Entries
<1>7. ASSUME NEW n
      PROVE  EntriesUpTo(n)' = EntriesUpTo(n)
  <2>1. EntriesUpTo(n)' = UNION {ListEntries(Keychains[k])' : k \in 1 .. n}
    BY Zenon DEF EntriesUpTo
  <2>2. {ListEntries(Keychains[k])' : k \in 1 .. n} = {ListEntries(Keychains[k]) : k \in 1 .. n}
    BY <1>5
  <2> QED
    BY <2>1, <2>2, Zenon DEF EntriesUpTo
<1> QED
  BY <1>2, <1>3, <1>5, <1>6, <1>7, Zenon

\* The transactions that the wallet lost stay lost.
LEMMA LostKept ==
  ASSUME UNCHANGED <<place, wallet>>
  PROVE  \A n : LostTo(n)' = LostTo(n)
<1>1. Present' = Present /\ wallet'.txs = wallet.txs
  BY HistoriesKept
<1> QED
  BY <1>1 DEF LostTo

\* A step after the scan that leaves alone what the scan found, or looks up more
\* for a sync.
LEMMA AfterScan ==
  ASSUME SyncInv, UNCHANGED <<place, scan, wallet>>, request'.kind = request.kind,
         quiet' => quiet, Looking \/ Ending, Looking' \/ Ending', Looking' => Looking,
         found'.evicted = found.evicted,
         Ending => /\ found'.txs = found.txs /\ found'.pending = found.pending
                   /\ found'.seen = found.seen
  PROVE  StageInv' /\ BatchInv' /\ EvictInv' /\ ScanInv'
<1>1. ~Scanning /\ ~Scanning' /\ stage # "Idle" /\ stage' # "Idle"
  BY DEF Scanning, Looking, Ending
<1>2. StageInv'
  BY <1>1 DEF SyncInv, StageInv
<1>3. BatchInv'
  BY <1>1 DEF BatchInv
<1>4. EvictInv'
  <2>1. \A n : LostTo(n)' = LostTo(n)
    BY LostKept
  <2>2. quiet /\ request.kind = "sync" => found.evicted = LostTo(Len(AllScripts))
    BY DEF SyncInv, EvictInv
  <2>3. EvictInv' <=> (quiet' /\ request'.kind = "sync" =>
           /\ Scanning' =>
                /\ scan'.lists = <<AllScripts>> /\ scan'.gap = Len(AllScripts) + 1
                /\ scan'.expected = [s \in Scripts |-> {t \in wallet'.txs : s \in Touches(t)}]
                /\ scan'.unused <= Position'
                /\ found'.evicted = LostTo(Position)'
           /\ Looking' \/ Ending' => found'.evicted = LostTo(Len(AllScripts))')
    BY Zenon DEF EvictInv
  <2> QED
    BY <1>1, <2>1, <2>2, <2>3, Zenon
<1>5. ScanInv'
  <2> SUFFICES ASSUME quiet', request'.kind = "full_scan"
               PROVE  /\ \A k \in 1 .. Len(scan'.active) : scan'.active[k] = LastActive(Keychains[k])'
                      /\ Ending' => /\ Len(scan'.active) = Len(Keychains)
                                    /\ Finds(EntriesUpTo(Len(Keychains)))'
    BY <1>1, Zenon DEF ScanInv, DoneInv
  <2>1. Ending
    BY DEF SyncInv, StageInv
  <2>2. /\ \A k \in 1 .. Len(scan.active) : scan.active[k] = LastActive(Keychains[k])
        /\ Len(scan.active) = Len(Keychains) /\ Finds(EntriesUpTo(Len(Keychains)))
    BY <2>1, Zenon DEF SyncInv, ScanInv, DoneInv
  <2>3. \A k : LastActive(Keychains[k])' = LastActive(Keychains[k])
    BY ListsKept, Zenon
  <2>4. EntriesUpTo(Len(Keychains))' = EntriesUpTo(Len(Keychains))
    BY ListsKept, Zenon
  <2> DEFINE entries == EntriesUpTo(Len(Keychains))
  <2>5. /\ found'.txs = Ids(entries) /\ found'.pending = {e \in entries : e[2] > 0}
        /\ found'.seen = Ids({e \in entries : e[2] <= 0})
    BY <2>1, <2>2, Zenon DEF Finds
  <2>6. Finds(entries)' <=> /\ found'.txs = Ids(entries') /\ found'.pending = {e \in entries' : e[2] > 0}
                            /\ found'.seen = Ids({e \in entries' : e[2] <= 0})
    BY Zenon DEF Finds
  <2> HIDE DEF entries
  <2>7. Finds(entries)'
    BY <2>4, <2>5, <2>6, Zenon DEF entries
  <2> QED
    BY <2>2, <2>3, <2>7, Zenon DEF entries
<1> QED
  BY <1>2, <1>3, <1>4, <1>5

\* A step that leaves alone what was scanned and found.
LEMMA Unaffected ==
  ASSUME SyncInv, UNCHANGED <<place, scan, found, wallet, request, quiet>>,
         Scanning' <=> Scanning, Looking' <=> Looking, Ending' <=> Ending,
         stage' = "Idle" <=> stage = "Idle"
  PROVE  SyncInv'
<1>1. StageInv'
  BY DEF SyncInv, StageInv
<1>2. Position' = Position /\ \A s : History(s)' = History(s)
  BY HistoriesKept DEF Position
<1>3. BatchInv'
  <2> SUFFICES ASSUME Scanning, NEW list, list = Head(scan.lists)
               PROVE  /\ Len(scan.batch) <= scan.taken /\ scan.taken <= Len(list)
                      /\ \A j \in 1 .. Len(scan.batch) :
                           /\ scan.batch[j].index = Position + j
                           /\ scan.batch[j].script = list[Position + j]
                           /\ quiet => scan.batch[j].history = History(list[Position + j])
    BY <1>2 DEF BatchInv
  <2> QED
    BY Zenon DEF SyncInv, BatchInv
<1>4. EvictInv'
  <2>1. \A n : LostTo(n)' = LostTo(n)
    BY LostKept
  <2> DEFINE lost == LostTo(Position)
             all == LostTo(Len(AllScripts))
  <2>2. quiet /\ request.kind = "sync" =>
          /\ Scanning =>
               /\ scan.lists = <<AllScripts>> /\ scan.gap = Len(AllScripts) + 1
               /\ scan.expected = [s \in Scripts |-> {t \in wallet.txs : s \in Touches(t)}]
               /\ scan.unused <= Position /\ found.evicted = lost
          /\ Looking \/ Ending => found.evicted = all
    BY Zenon DEF SyncInv, EvictInv
  <2>3. lost' = lost /\ all' = all
    BY <1>2, <2>1
  <2> QED
    BY <1>2, <2>2, <2>3, Zenon DEF EvictInv
<1>5. OutpointInv'
  <2>1. Present' = Present
    BY HistoriesKept
  <2>2. \A o : Residing(o)' = Residing(o)
    BY <2>1 DEF Residing
  <2> QED
    BY <2>1, <2>2, Zenon DEF SyncInv, OutpointInv
<1>6. ScanInv'
  <2>1. /\ \A list, i : Used(list, i)' = Used(list, i)
        /\ \A list, i : GapEnds(list, i)' = GapEnds(list, i)
        /\ \A list : LastActive(list)' = LastActive(list)
        /\ \A list, n : Entries(list, n)' = Entries(list, n)
        /\ \A n : EntriesUpTo(n)' = EntriesUpTo(n)
    BY ListsKept
  <2> DEFINE list == Head(scan.lists)
             entries == EntriesUpTo(Len(scan.active)) \cup Entries(list, Position)
             all == EntriesUpTo(Len(Keychains))
  <2> SUFFICES ASSUME quiet, request.kind = "full_scan"
               PROVE  /\ DoneInv'
                      /\ Scanning => (RestInv /\ GapInv(list, Position) /\ Finds(entries))'
                      /\ Ending => Len(scan'.active) = Len(Keychains) /\ Finds(all)'
    BY Zenon DEF ScanInv
  <2>2. /\ DoneInv
        /\ Scanning => RestInv /\ GapInv(list, Position) /\ Finds(entries)
        /\ Ending => Len(scan.active) = Len(Keychains) /\ Finds(all)
    BY Zenon DEF SyncInv, ScanInv
  <2>3. DoneInv' /\ (Scanning => RestInv')
    BY <2>1, <2>2, Zenon DEF DoneInv, RestInv
  <2>4. Scanning => GapInv(list, Position)'
    BY <1>2, <2>1, <2>2, Zenon DEF GapInv
  <2>5. entries' = entries /\ all' = all
    BY <1>2, <2>1, Zenon
  <2>6. (Scanning => Finds(entries)') /\ (Ending => Finds(all)')
    BY <2>2, <2>5, Zenon DEF Finds
  <2> QED
    BY <2>2, <2>3, <2>4, <2>6
<1> QED
  BY <1>1, <1>3, <1>4, <1>5, <1>6 DEF SyncInv

\* A step that only asks for headers.
LEMMA FetchTipFinds ==
  ASSUME SyncInv, FetchTip
  PROVE  SyncInv'
<1>1. /\ stage = "Tip" /\ stage' \in {"Spks", "Tip"}
      /\ UNCHANGED <<place, scan, found, wallet, request, quiet>>
  BY DEF FetchTip, scanVars, syncVars, server
<1>2. /\ Scanning /\ ~Looking /\ ~Ending /\ stage # "Idle"
      /\ Scanning' /\ ~Looking' /\ ~Ending' /\ stage' # "Idle"
  BY <1>1 DEF Scanning, Looking, Ending
<1> QED
  BY <1>1, <1>2, Unaffected

-----------------------------------------------------------------------------
(* The steps after the scan.                                                *)

\* Entries that are looked up add to an update, and evict nothing.
LEMMA ApplyFields ==
  ASSUME ScanType, NEW entries \in Histories
  PROVE  LET f == Apply(found, entries) IN
         f.txs = found.txs \cup Ids(entries) /\ f.evicted = found.evicted
BY ApplyType DEF ScanType

LEMMA TxidsFinds ==
  ASSUME TypeInv, SyncInv, Txids
  PROVE  SyncInv'
<1>1. UNCHANGED <<server, request, wallet, quiet, scan>> /\ UNCHANGED place
  BY DEF Txids, syncVars, history, FetchTxids, ApplyTxids, server
<1>2. Looking /\ Looking' /\ ~Ending /\ ~Ending'
  BY DEF Txids, Goes, Looking, Ending
<1>3. found'.evicted = found.evicted
  <2>1. CASE FetchTxids(request.txids)
    BY <2>1 DEF FetchTxids
  <2>2. CASE ApplyTxids(request.txids)
    <3> DEFINE entries == {e \in UNION {History(Outputs[t][1]) : t \in request.txids} :
                             e[1] \in request.txids}
               f == Apply(found, entries)
               txs == f.txs \cup request.txids
    <3>1. found' = [f EXCEPT !.txs = txs]
      BY <2>2, Zenon DEF ApplyTxids
    <3>2. entries \in Histories
      <4>1. \A s : History(s) \in Histories
        BY HistoryType DEF TypeInv
      <4> QED
        BY <4>1 DEF Histories
    <3> HIDE DEF entries
    <3>3. f.evicted = found.evicted /\ f \in Founds
      BY <3>2, ApplyType DEF TypeInv, ScanType
    <3> HIDE DEF f, txs
    <3> QED
      BY <3>1, <3>3 DEF Founds
  <2> QED
    BY <2>1, <2>2 DEF Txids
<1>4. StageInv' /\ BatchInv' /\ EvictInv' /\ ScanInv'
  BY <1>1, <1>2, <1>3, AfterScan
<1>5. OutpointInv'
  BY <1>2, Zenon DEF OutpointInv
<1> QED
  BY <1>4, <1>5 DEF SyncInv

LEMMA OutpointsFinds ==
  ASSUME TypeInv, SyncInv, Outpoints
  PROVE  SyncInv'
<1>1. FetchOutpoints(request.outpoints) /\ UNCHANGED <<place, request, wallet>> /\ (quiet' => quiet)
  BY DEF Outpoints, syncVars, server
<1>2. UNCHANGED scan /\ found'.evicted = found.evicted
  <2>1. request.outpoints \in SUBSET Outpoint
    BY DEF TypeInv, CallType, RequestType
  <2> QED
    BY <1>1, <2>1, FetchOutpointsType DEF TypeInv
<1>3. Looking /\ Looking' /\ ~Ending /\ ~Ending'
  BY DEF Outpoints, Goes, Looking, Ending
<1>4. StageInv' /\ BatchInv' /\ EvictInv' /\ ScanInv'
  BY <1>1, <1>2, <1>3, AfterScan
<1>5. OutpointInv'
  BY <1>3, Zenon DEF OutpointInv
<1> QED
  BY <1>4, <1>5 DEF SyncInv

\* The history of the script of an outpoint has its transaction and the one that
\* spends it.
LEMMA RelatedIsResiding ==
  ASSUME NEW o \in Outpoint, o[1] \in Present
  PROVE  Residing(o) \subseteq Ids(Related(o, History(ScriptOf(o))))
<1>1. ASSUME NEW t \in Residing(o)
      PROVE  <<t, place[t]>> \in Related(o, History(ScriptOf(o)))
  <2>1. t \in Present
    BY DEF Residing
  <2>2. ScriptOf(o) \in Touches(t)
    <3>1. CASE t = o[1]
      <4>1. o[2] \in DOMAIN Outputs[t]
        BY <3>1 DEF Outpoint
      <4> QED
        BY <3>1, <4>1, Zenon DEF Touches, ScriptOf
    <3>2. CASE o \in Inputs[t]
      BY <3>2, Zenon DEF Touches
    <3> QED
      BY <3>1, <3>2 DEF Residing
  <2>3. <<t, place[t]>> \in History(ScriptOf(o))
    BY <2>1, <2>2, Zenon DEF History
  <2>4. t = o[1] \/ o \in Inputs[t]
    BY DEF Residing
  <2> QED
    BY <2>3, <2>4 DEF Related
<1> QED
  <2> SUFFICES ASSUME NEW t \in Residing(o)
               PROVE  t \in Ids(Related(o, History(ScriptOf(o))))
    OBVIOUS
  <2>1. <<t, place[t]>> \in Related(o, History(ScriptOf(o)))
    BY <1>1
  <2>2. <<t, place[t]>>[1] = t
    OBVIOUS
  <2> QED
    BY <2>1, <2>2, Zenon DEF Ids

LEMMA OutpointHistoriesFinds ==
  ASSUME TypeInv, SyncInv, SkipInv, OutpointHistories
  PROVE  SyncInv'
<1>1. UNCHANGED <<server, request, wallet, quiet, scan>> /\ UNCHANGED place
  <2>1. ApplyOutpoints /\ UNCHANGED <<server, tipVars, syncVars, history>>
    BY DEF OutpointHistories
  <2>2. UNCHANGED scan
    BY <2>1, Zenon DEF ApplyOutpoints
  <2> QED
    BY <2>1, <2>2 DEF syncVars, history, server
<1>2. stage = "OutpointHistories" /\ Looking /\ ~Ending /\ ~Looking' /\ Ending'
  BY DEF OutpointHistories, Goes, Looking, Ending
<1> DEFINE R(o) == Related(o, History(ScriptOf(o)))
           entries == UNION {R(o) : o \in found.ops}
<1>3. found' = Apply(found, entries)
  BY Zenon DEF OutpointHistories, ApplyOutpoints
<1>4. entries \in Histories
  <2>1. \A s : History(s) \in Histories
    BY HistoryType DEF TypeInv
  <2> QED
    BY <2>1 DEF Histories, Related
<1>5. \A o \in found.ops : Ids(R(o)) \subseteq Ids(entries)
  <2> TAKE o \in found.ops
  <2>1. R(o) \subseteq entries
    OBVIOUS
  <2> HIDE DEF R, entries
  <2> QED
    BY <2>1 DEF Ids
<1> HIDE DEF entries
<1>6. found'.evicted = found.evicted /\ found'.txs = found.txs \cup Ids(entries)
  BY <1>3, <1>4, ApplyFields DEF TypeInv
<1>7. StageInv' /\ BatchInv' /\ EvictInv' /\ ScanInv'
  BY <1>1, <1>2, <1>6, AfterScan
<1>8. OutpointInv'
  <2>1. Present' = Present
    BY <1>1, HistoriesKept
  <2>2. \A o : Residing(o)' = Residing(o)
    BY <2>1 DEF Residing
  <2> SUFFICES ASSUME quiet, NEW o \in request.outpoints, o[1] \in Present
               PROVE  Residing(o) \subseteq found'.txs
    BY <1>1, <2>1, <2>2, Zenon DEF OutpointInv
  <2>5. o \in found.ops
    BY <1>2, Zenon DEF SkipInv
  <2>3. o \in Outpoint
    BY DEF TypeInv, CallType, RequestType
  <2>4. Residing(o) \subseteq Ids(R(o))
    BY <2>3, RelatedIsResiding
  <2> QED
    BY <1>5, <1>6, <2>4, <2>5
<1> QED
  BY <1>7, <1>8 DEF SyncInv

\* A step of the end of a call leaves alone what was found.
LEMMA EndingFinds ==
  ASSUME SyncInv, Ending, Ending', UNCHANGED <<place, scan, wallet, request, quiet>>,
         found'.txs = found.txs, found'.pending = found.pending,
         found'.seen = found.seen, found'.evicted = found.evicted
  PROVE  SyncInv'
<1>1. ~Looking'
  BY DEF Ending, Looking
<1>2. StageInv' /\ BatchInv' /\ EvictInv' /\ ScanInv'
  BY <1>1, AfterScan
<1>3. OutpointInv'
  <2>1. Present' = Present
    BY HistoriesKept
  <2>2. \A o : Residing(o)' = Residing(o)
    BY <2>1 DEF Residing
  <2> QED
    BY <2>1, <2>2, Zenon DEF SyncInv, OutpointInv
<1> QED
  BY <1>2, <1>3 DEF SyncInv

LEMMA PrevTxoutsFinds ==
  ASSUME TypeInv, SyncInv, PrevTxouts
  PROVE  SyncInv'
<1>1. /\ stage = "PrevTxouts" /\ stage' \in {"Update", "Anchors"}
      /\ FetchPrevTxouts \/ UNCHANGED scanVars
      /\ UNCHANGED <<server, request, wallet, quiet>>
  BY DEF PrevTxouts, Goes, syncVars
<1>2. Ending /\ Ending' /\ UNCHANGED place
  BY <1>1 DEF Ending, server
<1>3. /\ UNCHANGED scan /\ found'.txs = found.txs /\ found'.pending = found.pending
      /\ found'.seen = found.seen /\ found'.evicted = found.evicted
  <2>1. CASE FetchPrevTxouts
    <3> DEFINE txouts == found.txouts \cup UNION {Inputs[t] : t \in found.txs}
    <3>1. found' = [found EXCEPT !.txouts = txouts] /\ UNCHANGED scan
      BY <2>1, Zenon DEF FetchPrevTxouts
    <3> HIDE DEF txouts
    <3> QED
      BY <3>1 DEF TypeInv, ScanType, Founds
  <2>2. CASE UNCHANGED scanVars
    BY <2>2 DEF scanVars
  <2> QED
    BY <1>1, <2>1, <2>2
<1> QED
  BY <1>1, <1>2, <1>3, EndingFinds

LEMMA FetchAnchorsFinds ==
  ASSUME SyncInv, FetchAnchors
  PROVE  SyncInv'
<1>1. Ending /\ Ending' /\ UNCHANGED <<place, scan, wallet, request, quiet, found>>
  BY DEF FetchAnchors, Goes, Ending, scanVars, server
<1> QED
  BY <1>1, EndingFinds

LEMMA FinishFinds ==
  ASSUME SyncInv, Finish
  PROVE  SyncInv'
<1>1. Ending /\ Ending' /\ UNCHANGED <<place, scan, wallet, request, quiet, found>>
  BY DEF Finish, Goes, Ending, scanVars, server
<1> QED
  BY <1>1, EndingFinds

\* No call is left.
LEMMA IdleFinds ==
  ASSUME stage' = "Idle", request' = NoRequest, scan' = NewScan(<<>>, 1, [s \in Scripts |-> {}])
  PROVE  SyncInv'
<1>1. request'.kind = "none" /\ scan'.lists = <<>>
  BY DEF NoRequest, NewScan
<1>2. ~Scanning' /\ ~Looking' /\ ~Ending'
  BY DEF Scanning, Looking, Ending
<1> QED
  BY <1>1, <1>2 DEF SyncInv, StageInv, BatchInv, EvictInv, OutpointInv, ScanInv

LEMMA ReturnsFinds ==
  ASSUME Applied \/ Fails
  PROVE  SyncInv'
<1>1. stage' = "Idle" /\ request' = NoRequest /\ scan' = NewScan(<<>>, 1, [s \in Scripts |-> {}])
  BY Zenon DEF Applied, Fails, Goes
<1> QED
  BY <1>1, IdleFinds

\* The server changes: the call is not quiet any more.
LEMMA ChangesFinds ==
  ASSUME SyncInv, Changes
  PROVE  SyncInv'
<1>1. UNCHANGED <<stage, request, scan, found, wallet>> /\ (quiet' => stage = "Idle")
  BY DEF Changes, scanVars, syncVars
<1>2. quiet' => request'.kind = "none"
  BY <1>1 DEF SyncInv, StageInv
<1>3. StageInv'
  BY <1>1 DEF SyncInv, StageInv, Scanning, Looking
<1>4. BatchInv'
  BY <1>1, <1>2 DEF SyncInv, StageInv, BatchInv, Scanning, Position
<1>5. EvictInv' /\ OutpointInv' /\ ScanInv'
  BY <1>2 DEF EvictInv, OutpointInv, ScanInv
<1> QED
  BY <1>3, <1>4, <1>5 DEF SyncInv

-----------------------------------------------------------------------------
(* The start of a call.                                                     *)

\* A scan that has not begun.
LEMMA NewScanFields ==
  ASSUME NEW lists \in Seq(Seq(Scripts)), NEW gap \in Nat,
         NEW expected \in [Scripts -> SUBSET Txs],
         scan' = NewScan(lists, gap, expected)
  PROVE  /\ scan'.lists = lists /\ scan'.gap = gap /\ scan'.expected = expected
         /\ scan'.taken = 0 /\ Len(scan'.batch) = 0 /\ scan'.unused = 0 /\ scan'.last = 0
         /\ Len(scan'.active) = 0 /\ Position' = 0
<1> DEFINE none == <<>>
<1>1. Len(none) = 0
  OBVIOUS
<1> HIDE DEF none
<1>2. scan' = [lists |-> lists, taken |-> 0, batch |-> none, unused |-> 0, last |-> 0,
               active |-> none, gap |-> gap, expected |-> expected]
  BY Zenon DEF NewScan, none
<1>3. /\ scan'.lists = lists /\ scan'.gap = gap /\ scan'.expected = expected
      /\ scan'.taken = 0 /\ scan'.batch = none /\ scan'.unused = 0 /\ scan'.last = 0
      /\ scan'.active = none
  BY <1>2
<1>4. Position' = scan'.taken - Len(scan'.batch)
  BY Zenon DEF Position
<1> QED
  BY <1>1, <1>3, <1>4

LEMMA BeginsScan ==
  ASSUME NEW req, req.kind \in {"full_scan", "sync"}, NEW lists \in Seq(Seq(Scripts)),
         lists # <<>>, NEW gap \in Nat, NEW expected \in [Scripts -> SUBSET Txs],
         Begins(req, lists, gap, expected)
  PROVE  /\ StageInv' /\ BatchInv' /\ Scanning' /\ ~Looking' /\ ~Ending'
         /\ request' = req /\ scan' = NewScan(lists, gap, expected) /\ found' = NothingFound
         /\ UNCHANGED wallet
<1>1. /\ stage' = IF wallet.chain = {} THEN "Spks" ELSE "Tip"
      /\ request' = req /\ scan' = NewScan(lists, gap, expected) /\ found' = NothingFound
      /\ UNCHANGED wallet
  BY Zenon DEF Begins, Goes
<1>2. Scanning' /\ ~Looking' /\ ~Ending' /\ stage' # "Idle"
  BY <1>1 DEF Scanning, Looking, Ending
<1>3. scan'.lists = lists /\ scan'.taken = 0 /\ Len(scan'.batch) = 0
  BY <1>1, NewScanFields
<1>4. StageInv'
  BY <1>1, <1>2, <1>3 DEF StageInv
<1>5. BatchInv'
  <2>1. Len(Head(lists)) \in Nat
    OBVIOUS
  <2> QED
    BY <1>3, <2>1 DEF BatchInv
<1> QED
  BY <1>1, <1>2, <1>4, <1>5

LEMMA FullScanFinds ==
  ASSUME FullScan
  PROVE  SyncInv'
<1> DEFINE none == [s \in Scripts |-> {}]
           req(fetchPrev) == [NoRequest EXCEPT !.kind = "full_scan", !.fetchPrev = fetchPrev]
<1>1. PICK fetchPrev \in FetchPrev : Begins(req(fetchPrev), Keychains, StopGap, none)
  BY Zenon DEF FullScan
<1>2. req(fetchPrev).kind = "full_scan"
  BY DEF NoRequest
<1>3. none \in [Scripts -> SUBSET Txs]
  OBVIOUS
<1>4. StopGap \in Nat \ {0} /\ Keychains \in Seq(Seq(Scripts)) /\ Keychains # <<>>
  BY SyncBounds, KeychainsAssumption
<1> HIDE DEF none, req
<1>5. /\ StageInv' /\ BatchInv' /\ Scanning' /\ ~Looking' /\ ~Ending'
      /\ request'.kind = "full_scan" /\ scan' = NewScan(Keychains, StopGap, none)
      /\ found' = NothingFound
  <2>1. StopGap \in Nat /\ req(fetchPrev).kind \in {"full_scan", "sync"}
    BY <1>2, <1>4
  <2>2. /\ StageInv' /\ BatchInv' /\ Scanning' /\ ~Looking' /\ ~Ending'
        /\ request' = req(fetchPrev) /\ scan' = NewScan(Keychains, StopGap, none)
        /\ found' = NothingFound
    BY <1>1, <1>3, <1>4, <2>1, BeginsScan
  <2> QED
    BY <1>2, <2>2
<1>6. EvictInv' /\ OutpointInv'
  BY <1>5 DEF EvictInv, OutpointInv
<1>7. /\ scan'.lists = Keychains /\ scan'.gap = StopGap /\ scan'.unused = 0 /\ scan'.last = 0
      /\ Len(scan'.active) = 0 /\ Position' = 0
  BY <1>3, <1>4, <1>5, NewScanFields, Zenon
<1>8. Finds(EntriesUpTo(Len(scan.active)) \cup Entries(Head(scan.lists), Position))'
  <2>1. EntriesUpTo(0)' = {} /\ \A list : Entries(list, 0)' = {}
    BY DEF EntriesUpTo, Entries
  <2>2. (EntriesUpTo(Len(scan.active)) \cup Entries(Head(scan.lists), Position))' = {}
    BY <1>7, <2>1
  <2>3. found'.txs = {} /\ found'.pending = {} /\ found'.seen = {}
    BY <1>5 DEF NothingFound
  <2>4. Ids({}) = {}
    BY DEF Ids
  <2> QED
    BY <2>2, <2>3, <2>4 DEF Finds
<1>9. ScanInv'
  <2>1. Len(Keychains) \in Nat
    BY <1>4
  <2>2. DoneInv' /\ RestInv' /\ GapInv(Head(scan.lists), Position)'
    BY <1>4, <1>7, <2>1 DEF DoneInv, RestInv, GapInv
  <2> QED
    BY <1>5, <1>8, <2>2, Zenon DEF ScanInv
<1> QED
  BY <1>5, <1>6, <1>9 DEF SyncInv

LEMMA PollSyncFinds ==
  ASSUME TypeInv, PollSync
  PROVE  SyncInv'
<1> DEFINE known == [s \in Scripts |-> {t \in wallet.txs : s \in Touches(t)}]
<1>1. PICK req \in Requests : Begins(req, <<AllScripts>>, Len(AllScripts) + 1, known)
  BY Zenon DEF PollSync
<1>2. req.kind = "sync"
  BY RequestsAssumption
<1>3. wallet.txs \subseteq Txs
  BY DEF TypeInv, ResultType, WalletType
<1>4. known \in [Scripts -> SUBSET Txs]
  BY <1>3
<1>5. AllScripts \in Seq(Scripts)
  BY FlattenType, KeychainsAssumption DEF AllScripts
<1>6. /\ Len(AllScripts) + 1 \in Nat /\ <<AllScripts>> \in Seq(Seq(Scripts))
      /\ <<AllScripts>> # <<>> /\ Head(<<AllScripts>>) = AllScripts
  BY <1>5
<1> DEFINE lists == <<AllScripts>>
           gap == Len(AllScripts) + 1
<1> HIDE DEF known, lists, gap
<1>7. /\ StageInv' /\ BatchInv' /\ Scanning' /\ ~Looking' /\ ~Ending'
      /\ request' = req /\ scan' = NewScan(lists, gap, known)
      /\ found' = NothingFound /\ UNCHANGED wallet
  <2>1. req.kind \in {"full_scan", "sync"}
    BY <1>2
  <2>2. gap \in Nat /\ lists \in Seq(Seq(Scripts)) /\ lists # <<>>
    BY <1>6, Zenon DEF lists, gap
  <2>3. Begins(req, lists, gap, known)
    BY <1>1, Zenon DEF lists, gap
  <2> QED
    BY <1>4, <2>1, <2>2, <2>3, BeginsScan
<1>8. /\ scan'.lists = <<AllScripts>> /\ scan'.gap = Len(AllScripts) + 1
      /\ scan'.expected = known /\ scan'.unused = 0 /\ Position' = 0
  BY <1>4, <1>6, <1>7, NewScanFields, Zenon DEF lists, gap
<1>9. EvictInv'
  <2>1. LostTo(0)' = {}
    BY DEF LostTo
  <2>2. found'.evicted = LostTo(Position)'
    BY <1>7, <1>8, <2>1 DEF NothingFound
  <2>3. scan'.expected = [s \in Scripts |-> {t \in wallet'.txs : s \in Touches(t)}]
    BY <1>7, <1>8 DEF known
  <2>4. 0 <= 0
    OBVIOUS
  <2> QED
    BY <1>7, <1>8, <2>2, <2>3, <2>4, Zenon DEF EvictInv
<1>10. OutpointInv' /\ ScanInv'
  BY <1>2, <1>7 DEF OutpointInv, ScanInv
<1> QED
  BY <1>7, <1>9, <1>10 DEF SyncInv

-----------------------------------------------------------------------------
(* A step of the scan.                                                      *)

\* The list that is being scanned.
LEMMA PresentList ==
  ASSUME TypeInv, SyncInv, Scanning
  PROVE  /\ scan \in Scans /\ scan.lists # <<>>
         /\ Head(scan.lists) \in Seq(Scripts)
         /\ Len(scan.batch) \in Nat /\ scan.taken \in Nat /\ Position \in Nat
         /\ Position <= Len(Head(scan.lists))
<1>1. scan \in Scans /\ scan.lists # <<>>
  BY DEF TypeInv, ScanType, SyncInv, StageInv
<1>2. scan.lists \in Seq(Seq(Scripts)) /\ scan.taken \in Nat /\ scan.batch \in Seq(Spks)
  BY <1>1, ScanFields
<1>3. Head(scan.lists) \in Seq(Scripts) /\ Len(scan.batch) \in Nat
  BY <1>1, <1>2
<1>4. Len(scan.batch) <= scan.taken /\ scan.taken <= Len(Head(scan.lists))
  BY Zenon DEF SyncInv, BatchInv
<1>5. Len(Head(scan.lists)) \in Nat
  BY <1>3
<1> QED
  BY <1>1, <1>2, <1>3, <1>4, <1>5 DEF Position

\* Histories are asked for: nothing is dealt with yet.
LEMMA BatchFetched ==
  ASSUME TypeInv, SyncInv, Scanning, FetchBatch, UNCHANGED place, Scanning'
  PROVE  /\ BatchInv' /\ Position' = Position /\ UNCHANGED found
         /\ scan'.lists = scan.lists /\ scan'.unused = scan.unused /\ scan'.last = scan.last
         /\ scan'.active = scan.active /\ scan'.gap = scan.gap
         /\ scan'.expected = scan.expected /\ scan.taken < scan'.taken
<1> DEFINE list == Head(scan.lists)
           upto == IF scan.taken + BatchSize < Len(list) THEN scan.taken + BatchSize ELSE Len(list)
           batch == [i \in 1..(upto - scan.taken) |->
                       LET index == scan.taken + i IN
                       [index |-> index, script |-> list[index], history |-> History(list[index])]]
<1>1. /\ scan.batch = <<>> /\ scan.taken < Len(list)
      /\ scan' = [scan EXCEPT !.taken = upto, !.batch = batch]
      /\ UNCHANGED found
  BY Zenon DEF FetchBatch
<1>2. scan \in Scans /\ list \in Seq(Scripts) /\ scan.taken \in Nat
  BY PresentList
<1>3. Len(list) \in Nat
  BY <1>2
<1> HIDE DEF list
<1>4. upto \in Nat /\ scan.taken < upto /\ upto <= Len(list)
  BY <1>1, <1>2, <1>3, BatchAssumption
<1> HIDE DEF upto
<1>5. Len(batch) = upto - scan.taken
  <2>1. upto - scan.taken \in Nat
    BY <1>2, <1>4
  <2> QED
    BY <2>1
<1>6. \A j \in 1 .. Len(batch) :
        /\ batch[j].index = scan.taken + j /\ batch[j].script = list[scan.taken + j]
        /\ batch[j].history = History(list[scan.taken + j])
  BY <1>5
<1> HIDE DEF batch
<1>7. /\ scan'.taken = upto /\ scan'.batch = batch
      /\ scan'.lists = scan.lists /\ scan'.unused = scan.unused /\ scan'.last = scan.last
      /\ scan'.active = scan.active /\ scan'.gap = scan.gap /\ scan'.expected = scan.expected
  BY <1>1, <1>2 DEF Scans
<1>8. Position' = scan.taken /\ Position = scan.taken
  <2>1. Position = scan.taken - Len(scan.batch) /\ Len(scan.batch) = 0
    BY <1>1 DEF Position
  <2>2. Position' = upto - Len(batch)
    BY <1>7 DEF Position
  <2> QED
    BY <1>2, <1>4, <1>5, <2>1, <2>2
<1>9. BatchInv'
  <2>1. \A s : History(s)' = History(s)
    BY HistoriesKept
  <2>2. Len(batch) <= upto
    BY <1>2, <1>4, <1>5
  <2>3. Head(scan'.lists) = list
    BY <1>7 DEF list
  <2> QED
    BY <1>4, <1>6, <1>7, <1>8, <2>1, <2>2, <2>3, Zenon DEF BatchInv
<1> QED
  BY <1>1, <1>4, <1>7, <1>8, <1>9

\* The next script of the batch.
LEMMA NextScript ==
  ASSUME TypeInv, SyncInv, Scanning, scan.batch # <<>>
  PROVE  LET spk == Head(scan.batch)
             list == Head(scan.lists)
         IN /\ spk \in Spks /\ Position + 1 \in 1 .. Len(list)
            /\ spk.index = Position + 1 /\ spk.script = list[Position + 1]
            /\ quiet => spk.history = History(list[Position + 1])
<1> DEFINE list == Head(scan.lists)
<1>1. scan \in Scans /\ Len(scan.batch) \in Nat /\ scan.taken \in Nat /\ Position \in Nat
      /\ list \in Seq(Scripts)
  BY PresentList
<1>2. scan.batch \in Seq(Spks)
  BY <1>1, ScanFields
<1>3. Head(scan.batch) = scan.batch[1] /\ Head(scan.batch) \in Spks /\ 1 \in 1 .. Len(scan.batch)
  BY <1>2
<1>4. /\ Len(scan.batch) <= scan.taken /\ scan.taken <= Len(list)
      /\ scan.batch[1].index = Position + 1
      /\ scan.batch[1].script = list[Position + 1]
      /\ quiet => scan.batch[1].history = History(list[Position + 1])
  BY <1>3, Zenon DEF SyncInv, BatchInv
<1>5. Position + 1 \in 1 .. Len(list)
  <2>1. Len(list) \in Nat /\ Len(scan.batch) >= 1
    BY <1>1, <1>3
  <2> QED
    BY <1>1, <1>4, <2>1 DEF Position
<1> QED
  BY <1>3, <1>4, <1>5

\* One script has been dealt with.
LEMMA BatchDealt ==
  ASSUME TypeInv, SyncInv, Scanning, scan.batch # <<>>, UNCHANGED place,
         scan'.lists = scan.lists, scan'.taken = scan.taken, scan'.batch = Tail(scan.batch),
         quiet' => quiet
  PROVE  BatchInv' /\ Position' = Position + 1
<1> DEFINE list == Head(scan.lists)
           rest == Tail(scan.batch)
<1>1. scan \in Scans /\ Len(scan.batch) \in Nat /\ scan.taken \in Nat /\ Position \in Nat
  BY PresentList
<1>2. scan.batch \in Seq(Spks)
  BY <1>1, ScanFields
<1>3. Len(rest) = Len(scan.batch) - 1 /\ \A j \in 1 .. Len(rest) : rest[j] = scan.batch[j + 1]
  BY <1>2
<1>4. Position' = Position + 1
  <2>1. Position' = scan.taken - Len(rest)
    BY DEF Position
  <2> HIDE DEF rest
  <2> QED
    BY <1>1, <1>3, <2>1 DEF Position
<1>5. /\ Len(scan.batch) <= scan.taken /\ scan.taken <= Len(list)
      /\ \A j \in 1 .. Len(scan.batch) :
           /\ scan.batch[j].index = Position + j
           /\ scan.batch[j].script = list[Position + j]
           /\ quiet => scan.batch[j].history = History(list[Position + j])
  BY Zenon DEF SyncInv, BatchInv
<1> HIDE DEF rest
<1>6. Len(rest) <= scan.taken
  BY <1>1, <1>3, <1>5
<1>7. ASSUME NEW j \in 1 .. Len(rest)
      PROVE  /\ rest[j].index = Position' + j
             /\ rest[j].script = list[Position' + j]
             /\ quiet => rest[j].history = History(list[Position + j])'
  <2> DEFINE size == Len(scan.batch)
  <2>1. Len(rest) = size - 1 /\ size \in Nat
    BY <1>1, <1>3, Zenon
  <2> HIDE DEF size
  <2>2. j + 1 \in 1 .. size
    BY <2>1
  <2>3. Position + (j + 1) = Position' + j
    BY <1>1, <1>4
  <2>4. j + 1 \in 1 .. Len(scan.batch) /\ Position + (j + 1) = Position' + j
    BY <2>2, <2>3, Zenon DEF size
  <2>5. /\ rest[j].index = Position + (j + 1)
        /\ rest[j].script = list[Position + (j + 1)]
        /\ quiet => rest[j].history = History(list[Position + (j + 1)])
    BY <1>3, <1>5, <2>4, Zenon
  <2>6. \A s : History(s)' = History(s)
    BY HistoriesKept
  <2>7. list' = list
    OBVIOUS
  <2> QED
    BY <2>4, <2>5, <2>6, <2>7, Zenon
<1>8. BatchInv'
  BY <1>5, <1>6, <1>7, Zenon DEF BatchInv, rest
<1> QED
  BY <1>4, <1>8

\* The transactions lost of the next script.
LEMMA LostNext ==
  ASSUME TypeInv, SyncInv, Scanning, scan.batch # <<>>, quiet, request.kind = "sync"
  PROVE  LostTo(Position + 1) = LostTo(Position) \cup Evicted(Head(scan.batch))
<1> DEFINE spk == Head(scan.batch)
           s == AllScripts[Position + 1]
<1>1. scan.lists = <<AllScripts>>
      /\ scan.expected = [c \in Scripts |-> {t \in wallet.txs : c \in Touches(t)}]
  BY Zenon DEF SyncInv, EvictInv
<1>2. Head(scan.lists) = AllScripts
  BY <1>1
<1>3. spk \in Spks /\ spk.script = s /\ spk.history = History(s)
  BY <1>2, NextScript
<1>4. s \in Scripts
  BY <1>3 DEF Spks
<1>5. Position \in Nat
  BY PresentList
<1> HIDE DEF s, spk
<1>6. \A t : t \in Ids(History(s)) <=> t \in Present /\ s \in Touches(t)
  <2>1. \A t : t \in Present /\ s \in Touches(t) => <<t, place[t]>> \in History(s)
    BY DEF History
  <2>2. \A e \in History(s) : e[1] \in Present /\ s \in Touches(e[1])
    BY DEF History
  <2>3. \A t : <<t, place[t]>>[1] = t
    OBVIOUS
  <2> QED
    BY <2>1, <2>2, <2>3, Zenon DEF Ids
<1>7. Evicted(spk) = {t \in wallet.txs : s \in Touches(t)} \ Ids(History(s))
  BY <1>1, <1>3, <1>4 DEF Evicted
<1>8. \A i : i \in 1 .. (Position + 1) <=> i \in 1 .. Position \/ i = Position + 1
  BY <1>5
<1>9. \A t : t \in LostTo(Position + 1)
               <=> t \in LostTo(Position) \/ (t \in wallet.txs \ Present /\ s \in Touches(t))
  BY <1>8, Zenon DEF LostTo, s
<1>10. \A t : t \in Evicted(spk) <=> t \in wallet.txs \ Present /\ s \in Touches(t)
  BY <1>6, <1>7, Zenon
<1>11. \A t : t \in LostTo(Position + 1) <=> t \in LostTo(Position) \cup Evicted(spk)
  BY <1>9, <1>10, Zenon
<1> QED
  BY <1>11, Zenon DEF spk

\* The entries of one more script.
LEMMA EntriesNext ==
  ASSUME NEW list, NEW n \in Nat
  PROVE  Entries(list, n + 1) = Entries(list, n) \cup History(list[n + 1])
<1>1. \A i : i \in 1 .. (n + 1) <=> i \in 1 .. n \/ i = n + 1
  OBVIOUS
<1> QED
  BY <1>1, Zenon DEF Entries

\* More entries are found.
LEMMA FindsMore ==
  ASSUME NEW entries, NEW more, Finds(entries),
         found'.txs = found.txs \cup Ids(more),
         found'.pending = found.pending \cup {e \in more : e[2] > 0},
         found'.seen = found.seen \cup Ids({e \in more : e[2] <= 0})
  PROVE  /\ found'.txs = Ids(entries \cup more)
         /\ found'.pending = {e \in entries \cup more : e[2] > 0}
         /\ found'.seen = Ids({e \in entries \cup more : e[2] <= 0})
<1> DEFINE Mined(es) == {e \in es : e[2] > 0}
           Unmined(es) == {e \in es : e[2] <= 0}
<1>1. \A a, b : Ids(a \cup b) = Ids(a) \cup Ids(b)
  BY DEF Ids
<1>2. /\ Mined(entries \cup more) = Mined(entries) \cup Mined(more)
      /\ Unmined(entries \cup more) = Unmined(entries) \cup Unmined(more)
  OBVIOUS
<1>3. found.txs = Ids(entries) /\ found.pending = Mined(entries) /\ found.seen = Ids(Unmined(entries))
  BY Zenon DEF Finds
<1>4. /\ found'.pending = found.pending \cup Mined(more)
      /\ found'.seen = found.seen \cup Ids(Unmined(more))
  OBVIOUS
<1> HIDE DEF Mined, Unmined
<1>5. /\ found'.txs = Ids(entries \cup more) /\ found'.pending = Mined(entries \cup more)
      /\ found'.seen = Ids(Unmined(entries \cup more))
  <2>1. /\ Ids(entries \cup more) = Ids(entries) \cup Ids(more)
        /\ Ids(Unmined(entries \cup more)) = Ids(Unmined(entries)) \cup Ids(Unmined(more))
    BY <1>1, <1>2, Zenon
  <2> QED
    BY <1>2, <1>3, <1>4, <2>1, Zenon
<1> QED
  BY <1>5 DEF Mined, Unmined

\* The gap after one more script.
LEMMA GapNext ==
  ASSUME NEW list, NEW n \in Nat, NEW last \in Nat, NEW unused \in Nat,
         last + unused = n, unused < StopGap, last # 0 => Used(list, last),
         \A i \in (last + 1) .. n : ~Used(list, i),
         \A i \in 1 .. n : ~GapEnds(list, i),
         Used(list, n + 1) \/ unused + 1 < StopGap
  PROVE  \A i \in 1 .. (n + 1) : ~GapEnds(list, i)
<1>1. StopGap \in Nat \ {0}
  BY SyncBounds
<1>2. ~GapEnds(list, n + 1)
  <2> SUFFICES ASSUME GapEnds(list, n + 1)
               PROVE  FALSE
    OBVIOUS
  <2>1. n + 1 >= StopGap /\ \A j \in ((n + 1) - StopGap + 1) .. (n + 1) : ~Used(list, j)
    BY DEF GapEnds
  <2>2. CASE Used(list, n + 1)
    <3>1. n + 1 \in ((n + 1) - StopGap + 1) .. (n + 1)
      BY <1>1
    <3> QED
      BY <2>1, <2>2, <3>1, Zenon
  <2>3. CASE unused + 1 < StopGap
    <3>1. last # 0
      BY <1>1, <2>1, <2>3
    <3>2. last \in ((n + 1) - StopGap + 1) .. (n + 1)
      BY <1>1, <2>3, <3>1
    <3> QED
      BY <2>1, <3>1, <3>2, Zenon
  <2> QED
    BY <2>2, <2>3
<1>3. \A i \in 1 .. (n + 1) : i \in 1 .. n \/ i = n + 1
  OBVIOUS
<1> QED
  BY <1>2, <1>3, Zenon

\* One script has been dealt with, used or not, and the gap is not reached.
Dealt ==
  LET spk == Head(scan.batch) IN
  /\ scan'.lists = scan.lists /\ scan'.taken = scan.taken /\ scan'.batch = Tail(scan.batch)
  /\ scan'.active = scan.active /\ scan'.gap = scan.gap /\ scan'.expected = scan.expected
  /\ \/ /\ spk.history = {} /\ scan.unused + 1 < scan.gap
        /\ scan'.unused = scan.unused + 1 /\ scan'.last = scan.last
     \/ spk.history # {} /\ scan'.unused = 0 /\ scan'.last = spk.index
  /\ found'.txs = found.txs \cup Ids(spk.history)
  /\ found'.pending = found.pending \cup {e \in spk.history : e[2] > 0}
  /\ found'.seen = found.seen \cup Ids({e \in spk.history : e[2] <= 0})
  /\ found'.evicted = found.evicted \cup Evicted(spk)

LEMMA DealtFinds ==
  ASSUME TypeInv, SyncInv, Scanning, Scanning', scan.batch # <<>>, Dealt,
         UNCHANGED <<place, wallet, request, quiet>>
  PROVE  SyncInv'
<1> DEFINE spk == Head(scan.batch)
           list == Head(scan.lists)
           n == Position
<1>1. scan'.lists = scan.lists /\ scan'.active = scan.active /\ scan'.gap = scan.gap
      /\ scan'.expected = scan.expected
  BY DEF Dealt
<1>2. ~Looking' /\ ~Ending' /\ stage # "Idle" /\ stage' # "Idle"
  BY DEF Scanning, Looking, Ending
<1>3. BatchInv' /\ Position' = n + 1
  BY BatchDealt DEF Dealt
<1>4. StageInv'
  BY <1>1, <1>2 DEF SyncInv, StageInv
<1>5. /\ spk \in Spks /\ n + 1 \in 1 .. Len(list) /\ spk.index = n + 1
      /\ quiet => spk.history = History(list[n + 1])
  BY NextScript
<1>6. scan \in Scans /\ n \in Nat
  BY PresentList
<1>7. scan.unused \in Nat /\ scan.last \in Nat
  BY <1>6, ScanFields
<1>8. \/ /\ spk.history = {} /\ scan.unused + 1 < scan.gap
         /\ scan'.unused = scan.unused + 1 /\ scan'.last = scan.last
      \/ spk.history # {} /\ scan'.unused = 0 /\ scan'.last = n + 1
  BY <1>5, Zenon DEF Dealt
<1> HIDE DEF spk, list, n
<1>9. EvictInv'
  <2> SUFFICES ASSUME quiet, request.kind = "sync"
               PROVE  /\ scan'.lists = <<AllScripts>> /\ scan'.gap = Len(AllScripts) + 1
                      /\ scan'.expected = [s \in Scripts |-> {t \in wallet'.txs : s \in Touches(t)}]
                      /\ scan'.unused <= Position' /\ (found.evicted = LostTo(Position))'
    BY <1>2, Zenon DEF EvictInv
  <2>1. /\ scan.lists = <<AllScripts>> /\ scan.gap = Len(AllScripts) + 1
        /\ scan.expected = [s \in Scripts |-> {t \in wallet.txs : s \in Touches(t)}]
        /\ scan.unused <= n /\ found.evicted = LostTo(n)
    BY Zenon DEF SyncInv, EvictInv, n
  <2>2. scan'.unused <= n + 1
    BY <1>6, <1>7, <1>8, <2>1
  <2>3. LostTo(n + 1) = LostTo(n) \cup Evicted(spk)
    BY LostNext DEF n, spk
  <2>4. found'.evicted = found.evicted \cup Evicted(spk)
    BY Zenon DEF Dealt, spk
  <2>5. LostTo(Position)' = LostTo(n + 1)
    <3>1. \A k : LostTo(k)' = LostTo(k)
      BY LostKept
    <3> QED
      BY <1>3, <3>1
  <2>6. [s \in Scripts |-> {t \in wallet'.txs : s \in Touches(t)}]
          = [s \in Scripts |-> {t \in wallet.txs : s \in Touches(t)}]
    OBVIOUS
  <2> QED
    BY <1>1, <1>3, <2>1, <2>2, <2>3, <2>4, <2>5, <2>6, Zenon
<1>10. OutpointInv'
  BY <1>2 DEF OutpointInv
<1>11. ScanInv'
  <2> DEFINE before == EntriesUpTo(Len(scan.active)) \cup Entries(list, n)
             entries == EntriesUpTo(Len(scan.active)) \cup Entries(list, Position)
  <2> SUFFICES ASSUME quiet, request.kind = "full_scan"
               PROVE  (DoneInv /\ RestInv /\ GapInv(list, Position) /\ Finds(entries))'
    BY <1>2, Zenon DEF ScanInv, list
  <2>1. DoneInv /\ RestInv /\ GapInv(list, n) /\ Finds(before)
    BY Zenon DEF SyncInv, ScanInv, list, n
  <2>2. /\ \A l, i : Used(l, i)' = Used(l, i)
        /\ \A l, i : GapEnds(l, i)' = GapEnds(l, i)
        /\ \A l : LastActive(l)' = LastActive(l)
        /\ \A l, k : Entries(l, k)' = Entries(l, k)
        /\ \A k : EntriesUpTo(k)' = EntriesUpTo(k)
    BY ListsKept
  <2>3. DoneInv' /\ RestInv'
    BY <1>1, <2>1, <2>2, Zenon DEF DoneInv, RestInv
  <2>4. spk.history = History(list[n + 1])
    BY <1>5
  <2>5. Used(list, n + 1) <=> spk.history # {}
    BY <2>4, Zenon DEF Used
  <2>6. /\ scan.gap = StopGap /\ scan.unused < StopGap /\ scan.last + scan.unused = n
        /\ scan.last # 0 => Used(list, scan.last)
        /\ \A i \in (scan.last + 1) .. n : ~Used(list, i)
        /\ \A i \in 1 .. n : ~GapEnds(list, i)
    BY <2>1 DEF GapInv
  <2>7. \A i \in 1 .. (n + 1) : ~GapEnds(list, i)
    <3>1. Used(list, n + 1) \/ scan.unused + 1 < StopGap
      BY <1>8, <2>5, <2>6
    <3> QED
      BY <1>6, <1>7, <2>6, <3>1, GapNext
  <2>8. /\ scan'.unused < StopGap /\ scan'.last + scan'.unused = n + 1
        /\ scan'.last # 0 => Used(list, scan'.last)
        /\ \A i \in (scan'.last + 1) .. (n + 1) : ~Used(list, i)
    <3>1. CASE spk.history = {}
      <4>1. /\ scan.unused + 1 < scan.gap /\ scan'.unused = scan.unused + 1
            /\ scan'.last = scan.last /\ ~Used(list, n + 1)
        BY <1>8, <2>5, <3>1
      <4>2. \A i \in (scan.last + 1) .. (n + 1) : i \in (scan.last + 1) .. n \/ i = n + 1
        BY <1>6, <1>7
      <4>3. \A i \in (scan.last + 1) .. (n + 1) : ~Used(list, i)
        BY <2>6, <4>1, <4>2, Zenon
      <4>4. scan.last + (scan.unused + 1) = n + 1
        BY <1>6, <1>7, <2>6
      <4> QED
        BY <2>6, <4>1, <4>3, <4>4
    <3>2. CASE spk.history # {}
      <4>1. scan'.unused = 0 /\ scan'.last = n + 1 /\ Used(list, n + 1)
        BY <1>8, <2>5, <3>2
      <4> QED
        BY <1>6, <4>1, SyncBounds
    <3> QED
      BY <3>1, <3>2
  <2>9. GapInv(list, Position)'
    <3>1. list' = list
      BY <1>1 DEF list
    <3>2. /\ scan'.last # 0 => Used(list, scan.last)'
          /\ \A i \in (scan'.last + 1) .. (n + 1) : ~Used(list, i)'
          /\ \A i \in 1 .. (n + 1) : ~GapEnds(list, i)'
      BY <2>2, <2>7, <2>8, <3>1, Zenon
    <3> QED
      BY <1>1, <1>3, <2>6, <2>8, <3>1, <3>2, Zenon DEF GapInv
  <2>10. entries' = before \cup spk.history
    <3>1. Entries(list, n + 1) = Entries(list, n) \cup spk.history
      BY <1>6, <2>4, EntriesNext
    <3>2. list' = list
      BY <1>1 DEF list
    <3>3. entries' = EntriesUpTo(Len(scan.active)) \cup Entries(list, n + 1)
      BY <1>1, <1>3, <2>2, <3>2, Zenon
    <3> QED
      BY <3>1, <3>3
  <2>11. Finds(entries)'
    <3>1. /\ found'.txs = found.txs \cup Ids(spk.history)
          /\ found'.pending = found.pending \cup {e \in spk.history : e[2] > 0}
          /\ found'.seen = found.seen \cup Ids({e \in spk.history : e[2] <= 0})
      BY Zenon DEF Dealt, spk
    <3> HIDE DEF before, entries
    <3>2. /\ found'.txs = Ids(entries') /\ found'.pending = {e \in entries' : e[2] > 0}
          /\ found'.seen = Ids({e \in entries' : e[2] <= 0})
      BY <2>1, <2>10, <3>1, FindsMore
    <3> QED
      BY <3>2, Zenon DEF Finds
  <2> QED
    BY <2>3, <2>9, <2>11
<1> QED
  BY <1>3, <1>4, <1>9, <1>10, <1>11 DEF SyncInv

\* Where the gap or the list ends, the definition of the gap says the same.
LEMMA GapReached ==
  ASSUME NEW list \in Seq(Scripts), NEW n \in Nat, n <= Len(list), scan \in Scans,
         GapInv(list, n), n = Len(list) \/ GapEnds(list, n + 1)
  PROVE  LastActive(list) = scan.last /\ ListEntries(list) = Entries(list, n)
<1>1. scan.last \in Nat /\ scan.unused \in Nat /\ scan.last + scan.unused = n
  BY ScanFields DEF GapInv
<1>2. /\ scan.last # 0 => Used(list, scan.last)
      /\ \A i \in (scan.last + 1) .. n : ~Used(list, i)
      /\ \A i \in 1 .. n : ~GapEnds(list, i)
  BY Zenon DEF GapInv
<1>3. Scanned(list) = 1 .. n
  <2> DEFINE L == Len(list)
  <2>1. DOMAIN list = 1 .. L /\ L \in Nat /\ n <= L /\ n \in Nat
    OBVIOUS
  <2> HIDE DEF L
  <2>2. ASSUME NEW i \in 1 .. n
        PROVE  i \in Scanned(list)
    <3>1. i \in DOMAIN list
      <4>1. i \in 1 .. L
        BY <2>1
      <4> QED
        BY <2>1, <4>1, Zenon
    <3>2. \A j \in 1 .. i : j \in 1 .. n
      <4> HIDE DEF GapInv
      <4> QED
        OBVIOUS
    <3> QED
      BY <1>2, <3>1, <3>2, Zenon DEF Scanned
  <2>3. ASSUME NEW i \in Scanned(list)
        PROVE  i \in 1 .. n
    <3>1. i \in 1 .. L /\ \A j \in 1 .. i : ~GapEnds(list, j)
      BY <2>1, Zenon DEF Scanned
    <3>2. CASE n = Len(list)
      BY <3>1, <3>2 DEF L
    <3>3. CASE GapEnds(list, n + 1)
      <4>1. n + 1 \notin 1 .. i
        BY <3>1, <3>3, Zenon
      <4>2. i \in Nat /\ i >= 1
        BY <2>1, <3>1
      <4> QED
        BY <4>1, <4>2
    <3> QED
      BY <3>2, <3>3
  <2> QED
    BY <2>2, <2>3
<1>4. ListEntries(list) = Entries(list, n)
  BY <1>3, Zenon DEF ListEntries, Entries
<1>5. LastActive(list) = scan.last
  <2> DEFINE T == {i \in Scanned(list) : Used(list, i)} \cup {0}
  <2>1. LastActive(list) = Max(T)
    BY Zenon DEF LastActive
  <2>2. T \in SUBSET (0 .. n) /\ T # {}
    BY <1>3
  <2>3. Max(T) \in T /\ \A m \in T : m <= Max(T)
    <3> HIDE DEF T
    <3> QED
      BY <2>2, Greatest
  <2>4. scan.last \in T
    <3>1. scan.last # 0 => scan.last \in 1 .. n
      BY <1>1
    <3> QED
      BY <1>2, <1>3, <3>1
  <2>5. \A m \in T : m <= scan.last
    <3> TAKE m \in T
    <3>1. m = 0 \/ (m \in 1 .. n /\ Used(list, m))
      BY <1>3
    <3>2. m \notin (scan.last + 1) .. n \/ m = 0
      BY <1>2, <3>1, Zenon
    <3> QED
      BY <1>1, <3>1, <3>2
  <2> HIDE DEF T
  <2>6. Max(T) <= scan.last /\ scan.last <= Max(T) /\ Max(T) \in 0 .. n
    BY <2>2, <2>3, <2>4, <2>5
  <2> QED
    BY <1>1, <2>1, <2>6
<1> QED
  BY <1>4, <1>5

\* The entries of one more list.
LEMMA ListsNext ==
  ASSUME NEW k \in Nat
  PROVE  EntriesUpTo(k + 1) = EntriesUpTo(k) \cup ListEntries(Keychains[k + 1])
<1>1. \A i : i \in 1 .. (k + 1) <=> i \in 1 .. k \/ i = k + 1
  OBVIOUS
<1> QED
  BY <1>1, Zenon DEF EntriesUpTo

\* The fields of a scan whose list has ended.
LEMMA ListDoneFields ==
  ASSUME scan \in Scans, scan.lists # <<>>, scan' = ListDone
  PROVE  /\ scan'.lists = Tail(scan.lists) /\ scan'.taken = 0 /\ Len(scan'.batch) = 0
         /\ scan'.unused = 0 /\ scan'.last = 0 /\ scan'.active = Append(scan.active, scan.last)
         /\ scan'.gap = scan.gap /\ scan'.expected = scan.expected /\ Position' = 0
<1> DEFINE none == <<>>
           lists == Tail(scan.lists)
           active == Append(scan.active, scan.last)
<1>1. scan' = [scan EXCEPT !.lists = lists, !.taken = 0, !.batch = none, !.unused = 0,
                           !.last = 0, !.active = active]
  BY Zenon DEF ListDone
<1>2. Len(none) = 0
  OBVIOUS
<1> HIDE DEF none, lists, active
<1>3. /\ scan'.lists = lists /\ scan'.taken = 0 /\ scan'.batch = none
      /\ scan'.unused = 0 /\ scan'.last = 0 /\ scan'.active = active
      /\ scan'.gap = scan.gap /\ scan'.expected = scan.expected
  BY <1>1 DEF Scans
<1>4. Position' = scan'.taken - Len(scan'.batch)
  BY Zenon DEF Position
<1> QED
  BY <1>2, <1>3, <1>4 DEF lists, active

\* A list ends: the gap is reached, or no script is left.
LEMMA ListDoneFinds ==
  ASSUME TypeInv, SyncInv, Scanning, scan' = ListDone,
         UNCHANGED <<place, wallet, request, quiet, found>>,
         stage' = IF scan'.lists # <<>> THEN "Spks"
                  ELSE IF request.kind = "sync" THEN "Txids" ELSE "PrevTxouts",
         \/ Position = Len(Head(scan.lists))
         \/ /\ scan.batch # <<>> /\ Head(scan.batch).history = {}
            /\ ~ (scan.unused + 1 < scan.gap)
  PROVE  SyncInv'
<1> DEFINE list == Head(scan.lists)
           n == Position
           K == Len(scan.active)
<1>1. /\ scan \in Scans /\ scan.lists # <<>> /\ list \in Seq(Scripts)
      /\ n \in Nat /\ n <= Len(list)
  BY PresentList
<1>2. /\ scan.lists \in Seq(Seq(Scripts)) /\ scan.active \in Seq(Nat)
      /\ scan.unused \in Nat /\ scan.last \in Nat
  BY <1>1, ScanFields
<1>3. /\ scan'.lists = Tail(scan.lists) /\ scan'.taken = 0 /\ Len(scan'.batch) = 0
      /\ scan'.unused = 0 /\ scan'.last = 0 /\ scan'.active = Append(scan.active, scan.last)
      /\ scan'.gap = scan.gap /\ scan'.expected = scan.expected /\ Position' = 0
  BY <1>1, ListDoneFields
<1>4. Tail(scan.lists) \in Seq(Seq(Scripts)) /\ Len(Tail(scan.lists)) = Len(scan.lists) - 1
      /\ \A i \in 1 .. (Len(scan.lists) - 1) : Tail(scan.lists)[i] = scan.lists[i + 1]
  BY <1>1, <1>2
<1>5. request.kind \in {"full_scan", "sync"}
  BY DEF SyncInv, StageInv, Scanning
<1>6. \/ scan'.lists # <<>> /\ Scanning' /\ ~Looking' /\ ~Ending'
      \/ scan'.lists = <<>> /\ request.kind = "sync" /\ Looking' /\ ~Scanning' /\ ~Ending'
      \/ scan'.lists = <<>> /\ request.kind = "full_scan" /\ Ending' /\ ~Scanning' /\ ~Looking'
  BY <1>5 DEF Scanning, Looking, Ending
<1>7. StageInv'
  BY <1>5, <1>6 DEF StageInv, Scanning, Looking, Ending
<1>8. BatchInv'
  <2> SUFFICES ASSUME Scanning'
               PROVE  0 <= Len(Head(scan'.lists))
    BY <1>3 DEF BatchInv
  <2>1. Head(Tail(scan.lists)) \in Seq(Scripts)
    BY <1>3, <1>4, <1>6
  <2>2. Len(Head(Tail(scan.lists))) \in Nat
    BY <2>1
  <2> QED
    BY <1>3, <2>2
<1>9. EvictInv'
  <2> SUFFICES ASSUME quiet, request.kind = "sync"
               PROVE  ~Scanning' /\ found'.evicted = LostTo(Len(AllScripts))'
    BY <1>6, Zenon DEF EvictInv
  <2>1. /\ scan.lists = <<AllScripts>> /\ scan.gap = Len(AllScripts) + 1
        /\ scan.unused <= n /\ found.evicted = LostTo(n)
    BY Zenon DEF SyncInv, EvictInv
  <2>2. list = AllScripts /\ Tail(scan.lists) = <<>>
    BY <2>1
  <2>3. n = Len(list)
    <3> SUFFICES ASSUME scan.batch # <<>>, ~ (scan.unused + 1 < scan.gap)
                 PROVE  FALSE
      OBVIOUS
    <3>1. n + 1 \in 1 .. Len(list) /\ Len(list) \in Nat
      BY <1>1, NextScript
    <3> HIDE DEF n, list
    <3> QED
      BY <1>1, <1>2, <2>1, <2>2, <3>1
  <2>4. \A k : LostTo(k)' = LostTo(k)
    BY LostKept
  <2>5. ~Scanning'
    BY <1>3, <1>6, <2>2
  <2> QED
    BY <2>1, <2>2, <2>3, <2>4, <2>5, Zenon
<1>10. OutpointInv'
  BY <1>6 DEF OutpointInv
<1>11. ScanInv'
  <2> DEFINE before == EntriesUpTo(K) \cup Entries(list, n)
  <2> SUFFICES ASSUME quiet, request.kind = "full_scan"
               PROVE  /\ DoneInv'
                      /\ Scanning' =>
                           /\ RestInv'
                           /\ GapInv(Head(scan.lists), Position)'
                           /\ Finds(EntriesUpTo(Len(scan.active))
                                      \cup Entries(Head(scan.lists), Position))'
                      /\ Ending' => /\ Len(scan'.active) = Len(Keychains)
                                    /\ Finds(EntriesUpTo(Len(Keychains)))'
    BY Zenon DEF ScanInv
  <2>1. DoneInv /\ RestInv /\ GapInv(list, n) /\ Finds(before)
    BY Zenon DEF SyncInv, ScanInv
  <2>2. /\ \A l, i : Used(l, i)' = Used(l, i)
        /\ \A l : LastActive(l)' = LastActive(l)
        /\ \A l, k : Entries(l, k)' = Entries(l, k)
        /\ \A k : EntriesUpTo(k)' = EntriesUpTo(k)
    BY ListsKept
  <2>3. n = Len(list) \/ GapEnds(list, n + 1)
    <3> SUFFICES ASSUME scan.batch # <<>>, Head(scan.batch).history = {},
                        ~ (scan.unused + 1 < scan.gap)
                 PROVE  GapEnds(list, n + 1)
      OBVIOUS
    <3>1. ~Used(list, n + 1)
      <4>1. History(list[n + 1]) = {}
        BY NextScript
      <4> QED
        BY <4>1, Zenon DEF Used
    <3>2. /\ scan.gap = StopGap /\ scan.unused < StopGap /\ scan.last + scan.unused = n
          /\ \A i \in (scan.last + 1) .. n : ~Used(list, i)
      BY <2>1 DEF GapInv
    <3>6. /\ n \in Nat /\ scan.last \in Nat /\ scan.unused \in Nat /\ StopGap \in Nat
          /\ scan.unused < StopGap /\ ~ (scan.unused + 1 < StopGap)
          /\ scan.last + scan.unused = n
      <4>1. StopGap \in Nat
        BY SyncBounds
      <4> QED
        BY <1>1, <1>2, <3>2, <4>1
    <3> HIDE DEF list, n
    <3>3. n + 1 >= StopGap /\ ((n + 1) - StopGap + 1) = scan.last + 1
      BY <3>6
    <3>4. \A j \in ((n + 1) - StopGap + 1) .. (n + 1) : j \in (scan.last + 1) .. n \/ j = n + 1
      BY <1>1, <1>2, <3>3
    <3>5. \A j \in ((n + 1) - StopGap + 1) .. (n + 1) : ~Used(list, j)
      BY <3>1, <3>2, <3>4, Zenon
    <3> QED
      BY <3>3, <3>5 DEF GapEnds
  <2>4. LastActive(list) = scan.last /\ ListEntries(list) = Entries(list, n)
    BY <1>1, <2>1, <2>3, GapReached
  <2>5. K \in Nat /\ 1 \in 1 .. Len(scan.lists) /\ list = scan.lists[1]
        /\ Len(scan'.active) = K + 1 /\ scan'.active[K + 1] = scan.last
        /\ \A k \in 1 .. K : scan'.active[k] = scan.active[k]
    BY <1>1, <1>2, <1>3
  <2>6. /\ K + Len(scan.lists) = Len(Keychains)
        /\ \A i \in 1 .. Len(scan.lists) : scan.lists[i] = Keychains[K + i]
    BY <2>1 DEF RestInv
  <2>7. list = Keychains[K + 1]
    BY <2>5, <2>6, Zenon
  <2> HIDE DEF list, n, K
  <2>8. DoneInv'
    <3> SUFFICES ASSUME NEW k \in 1 .. (K + 1)
                 PROVE  scan'.active[k] = LastActive(Keychains[k])'
      BY <2>5 DEF DoneInv
    <3>1. CASE k = K + 1
      BY <2>2, <2>4, <2>5, <2>7, <3>1, Zenon
    <3>2. CASE k # K + 1
      <4>1. k \in 1 .. K
        BY <2>5, <3>2
      <4>2. scan.active[k] = LastActive(Keychains[k])
        BY <2>1, <4>1, Zenon DEF DoneInv, K
      <4> QED
        BY <2>2, <2>5, <4>1, <4>2, Zenon
    <3> QED
      BY <3>1, <3>2
  <2>9. EntriesUpTo(K + 1) = before
    BY <2>4, <2>5, <2>7, ListsNext
  <2>10. RestInv'
    <3>1. Len(scan'.lists) = Len(scan.lists) - 1 /\ Len(scan.lists) \in Nat
      BY <1>2, <1>3, <1>4
    <3>2. Len(scan'.active) + Len(scan'.lists) = Len(Keychains)
      <4> DEFINE a == Len(scan.lists)
                 b == Len(scan'.lists)
                 c == Len(scan'.active)
                 d == Len(Keychains)
      <4>1. K + a = d /\ b = a - 1 /\ a \in Nat /\ K \in Nat /\ c = K + 1
        BY <2>5, <2>6, <3>1, Zenon
      <4> HIDE DEF a, b, c, d
      <4>2. c + b = d
        BY <4>1
      <4> QED
        BY <4>2, Zenon DEF b, c, d
    <3>3. ASSUME NEW i \in 1 .. Len(scan'.lists)
          PROVE  scan'.lists[i] = Keychains[Len(scan'.active) + i]
      <4>1. i \in 1 .. (Len(scan.lists) - 1) /\ i + 1 \in 1 .. Len(scan.lists)
            /\ K + (i + 1) = (K + 1) + i
        BY <2>5, <3>1
      <4>2. scan'.lists[i] = scan.lists[i + 1] /\ scan.lists[i + 1] = Keychains[K + (i + 1)]
        BY <1>3, <1>4, <2>6, <4>1, Zenon
      <4> QED
        BY <2>5, <4>1, <4>2, Zenon
    <3> QED
      BY <3>2, <3>3, Zenon DEF RestInv
  <2>11. GapInv(Head(scan.lists), Position)'
    <3>1. scan.gap = StopGap
      BY <2>1 DEF GapInv
    <3> QED
      BY <1>3, <3>1, SyncBounds DEF GapInv
  <2>12. ASSUME NEW E, E = before
         PROVE  found'.txs = Ids(E) /\ found'.pending = {e \in E : e[2] > 0}
                /\ found'.seen = Ids({e \in E : e[2] <= 0})
    BY <2>1, <2>12 DEF Finds
  <2> HIDE DEF before
  <2>13. Finds(EntriesUpTo(Len(scan.active)) \cup Entries(Head(scan.lists), Position))'
    <3> DEFINE E == EntriesUpTo(Len(scan'.active)) \cup Entries(Head(scan'.lists), 0)
    <3>1. Entries(Head(scan'.lists), 0) = {}
      BY DEF Entries
    <3>2. E = before
      BY <2>5, <2>9, <3>1
    <3>3. (EntriesUpTo(Len(scan.active)) \cup Entries(Head(scan.lists), Position))' = E
      BY <1>3, <2>2, Zenon
    <3> QED
      BY <2>12, <3>2, <3>3, Zenon DEF Finds
  <2>14. Ending' => /\ Len(scan'.active) = Len(Keychains)
                    /\ Finds(EntriesUpTo(Len(Keychains)))'
    <3> SUFFICES ASSUME Ending'
                 PROVE  /\ Len(scan'.active) = Len(Keychains)
                        /\ Finds(EntriesUpTo(Len(Keychains)))'
      OBVIOUS
    <3> DEFINE a == Len(scan.lists)
               d == Len(Keychains)
    <3>1. Len(Tail(scan.lists)) = 0 /\ Len(Tail(scan.lists)) = a - 1 /\ a \in Nat
      <4>1. scan'.lists = <<>>
        BY <1>6, Zenon
      <4>2. Tail(scan.lists) = <<>>
        BY <1>3, <4>1, Zenon
      <4>3. Len(scan.lists) \in Nat
        BY <1>2
      <4> QED
        BY <1>4, <4>2, <4>3
    <3>2. K + 1 = Len(Keychains)
      <4>1. K + a = d /\ 0 = a - 1 /\ a \in Nat /\ K \in Nat
        BY <2>5, <2>6, <3>1, Zenon
      <4> HIDE DEF a, d
      <4>2. K + 1 = d
        BY <4>1
      <4> QED
        BY <4>2, Zenon DEF d
    <3>3. EntriesUpTo(Len(Keychains)) = before
      BY <2>9, <3>2
    <3>4. EntriesUpTo(Len(Keychains))' = EntriesUpTo(Len(Keychains))
      BY <2>2, Zenon
    <3> QED
      BY <2>5, <2>12, <3>2, <3>3, <3>4, Zenon DEF Finds
  <2> QED
    BY <2>8, <2>10, <2>11, <2>13, <2>14
<1> QED
  BY <1>7, <1>8, <1>9, <1>10, <1>11 DEF SyncInv

\* The histories of a batch are asked for.
LEMMA FetchBatchFinds ==
  ASSUME TypeInv, SyncInv, Scanning, FetchBatch, stage' = "Spks",
         UNCHANGED <<place, wallet, request, quiet>>
  PROVE  SyncInv'
<1>1. Scanning' /\ ~Looking' /\ ~Ending' /\ stage # "Idle" /\ stage' # "Idle"
  BY DEF Scanning, Looking, Ending
<1>2. /\ BatchInv' /\ Position' = Position /\ UNCHANGED found
      /\ scan'.lists = scan.lists /\ scan'.unused = scan.unused /\ scan'.last = scan.last
      /\ scan'.active = scan.active /\ scan'.gap = scan.gap
      /\ scan'.expected = scan.expected
  BY <1>1, BatchFetched
<1>3. StageInv'
  BY <1>1, <1>2 DEF SyncInv, StageInv
<1>4. EvictInv'
  <2>1. \A n : LostTo(n)' = LostTo(n)
    BY LostKept
  <2> DEFINE lost == LostTo(Position)
  <2>2. quiet /\ request.kind = "sync" =>
          /\ scan.lists = <<AllScripts>> /\ scan.gap = Len(AllScripts) + 1
          /\ scan.expected = [s \in Scripts |-> {t \in wallet.txs : s \in Touches(t)}]
          /\ scan.unused <= Position /\ found.evicted = lost
    BY Zenon DEF SyncInv, EvictInv
  <2>3. lost' = lost
    BY <1>2, <2>1
  <2> QED
    BY <1>1, <1>2, <2>2, <2>3, Zenon DEF EvictInv
<1>5. OutpointInv'
  BY <1>1 DEF OutpointInv
<1>6. ScanInv'
  <2>1. /\ \A list, i : Used(list, i)' = Used(list, i)
        /\ \A list, i : GapEnds(list, i)' = GapEnds(list, i)
        /\ \A list : LastActive(list)' = LastActive(list)
        /\ \A list, n : Entries(list, n)' = Entries(list, n)
        /\ \A n : EntriesUpTo(n)' = EntriesUpTo(n)
    BY ListsKept
  <2> DEFINE list == Head(scan.lists)
             entries == EntriesUpTo(Len(scan.active)) \cup Entries(list, Position)
  <2> SUFFICES ASSUME quiet, request.kind = "full_scan"
               PROVE  (DoneInv /\ RestInv /\ GapInv(list, Position) /\ Finds(entries))'
    BY <1>1, Zenon DEF ScanInv
  <2>2. DoneInv /\ RestInv /\ GapInv(list, Position) /\ Finds(entries)
    BY Zenon DEF SyncInv, ScanInv
  <2>3. DoneInv' /\ RestInv'
    BY <1>2, <2>1, <2>2, Zenon DEF DoneInv, RestInv
  <2>4. GapInv(list, Position)'
    BY <1>2, <2>1, <2>2, Zenon DEF GapInv
  <2>5. entries' = entries
    BY <1>2, <2>1, Zenon
  <2>6. Finds(entries)'
    BY <1>2, <2>2, <2>5, Zenon DEF Finds
  <2> QED
    BY <2>3, <2>4, <2>6
<1> QED
  BY <1>2, <1>3, <1>4, <1>5, <1>6 DEF SyncInv

\* An unused script that does not end the list.
LEMMA UnusedIsDealt ==
  ASSUME TypeInv, SyncInv, Scanning, scan.batch # <<>>, Head(scan.batch).history = {},
         scan.unused + 1 < scan.gap,
         scan' = [scan EXCEPT !.batch = Tail(@), !.unused = @ + 1],
         found' = [found EXCEPT !.evicted = @ \cup Evicted(Head(scan.batch))]
  PROVE  Dealt
<1> DEFINE spk == Head(scan.batch)
           rest == Tail(scan.batch)
           unused == scan.unused + 1
           evicted == found.evicted \cup Evicted(spk)
<1>1. scan' = [scan EXCEPT !.batch = rest, !.unused = unused]
      /\ found' = [found EXCEPT !.evicted = evicted]
  BY Zenon
<1>2. scan \in Scans /\ found \in Founds
  BY DEF TypeInv, ScanType
<1>3. \A more : more = {} => Ids(more) = {} /\ {e \in more : e[2] > 0} = {}
                             /\ Ids({e \in more : e[2] <= 0}) = {}
  BY DEF Ids
<1> HIDE DEF spk, rest, unused, evicted
<1>4. /\ scan'.lists = scan.lists /\ scan'.taken = scan.taken /\ scan'.batch = rest
      /\ scan'.active = scan.active /\ scan'.gap = scan.gap /\ scan'.expected = scan.expected
      /\ scan'.unused = unused /\ scan'.last = scan.last
  BY <1>1, <1>2 DEF Scans
<1>5. /\ found'.txs = found.txs /\ found'.pending = found.pending
      /\ found'.seen = found.seen /\ found'.evicted = evicted
  BY <1>1, <1>2 DEF Founds
<1>6. spk.history = {}
  BY DEF spk
<1>7. /\ found'.txs = found.txs \cup Ids(spk.history)
      /\ found'.pending = found.pending \cup {e \in spk.history : e[2] > 0}
      /\ found'.seen = found.seen \cup Ids({e \in spk.history : e[2] <= 0})
  BY <1>3, <1>5, <1>6
<1> QED
  BY <1>4, <1>5, <1>6, <1>7, Zenon DEF Dealt, spk, rest, unused, evicted

\* A used script.
LEMMA UsedIsDealt ==
  ASSUME TypeInv, SyncInv, Scanning, UsedScript
  PROVE  Dealt
<1> DEFINE spk == Head(scan.batch)
           rest == Tail(scan.batch)
           index == spk.index
           f == Apply(found, spk.history)
           evicted == f.evicted \cup Evicted(spk)
           txs == found.txs \cup Ids(spk.history)
           pending == found.pending \cup {e \in spk.history : e[2] > 0}
           seenOf == found.seen \cup Ids({e \in spk.history : e[2] <= 0})
<1>1. /\ scan.batch # <<>> /\ spk.history # {}
      /\ scan' = [scan EXCEPT !.batch = rest, !.last = index, !.unused = 0]
      /\ found' = [f EXCEPT !.evicted = evicted]
  BY Zenon DEF UsedScript
<1>2. f = [found EXCEPT !.txs = txs, !.pending = pending, !.seen = seenOf]
  BY Zenon DEF Apply
<1>3. scan \in Scans /\ found \in Founds
  BY DEF TypeInv, ScanType
<1> HIDE DEF spk, rest, index, f, evicted, txs, pending, seenOf
<1>4. /\ scan'.lists = scan.lists /\ scan'.taken = scan.taken /\ scan'.batch = rest
      /\ scan'.active = scan.active /\ scan'.gap = scan.gap /\ scan'.expected = scan.expected
      /\ scan'.unused = 0 /\ scan'.last = index
  BY <1>1, <1>3 DEF Scans
<1>5. f.evicted = found.evicted
  BY <1>2, <1>3 DEF Founds
<1>6. /\ found'.txs = txs /\ found'.pending = pending
      /\ found'.seen = seenOf /\ found'.evicted = evicted
  BY <1>1, <1>2, <1>3 DEF Founds
<1> QED
  BY <1>1, <1>4, <1>5, <1>6, Zenon
     DEF Dealt, spk, rest, index, evicted, txs, pending, seenOf

LEMMA ScanSpksFinds ==
  ASSUME TypeInv, SyncInv, ScanSpks
  PROVE  SyncInv'
<1>1. /\ stage = "Spks" /\ PopulateWithSpks
      /\ stage' = IF scan'.lists # <<>> THEN "Spks"
                  ELSE IF request.kind = "sync" THEN "Txids" ELSE "PrevTxouts"
      /\ UNCHANGED <<place, wallet, request, quiet>>
  BY DEF ScanSpks, server, syncVars, history
<1>2. Scanning
  BY <1>1 DEF Scanning
<1>3. scan \in Scans /\ scan.lists # <<>>
  BY <1>2, PresentList
<1>4. CASE FetchBatch
  <2>1. scan'.lists = scan.lists
    <3>1. scan'.lists # <<>>
      BY <1>4, FetchBatchType DEF TypeInv
    <3>2. Scanning'
      BY <1>1, <3>1 DEF Scanning
    <3> QED
      BY <1>1, <1>2, <1>4, <3>2, BatchFetched
  <2>2. stage' = "Spks"
    BY <1>1, <1>3, <2>1
  <2> QED
    BY <1>1, <1>2, <1>4, <2>2, FetchBatchFinds
<1>5. CASE EndOfList
  <2>1. scan' = ListDone /\ UNCHANGED found /\ scan.batch = <<>>
        /\ scan.taken = Len(Head(scan.lists))
    BY <1>5, Zenon DEF EndOfList
  <2>2. Position = Len(Head(scan.lists))
    <3>1. Len(scan.batch) = 0 /\ scan.taken \in Nat
      BY <1>2, <2>1, PresentList
    <3> QED
      BY <2>1, <3>1 DEF Position
  <2> QED
    BY <1>1, <1>2, <2>1, <2>2, ListDoneFinds
<1>6. CASE UnusedScript
  <2>1. /\ scan.batch # <<>> /\ Head(scan.batch).history = {}
        /\ \/ /\ scan.unused + 1 < scan.gap
              /\ scan' = [scan EXCEPT !.batch = Tail(@), !.unused = @ + 1]
              /\ found' = [found EXCEPT !.evicted = @ \cup Evicted(Head(scan.batch))]
           \/ ~ (scan.unused + 1 < scan.gap) /\ scan' = ListDone /\ UNCHANGED found
    BY <1>6, Zenon DEF UnusedScript
  <2>2. CASE scan.unused + 1 < scan.gap
    <3>1. Dealt
      BY <1>2, <2>1, <2>2, UnusedIsDealt, Zenon
    <3>2. Scanning'
      BY <1>1, <1>3, <3>1 DEF Dealt, Scanning
    <3> QED
      BY <1>1, <1>2, <2>1, <3>1, <3>2, DealtFinds
  <2>3. CASE ~ (scan.unused + 1 < scan.gap)
    BY <1>1, <1>2, <2>1, <2>3, ListDoneFinds, Zenon
  <2> QED
    BY <2>2, <2>3
<1>7. CASE UsedScript
  <2>1. Dealt
    BY <1>2, <1>7, UsedIsDealt
  <2>2. Scanning'
    BY <1>1, <1>3, <2>1 DEF Dealt, Scanning
  <2>3. scan.batch # <<>>
    BY <1>7 DEF UsedScript
  <2> QED
    BY <1>1, <1>2, <2>1, <2>2, <2>3, DealtFinds
<1> QED
  BY <1>1, <1>4, <1>5, <1>6, <1>7 DEF PopulateWithSpks

-----------------------------------------------------------------------------
(* The invariant.                                                           *)

\* What a sync has skipped is decided by one step, after which a change of the
\* server ends the quiet.
LEMMA NextSkipInv == SkipInv /\ [Next]_vars => SkipInv'
<1> SUFFICES ASSUME SkipInv, [Next]_vars, quiet', stage' = "OutpointHistories"
             PROVE  \A o \in request'.outpoints : o[1] \in Present' => o \in found'.ops
  BY Zenon DEF SkipInv
<1>1. CASE Outpoints
  <2>1. /\ \A o \in request.outpoints \ found'.ops : o[1] \notin Present
        /\ UNCHANGED <<place, request>>
    BY <1>1 DEF Outpoints, server, syncVars
  <2>2. Present' = Present
    BY <2>1, HistoriesKept
  <2> QED
    BY <2>1, <2>2
<1>2. CASE Changes
  BY <1>2 DEF Changes
<1>3. CASE UNCHANGED vars
  <2>1. UNCHANGED <<place, request, found, quiet, stage>>
    BY <1>3 DEF vars, server, scanVars, syncVars, history
  <2>2. Present' = Present
    BY <2>1, HistoriesKept
  <2> QED
    BY <2>1, <2>2, Zenon DEF SkipInv
<1>4. CASE FullScan \/ PollSync
  BY <1>4 DEF FullScan, PollSync, Begins, Goes
<1>5. CASE FetchTip \/ ScanSpks \/ Txids
  BY <1>5 DEF FetchTip, ScanSpks, Txids, Goes
<1>6. CASE OutpointHistories \/ PrevTxouts \/ FetchAnchors \/ Finish \/ Applied
  BY <1>6 DEF OutpointHistories, PrevTxouts, FetchAnchors, Finish, Applied, Goes
<1>7. CASE Fails
  BY <1>7 DEF Fails
<1> QED
  BY <1>1, <1>2, <1>3, <1>4, <1>5, <1>6, <1>7 DEF Next, SyncStep

LEMMA InitSyncInv == Init => SyncInv /\ SkipInv
<1> SUFFICES ASSUME Init
             PROVE  SyncInv /\ SkipInv
  OBVIOUS
<1>1. stage = "Idle" /\ request.kind = "none" /\ scan.lists = <<>>
  BY DEF Init, NoRequest, NewScan
<1>2. ~Scanning /\ ~Looking /\ ~Ending
  BY <1>1 DEF Scanning, Looking, Ending
<1> QED
  BY <1>1, <1>2 DEF SyncInv, StageInv, BatchInv, EvictInv, OutpointInv, ScanInv, SkipInv

LEMMA NextSyncInv == IInv /\ SyncInv /\ SkipInv /\ [Next]_vars => SyncInv'
<1> SUFFICES ASSUME TypeInv, SyncInv, SkipInv, [Next]_vars
             PROVE  SyncInv'
  BY DEF IInv
<1>1. CASE Next
  BY <1>1, FullScanFinds, PollSyncFinds, FetchTipFinds, ScanSpksFinds, TxidsFinds,
     OutpointsFinds, OutpointHistoriesFinds, PrevTxoutsFinds, FetchAnchorsFinds, FinishFinds,
     ReturnsFinds, ChangesFinds, Zenon DEF Next, SyncStep
<1>2. CASE UNCHANGED vars
  <2>1. UNCHANGED <<place, scan, found, wallet, request, quiet, stage>>
    BY <1>2 DEF vars, server, scanVars, syncVars, history
  <2>2. (Scanning' <=> Scanning) /\ (Looking' <=> Looking) /\ (Ending' <=> Ending)
    BY <2>1 DEF Scanning, Looking, Ending
  <2> QED
    BY <2>1, <2>2, Unaffected
<1> QED
  BY <1>1, <1>2

\* What the scan of a quiet call has found, at each step of it, is what the
\* definition says of the scripts dealt with.
THEOREM ScanInvariant == Spec => []SyncInv
BY InitSyncInv, NextSyncInv, NextSkipInv, Invariant, PTL DEF Spec

-----------------------------------------------------------------------------
(* What a call finds.                                                       *)

\* A quiet sync evicts exactly the transactions that the wallet knows and the
\* server does not, up to the last script, for any number of scripts and any
\* size of a batch (populate_with_spks).
THEOREM EvictionsAreExact == Spec => []EvictionsExact
<1>1. IInv /\ SyncInv => EvictionsExact
  <2> SUFFICES ASSUME SyncInv, Synced, request.kind = "sync"
               PROVE  found.evicted = {t \in wallet.txs \ Present : Touches(t) \cap Range(AllScripts) # {}}
    BY DEF EvictionsExact
  <2>1. quiet /\ Ending
    BY DEF Synced, Ending
  <2>2. found.evicted = LostTo(Len(AllScripts))
    BY <2>1, Zenon DEF SyncInv, EvictInv
  <2>3. AllScripts \in Seq(Scripts)
    BY FlattenType, KeychainsAssumption DEF AllScripts
  <2>4. Range(AllScripts) = {AllScripts[i] : i \in 1 .. Len(AllScripts)}
    BY <2>3 DEF Range
  <2>5. \A t : (\E i \in 1 .. Len(AllScripts) : AllScripts[i] \in Touches(t))
                 <=> Touches(t) \cap Range(AllScripts) # {}
    BY <2>4
  <2> QED
    BY <2>2, <2>5, Zenon DEF LostTo
<1> QED
  BY <1>1, Invariant, ScanInvariant, PTL

\* A quiet sync finds the transaction of each outpoint it was asked for and the
\* one that spends it (populate_with_outpoints).
THEOREM OutpointsAreComplete == Spec => []OutpointsComplete
<1>1. SyncInv => OutpointsComplete
  <2> SUFFICES ASSUME SyncInv, Synced, request.kind = "sync",
                      NEW o \in request.outpoints, o[1] \in Present
               PROVE  {o[1]} \cup {t \in Present : o \in Inputs[t]} \subseteq found.txs
    BY Zenon DEF OutpointsComplete
  <2>1. quiet /\ Ending
    BY DEF Synced, Ending
  <2>2. Residing(o) \subseteq found.txs
    BY <2>1, Zenon DEF SyncInv, OutpointInv
  <2> QED
    BY <2>2, Zenon DEF Residing
<1> QED
  BY <1>1, ScanInvariant, PTL

\* A quiet full scan, in batches of any size, finds the last active index of
\* each keychain and the entries of the scripts before its gap, for any
\* keychains and any gap (populate_with_spks).
THEOREM ScansAreReference == Spec => []ScanIsReference
<1>1. IInv /\ SyncInv => ScanIsReference
  <2> SUFFICES ASSUME TypeInv, SyncInv, Synced, request.kind = "full_scan"
               PROVE  ScanIsReference
    BY DEF ScanIsReference, IInv
  <2> DEFINE used(list) == {i \in Scanned(list) : Used(list, i)}
             entries == UNION {UNION {History(Keychains[k][i]) : i \in used(Keychains[k])} :
                                 k \in DOMAIN Keychains}
             all == EntriesUpTo(Len(Keychains))
  <2>1. quiet /\ Ending
    BY DEF Synced, Ending
  <2>2. /\ \A k \in 1 .. Len(scan.active) : scan.active[k] = LastActive(Keychains[k])
        /\ Len(scan.active) = Len(Keychains) /\ Finds(all)
    BY <2>1, Zenon DEF SyncInv, ScanInv, DoneInv
  <2>3. DOMAIN Keychains = 1 .. Len(Keychains) /\ Len(Keychains) \in Nat
    BY KeychainsAssumption
  <2>4. scan.active \in Seq(Nat)
    BY ScanFields DEF TypeInv, ScanType
  <2>5. \A list : LastActive(list) = Max(used(list) \cup {0})
    BY Zenon DEF LastActive
  <2>6. scan.active = [k \in DOMAIN Keychains |-> Max(used(Keychains[k]) \cup {0})]
    <3> DEFINE g == [k \in DOMAIN Keychains |-> Max(used(Keychains[k]) \cup {0})]
    <3>1. DOMAIN scan.active = DOMAIN Keychains
      BY <2>2, <2>3, <2>4
    <3>2. DOMAIN g = DOMAIN Keychains /\ \A k \in DOMAIN Keychains : g[k] = LastActive(Keychains[k])
      <4> HIDE DEF used
      <4> QED
        BY <2>5, Zenon
    <3>3. \A k \in DOMAIN Keychains : scan.active[k] = g[k]
      BY <2>2, <2>3, <3>2, Zenon
    <3>4. scan.active = [k \in DOMAIN scan.active |-> scan.active[k]]
      BY <2>4
    <3>5. g = [k \in DOMAIN g |-> g[k]]
      BY Zenon
    <3> HIDE DEF g
    <3>6. scan.active = g
      BY <3>1, <3>2, <3>3, <3>4, <3>5
    <3> QED
      BY <3>6, Zenon DEF g
  <2>7. all = entries
    <3>1. ASSUME NEW list
          PROVE  ListEntries(list) = UNION {History(list[i]) : i \in used(list)}
      <4>1. \A i \in Scanned(list) : i \in used(list) \/ History(list[i]) = {}
        BY DEF Used
      <4>2. \A e : (\E i \in Scanned(list) : e \in History(list[i]))
                     <=> (\E i \in used(list) : e \in History(list[i]))
        BY <4>1
      <4> HIDE DEF used
      <4> QED
        BY <4>2 DEF ListEntries
    <3> HIDE DEF used
    <3>2. \A k \in DOMAIN Keychains :
            ListEntries(Keychains[k]) = UNION {History(Keychains[k][i]) : i \in used(Keychains[k])}
      BY <3>1, Zenon
    <3>3. all = UNION {ListEntries(Keychains[k]) : k \in DOMAIN Keychains}
      BY <2>3, Zenon DEF EntriesUpTo
    <3> QED
      BY <3>2, <3>3
  <2>8. found.seen = {t \in Ids(all) : place[t] = Mempool}
    <3>1. \A e \in all : e[2] = place[e[1]] /\ e[2] \in 0 .. MaxHeight
      <4> SUFFICES ASSUME NEW e \in all
                   PROVE  e[2] = place[e[1]] /\ e[2] \in 0 .. MaxHeight
        OBVIOUS
      <4>1. PICK k \in 1 .. Len(Keychains) : e \in ListEntries(Keychains[k])
        BY DEF EntriesUpTo
      <4>2. PICK s : e \in History(s)
        BY <4>1 DEF ListEntries
      <4> QED
        BY <4>2, HistoryType DEF TypeInv, Histories
    <3> HIDE DEF all
    <3>2. \A e \in all : e[2] <= 0 <=> place[e[1]] = Mempool
      <4> TAKE e \in all
      <4>1. e[2] = place[e[1]] /\ e[2] \in 0 .. MaxHeight
        BY <3>1
      <4> QED
        BY <4>1 DEF Mempool
    <3>3. found.seen = Ids({e \in all : e[2] <= 0})
      BY <2>2 DEF Finds
    <3> QED
      BY <3>2, <3>3 DEF Ids
  <2>9. found.txs = Ids(all) /\ found.pending = {e \in all : e[2] > 0}
    BY <2>2, Zenon DEF Finds
  <2>10. found.txs = Ids(entries) /\ found.pending = {e \in entries : e[2] > 0}
         /\ found.seen = {t \in Ids(entries) : place[t] = Mempool}
    <3> HIDE DEF all, entries
    <3> QED
      BY <2>7, <2>8, <2>9, Zenon
  <2> QED
    BY <2>6, <2>10, Zenon DEF ScanIsReference
<1> QED
  BY <1>1, Invariant, ScanInvariant, PTL

-----------------------------------------------------------------------------
(* Every call ends.                                                         *)

\* The place of a stage in the list of stages.
LEMMA RankIs ==
  ASSUME NEW k \in 1 .. 11, NEW s, s = Stages[k]
  PROVE  (CHOOSE i \in DOMAIN Stages : Stages[i] = s) = k
<1>1. DOMAIN Stages = 1 .. 11
  BY DEF Stages
<1>2. \A i \in 1 .. 11 : Stages[i] = Stages[k] => i = k
  BY DEF Stages
<1> HIDE DEF Stages
<1> QED
  BY <1>1, <1>2

LEMMA Ranks ==
  /\ stage = "Tip" => Rank = 11
  /\ stage = "Spks" => Rank = 10
  /\ stage = "Txids" => Rank = 9
  /\ stage = "TxidHistories" => Rank = 8
  /\ stage = "Outpoints" => Rank = 7
  /\ stage = "OutpointHistories" => Rank = 6
  /\ stage = "PrevTxouts" => Rank = 5
  /\ stage = "Anchors" => Rank = 4
  /\ stage = "Update" => Rank = 3
  /\ stage = "Done" => Rank = 2
  /\ stage = "Idle" => Rank = 1
<1>1. /\ Stages[11] = "Tip" /\ Stages[10] = "Spks" /\ Stages[9] = "Txids"
      /\ Stages[8] = "TxidHistories" /\ Stages[7] = "Outpoints"
      /\ Stages[6] = "OutpointHistories" /\ Stages[5] = "PrevTxouts" /\ Stages[4] = "Anchors"
      /\ Stages[3] = "Update" /\ Stages[2] = "Done" /\ Stages[1] = "Idle"
  BY DEF Stages
<1>2. \A k \in 1 .. 11 : stage = Stages[k] => Rank = k
  BY RankIs DEF Rank
<1> HIDE DEF Rank, Stages
<1> QED
  BY <1>1, <1>2

LEMMA NextRanks ==
  /\ stage' = "Tip" => Rank' = 11
  /\ stage' = "Spks" => Rank' = 10
  /\ stage' = "Txids" => Rank' = 9
  /\ stage' = "TxidHistories" => Rank' = 8
  /\ stage' = "Outpoints" => Rank' = 7
  /\ stage' = "OutpointHistories" => Rank' = 6
  /\ stage' = "PrevTxouts" => Rank' = 5
  /\ stage' = "Anchors" => Rank' = 4
  /\ stage' = "Update" => Rank' = 3
  /\ stage' = "Done" => Rank' = 2
  /\ stage' = "Idle" => Rank' = 1
<1>1. /\ Stages[11] = "Tip" /\ Stages[10] = "Spks" /\ Stages[9] = "Txids"
      /\ Stages[8] = "TxidHistories" /\ Stages[7] = "Outpoints"
      /\ Stages[6] = "OutpointHistories" /\ Stages[5] = "PrevTxouts" /\ Stages[4] = "Anchors"
      /\ Stages[3] = "Update" /\ Stages[2] = "Done" /\ Stages[1] = "Idle"
  BY DEF Stages
<1>2. \A k \in 1 .. 11 : stage' = Stages[k] => Rank' = k
  BY RankIs DEF Rank
<1> HIDE DEF Rank, Stages
<1> QED
  BY <1>1, <1>2

\* What is left in a stage.
LEMMA Lefts ==
  /\ stage = "Tip" /\ tip.at = "GetTip" => Left = Cardinality(prev) + 2
  /\ stage = "Tip" /\ tip.at = "Suffix" => Left = Cardinality(prev) + 1
  /\ stage = "Tip" /\ tip.at = "Walk" => Left = Cardinality(tip.left)
  /\ stage = "Spks" => Left = 2 * (Len(FlattenSeq(scan.lists)) - scan.taken)
                                + Len(scan.batch) + Len(scan.lists)
BY DEF Left

LEMMA NextLefts ==
  /\ stage' = "Tip" /\ tip'.at = "Suffix" => Left' = Cardinality(prev') + 1
  /\ stage' = "Tip" /\ tip'.at = "Walk" => Left' = Cardinality(tip'.left)
  /\ stage' = "Spks" => Left' = 2 * (Len(FlattenSeq(scan'.lists)) - scan'.taken)
                                 + Len(scan'.batch) + Len(scan'.lists)
BY DEF Left

LEMMA Joined ==
  ASSUME NEW S, NEW a \in Seq(S), NEW b \in Seq(S)
  PROVE  a \o b \in Seq(S) /\ Len(a \o b) = Len(a) + Len(b)
OBVIOUS

\* The scripts of the first list and of the others.
LEMMA FlattenLength ==
  ASSUME NEW S, NEW qs \in Seq(Seq(S)), qs # <<>>
  PROVE  Len(FlattenSeq(qs)) = Len(Head(qs)) + Len(FlattenSeq(Tail(qs)))
<1> DEFINE n == Len(qs)
           rest == Tail(qs)
           flatten == CHOOSE f : IsFlat(f, n, qs)
           others == CHOOSE f : IsFlat(f, n - 1, rest)
           Length(k) == IF k = 1 THEN 0 ELSE Len(others[k - 1])
           T == {k \in 0 .. n : k = 0 \/ (/\ flatten[k] \in Seq(S)
                                          /\ k = 1 \/ others[k - 1] \in Seq(S)
                                          /\ Len(flatten[k]) = Len(qs[1]) + Length(k))}
<1>1. n \in Nat /\ n - 1 \in Nat /\ rest \in Seq(Seq(S)) /\ Len(rest) = n - 1
      /\ Head(qs) = qs[1] /\ \A i \in 1 .. (n - 1) : rest[i] = qs[i + 1]
  OBVIOUS
<1>2. IsFlat(flatten, n, qs) /\ IsFlat(others, n - 1, rest)
  BY <1>1, FlatExists, Zenon
<1>3. FlattenSeq(qs) = flatten[n] /\ FlattenSeq(rest) = IF n - 1 = 0 THEN rest ELSE others[n - 1]
  <2>1. n # 0
    BY <1>1
  <2>2. FlattenSeq(qs) = IF n = 0 THEN qs ELSE flatten[n]
    BY DEF FlattenSeq, IsFlat
  <2> DEFINE m == Len(rest)
  <2>3. FlattenSeq(rest) = IF m = 0 THEN rest ELSE (CHOOSE f : IsFlat(f, m, rest))[m]
    <3> HIDE DEF rest
    <3> QED
      BY DEF FlattenSeq, IsFlat
  <2>4. m = n - 1
    BY <1>1
  <2> HIDE DEF m, flatten
  <2> QED
    BY <2>1, <2>2, <2>3, <2>4
<1> HIDE DEF flatten, others, rest
<1>4. \A i \in 1 .. n : flatten[i] = IF i = 1 THEN qs[i] ELSE flatten[i - 1] \o qs[i]
  BY <1>2, Zenon DEF IsFlat
<1>5. \A i \in 1 .. (n - 1) : others[i] = IF i = 1 THEN rest[i] ELSE others[i - 1] \o rest[i]
  BY <1>2, Zenon DEF IsFlat
<1>6. \A i \in 1 .. n : qs[i] \in Seq(S)
  BY MemberOfSeq, Zenon
<1>7. 0 \in T
  BY <1>1
<1>8. ASSUME NEW k \in 1 .. n, k - 1 \in T
      PROVE  k \in T
  <2>1. k \in Nat /\ k - 1 \in Nat /\ k >= 1 /\ k <= n /\ k \in 0 .. n
    BY <1>1
  <2>2. CASE k = 1
    BY <1>4, <1>6, <2>1, <2>2
  <2>3. CASE k # 1
    <3>1. k - 1 \in 1 .. n /\ k - 1 \in 1 .. (n - 1) /\ k - 1 # 0 /\ (k - 1) - 1 = k - 2
      BY <1>1, <2>1, <2>3
    <3>2. flatten[k - 1] \in Seq(S) /\ Len(flatten[k - 1]) = Len(qs[1]) + Length(k - 1)
          /\ (k - 1 = 1 \/ others[k - 2] \in Seq(S))
      BY <1>8, <3>1
    <3>3. qs[k] \in Seq(S) /\ qs[1] \in Seq(S) /\ rest[k - 1] = qs[k]
      <4>1. 1 \in 1 .. n /\ (k - 1) + 1 = k
        BY <2>1
      <4>2. rest[k - 1] = qs[(k - 1) + 1]
        BY <1>1, <3>1, Zenon
      <4> QED
        BY <1>6, <4>1, <4>2
    <3>4. flatten[k] = flatten[k - 1] \o qs[k]
      BY <1>4, <2>3, Zenon
    <3>5. flatten[k] \in Seq(S) /\ Len(flatten[k]) = Len(flatten[k - 1]) + Len(qs[k])
      BY <3>2, <3>3, <3>4, Joined
    <3>6. others[k - 1] \in Seq(S) /\ Len(others[k - 1]) = Length(k - 1) + Len(qs[k])
      <4>1. CASE k - 1 = 1
        <5>1. others[k - 1] = qs[k]
          BY <1>5, <3>1, <3>3, <4>1
        <5> QED
          BY <3>3, <4>1, <5>1
      <4>2. CASE k - 1 # 1
        <5>1. others[k - 1] = others[k - 2] \o qs[k] /\ Length(k - 1) = Len(others[k - 2])
          BY <1>5, <3>1, <3>3, <4>2
        <5>2. others[k - 2] \in Seq(S)
          BY <3>2, <4>2
        <5>3. others[k - 2] \o qs[k] \in Seq(S)
              /\ Len(others[k - 2] \o qs[k]) = Len(others[k - 2]) + Len(qs[k])
          BY <3>3, <5>2, Joined
        <5> HIDE DEF Length
        <5> QED
          BY <5>1, <5>3
      <4> QED
        BY <4>1, <4>2
    <3>7. Length(k) = Len(others[k - 1]) /\ Length(k - 1) \in Nat /\ Len(qs[1]) \in Nat
          /\ Len(qs[k]) \in Nat
      <4>1. k - 1 = 1 => Length(k - 1) = 0
        OBVIOUS
      <4>2. k - 1 # 1 => Length(k - 1) \in Nat
        <5>1. k - 1 # 1 => Length(k - 1) = Len(others[k - 2])
          BY <3>1
        <5> QED
          BY <3>2, <5>1
      <4> QED
        BY <2>3, <3>3, <4>1, <4>2
    <3> HIDE DEF Length
    <3>8. Len(flatten[k]) = Len(qs[1]) + Length(k)
      BY <3>2, <3>5, <3>6, <3>7
    <3> QED
      BY <2>1, <3>5, <3>6, <3>8
  <2> QED
    BY <2>2, <2>3
<1>9. T \in SUBSET (0 .. n)
  OBVIOUS
<1> HIDE DEF T
<1>10. T = 0 .. n
  BY <1>1, <1>7, <1>8, <1>9, Induction, Zenon
<1>11. n \in T /\ n # 0
  BY <1>1, <1>10
<1>12. Len(FlattenSeq(qs)) = Len(qs[1]) + Length(n)
  BY <1>3, <1>11, Zenon DEF T
<1>13. Length(n) = Len(FlattenSeq(rest))
  <2>1. CASE n = 1
    <3>1. rest = <<>>
      BY <1>1, <2>1
    <3>2. FlattenSeq(rest) = rest
      BY <1>3, <2>1
    <3> QED
      BY <2>1, <3>1, <3>2
  <2>2. CASE n # 1
    BY <1>1, <1>3, <2>2
  <2> QED
    BY <2>1, <2>2
<1> QED
  BY <1>1, <1>12, <1>13, Zenon DEF rest

\* There is less to do than before.
Less == Rank' < Rank \/ (Rank' = Rank /\ Left' < Left)

LEMMA TipEnds ==
  ASSUME TypeInv, TipInv, FetchTip
  PROVE  Less
<1>1. /\ stage = "Tip" /\ FetchTipAndLatestBlocks
      /\ stage' = IF tip'.at = "Done" THEN "Spks" ELSE "Tip"
  BY DEF FetchTip
<1>2. CASE tip'.at = "Done"
  <2>1. Rank = 11 /\ Rank' = 10
    BY <1>1, <1>2, Ranks, NextRanks
  <2> QED
    BY <2>1 DEF Less
<1>3. CASE tip'.at # "Done"
  <2>1. stage' = "Tip" /\ Rank = 11 /\ Rank' = 11
    BY <1>1, <1>3, Ranks, NextRanks
  <2>2. ServerType /\ TipType /\ tip \in Tips /\ IsChain(prev)
    BY DEF TypeInv, TipType
  <2>3. IsFiniteSet(prev) /\ Cardinality(prev) \in Nat
    <3>1. IsFiniteSet(0..MaxHeight) /\ IsFiniteSet(-1..MaxEvents)
      BY Bounds, FS_Interval
    <3>2. IsFiniteSet(Blocks)
      BY <3>1, FS_Product DEF Blocks
    <3>3. prev \in SUBSET Blocks
      BY <2>2 DEF IsChain
    <3> QED
      BY <3>2, <3>3, FS_Subset, FS_CardinalityType
  <2>4. CASE GetTip
    <3>1. UNCHANGED prev /\ tip.at = "GetTip" /\ tip'.at = "Suffix"
      BY <1>3, <2>2, <2>4, GetTipType
    <3>2. Left = Cardinality(prev) + 2 /\ Left' = Cardinality(prev) + 1
      BY <1>1, <2>1, <3>1, Lefts, NextLefts
    <3> QED
      BY <2>1, <2>3, <3>2 DEF Less
  <2>5. CASE Suffix
    <3>1. tip.at = "Suffix" /\ tip'.at = "Walk" /\ tip'.left = prev
      BY <2>2, <2>5, SuffixType
    <3>2. Left = Cardinality(prev) + 1 /\ Left' = Cardinality(prev)
      BY <1>1, <2>1, <3>1, Lefts, NextLefts
    <3> QED
      BY <2>1, <2>3, <3>2 DEF Less
  <2>6. CASE Walk
    <3> DEFINE left == tip.left \ {NextLeft}
    <3>1. /\ tip.at = "Walk"
          /\ tip' = IF NextBlock = NextLeft
                      THEN [tip EXCEPT !.at = "Done", !.latest = NextLatest,
                                       !.blocks = Connected(NextLeft[1], NextLatest)]
                    ELSE IF tip.left = {NextLeft}
                      THEN [tip EXCEPT !.at = "Done", !.latest = NextLatest,
                                       !.blocks = Connected(-1, NextLatest)]
                    ELSE [tip EXCEPT !.latest = NextLatest, !.left = left]
      BY <2>6, Zenon DEF Walk, NextLeft, NextBlock, NextLatest
    <3>2. tip.left # {}
      BY <1>1, <3>1 DEF TipInv, Descended
    <3>3. NextLeft \in tip.left /\ tip.left \in SUBSET prev
      BY <2>2, <3>2, NextLeftIsTop DEF TipType
    <3>4. IsFiniteSet(tip.left)
      BY <2>3, <3>3, FS_Subset
    <3>5. Cardinality(left) = Cardinality(tip.left) - 1 /\ Cardinality(tip.left) \in Nat
      BY <3>3, <3>4, FS_RemoveElement, FS_CardinalityType
    <3> HIDE DEF left
    <3>6. tip'.at = "Walk" /\ tip'.left = left
      BY <1>3, <2>2, <3>1 DEF Tips
    <3>7. Left = Cardinality(tip.left) /\ Left' = Cardinality(left)
      BY <1>1, <2>1, <3>1, <3>6, Lefts, NextLefts
    <3> QED
      BY <2>1, <3>5, <3>7 DEF Less
  <2> QED
    BY <1>1, <2>4, <2>5, <2>6 DEF FetchTipAndLatestBlocks
<1> QED
  BY <1>2, <1>3

LEMMA SpksEnd ==
  ASSUME TypeInv, SyncInv, ScanSpks
  PROVE  Less
<1>1. /\ stage = "Spks" /\ PopulateWithSpks /\ UNCHANGED <<place, wallet, request, quiet>>
      /\ stage' = IF scan'.lists # <<>> THEN "Spks"
                  ELSE IF request.kind = "sync" THEN "Txids" ELSE "PrevTxouts"
  BY DEF ScanSpks, server, syncVars, history
<1>2. Scanning
  BY <1>1 DEF Scanning
<1>3. CASE scan'.lists = <<>>
  <2>1. Rank = 10 /\ Rank' \in {9, 5}
    BY <1>1, <1>3, Ranks, NextRanks
  <2> QED
    BY <2>1 DEF Less
<1>4. CASE scan'.lists # <<>>
  <2> DEFINE flat == Len(FlattenSeq(scan.lists))
             flat1 == Len(FlattenSeq(scan'.lists))
             batch == Len(scan.batch)
             batch1 == Len(scan'.batch)
             lists == Len(scan.lists)
             lists1 == Len(scan'.lists)
  <2>1. stage' = "Spks" /\ Rank = 10 /\ Rank' = 10 /\ Scanning'
    BY <1>1, <1>4, Ranks, NextRanks DEF Scanning
  <2>2. /\ Left = 2 * (flat - scan.taken) + batch + lists
        /\ Left' = 2 * (flat1 - scan'.taken) + batch1 + lists1
    BY <1>1, <2>1, Lefts, NextLefts, Zenon
  <2>3. scan \in Scans /\ scan' \in Scans
    BY <1>1, PopulateType DEF TypeInv, ScanType
  <2>4. /\ scan.lists \in Seq(Seq(Scripts)) /\ scan.lists # <<>>
        /\ scan.taken \in Nat /\ scan'.taken \in Nat /\ scan.batch \in Seq(Spks)
        /\ scan'.lists \in Seq(Seq(Scripts)) /\ scan'.batch \in Seq(Spks)
    BY <1>2, <2>3, PresentList DEF Scans
  <2>5. flat \in Nat /\ flat1 \in Nat
    <3>1. FlattenSeq(scan.lists) \in Seq(Scripts) /\ FlattenSeq(scan'.lists) \in Seq(Scripts)
      BY <2>4, FlattenType
    <3> QED
      BY <3>1
  <2>6. batch \in Nat /\ batch1 \in Nat /\ lists \in Nat /\ lists1 \in Nat
    BY <2>4
  <2>7. Position = scan.taken - batch /\ Position' = scan'.taken - batch1
    BY Zenon DEF Position
  <2>8. CASE FetchBatch
    <3>1. /\ scan'.lists = scan.lists /\ Position' = Position /\ scan.taken < scan'.taken
          /\ scan.batch = <<>>
      BY <1>1, <1>2, <2>1, <2>8, BatchFetched DEF FetchBatch
    <3>2. flat1 = flat /\ lists1 = lists /\ batch = 0
      BY <3>1
    <3> HIDE DEF flat, flat1, batch, batch1, lists, lists1
    <3>3. scan'.taken - batch1 = scan.taken - batch
      BY <2>7, <3>1, Zenon
    <3>4. batch1 = scan'.taken - scan.taken
      BY <2>4, <2>6, <3>2, <3>3
    <3>5. Left' = 2 * (flat - scan'.taken) + (scan'.taken - scan.taken) + lists
          /\ Left = 2 * (flat - scan.taken) + 0 + lists
      BY <2>2, <3>2, <3>4, Zenon
    <3>6. Left' < Left
      BY <2>4, <2>5, <2>6, <3>1, <3>5
    <3> QED
      BY <2>1, <3>6 DEF Less
  <2>9. ASSUME Dealt, scan.batch # <<>>
        PROVE  Less
    <3>1. scan'.lists = scan.lists /\ scan'.taken = scan.taken /\ scan'.batch = Tail(scan.batch)
      BY <2>9 DEF Dealt
    <3>2. flat1 = flat /\ lists1 = lists
      BY <3>1
    <3>3. batch1 = batch - 1
      BY <2>4, <2>9, <3>1
    <3> HIDE DEF flat, flat1, batch, batch1, lists, lists1
    <3>4. Left' < Left
      BY <2>2, <2>4, <2>5, <2>6, <3>1, <3>2, <3>3
    <3> QED
      BY <2>1, <3>4 DEF Less
  <2>10. ASSUME scan' = ListDone
         PROVE  Less
    <3> DEFINE head == Len(Head(scan.lists))
    <3>1. scan'.lists = Tail(scan.lists) /\ scan'.taken = 0 /\ batch1 = 0
      BY <2>3, <2>4, <2>10, ListDoneFields
    <3>2. lists1 = lists - 1
      BY <2>4, <3>1
    <3>3. flat = head + flat1
      BY <2>4, <3>1, FlattenLength
    <3>4. head \in Nat
      BY <2>4
    <3>5. scan.taken <= head
      BY <1>2, Zenon DEF SyncInv, BatchInv
    <3> HIDE DEF flat, flat1, batch, batch1, lists, lists1, head
    <3>6. Left' < Left
      BY <2>2, <2>4, <2>5, <2>6, <3>1, <3>2, <3>3, <3>4, <3>5
    <3> QED
      BY <2>1, <3>6 DEF Less
  <2>11. CASE EndOfList
    BY <2>10, <2>11, Zenon DEF EndOfList
  <2>12. CASE UnusedScript
    <3>1. /\ scan.batch # <<>> /\ Head(scan.batch).history = {}
          /\ \/ /\ scan.unused + 1 < scan.gap
                /\ scan' = [scan EXCEPT !.batch = Tail(@), !.unused = @ + 1]
                /\ found' = [found EXCEPT !.evicted = @ \cup Evicted(Head(scan.batch))]
             \/ scan' = ListDone
      BY <2>12, Zenon DEF UnusedScript
    <3> QED
      BY <1>2, <2>9, <2>10, <3>1, UnusedIsDealt, Zenon
  <2>13. CASE UsedScript
    <3>1. scan.batch # <<>>
      BY <2>13 DEF UsedScript
    <3> QED
      BY <1>2, <2>9, <2>13, <3>1, UsedIsDealt
  <2> QED
    BY <1>1, <2>8, <2>11, <2>12, <2>13 DEF PopulateWithSpks
<1> QED
  BY <1>3, <1>4

\* Every call ends: each step of it, one that fails included, goes to a later stage
\* or leaves less to do in its own, for a wallet and lists of any size, whatever
\* the server does between two requests.
THEOREM CallsEnd == Spec => CallEnds
<1>1. ASSUME IInv, SyncInv, SyncStep
      PROVE  Less
  <2>1. CASE FetchTip
    BY <1>1, <2>1, TipEnds DEF IInv
  <2>2. CASE ScanSpks
    BY <1>1, <2>2, SpksEnd DEF IInv
  <2>3. CASE Txids \/ Outpoints \/ OutpointHistories
    <3>1. \/ stage = "Txids" /\ stage' = "TxidHistories"
          \/ stage = "TxidHistories" /\ stage' = "Outpoints"
          \/ stage = "Outpoints" /\ stage' = "OutpointHistories"
          \/ stage = "OutpointHistories" /\ stage' = "PrevTxouts"
      BY <2>3, Zenon DEF Txids, Outpoints, OutpointHistories, Goes
    <3>2. Rank' < Rank
      BY <3>1, Ranks, NextRanks
    <3> QED
      BY <3>2 DEF Less
  <2>4. CASE PrevTxouts \/ FetchAnchors \/ Finish \/ Applied
    <3>1. \/ stage = "PrevTxouts" /\ stage' \in {"Update", "Anchors"}
          \/ stage = "Anchors" /\ stage' = "Update"
          \/ stage = "Update" /\ stage' = "Done"
          \/ stage = "Done" /\ stage' = "Idle"
      BY <2>4 DEF PrevTxouts, FetchAnchors, Finish, Applied, Goes
    <3>2. Rank' < Rank
      BY <3>1, Ranks, NextRanks
    <3> QED
      BY <3>2 DEF Less
  <2> QED
    BY <1>1, <2>1, <2>2, <2>3, <2>4 DEF SyncStep
<1>2. ASSUME IInv, Fails
      PROVE  Less
  <2>1. stage \in {"Tip", "Spks", "Txids", "TxidHistories", "OutpointHistories", "PrevTxouts"}
    BY <1>2 DEF Fails
  <2>2. stage' = "Idle"
    BY <1>2 DEF Fails
  <2>3. Rank' < Rank
    BY <2>1, <2>2, Ranks, NextRanks
  <2> QED
    BY <2>3 DEF Less
<1>3. FullScan \/ PollSync => stage = "Idle"
  BY DEF FullScan, PollSync, Begins, Goes
<1>4. ASSUME IInv, Changes
      PROVE  ~UNCHANGED server
  <2>1. events' = events + 1
    BY <1>4 DEF Changes, ServerEvent, NewBlocks, MempoolChange
  <2>2. events \in Int
    BY <1>4, ServerBounds DEF IInv, TypeInv, ServerType
  <2> QED
    BY <2>1, <2>2 DEF server
<1>5. ASSUME IInv, SyncInv, Next, stage # "Idle", UNCHANGED server
      PROVE  Less
  BY <1>1, <1>2, <1>3, <1>4, <1>5, Zenon DEF Next
<1>6. IInv /\ SyncInv /\ [Next]_vars =>
        [stage # "Idle" /\ UNCHANGED server =>
           Rank' < Rank \/ (Rank' = Rank /\ Left' < Left)]_vars
  BY <1>5, Zenon DEF Less
<1> QED
  BY <1>6, Invariant, ScanInvariant, PTL DEF Spec, CallEnds

=============================================================================
