------------------------------ MODULE SpkScan ------------------------------
(***************************************************************************)
(* What a wallet sync collects about scripts, transactions and outpoints   *)
(* (bdk-tokio-electrum, client.rs, populate_with_spks, populate_with_txids,*)
(* populate_with_outpoints and fetch_prev_txout).  Histories are requested *)
(* in batches, transactions one by one unless they are in the cache.  The  *)
(* server may change between two steps; the transactions of a history are  *)
(* fetched in one.  A request that fails fails the sync: Sync adds that.   *)
(***************************************************************************)
EXTENDS ElectrumServer, SequencesExt

CONSTANT BatchSize  \* batch_size

ASSUME BatchAssumption == BatchSize \in Nat \ {0}

VARIABLES
  scan,    \* the local variables of populate_with_spks, over its calls
  found,   \* tx_update and pending_anchors, and ops_spks_txs
  txCache  \* tx_cache

scanVars == <<scan, found, txCache>>

\* The lists of scripts still to scan, how many of the first were requested,
\* the histories of the batch, unused_spk_count, last_active_index, the results
\* of the lists done; stop_gap and the expected txids.
NewScan(lists, gap, expected) ==
  [lists |-> lists, taken |-> 0, batch |-> <<>>, unused |-> 0, last |-> 0,
   active |-> <<>>, gap |-> gap, expected |-> expected]

NothingFound ==
  [txs |-> {}, pending |-> {}, seen |-> {}, evicted |-> {}, txouts |-> {}, ops |-> {}]

Ids(history) == {e[1] : e \in history}

\* transaction_get succeeds, or the transaction is in the cache.
Fetchable(txs) == txs \subseteq Present \cup txCache

\* apply_history_height() for the entries of a history, whose transactions are
\* kept: a positive height gives a pending anchor, another a sighting.
Apply(update, entries) ==
  [update EXCEPT !.txs = @ \cup Ids(entries),
                 !.pending = @ \cup {e \in entries : e[2] > 0},
                 !.seen = @ \cup Ids({e \in entries : e[2] <= 0})]

-----------------------------------------------------------------------------
(* Scripts.  Index 1 is the first script of a list, 0 stands for none.       *)

\* Request the histories of the next scripts of the list.
FetchBatch ==
  /\ scan.lists # <<>> /\ scan.batch = <<>>
  /\ scan.taken < Len(Head(scan.lists))
  /\ LET list == Head(scan.lists)
         upto == IF scan.taken + BatchSize < Len(list) THEN scan.taken + BatchSize ELSE Len(list)
     IN scan' = [scan EXCEPT !.taken = upto,
          !.batch = [i \in 1..(upto - scan.taken) |->
            LET index == scan.taken + i IN
            [index |-> index, script |-> list[index], history |-> History(list[index])]]]
  /\ UNCHANGED <<found, txCache>>

\* The scan of a list returns; that of the next begins.
ListDone ==
  [scan EXCEPT !.lists = Tail(@), !.taken = 0, !.batch = <<>>, !.unused = 0, !.last = 0,
               !.active = Append(@, scan.last)]

\* No script is left.
EndOfList ==
  /\ scan.lists # <<>> /\ scan.batch = <<>>
  /\ scan.taken = Len(Head(scan.lists))
  /\ scan' = ListDone
  /\ UNCHANGED <<found, txCache>>

Evicted(spk) == scan.expected[spk.script] \ Ids(spk.history)

\* An unused script: the gap ends the scan before anything else is recorded.
UnusedScript ==
  /\ scan.batch # <<>>
  /\ LET spk == Head(scan.batch) IN
       /\ spk.history = {}
       /\ IF scan.unused + 1 < scan.gap
            THEN /\ scan' = [scan EXCEPT !.batch = Tail(@), !.unused = @ + 1]
                 /\ found' = [found EXCEPT !.evicted = @ \cup Evicted(spk)]
            ELSE scan' = ListDone /\ UNCHANGED found
  /\ UNCHANGED txCache

\* Variant of UsedScript that goes on counting.
UsedScriptCounts ==
  /\ scan.batch # <<>>
  /\ LET spk == Head(scan.batch) IN
       /\ spk.history # {} /\ Fetchable(Ids(spk.history))
       /\ scan' = [scan EXCEPT !.batch = Tail(@), !.last = spk.index]
       /\ found' = [Apply(found, spk.history) EXCEPT !.evicted = @ \cup Evicted(spk)]
       /\ txCache' = txCache \cup Ids(spk.history)

\* A used script: its transactions are fetched.
UsedScript ==
  /\ scan.batch # <<>>
  /\ LET spk == Head(scan.batch) IN
       /\ spk.history # {} /\ Fetchable(Ids(spk.history))
       /\ scan' = [scan EXCEPT !.batch = Tail(@), !.last = spk.index, !.unused = 0]
       /\ found' = [Apply(found, spk.history) EXCEPT !.evicted = @ \cup Evicted(spk)]
       /\ txCache' = txCache \cup Ids(spk.history)

PopulateWithSpks == FetchBatch \/ EndOfList \/ UnusedScript \/ UsedScript

-----------------------------------------------------------------------------
(* Transactions and outpoints.                                              *)

\* Fetch the transactions asked for; one that fails fails the sync.
FetchTxids(txids) ==
  /\ Fetchable(txids)
  /\ txCache' = txCache \cup txids
  /\ UNCHANGED <<scan, found>>

\* Look each of them up in the history of its first output.
ApplyTxids(txids) ==
  LET entries == {e \in UNION {History(Outputs[t][1]) : t \in txids} : e[1] \in txids} IN
  /\ found' = [Apply(found, entries) EXCEPT !.txs = @ \cup txids]
  /\ UNCHANGED <<scan, txCache>>

\* Fetch the transactions of the outpoints: one that fails is left out, which a
\* cached one cannot.
FetchOutpoints(outpoints) ==
  \E got \in SUBSET outpoints :
    /\ Fetchable(Ids(got))
    /\ \A o \in outpoints \ got : o[1] \notin txCache
    /\ found' = [found EXCEPT !.ops = got]
    /\ txCache' = txCache \cup Ids(got)
    /\ UNCHANGED scan

\* Variant of Related that stops at the transaction of the outpoint.
RelatedResiding(o, history) == {e \in history : e[1] = o[1]}

\* Of the history of its script: the transaction an outpoint is in and the one
\* that spends it.
Related(o, history) == {e \in history : e[1] = o[1] \/ o \in Inputs[e[1]]}

\* All the histories in one batch; the other transactions of a history are
\* fetched until one spends the outpoint.
ApplyOutpoints ==
  LET history(o) == History(ScriptOf(o))
      entries == UNION {Related(o, history(o)) : o \in found.ops}
      unspent == {o \in found.ops : \A e \in history(o) : o \notin Inputs[e[1]]}
      looked(ops) == UNION {Ids(history(o)) : o \in ops}
  IN /\ found' = Apply(found, entries)
     /\ \E extra \in SUBSET looked(found.ops) :
          txCache' = txCache \cup Ids(entries) \cup looked(unspent) \cup extra
     /\ UNCHANGED scan

\* fetch_prev_txout(): the outputs that the transactions found spend.
FetchPrevTxouts ==
  LET spent == UNION {Inputs[t] : t \in found.txs} IN
  /\ Fetchable(Ids(spent))
  /\ found' = [found EXCEPT !.txouts = @ \cup spent]
  /\ txCache' = txCache \cup Ids(spent)
  /\ UNCHANGED scan

=============================================================================
