-------------------------------- MODULE Sync --------------------------------
(***************************************************************************)
(* full_scan and sync of the wallet client (bdk-tokio-electrum,            *)
(* client.rs): the tip, the scripts, the transactions and outpoints, the   *)
(* previous outputs, the anchors, and last the chain update.  One call     *)
(* follows another; between them the wallet applies the result (external:  *)
(* bdk_wallet).  Clones that sync at the same time share only the caches,  *)
(* which is what Anchors is about.                                         *)
(*                                                                         *)
(* batch_fetch_anchors is one step here, by what Anchors shows of it: an   *)
(* anchor names a block that contains the transaction (AnchorProven) and   *)
(* was on the best chain during the call of batch_fetch_anchors unless it  *)
(* comes from the cache (FreshAnchors).  Any may be missing: a request for  *)
(* its header or its proof may fail even if the server does not change.    *)
(***************************************************************************)
EXTENDS TipUpdate, SpkScan

CONSTANTS
  Keychains,  \* the scripts of each keychain of the wallet, in order
  StopGap,    \* stop_gap of full_scan
  Requests,   \* the arguments of sync
  Wallets,    \* the checkpoints the wallet may start with
  FetchPrev,  \* the values of fetch_prev_txouts of full_scan
  MaxCalls    \* bound: calls of full_scan and sync

ASSUME SyncBounds == StopGap \in Nat \ {0} /\ MaxCalls \in Nat
ASSUME FetchPrevAssumption == FetchPrev \subseteq BOOLEAN

\* A wallet has a keychain.
ASSUME KeychainsAssumption == Keychains \in Seq(Seq(Scripts)) \ {<<>>}

\* The arguments of sync name transactions, and outputs that they have.
ASSUME RequestsAssumption ==
  Requests \subseteq [kind : {"sync"}, txids : SUBSET Txs, fetchPrev : BOOLEAN,
                     outpoints : SUBSET UNION {{t} \X DOMAIN Outputs[t] : t \in Txs}]

Blocks == (0..MaxHeight) \X (-1..MaxEvents)

\* A chain has one block for a height.
IsChain(blocks) == blocks \subseteq Blocks /\ \A b, c \in blocks : b[1] = c[1] => b = c

\* The wallet starts with checkpoints of one chain, the server's (event 0) or a
\* fork of it (-1).
ASSUME WalletsAssumption ==
  \A blocks \in Wallets :
    /\ IsChain(blocks)
    /\ \A b \in blocks : b[2] \in {-1, 0}
    /\ \A b, c \in blocks : b[2] = 0 /\ c[1] < b[1] => c[2] = 0

VARIABLES
  stage,    \* where the call is
  request,  \* its arguments
  wallet,   \* the wallet's checkpoints and transactions
  given,    \* anchor_cache: every anchor given out
  anchors,  \* the anchors of this call: <<transaction, block>>
  update,   \* its chain update
  calls,    \* number of calls
  quiet,    \* history: the server did not change and no outpoint that it has was skipped
  seen,     \* history: blocks on the best chain since the anchors were asked for
  stale,    \* history: blocks of anchors from the cache that had left the chain
  mixed     \* history: a call joined two chains (see Joins)

syncVars == <<request, wallet, given, anchors, update, calls>>
history == <<quiet, seen, stale, mixed>>
vars == <<server, tipVars, scanVars, stage, syncVars, history>>

NoRequest == [kind |-> "none", txids |-> {}, outpoints |-> {}, fetchPrev |-> FALSE]

Init ==
  /\ ServerInit
  /\ prev = {} /\ tip = NewTip
  /\ scan = NewScan(<<>>, 1, [s \in Scripts |-> {}])
  /\ found = NothingFound
  /\ txCache = {}
  /\ stage = "Idle"
  /\ request = NoRequest
  /\ wallet \in [chain : Wallets, txs : {{}}]
  /\ given = {} /\ anchors = {} /\ update = {}
  /\ calls = 0
  /\ quiet = TRUE /\ seen = {} /\ stale = {} /\ mixed = FALSE

-----------------------------------------------------------------------------
Goes(from, to) == stage = from /\ stage' = to

\* A call begins.  Without a chain tip in the request there is none to fetch.
Begins(req, lists, gap, expected) ==
  /\ calls < MaxCalls
  /\ calls' = calls + 1
  /\ Goes("Idle", IF wallet.chain = {} THEN "Spks" ELSE "Tip")
  /\ request' = req
  /\ prev' = wallet.chain /\ tip' = NewTip
  /\ scan' = NewScan(lists, gap, expected)
  /\ found' = NothingFound
  /\ anchors' = {} /\ update' = {}
  /\ quiet' = TRUE /\ seen' = {}
  /\ UNCHANGED <<server, txCache, wallet, given, stale, mixed>>

\* full_scan(): the scripts of each keychain, none with expected transactions.
FullScan ==
  \E fetchPrev \in FetchPrev :
    Begins([NoRequest EXCEPT !.kind = "full_scan", !.fetchPrev = fetchPrev],
           Keychains, StopGap, [s \in Scripts |-> {}])

AllScripts == FlattenSeq(Keychains)

\* Variant of PollSync with the gap of a full scan.
PollSyncGap ==
  \E req \in Requests :
    Begins(req, <<AllScripts>>, StopGap,
           [s \in Scripts |-> {t \in wallet.txs : s \in Touches(t)}])

\* sync(): the scripts the wallet revealed, with the transactions it knows of
\* them, and no gap (usize::MAX).
PollSync ==
  \E req \in Requests :
    Begins(req, <<AllScripts>>, Len(AllScripts) + 1,
           [s \in Scripts |-> {t \in wallet.txs : s \in Touches(t)}])

-----------------------------------------------------------------------------
\* Among the blocks that are new is one of the best chain, and below it one that
\* is not and never will be (blocks of cached anchors aside).
Joins(old, new) ==
  \E b \in (new \ old) \cap Chain, c \in new \ (Chain \cup stale) : c[1] < b[1]

FetchTip ==
  /\ stage = "Tip"
  /\ FetchTipAndLatestBlocks
  /\ stage' = IF tip'.at = "Done" THEN "Spks" ELSE "Tip"
  /\ mixed' = (mixed \/ Joins(tip.latest, tip'.latest))
  /\ UNCHANGED <<server, scanVars, syncVars, quiet, seen, stale>>

ScanSpks ==
  /\ stage = "Spks"
  /\ PopulateWithSpks
  /\ stage' = IF scan'.lists # <<>> THEN "Spks"
              ELSE IF request.kind = "sync" THEN "Txids" ELSE "PrevTxouts"
  /\ UNCHANGED <<server, tipVars, syncVars, history>>

\* populate_with_txids() and populate_with_outpoints(): first the
\* transactions, then the histories.
Txids ==
  /\ \/ Goes("Txids", "TxidHistories") /\ FetchTxids(request.txids)
     \/ Goes("TxidHistories", "Outpoints") /\ ApplyTxids(request.txids)
  /\ UNCHANGED <<server, tipVars, syncVars, history>>

Outpoints ==
  /\ Goes("Outpoints", "OutpointHistories")
  /\ FetchOutpoints(request.outpoints)
  /\ quiet' = (quiet /\ \A o \in request.outpoints \ found'.ops : o[1] \notin Present)
  /\ UNCHANGED <<server, tipVars, syncVars, seen, stale, mixed>>

OutpointHistories ==
  /\ Goes("OutpointHistories", "PrevTxouts")
  /\ ApplyOutpoints
  /\ UNCHANGED <<server, tipVars, syncVars, history>>

\* Then the anchors, if there is anything to anchor.
PrevTxouts ==
  /\ Goes("PrevTxouts", IF found.pending = {} THEN "Update" ELSE "Anchors")
  /\ IF request.fetchPrev THEN FetchPrevTxouts ELSE UNCHANGED scanVars
  /\ seen' = Chain
  /\ UNCHANGED <<server, tipVars, syncVars, quiet, stale, mixed>>

\* The anchors batch_fetch_anchors may give, for the pending transactions at
\* their heights; it skips those whose requests fail.
Provable == {m \in mined : <<m[1], m[2][1]>> \in found.pending /\ m[2] \in seen}
Cached == {m \in given : <<m[1], m[2][1]>> \in found.pending}

FetchAnchors ==
  /\ Goes("Anchors", "Update")
  /\ \E as \in SUBSET (Provable \cup Cached) :
       /\ \A a, b \in as : a[1] = b[1] /\ a[2][1] = b[2][1] => a = b
       /\ anchors' = as
       /\ given' = given \cup as
       /\ stale' = stale \cup ({a[2] : a \in as} \ seen)
  /\ UNCHANGED <<server, tipVars, scanVars, request, wallet, update, calls, quiet, seen, mixed>>

Finish ==
  /\ Goes("Update", "Done")
  /\ IF prev = {} THEN update' = {}
     ELSE \E blocks \in ChainUpdates({a[2] : a \in anchors}) : update' = blocks
  /\ mixed' = (mixed \/ Joins(tip.blocks, update'))
  /\ UNCHANGED <<server, tipVars, scanVars, request, wallet, given, anchors, calls,
                 quiet, seen, stale>>

\* The wallet applies the result, whose chain replaces its own: it has a block
\* at each height of the wallet's (UpdateConnects).
Applied ==
  /\ Goes("Done", "Idle")
  /\ wallet' = [chain |-> IF prev = {} THEN wallet.chain ELSE update,
                txs |-> (wallet.txs \cup found.txs) \ found.evicted]
  /\ request' = NoRequest
  /\ prev' = {} /\ tip' = NewTip
  /\ scan' = NewScan(<<>>, 1, [s \in Scripts |-> {}])
  /\ found' = NothingFound
  /\ anchors' = {} /\ update' = {}
  /\ quiet' = TRUE /\ seen' = {}
  /\ UNCHANGED <<server, txCache, given, calls, stale, mixed>>

\* The transactions that are being fetched one by one.
InFlight ==
  CASE stage = "Spks" /\ scan.batch # <<>> -> Ids(Head(scan.batch).history)
    [] stage = "Txids" -> request.txids
    [] stage = "OutpointHistories" ->
         UNION {Ids(History(ScriptOf(o))) : o \in found.ops}
    [] stage = "PrevTxouts" /\ request.fetchPrev -> Ids(UNION {Inputs[t] : t \in found.txs})
    [] OTHER -> {}

\* A request fails and the call with it; the result is lost, the caches stay.
Fails ==
  /\ stage \in {"Tip", "Spks", "Txids", "TxidHistories", "OutpointHistories", "PrevTxouts"}
  /\ stage' = "Idle"
  /\ \E got \in SUBSET (InFlight \cap Present) : txCache' = txCache \cup got
  /\ request' = NoRequest
  /\ prev' = {} /\ tip' = NewTip
  /\ scan' = NewScan(<<>>, 1, [s \in Scripts |-> {}])
  /\ found' = NothingFound
  /\ quiet' = TRUE /\ seen' = {}
  /\ UNCHANGED <<server, wallet, given, anchors, update, calls, stale, mixed>>

Changes ==
  /\ ServerEvent
  /\ quiet' = (quiet /\ stage = "Idle")
  /\ seen' = IF stage = "Anchors" THEN seen \cup {<<h, chain'[h]>> : h \in DOMAIN chain'} ELSE seen
  /\ UNCHANGED <<tipVars, scanVars, stage, syncVars, stale, mixed>>

SyncStep ==
  \/ FetchTip \/ ScanSpks \/ Txids \/ Outpoints \/ OutpointHistories \/ PrevTxouts
  \/ FetchAnchors \/ Finish \/ Applied

Next == FullScan \/ PollSync \/ SyncStep \/ Fails \/ Changes

Spec == Init /\ [][Next]_vars

-----------------------------------------------------------------------------
Stages ==
  <<"Idle", "Done", "Update", "Anchors", "PrevTxouts", "OutpointHistories", "Outpoints",
    "TxidHistories", "Txids", "Spks", "Tip">>

\* Every variable keeps its type, and the chains are chains.
TypeOK ==
  /\ chain \in Seq(0..MaxEvents) /\ Height <= MaxHeight
  /\ place \in [Txs -> {Absent} \cup 0..Height]
  /\ mined \subseteq Txs \X Blocks
  /\ \A blocks \in {wallet.chain, prev, update, tip.blocks, tip.latest} : IsChain(blocks)
  /\ tip.at \in {"GetTip", "Suffix", "Walk", "Done"} /\ tip.left \subseteq prev
  /\ found.txs \cup found.seen \cup found.evicted \subseteq txCache \cup wallet.txs
  /\ found.pending \subseteq Txs \X (1..MaxHeight)
  /\ stage \in Range(Stages)
  /\ given \subseteq mined /\ anchors \subseteq given
  /\ {quiet, mixed} \subseteq BOOLEAN

\* The wallet can apply the update without doubt: every checkpoint it has above
\* the highest block they share is replaced by a block of the same height,
\* whatever the server did between the requests (the headers that
\* fetch_tip_and_latest_blocks asks for go into latest_blocks).
UpdateConnects ==
  stage = "Done" /\ prev # {} =>
    LET shared == {b[1] : b \in prev \cap update} IN
    \A p \in prev :
      \/ p \in update
      \/ At(update, p[1]) # {} /\ \A h \in shared : p[1] > h

Synced == stage = "Done" /\ quiet

\* A call during which nothing changed, of a server that is not behind the
\* wallet, brings the wallet to the server's tip and leaves no block that is
\* not on its best chain: earlier calls that raced with reorganisations are
\* repaired.  Excepted are blocks of cached anchors, which are not checked
\* again, and wallets of a call that joined two chains (Joins): it asked for a
\* header, or added the block of an anchor, of a chain that its other blocks are
\* not of (fetch_tip_and_latest_blocks, chain_update).
QuietUpdateOnChain ==
  Synced /\ ~mixed /\ prev # {} /\ Top(prev) <= Height =>
    Block(Height) \in update /\ update \ stale \subseteq Chain

\* Then the wallet's chain has the block of each anchor, so that the
\* transaction counts as confirmed, unless a stale anchor holds that height.
AnchorsInChain ==
  Synced /\ ~mixed /\ prev # {} /\ Top(prev) <= Height =>
    \A a \in anchors : a[2] \in update \/ At(stale, a[2][1]) # {}

\* The scan of a list by the definition of the gap: the scripts before the
\* first StopGap unused ones in a row have ended.
Used(list, i) == History(list[i]) # {}
GapEnds(list, i) == i >= StopGap /\ \A j \in (i - StopGap + 1)..i : ~Used(list, j)
Scanned(list) == {i \in DOMAIN list : \A j \in 1..i : ~GapEnds(list, j)}

\* A quiet full scan finds, in batches of any size, the last active index of
\* each keychain and the transactions that a scan of one script after the
\* other finds, with their heights (populate_with_spks).
ScanIsReference ==
  Synced /\ request.kind = "full_scan" =>
    LET used(list) == {i \in Scanned(list) : Used(list, i)}
        entries == UNION {UNION {History(Keychains[k][i]) : i \in used(Keychains[k])} :
                            k \in DOMAIN Keychains}
    IN /\ scan.active = [k \in DOMAIN Keychains |-> Max(used(Keychains[k]) \cup {0})]
       /\ found.txs = Ids(entries)
       /\ found.pending = {e \in entries : e[2] > 0}
       /\ found.seen = {t \in Ids(entries) : place[t] = Mempool}

\* A quiet sync evicts exactly the transactions the wallet knows and the server
\* does not, up to the last script (the gap of sync and the order of the test
\* and the eviction in populate_with_spks).
EvictionsExact ==
  Synced /\ request.kind = "sync" =>
    found.evicted = {t \in wallet.txs \ Present : Touches(t) \cap Range(AllScripts) # {}}

\* A quiet sync finds the transaction of each outpoint it was asked for and the
\* one that spends it; it skips those that the server does not have
\* (populate_with_outpoints).
OutpointsComplete ==
  Synced /\ request.kind = "sync" =>
    \A o \in request.outpoints : o[1] \in Present =>
      {o[1]} \cup {t \in Present : o \in Inputs[t]} \subseteq found.txs

Rank == CHOOSE i \in DOMAIN Stages : Stages[i] = stage

\* The requests and histories that a stage has before it at most.
Left ==
  CASE stage = "Tip" /\ tip.at = "GetTip" -> Cardinality(prev) + 2
    [] stage = "Tip" /\ tip.at = "Suffix" -> Cardinality(prev) + 1
    [] stage = "Tip" /\ tip.at = "Walk" -> Cardinality(tip.left)
    [] stage = "Spks" -> 2 * (Len(FlattenSeq(scan.lists)) - scan.taken)
                           + Len(scan.batch) + Len(scan.lists)
    [] OTHER -> 0

\* Every call ends, since every request is answered, fails or times out: each
\* step of a call, one that fails included, goes to a later stage or leaves less
\* to do in this one, whatever the server does meanwhile (the walk down the
\* checkpoints of fetch_tip_and_latest_blocks and the loops of
\* populate_with_spks).  The other steps change the server or begin a call.
CallEnds ==
  [][stage # "Idle" /\ UNCHANGED server =>
       Rank' < Rank \/ (Rank' = Rank /\ Left' < Left)]_vars

=============================================================================
