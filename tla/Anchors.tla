------------------------------ MODULE Anchors ------------------------------
(***************************************************************************)
(* Confirmation anchors (bdk-tokio-electrum, client.rs,                    *)
(* batch_fetch_anchors).  A sync of the wallet knows transactions and the  *)
(* heights their script histories gave.  It looks up or fetches the header *)
(* of each height, returns the anchors it finds in the cache, and fetches  *)
(* and validates a Merkle proof for each of the others.  The caches are    *)
(* shared by all clones of the client, so by concurrent syncs, and they    *)
(* are never emptied.                                                      *)
(*                                                                         *)
(* The server is external: it answers from the best chain of the moment,   *)
(* which reorganises at any time, or the request fails.  A batch is        *)
(* answered from one chain.  A block stands for its header and its hash;   *)
(* its transactions give its Merkle root and the proofs (MerkleProof).     *)
(***************************************************************************)
EXTENDS FiniteSets, MerkleProof

CONSTANTS
  Syncs,      \* syncs that run at the same time on clones of the client
  Txs,        \* transactions of the wallet
  Heights,    \* block heights
  MaxFork,    \* bound: reorganisations of a height
  Leaves,     \* the transactions of each block, in order
  BatchSize,  \* batch_size
  MaxCalls,   \* bound: calls of batch_fetch_anchors altogether
  None        \* no header, no sync

Blocks == Heights \X (0 .. MaxFork)

ASSUME HeightsAssumption == Heights \subseteq Nat /\ IsFiniteSet(Heights)
ASSUME BoundsAssumption == MaxFork \in Nat /\ MaxCalls \in Nat /\ BatchSize \in Nat \ {0}
ASSUME LeavesAssumption ==
  /\ DOMAIN Leaves = Blocks
  /\ \A b \in Blocks : Leaves[b] \in Seq(Range(Leaves[b])) \ {<<>>}
ASSUME NoneAssumption == None \notin Syncs /\ None \notin Blocks

VARIABLES
  chain,    \* the fork of each height that is on the server's best chain
  headers,  \* block_header_cache
  anchors,  \* anchor_cache: [tx, height, block], one for each tx and block
  lock,     \* who holds the lock of block_header_cache across its requests
  calls,    \* number of calls made
  pc,       \* where each sync is in batch_fetch_anchors
  job       \* its local variables

vars == <<chain, headers, anchors, lock, calls, pc, job>>

\* The local variables of a sync: its arguments, the headers still missing,
\* those the single requests of this chunk gave and the number of these
\* requests, height_to_hash, the pairs without a proof, the pairs of the
\* chunk that are requested one by one, the proofs to validate, the proof and
\* the header of the retry, and the result.  quiet and seen are history:
\* no request failed and no block changed during the call, and the blocks
\* that were on the best chain meanwhile.
NewJob ==
  [wanted |-> {}, missing |-> <<>>, got |-> <<>>, asked |-> 0,
   hashes |-> [h \in Heights |-> None], toFetch |-> {}, singles |-> {},
   proofs |-> {}, stale |-> None, fresh |-> None, results |-> {},
   quiet |-> TRUE, seen |-> {}]

Block(h) == <<h, chain[h]>>
Chain == {Block(h) : h \in Heights}

\* The transactions of the wallet in a block, its Merkle root, and the proof of
\* each of its transactions (transaction_get_merkle).
TxsOf == [b \in Blocks |-> Txs \cap Range(Leaves[b])]
MerkleRoot == [b \in Blocks |-> Root(Leaves[b])]

\* A Merkle root stands for the transactions of its block, and their coinbase
\* is in no other one.
ASSUME RootsAssumption == IsInjective(MerkleRoot)

Proofs ==
  [b \in Blocks |-> [t \in TxsOf[b] |->
    LET pos == (CHOOSE i \in DOMAIN Leaves[b] : Leaves[b][i] = t) - 1 IN
    [tx |-> t, height |-> b[1], pos |-> pos, merkle |-> Path(Leaves[b], pos)]]]

\* The histories of the scripts, at this moment: a transaction and the height
\* of its block.
Confirmed == {p \in Txs \X Heights : p[1] \in TxsOf[Block(p[2])]}

Init ==
  /\ chain = [h \in Heights |-> 0]
  /\ headers = [h \in Heights |-> None]
  /\ anchors = {}
  /\ lock = None
  /\ calls = 0
  /\ pc = [s \in Syncs |-> "Idle"]
  /\ job = [s \in Syncs |-> NewJob]

-----------------------------------------------------------------------------
(* The server.                                                              *)

\* The blocks from height h upwards are replaced.
Reorg(h) ==
  /\ \A k \in Heights : k >= h => chain[k] < MaxFork
  /\ chain' = [k \in Heights |-> IF k >= h THEN chain[k] + 1 ELSE chain[k]]
  /\ job' = [s \in Syncs |->
       IF pc[s] = "Idle" THEN job[s]
       ELSE [job[s] EXCEPT !.quiet = FALSE,
                           !.seen = @ \cup {<<k, chain'[k]>> : k \in Heights}]]
  /\ UNCHANGED <<headers, anchors, lock, calls, pc>>

-----------------------------------------------------------------------------
(* The cache of anchors.                                                    *)

\* The anchor replaces one of the same transaction and block.
CacheAnchor(a) ==
  anchors' = {b \in anchors : b.tx # a.tx \/ b.block # a.block} \cup {a}

\* populate_anchor_cache(): the application puts in an anchor of its own
\* records, at most one and before the first sync (bound).
PopulateAnchorCache ==
  /\ calls = 0 /\ anchors = {}
  /\ \E p \in Confirmed : CacheAnchor([tx |-> p[1], height |-> p[2], block |-> Block(p[2])])
  /\ UNCHANGED <<chain, headers, lock, calls, pc, job>>

-----------------------------------------------------------------------------
(* The headers, with the cache locked.                                      *)

Goes(s, from, to) == pc[s] = from /\ pc' = [pc EXCEPT ![s] = to]

\* A sync has applied the histories it was given and wants anchors.
Begin(s) ==
  /\ calls < MaxCalls
  /\ calls' = calls + 1
  /\ Goes(s, "Idle", "Begin")
  /\ \E wanted \in SUBSET Confirmed \ {{}} :
       job' = [job EXCEPT ![s] = [NewJob EXCEPT !.wanted = wanted, !.seen = Chain]]
  /\ UNCHANGED <<chain, headers, anchors, lock>>

\* The members of S in increasing order (sort_unstable, dedup).
Sorted(S) ==
  {q \in [1 .. Cardinality(S) -> S] :
    Range(q) = S /\ \A i, j \in DOMAIN q : i < j => q[i] < q[j]}

\* Lock the cache; take the headers that are in it, list the missing heights.
LockHeaders(s) ==
  /\ lock = None
  /\ lock' = s
  /\ Goes(s, "Begin", "Headers")
  /\ LET needed == {p[2] : p \in job[s].wanted} IN
       \E missing \in Sorted({h \in needed : headers[h] = None}) :
         job' = [job EXCEPT
           ![s].hashes = [h \in Heights |-> IF h \in needed THEN headers[h] ELSE None],
           ![s].missing = missing]
  /\ UNCHANGED <<chain, headers, anchors, calls>>

\* The heights of the next chunk.
HeaderChunk(s) ==
  LET missing == job[s].missing
      n == IF Len(missing) < BatchSize THEN Len(missing) ELSE BatchSize
  IN  SubSeq(missing, 1, n)

\* The cache or height_to_hash, with the heights of a chunk zipped with the
\* headers found: fewer than the heights if a request was skipped.
Zipped(chunk, found, map) ==
  LET pairs == {<<chunk[i], found[i]>> : i \in 1 .. Len(found)} IN
  [h \in Heights |-> IF \E p \in pairs : p[1] = h THEN (CHOOSE p \in pairs : p[1] = h)[2]
                     ELSE map[h]]

\* Variant of StoreHeaders that fills height_to_hash only.
StoreHeadersNot(s, found) ==
  /\ job' = [job EXCEPT ![s].hashes = Zipped(HeaderChunk(s), found, @),
                        ![s].missing = SubSeq(@, Len(HeaderChunk(s)) + 1, Len(@))]
  /\ UNCHANGED headers

StoreHeaders(s, found) ==
  /\ headers' = Zipped(HeaderChunk(s), found, headers)
  /\ job' = [job EXCEPT ![s].hashes = Zipped(HeaderChunk(s), found, @),
                        ![s].missing = SubSeq(@, Len(HeaderChunk(s)) + 1, Len(@)),
                        ![s].got = <<>>, ![s].asked = 0]

\* The headers of a chunk, in one batch.
HeaderBatch(s) ==
  /\ job[s].missing # <<>>
  /\ Goes(s, "Headers", "Headers")
  /\ StoreHeaders(s, [i \in 1 .. Len(HeaderChunk(s)) |-> Block(HeaderChunk(s)[i])])
  /\ UNCHANGED <<chain, anchors, lock, calls>>

HeaderBatchFails(s) ==
  /\ job[s].missing # <<>>
  /\ Goes(s, "Headers", "HeaderSingles")
  /\ job' = [job EXCEPT ![s].quiet = FALSE]
  /\ UNCHANGED <<chain, headers, anchors, lock, calls>>

\* One request per height; a failure is skipped.
HeaderSingle(s) ==
  /\ job[s].asked < Len(HeaderChunk(s))
  /\ Goes(s, "HeaderSingles", "HeaderSingles")
  /\ LET h == HeaderChunk(s)[job[s].asked + 1] IN
       \E got \in {job[s].got, Append(job[s].got, Block(h))} :
         job' = [job EXCEPT ![s].asked = @ + 1, ![s].got = got]
  /\ UNCHANGED <<chain, headers, anchors, lock, calls>>

HeaderSinglesEnd(s) ==
  /\ job[s].asked = Len(HeaderChunk(s))
  /\ Goes(s, "HeaderSingles", "Headers")
  /\ StoreHeaders(s, job[s].got)
  /\ UNCHANGED <<chain, anchors, lock, calls>>

\* Variant of UnlockHeaders that keeps the guard.
UnlockHeadersLate(s) ==
  /\ job[s].missing = <<>>
  /\ Goes(s, "Headers", "Anchors")
  /\ UNCHANGED <<chain, headers, anchors, lock, calls, job>>

UnlockHeaders(s) ==
  /\ job[s].missing = <<>>
  /\ Goes(s, "Headers", "Anchors")
  /\ lock' = None
  /\ UNCHANGED <<chain, headers, anchors, calls, job>>

-----------------------------------------------------------------------------
(* The anchors and the proofs.                                              *)

\* The cached anchors of a set of pairs, under the hashes the sync knows.
Cached(s, pairs) ==
  {a \in anchors : \E p \in pairs : a.tx = p[1] /\ a.block = job[s].hashes[p[2]]}

\* Return the anchors in the cache, fetch a proof for the others, skip the
\* pairs without a header.
CheckAnchorCache(s) ==
  /\ Goes(s, "Anchors", "Proofs")
  /\ LET known == {p \in job[s].wanted : job[s].hashes[p[2]] # None} IN
       job' = [job EXCEPT
         ![s].results = {[anchor |-> a, cached |-> TRUE] : a \in Cached(s, known)},
         ![s].toFetch = {p \in known : Cached(s, {p}) = {}}]
  /\ UNCHANGED <<chain, headers, anchors, lock, calls>>

\* The next chunk of pairs, in the order the sync met them.
ProofChunks(s) ==
  LET pairs == job[s].toFetch
      n == IF Cardinality(pairs) < BatchSize THEN Cardinality(pairs) ELSE BatchSize
  IN  {chunk \in SUBSET pairs : chunk # {} /\ Cardinality(chunk) = n}

Proof(p) == Proofs[Block(p[2])][p[1]]

\* The loop over the chunks: nothing is left of the last chunk.
ChunkDone(s) == job[s].singles = {} /\ job[s].proofs = {}

\* The proofs of a chunk in one batch, all of which succeed.
ProofBatch(s) ==
  /\ ChunkDone(s)
  /\ Goes(s, "Proofs", "Proofs")
  /\ \E chunk \in ProofChunks(s) :
       /\ chunk \subseteq Confirmed
       /\ job' = [job EXCEPT ![s].toFetch = @ \ chunk,
                             ![s].proofs = {Proof(p) : p \in chunk}]
  /\ UNCHANGED <<chain, headers, anchors, lock, calls>>

\* One request of the chunk fails, if only because its transaction is not in
\* that block any more, and the batch with it.
ProofBatchFails(s) ==
  /\ ChunkDone(s)
  /\ Goes(s, "Proofs", "Proofs")
  /\ \E chunk \in ProofChunks(s) :
       job' = [job EXCEPT ![s].toFetch = @ \ chunk, ![s].singles = chunk,
                          ![s].quiet = FALSE]
  /\ UNCHANGED <<chain, headers, anchors, lock, calls>>

\* One request per pair; a failure is skipped.
ProofSingle(s) ==
  /\ Goes(s, "Proofs", "Proofs")
  /\ \E p \in job[s].singles :
       \E found \in {{}} \cup {{Proof(q)} : q \in {p} \cap Confirmed} :
         job' = [job EXCEPT ![s].singles = @ \ {p}, ![s].proofs = @ \cup found]
  /\ UNCHANGED <<chain, headers, anchors, lock, calls>>

\* Variant of Valid: any proof will do.
ValidAlways(proof, header) == TRUE

Valid(proof, header) ==
  ValidateMerkleProof(proof.tx, MerkleRoot[header], proof.merkle, proof.pos)

\* Build the anchor from the header, cache it and return it.
Anchor(s, proof, header) ==
  LET a == [tx |-> proof.tx, height |-> proof.height, block |-> header] IN
  /\ CacheAnchor(a)
  /\ job' = [job EXCEPT ![s].proofs = @ \ {proof}, ![s].stale = None, ![s].fresh = None,
                        ![s].results = @ \cup {[anchor |-> a, cached |-> FALSE]}]

\* Drop the proof.
Skip(s, proof) ==
  /\ job' = [job EXCEPT ![s].proofs = @ \ {proof}, ![s].stale = None, ![s].fresh = None]
  /\ UNCHANGED anchors

\* A proof of the chunk, all of whose requests are done, is validated with
\* the cached header.
NextProof(s, proof) ==
  lock = None /\ job[s].singles = {} /\ proof \in job[s].proofs

\* The header fits.
ValidateOk(s) ==
  /\ Goes(s, "Proofs", "Proofs")
  /\ \E proof \in job[s].proofs :
       /\ NextProof(s, proof)
       /\ Valid(proof, headers[proof.height])
       /\ Anchor(s, proof, headers[proof.height])
  /\ UNCHANGED <<chain, headers, lock, calls>>

\* Variant of ValidateStale without a retry.
ValidateOnce(s) ==
  /\ Goes(s, "Proofs", "Proofs")
  /\ \E proof \in job[s].proofs :
       /\ NextProof(s, proof)
       /\ ~Valid(proof, headers[proof.height])
       /\ Skip(s, proof)
  /\ UNCHANGED <<chain, headers, lock, calls>>

\* It does not.
ValidateStale(s) ==
  /\ Goes(s, "Proofs", "Retry")
  /\ \E proof \in job[s].proofs :
       /\ NextProof(s, proof)
       /\ ~Valid(proof, headers[proof.height])
       /\ job' = [job EXCEPT ![s].stale = proof]
  /\ UNCHANGED <<chain, headers, anchors, lock, calls>>

\* Fetch the header again.
Retry(s) ==
  /\ Goes(s, "Retry", "Store")
  /\ job' = [job EXCEPT ![s].fresh = Block(job[s].stale.height)]
  /\ UNCHANGED <<chain, headers, anchors, lock, calls>>

RetryFails(s) ==
  /\ Goes(s, "Retry", "Proofs")
  /\ job' = [job EXCEPT ![s].proofs = @ \ {job[s].stale}, ![s].stale = None,
                        ![s].quiet = FALSE]
  /\ UNCHANGED <<chain, headers, anchors, lock, calls>>

\* Variant of Store that does not validate again.
StoreUnchecked(s) ==
  /\ lock = None
  /\ Goes(s, "Store", "Proofs")
  /\ headers' = [headers EXCEPT ![job[s].stale.height] = job[s].fresh]
  /\ Anchor(s, job[s].stale, job[s].fresh)
  /\ UNCHANGED <<chain, lock, calls>>

\* Cache the fresh header and validate with it.
Store(s) ==
  /\ lock = None
  /\ Goes(s, "Store", "Proofs")
  /\ headers' = [headers EXCEPT ![job[s].stale.height] = job[s].fresh]
  /\ IF Valid(job[s].stale, job[s].fresh)
       THEN Anchor(s, job[s].stale, job[s].fresh)
       ELSE Skip(s, job[s].stale)
  /\ UNCHANGED <<chain, lock, calls>>

\* All chunks are done; the result is returned.
Finish(s) ==
  /\ ChunkDone(s) /\ job[s].toFetch = {}
  /\ Goes(s, "Proofs", "Done")
  /\ UNCHANGED <<chain, headers, anchors, lock, calls, job>>

Return(s) ==
  /\ Goes(s, "Done", "Idle")
  /\ job' = [job EXCEPT ![s] = NewJob]
  /\ UNCHANGED <<chain, headers, anchors, lock, calls>>

-----------------------------------------------------------------------------
\* A step of batch_fetch_anchors.
SyncStep(s) ==
  \/ LockHeaders(s) \/ HeaderBatch(s) \/ HeaderBatchFails(s)
  \/ HeaderSingle(s) \/ HeaderSinglesEnd(s) \/ UnlockHeaders(s)
  \/ CheckAnchorCache(s) \/ ProofBatch(s) \/ ProofBatchFails(s) \/ ProofSingle(s)
  \/ ValidateOk(s) \/ ValidateStale(s) \/ Retry(s) \/ RetryFails(s) \/ Store(s)
  \/ Finish(s) \/ Return(s)

Next ==
  \/ \E s \in Syncs : Begin(s) \/ SyncStep(s)
  \/ \E h \in Heights : Reorg(h)
  \/ PopulateAnchorCache

Spec == Init /\ [][Next]_vars

\* Every request returns (request_timeout bounds it), and the queue of a tokio
\* mutex is FIFO.
Fairness == \A s \in Syncs : SF_vars(SyncStep(s))

FairSpec == Spec /\ Fairness
-----------------------------------------------------------------------------
Points ==
  {"Idle", "Begin", "Headers", "HeaderSingles", "Anchors", "Proofs", "Retry",
   "Store", "Done"}

AnchorSet == [tx : Txs, height : Heights, block : Blocks]
Pairs == Txs \X Heights
ProofSet == UNION {Range(Proofs[b]) : b \in Blocks}

Jobs ==
  [wanted : SUBSET Pairs, missing : Seq(Heights), got : Seq(Blocks), asked : Nat,
   hashes : [Heights -> Blocks \cup {None}], toFetch : SUBSET Pairs,
   singles : SUBSET Pairs, proofs : SUBSET ProofSet, stale : ProofSet \cup {None},
   fresh : Blocks \cup {None}, results : SUBSET [anchor : AnchorSet, cached : BOOLEAN],
   quiet : BOOLEAN, seen : SUBSET Blocks]

\* Every variable keeps its type, and no request goes beyond its chunk.
TypeOK ==
  /\ chain \in [Heights -> 0 .. MaxFork]
  /\ headers \in [Heights -> Blocks \cup {None}]
  /\ anchors \subseteq AnchorSet
  /\ lock \in Syncs \cup {None}
  /\ calls \in 0 .. MaxCalls
  /\ pc \in [Syncs -> Points]
  /\ job \in [Syncs -> Jobs]
  /\ \A s \in Syncs : job[s].asked <= Len(HeaderChunk(s))

\* An anchor that is cached or returned names a block of its own height that
\* contains its transaction, whatever headers other syncs cache and whatever
\* reorganisation comes between the proof and the header.
AnchorProven ==
  \A a \in anchors \cup {r.anchor : r \in UNION {job[s].results : s \in Syncs}} :
    a.block[1] = a.height /\ a.tx \in TxsOf[a.block]

\* Whatever its position and the size of the block, a proof is valid with the
\* header of the block it was made from and with no other one that a sync may
\* meet: a block that replaced it, even if it has the transaction too, another
\* height (validate_merkle_proof).
ProofFitsItsBlock ==
  \A s \in Syncs : \A proof \in job[s].proofs : \A b \in Blocks :
    Valid(proof, b) <=> proof.tx \in TxsOf[b] /\ proof = Proofs[b][proof.tx]

\* "header already fetched above" (expect): when a proof is validated, its
\* height is in the header cache, although requests were skipped.
HeaderPresent ==
  \A s \in Syncs : pc[s] = "Proofs" =>
    \A proof \in job[s].proofs : headers[proof.height] # None

\* An anchor that does not come from the cache names a block that was on the
\* server's best chain during the call: a stale header in the cache is not
\* enough to give out an anchor of a block that is gone.
FreshAnchors ==
  \A s \in Syncs : \A r \in job[s].results : r.cached \/ r.anchor.block \in job[s].seen

\* If no request failed and the chain did not change during a call, the call
\* gives an anchor for each transaction it was given: one retry is enough,
\* whatever stale or misplaced headers earlier and concurrent syncs cached.
CompleteWhenQuiet ==
  \A s \in Syncs : pc[s] = "Done" /\ job[s].quiet =>
    {p[1] : p \in job[s].wanted} \subseteq {r.anchor.tx : r \in job[s].results}

\* Every call returns: the lock of the header cache, held across requests, is
\* released, and failed requests end.
SyncReturns == \A s \in Syncs : (pc[s] # "Idle") ~> (pc[s] = "Idle")

-----------------------------------------------------------------------------
(* What a comment says and the code does not keep.                          *)

\* "Collect headers of missing heights, and build `height_to_hash` map": the
\* header cached for a height is the header of that height.
HeadersAligned == \A h \in Heights : headers[h] # None => headers[h][1] = h

=============================================================================
