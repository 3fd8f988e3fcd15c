---------------------------- MODULE AnchorsProofs ----------------------------
(***************************************************************************)
(* Theorems about Anchors, for any number of syncs, transactions, heights, *)
(* reorganisations and calls, any blocks and any batch size: the anchors   *)
(* are proven, the proofs fit, and a quiet call is complete.               *)
(***************************************************************************)
EXTENDS Anchors, MerkleProofProofs, FiniteSetTheorems

-----------------------------------------------------------------------------
(* The inductive invariant.                                                 *)

Proven(a) == a.block[1] = a.height /\ a.tx \in TxsOf[a.block]

\* A proof that the server made from one of these blocks.
Made(proof, blocks) == \E b \in blocks : \E t \in TxsOf[b] : proof = Proofs[b][t]

\* A sync: heights it knows the hash of are in the cache for good, and so are
\* those of the proofs it asks for; its proofs and its new anchors come from
\* blocks it saw.
Safe(s) ==
  /\ pc[s] = "Begin" => job[s].toFetch = {} /\ job[s].singles = {} /\ job[s].asked = 0
  /\ \A h \in Heights : job[s].hashes[h] # None => headers[h] # None
  /\ \A p \in job[s].toFetch \cup job[s].singles : job[s].hashes[p[2]] # None
  /\ \A proof \in job[s].proofs : headers[proof.height] # None /\ Made(proof, job[s].seen)
  /\ pc[s] \in {"Retry", "Store"} => job[s].stale \in job[s].proofs
  /\ pc[s] = "Store" => job[s].fresh \in Blocks
  /\ \A r \in job[s].results : Proven(r.anchor) /\ (r.cached \/ r.anchor.block \in job[s].seen)
  /\ pc[s] # "Idle" => Chain \subseteq job[s].seen

\* A pair that has its anchor, or will have it.
Served(s, p) ==
  \/ \E r \in job[s].results : r.anchor.tx = p[1]
  \/ p \in job[s].toFetch
  \/ Proof(p) \in job[s].proofs

\* A call that no failure and no reorganisation has touched: its pairs are
\* still confirmed where it thinks, all heights get a hash, its proofs are
\* those of the current blocks, and no pair is lost.
Complete(s) ==
  /\ job[s].wanted \subseteq Confirmed
  /\ job[s].singles = {} /\ pc[s] # "HeaderSingles"
  /\ pc[s] = "Headers" =>
       \A p \in job[s].wanted : job[s].hashes[p[2]] # None \/ p[2] \in Range(job[s].missing)
  /\ pc[s] = "Anchors" => \A p \in job[s].wanted : job[s].hashes[p[2]] # None
  /\ pc[s] \in {"Proofs", "Retry", "Store", "Done"} => \A p \in job[s].wanted : Served(s, p)
  /\ \A proof \in job[s].proofs :
       /\ proof.tx \in TxsOf[Block(proof.height)]
       /\ proof = Proofs[Block(proof.height)][proof.tx]
  /\ pc[s] = "Store" => job[s].fresh = Block(job[s].stale.height)
  /\ pc[s] = "Done" => job[s].toFetch = {} /\ job[s].proofs = {}

IInv ==
  /\ TypeOK
  /\ \A a \in anchors : Proven(a)
  /\ \A s \in Syncs : Safe(s)
  /\ \A s \in Syncs : pc[s] # "Idle" /\ job[s].quiet => Complete(s)

-----------------------------------------------------------------------------
(* Blocks and their proofs.                                                 *)

\* The server's proof of a transaction of a block.
LEMMA ProofFields ==
  ASSUME NEW b \in Blocks, NEW t \in TxsOf[b]
  PROVE  /\ Proofs[b][t] \in ProofSet
         /\ Proofs[b][t].tx = t /\ Proofs[b][t].height = b[1]
         /\ t \in Txs /\ b[1] \in Heights
         /\ Valid(Proofs[b][t], b)
<1> DEFINE leaves == Leaves[b]
           at == CHOOSE i \in DOMAIN leaves : leaves[i] = t
           pos == at - 1
           proof == [tx |-> t, height |-> b[1], pos |-> pos, merkle |-> Path(leaves, pos)]
<1>1. t \in Txs /\ t \in Range(leaves)
  BY DEF TxsOf
<1>2. leaves \in Seq(Range(leaves)) /\ leaves # <<>>
  BY LeavesAssumption
<1>3. at \in DOMAIN leaves /\ leaves[at] = t
  <2>1. \E i \in DOMAIN leaves : leaves[i] = t
    BY <1>1, Zenon DEF Range
  <2> QED
    BY <2>1, Zenon
<1>4. Proofs[b][t] = proof
  BY DEF Proofs
<1>5. b[1] \in Heights
  BY DEF Blocks
<1>6. Proofs[b][t] \in Range(Proofs[b])
  <2>1. t \in DOMAIN Proofs[b]
    BY DEF Proofs
  <2> QED
    BY <2>1, Zenon DEF Range
<1>7. Proofs[b][t] \in ProofSet
  BY <1>6, Zenon DEF ProofSet
<1> HIDE DEF at
<1>8. Len(leaves) \in Nat \ {0} /\ pos \in 0 .. (Len(leaves) - 1) /\ leaves[pos + 1] = t
  <2> HIDE DEF leaves
  <2>1. DOMAIN leaves = 1 .. Len(leaves) /\ Len(leaves) \in Nat
    BY <1>2
  <2> QED
    BY <1>3, <2>1
<1>9. MerkleRoot[b] = Root(leaves)
  BY DEF MerkleRoot
<1>10. ValidateMerkleProof(t, MerkleRoot[b], Path(leaves, pos), pos)
  <2> HIDE DEF leaves, pos
  <2>1. ValidateMerkleProof(leaves[pos + 1], Root(leaves), Path(leaves, pos), pos)
    BY <1>8, ProofValid, Zenon
  <2> QED
    BY <1>8, <1>9, <2>1, Zenon
<1> HIDE DEF leaves, pos
<1>11. proof.tx = t /\ proof.height = b[1] /\ proof.pos = pos /\ proof.merkle = Path(leaves, pos)
  OBVIOUS
<1> HIDE DEF proof
<1> QED
  BY <1>1, <1>4, <1>5, <1>7, <1>10, <1>11, Zenon DEF Valid

\* It is valid with the header of no other block.
LEMMA OnlyItsBlock ==
  ASSUME NEW b \in Blocks, NEW c \in Blocks, NEW t \in TxsOf[c], Valid(Proofs[c][t], b)
  PROVE  b = c
<1>1. Valid(Proofs[c][t], c)
  BY ProofFields, Zenon
<1>2. MerkleRoot[b] = MerkleRoot[c]
  BY <1>1, Zenon DEF Valid, ValidateMerkleProof
<1>3. DOMAIN MerkleRoot = Blocks
  BY DEF MerkleRoot
<1> QED
  BY <1>2, <1>3, RootsAssumption, Zenon DEF IsInjective

\* What is known of a proof that was made from one of some blocks.
LEMMA MadeFields ==
  ASSUME NEW blocks \in SUBSET Blocks, NEW proof, Made(proof, blocks)
  PROVE  /\ proof \in ProofSet /\ proof.tx \in Txs /\ proof.height \in Heights
         /\ \A c \in Blocks :
              Valid(proof, c) => /\ c \in blocks /\ c[1] = proof.height
                                 /\ proof.tx \in TxsOf[c]
                                 /\ proof = Proofs[c][proof.tx]
<1>1. PICK b \in blocks : \E t \in TxsOf[b] : proof = Proofs[b][t]
  BY Zenon DEF Made
<1>2. PICK t \in TxsOf[b] : proof = Proofs[b][t]
  BY <1>1
<1>3. b \in Blocks
  OBVIOUS
<1>4. /\ proof \in ProofSet /\ proof.tx = t /\ proof.height = b[1]
      /\ t \in Txs /\ b[1] \in Heights
  BY <1>2, <1>3, ProofFields, Zenon
<1>5. \A c \in Blocks : Valid(proof, c) => c = b
  BY <1>2, <1>3, OnlyItsBlock, Zenon
<1> QED
  BY <1>2, <1>4, <1>5, Zenon

LEMMA MoreBlocks ==
  ASSUME NEW blocks, NEW more, blocks \subseteq more, NEW proof, Made(proof, blocks)
  PROVE  Made(proof, more)
BY Zenon DEF Made

\* The block of a height on the best chain.
LEMMA BlockType ==
  ASSUME chain \in [Heights -> 0 .. MaxFork], NEW h \in Heights
  PROVE  Block(h) \in Blocks /\ Block(h)[1] = h /\ Block(h) \in Chain
<1>1. <<h, chain[h]>> \in Blocks /\ <<h, chain[h]>>[1] = h
  BY DEF Blocks
<1> QED
  BY <1>1, Zenon DEF Block, Chain

\* The proof of a pair that is confirmed.
LEMMA ConfirmedProof ==
  ASSUME chain \in [Heights -> 0 .. MaxFork], NEW p \in Confirmed
  PROVE  /\ p \in Pairs /\ p[1] \in Txs /\ p[2] \in Heights
         /\ p[1] \in TxsOf[Block(p[2])]
         /\ Proof(p) \in ProofSet /\ Proof(p).tx = p[1] /\ Proof(p).height = p[2]
         /\ Made(Proof(p), Chain)
<1>1. p \in Pairs /\ p[1] \in Txs /\ p[2] \in Heights
  BY DEF Confirmed, Pairs
<1>2. p[1] \in TxsOf[Block(p[2])]
  BY Zenon DEF Confirmed
<1>3. Block(p[2]) \in Blocks /\ Block(p[2])[1] = p[2] /\ Block(p[2]) \in Chain
  BY <1>1, BlockType, Zenon
<1>4. /\ Proof(p) \in ProofSet /\ Proof(p).tx = p[1] /\ Proof(p).height = p[2]
  BY <1>2, <1>3, ProofFields, Zenon DEF Proof
<1> QED
  BY <1>1, <1>2, <1>3, <1>4, Zenon DEF Made, Proof

-----------------------------------------------------------------------------
(* The steps.                                                               *)

\* The chunk depends on the missing heights only.
LEMMA SameChunk ==
  ASSUME NEW s, job'[s].missing = job[s].missing
  PROVE  HeaderChunk(s)' = HeaderChunk(s)
BY Zenon DEF HeaderChunk

\* What a step of sync s does to the types: new are its local variables.
LEMMA JobStep ==
  ASSUME TypeOK, NEW s \in Syncs, NEW to \in Points, NEW new \in Jobs,
         chain' = chain, headers' \in [Heights -> Blocks \cup {None}],
         anchors' \subseteq AnchorSet, lock' \in Syncs \cup {None}, calls' \in 0 .. MaxCalls,
         pc' = [pc EXCEPT ![s] = to], job' = [job EXCEPT ![s] = new],
         new.asked <= Len(HeaderChunk(s))'
  PROVE  /\ TypeOK'
         /\ pc'[s] = to /\ job'[s] = new
         /\ \A u \in Syncs : u # s => pc'[u] = pc[u] /\ job'[u] = job[u]
<1>1. pc \in [Syncs -> Points] /\ job \in [Syncs -> Jobs] /\ chain \in [Heights -> 0 .. MaxFork]
  BY Zenon DEF TypeOK
<1>2. /\ pc'[s] = to /\ job'[s] = new
      /\ \A u \in Syncs : u # s => pc'[u] = pc[u] /\ job'[u] = job[u]
  BY <1>1, Zenon
<1>3. pc' \in [Syncs -> Points] /\ job' \in [Syncs -> Jobs]
  BY <1>1
<1>4. ASSUME NEW u \in Syncs
      PROVE  job'[u].asked <= Len(HeaderChunk(u))'
  <2>1. CASE u = s
    BY <1>2, <2>1
  <2>2. CASE u # s
    <3>1. job[u].asked <= Len(HeaderChunk(u))
      BY Zenon DEF TypeOK
    <3>2. job'[u] = job[u]
      BY <1>2, <2>2, Zenon
    <3>3. HeaderChunk(u)' = HeaderChunk(u)
      BY <3>2, SameChunk, Zenon
    <3> QED
      BY <3>1, <3>2, <3>3, Zenon
  <2> QED
    BY <2>1, <2>2, Zenon
<1> QED
  BY <1>1, <1>2, <1>3, <1>4, Zenon DEF TypeOK

LEMMA JobFields ==
  ASSUME TypeOK, NEW s \in Syncs
  PROVE  /\ job[s] \in Jobs
         /\ job[s].wanted \in SUBSET Pairs /\ job[s].missing \in Seq(Heights)
         /\ job[s].got \in Seq(Blocks) /\ job[s].asked \in Nat
         /\ job[s].hashes \in [Heights -> Blocks \cup {None}]
         /\ job[s].toFetch \in SUBSET Pairs /\ job[s].singles \in SUBSET Pairs
         /\ job[s].proofs \in SUBSET ProofSet /\ job[s].stale \in ProofSet \cup {None}
         /\ job[s].fresh \in Blocks \cup {None} /\ job[s].quiet \in BOOLEAN
         /\ job[s].seen \in SUBSET Blocks
         /\ job[s].results \in SUBSET [anchor : AnchorSet, cached : BOOLEAN]
<1>1. job[s] \in Jobs
  BY Zenon DEF TypeOK
<1> QED
  BY <1>1 DEF Jobs

\* Headers stay in the cache.
HeadersKept == \A h \in Heights : headers[h] # None => headers'[h] # None

\* A step of sync s leaves the others' invariants: what it may change for them
\* are the cached headers and anchors, and no header is ever taken out.
LEMMA OthersKeep ==
  ASSUME IInv, NEW u \in Syncs, chain' = chain, HeadersKept,
         pc'[u] = pc[u], job'[u] = job[u]
  PROVE  Safe(u)' /\ (pc'[u] # "Idle" /\ job'[u].quiet => Complete(u)')
<1>1. Safe(u) /\ (pc[u] # "Idle" /\ job[u].quiet => Complete(u))
  BY Zenon DEF IInv
<1>2. /\ \A h : Block(h)' = Block(h)
      /\ Chain' = Chain
  BY Zenon DEF Chain, Block
<1>3. Confirmed' = Confirmed /\ \A p : Proof(p)' = Proof(p)
  BY <1>2, Zenon DEF Confirmed, Proof
<1>4. ASSUME NEW proof \in job[u].proofs
      PROVE  headers'[proof.height] # None /\ Made(proof, job[u].seen)
  <2>1. headers[proof.height] # None /\ Made(proof, job[u].seen)
    BY <1>1, Zenon DEF Safe
  <2>2. job[u].seen \in SUBSET Blocks
    BY JobFields, Zenon DEF IInv
  <2>3. proof.height \in Heights
    BY <2>1, <2>2, MadeFields, Zenon
  <2> QED
    BY <2>1, <2>3, Zenon DEF HeadersKept
<1>5. \A h \in Heights : job[u].hashes[h] # None => headers'[h] # None
  BY <1>1, Zenon DEF Safe, HeadersKept
<1>6. Safe(u)'
  BY <1>1, <1>2, <1>4, <1>5, Zenon DEF Safe
<1>7. \A p : Served(u, p)' <=> Served(u, p)
  BY <1>3, Zenon DEF Served
<1>8. Complete(u)' <=> Complete(u)
  BY <1>2, <1>3, <1>7, Zenon DEF Complete
<1> QED
  BY <1>1, <1>6, <1>8, Zenon

\* What is left to show of a step of sync s.
LEMMA StepKeeps ==
  ASSUME IInv, NEW s \in Syncs, chain' = chain, HeadersKept, TypeOK',
         \A u \in Syncs : u # s => pc'[u] = pc[u] /\ job'[u] = job[u],
         \A a \in anchors' : Proven(a),
         Safe(s)', pc'[s] # "Idle" /\ job'[s].quiet => Complete(s)'
  PROVE  IInv'
<1>1. \A u \in Syncs : Safe(u)' /\ (pc'[u] # "Idle" /\ job'[u].quiet => Complete(u)')
  BY OthersKeep, Zenon
<1>2. \A a \in anchors' : Proven(a)'
  BY Zenon DEF Proven
<1> QED
  BY <1>1, <1>2, Zenon DEF IInv

-----------------------------------------------------------------------------
(* The headers.                                                             *)

\* The chunk of a list of missing heights.
ChunkOf(missing) ==
  LET n == IF Len(missing) < BatchSize THEN Len(missing) ELSE BatchSize
  IN  SubSeq(missing, 1, n)

LEMMA ChunkOfType ==
  ASSUME NEW q \in Seq(Heights)
  PROVE  LET n == Len(ChunkOf(q))
             rest == SubSeq(q, n + 1, Len(q))
         IN  /\ n \in Nat /\ n <= Len(q)
             /\ ChunkOf(q) \in Seq(Heights)
             /\ \A i \in 1 .. n : ChunkOf(q)[i] = q[i]
             /\ rest \in Seq(Heights)
             /\ \A i \in 1 .. Len(q) : i <= n \/ q[i] \in Range(rest)
<1> DEFINE n == IF Len(q) < BatchSize THEN Len(q) ELSE BatchSize
           chunk == SubSeq(q, 1, n)
           rest == SubSeq(q, n + 1, Len(q))
<1>1. n \in Nat /\ n <= Len(q)
  BY BoundsAssumption
<1>2. ChunkOf(q) = chunk
  BY Zenon DEF ChunkOf
<1> HIDE DEF n
<1>3. Len(chunk) = n /\ chunk \in Seq(Heights) /\ \A i \in 1 .. n : chunk[i] = q[i]
  BY <1>1
<1>4. /\ rest \in Seq(Heights) /\ Len(rest) = Len(q) - n
      /\ \A i \in 1 .. (Len(q) - n) : rest[i] = q[n + i]
  BY <1>1
<1>5. ASSUME NEW i \in 1 .. Len(q), ~ (i <= n)
      PROVE  q[i] \in Range(rest)
  <2>1. i - n \in 1 .. (Len(q) - n) /\ n + (i - n) = i
    BY <1>1, <1>5
  <2>2. rest[i - n] = q[i]
    BY <1>4, <2>1
  <2>3. i - n \in DOMAIN rest
    BY <1>4, <2>1
  <2> QED
    BY <2>2, <2>3, Zenon DEF Range
<1> QED
  BY <1>1, <1>2, <1>3, <1>4, <1>5, Zenon

LEMMA HeaderChunkOf ==
  ASSUME NEW s
  PROVE  /\ HeaderChunk(s) = ChunkOf(job[s].missing)
         /\ HeaderChunk(s)' = ChunkOf(job'[s].missing)
BY DEF HeaderChunk, ChunkOf

\* A list of missing heights.
LEMMA SortedType ==
  ASSUME NEW S \in SUBSET Heights, NEW q \in Sorted(S)
  PROVE  q \in Seq(Heights) /\ Range(q) = S
<1>1. Cardinality(S) \in Nat
  BY HeightsAssumption, FS_Subset, FS_CardinalityType
<1>2. q \in [1 .. Cardinality(S) -> S] /\ Range(q) = S
  BY Zenon DEF Sorted
<1> QED
  BY <1>1, <1>2

\* Zipping puts blocks in, and takes nothing out.
LEMMA ZippedType ==
  ASSUME NEW chunk, NEW found \in Seq(Blocks), NEW map \in [Heights -> Blocks \cup {None}]
  PROVE  /\ Zipped(chunk, found, map) \in [Heights -> Blocks \cup {None}]
         /\ \A h \in Heights :
              Zipped(chunk, found, map)[h] # None <=>
                map[h] # None \/ \E i \in 1 .. Len(found) : chunk[i] = h
<1> DEFINE pairs == {<<chunk[i], found[i]>> : i \in 1 .. Len(found)}
           Hit(h) == \E p \in pairs : p[1] = h
           pair(h) == CHOOSE p \in pairs : p[1] = h
<1>1. \A i \in 1 .. Len(found) : found[i] \in Blocks
  OBVIOUS
<1>2. \A p \in pairs : p[2] \in Blocks /\ \E i \in 1 .. Len(found) : p[1] = chunk[i]
  BY <1>1
<1>3. \A h : Hit(h) <=> \E i \in 1 .. Len(found) : chunk[i] = h
  <2>1. \A i \in 1 .. Len(found) : <<chunk[i], found[i]>>[1] = chunk[i]
    OBVIOUS
  <2> QED
    BY <1>2, <2>1, Zenon
<1>4. \A h : Hit(h) => pair(h)[2] \in Blocks
  <2> HIDE DEF pairs
  <2>1. \A h : Hit(h) => pair(h) \in pairs
    BY Zenon
  <2> QED
    BY <1>2, <2>1, Zenon
<1>5. Zipped(chunk, found, map) = [h \in Heights |-> IF Hit(h) THEN pair(h)[2] ELSE map[h]]
  BY DEF Zipped
<1> HIDE DEF pair, Hit
<1>6. \A h \in Heights :
        /\ Hit(h) => pair(h)[2] \in Blocks /\ pair(h)[2] # None
        /\ map[h] \in Blocks \cup {None}
  BY <1>4, NoneAssumption
<1>7. \A h \in Heights : Zipped(chunk, found, map)[h] = IF Hit(h) THEN pair(h)[2] ELSE map[h]
  BY <1>5
<1>8. Zipped(chunk, found, map) \in [Heights -> Blocks \cup {None}]
  BY <1>5, <1>6
<1>9. \A h \in Heights : Zipped(chunk, found, map)[h] # None <=> map[h] # None \/ Hit(h)
  BY <1>6, <1>7
<1> QED
  BY <1>3, <1>8, <1>9, Zenon

LEMMA NewJobType ==
  /\ NewJob \in Jobs /\ NewJob.missing = <<>> /\ NewJob.asked = 0
  /\ NewJob.hashes = [h \in Heights |-> None]
  /\ NewJob.toFetch = {} /\ NewJob.singles = {} /\ NewJob.proofs = {} /\ NewJob.results = {}
BY DEF NewJob, Jobs

LEMMA BeginKeeps ==
  ASSUME IInv, NEW s \in Syncs, Begin(s)
  PROVE  IInv'
<1>1. PICK wanted \in SUBSET Confirmed :
        job' = [job EXCEPT ![s] = [NewJob EXCEPT !.wanted = wanted, !.seen = Chain]]
  BY Zenon DEF Begin
<1> DEFINE new == [NewJob EXCEPT !.wanted = wanted, !.seen = Chain]
<1>2. TypeOK
  BY Zenon DEF IInv
<1>3. /\ chain \in [Heights -> 0 .. MaxFork] /\ headers \in [Heights -> Blocks \cup {None}]
      /\ anchors \subseteq AnchorSet /\ lock \in Syncs \cup {None}
  BY <1>2, Zenon DEF TypeOK
<1>4. /\ chain' = chain /\ headers' = headers /\ anchors' = anchors /\ lock' = lock
      /\ calls' = calls + 1 /\ calls < MaxCalls /\ pc' = [pc EXCEPT ![s] = "Begin"]
  BY Zenon DEF Begin, Goes
<1>5. wanted \in SUBSET Pairs
  BY DEF Confirmed, Pairs
<1>6. Chain \in SUBSET Blocks
  BY <1>3, BlockType, Zenon DEF Chain
<1>7. /\ new \in Jobs /\ new.wanted = wanted /\ new.missing = <<>> /\ new.asked = 0
      /\ new.hashes = [h \in Heights |-> None]
      /\ new.toFetch = {} /\ new.singles = {} /\ new.proofs = {} /\ new.results = {}
      /\ new.seen = Chain
  BY <1>5, <1>6, NewJobType DEF Jobs
<1> HIDE DEF new
<1>8. calls' \in 0 .. MaxCalls
  BY <1>2, <1>4, BoundsAssumption DEF TypeOK
<1>9. job' = [job EXCEPT ![s] = new]
  BY <1>1, Zenon DEF new
<1>10. new.asked <= Len(HeaderChunk(s))'
  <2>1. job'[s] = new
    BY <1>2, <1>9, Zenon DEF TypeOK
  <2>2. new.missing \in Seq(Heights)
    BY <1>7 DEF Jobs
  <2>3. Len(HeaderChunk(s)') \in Nat
    BY <2>1, <2>2, HeaderChunkOf, ChunkOfType, Zenon
  <2> QED
    BY <1>7, <2>3
<1>11. /\ TypeOK' /\ pc'[s] = "Begin" /\ job'[s] = new
       /\ \A u \in Syncs : u # s => pc'[u] = pc[u] /\ job'[u] = job[u]
  <2>1. "Begin" \in Points
    BY DEF Points
  <2>2. headers' \in [Heights -> Blocks \cup {None}] /\ anchors' \subseteq AnchorSet /\ lock' \in Syncs \cup {None}
    BY <1>3, <1>4, Zenon
  <2> QED
    <3>1. new \in Jobs
      BY <1>7, Zenon
    <3> QED
      BY <1>2, <1>4, <1>8, <1>9, <1>10, <2>1, <2>2, <3>1, JobStep, Zenon
<1>12. Chain' = Chain /\ Confirmed' = Confirmed
  BY <1>4, Zenon DEF Chain, Confirmed, Block
<1>13. Safe(s)'
  <2>1. \A h \in Heights : new.hashes[h] = None
    BY <1>7, Zenon
  <2> QED
    BY <1>7, <1>11, <1>12, <2>1 DEF Safe
<1>14. Complete(s)'
  BY <1>7, <1>11, <1>12 DEF Complete
<1>15. HeadersKept /\ \A a \in anchors' : Proven(a)
  BY <1>4, Zenon DEF HeadersKept, IInv
<1> QED
  BY <1>4, <1>11, <1>13, <1>14, <1>15, StepKeeps, Zenon

LEMMA LockHeadersKeeps ==
  ASSUME IInv, NEW s \in Syncs, LockHeaders(s)
  PROVE  IInv'
<1> DEFINE needed == {p[2] : p \in job[s].wanted}
           S == {h \in needed : headers[h] = None}
           H == [h \in Heights |-> IF h \in needed THEN headers[h] ELSE None]
<1>1. PICK missing \in Sorted(S) :
        job' = [job EXCEPT ![s].hashes = H, ![s].missing = missing]
  BY Zenon DEF LockHeaders
<1> DEFINE new == [job[s] EXCEPT !.hashes = H, !.missing = missing]
<1>2. TypeOK
  BY Zenon DEF IInv
<1>3. /\ headers \in [Heights -> Blocks \cup {None}] /\ anchors \subseteq AnchorSet
      /\ calls \in 0 .. MaxCalls
  BY <1>2, Zenon DEF TypeOK
<1>4. /\ chain' = chain /\ headers' = headers /\ anchors' = anchors /\ lock' = s
      /\ calls' = calls /\ pc[s] = "Begin" /\ pc' = [pc EXCEPT ![s] = "Headers"]
  BY Zenon DEF LockHeaders, Goes
<1>5. job[s] \in Jobs /\ job[s].wanted \in SUBSET Pairs
  BY <1>2, JobFields, Zenon
<1>6. needed \in SUBSET Heights /\ S \in SUBSET Heights
  BY <1>5 DEF Pairs
<1>7. missing \in Seq(Heights) /\ Range(missing) = S
  BY <1>6, SortedType, Zenon
<1>8. H \in [Heights -> Blocks \cup {None}] /\ \A h \in Heights : H[h] = IF h \in needed THEN headers[h] ELSE None
  BY <1>3
<1> HIDE DEF H
<1>9. /\ new \in Jobs /\ new.wanted = job[s].wanted /\ new.missing = missing
      /\ new.asked = job[s].asked /\ new.hashes = H
      /\ new.toFetch = job[s].toFetch /\ new.singles = job[s].singles
      /\ new.proofs = job[s].proofs /\ new.results = job[s].results
      /\ new.quiet = job[s].quiet /\ new.seen = job[s].seen
  BY <1>5, <1>7, <1>8 DEF Jobs
<1> HIDE DEF new
<1>10. Safe(s) /\ (job[s].quiet => Complete(s))
  BY <1>4, Zenon DEF IInv
<1>11. job[s].toFetch = {} /\ job[s].singles = {} /\ job[s].asked = 0
  BY <1>4, <1>10, Zenon DEF Safe
<1>12. job' = [job EXCEPT ![s] = new]
  BY <1>1, Zenon DEF new
<1>13. new.asked <= Len(HeaderChunk(s))'
  <2>1. job'[s] = new
    BY <1>2, <1>12, Zenon DEF TypeOK
  <2>2. Len(HeaderChunk(s)') \in Nat
    BY <1>7, <1>9, <2>1, HeaderChunkOf, ChunkOfType, Zenon
  <2> QED
    BY <1>9, <1>11, <2>2
<1>14. /\ TypeOK' /\ pc'[s] = "Headers" /\ job'[s] = new
       /\ \A u \in Syncs : u # s => pc'[u] = pc[u] /\ job'[u] = job[u]
  <2>1. "Headers" \in Points
    BY DEF Points
  <2>2. /\ headers' \in [Heights -> Blocks \cup {None}] /\ anchors' \subseteq AnchorSet
        /\ lock' \in Syncs \cup {None} /\ calls' \in 0 .. MaxCalls
    BY <1>3, <1>4, Zenon
  <2>3. new \in Jobs
    BY <1>9, Zenon
  <2> QED
    BY <1>2, <1>4, <1>12, <1>13, <2>1, <2>2, <2>3, JobStep, Zenon
<1>15. Chain' = Chain /\ Confirmed' = Confirmed /\ \A h : Block(h)' = Block(h)
  BY <1>4, Zenon DEF Chain, Confirmed, Block
<1>16. Safe(s)'
  <2>1. \A h \in Heights : new.hashes[h] # None => headers'[h] # None
    BY <1>4, <1>8, <1>9, Zenon
  <2>2. pc'[s] # "Begin" /\ pc'[s] \notin {"Retry", "Store"} /\ pc'[s] # "Store" /\ pc[s] # "Idle"
    BY <1>4, <1>14
  <2>3. job'[s].toFetch = {} /\ job'[s].singles = {}
    BY <1>9, <1>11, <1>14, Zenon
  <2> QED
    BY <1>4, <1>9, <1>10, <1>14, <1>15, <2>1, <2>2, <2>3, Zenon DEF Safe
<1>17. job[s].quiet => Complete(s)'
  <2> SUFFICES ASSUME job[s].quiet
               PROVE  Complete(s)'
    OBVIOUS
  <2>1. Complete(s)
    BY <1>10, Zenon
  <2>2. ASSUME NEW p \in job[s].wanted
        PROVE  new.hashes[p[2]] # None \/ p[2] \in Range(new.missing)
    <3>1. p[2] \in needed /\ p[2] \in Heights
      BY <1>6, Zenon
    <3> QED
      BY <1>7, <1>8, <1>9, <3>1, Zenon
  <2>3. pc'[s] # "HeaderSingles" /\ pc'[s] # "Anchors" /\ pc'[s] \notin {"Proofs", "Retry", "Store", "Done"}
         /\ pc'[s] # "Store" /\ pc'[s] # "Done"
    BY <1>14
  <2> QED
    BY <1>9, <1>14, <1>15, <2>1, <2>2, <2>3, Zenon DEF Complete
<1>18. HeadersKept /\ \A a \in anchors' : Proven(a)
  BY <1>4, Zenon DEF HeadersKept, IInv
<1> QED
  BY <1>4, <1>9, <1>14, <1>16, <1>17, <1>18, StepKeeps, Zenon

\* A batch of headers, or the singles in its place: each height of the chunk
\* that was answered gets a hash, in the cache as in the call.
LEMMA StoreHeadersKeeps ==
  ASSUME IInv, NEW s \in Syncs, NEW found \in Seq(Blocks), StoreHeaders(s, found),
         pc[s] \in {"Headers", "HeaderSingles"}, pc' = [pc EXCEPT ![s] = "Headers"],
         UNCHANGED <<chain, anchors, lock, calls>>,
         pc[s] = "Headers" => Len(found) = Len(HeaderChunk(s))
  PROVE  IInv'
<1> DEFINE old == job[s].missing
           chunk == HeaderChunk(s)
           H == Zipped(chunk, found, job[s].hashes)
           rest == SubSeq(old, Len(chunk) + 1, Len(old))
           none == <<>>
           new == [job[s] EXCEPT !.hashes = H, !.missing = rest, !.got = none, !.asked = 0]
<1>1. TypeOK
  BY Zenon DEF IInv
<1>2. /\ headers \in [Heights -> Blocks \cup {None}] /\ anchors \subseteq AnchorSet
      /\ lock \in Syncs \cup {None} /\ calls \in 0 .. MaxCalls
  BY <1>1, Zenon DEF TypeOK
<1>3. /\ job[s] \in Jobs /\ old \in Seq(Heights) /\ job[s].wanted \in SUBSET Pairs
      /\ job[s].hashes \in [Heights -> Blocks \cup {None}]
  BY <1>1, JobFields, Zenon
<1>4. /\ chain' = chain /\ anchors' = anchors /\ lock' = lock /\ calls' = calls
  BY Zenon
<1>5. headers' = Zipped(chunk, found, headers)
  BY Zenon DEF StoreHeaders
<1>6. job' = [job EXCEPT ![s] = new]
  BY Zenon DEF StoreHeaders
<1>7. chunk = ChunkOf(old)
  BY HeaderChunkOf, Zenon
<1> HIDE DEF chunk
<1>8. /\ Len(chunk) \in Nat /\ Len(chunk) <= Len(old)
      /\ \A i \in 1 .. Len(chunk) : chunk[i] = old[i]
      /\ rest \in Seq(Heights)
      /\ \A i \in 1 .. Len(old) : i <= Len(chunk) \/ old[i] \in Range(rest)
  BY <1>3, <1>7, ChunkOfType
<1>9. /\ H \in [Heights -> Blocks \cup {None}]
      /\ \A h \in Heights :
           H[h] # None <=> job[s].hashes[h] # None \/ \E i \in 1 .. Len(found) : chunk[i] = h
  BY <1>3, ZippedType, Zenon
<1>10. /\ headers' \in [Heights -> Blocks \cup {None}]
       /\ \A h \in Heights :
            headers'[h] # None <=> headers[h] # None \/ \E i \in 1 .. Len(found) : chunk[i] = h
  <2>1. /\ Zipped(chunk, found, headers) \in [Heights -> Blocks \cup {None}]
        /\ \A h \in Heights :
             Zipped(chunk, found, headers)[h] # None <=>
               headers[h] # None \/ \E i \in 1 .. Len(found) : chunk[i] = h
    BY <1>2, ZippedType, Zenon
  <2> QED
    BY <1>5, <2>1, Zenon
<1> HIDE DEF H, rest
<1>11. none \in Seq(Blocks)
  OBVIOUS
<1> HIDE DEF none
<1>12. /\ new \in Jobs /\ new.wanted = job[s].wanted /\ new.missing = rest
       /\ new.asked = 0 /\ new.hashes = H
       /\ new.toFetch = job[s].toFetch /\ new.singles = job[s].singles
       /\ new.proofs = job[s].proofs /\ new.results = job[s].results
       /\ new.quiet = job[s].quiet /\ new.seen = job[s].seen
  <2>1. job[s] \in Jobs /\ rest \in Seq(Heights) /\ H \in [Heights -> Blocks \cup {None}]
    BY <1>3, <1>8, <1>9, Zenon
  <2> QED
    BY <1>11, <2>1 DEF Jobs
<1> HIDE DEF new
<1>13. new.asked <= Len(HeaderChunk(s))'
  <2>1. job'[s] = new
    BY <1>1, <1>6, Zenon DEF TypeOK
  <2>2. Len(HeaderChunk(s)') \in Nat
    BY <1>8, <1>12, <2>1, HeaderChunkOf, ChunkOfType, Zenon
  <2> QED
    BY <1>12, <2>2
<1>14. /\ TypeOK' /\ pc'[s] = "Headers" /\ job'[s] = new
       /\ \A u \in Syncs : u # s => pc'[u] = pc[u] /\ job'[u] = job[u]
  <2>1. "Headers" \in Points
    BY DEF Points
  <2>2. /\ anchors' \subseteq AnchorSet /\ lock' \in Syncs \cup {None} /\ calls' \in 0 .. MaxCalls
    BY <1>2, <1>4, Zenon
  <2>3. new \in Jobs /\ headers' \in [Heights -> Blocks \cup {None}]
    BY <1>10, <1>12, Zenon
  <2> QED
    BY <1>1, <1>4, <1>6, <1>13, <2>1, <2>2, <2>3, JobStep, Zenon
<1>15. Chain' = Chain /\ Confirmed' = Confirmed /\ \A h : Block(h)' = Block(h)
  BY <1>4, Zenon DEF Chain, Confirmed, Block
<1>16. HeadersKept
  BY <1>10, Zenon DEF HeadersKept
<1>17. Safe(s) /\ (job[s].quiet => Complete(s))
  BY Zenon DEF IInv
<1>18. Safe(s)'
  <2>1. \A h \in Heights : new.hashes[h] # None => headers'[h] # None
    <3>1. \A h \in Heights : job[s].hashes[h] # None => headers[h] # None
      BY <1>17, Zenon DEF Safe
    <3> QED
      BY <1>9, <1>10, <1>12, <3>1, Zenon
  <2>2. pc'[s] # "Begin" /\ pc'[s] \notin {"Retry", "Store"} /\ pc'[s] # "Store" /\ pc[s] # "Idle"
    BY <1>14
  <2>3. \A p \in new.toFetch \cup new.singles : new.hashes[p[2]] # None
    <3>1. \A p \in job[s].toFetch \cup job[s].singles : job[s].hashes[p[2]] # None /\ p[2] \in Heights
      BY <1>1, <1>17, JobFields DEF Safe, Pairs
    <3> QED
      BY <1>9, <1>12, <3>1, Zenon
  <2>4. \A proof \in new.proofs : headers'[proof.height] # None /\ Made(proof, new.seen)
    <3> TAKE proof \in new.proofs
    <3>1. headers[proof.height] # None /\ Made(proof, job[s].seen)
      BY <1>12, <1>17, Zenon DEF Safe
    <3>2. job[s].seen \in SUBSET Blocks
      BY <1>1, JobFields, Zenon
    <3>3. proof.height \in Heights
      BY <3>1, <3>2, MadeFields, Zenon
    <3> QED
      BY <1>12, <1>16, <3>1, <3>3, Zenon DEF HeadersKept
  <2> QED
    BY <1>12, <1>14, <1>15, <1>17, <2>1, <2>2, <2>3, <2>4, Zenon DEF Safe
<1>19. job[s].quiet => Complete(s)'
  <2> SUFFICES ASSUME job[s].quiet
               PROVE  Complete(s)'
    OBVIOUS
  <2>1. Complete(s)
    BY <1>17, Zenon
  <2>2. pc[s] = "Headers" /\ Len(found) = Len(chunk)
    BY <2>1 DEF Complete, chunk
  <2>3. ASSUME NEW p \in job[s].wanted
        PROVE  new.hashes[p[2]] # None \/ p[2] \in Range(new.missing)
    <3>1. p[2] \in Heights
      BY <1>3 DEF Pairs
    <3>2. job[s].hashes[p[2]] # None \/ p[2] \in Range(old)
      BY <2>1, <2>2, Zenon DEF Complete
    <3>3. CASE job[s].hashes[p[2]] # None
      BY <1>9, <1>12, <3>1, <3>3, Zenon
    <3>4. CASE p[2] \in Range(old)
      <4>1. PICK i \in 1 .. Len(old) : old[i] = p[2]
        <5>1. DOMAIN old = 1 .. Len(old)
          BY <1>3
        <5> QED
          BY <3>4, <5>1, Zenon DEF Range
      <4>2. CASE i <= Len(chunk)
        <5>1. i \in 1 .. Len(found) /\ chunk[i] = p[2]
          BY <1>3, <1>8, <2>2, <4>1, <4>2
        <5> QED
          BY <1>9, <1>12, <3>1, <5>1, Zenon
      <4>3. CASE ~ (i <= Len(chunk))
        BY <1>8, <1>12, <4>1, <4>3, Zenon
      <4> QED
        BY <4>2, <4>3, Zenon
    <3> QED
      BY <3>2, <3>3, <3>4, Zenon
  <2>4. pc'[s] # "HeaderSingles" /\ pc'[s] # "Anchors" /\ pc'[s] \notin {"Proofs", "Retry", "Store", "Done"}
        /\ pc'[s] # "Store" /\ pc'[s] # "Done"
    BY <1>14
  <2> QED
    BY <1>12, <1>14, <1>15, <2>1, <2>3, <2>4, Zenon DEF Complete
<1>20. \A a \in anchors' : Proven(a)
  BY <1>4, Zenon DEF IInv
<1> QED
  BY <1>4, <1>12, <1>14, <1>16, <1>18, <1>19, <1>20, StepKeeps, Zenon

LEMMA HeaderBatchKeeps ==
  ASSUME IInv, NEW s \in Syncs, HeaderBatch(s)
  PROVE  IInv'
<1> DEFINE chunk == HeaderChunk(s)
           found == [i \in 1 .. Len(chunk) |-> Block(chunk[i])]
<1>1. TypeOK
  BY Zenon DEF IInv
<1>2. /\ StoreHeaders(s, found) /\ pc[s] = "Headers" /\ pc' = [pc EXCEPT ![s] = "Headers"]
      /\ UNCHANGED <<chain, anchors, lock, calls>>
  BY Zenon DEF HeaderBatch, Goes
<1>3. chunk \in Seq(Heights) /\ Len(chunk) \in Nat
  BY <1>1, JobFields, HeaderChunkOf, ChunkOfType
<1>4. \A i \in 1 .. Len(chunk) : Block(chunk[i]) \in Blocks
  <2>1. \A i \in 1 .. Len(chunk) : chunk[i] \in Heights
    BY <1>3
  <2>2. chain \in [Heights -> 0 .. MaxFork]
    BY <1>1, Zenon DEF TypeOK
  <2> QED
    BY <2>1, <2>2, BlockType, Zenon
<1>5. found \in Seq(Blocks) /\ Len(found) = Len(chunk)
  <2> HIDE DEF chunk
  <2> QED
    BY <1>3, <1>4
<1> HIDE DEF found
<1> QED
  BY <1>2, <1>5, StoreHeadersKeeps

LEMMA HeaderSinglesEndKeeps ==
  ASSUME IInv, NEW s \in Syncs, HeaderSinglesEnd(s)
  PROVE  IInv'
<1>1. job[s].got \in Seq(Blocks)
  BY JobFields, Zenon DEF IInv
<1>2. /\ StoreHeaders(s, job[s].got) /\ pc[s] = "HeaderSingles"
      /\ pc' = [pc EXCEPT ![s] = "Headers"] /\ UNCHANGED <<chain, anchors, lock, calls>>
  BY Zenon DEF HeaderSinglesEnd, Goes
<1> QED
  BY <1>1, <1>2, StoreHeadersKeeps

\* A step that leaves the server and the caches alone.
LEMMA LocalStep ==
  ASSUME IInv, NEW s \in Syncs, NEW to \in Points, NEW new \in Jobs,
         UNCHANGED <<chain, headers, anchors, calls>>, lock' \in Syncs \cup {None},
         pc' = [pc EXCEPT ![s] = to], job' = [job EXCEPT ![s] = new],
         new.asked <= Len(ChunkOf(new.missing))
  PROVE  /\ TypeOK' /\ pc'[s] = to /\ job'[s] = new
         /\ \A u \in Syncs : u # s => pc'[u] = pc[u] /\ job'[u] = job[u]
         /\ chain' = chain /\ headers' = headers /\ HeadersKept
         /\ \A a \in anchors' : Proven(a)
         /\ Chain' = Chain /\ Confirmed' = Confirmed
         /\ \A h : Block(h)' = Block(h)
         /\ \A p : Proof(p)' = Proof(p)
<1>1. TypeOK
  BY Zenon DEF IInv
<1>2. /\ headers \in [Heights -> Blocks \cup {None}] /\ anchors \subseteq AnchorSet
      /\ calls \in 0 .. MaxCalls /\ job \in [Syncs -> Jobs]
  BY <1>1, Zenon DEF TypeOK
<1>3. chain' = chain /\ headers' = headers /\ anchors' = anchors /\ calls' = calls
  BY Zenon
<1>4. new.asked <= Len(HeaderChunk(s))'
  <2>1. job'[s] = new
    BY <1>2, Zenon
  <2>2. HeaderChunk(s)' = ChunkOf(new.missing)
    BY <2>1, HeaderChunkOf, Zenon
  <2> QED
    BY <2>2, Zenon
<1>5. /\ headers' \in [Heights -> Blocks \cup {None}] /\ anchors' \subseteq AnchorSet
      /\ calls' \in 0 .. MaxCalls
  BY <1>2, <1>3, Zenon
<1>6. /\ TypeOK' /\ pc'[s] = to /\ job'[s] = new
      /\ \A u \in Syncs : u # s => pc'[u] = pc[u] /\ job'[u] = job[u]
  BY <1>1, <1>3, <1>4, <1>5, JobStep, Zenon
<1>7. HeadersKept /\ \A a \in anchors' : Proven(a)
  BY <1>3, Zenon DEF HeadersKept, IInv
<1>8. \A h : Block(h)' = Block(h)
  BY <1>3, Zenon DEF Block
<1>9. Chain' = Chain /\ Confirmed' = Confirmed /\ \A p : Proof(p)' = Proof(p)
  BY <1>8, Zenon DEF Chain, Confirmed, Proof
<1> QED
  BY <1>3, <1>6, <1>7, <1>8, <1>9, Zenon

\* What IInv says of one sync.
LEMMA InvOf ==
  ASSUME IInv, NEW s \in Syncs
  PROVE  /\ TypeOK /\ job[s] \in Jobs
         /\ Safe(s) /\ (pc[s] # "Idle" /\ job[s].quiet => Complete(s))
         /\ job[s].asked <= Len(ChunkOf(job[s].missing))
         /\ lock \in Syncs \cup {None}
         /\ job = [job EXCEPT ![s] = job[s]]
<1>1. TypeOK
  BY Zenon DEF IInv
<1>2. job[s].asked <= Len(ChunkOf(job[s].missing))
  BY <1>1, HeaderChunkOf, Zenon DEF TypeOK
<1>3. job \in [Syncs -> Jobs]
  BY <1>1, Zenon DEF TypeOK
<1>4. job = [job EXCEPT ![s] = job[s]]
  BY <1>3
<1> QED
  BY <1>1, <1>2, <1>3, <1>4, Zenon DEF IInv, TypeOK

\* Safe after a step that stores no header and looks up none.
LEMMA SafeLocal ==
  ASSUME NEW s, Safe(s), Chain' = Chain, headers' = headers, pc[s] # "Idle", pc'[s] # "Begin",
         job'[s].hashes = job[s].hashes, job'[s].seen = job[s].seen,
         \A p \in job'[s].toFetch \cup job'[s].singles : job[s].hashes[p[2]] # None,
         \A proof \in job'[s].proofs : headers[proof.height] # None /\ Made(proof, job[s].seen),
         pc'[s] \in {"Retry", "Store"} => job'[s].stale \in job'[s].proofs,
         pc'[s] = "Store" => job'[s].fresh \in Blocks,
         \A r \in job'[s].results :
           Proven(r.anchor) /\ (r.cached \/ r.anchor.block \in job[s].seen)
  PROVE  Safe(s)'
<1>1. /\ \A h \in Heights : job'[s].hashes[h] # None => headers'[h] # None
      /\ Chain' \subseteq job'[s].seen
  BY Zenon DEF Safe
<1>2. \A p \in job'[s].toFetch \cup job'[s].singles : job'[s].hashes[p[2]] # None
  BY Zenon
<1>3. \A proof \in job'[s].proofs : headers'[proof.height] # None /\ Made(proof, job'[s].seen)
  BY Zenon
<1>4. \A r \in job'[s].results :
        Proven(r.anchor) /\ (r.cached \/ r.anchor.block \in job'[s].seen)
  BY Zenon
<1> QED
  BY <1>1, <1>2, <1>3, <1>4, Zenon DEF Safe

\* Safe after a step that changes nothing it looks at but the point.
LEMMA SafeKept ==
  ASSUME NEW s, Safe(s), Chain' = Chain, headers' = headers, pc[s] # "Idle",
         pc'[s] \notin {"Begin", "Retry", "Store"},
         job'[s].hashes = job[s].hashes, job'[s].seen = job[s].seen,
         job'[s].toFetch = job[s].toFetch, job'[s].singles = job[s].singles,
         job'[s].proofs = job[s].proofs, job'[s].results = job[s].results
  PROVE  Safe(s)'
<1>1. pc'[s] # "Begin" /\ pc'[s] \notin {"Retry", "Store"} /\ pc'[s] # "Store"
  OBVIOUS
<1>2. /\ \A p \in job'[s].toFetch \cup job'[s].singles : job[s].hashes[p[2]] # None
      /\ \A proof \in job'[s].proofs : headers[proof.height] # None /\ Made(proof, job[s].seen)
      /\ \A r \in job'[s].results :
           Proven(r.anchor) /\ (r.cached \/ r.anchor.block \in job[s].seen)
  BY Zenon DEF Safe
<1> QED
  BY <1>1, <1>2, SafeLocal, Zenon

LEMMA HeaderBatchFailsKeeps ==
  ASSUME IInv, NEW s \in Syncs, HeaderBatchFails(s)
  PROVE  IInv'
<1> DEFINE new == [job[s] EXCEPT !.quiet = FALSE]
<1>1. /\ job' = [job EXCEPT ![s] = new] /\ UNCHANGED <<chain, headers, anchors, lock, calls>>
      /\ pc[s] = "Headers" /\ pc' = [pc EXCEPT ![s] = "HeaderSingles"]
  BY Zenon DEF HeaderBatchFails, Goes
<1>2. /\ new \in Jobs /\ new.missing = job[s].missing /\ new.asked = job[s].asked
      /\ new.hashes = job[s].hashes /\ new.toFetch = job[s].toFetch
      /\ new.singles = job[s].singles /\ new.proofs = job[s].proofs
      /\ new.results = job[s].results /\ new.quiet = FALSE /\ new.seen = job[s].seen
  <2>1. job[s] \in Jobs
    BY InvOf, Zenon
  <2> QED
    BY <2>1 DEF Jobs
<1> HIDE DEF new
<1>3. "HeaderSingles" \in Points
  BY DEF Points
<1>4. lock' \in Syncs \cup {None} /\ new.asked <= Len(ChunkOf(new.missing))
  BY <1>1, <1>2, InvOf, Zenon
<1>5. /\ TypeOK' /\ pc'[s] = "HeaderSingles" /\ job'[s] = new
      /\ \A u \in Syncs : u # s => pc'[u] = pc[u] /\ job'[u] = job[u]
      /\ chain' = chain /\ headers' = headers /\ HeadersKept
      /\ \A a \in anchors' : Proven(a)
      /\ Chain' = Chain
  BY <1>1, <1>2, <1>3, <1>4, LocalStep, Zenon
<1>6. Safe(s)'
  <2>1. pc'[s] \notin {"Begin", "Retry", "Store"} /\ pc[s] # "Idle"
    BY <1>1, <1>5
  <2> QED
    BY <1>2, <1>5, <2>1, InvOf, SafeKept, Zenon
<1> QED
  BY <1>2, <1>5, <1>6, StepKeeps, Zenon

LEMMA HeaderSingleKeeps ==
  ASSUME IInv, NEW s \in Syncs, HeaderSingle(s)
  PROVE  IInv'
<1> DEFINE h == HeaderChunk(s)[job[s].asked + 1]
<1>1. /\ job[s].asked < Len(HeaderChunk(s)) /\ UNCHANGED <<chain, headers, anchors, lock, calls>>
      /\ pc[s] = "HeaderSingles" /\ pc' = [pc EXCEPT ![s] = "HeaderSingles"]
  BY Zenon DEF HeaderSingle, Goes
<1>2. PICK got \in {job[s].got, Append(job[s].got, Block(h))} :
        job' = [job EXCEPT ![s].asked = @ + 1, ![s].got = got]
  BY Zenon DEF HeaderSingle
<1> DEFINE n == job[s].asked + 1
           new == [job[s] EXCEPT !.asked = n, !.got = got]
<1>3. TypeOK /\ job[s] \in Jobs /\ job[s].asked \in Nat /\ job[s].got \in Seq(Blocks)
      /\ job[s].missing \in Seq(Heights)
  BY InvOf, JobFields, Zenon
<1>4. got \in Seq(Blocks)
  <2>1. HeaderChunk(s) \in Seq(Heights)
    BY <1>3, HeaderChunkOf, ChunkOfType, Zenon
  <2>2. h \in Heights
    BY <1>1, <1>3, <2>1
  <2>3. Block(h) \in Blocks
    BY <1>3, <2>2, BlockType, Zenon DEF TypeOK
  <2> HIDE DEF h
  <2>4. Append(job[s].got, Block(h)) \in Seq(Blocks)
    BY <1>3, <2>3
  <2> QED
    BY <1>3, <2>4
<1>5. n \in Nat /\ n <= Len(HeaderChunk(s))
  <2>1. Len(HeaderChunk(s)) \in Nat
    BY <1>3, HeaderChunkOf, ChunkOfType, Zenon
  <2> QED
    BY <1>1, <1>3, <2>1
<1>6. job' = [job EXCEPT ![s] = new]
  BY <1>2, Zenon
<1> HIDE DEF n
<1>7. /\ new \in Jobs /\ new.missing = job[s].missing /\ new.asked = n
      /\ new.hashes = job[s].hashes /\ new.toFetch = job[s].toFetch
      /\ new.singles = job[s].singles /\ new.proofs = job[s].proofs
      /\ new.results = job[s].results /\ new.quiet = job[s].quiet /\ new.seen = job[s].seen
  BY <1>3, <1>4, <1>5 DEF Jobs
<1> HIDE DEF new
<1>8. "HeaderSingles" \in Points
  BY DEF Points
<1>9. lock' \in Syncs \cup {None}
  BY <1>1, InvOf, Zenon
<1>10. new.asked <= Len(ChunkOf(new.missing))
  BY <1>5, <1>7, HeaderChunkOf, Zenon
<1>11. /\ TypeOK' /\ pc'[s] = "HeaderSingles" /\ job'[s] = new
       /\ \A u \in Syncs : u # s => pc'[u] = pc[u] /\ job'[u] = job[u]
       /\ chain' = chain /\ headers' = headers /\ HeadersKept
       /\ \A a \in anchors' : Proven(a)
       /\ Chain' = Chain
  BY <1>1, <1>6, <1>7, <1>8, <1>9, <1>10, LocalStep, Zenon
<1>12. pc'[s] \notin {"Begin", "Retry", "Store"} /\ pc[s] # "Idle"
  BY <1>1, <1>11
<1>13. Safe(s)'
  BY <1>7, <1>11, <1>12, InvOf, SafeKept, Zenon
<1>14. ~ job[s].quiet
  BY <1>1, <1>12, InvOf, Zenon DEF Complete
<1> QED
  BY <1>7, <1>11, <1>13, <1>14, StepKeeps, Zenon

LEMMA UnlockHeadersKeeps ==
  ASSUME IInv, NEW s \in Syncs, UnlockHeaders(s)
  PROVE  IInv'
<1>1. /\ job[s].missing = <<>> /\ job' = job /\ lock' = None
      /\ UNCHANGED <<chain, headers, anchors, calls>>
      /\ pc[s] = "Headers" /\ pc' = [pc EXCEPT ![s] = "Anchors"]
  BY Zenon DEF UnlockHeaders, Goes
<1>2. job' = [job EXCEPT ![s] = job[s]] /\ job[s] \in Jobs
  BY <1>1, InvOf, Zenon
<1>3. "Anchors" \in Points /\ lock' \in Syncs \cup {None}
  BY <1>1 DEF Points
<1>4. /\ TypeOK' /\ pc'[s] = "Anchors" /\ job'[s] = job[s]
      /\ \A u \in Syncs : u # s => pc'[u] = pc[u] /\ job'[u] = job[u]
      /\ chain' = chain /\ headers' = headers /\ HeadersKept
      /\ \A a \in anchors' : Proven(a)
      /\ Chain' = Chain /\ Confirmed' = Confirmed /\ \A h : Block(h)' = Block(h)
  BY <1>1, <1>2, <1>3, InvOf, LocalStep, Zenon
<1>5. /\ pc'[s] \notin {"Begin", "Retry", "Store"} /\ pc[s] # "Idle"
      /\ pc'[s] # "HeaderSingles" /\ pc'[s] # "Headers"
      /\ pc'[s] \notin {"Proofs", "Retry", "Store", "Done"} /\ pc'[s] # "Store" /\ pc'[s] # "Done"
  BY <1>1, <1>4
<1>6. Safe(s)'
  BY <1>4, <1>5, InvOf, SafeKept, Zenon
<1>7. ASSUME job[s].quiet
      PROVE  Complete(s)'
  <2>1. Complete(s)
    BY <1>5, <1>7, InvOf, Zenon
  <2>2. Range(job[s].missing) = {}
    BY <1>1 DEF Range
  <2>3. \A p \in job[s].wanted : job[s].hashes[p[2]] # None
    BY <1>1, <2>1, <2>2, Zenon DEF Complete
  <2> QED
    BY <1>4, <1>5, <2>1, <2>3, Zenon DEF Complete
<1> QED
  BY <1>4, <1>6, <1>7, StepKeeps, Zenon

-----------------------------------------------------------------------------
(* The proofs.                                                              *)

\* A proof of the block that is at its height now.
Current(proof) ==
  /\ proof.tx \in TxsOf[Block(proof.height)]
  /\ proof = Proofs[Block(proof.height)][proof.tx]

\* Complete after a step that leads to one of the points of the proofs.
LEMMA CompleteLocal ==
  ASSUME NEW s, Complete(s), Confirmed' = Confirmed, \A h : Block(h)' = Block(h),
         pc'[s] \in {"Proofs", "Retry", "Store"},
         job'[s].wanted = job[s].wanted, job'[s].singles = {},
         \A p \in job[s].wanted : Served(s, p)',
         \A proof \in job'[s].proofs : Current(proof),
         pc'[s] = "Store" => job'[s].fresh = Block(job'[s].stale.height)
  PROVE  Complete(s)'
<1>1. /\ pc'[s] # "HeaderSingles" /\ pc'[s] # "Headers" /\ pc'[s] # "Anchors" /\ pc'[s] # "Done"
  OBVIOUS
<1>2. \A proof \in job'[s].proofs : /\ proof.tx \in TxsOf[Block(proof.height)]
                                    /\ proof = Proofs[Block(proof.height)][proof.tx]
  BY Zenon DEF Current
<1>3. \A proof \in job'[s].proofs : /\ proof.tx \in TxsOf[Block(proof.height)']
                                    /\ proof = Proofs[Block(proof.height)'][proof.tx]
  BY <1>2, Zenon
<1>4. job'[s].wanted \subseteq Confirmed'
  BY Zenon DEF Complete
<1>5. pc'[s] = "Store" => job'[s].fresh = Block(job[s].stale.height)'
  BY Zenon
<1> QED
  BY <1>1, <1>3, <1>4, <1>5, Zenon DEF Complete

LEMMA CheckAnchorCacheKeeps ==
  ASSUME IInv, NEW s \in Syncs, CheckAnchorCache(s)
  PROVE  IInv'
<1> DEFINE known == {p \in job[s].wanted : job[s].hashes[p[2]] # None}
           found == {[anchor |-> a, cached |-> TRUE] : a \in Cached(s, known)}
           others == {p \in known : Cached(s, {p}) = {}}
           new == [job[s] EXCEPT !.results = found, !.toFetch = others]
<1>1. /\ job' = [job EXCEPT ![s] = new] /\ UNCHANGED <<chain, headers, anchors, lock, calls>>
      /\ pc[s] = "Anchors" /\ pc' = [pc EXCEPT ![s] = "Proofs"]
  BY Zenon DEF CheckAnchorCache, Goes
<1>2. /\ TypeOK /\ job[s] \in Jobs /\ job[s].wanted \in SUBSET Pairs
      /\ Safe(s) /\ (pc[s] # "Idle" /\ job[s].quiet => Complete(s))
  BY InvOf, JobFields, Zenon
<1>3. \A a \in Cached(s, known) : a \in AnchorSet /\ Proven(a)
  BY <1>2, Zenon DEF Cached, TypeOK, IInv
<1>4. /\ found \in SUBSET [anchor : AnchorSet, cached : BOOLEAN]
      /\ \A r \in found : Proven(r.anchor) /\ r.cached
  <2>1. \A r \in found : \E a \in Cached(s, known) : r = [anchor |-> a, cached |-> TRUE]
    BY Zenon
  <2> HIDE DEF found, known
  <2>2. ASSUME NEW r \in found
        PROVE  r \in [anchor : AnchorSet, cached : BOOLEAN] /\ Proven(r.anchor) /\ r.cached
    <3>1. PICK a \in Cached(s, known) : r = [anchor |-> a, cached |-> TRUE]
      BY <2>1
    <3>2. a \in AnchorSet /\ Proven(a)
      BY <1>3, Zenon
    <3> HIDE DEF Proven
    <3>3. r \in [anchor : AnchorSet, cached : BOOLEAN] /\ r.anchor = a /\ r.cached = TRUE
      BY <3>1, <3>2
    <3> QED
      BY <3>2, <3>3, Zenon
  <2> QED
    BY <2>2, Zenon
<1>5. others \in SUBSET Pairs /\ \A p \in others : job[s].hashes[p[2]] # None
  BY <1>2, Zenon
<1>6. \A p \in known : p \in others \/ \E r \in found : r.anchor.tx = p[1]
  <2> TAKE p \in known
  <2>1. ASSUME NEW a \in Cached(s, {p})
        PROVE  a \in Cached(s, known) /\ a.tx = p[1]
    BY Zenon DEF Cached
  <2>2. ASSUME NEW a \in Cached(s, {p})
        PROVE  \E r \in found : r.anchor.tx = p[1]
    <3>1. a \in Cached(s, known) /\ a.tx = p[1]
      BY <2>1, Zenon
    <3>2. [anchor |-> a, cached |-> TRUE] \in found
      BY <3>1, Zenon
    <3>3. [anchor |-> a, cached |-> TRUE].anchor = a
      OBVIOUS
    <3> QED
      BY <3>1, <3>2, <3>3, Zenon
  <2> QED
    BY <2>2, Zenon
<1>7. job[s].quiet => known = job[s].wanted
  BY <1>1, <1>2 DEF Complete
<1> HIDE DEF found, others, known
<1>8. /\ new \in Jobs /\ new.missing = job[s].missing /\ new.asked = job[s].asked
      /\ new.wanted = job[s].wanted /\ new.hashes = job[s].hashes /\ new.toFetch = others
      /\ new.singles = job[s].singles /\ new.proofs = job[s].proofs
      /\ new.results = found /\ new.quiet = job[s].quiet /\ new.seen = job[s].seen
  BY <1>2, <1>4, <1>5 DEF Jobs
<1> HIDE DEF new
<1>9. "Proofs" \in Points
  BY DEF Points
<1>10. lock' \in Syncs \cup {None} /\ new.asked <= Len(ChunkOf(new.missing))
  BY <1>1, <1>8, InvOf, Zenon
<1>11. /\ TypeOK' /\ pc'[s] = "Proofs" /\ job'[s] = new
       /\ \A u \in Syncs : u # s => pc'[u] = pc[u] /\ job'[u] = job[u]
       /\ chain' = chain /\ headers' = headers /\ HeadersKept
       /\ \A a \in anchors' : Proven(a)
       /\ Chain' = Chain /\ Confirmed' = Confirmed /\ \A h : Block(h)' = Block(h)
  BY <1>1, <1>8, <1>9, <1>10, LocalStep, Zenon
<1>12. /\ pc'[s] # "Begin" /\ pc'[s] \notin {"Retry", "Store"} /\ pc'[s] # "Store" /\ pc[s] # "Idle"
       /\ pc'[s] \in {"Proofs", "Retry", "Store"}
  BY <1>1, <1>11
<1>13. Safe(s)'
  <2>1. \A p \in job'[s].toFetch \cup job'[s].singles : job[s].hashes[p[2]] # None
    <3>1. \A p \in job[s].singles : job[s].hashes[p[2]] # None
      BY <1>2, Zenon DEF Safe
    <3> QED
      BY <1>5, <1>8, <1>11, <3>1, Zenon
  <2>2. \A proof \in job'[s].proofs : headers[proof.height] # None /\ Made(proof, job[s].seen)
    BY <1>2, <1>8, <1>11, Zenon DEF Safe
  <2>3. \A r \in job'[s].results : Proven(r.anchor) /\ (r.cached \/ r.anchor.block \in job[s].seen)
    BY <1>4, <1>8, <1>11, Zenon
  <2> QED
    BY <1>2, <1>8, <1>11, <1>12, <2>1, <2>2, <2>3, SafeLocal, Zenon
<1>14. ASSUME job[s].quiet
       PROVE  Complete(s)'
  <2>1. Complete(s)
    BY <1>2, <1>12, <1>14, Zenon
  <2>2. ASSUME NEW p \in job[s].wanted
        PROVE  Served(s, p)'
    BY <1>6, <1>7, <1>8, <1>11, <1>14, Zenon DEF Served
  <2>3. job'[s].singles = {} /\ \A proof \in job'[s].proofs : Current(proof)
    BY <1>8, <1>11, <2>1, Zenon DEF Complete, Current
  <2> QED
    BY <1>8, <1>11, <1>12, <2>1, <2>2, <2>3, CompleteLocal, Zenon
<1> QED
  BY <1>8, <1>11, <1>13, <1>14, StepKeeps, Zenon

\* The proof of a confirmed pair, as a call that knows the pair's height gets it.
LEMMA NewProof ==
  ASSUME IInv, NEW s \in Syncs, pc[s] # "Idle", NEW p \in Confirmed,
         job[s].hashes[p[2]] # None
  PROVE  /\ Proof(p) \in ProofSet /\ Current(Proof(p))
         /\ headers[Proof(p).height] # None /\ Made(Proof(p), job[s].seen)
<1>1. chain \in [Heights -> 0 .. MaxFork] /\ Safe(s)
  BY Zenon DEF IInv, TypeOK
<1>2. /\ p[2] \in Heights /\ p[1] \in TxsOf[Block(p[2])]
      /\ Proof(p) \in ProofSet /\ Proof(p).tx = p[1] /\ Proof(p).height = p[2]
      /\ Made(Proof(p), Chain)
  BY <1>1, ConfirmedProof, Zenon
<1>3. Made(Proof(p), job[s].seen) /\ headers[p[2]] # None
  BY <1>1, <1>2, MoreBlocks, Zenon DEF Safe
<1>4. Current(Proof(p))
  BY <1>2, Zenon DEF Current, Proof
<1> QED
  BY <1>2, <1>3, <1>4, Zenon

LEMMA ProofBatchKeeps ==
  ASSUME IInv, NEW s \in Syncs, ProofBatch(s)
  PROVE  IInv'
<1>1. PICK chunk \in ProofChunks(s) :
        /\ chunk \subseteq Confirmed
        /\ job' = [job EXCEPT ![s].toFetch = @ \ chunk,
                              ![s].proofs = {Proof(p) : p \in chunk}]
  BY Zenon DEF ProofBatch
<1> DEFINE rest == job[s].toFetch \ chunk
           made == {Proof(p) : p \in chunk}
           new == [job[s] EXCEPT !.toFetch = rest, !.proofs = made]
<1>2. /\ job' = [job EXCEPT ![s] = new] /\ UNCHANGED <<chain, headers, anchors, lock, calls>>
      /\ pc[s] = "Proofs" /\ pc' = [pc EXCEPT ![s] = "Proofs"] /\ ChunkDone(s)
  BY <1>1, Zenon DEF ProofBatch, Goes
<1>3. chunk \subseteq job[s].toFetch
  BY DEF ProofChunks
<1>4. /\ job[s] \in Jobs /\ job[s].toFetch \in SUBSET Pairs
      /\ Safe(s) /\ (pc[s] # "Idle" /\ job[s].quiet => Complete(s))
  BY InvOf, JobFields, Zenon
<1>5. pc[s] # "Idle"
  BY <1>2
<1>6. \A proof \in made : /\ proof \in ProofSet /\ Current(proof)
                          /\ headers[proof.height] # None /\ Made(proof, job[s].seen)
  <2>1. \A p \in chunk : p \in Confirmed /\ job[s].hashes[p[2]] # None
    BY <1>1, <1>3, <1>4, Zenon DEF Safe
  <2>2. \A p \in chunk : /\ Proof(p) \in ProofSet /\ Current(Proof(p))
                         /\ headers[Proof(p).height] # None /\ Made(Proof(p), job[s].seen)
    BY <1>5, <2>1, NewProof, Zenon
  <2> QED
    BY <2>2, Zenon
<1>7. made \in SUBSET ProofSet /\ rest \in SUBSET Pairs /\ rest \subseteq job[s].toFetch
  BY <1>4, <1>6, Zenon
<1>8. \A p \in job[s].toFetch : p \in rest \/ Proof(p) \in made
  BY Zenon
<1> HIDE DEF rest, made
<1>9. /\ new \in Jobs /\ new.missing = job[s].missing /\ new.asked = job[s].asked
      /\ new.wanted = job[s].wanted /\ new.hashes = job[s].hashes /\ new.toFetch = rest
      /\ new.singles = job[s].singles /\ new.proofs = made
      /\ new.results = job[s].results /\ new.quiet = job[s].quiet /\ new.seen = job[s].seen
  BY <1>4, <1>7 DEF Jobs
<1> HIDE DEF new
<1>10. "Proofs" \in Points
  BY DEF Points
<1>11. lock' \in Syncs \cup {None} /\ new.asked <= Len(ChunkOf(new.missing))
  BY <1>2, <1>9, InvOf, Zenon
<1>12. /\ TypeOK' /\ pc'[s] = "Proofs" /\ job'[s] = new
       /\ \A u \in Syncs : u # s => pc'[u] = pc[u] /\ job'[u] = job[u]
       /\ chain' = chain /\ headers' = headers /\ HeadersKept
       /\ \A a \in anchors' : Proven(a)
       /\ Chain' = Chain /\ Confirmed' = Confirmed
       /\ \A h : Block(h)' = Block(h)
       /\ \A p : Proof(p)' = Proof(p)
  BY <1>2, <1>9, <1>10, <1>11, LocalStep, Zenon
<1>13. /\ pc'[s] # "Begin" /\ pc'[s] \notin {"Retry", "Store"} /\ pc'[s] # "Store"
       /\ pc'[s] \in {"Proofs", "Retry", "Store"} /\ pc[s] \in {"Proofs", "Retry", "Store", "Done"}
  BY <1>2, <1>12
<1>14. Safe(s)'
  <2>1. \A p \in job'[s].toFetch \cup job'[s].singles : job[s].hashes[p[2]] # None
    BY <1>4, <1>7, <1>9, <1>12, Zenon DEF Safe
  <2>2. \A proof \in job'[s].proofs : headers[proof.height] # None /\ Made(proof, job[s].seen)
    BY <1>6, <1>9, <1>12, Zenon
  <2>3. \A r \in job'[s].results : Proven(r.anchor) /\ (r.cached \/ r.anchor.block \in job[s].seen)
    BY <1>4, <1>9, <1>12, Zenon DEF Safe
  <2> QED
    BY <1>4, <1>5, <1>9, <1>12, <1>13, <2>1, <2>2, <2>3, SafeLocal, Zenon
<1>15. ASSUME job[s].quiet
       PROVE  Complete(s)'
  <2>1. Complete(s)
    BY <1>4, <1>5, <1>15, Zenon
  <2>2. job[s].proofs = {} /\ job'[s].singles = {}
    BY <1>2, <1>9, <1>12, Zenon DEF ChunkDone
  <2>3. ASSUME NEW p \in job[s].wanted
        PROVE  Served(s, p)'
    <3>1. (\E r \in job[s].results : r.anchor.tx = p[1]) \/ p \in job[s].toFetch
      BY <1>13, <2>1, <2>2, Zenon DEF Complete, Served
    <3> QED
      BY <1>8, <1>9, <1>12, <3>1, Zenon DEF Served
  <2>4. \A proof \in job'[s].proofs : Current(proof)
    BY <1>6, <1>9, <1>12, Zenon
  <2> QED
    BY <1>9, <1>12, <1>13, <2>1, <2>2, <2>3, <2>4, CompleteLocal, Zenon
<1> QED
  BY <1>9, <1>12, <1>14, <1>15, StepKeeps, Zenon

LEMMA ProofBatchFailsKeeps ==
  ASSUME IInv, NEW s \in Syncs, ProofBatchFails(s)
  PROVE  IInv'
<1>1. PICK chunk \in ProofChunks(s) :
        job' = [job EXCEPT ![s].toFetch = @ \ chunk, ![s].singles = chunk, ![s].quiet = FALSE]
  BY Zenon DEF ProofBatchFails
<1> DEFINE rest == job[s].toFetch \ chunk
           new == [job[s] EXCEPT !.toFetch = rest, !.singles = chunk, !.quiet = FALSE]
<1>2. /\ job' = [job EXCEPT ![s] = new] /\ UNCHANGED <<chain, headers, anchors, lock, calls>>
      /\ pc[s] = "Proofs" /\ pc' = [pc EXCEPT ![s] = "Proofs"]
  BY <1>1, Zenon DEF ProofBatchFails, Goes
<1>3. chunk \subseteq job[s].toFetch
  BY DEF ProofChunks
<1>4. job[s] \in Jobs /\ job[s].toFetch \in SUBSET Pairs /\ Safe(s)
  BY InvOf, JobFields, Zenon
<1>5. chunk \in SUBSET Pairs /\ rest \in SUBSET Pairs /\ rest \subseteq job[s].toFetch
  BY <1>3, <1>4, Zenon
<1> HIDE DEF rest
<1>6. /\ new \in Jobs /\ new.missing = job[s].missing /\ new.asked = job[s].asked
      /\ new.hashes = job[s].hashes /\ new.toFetch = rest
      /\ new.singles = chunk /\ new.proofs = job[s].proofs
      /\ new.results = job[s].results /\ new.quiet = FALSE /\ new.seen = job[s].seen
  BY <1>4, <1>5 DEF Jobs
<1> HIDE DEF new
<1>7. "Proofs" \in Points
  BY DEF Points
<1>8. lock' \in Syncs \cup {None} /\ new.asked <= Len(ChunkOf(new.missing))
  BY <1>2, <1>6, InvOf, Zenon
<1>9. /\ TypeOK' /\ pc'[s] = "Proofs" /\ job'[s] = new
      /\ \A u \in Syncs : u # s => pc'[u] = pc[u] /\ job'[u] = job[u]
      /\ chain' = chain /\ headers' = headers /\ HeadersKept
      /\ \A a \in anchors' : Proven(a)
      /\ Chain' = Chain
  BY <1>2, <1>6, <1>7, <1>8, LocalStep, Zenon
<1>10. /\ pc'[s] # "Begin" /\ pc'[s] \notin {"Retry", "Store"} /\ pc'[s] # "Store" /\ pc[s] # "Idle"
  BY <1>2, <1>9
<1>11. Safe(s)'
  <2>1. \A p \in job'[s].toFetch \cup job'[s].singles : job[s].hashes[p[2]] # None
    BY <1>3, <1>4, <1>5, <1>6, <1>9, Zenon DEF Safe
  <2>2. \A proof \in job'[s].proofs : headers[proof.height] # None /\ Made(proof, job[s].seen)
    BY <1>4, <1>6, <1>9, Zenon DEF Safe
  <2>3. \A r \in job'[s].results : Proven(r.anchor) /\ (r.cached \/ r.anchor.block \in job[s].seen)
    BY <1>4, <1>6, <1>9, Zenon DEF Safe
  <2> QED
    BY <1>4, <1>6, <1>9, <1>10, <2>1, <2>2, <2>3, SafeLocal, Zenon
<1> QED
  BY <1>6, <1>9, <1>11, StepKeeps, Zenon

LEMMA ProofSingleKeeps ==
  ASSUME IInv, NEW s \in Syncs, ProofSingle(s)
  PROVE  IInv'
<1>1. PICK p \in job[s].singles :
        \E found \in {{}} \cup {{Proof(q)} : q \in {p} \cap Confirmed} :
          job' = [job EXCEPT ![s].singles = @ \ {p}, ![s].proofs = @ \cup found]
  BY Zenon DEF ProofSingle
<1>2. PICK found \in {{}} \cup {{Proof(q)} : q \in {p} \cap Confirmed} :
        job' = [job EXCEPT ![s].singles = @ \ {p}, ![s].proofs = @ \cup found]
  BY <1>1
<1> DEFINE rest == job[s].singles \ {p}
           made == job[s].proofs \cup found
           new == [job[s] EXCEPT !.singles = rest, !.proofs = made]
<1>3. /\ job' = [job EXCEPT ![s] = new] /\ UNCHANGED <<chain, headers, anchors, lock, calls>>
      /\ pc[s] = "Proofs" /\ pc' = [pc EXCEPT ![s] = "Proofs"]
  BY <1>2, Zenon DEF ProofSingle, Goes
<1>4. pc[s] # "Idle"
  BY <1>3
<1>5. /\ job[s] \in Jobs /\ job[s].singles \in SUBSET Pairs /\ job[s].proofs \in SUBSET ProofSet
      /\ Safe(s) /\ (pc[s] # "Idle" /\ job[s].quiet => Complete(s))
  BY InvOf, JobFields, Zenon
<1>6. \A proof \in made : /\ proof \in ProofSet
                          /\ headers[proof.height] # None /\ Made(proof, job[s].seen)
  <2>1. job[s].hashes[p[2]] # None
    BY <1>5, Zenon DEF Safe
  <2>2. \A proof \in found : p \in Confirmed /\ proof = Proof(p)
    BY <1>2, Zenon
  <2>3. \A proof \in found : /\ proof \in ProofSet
                             /\ headers[proof.height] # None /\ Made(proof, job[s].seen)
    BY <1>4, <2>1, <2>2, NewProof, Zenon
  <2> QED
    BY <1>5, <2>3, Zenon DEF Safe
<1>7. made \in SUBSET ProofSet /\ rest \in SUBSET Pairs /\ rest \subseteq job[s].singles
  BY <1>5, <1>6, Zenon
<1> HIDE DEF rest, made
<1>8. /\ new \in Jobs /\ new.missing = job[s].missing /\ new.asked = job[s].asked
      /\ new.hashes = job[s].hashes /\ new.toFetch = job[s].toFetch
      /\ new.singles = rest /\ new.proofs = made
      /\ new.results = job[s].results /\ new.quiet = job[s].quiet /\ new.seen = job[s].seen
  BY <1>5, <1>7 DEF Jobs
<1> HIDE DEF new
<1>9. "Proofs" \in Points
  BY DEF Points
<1>10. lock' \in Syncs \cup {None} /\ new.asked <= Len(ChunkOf(new.missing))
  BY <1>3, <1>8, InvOf, Zenon
<1>11. /\ TypeOK' /\ pc'[s] = "Proofs" /\ job'[s] = new
       /\ \A u \in Syncs : u # s => pc'[u] = pc[u] /\ job'[u] = job[u]
       /\ chain' = chain /\ headers' = headers /\ HeadersKept
       /\ \A a \in anchors' : Proven(a)
       /\ Chain' = Chain
  BY <1>3, <1>8, <1>9, <1>10, LocalStep, Zenon
<1>12. pc'[s] # "Begin" /\ pc'[s] \notin {"Retry", "Store"} /\ pc'[s] # "Store"
  BY <1>11
<1>13. Safe(s)'
  <2>1. \A q \in job'[s].toFetch \cup job'[s].singles : job[s].hashes[q[2]] # None
    BY <1>5, <1>7, <1>8, <1>11, Zenon DEF Safe
  <2>2. \A proof \in job'[s].proofs : headers[proof.height] # None /\ Made(proof, job[s].seen)
    BY <1>6, <1>8, <1>11, Zenon
  <2>3. \A r \in job'[s].results : Proven(r.anchor) /\ (r.cached \/ r.anchor.block \in job[s].seen)
    BY <1>5, <1>8, <1>11, Zenon DEF Safe
  <2> QED
    BY <1>4, <1>5, <1>8, <1>11, <1>12, <2>1, <2>2, <2>3, SafeLocal, Zenon
<1>14. ~ job[s].quiet
  <2>1. job[s].singles # {}
    BY Zenon
  <2> QED
    BY <1>4, <1>5, <2>1, Zenon DEF Complete
<1> QED
  BY <1>8, <1>11, <1>13, <1>14, StepKeeps, Zenon

LEMMA ValidateStaleKeeps ==
  ASSUME IInv, NEW s \in Syncs, ValidateStale(s)
  PROVE  IInv'
<1>1. PICK proof \in job[s].proofs :
        NextProof(s, proof) /\ job' = [job EXCEPT ![s].stale = proof]
  BY Zenon DEF ValidateStale
<1> DEFINE new == [job[s] EXCEPT !.stale = proof]
<1>2. /\ job' = [job EXCEPT ![s] = new] /\ UNCHANGED <<chain, headers, anchors, lock, calls>>
      /\ pc[s] = "Proofs" /\ pc' = [pc EXCEPT ![s] = "Retry"]
  BY <1>1, Zenon DEF ValidateStale, Goes
<1>3. /\ job[s] \in Jobs /\ job[s].proofs \in SUBSET ProofSet
      /\ Safe(s) /\ (pc[s] # "Idle" /\ job[s].quiet => Complete(s))
  BY InvOf, JobFields, Zenon
<1>4. /\ new \in Jobs /\ new.missing = job[s].missing /\ new.asked = job[s].asked
      /\ new.wanted = job[s].wanted /\ new.hashes = job[s].hashes
      /\ new.toFetch = job[s].toFetch /\ new.singles = job[s].singles
      /\ new.proofs = job[s].proofs /\ new.stale = proof
      /\ new.results = job[s].results /\ new.quiet = job[s].quiet /\ new.seen = job[s].seen
  <2>1. proof \in ProofSet
    BY <1>3, Zenon
  <2> QED
    BY <1>3, <2>1 DEF Jobs
<1> HIDE DEF new
<1>5. "Retry" \in Points
  BY DEF Points
<1>6. lock' \in Syncs \cup {None} /\ new.asked <= Len(ChunkOf(new.missing))
  BY <1>2, <1>4, InvOf, Zenon
<1>7. /\ TypeOK' /\ pc'[s] = "Retry" /\ job'[s] = new
      /\ \A u \in Syncs : u # s => pc'[u] = pc[u] /\ job'[u] = job[u]
      /\ chain' = chain /\ headers' = headers /\ HeadersKept
      /\ \A a \in anchors' : Proven(a)
      /\ Chain' = Chain /\ Confirmed' = Confirmed
      /\ \A h : Block(h)' = Block(h)
      /\ \A p : Proof(p)' = Proof(p)
  BY <1>2, <1>4, <1>5, <1>6, LocalStep, Zenon
<1>8. /\ pc'[s] # "Begin" /\ pc'[s] # "Store" /\ pc[s] # "Idle"
      /\ pc'[s] \in {"Proofs", "Retry", "Store"} /\ pc[s] \in {"Proofs", "Retry", "Store", "Done"}
  BY <1>2, <1>7
<1>9. Safe(s)'
  <2>1. /\ \A p \in job'[s].toFetch \cup job'[s].singles : job[s].hashes[p[2]] # None
        /\ \A q \in job'[s].proofs : headers[q.height] # None /\ Made(q, job[s].seen)
        /\ \A r \in job'[s].results :
             Proven(r.anchor) /\ (r.cached \/ r.anchor.block \in job[s].seen)
    BY <1>3, <1>4, <1>7, Zenon DEF Safe
  <2>2. job'[s].stale \in job'[s].proofs
    BY <1>4, <1>7, Zenon
  <2> QED
    BY <1>3, <1>4, <1>7, <1>8, <2>1, <2>2, SafeLocal, Zenon
<1>10. ASSUME job[s].quiet
       PROVE  Complete(s)'
  <2>1. Complete(s)
    BY <1>3, <1>8, <1>10, Zenon
  <2>2. ASSUME NEW p \in job[s].wanted
        PROVE  Served(s, p)'
    <3>1. Served(s, p)
      BY <1>8, <2>1, Zenon DEF Complete
    <3> QED
      BY <1>4, <1>7, <3>1, Zenon DEF Served
  <2>3. job'[s].singles = {} /\ \A q \in job'[s].proofs : Current(q)
    BY <1>4, <1>7, <2>1, Zenon DEF Complete, Current
  <2> QED
    BY <1>4, <1>7, <1>8, <2>1, <2>2, <2>3, CompleteLocal, Zenon
<1> QED
  BY <1>4, <1>7, <1>9, <1>10, StepKeeps, Zenon

LEMMA RetryKeeps ==
  ASSUME IInv, NEW s \in Syncs, Retry(s)
  PROVE  IInv'
<1> DEFINE block == Block(job[s].stale.height)
           new == [job[s] EXCEPT !.fresh = block]
<1>1. /\ job' = [job EXCEPT ![s] = new] /\ UNCHANGED <<chain, headers, anchors, lock, calls>>
      /\ pc[s] = "Retry" /\ pc' = [pc EXCEPT ![s] = "Store"]
  BY Zenon DEF Retry, Goes
<1>2. /\ TypeOK /\ job[s] \in Jobs /\ job[s].seen \in SUBSET Blocks
      /\ Safe(s) /\ (pc[s] # "Idle" /\ job[s].quiet => Complete(s))
  BY InvOf, JobFields, Zenon
<1>3. pc[s] \in {"Retry", "Store"}
  BY <1>1
<1>4. job[s].stale \in job[s].proofs
  BY <1>2, <1>3, Zenon DEF Safe
<1>5. block \in Blocks
  <2>1. job[s].stale.height \in Heights
    BY <1>2, <1>4, MadeFields, Zenon DEF Safe
  <2> QED
    BY <1>2, <2>1, BlockType, Zenon DEF TypeOK
<1> HIDE DEF block
<1>6. /\ new \in Jobs /\ new.missing = job[s].missing /\ new.asked = job[s].asked
      /\ new.wanted = job[s].wanted /\ new.hashes = job[s].hashes
      /\ new.toFetch = job[s].toFetch /\ new.singles = job[s].singles
      /\ new.proofs = job[s].proofs /\ new.stale = job[s].stale /\ new.fresh = block
      /\ new.results = job[s].results /\ new.quiet = job[s].quiet /\ new.seen = job[s].seen
  BY <1>2, <1>5 DEF Jobs
<1> HIDE DEF new
<1>7. "Store" \in Points
  BY DEF Points
<1>8. lock' \in Syncs \cup {None} /\ new.asked <= Len(ChunkOf(new.missing))
  BY <1>1, <1>6, InvOf, Zenon
<1>9. /\ TypeOK' /\ pc'[s] = "Store" /\ job'[s] = new
      /\ \A u \in Syncs : u # s => pc'[u] = pc[u] /\ job'[u] = job[u]
      /\ chain' = chain /\ headers' = headers /\ HeadersKept
      /\ \A a \in anchors' : Proven(a)
      /\ Chain' = Chain /\ Confirmed' = Confirmed
      /\ \A h : Block(h)' = Block(h)
      /\ \A p : Proof(p)' = Proof(p)
  BY <1>1, <1>6, <1>7, <1>8, LocalStep, Zenon
<1>10. /\ pc'[s] # "Begin" /\ pc[s] # "Idle"
       /\ pc'[s] \in {"Proofs", "Retry", "Store"} /\ pc[s] \in {"Proofs", "Retry", "Store", "Done"}
  BY <1>1, <1>9
<1>11. Safe(s)'
  <2>1. /\ \A p \in job'[s].toFetch \cup job'[s].singles : job[s].hashes[p[2]] # None
        /\ \A q \in job'[s].proofs : headers[q.height] # None /\ Made(q, job[s].seen)
        /\ \A r \in job'[s].results :
             Proven(r.anchor) /\ (r.cached \/ r.anchor.block \in job[s].seen)
    BY <1>2, <1>6, <1>9, Zenon DEF Safe
  <2>2. job'[s].stale \in job'[s].proofs /\ job'[s].fresh \in Blocks
    BY <1>4, <1>5, <1>6, <1>9, Zenon
  <2> QED
    BY <1>2, <1>6, <1>9, <1>10, <2>1, <2>2, SafeLocal, Zenon
<1>12. ASSUME job[s].quiet
       PROVE  Complete(s)'
  <2>1. Complete(s)
    BY <1>2, <1>10, <1>12, Zenon
  <2>2. ASSUME NEW p \in job[s].wanted
        PROVE  Served(s, p)'
    <3>1. Served(s, p)
      BY <1>10, <2>1, Zenon DEF Complete
    <3> QED
      BY <1>6, <1>9, <3>1, Zenon DEF Served
  <2>3. job'[s].singles = {} /\ \A q \in job'[s].proofs : Current(q)
    BY <1>6, <1>9, <2>1, Zenon DEF Complete, Current
  <2>4. job'[s].fresh = Block(job'[s].stale.height)
    BY <1>6, <1>9, Zenon DEF block
  <2> QED
    BY <1>6, <1>9, <1>10, <2>1, <2>2, <2>3, <2>4, CompleteLocal, Zenon
<1> QED
  BY <1>6, <1>9, <1>11, <1>12, StepKeeps, Zenon

LEMMA RetryFailsKeeps ==
  ASSUME IInv, NEW s \in Syncs, RetryFails(s)
  PROVE  IInv'
<1> DEFINE left == job[s].proofs \ {job[s].stale}
           new == [job[s] EXCEPT !.proofs = left, !.stale = None, !.quiet = FALSE]
<1>1. /\ job' = [job EXCEPT ![s] = new] /\ UNCHANGED <<chain, headers, anchors, lock, calls>>
      /\ pc[s] = "Retry" /\ pc' = [pc EXCEPT ![s] = "Proofs"]
  BY Zenon DEF RetryFails, Goes
<1>2. /\ job[s] \in Jobs /\ job[s].proofs \in SUBSET ProofSet /\ Safe(s)
  BY InvOf, JobFields, Zenon
<1>3. left \in SUBSET ProofSet /\ left \subseteq job[s].proofs
  BY <1>2, Zenon
<1> HIDE DEF left
<1>4. /\ new \in Jobs /\ new.missing = job[s].missing /\ new.asked = job[s].asked
      /\ new.hashes = job[s].hashes
      /\ new.toFetch = job[s].toFetch /\ new.singles = job[s].singles /\ new.proofs = left
      /\ new.results = job[s].results /\ new.quiet = FALSE /\ new.seen = job[s].seen
  BY <1>2, <1>3 DEF Jobs
<1> HIDE DEF new
<1>5. "Proofs" \in Points
  BY DEF Points
<1>6. lock' \in Syncs \cup {None} /\ new.asked <= Len(ChunkOf(new.missing))
  BY <1>1, <1>4, InvOf, Zenon
<1>7. /\ TypeOK' /\ pc'[s] = "Proofs" /\ job'[s] = new
      /\ \A u \in Syncs : u # s => pc'[u] = pc[u] /\ job'[u] = job[u]
      /\ chain' = chain /\ headers' = headers /\ HeadersKept
      /\ \A a \in anchors' : Proven(a)
      /\ Chain' = Chain
  BY <1>1, <1>4, <1>5, <1>6, LocalStep, Zenon
<1>8. pc'[s] # "Begin" /\ pc'[s] \notin {"Retry", "Store"} /\ pc'[s] # "Store" /\ pc[s] # "Idle"
  BY <1>1, <1>7
<1>9. Safe(s)'
  <2>1. /\ \A p \in job'[s].toFetch \cup job'[s].singles : job[s].hashes[p[2]] # None
        /\ \A q \in job'[s].proofs : headers[q.height] # None /\ Made(q, job[s].seen)
        /\ \A r \in job'[s].results :
             Proven(r.anchor) /\ (r.cached \/ r.anchor.block \in job[s].seen)
    BY <1>2, <1>3, <1>4, <1>7, Zenon DEF Safe
  <2> QED
    BY <1>2, <1>4, <1>7, <1>8, <2>1, SafeLocal, Zenon
<1> QED
  BY <1>4, <1>7, <1>9, StepKeeps, Zenon

LEMMA FinishKeeps ==
  ASSUME IInv, NEW s \in Syncs, Finish(s)
  PROVE  IInv'
<1>1. /\ job' = job /\ UNCHANGED <<chain, headers, anchors, lock, calls>>
      /\ pc[s] = "Proofs" /\ pc' = [pc EXCEPT ![s] = "Done"]
      /\ job[s].toFetch = {} /\ job[s].proofs = {}
  BY Zenon DEF Finish, Goes, ChunkDone
<1>2. job' = [job EXCEPT ![s] = job[s]] /\ job[s] \in Jobs
  BY <1>1, InvOf, Zenon
<1>3. "Done" \in Points
  BY DEF Points
<1>4. lock' \in Syncs \cup {None}
  BY <1>1, InvOf, Zenon
<1>5. /\ TypeOK' /\ pc'[s] = "Done" /\ job'[s] = job[s]
      /\ \A u \in Syncs : u # s => pc'[u] = pc[u] /\ job'[u] = job[u]
      /\ chain' = chain /\ headers' = headers /\ HeadersKept
      /\ \A a \in anchors' : Proven(a)
      /\ Chain' = Chain /\ Confirmed' = Confirmed
      /\ \A h : Block(h)' = Block(h)
      /\ \A p : Proof(p)' = Proof(p)
  BY <1>1, <1>2, <1>3, <1>4, InvOf, LocalStep, Zenon
<1>6. /\ pc'[s] \notin {"Begin", "Retry", "Store"} /\ pc[s] # "Idle"
      /\ pc'[s] # "HeaderSingles" /\ pc'[s] # "Headers" /\ pc'[s] # "Anchors" /\ pc'[s] # "Store"
      /\ pc[s] \in {"Proofs", "Retry", "Store", "Done"}
  BY <1>1, <1>5
<1>7. Safe(s)'
  BY <1>5, <1>6, InvOf, SafeKept, Zenon
<1>8. ASSUME job[s].quiet
      PROVE  Complete(s)'
  <2>1. Complete(s)
    BY <1>6, <1>8, InvOf, Zenon
  <2>2. ASSUME NEW p \in job[s].wanted
        PROVE  Served(s, p)'
    <3>1. Served(s, p)
      BY <1>6, <2>1, Zenon DEF Complete
    <3> QED
      BY <1>5, <3>1, Zenon DEF Served
  <2> QED
    BY <1>1, <1>5, <1>6, <2>1, <2>2, Zenon DEF Complete
<1> QED
  BY <1>5, <1>7, <1>8, StepKeeps, Zenon

LEMMA ReturnKeeps ==
  ASSUME IInv, NEW s \in Syncs, Return(s)
  PROVE  IInv'
<1>1. /\ job' = [job EXCEPT ![s] = NewJob] /\ UNCHANGED <<chain, headers, anchors, lock, calls>>
      /\ pc' = [pc EXCEPT ![s] = "Idle"]
  BY Zenon DEF Return, Goes
<1>2. NewJob.asked <= Len(ChunkOf(NewJob.missing))
  <2>1. NewJob.missing \in Seq(Heights)
    BY NewJobType DEF Jobs
  <2>2. Len(ChunkOf(NewJob.missing)) \in Nat
    BY <2>1, ChunkOfType, Zenon
  <2> QED
    BY <2>2, NewJobType
<1>3. "Idle" \in Points
  BY DEF Points
<1>4. lock' \in Syncs \cup {None} /\ NewJob \in Jobs
  BY <1>1, NewJobType, InvOf, Zenon
<1>5. /\ TypeOK' /\ pc'[s] = "Idle" /\ job'[s] = NewJob
      /\ \A u \in Syncs : u # s => pc'[u] = pc[u] /\ job'[u] = job[u]
      /\ chain' = chain /\ HeadersKept
      /\ \A a \in anchors' : Proven(a)
  BY <1>1, <1>2, <1>3, <1>4, LocalStep, Zenon
<1>6. Safe(s)'
  <2>1. /\ pc'[s] # "Begin" /\ pc'[s] \notin {"Retry", "Store"} /\ pc'[s] # "Store"
        /\ \A h \in Heights : NewJob.hashes[h] = None
    BY <1>5, NewJobType
  <2> QED
    BY <1>5, <2>1, NewJobType, Zenon DEF Safe
<1> QED
  BY <1>5, <1>6, StepKeeps, Zenon

-----------------------------------------------------------------------------
(* The anchors.                                                             *)

\* The anchor that replaces another, or is added.
LEMMA CacheAnchorKeeps ==
  ASSUME IInv, NEW a \in AnchorSet, Proven(a), CacheAnchor(a)
  PROVE  anchors' \subseteq AnchorSet /\ \A b \in anchors' : Proven(b)
<1>1. anchors \subseteq AnchorSet /\ \A b \in anchors : Proven(b)
  BY Zenon DEF IInv, TypeOK
<1>2. anchors' \subseteq anchors \cup {a}
  BY DEF CacheAnchor
<1> QED
  BY <1>1, <1>2, Zenon

\* The anchor that is built from a valid proof.
LEMMA ValidAnchor ==
  ASSUME IInv, NEW s \in Syncs, NEW proof \in job[s].proofs, NEW header \in Blocks,
         Valid(proof, header)
  PROVE  LET a == [tx |-> proof.tx, height |-> proof.height, block |-> header] IN
         a \in AnchorSet /\ Proven(a) /\ a.tx = proof.tx /\ a.block \in job[s].seen
<1>1. Made(proof, job[s].seen) /\ job[s].seen \in SUBSET Blocks
  BY InvOf, JobFields, Zenon DEF Safe
<1>2. /\ proof.tx \in Txs /\ proof.height \in Heights
      /\ header \in job[s].seen /\ header[1] = proof.height /\ proof.tx \in TxsOf[header]
  <2>1. /\ proof.tx \in Txs /\ proof.height \in Heights
        /\ \A c \in Blocks : Valid(proof, c) =>
             c \in job[s].seen /\ c[1] = proof.height /\ proof.tx \in TxsOf[c]
    BY <1>1, MadeFields
  <2> QED
    BY <2>1, Zenon
<1> QED
  BY <1>2 DEF AnchorSet, Proven

\* The local variables when a proof has given these anchors, or none.
Without(s, proof, added, new) ==
  /\ new.missing = job[s].missing /\ new.asked = job[s].asked
  /\ new.wanted = job[s].wanted /\ new.hashes = job[s].hashes
  /\ new.toFetch = job[s].toFetch /\ new.singles = job[s].singles
  /\ new.proofs = job[s].proofs \ {proof} /\ new.results = job[s].results \cup added
  /\ new.quiet = job[s].quiet /\ new.seen = job[s].seen

\* A proof is dealt with.
LEMMA ProofDone ==
  ASSUME IInv, NEW s \in Syncs, NEW proof \in job[s].proofs, NEW new \in Jobs,
         NEW added \in SUBSET [anchor : AnchorSet, cached : BOOLEAN],
         pc[s] \in {"Proofs", "Store"}, pc' = [pc EXCEPT ![s] = "Proofs"],
         UNCHANGED <<chain, lock, calls>>, HeadersKept,
         headers' \in [Heights -> Blocks \cup {None}],
         anchors' \subseteq AnchorSet, \A a \in anchors' : Proven(a),
         job' = [job EXCEPT ![s] = new], Without(s, proof, added, new),
         \A r \in added : Proven(r.anchor) /\ r.anchor.block \in job[s].seen,
         job[s].quiet => \E r \in added : r.anchor.tx = proof.tx
  PROVE  IInv'
<1>1. /\ TypeOK /\ Safe(s) /\ (pc[s] # "Idle" /\ job[s].quiet => Complete(s))
      /\ job[s].seen \in SUBSET Blocks
  BY InvOf, JobFields, Zenon
<1>2. /\ chain' = chain /\ lock' = lock /\ calls' = calls
      /\ lock' \in Syncs \cup {None} /\ calls' \in 0 .. MaxCalls
  BY <1>1, Zenon DEF TypeOK
<1>3. new.asked <= Len(HeaderChunk(s))'
  <2>1. job'[s] = new
    BY <1>1, Zenon DEF TypeOK
  <2>2. HeaderChunk(s)' = ChunkOf(job[s].missing)
    BY <2>1, HeaderChunkOf, Zenon DEF Without
  <2> QED
    BY <2>2, InvOf, Zenon DEF Without
<1>4. /\ TypeOK' /\ pc'[s] = "Proofs" /\ job'[s] = new
      /\ \A u \in Syncs : u # s => pc'[u] = pc[u] /\ job'[u] = job[u]
  <2>1. "Proofs" \in Points /\ TypeOK
    BY <1>1 DEF Points
  <2> QED
    BY <1>2, <1>3, <2>1, JobStep, Zenon
<1>5. \A h : Block(h)' = Block(h)
  BY <1>2, Zenon DEF Block
<1>6. Chain' = Chain /\ Confirmed' = Confirmed /\ \A p : Proof(p)' = Proof(p)
  BY <1>5, Zenon DEF Chain, Confirmed, Proof
<1>7. /\ pc'[s] # "Begin" /\ pc'[s] \notin {"Retry", "Store"} /\ pc'[s] # "Store" /\ pc[s] # "Idle"
      /\ pc'[s] \in {"Proofs", "Retry", "Store"} /\ pc[s] \in {"Proofs", "Retry", "Store", "Done"}
  BY <1>4
<1>8. /\ new.wanted = job[s].wanted /\ new.hashes = job[s].hashes
      /\ new.toFetch = job[s].toFetch /\ new.singles = job[s].singles
      /\ new.proofs = job[s].proofs \ {proof} /\ new.results = job[s].results \cup added
      /\ new.quiet = job[s].quiet /\ new.seen = job[s].seen
  BY Zenon DEF Without
<1>9. Safe(s)'
  <2>1. /\ \A h \in Heights : new.hashes[h] # None => headers'[h] # None
        /\ \A p \in new.toFetch \cup new.singles : new.hashes[p[2]] # None
        /\ Chain' \subseteq new.seen
    BY <1>1, <1>6, <1>7, <1>8, Zenon DEF Safe, HeadersKept
  <2>2. \A q \in new.proofs : headers'[q.height] # None /\ Made(q, new.seen)
    <3> TAKE q \in new.proofs
    <3>1. headers[q.height] # None /\ Made(q, job[s].seen)
      BY <1>1, <1>8, Zenon DEF Safe
    <3>2. q.height \in Heights
      BY <1>1, <3>1, MadeFields, Zenon
    <3> QED
      BY <1>8, <3>1, <3>2, Zenon DEF HeadersKept
  <2>3. \A r \in new.results : Proven(r.anchor) /\ (r.cached \/ r.anchor.block \in new.seen)
    BY <1>1, <1>8, Zenon DEF Safe
  <2> QED
    BY <1>4, <1>7, <2>1, <2>2, <2>3, Zenon DEF Safe
<1>10. ASSUME job[s].quiet
      PROVE  Complete(s)'
  <2>1. Complete(s)
    BY <1>1, <1>7, <1>10, Zenon
  <2>2. PICK r \in added : r.anchor.tx = proof.tx
    BY <1>10
  <2>3. ASSUME NEW p \in job[s].wanted
        PROVE  Served(s, p)'
    <3>1. Served(s, p)
      BY <1>7, <2>1, Zenon DEF Complete
    <3>2. ASSUME Proof(p) = proof
          PROVE  \E q \in new.results : q.anchor.tx = p[1]
      <4>1. p \in Confirmed /\ chain \in [Heights -> 0 .. MaxFork]
        BY <1>1, <2>1, Zenon DEF Complete, TypeOK
      <4>2. Proof(p).tx = p[1]
        BY <4>1, ConfirmedProof, Zenon
      <4> QED
        BY <1>8, <2>2, <3>2, <4>2, Zenon
    <3> QED
      BY <1>4, <1>6, <1>8, <3>1, <3>2, Zenon DEF Served
  <2>4. job'[s].singles = {} /\ \A q \in job'[s].proofs : Current(q)
    BY <1>4, <1>8, <2>1, Zenon DEF Complete, Current
  <2> QED
    BY <1>4, <1>5, <1>6, <1>7, <1>8, <2>1, <2>3, <2>4, CompleteLocal, Zenon
<1> QED
  BY <1>2, <1>4, <1>8, <1>9, <1>10, StepKeeps, Zenon

\* Anchor and Skip, with the cache of headers as the step leaves it.
LEMMA AnchorKeeps ==
  ASSUME IInv, NEW s \in Syncs, NEW proof \in job[s].proofs, NEW header \in Blocks,
         pc[s] \in {"Proofs", "Store"}, pc' = [pc EXCEPT ![s] = "Proofs"],
         UNCHANGED <<chain, lock, calls>>, HeadersKept,
         headers' \in [Heights -> Blocks \cup {None}],
         Valid(proof, header), Anchor(s, proof, header)
  PROVE  IInv'
<1> DEFINE a == [tx |-> proof.tx, height |-> proof.height, block |-> header]
           r == [anchor |-> a, cached |-> FALSE]
           left == job[s].proofs \ {proof}
           all == job[s].results \cup {r}
           new == [job[s] EXCEPT !.proofs = left, !.stale = None, !.fresh = None, !.results = all]
<1>1. a \in AnchorSet /\ Proven(a) /\ a.tx = proof.tx /\ a.block \in job[s].seen
  BY ValidAnchor
<1>2. CacheAnchor(a) /\ job' = [job EXCEPT ![s] = new]
  BY Zenon DEF Anchor
<1> HIDE DEF a
<1>3. r \in [anchor : AnchorSet, cached : BOOLEAN] /\ r.anchor = a
  BY <1>1
<1> HIDE DEF r
<1>4. /\ job[s] \in Jobs /\ job[s].proofs \in SUBSET ProofSet
      /\ job[s].results \in SUBSET [anchor : AnchorSet, cached : BOOLEAN]
  BY InvOf, JobFields, Zenon
<1>5. left \in SUBSET ProofSet /\ all \in SUBSET [anchor : AnchorSet, cached : BOOLEAN]
  BY <1>3, <1>4, Zenon
<1> HIDE DEF left, all
<1>6. /\ new \in Jobs /\ new.missing = job[s].missing /\ new.asked = job[s].asked
      /\ new.wanted = job[s].wanted /\ new.hashes = job[s].hashes
      /\ new.toFetch = job[s].toFetch /\ new.singles = job[s].singles
      /\ new.proofs = left /\ new.results = all
      /\ new.quiet = job[s].quiet /\ new.seen = job[s].seen
  BY <1>4, <1>5 DEF Jobs
<1> HIDE DEF new
<1>7. anchors' \subseteq AnchorSet /\ \A b \in anchors' : Proven(b)
  BY <1>1, <1>2, CacheAnchorKeeps, Zenon
<1>8. /\ Without(s, proof, {r}, new)
      /\ {r} \in SUBSET [anchor : AnchorSet, cached : BOOLEAN]
      /\ \A q \in {r} : Proven(q.anchor) /\ q.anchor.block \in job[s].seen
      /\ \E q \in {r} : q.anchor.tx = proof.tx
  BY <1>1, <1>3, <1>6, Zenon DEF left, all, Without
<1> QED
  BY <1>2, <1>6, <1>7, <1>8, ProofDone, Zenon

LEMMA SkipKeeps ==
  ASSUME IInv, NEW s \in Syncs, NEW proof \in job[s].proofs,
         pc[s] \in {"Proofs", "Store"}, pc' = [pc EXCEPT ![s] = "Proofs"],
         UNCHANGED <<chain, lock, calls>>, HeadersKept,
         headers' \in [Heights -> Blocks \cup {None}],
         Skip(s, proof), ~ job[s].quiet
  PROVE  IInv'
<1> DEFINE left == job[s].proofs \ {proof}
           new == [job[s] EXCEPT !.proofs = left, !.stale = None, !.fresh = None]
<1>1. anchors' = anchors /\ job' = [job EXCEPT ![s] = new]
  BY Zenon DEF Skip
<1>2. job[s] \in Jobs /\ job[s].proofs \in SUBSET ProofSet
  BY InvOf, JobFields, Zenon
<1>3. left \in SUBSET ProofSet
  BY <1>2, Zenon
<1> HIDE DEF left
<1>4. /\ new \in Jobs /\ new.missing = job[s].missing /\ new.asked = job[s].asked
      /\ new.wanted = job[s].wanted /\ new.hashes = job[s].hashes
      /\ new.toFetch = job[s].toFetch /\ new.singles = job[s].singles
      /\ new.proofs = left /\ new.results = job[s].results
      /\ new.quiet = job[s].quiet /\ new.seen = job[s].seen
  BY <1>2, <1>3 DEF Jobs
<1> HIDE DEF new
<1>5. anchors' \subseteq AnchorSet /\ \A a \in anchors' : Proven(a)
  BY <1>1, Zenon DEF IInv, TypeOK
<1>6. /\ Without(s, proof, {}, new)
      /\ {} \in SUBSET [anchor : AnchorSet, cached : BOOLEAN]
      /\ \A q \in {} : Proven(q.anchor) /\ q.anchor.block \in job[s].seen
  BY <1>4 DEF left, Without
<1> QED
  BY <1>1, <1>4, <1>5, <1>6, ProofDone, Zenon

LEMMA ValidateOkKeeps ==
  ASSUME IInv, NEW s \in Syncs, ValidateOk(s)
  PROVE  IInv'
<1>1. PICK proof \in job[s].proofs :
        /\ Valid(proof, headers[proof.height])
        /\ Anchor(s, proof, headers[proof.height])
  BY Zenon DEF ValidateOk
<1>2. /\ pc[s] = "Proofs" /\ pc' = [pc EXCEPT ![s] = "Proofs"]
      /\ UNCHANGED <<chain, lock, calls>> /\ headers' = headers
  BY Zenon DEF ValidateOk, Goes
<1>3. headers \in [Heights -> Blocks \cup {None}]
  BY InvOf, Zenon DEF TypeOK
<1>4. headers[proof.height] \in Blocks
  <2>1. /\ headers[proof.height] # None /\ Made(proof, job[s].seen)
        /\ job[s].seen \in SUBSET Blocks
    BY InvOf, JobFields, Zenon DEF Safe
  <2>2. proof.height \in Heights
    BY <2>1, MadeFields, Zenon
  <2> QED
    BY <1>3, <2>1, <2>2
<1>5. HeadersKept /\ headers' \in [Heights -> Blocks \cup {None}] /\ pc[s] \in {"Proofs", "Store"}
  BY <1>2, <1>3, Zenon DEF HeadersKept
<1> QED
  BY <1>1, <1>2, <1>4, <1>5, AnchorKeeps, Zenon

LEMMA StoreKeeps ==
  ASSUME IInv, NEW s \in Syncs, Store(s)
  PROVE  IInv'
<1> DEFINE proof == job[s].stale
           header == job[s].fresh
<1>1. /\ pc[s] = "Store" /\ pc' = [pc EXCEPT ![s] = "Proofs"]
      /\ UNCHANGED <<chain, lock, calls>>
      /\ headers' = [headers EXCEPT ![proof.height] = header]
      /\ IF Valid(proof, header) THEN Anchor(s, proof, header) ELSE Skip(s, proof)
  BY Zenon DEF Store, Goes
<1>2. pc[s] \in {"Proofs", "Store"} /\ pc[s] \in {"Retry", "Store"} /\ pc[s] # "Idle"
  BY <1>1
<1>3. proof \in job[s].proofs /\ header \in Blocks
  BY <1>1, <1>2, InvOf, Zenon DEF Safe
<1>4. HeadersKept /\ headers' \in [Heights -> Blocks \cup {None}]
  <2> HIDE DEF proof, header
  <2>1. headers \in [Heights -> Blocks \cup {None}]
    BY InvOf, Zenon DEF TypeOK
  <2>2. header # None
    BY <1>3, NoneAssumption
  <2> QED
    BY <1>1, <1>3, <2>1, <2>2 DEF HeadersKept
<1>5. job[s].quiet => Valid(proof, header)
  <2> SUFFICES ASSUME job[s].quiet
               PROVE  Valid(proof, header)
    OBVIOUS
  <2>1. Complete(s)
    BY <1>2, InvOf, Zenon
  <2>2. /\ header = Block(proof.height) /\ proof.tx \in TxsOf[header]
        /\ proof = Proofs[header][proof.tx]
    BY <1>1, <1>3, <2>1, Zenon DEF Complete
  <2>3. Valid(Proofs[header][proof.tx], header)
    BY <1>3, <2>2, ProofFields, Zenon
  <2> QED
    BY <2>2, <2>3, Zenon
<1> HIDE DEF proof, header
<1>6. CASE Valid(proof, header)
  BY <1>1, <1>2, <1>3, <1>4, <1>6, AnchorKeeps, Zenon
<1>7. CASE ~ Valid(proof, header)
  BY <1>1, <1>2, <1>3, <1>4, <1>5, <1>7, SkipKeeps, Zenon
<1> QED
  BY <1>6, <1>7, Zenon

-----------------------------------------------------------------------------
(* The server and the application.                                          *)

LEMMA ReorgKeeps ==
  ASSUME IInv, NEW h \in Heights, Reorg(h)
  PROVE  IInv'
<1>1. /\ \A k \in Heights : k >= h => chain[k] < MaxFork
      /\ chain' = [k \in Heights |-> IF k >= h THEN chain[k] + 1 ELSE chain[k]]
      /\ headers' = headers /\ anchors' = anchors /\ lock' = lock /\ calls' = calls /\ pc' = pc
  BY Zenon DEF Reorg
<1>2. /\ chain \in [Heights -> 0 .. MaxFork] /\ job \in [Syncs -> Jobs] /\ TypeOK
      /\ pc \in [Syncs -> Points]
  BY Zenon DEF IInv, TypeOK
<1>3. chain' \in [Heights -> 0 .. MaxFork]
  <2>1. ASSUME NEW k \in Heights
        PROVE  (IF k >= h THEN chain[k] + 1 ELSE chain[k]) \in 0 .. MaxFork
    BY <1>1, <1>2, BoundsAssumption
  <2> QED
    BY <1>1, <2>1
<1>4. Chain' = {<<k, chain'[k]>> : k \in Heights}
  BY Zenon DEF Chain, Block
<1>5. Chain' \in SUBSET Blocks
  BY <1>3, <1>4 DEF Blocks
<1> DEFINE new(s) == [job[s] EXCEPT !.quiet = FALSE, !.seen = @ \cup Chain']
<1>6. job' = [s \in Syncs |-> IF pc[s] = "Idle" THEN job[s] ELSE new(s)]
  BY <1>4, Zenon DEF Reorg
<1>7. ASSUME NEW s \in Syncs
      PROVE  /\ new(s) \in Jobs /\ new(s).missing = job[s].missing /\ new(s).asked = job[s].asked
             /\ new(s).hashes = job[s].hashes /\ new(s).toFetch = job[s].toFetch
             /\ new(s).singles = job[s].singles /\ new(s).proofs = job[s].proofs
             /\ new(s).stale = job[s].stale /\ new(s).fresh = job[s].fresh
             /\ new(s).results = job[s].results /\ new(s).quiet = FALSE
             /\ new(s).seen = job[s].seen \cup Chain'
  <2> DEFINE j == job[s]
             all == j.seen \cup Chain'
  <2>1. j \in Jobs /\ j.seen \in SUBSET Blocks
    BY <1>2, JobFields, Zenon
  <2>2. all \in SUBSET Blocks
    BY <1>5, <2>1, Zenon
  <2>3. new(s) = [j EXCEPT !.quiet = FALSE, !.seen = all]
    BY Zenon
  <2> DEFINE k == [j EXCEPT !.quiet = FALSE, !.seen = all]
  <2> HIDE DEF j, all, new
  <2>4. /\ k \in Jobs /\ k.missing = j.missing /\ k.asked = j.asked
        /\ k.hashes = j.hashes /\ k.toFetch = j.toFetch
        /\ k.singles = j.singles /\ k.proofs = j.proofs
        /\ k.stale = j.stale /\ k.fresh = j.fresh
        /\ k.results = j.results /\ k.quiet = FALSE /\ k.seen = all
    BY <2>1, <2>2 DEF Jobs
  <2> HIDE DEF k
  <2> QED
    BY <2>3, <2>4, Zenon DEF k, j, all
<1> HIDE DEF new
<1>8. ASSUME NEW s \in Syncs
      PROVE  /\ job'[s] \in Jobs /\ job'[s].missing = job[s].missing /\ job'[s].asked = job[s].asked
             /\ job'[s].hashes = job[s].hashes /\ job'[s].toFetch = job[s].toFetch
             /\ job'[s].singles = job[s].singles /\ job'[s].proofs = job[s].proofs
             /\ job'[s].stale = job[s].stale /\ job'[s].fresh = job[s].fresh
             /\ job'[s].results = job[s].results /\ job[s].seen \subseteq job'[s].seen
             /\ pc[s] # "Idle" => Chain' \subseteq job'[s].seen /\ job'[s].quiet = FALSE
  <2>1. CASE pc[s] = "Idle"
    <3>1. job'[s] = job[s]
      BY <1>6, <2>1, Zenon
    <3> QED
      BY <2>1, <3>1, JobFields, Zenon DEF IInv
  <2>2. CASE pc[s] # "Idle"
    <3>1. job'[s] = new(s)
      BY <1>6, <2>2, Zenon
    <3> QED
      BY <1>7, <3>1, Zenon
  <2> QED
    BY <2>1, <2>2, Zenon
<1>9. job' \in [Syncs -> Jobs]
  <2>1. job' = [s \in Syncs |-> job'[s]]
    BY <1>6
  <2> QED
    BY <1>8, <2>1, Zenon
<1>10. TypeOK'
  <2>1. \A s \in Syncs : job'[s].asked <= Len(HeaderChunk(s))'
    <3> TAKE s \in Syncs
    <3>1. HeaderChunk(s)' = HeaderChunk(s)
      BY <1>8, SameChunk, Zenon
    <3> QED
      BY <1>2, <1>8, <3>1, Zenon DEF TypeOK
  <2> QED
    BY <1>1, <1>2, <1>3, <1>9, <2>1, Zenon DEF TypeOK
<1>11. ASSUME NEW s \in Syncs
       PROVE  Safe(s)' /\ (pc'[s] # "Idle" /\ job'[s].quiet => Complete(s)')
  <2>1. Safe(s)
    BY Zenon DEF IInv
  <2>2. \A proof \in job'[s].proofs : headers'[proof.height] # None /\ Made(proof, job'[s].seen)
    BY <1>1, <1>8, <2>1, MoreBlocks, Zenon DEF Safe
  <2>3. /\ \A p \in job'[s].toFetch \cup job'[s].singles : job'[s].hashes[p[2]] # None
        /\ \A g \in Heights : job'[s].hashes[g] # None => headers'[g] # None
        /\ \A r \in job'[s].results : Proven(r.anchor) /\ (r.cached \/ r.anchor.block \in job'[s].seen)
    BY <1>1, <1>8, <2>1, Zenon DEF Safe
  <2>4. Safe(s)'
    BY <1>1, <1>8, <2>1, <2>2, <2>3, Zenon DEF Safe
  <2> QED
    BY <1>1, <1>8, <2>4, Zenon
<1>12. \A a \in anchors' : Proven(a)
  BY <1>1, Zenon DEF IInv
<1> QED
  BY <1>10, <1>11, <1>12, Zenon DEF IInv, Proven

LEMMA PopulateKeeps ==
  ASSUME IInv, PopulateAnchorCache
  PROVE  IInv'
<1>1. PICK p \in Confirmed : CacheAnchor([tx |-> p[1], height |-> p[2], block |-> Block(p[2])])
  BY Zenon DEF PopulateAnchorCache
<1> DEFINE a == [tx |-> p[1], height |-> p[2], block |-> Block(p[2])]
<1>2. /\ chain' = chain /\ headers' = headers /\ lock' = lock /\ calls' = calls
      /\ pc' = pc /\ job' = job
  BY Zenon DEF PopulateAnchorCache
<1>3. TypeOK /\ chain \in [Heights -> 0 .. MaxFork]
  BY Zenon DEF IInv, TypeOK
<1>4. /\ p[1] \in Txs /\ p[2] \in Heights /\ p[1] \in TxsOf[Block(p[2])]
      /\ Block(p[2]) \in Blocks /\ Block(p[2])[1] = p[2]
  BY <1>3, ConfirmedProof, BlockType, Zenon
<1>5. a \in AnchorSet /\ Proven(a)
  <2> DEFINE b == Block(p[2])
  <2> HIDE DEF b
  <2>1. b \in Blocks /\ b[1] = p[2] /\ p[1] \in TxsOf[b]
    BY <1>4, Zenon DEF b
  <2>2. a = [tx |-> p[1], height |-> p[2], block |-> b]
    BY Zenon DEF b
  <2> QED
    BY <1>4, <2>1, <2>2 DEF AnchorSet, Proven
<1>6. anchors' \subseteq AnchorSet /\ \A b \in anchors' : Proven(b)
  <2> HIDE DEF a
  <2>1. CacheAnchor(a)
    BY <1>1, Zenon DEF a
  <2> QED
    BY <1>5, <2>1, CacheAnchorKeeps, Zenon
<1>7. \A s \in Syncs : HeaderChunk(s)' = HeaderChunk(s)
  BY <1>2, SameChunk, Zenon
<1>8. TypeOK'
  BY <1>2, <1>3, <1>6, <1>7, Zenon DEF TypeOK
<1>9. HeadersKept /\ \A u \in Syncs : pc'[u] = pc[u] /\ job'[u] = job[u]
  BY <1>2, Zenon DEF HeadersKept
<1>10. \A u \in Syncs : Safe(u)' /\ (pc'[u] # "Idle" /\ job'[u].quiet => Complete(u)')
  BY <1>2, <1>9, OthersKeep, Zenon
<1> QED
  BY <1>6, <1>8, <1>10, Zenon DEF IInv, Proven

-----------------------------------------------------------------------------
(* The theorems.                                                            *)

LEMMA InitInv == Init => IInv
<1> SUFFICES ASSUME Init
             PROVE  IInv
  OBVIOUS
<1>1. /\ chain = [h \in Heights |-> 0] /\ headers = [h \in Heights |-> None]
      /\ anchors = {} /\ lock = None /\ calls = 0
      /\ pc = [s \in Syncs |-> "Idle"] /\ job = [s \in Syncs |-> NewJob]
  BY Zenon DEF Init
<1>2. \A s \in Syncs : pc[s] = "Idle" /\ job[s] = NewJob
  BY <1>1, Zenon
<1>3. \A s \in Syncs : job[s].asked <= Len(HeaderChunk(s))
  <2> TAKE s \in Syncs
  <2>1. NewJob.missing \in Seq(Heights)
    BY NewJobType DEF Jobs
  <2>2. Len(ChunkOf(NewJob.missing)) \in Nat
    BY <2>1, ChunkOfType, Zenon
  <2>3. HeaderChunk(s) = ChunkOf(NewJob.missing)
    BY <1>2, HeaderChunkOf, Zenon
  <2>4. NewJob.asked <= Len(ChunkOf(NewJob.missing))
    BY <2>2, NewJobType
  <2> QED
    BY <1>2, <2>3, <2>4, Zenon
<1>4. TypeOK
  <2>1. /\ chain \in [Heights -> 0 .. MaxFork] /\ headers \in [Heights -> Blocks \cup {None}]
        /\ anchors \subseteq AnchorSet /\ lock \in Syncs \cup {None} /\ calls \in 0 .. MaxCalls
    BY <1>1, BoundsAssumption
  <2>2. pc \in [Syncs -> Points]
    BY <1>1 DEF Points
  <2>3. job \in [Syncs -> Jobs]
    BY <1>1, NewJobType
  <2> QED
    BY <1>3, <2>1, <2>2, <2>3, Zenon DEF TypeOK
<1>5. ASSUME NEW s \in Syncs
      PROVE  Safe(s)
  <2>1. pc[s] # "Begin" /\ pc[s] \notin {"Retry", "Store"} /\ pc[s] # "Store"
        /\ \A h \in Heights : NewJob.hashes[h] = None
    BY <1>2, NewJobType
  <2> QED
    BY <1>2, <2>1, NewJobType, Zenon DEF Safe
<1> QED
  BY <1>1, <1>2, <1>4, <1>5, Zenon DEF IInv

LEMMA StepInv == IInv /\ [Next]_vars => IInv'
<1> SUFFICES ASSUME IInv, [Next]_vars
             PROVE  IInv'
  OBVIOUS
<1>1. ASSUME NEW s \in Syncs, Begin(s)
      PROVE  IInv'
  BY <1>1, BeginKeeps, Zenon
<1>2. ASSUME NEW s \in Syncs, SyncStep(s)
      PROVE  IInv'
  BY <1>2, LockHeadersKeeps, HeaderBatchKeeps, HeaderBatchFailsKeeps, HeaderSingleKeeps,
     HeaderSinglesEndKeeps, UnlockHeadersKeeps, CheckAnchorCacheKeeps, ProofBatchKeeps,
     ProofBatchFailsKeeps, ProofSingleKeeps, ValidateOkKeeps, ValidateStaleKeeps, RetryKeeps,
     RetryFailsKeeps, StoreKeeps, FinishKeeps, ReturnKeeps, Zenon DEF SyncStep
<1>3. ASSUME NEW h \in Heights, Reorg(h)
      PROVE  IInv'
  BY <1>3, ReorgKeeps, Zenon
<1>4. CASE PopulateAnchorCache
  BY <1>4, PopulateKeeps, Zenon
<1>5. CASE UNCHANGED vars
  <2>1. /\ chain' = chain /\ headers' = headers /\ anchors' = anchors /\ lock' = lock
        /\ calls' = calls /\ pc' = pc /\ job' = job
    BY <1>5, Zenon DEF vars
  <2>2. \A s \in Syncs : HeaderChunk(s)' = HeaderChunk(s)
    BY <2>1, SameChunk, Zenon
  <2>3. TypeOK'
    BY <2>1, <2>2, Zenon DEF IInv, TypeOK
  <2>4. HeadersKept /\ \A u \in Syncs : pc'[u] = pc[u] /\ job'[u] = job[u]
    BY <2>1, Zenon DEF HeadersKept
  <2>5. \A u \in Syncs : Safe(u)' /\ (pc'[u] # "Idle" /\ job'[u].quiet => Complete(u)')
    BY <2>1, <2>4, OthersKeep, Zenon
  <2> QED
    BY <2>1, <2>3, <2>5, Zenon DEF IInv, Proven
<1> QED
  BY <1>1, <1>2, <1>3, <1>4, <1>5, Zenon DEF Next

\* The inductive invariant, of batch_fetch_anchors and its caches.
THEOREM Invariant == Spec => []IInv
<1>1. Init => IInv
  BY InitInv
<1>2. IInv /\ [Next]_vars => IInv'
  BY StepInv
<1> QED
  BY <1>1, <1>2, PTL DEF Spec

\* Every variable of batch_fetch_anchors keeps its type.
THEOREM TypeCorrect == Spec => []TypeOK
<1>1. IInv => TypeOK
  BY Zenon DEF IInv
<1> QED
  BY <1>1, Invariant, PTL

\* The anchors that are cached and those that are returned name a block of
\* their height that contains their transaction.
THEOREM AnchorsAreProven == Spec => []AnchorProven
<1>1. IInv => AnchorProven
  <2> SUFFICES ASSUME IInv
               PROVE  AnchorProven
    OBVIOUS
  <2>1. \A a \in anchors : Proven(a)
    BY Zenon DEF IInv
  <2>2. \A s \in Syncs : \A r \in job[s].results : Proven(r.anchor)
    BY Zenon DEF IInv, Safe
  <2>3. \A r \in UNION {job[s].results : s \in Syncs} : Proven(r.anchor)
    BY <2>2, Zenon
  <2>4. \A a \in anchors \cup {r.anchor : r \in UNION {job[s].results : s \in Syncs}} : Proven(a)
    BY <2>1, <2>3, Zenon
  <2> QED
    BY <2>4, Zenon DEF AnchorProven, Proven
<1> QED
  BY <1>1, Invariant, PTL

\* A proof that waits for its validation is valid with the header of its block
\* only.
THEOREM ProofsFit == Spec => []ProofFitsItsBlock
<1>1. IInv => ProofFitsItsBlock
  <2> SUFFICES ASSUME IInv, NEW s \in Syncs, NEW proof \in job[s].proofs, NEW b \in Blocks
               PROVE  Valid(proof, b) <=>
                        proof.tx \in TxsOf[b] /\ proof = Proofs[b][proof.tx]
    BY Zenon DEF ProofFitsItsBlock
  <2>1. Made(proof, job[s].seen) /\ job[s].seen \in SUBSET Blocks
    BY InvOf, JobFields, Zenon DEF Safe
  <2>2. \A c \in Blocks :
          Valid(proof, c) => proof.tx \in TxsOf[c] /\ proof = Proofs[c][proof.tx]
    BY <2>1, MadeFields
  <2>3. ASSUME proof.tx \in TxsOf[b], proof = Proofs[b][proof.tx]
        PROVE  Valid(proof, b)
    BY <2>3, ProofFields, Zenon
  <2> QED
    BY <2>2, <2>3, Zenon
<1> QED
  BY <1>1, Invariant, PTL

\* The header of a proof that is validated is in the cache: the expect of
\* batch_fetch_anchors never fails.
THEOREM HeadersArePresent == Spec => []HeaderPresent
<1>1. IInv => HeaderPresent
  BY Zenon DEF IInv, Safe, HeaderPresent
<1> QED
  BY <1>1, Invariant, PTL

\* A new anchor names a block that the call saw on the best chain.
THEOREM NewAnchorsAreFresh == Spec => []FreshAnchors
<1>1. IInv => FreshAnchors
  BY Zenon DEF IInv, Safe, FreshAnchors
<1> QED
  BY <1>1, Invariant, PTL

\* A call that no failure and no reorganisation touches gives an anchor for
\* every transaction.
THEOREM QuietCallsAreComplete == Spec => []CompleteWhenQuiet
<1>1. IInv => CompleteWhenQuiet
  <2> SUFFICES ASSUME IInv, NEW s \in Syncs, pc[s] = "Done", job[s].quiet,
                      NEW p \in job[s].wanted
               PROVE  \E r \in job[s].results : r.anchor.tx = p[1]
    BY Zenon DEF CompleteWhenQuiet
  <2>1. pc[s] # "Idle" /\ pc[s] \in {"Proofs", "Retry", "Store", "Done"}
    OBVIOUS
  <2>2. Complete(s)
    BY <2>1, Zenon DEF IInv
  <2> QED
    BY <2>1, <2>2, Zenon DEF Complete, Served
<1> QED
  BY <1>1, Invariant, PTL

=============================================================================
