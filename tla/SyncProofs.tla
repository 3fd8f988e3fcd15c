----------------------------- MODULE SyncProofs -----------------------------
(***************************************************************************)
(* Theorems about Sync, for any chains, scripts, transactions and numbers  *)
(* of calls.  TypeInv adds to TypeOK what the local variables of a call    *)
(* hold between its requests; TipInv is what the walk down the checkpoints *)
(* of fetch_tip_and_latest_blocks keeps and what chain_update leaves of it;*)
(* ChainInv compares the chains of the wallet and of a call with the best  *)
(* chain.  MerkleProofProofs has the induction.                            *)
(***************************************************************************)
EXTENDS Sync, MerkleProofProofs, SequenceTheorems

-----------------------------------------------------------------------------
(* The invariants.                                                          *)

Outpoint == UNION {{t} \X DOMAIN Outputs[t] : t \in Txs}

Histories == SUBSET (Txs \X (0..MaxHeight))

Spks == [index : Nat, script : Scripts, history : Histories]

RequestType ==
  [kind : {"none", "full_scan", "sync"}, txids : SUBSET Txs, outpoints : SUBSET Outpoint,
   fetchPrev : BOOLEAN]

WalletType == [chain : SUBSET Blocks, txs : SUBSET Txs]

Tips ==
  [at : {"GetTip", "Suffix", "Walk", "Done"}, height : Nat, latest : SUBSET Blocks,
   left : SUBSET Blocks, blocks : SUBSET Blocks]

Scans ==
  [lists : Seq(Seq(Scripts)), taken : Nat, batch : Seq(Spks), unused : Nat, last : Nat,
   active : Seq(Nat), gap : Nat, expected : [Scripts -> SUBSET Txs]]

Founds ==
  [txs : SUBSET Txs, pending : SUBSET (Txs \X (1..MaxHeight)), seen : SUBSET Txs,
   evicted : SUBSET Txs, txouts : SUBSET UNION {Inputs[t] : t \in Txs},
   ops : SUBSET Outpoint]

ServerType ==
  /\ chain \in Seq(0..MaxEvents) /\ Height <= MaxHeight
  /\ place \in [Txs -> {Absent} \cup 0..Height]
  /\ mined \subseteq Txs \X Blocks
  /\ events \in 0..MaxEvents

\* The chains of a call.
TipType ==
  /\ tip \in Tips /\ tip.left \subseteq prev
  /\ \A blocks \in {prev, tip.blocks, tip.latest} : IsChain(blocks)

\* What the scan found is in the cache, or was in the wallet before.
ScanType ==
  /\ scan \in Scans /\ found \in Founds /\ txCache \subseteq Txs
  /\ scan.batch # <<>> => scan.lists # <<>>
  /\ \A s \in Scripts : scan.expected[s] \subseteq wallet.txs
  /\ found.txs \cup found.seen \cup found.evicted \subseteq txCache \cup wallet.txs

CallType ==
  /\ stage \in Range(Stages)
  /\ request \in RequestType
  /\ stage = "TxidHistories" => request.txids \subseteq txCache
  /\ quiet \in BOOLEAN /\ mixed \in BOOLEAN

ResultType ==
  /\ wallet \in WalletType /\ IsChain(wallet.chain)
  /\ IsChain(update)
  /\ given \subseteq mined /\ anchors \subseteq given

TypeInv == ServerType /\ TipType /\ ScanType /\ CallType /\ ResultType

\* The wallet can apply these blocks: see UpdateConnects.
Connects(blocks) ==
  \A p \in prev :
    \/ p \in blocks
    \/ At(blocks, p[1]) # {} /\ \A q \in prev \cap blocks : q[1] < p[1]

\* The walk came from above, and where it has been the server has other blocks.
Descended ==
  /\ tip.left # {}
  /\ \A p \in prev \ tip.left :
       /\ At(tip.latest, p[1]) # {} /\ p \notin tip.latest
       /\ \A q \in tip.left : q[1] < p[1]

TipInv ==
  /\ stage = "Tip" => prev # {}
  /\ stage = "Tip" /\ tip.at = "Walk" => Descended
  /\ stage \notin {"Idle", "Tip"} /\ prev # {} => Connects(tip.blocks)
  /\ stage = "Done" /\ prev # {} => Connects(update)

-----------------------------------------------------------------------------
(* Lemmas about the operators.                                              *)

\* A set of numbers up to n has a greatest member.
LEMMA Greatest ==
  ASSUME NEW n \in Nat, NEW T \in SUBSET (0 .. n), T # {}
  PROVE  Max(T) \in T /\ \A m \in T : m <= Max(T)
<1> DEFINE D == {n - m : m \in T}
<1>1. D \in SUBSET Nat /\ D # {}
  <2>1. \A m \in T : n - m \in Nat
    OBVIOUS
  <2> QED
    BY <2>1
<1>2. PICK d \in D : \A e \in D : d <= e
  BY <1>1, Least
<1>3. PICK g \in T : d = n - g
  BY <1>2
<1>4. \A m \in T : g >= m
  <2> TAKE m \in T
  <2>1. n - g <= n - m
    BY <1>2, <1>3
  <2> QED
    BY <2>1
<1>5. Max(T) \in T /\ \A m \in T : Max(T) >= m
  BY <1>4, Zenon DEF Max
<1> QED
  BY <1>5

\* A member of a sequence.
LEMMA MemberOfSeq ==
  ASSUME NEW S, NEW q \in Seq(S), NEW i \in 1 .. Len(q)
  PROVE  q[i] \in S
OBVIOUS

\* The first n steps of flattening a sequence of sequences.
IsFlat(f, n, qs) == f = [i \in 1 .. n |-> IF i = 1 THEN qs[i] ELSE f[i - 1] \o qs[i]]

LEMMA FlatExists ==
  ASSUME NEW n \in Nat, NEW qs
  PROVE  \E f : IsFlat(f, n, qs)
<1> DEFINE T == {k \in 0 .. n : \E f : IsFlat(f, k, qs)}
<1>1. 0 \in T
  <2> DEFINE f == [i \in 1 .. 0 |-> qs[i]]
  <2>1. f = [i \in 1 .. 0 |-> IF i = 1 THEN qs[i] ELSE f[i - 1] \o qs[i]]
    OBVIOUS
  <2>2. IsFlat(f, 0, qs)
    BY <2>1, Zenon DEF IsFlat
  <2>3. 0 \in 0 .. n
    OBVIOUS
  <2> QED
    BY <2>2, <2>3, Zenon
<1>2. ASSUME NEW m \in 1 .. n, m - 1 \in T
      PROVE  m \in T
  <2>1. PICK g : IsFlat(g, m - 1, qs)
    BY <1>2, Zenon
  <2> DEFINE Next1(i, before) == IF i = 1 THEN qs[i] ELSE before \o qs[i]
             f == [i \in 1 .. m |-> IF i = m THEN Next1(m, g[m - 1]) ELSE g[i]]
  <2>2. \A i \in 1 .. (m - 1) : g[i] = Next1(i, g[i - 1])
    BY <2>1 DEF IsFlat
  <2> HIDE DEF Next1
  <2>3. f[m] = Next1(m, g[m - 1]) /\ \A i \in 1 .. (m - 1) : f[i] = g[i]
    OBVIOUS
  <2>4. f = [i \in 1 .. m |-> f[i]]
    OBVIOUS
  <2>5. \A i, x, y : i = 1 => Next1(i, x) = Next1(i, y)
    BY Zenon DEF Next1
  <2> HIDE DEF f
  <2>6. \A i \in 1 .. m : f[i] = Next1(i, f[i - 1])
    <3> TAKE i \in 1 .. m
    <3>1. CASE i = 1 /\ i = m
      BY <2>3, <2>5, <3>1, Zenon
    <3>2. CASE i = 1 /\ i # m
      <4>1. i \in 1 .. (m - 1)
        BY <3>2
      <4>2. f[i] = Next1(i, g[i - 1])
        BY <2>2, <2>3, <4>1
      <4>3. Next1(i, g[i - 1]) = Next1(i, f[i - 1])
        BY <2>5, <3>2, Zenon
      <4> QED
        BY <4>2, <4>3, Zenon
    <3>3. CASE i # 1 /\ i = m
      <4>1. i - 1 \in 1 .. (m - 1)
        BY <3>3
      <4> QED
        BY <2>3, <3>3, <4>1
    <3>4. CASE i # 1 /\ i # m
      <4>1. i - 1 \in 1 .. (m - 1) /\ i \in 1 .. (m - 1)
        BY <3>4
      <4> QED
        BY <2>2, <2>3, <3>4, <4>1
    <3> QED
      BY <3>1, <3>2, <3>3, <3>4
  <2>7. IsFlat(f, m, qs)
    BY <2>4, <2>6, Zenon DEF IsFlat, Next1
  <2>8. m \in 0 .. n
    OBVIOUS
  <2> QED
    BY <2>7, <2>8, Zenon
<1>3. T \in SUBSET (0 .. n)
  OBVIOUS
<1> HIDE DEF T
<1>4. T = 0 .. n
  BY <1>1, <1>2, <1>3, Induction, Zenon
<1>5. n \in T
  BY <1>4
<1> QED
  BY <1>5, Zenon DEF T

\* The scripts of all keychains, one after the other.
LEMMA FlattenType ==
  ASSUME NEW S, NEW qs \in Seq(Seq(S))
  PROVE  FlattenSeq(qs) \in Seq(S)
<1> DEFINE n == Len(qs)
           flatten == CHOOSE f : IsFlat(f, n, qs)
           T == {k \in 0 .. n : k = 0 \/ flatten[k] \in Seq(S)}
<1>1. n \in Nat
  OBVIOUS
<1>2. IsFlat(flatten, n, qs)
  BY <1>1, FlatExists, Zenon
<1>3. FlattenSeq(qs) = IF n = 0 THEN qs ELSE flatten[n]
  BY DEF FlattenSeq, IsFlat
<1> HIDE DEF flatten
<1>4. \A i \in 1 .. n : flatten[i] = IF i = 1 THEN qs[i] ELSE flatten[i - 1] \o qs[i]
  BY <1>2, Zenon DEF IsFlat
<1>5. \A i \in 1 .. n : qs[i] \in Seq(S)
  BY MemberOfSeq, Zenon
<1>6. 0 \in T
  BY <1>1
<1>7. ASSUME NEW k \in 1 .. n, k - 1 \in T
      PROVE  k \in T
  <2>1. CASE k = 1
    BY <1>4, <1>5, <2>1
  <2>2. CASE k # 1
    <3>1. flatten[k - 1] \in Seq(S) /\ qs[k] \in Seq(S)
      BY <1>5, <1>7, <2>2
    <3>2. flatten[k] = flatten[k - 1] \o qs[k]
      BY <1>4, <2>2, Zenon
    <3>3. flatten[k - 1] \o qs[k] \in Seq(S)
      BY <3>1
    <3>4. flatten[k] \in Seq(S)
      BY <3>2, <3>3, Zenon
    <3>5. k \in 0 .. n
      OBVIOUS
    <3> QED
      BY <3>4, <3>5, Zenon
  <2> QED
    BY <2>1, <2>2
<1>8. T \in SUBSET (0 .. n)
  OBVIOUS
<1> HIDE DEF T
<1>9. T = 0 .. n
  BY <1>1, <1>6, <1>7, <1>8, Induction, Zenon
<1>10. CASE n = 0
  <2>1. qs = <<>>
    BY <1>10
  <2> QED
    BY <1>3, <1>10, <2>1
<1>11. CASE n # 0
  <2>1. n \in T
    BY <1>1, <1>9
  <2> QED
    BY <1>3, <1>11, <2>1 DEF T
<1> QED
  BY <1>10, <1>11

\* The bounds of the server are numbers.
LEMMA Bounds == MaxHeight \in Nat \ {0} /\ MaxEvents \in Nat
BY ServerBounds

\* A block of the chain.
LEMMA BlockType ==
  ASSUME ServerType, NEW h \in 0 .. Height
  PROVE  Block(h) \in Blocks /\ Block(h)[1] = h
<1>1. Height \in Nat /\ Height <= MaxHeight /\ chain \in Seq(0..MaxEvents)
  BY DEF ServerType, Height
<1>2. CASE h = 0
  BY <1>2, Bounds DEF Block, Blocks
<1>3. CASE h # 0
  <2>1. h \in 1 .. Height
    BY <1>1, <1>3
  <2>2. chain[h] \in 0 .. MaxEvents
    BY <1>1, <2>1, MemberOfSeq DEF Height
  <2>3. h \in 0 .. MaxHeight /\ chain[h] \in -1 .. MaxEvents
    BY <1>1, <2>1, <2>2, Bounds
  <2>4. Block(h) = <<h, chain[h]>>
    BY <1>3 DEF Block
  <2> QED
    BY <2>3, <2>4 DEF Blocks
<1> QED
  BY <1>2, <1>3

\* The best chain is a chain, and so is each part of it.
LEMMA ChainParts ==
  ASSUME ServerType, NEW T \in SUBSET (0 .. Height)
  PROVE  IsChain({Block(h) : h \in T})
<1>1. \A h \in T : Block(h) \in Blocks /\ Block(h)[1] = h
  BY BlockType
<1> QED
  BY <1>1, Zenon DEF IsChain

\* An entry of a history.
LEMMA HistoryType ==
  ASSUME ServerType, NEW s
  PROVE  /\ History(s) \in Histories
         /\ \A e \in History(s) : e[1] \in Present /\ e[2] = place[e[1]]
<1>1. \A t \in Present : t \in Txs /\ place[t] \in 0 .. MaxHeight
  <2> TAKE t \in Present
  <2>1. t \in Txs /\ place[t] # Absent /\ place[t] \in {Absent} \cup 0 .. Height
    BY DEF Present, ServerType
  <2>2. Height \in Nat /\ Height <= MaxHeight
    BY DEF ServerType, Height
  <2> QED
    BY <2>1, <2>2, Bounds
<1> QED
  BY <1>1 DEF History, Histories

\* The wallet's chain up to the agreement and other blocks above it.
LEMMA ConnectedChain ==
  ASSUME IsChain(prev), NEW latest, IsChain(latest), NEW agreement \in Int
  PROVE  IsChain(Connected(agreement, latest))
<1> DEFINE new == {p \in prev : p[1] <= agreement} \cup {b \in latest : b[1] > agreement}
<1>1. \A b \in Blocks : b[1] \in Int
  BY Bounds DEF Blocks
<1>2. new \subseteq Blocks
  BY DEF IsChain
<1>3. ASSUME NEW b \in new, NEW c \in new, b[1] = c[1]
      PROVE  b = c
  BY <1>1, <1>2, <1>3 DEF IsChain
<1>4. IsChain(new)
  BY <1>2, <1>3, Zenon DEF IsChain
<1>5. Connected(agreement, latest) = IF new = {} THEN prev ELSE new
  BY Zenon DEF Connected
<1> QED
  BY <1>4, <1>5, Zenon

\* The checkpoint that Walk compares is the highest one left.
NextLeft == CHOOSE p \in tip.left : p[1] = Top(tip.left)

LEMMA NextLeftIsTop ==
  ASSUME TipType, tip.left # {}
  PROVE  /\ NextLeft \in tip.left /\ NextLeft \in prev /\ NextLeft \in Blocks
         /\ \A q \in tip.left : q = NextLeft \/ q[1] < NextLeft[1]
<1> DEFINE T == {p[1] : p \in tip.left}
<1>1. tip.left \subseteq Blocks /\ tip.left \subseteq prev
  BY DEF TipType, Tips
<1>2. T \in SUBSET (0 .. MaxHeight) /\ T # {}
  BY <1>1 DEF Blocks
<1>3. Max(T) \in T /\ \A m \in T : m <= Max(T)
  <2> HIDE DEF T
  <2> QED
    BY <1>2, Greatest, Bounds
<1>4. Top(tip.left) = Max(T)
  BY Zenon DEF Top
<1>5. \E p \in tip.left : p[1] = Top(tip.left)
  BY <1>3, <1>4, Zenon
<1>6. NextLeft \in tip.left /\ NextLeft[1] = Top(tip.left)
  BY <1>5, Zenon DEF NextLeft
<1>7. ASSUME NEW q \in tip.left
      PROVE  q = NextLeft \/ q[1] < NextLeft[1]
  <2>1. q[1] \in T /\ q[1] <= NextLeft[1]
    BY <1>3, <1>4, <1>6
  <2>2. q[1] = NextLeft[1] => q = NextLeft
    BY <1>1, <1>6, <1>7 DEF TipType, IsChain
  <2>3. q[1] \in Nat /\ NextLeft[1] \in Nat
    BY <1>1, <1>6 DEF Blocks
  <2> QED
    BY <2>1, <2>2, <2>3
<1> QED
  BY <1>1, <1>6, <1>7

-----------------------------------------------------------------------------
(* The server.                                                              *)

\* Where the chain is cut, what it had below stays.
LEMMA NewChain ==
  ASSUME ServerType, events < MaxEvents, NEW h \in 1 .. (Height + 1), NEW n \in 0 .. MaxHeight
  PROVE  LET new == SubSeq(chain, 1, h - 1) \o [i \in 1..n |-> events + 1] IN
         /\ new \in Seq(0..MaxEvents) /\ Len(new) = h + n - 1
         /\ \A k \in 1 .. (h - 1) : new[k] = chain[k]
         /\ \A k \in h .. (h + n - 1) : new[k] = events + 1
<1> DEFINE low == SubSeq(chain, 1, h - 1)
           high == [i \in 1..n |-> events + 1]
<1>1. low \in Seq(0..MaxEvents) /\ Len(low) = h - 1
  <2>1. chain \in Seq(0..MaxEvents) /\ Height = Len(chain) /\ h \in 1 .. (Len(chain) + 1)
    BY DEF ServerType, Height
  <2>2. \A i \in 1 .. (h - 1) : i \in 1 .. Len(chain)
    BY <2>1
  <2>3. \A i \in 1 .. (h - 1) : chain[i] \in 0..MaxEvents
    BY <2>1, <2>2, MemberOfSeq, Zenon
  <2>4. low \in Seq(0..MaxEvents) /\ Len(low) = IF 1 <= h - 1 THEN (h - 1) - 1 + 1 ELSE 0
    <3> DEFINE m == h - 1
    <3>1. m \in Int
      BY <2>1
    <3> HIDE DEF m
    <3>2. SubSeq(chain, 1, m) \in Seq(0..MaxEvents)
          /\ Len(SubSeq(chain, 1, m)) = IF 1 <= m THEN m - 1 + 1 ELSE 0
      BY <2>3, <3>1, SubSeqProperties DEF m
    <3> QED
      BY <3>2 DEF m
  <2> HIDE DEF low
  <2> QED
    BY <2>1, <2>4
<1>2. high \in Seq(0..MaxEvents) /\ Len(high) = n
  <2>1. events + 1 \in 0 .. MaxEvents /\ n \in Nat
    BY Bounds DEF ServerType
  <2> HIDE DEF high
  <2>2. high = [i \in 1..n |-> events + 1]
    BY DEF high
  <2> QED
    BY <2>1, <2>2
<1>3. \A k \in 1 .. (h - 1) : low[k] = chain[k]
  <2>1. chain \in Seq(0..MaxEvents) /\ h - 1 \in Int /\ h - 1 <= Len(chain)
    BY DEF ServerType, Height
  <2> DEFINE m == h - 1
  <2> HIDE DEF m
  <2>2. m \in Int /\ m <= Len(chain)
    BY <2>1 DEF m
  <2>3. \A k \in 1 .. m : SubSeq(chain, 1, m)[k] = chain[k]
    BY <2>1, <2>2
  <2> QED
    BY <2>3 DEF m
<1>4. \A i \in 1 .. n : high[i] = events + 1
  OBVIOUS
<1> HIDE DEF low, high
<1>5. n \in Nat /\ h \in Nat \ {0}
  BY Bounds DEF ServerType, Height
<1>6. low \o high \in Seq(0..MaxEvents) /\ Len(low \o high) = h + n - 1
  BY <1>1, <1>2, <1>5
<1>7. \A k \in 1 .. (h - 1) : (low \o high)[k] = chain[k]
  BY <1>1, <1>2, <1>3, <1>5
<1>8. ASSUME NEW k \in h .. (h + n - 1)
      PROVE  (low \o high)[k] = events + 1
  <2> DEFINE i == k - (h - 1)
  <2>1. i \in 1 .. n /\ k \in 1 .. (h + n - 1) /\ k > h - 1
    BY <1>5
  <2>2. (low \o high)[k] = high[k - (h - 1)]
    BY <1>1, <1>2, <1>5, <2>1
  <2> QED
    BY <1>4, <2>1, <2>2
<1> QED
  BY <1>6, <1>7, <1>8 DEF low, high

LEMMA NewBlocksType ==
  ASSUME ServerType, NewBlocks
  PROVE  ServerType' /\ mined \subseteq mined'
<1>1. PICK h \in 1..(Height + 1), n \in 0..MaxHeight :
        /\ h + n - 1 <= MaxHeight
        /\ chain' = SubSeq(chain, 1, h - 1) \o [i \in 1..n |-> events + 1]
        /\ \E to \in [Txs -> {Mempool} \cup h..(h + n - 1)] :
             place' = [t \in Txs |-> IF place[t] \in {Absent} \cup 1..(h - 1)
                                         THEN place[t] ELSE to[t]]
        /\ mined' = mined \cup {<<t, <<place'[t], events + 1>>>> :
                                 t \in {u \in Txs : place'[u] >= h}}
  BY Zenon DEF NewBlocks
<1>2. events' = events + 1 /\ events < MaxEvents
  BY DEF NewBlocks
<1>3. chain' \in Seq(0..MaxEvents) /\ Len(chain') = h + n - 1
  BY <1>1, <1>2, NewChain, Zenon
<1>4. h \in Nat \ {0} /\ n \in Nat /\ h + n - 1 \in 0 .. MaxHeight
  BY <1>1, Bounds DEF ServerType, Height
<1>5. Height' = h + n - 1 /\ Height' <= MaxHeight
  BY <1>1, <1>3, <1>4 DEF Height
<1>6. place' \in [Txs -> {Absent} \cup 0..(h + n - 1)]
  <2>1. PICK to \in [Txs -> {Mempool} \cup h..(h + n - 1)] :
          place' = [t \in Txs |-> IF place[t] \in {Absent} \cup 1..(h - 1)
                                         THEN place[t] ELSE to[t]]
    BY <1>1
  <2>2. \A t \in Txs : to[t] \in {Absent} \cup 0..(h + n - 1)
    BY <1>4 DEF Mempool
  <2>3. \A t \in Txs : place[t] \in {Absent} \cup 1..(h - 1) => place[t] \in {Absent} \cup 0..(h + n - 1)
    BY <1>4
  <2> QED
    BY <2>1, <2>2, <2>3
<1>7. mined' \subseteq Txs \X Blocks
  <2>1. events + 1 \in -1 .. MaxEvents
    BY <1>2, Bounds DEF ServerType
  <2>2. \A t \in {u \in Txs : place'[u] >= h} : place'[t] \in 0 .. MaxHeight
    <3> TAKE t \in {u \in Txs : place'[u] >= h}
    <3>1. place'[t] \in {Absent} \cup 0..(h + n - 1) /\ place'[t] >= h
      BY <1>6
    <3> DEFINE q == place'[t]
    <3> HIDE DEF q
    <3>2. q \in 0 .. MaxHeight
      BY <1>4, <3>1, Bounds DEF Absent, q
    <3> QED
      BY <3>2 DEF q
  <2>3. \A t \in {u \in Txs : place'[u] >= h} : <<t, <<place'[t], events + 1>>>> \in Txs \X Blocks
    BY <2>1, <2>2 DEF Blocks
  <2>4. mined' = mined \cup {<<t, <<place'[t], events + 1>>>> : t \in {u \in Txs : place'[u] >= h}}
    BY <1>1, Zenon
  <2> QED
    BY <2>3, <2>4, Zenon DEF ServerType
<1>8. events' \in 0 .. MaxEvents
  BY <1>2, Bounds DEF ServerType
<1> QED
  BY <1>1, <1>3, <1>5, <1>6, <1>7, <1>8 DEF ServerType

LEMMA MempoolType ==
  ASSUME ServerType, MempoolChange
  PROVE  ServerType' /\ mined \subseteq mined'
<1>1. UNCHANGED <<chain, mined>> /\ events' = events + 1 /\ events < MaxEvents
  BY DEF MempoolChange
<1>2. Height' = Height /\ Height \in Nat
  BY <1>1 DEF Height, ServerType
<1>3. place' \in [Txs -> {Absent} \cup 0..Height]
  <2>1. PICK t \in Txs :
          \/ place' = [u \in Txs |-> IF u = t THEN Mempool
                                     ELSE IF u \in Conflicts(t) THEN Absent ELSE place[u]]
          \/ place' = [place EXCEPT ![t] = Absent]
    BY Zenon DEF MempoolChange
  <2>2. Mempool \in {Absent} \cup 0..Height /\ Absent \in {Absent} \cup 0..Height
    BY <1>2 DEF Mempool
  <2>3. place \in [Txs -> {Absent} \cup 0..Height]
    BY DEF ServerType
  <2> QED
    BY <2>1, <2>2, <2>3
<1>4. events' \in 0 .. MaxEvents
  BY <1>1, Bounds DEF ServerType
<1> QED
  BY <1>1, <1>2, <1>3, <1>4 DEF ServerType

\* A change of the server.
LEMMA ServerStep ==
  ASSUME ServerType, ServerEvent
  PROVE  ServerType' /\ mined \subseteq mined'
BY NewBlocksType, MempoolType DEF ServerEvent

-----------------------------------------------------------------------------
(* The chains of a call.                                                    *)

\* A call that has not asked for anything.
LEMMA NewTipType == NewTip \in Tips /\ NewTip.left = {} /\ NewTip.latest = {} /\ NewTip.blocks = {}
BY DEF NewTip, Tips

LEMMA EmptyChain == IsChain({})
BY DEF IsChain

LEMMA GetTipType ==
  ASSUME ServerType, TipType, GetTip
  PROVE  TipType' /\ UNCHANGED prev /\ tip.at = "GetTip"
         /\ \/ tip'.at = "Done" /\ tip'.blocks = prev
            \/ tip'.at = "Suffix"
<1>1. UNCHANGED prev /\ tip.at = "GetTip"
  BY DEF GetTip
<1>2. prev \in SUBSET Blocks /\ Height \in Nat /\ tip \in Tips
  BY DEF TipType, IsChain, ServerType, Height
<1>3. CASE tip' = [tip EXCEPT !.at = "Done", !.blocks = prev]
  <2>1. tip' \in Tips /\ tip'.at = "Done" /\ tip'.blocks = prev
        /\ tip'.left = tip.left /\ tip'.latest = tip.latest
    BY <1>2, <1>3 DEF Tips
  <2> QED
    BY <1>1, <2>1 DEF TipType
<1>4. CASE tip' = [tip EXCEPT !.at = "Suffix", !.height = Height]
  <2>1. tip' \in Tips /\ tip'.at = "Suffix" /\ tip'.blocks = tip.blocks
        /\ tip'.left = tip.left /\ tip'.latest = tip.latest
    BY <1>2, <1>4 DEF Tips
  <2> QED
    BY <1>1, <2>1 DEF TipType
<1> QED
  BY <1>1, <1>3, <1>4 DEF GetTip

LEMMA SuffixType ==
  ASSUME ServerType, TipType, Suffix
  PROVE  TipType' /\ UNCHANGED prev /\ tip.at = "Suffix" /\ tip'.at = "Walk" /\ tip'.left = prev
<1> DEFINE start == IF tip.height < SuffixLength THEN 0 ELSE tip.height - SuffixLength + 1
           T == {k \in 0..Height : k >= start /\ k < start + SuffixLength}
           new == {Block(h) : h \in T}
<1>1. UNCHANGED prev /\ tip.at = "Suffix"
      /\ tip' = [tip EXCEPT !.at = "Walk", !.left = prev, !.latest = new]
  BY Zenon DEF Suffix
<1>2. T \in SUBSET (0 .. Height)
  OBVIOUS
<1>3. IsChain(new)
  <2> HIDE DEF T
  <2> QED
    BY <1>2, ChainParts
<1>4. prev \in SUBSET Blocks /\ new \in SUBSET Blocks /\ tip \in Tips
  BY <1>3, Zenon DEF TipType, IsChain
<1> HIDE DEF new
<1>5. tip' \in Tips /\ tip'.at = "Walk" /\ tip'.left = prev /\ tip'.latest = new
      /\ tip'.blocks = tip.blocks
  BY <1>1, <1>4 DEF Tips
<1> QED
  BY <1>1, <1>3, <1>5 DEF TipType

\* The block Walk compares it with, and latest_blocks after that.
NextBlock ==
  LET known == At(tip.latest, NextLeft[1]) IN
  IF known # {} THEN CHOOSE b \in known : TRUE ELSE Block(NextLeft[1])

NextLatest == tip.latest \cup {NextBlock}

LEMMA NextBlockType ==
  ASSUME ServerType, TipType, tip.left # {},
         At(tip.latest, NextLeft[1]) # {} \/ NextLeft[1] <= Height
  PROVE  NextBlock \in Blocks /\ NextBlock[1] = NextLeft[1] /\ IsChain(NextLatest)
<1>1. NextLeft \in Blocks /\ IsChain(tip.latest)
  BY NextLeftIsTop DEF TipType
<1>2. CASE At(tip.latest, NextLeft[1]) # {}
  <2>1. NextBlock \in At(tip.latest, NextLeft[1])
    BY <1>2, Zenon DEF NextBlock
  <2>2. NextBlock \in tip.latest /\ NextBlock[1] = NextLeft[1]
    BY <2>1, Zenon DEF At
  <2>3. NextLatest = tip.latest
    BY <2>2, Zenon DEF NextLatest
  <2> QED
    BY <1>1, <2>2, <2>3 DEF IsChain
<1>3. CASE At(tip.latest, NextLeft[1]) = {}
  <2>1. NextBlock = Block(NextLeft[1])
    BY <1>3, Zenon DEF NextBlock
  <2>2. NextLeft[1] \in 0 .. Height
    <3>1. NextLeft[1] \in Nat /\ NextLeft[1] <= Height /\ Height \in Nat
      BY <1>1, <1>3 DEF Blocks, ServerType, Height
    <3> QED
      BY <3>1
  <2>3. NextBlock \in Blocks /\ NextBlock[1] = NextLeft[1]
    BY <2>1, <2>2, BlockType
  <2>4. \A b \in tip.latest : b[1] # NextBlock[1]
    BY <1>3, <2>3, Zenon DEF At
  <2>5. NextLatest \subseteq Blocks
    BY <1>1, <2>3, Zenon DEF NextLatest, IsChain
  <2>6. ASSUME NEW b \in NextLatest, NEW c \in NextLatest, b[1] = c[1]
        PROVE  b = c
    BY <1>1, <2>4, <2>6, Zenon DEF NextLatest, IsChain
  <2> QED
    BY <2>3, <2>5, <2>6, Zenon DEF IsChain
<1> QED
  BY <1>2, <1>3

\* The walk goes on below a checkpoint that disagrees.
LEMMA Descends ==
  ASSUME TipType, Descended, IsChain(NextLatest), NextBlock[1] = NextLeft[1],
         NextBlock # NextLeft
  PROVE  \A p \in prev \ (tip.left \ {NextLeft}) :
           /\ At(NextLatest, p[1]) # {} /\ p \notin NextLatest
           /\ \A q \in tip.left \ {NextLeft} : q[1] < p[1]
<1>1. /\ NextLeft \in tip.left /\ NextLeft \in prev
      /\ \A q \in tip.left : q = NextLeft \/ q[1] < NextLeft[1]
  BY NextLeftIsTop DEF Descended
<1>2. NextBlock \in NextLatest /\ tip.latest \subseteq NextLatest
  BY DEF NextLatest
<1>3. ASSUME NEW p \in prev \ tip.left
      PROVE  /\ At(NextLatest, p[1]) # {} /\ p \notin NextLatest
             /\ \A q \in tip.left : q[1] < p[1]
  <2>1. /\ At(tip.latest, p[1]) # {} /\ p \notin tip.latest
        /\ \A q \in tip.left : q[1] < p[1]
    BY DEF Descended
  <2>2. NextLeft[1] < p[1] /\ NextLeft \in Blocks
    BY <1>1, <2>1, NextLeftIsTop DEF Descended
  <2>3. p # NextBlock
    BY <2>2 DEF Blocks
  <2>4. At(NextLatest, p[1]) # {}
    BY <1>2, <2>1, Zenon DEF At
  <2> QED
    BY <2>1, <2>3, <2>4, Zenon DEF NextLatest
<1>4. At(NextLatest, NextLeft[1]) # {}
  BY <1>2, Zenon DEF At
<1>5. NextLeft \notin NextLatest
  BY <1>2, Zenon DEF IsChain
<1> QED
  <2> TAKE p \in prev \ (tip.left \ {NextLeft})
  <2>1. CASE p = NextLeft
    BY <1>1, <1>4, <1>5, <2>1, Zenon
  <2>2. CASE p # NextLeft
    <3>1. p \in prev \ tip.left
      BY <2>2
    <3> QED
      BY <1>3, <3>1, Zenon
  <2> QED
    BY <2>1, <2>2

\* The chain up to a checkpoint that agrees.
LEMMA AgreementConnects ==
  ASSUME TipType, Descended, NextBlock = NextLeft
  PROVE  Connects(Connected(NextLeft[1], NextLatest))
<1> DEFINE cp == NextLeft
           low == {p \in prev : p[1] <= cp[1]}
           new == low \cup {b \in NextLatest : b[1] > cp[1]}
<1>1. /\ cp \in tip.left /\ cp \in prev /\ cp \in Blocks
      /\ \A q \in tip.left : q = cp \/ q[1] < cp[1]
  BY NextLeftIsTop DEF Descended
<1>2. \A b \in prev \cup tip.latest : b[1] \in Nat
  BY DEF TipType, IsChain, Blocks
<1>3. cp[1] \in Nat
  BY <1>1, <1>2
<1>4. cp \in new
  BY <1>1, <1>3
<1>5. Connected(cp[1], NextLatest) = new
  BY <1>4, Zenon DEF Connected
<1>6. ASSUME NEW p \in prev
      PROVE  p \in new \/ (At(new, p[1]) # {} /\ \A q \in prev \cap new : q[1] < p[1])
  <2>1. CASE p[1] <= cp[1]
    BY <2>1
  <2>2. CASE p[1] > cp[1]
    <3>1. p \notin tip.left
      <4>1. p # cp /\ ~ (p[1] < cp[1])
        BY <1>2, <1>3, <2>2
      <4> QED
        BY <1>1, <4>1, Zenon
    <3>2. At(tip.latest, p[1]) # {} /\ cp[1] < p[1]
      BY <1>1, <3>1 DEF Descended
    <3>3. PICK b \in tip.latest : b[1] = p[1]
      BY <3>2, Zenon DEF At
    <3>4. b \in new
      BY <3>3, <2>2 DEF NextLatest
    <3>5. At(new, p[1]) # {}
      BY <3>3, <3>4, Zenon DEF At
    <3>6. ASSUME NEW q \in prev \cap new
          PROVE  q[1] < p[1]
      <4>1. CASE q[1] <= cp[1]
        BY <1>2, <1>3, <2>2, <4>1
      <4>2. CASE ~ (q[1] <= cp[1])
        <5>1. q \in NextLatest /\ q[1] > cp[1]
          BY <4>2
        <5>2. q # NextLeft /\ q \in tip.latest
          <6>1. q # NextLeft
            BY <1>3, <4>2
          <6> QED
            BY <5>1, <6>1 DEF NextLatest
        <5>3. q \notin tip.left
          BY <1>1, <1>2, <1>3, <4>2, <5>2
        <5> QED
          BY <5>2, <5>3 DEF Descended
      <4> QED
        BY <4>1, <4>2
    <3> QED
      BY <3>5, <3>6
  <2> QED
    BY <1>2, <1>3, <2>1, <2>2
<1> QED
  BY <1>5, <1>6, Zenon DEF Connects

\* The chain of a server that shares no checkpoint with the wallet.
LEMMA NoAgreementConnects ==
  ASSUME TipType, prev # {}, IsChain(NextLatest),
         \A p \in prev : At(NextLatest, p[1]) # {} /\ p \notin NextLatest
  PROVE  Connects(Connected(-1, NextLatest))
<1> DEFINE new == {p \in prev : p[1] <= -1} \cup {b \in NextLatest : b[1] > -1}
<1>1. \A b \in Blocks : b[1] \in Nat
  BY DEF Blocks
<1>2. prev \subseteq Blocks /\ NextLatest \subseteq Blocks
  BY Zenon DEF TipType, IsChain
<1>3. new = NextLatest
  <2>1. \A b \in Blocks : ~ (b[1] <= -1) /\ b[1] > -1
    BY <1>1
  <2> QED
    BY <1>2, <2>1
<1>4. NextLatest # {}
  BY Zenon DEF At
<1>5. Connected(-1, NextLatest) = NextLatest
  BY <1>3, <1>4, Zenon DEF Connected
<1> QED
  BY <1>5, Zenon DEF Connects

\* A step of the walk ends with a chain the wallet can apply, or goes on below.
LEMMA WalkType ==
  ASSUME ServerType, TipType, Descended, Walk
  PROVE  /\ TipType' /\ UNCHANGED prev /\ tip.at = "Walk"
         /\ \/ tip'.at = "Done" /\ Connects(tip'.blocks)
            \/ tip'.at = "Walk" /\ Descended'
<1> DEFINE Done(agreement) == [tip EXCEPT !.at = "Done", !.latest = NextLatest,
                                          !.blocks = Connected(agreement, NextLatest)]
<1>1. /\ UNCHANGED prev /\ tip.at = "Walk"
      /\ At(tip.latest, NextLeft[1]) # {} \/ NextLeft[1] <= Height
      /\ tip' = IF NextBlock = NextLeft THEN Done(NextLeft[1])
                ELSE IF tip.left = {NextLeft} THEN Done(-1)
                ELSE [tip EXCEPT !.latest = NextLatest, !.left = @ \ {NextLeft}]
  BY Zenon DEF Walk, NextLeft, NextBlock, NextLatest
<1>2. NextBlock \in Blocks /\ NextBlock[1] = NextLeft[1] /\ IsChain(NextLatest)
  BY <1>1, NextBlockType DEF Descended
<1>3. NextLeft \in tip.left /\ NextLeft \in prev /\ NextLeft \in Blocks
  BY NextLeftIsTop DEF Descended
<1>4. tip \in Tips /\ tip.left \subseteq prev /\ IsChain(prev) /\ IsChain(tip.blocks)
      /\ NextLatest \in SUBSET Blocks
  BY <1>2, Zenon DEF TipType, IsChain
<1>5. ASSUME NEW agreement \in Int, tip' = Done(agreement),
             Connects(Connected(agreement, NextLatest))
      PROVE  TipType' /\ tip'.at = "Done" /\ Connects(tip'.blocks)
  <2> DEFINE blocks == Connected(agreement, NextLatest)
  <2>1. IsChain(blocks) /\ blocks \in SUBSET Blocks
    BY <1>2, <1>4, ConnectedChain DEF IsChain
  <2>2. Connects(blocks)
    BY <1>5
  <2>3. tip' = [tip EXCEPT !.at = "Done", !.latest = NextLatest, !.blocks = blocks]
    BY <1>5, Zenon
  <2> HIDE DEF blocks
  <2>4. tip' \in Tips /\ tip'.at = "Done" /\ tip'.left = tip.left /\ tip'.latest = NextLatest
        /\ tip'.blocks = blocks
    BY <1>4, <2>1, <2>3 DEF Tips
  <2>5. TipType'
    BY <1>1, <1>2, <1>4, <2>1, <2>4 DEF TipType
  <2> QED
    BY <2>2, <2>4, <2>5
<1>6. CASE NextBlock = NextLeft
  <2>1. NextLeft[1] \in Int
    BY <1>3 DEF Blocks
  <2> QED
    BY <1>1, <1>5, <1>6, <2>1, AgreementConnects, Zenon
<1>7. CASE NextBlock # NextLeft /\ tip.left = {NextLeft}
  <2>1. \A p \in prev : At(NextLatest, p[1]) # {} /\ p \notin NextLatest
    <3>1. tip.left \ {NextLeft} = {}
      BY <1>7
    <3> QED
      BY <1>2, <1>7, <3>1, Descends
  <2>2. prev # {}
    BY <1>3
  <2>3. Connects(Connected(-1, NextLatest))
    BY <1>2, <2>1, <2>2, NoAgreementConnects, Zenon
  <2>4. tip' = Done(-1) /\ -1 \in Int
    BY <1>1, <1>7
  <2> QED
    BY <1>1, <1>5, <2>3, <2>4
<1>8. CASE NextBlock # NextLeft /\ tip.left # {NextLeft}
  <2> DEFINE left == tip.left \ {NextLeft}
  <2>1. tip' = [tip EXCEPT !.latest = NextLatest, !.left = left]
    BY <1>1, <1>8, Zenon
  <2>2. left # {} /\ left \subseteq prev /\ left \in SUBSET Blocks
    BY <1>3, <1>4, <1>8 DEF IsChain
  <2>3. \A p \in prev \ left :
           /\ At(NextLatest, p[1]) # {} /\ p \notin NextLatest
           /\ \A q \in left : q[1] < p[1]
    BY <1>2, <1>8, Descends, Zenon
  <2> HIDE DEF left
  <2>4. tip' \in Tips /\ tip'.at = "Walk" /\ tip'.left = left /\ tip'.latest = NextLatest
        /\ tip'.blocks = tip.blocks
    BY <1>1, <1>4, <2>1, <2>2 DEF Tips
  <2>5. TipType'
    BY <1>1, <1>2, <1>4, <2>2, <2>4 DEF TipType
  <2>6. Descended'
    BY <1>1, <2>2, <2>3, <2>4 DEF Descended, At
  <2> QED
    BY <1>1, <2>4, <2>5, <2>6
<1> QED
  BY <1>1, <1>6, <1>7, <1>8

\* A request of fetch_tip_and_latest_blocks, and the whole of it.
LEMMA FetchTipType ==
  ASSUME ServerType, TipType, TipInv, FetchTip
  PROVE  TipType' /\ TipInv'
<1>1. /\ stage = "Tip" /\ FetchTipAndLatestBlocks
      /\ stage' = IF tip'.at = "Done" THEN "Spks" ELSE "Tip"
  BY DEF FetchTip
<1>2. prev # {}
  BY <1>1 DEF TipInv
<1>3. CASE GetTip
  <2>1. TipType' /\ UNCHANGED prev
        /\ \/ tip'.at = "Done" /\ tip'.blocks = prev
           \/ tip'.at = "Suffix"
    BY <1>3, GetTipType DEF TipInv
  <2>2. Connects(prev)
    BY DEF Connects
  <2> QED
    BY <1>1, <1>2, <2>1, <2>2 DEF TipInv, Connects, At
<1>4. CASE Suffix
  <2>1. TipType' /\ UNCHANGED prev /\ tip'.at = "Walk" /\ tip'.left = prev
    BY <1>4, SuffixType
  <2>2. Descended'
    BY <1>2, <2>1 DEF Descended
  <2> QED
    BY <1>1, <1>2, <2>1, <2>2 DEF TipInv
<1>5. CASE Walk
  <2>1. /\ TipType' /\ UNCHANGED prev
        /\ \/ tip'.at = "Done" /\ Connects(tip'.blocks)
           \/ tip'.at = "Walk" /\ Descended'
    <3>1. tip.at = "Walk"
      BY <1>5 DEF Walk
    <3>2. Descended
      BY <1>1, <3>1 DEF TipInv
    <3> QED
      BY <1>5, <3>2, WalkType
  <2> QED
    BY <1>1, <1>2, <2>1 DEF TipInv, Connects, At
<1> QED
  BY <1>1, <1>3, <1>4, <1>5 DEF FetchTipAndLatestBlocks

\* chain_update() adds blocks only at heights the chain leaves out: it stays a
\* chain, and the wallet can still apply it.
LEMMA ChainUpdateType ==
  ASSUME TipType, NEW anchored, anchored \subseteq Blocks, NEW new \in ChainUpdates(anchored)
  PROVE  IsChain(new) /\ (Connects(tip.blocks) => Connects(new))
<1> DEFINE missing == {h \in {b[1] : b \in anchored} : h <= Top(tip.blocks) /\ At(tip.blocks, h) = {}}
           Added(f, k) == IF At(tip.latest, k) # {} THEN At(tip.latest, k) ELSE {f[k]}
<1>1. PICK p \in [missing -> anchored] :
        /\ \A h \in missing : p[h][1] = h
        /\ new = tip.blocks \cup UNION {Added(p, h) : h \in missing}
  BY Zenon DEF ChainUpdates
<1>2. \A h \in missing : At(tip.blocks, h) = {}
  OBVIOUS
<1> HIDE DEF missing
<1>3. IsChain(tip.blocks) /\ IsChain(tip.latest)
  BY DEF TipType
<1>4. ASSUME NEW h \in missing, NEW b \in Added(p, h)
      PROVE  b \in Blocks /\ b[1] = h /\ \A c \in Added(p, h) : b = c
  <2>1. CASE At(tip.latest, h) # {}
    <3>1. Added(p, h) = At(tip.latest, h)
      BY <2>1
    <3>2. \A c \in Added(p, h) : c \in tip.latest /\ c[1] = h
      BY <3>1, Zenon DEF At
    <3> QED
      BY <1>3, <1>4, <3>2, Zenon DEF IsChain
  <2>2. CASE At(tip.latest, h) = {}
    <3>1. Added(p, h) = {p[h]} /\ p[h] \in anchored /\ p[h][1] = h
      BY <1>1, <2>2
    <3> QED
      BY <1>4, <3>1
  <2> QED
    BY <2>1, <2>2
<1> HIDE DEF Added
<1>5. ASSUME NEW b \in new
      PROVE  b \in Blocks /\ (b \in tip.blocks \/ \E h \in missing : b \in Added(p, h))
  <2>1. b \in tip.blocks \/ \E h \in missing : b \in Added(p, h)
    <3>1. new = tip.blocks \cup UNION {Added(p, h) : h \in missing}
      BY <1>1
    <3> QED
      BY <1>5, <3>1
  <2> QED
    BY <1>3, <1>4, <2>1, Zenon DEF IsChain
<1>6. \A h \in missing : \A b \in Added(p, h), c \in tip.blocks : c[1] # b[1]
  BY <1>2, <1>4, Zenon DEF At
<1>7. ASSUME NEW b \in new, NEW c \in new, b[1] = c[1]
      PROVE  b = c
  <2>1. CASE b \in tip.blocks /\ c \in tip.blocks
    BY <1>3, <1>7, <2>1, Zenon DEF IsChain
  <2>2. CASE b \notin tip.blocks /\ c \notin tip.blocks
    BY <1>4, <1>5, <1>7, <2>2, Zenon
  <2>3. CASE b \in tip.blocks /\ c \notin tip.blocks
    BY <1>5, <1>6, <1>7, <2>3, Zenon
  <2>4. CASE b \notin tip.blocks /\ c \in tip.blocks
    BY <1>5, <1>6, <1>7, <2>4, Zenon
  <2> QED
    BY <2>1, <2>2, <2>3, <2>4, Zenon
<1>8. IsChain(new)
  BY <1>5, <1>7, Zenon DEF IsChain
<1>9. ASSUME Connects(tip.blocks)
      PROVE  Connects(new)
  <2>1. tip.blocks \subseteq new
    BY <1>1, Zenon
  <2>2. ASSUME NEW q \in prev, q \in new
        PROVE  q \in tip.blocks
    <3>1. \E c \in tip.blocks : c[1] = q[1]
      BY <1>9, Zenon DEF Connects, At
    <3> QED
      BY <1>4, <1>5, <1>6, <2>2, <3>1, Zenon
  <2>3. \A x : At(tip.blocks, x) # {} => At(new, x) # {}
    BY <2>1, Zenon DEF At
  <2> QED
    BY <1>9, <2>1, <2>2, <2>3, Zenon DEF Connects
<1> QED
  BY <1>8, <1>9, Zenon

-----------------------------------------------------------------------------
(* The scan.                                                                *)

LEMMA NothingFoundType == NothingFound \in Founds
BY DEF NothingFound, Founds

LEMMA NewScanType ==
  ASSUME NEW lists \in Seq(Seq(Scripts)), NEW gap \in Nat,
         NEW expected \in [Scripts -> SUBSET Txs]
  PROVE  LET new == NewScan(lists, gap, expected) IN
         new \in Scans /\ new.expected = expected /\ new.lists = lists /\ new.batch = <<>>
<1> DEFINE none == <<>>
<1>1. none \in Seq(Spks) /\ none \in Seq(Nat)
  OBVIOUS
<1> HIDE DEF none
<1>2. NewScan(lists, gap, expected) =
        [lists |-> lists, taken |-> 0, batch |-> none, unused |-> 0, last |-> 0,
         active |-> none, gap |-> gap, expected |-> expected]
  BY Zenon DEF NewScan, none
<1>3. LET new == NewScan(lists, gap, expected) IN
      new \in Scans /\ new.expected = expected /\ new.lists = lists /\ new.batch = none
  BY <1>1, <1>2 DEF Scans
<1> QED
  BY <1>3 DEF none

\* The entries of a history go into the update.
LEMMA ApplyType ==
  ASSUME NEW f \in Founds, NEW entries \in Histories
  PROVE  /\ Apply(f, entries) \in Founds
         /\ Apply(f, entries).txs = f.txs \cup Ids(entries)
         /\ Apply(f, entries).seen \subseteq f.seen \cup Ids(entries)
         /\ Apply(f, entries).evicted = f.evicted
<1> DEFINE txs == f.txs \cup Ids(entries)
           pending == f.pending \cup {e \in entries : e[2] > 0}
           inMempool == f.seen \cup Ids({e \in entries : e[2] <= 0})
<1>1. Apply(f, entries) = [f EXCEPT !.txs = txs, !.pending = pending, !.seen = inMempool]
  BY Zenon DEF Apply
<1>2. /\ f.txs \in SUBSET Txs /\ f.seen \in SUBSET Txs
      /\ f.pending \in SUBSET (Txs \X (1..MaxHeight))
  BY DEF Founds
<1>3. Ids(entries) \in SUBSET Txs /\ Ids({e \in entries : e[2] <= 0}) \subseteq Ids(entries)
  BY DEF Ids, Histories
<1>4. {e \in entries : e[2] > 0} \subseteq Txs \X (1..MaxHeight)
  <2> SUFFICES ASSUME NEW e \in entries, e[2] > 0
               PROVE  e \in Txs \X (1..MaxHeight)
    OBVIOUS
  <2>1. e \in Txs \X (0..MaxHeight)
    BY DEF Histories
  <2>2. e[1] \in Txs /\ e[2] \in 1..MaxHeight /\ e = <<e[1], e[2]>>
    BY <2>1, Bounds
  <2> QED
    BY <2>2
<1>5. /\ txs \in SUBSET Txs
      /\ inMempool \in SUBSET Txs /\ inMempool \subseteq f.seen \cup Ids(entries)
      /\ pending \in SUBSET (Txs \X (1..MaxHeight))
  BY <1>2, <1>3, <1>4
<1>6. txs = f.txs \cup Ids(entries)
  OBVIOUS
<1> HIDE DEF txs, pending, inMempool
<1>7. /\ Apply(f, entries) \in Founds /\ Apply(f, entries).txs = txs
      /\ Apply(f, entries).seen = inMempool /\ Apply(f, entries).evicted = f.evicted
  BY <1>1, <1>5 DEF Founds
<1> QED
  BY <1>5, <1>6, <1>7

\* The fields of a scan.
LEMMA ScanFields ==
  ASSUME scan \in Scans
  PROVE  /\ scan.lists \in Seq(Seq(Scripts)) /\ scan.taken \in Nat /\ scan.batch \in Seq(Spks)
         /\ scan.unused \in Nat /\ scan.last \in Nat /\ scan.active \in Seq(Nat)
         /\ scan.gap \in Nat /\ scan.expected \in [Scripts -> SUBSET Txs]
BY DEF Scans

LEMMA ListDoneType ==
  ASSUME scan \in Scans, scan.lists # <<>>
  PROVE  ListDone \in Scans /\ ListDone.expected = scan.expected /\ ListDone.batch = <<>>
<1> DEFINE none == <<>>
           lists == Tail(scan.lists)
           active == Append(scan.active, scan.last)
<1>1. ListDone = [scan EXCEPT !.lists = lists, !.taken = 0, !.batch = none, !.unused = 0,
                              !.last = 0, !.active = active]
  BY Zenon DEF ListDone
<1>2. none \in Seq(Spks)
  OBVIOUS
<1>3. lists \in Seq(Seq(Scripts)) /\ active \in Seq(Nat)
  BY ScanFields
<1> HIDE DEF none, lists, active
<1>4. ListDone \in Scans /\ ListDone.expected = scan.expected /\ ListDone.batch = none
  BY <1>1, <1>2, <1>3 DEF Scans
<1> QED
  BY <1>4 DEF none

\* The histories of the next scripts.
LEMMA FetchBatchType ==
  ASSUME ServerType, ScanType, FetchBatch
  PROVE  /\ scan' \in Scans /\ scan'.expected = scan.expected /\ scan'.lists # <<>>
         /\ UNCHANGED <<found, txCache>>
<1> DEFINE list == Head(scan.lists)
           upto == IF scan.taken + BatchSize < Len(list) THEN scan.taken + BatchSize ELSE Len(list)
           batch == [i \in 1..(upto - scan.taken) |->
                       LET index == scan.taken + i IN
                       [index |-> index, script |-> list[index], history |-> History(list[index])]]
<1>1. /\ scan.lists # <<>> /\ scan.taken < Len(list)
      /\ scan' = [scan EXCEPT !.taken = upto, !.batch = batch]
      /\ UNCHANGED <<found, txCache>>
  BY Zenon DEF FetchBatch
<1>2. scan \in Scans
  BY DEF ScanType
<1>3. list \in Seq(Scripts)
  BY <1>1, <1>2, ScanFields
<1> HIDE DEF list
<1>4. upto \in Nat /\ scan.taken < upto /\ upto <= Len(list) /\ scan.taken \in Nat
  BY <1>1, <1>2, <1>3, ScanFields, BatchAssumption
<1> HIDE DEF upto
<1>5. batch \in Seq(Spks)
  <2>1. \A i \in 1..(upto - scan.taken) :
          [index |-> scan.taken + i, script |-> list[scan.taken + i],
           history |-> History(list[scan.taken + i])] \in Spks
    <3> TAKE i \in 1..(upto - scan.taken)
    <3>1. scan.taken + i \in Nat /\ scan.taken + i \in 1 .. Len(list)
      BY <1>3, <1>4
    <3>2. list[scan.taken + i] \in Scripts
      BY <1>3, <3>1, MemberOfSeq, Zenon
    <3>3. History(list[scan.taken + i]) \in Histories
      BY HistoryType
    <3> QED
      BY <3>1, <3>2, <3>3, Zenon DEF Spks
  <2>2. upto - scan.taken \in Nat
    BY <1>4
  <2> QED
    BY <2>1, <2>2
<1> HIDE DEF batch
<1>6. scan' \in Scans /\ scan'.expected = scan.expected /\ scan'.lists = scan.lists
  BY <1>1, <1>2, <1>4, <1>5 DEF Scans
<1> QED
  BY <1>1, <1>6

\* What a script has lost, as far as the wallet knows of it.
LEMMA EvictedType ==
  ASSUME ScanType, NEW spk \in Spks
  PROVE  Evicted(spk) \in SUBSET Txs /\ Evicted(spk) \subseteq wallet.txs
<1>1. spk.script \in Scripts
  BY DEF Spks
<1>2. scan.expected[spk.script] \in SUBSET Txs /\ scan.expected[spk.script] \subseteq wallet.txs
  BY <1>1, ScanFields DEF ScanType
<1> QED
  BY <1>2 DEF Evicted

\* A transaction is recorded as evicted.
LEMMA EvictType ==
  ASSUME NEW f \in Founds, NEW txs \in SUBSET Txs
  PROVE  LET g == [f EXCEPT !.evicted = @ \cup txs] IN
         /\ g \in Founds /\ g.txs = f.txs /\ g.seen = f.seen /\ g.evicted = f.evicted \cup txs
<1> DEFINE evicted == f.evicted \cup txs
<1>1. evicted \in SUBSET Txs
  BY DEF Founds
<1>2. [f EXCEPT !.evicted = @ \cup txs] = [f EXCEPT !.evicted = evicted]
  OBVIOUS
<1> HIDE DEF evicted
<1>3. LET g == [f EXCEPT !.evicted = evicted] IN
      /\ g \in Founds /\ g.txs = f.txs /\ g.seen = f.seen /\ g.evicted = evicted
  BY <1>1 DEF Founds
<1> QED
  BY <1>2, <1>3 DEF evicted

\* A script of the batch is dealt with.
LEMMA BatchHead ==
  ASSUME scan \in Scans, scan.batch # <<>>
  PROVE  Head(scan.batch) \in Spks /\ Tail(scan.batch) \in Seq(Spks)
BY ScanFields

LEMMA UnusedScriptType ==
  ASSUME ScanType, UnusedScript, UNCHANGED wallet
  PROVE  ScanType'
<1> DEFINE spk == Head(scan.batch)
<1>1. /\ scan.batch # <<>> /\ UNCHANGED txCache
      /\ \/ /\ scan' = [scan EXCEPT !.batch = Tail(@), !.unused = @ + 1]
            /\ found' = [found EXCEPT !.evicted = @ \cup Evicted(spk)]
         \/ scan' = ListDone /\ UNCHANGED found
  BY Zenon DEF UnusedScript
<1>2. scan \in Scans /\ found \in Founds
  BY DEF ScanType
<1>3. spk \in Spks /\ Tail(scan.batch) \in Seq(Spks) /\ scan.lists # <<>>
  BY <1>1, <1>2, BatchHead DEF ScanType
<1>4. CASE scan' = ListDone /\ UNCHANGED found
  <2>1. scan' \in Scans /\ scan'.expected = scan.expected /\ scan'.batch = <<>>
    BY <1>2, <1>3, <1>4, ListDoneType
  <2> QED
    BY <1>1, <1>4, <2>1 DEF ScanType
<1>5. CASE /\ scan' = [scan EXCEPT !.batch = Tail(@), !.unused = @ + 1]
           /\ found' = [found EXCEPT !.evicted = @ \cup Evicted(spk)]
  <2> DEFINE rest == Tail(scan.batch)
             unused == scan.unused + 1
  <2>1. scan' = [scan EXCEPT !.batch = rest, !.unused = unused]
    BY <1>5, Zenon
  <2>2. rest \in Seq(Spks) /\ unused \in Nat
    BY <1>2, <1>3, ScanFields
  <2> HIDE DEF rest, unused
  <2>3. scan' \in Scans /\ scan'.expected = scan.expected /\ scan'.lists = scan.lists
    BY <1>2, <2>1, <2>2 DEF Scans
  <2>4. Evicted(spk) \in SUBSET Txs /\ Evicted(spk) \subseteq wallet.txs
    BY <1>3, EvictedType, Zenon
  <2>5. /\ found' \in Founds /\ found'.txs = found.txs /\ found'.seen = found.seen
        /\ found'.evicted = found.evicted \cup Evicted(spk)
    BY <1>2, <1>5, <2>4, EvictType, Zenon
  <2> QED
    BY <1>1, <1>3, <2>3, <2>4, <2>5 DEF ScanType
<1> QED
  BY <1>1, <1>4, <1>5

LEMMA UsedScriptType ==
  ASSUME ScanType, UsedScript, UNCHANGED wallet
  PROVE  ScanType'
<1> DEFINE spk == Head(scan.batch)
           rest == Tail(scan.batch)
           index == spk.index
<1>1. /\ scan.batch # <<>>
      /\ scan' = [scan EXCEPT !.batch = rest, !.last = index, !.unused = 0]
      /\ found' = [Apply(found, spk.history) EXCEPT !.evicted = @ \cup Evicted(spk)]
      /\ txCache' = txCache \cup Ids(spk.history)
  BY Zenon DEF UsedScript
<1>2. scan \in Scans /\ found \in Founds
  BY DEF ScanType
<1>3. spk \in Spks /\ rest \in Seq(Spks) /\ scan.lists # <<>>
  BY <1>1, <1>2, BatchHead DEF ScanType
<1>4. index \in Nat /\ spk.history \in Histories /\ Ids(spk.history) \subseteq Txs
  BY <1>3 DEF Spks, Histories, Ids
<1>5. Evicted(spk) \in SUBSET Txs /\ Evicted(spk) \subseteq wallet.txs
  BY <1>3, EvictedType, Zenon
<1> HIDE DEF spk, rest, index
<1>6. scan' \in Scans /\ scan'.expected = scan.expected /\ scan'.lists = scan.lists
  BY <1>1, <1>2, <1>3, <1>4 DEF Scans
<1> DEFINE f == Apply(found, spk.history)
<1>7. /\ f \in Founds /\ f.txs = found.txs \cup Ids(spk.history)
      /\ f.seen \subseteq found.seen \cup Ids(spk.history) /\ f.evicted = found.evicted
  BY <1>2, <1>4, ApplyType, Zenon
<1>8. found' = [f EXCEPT !.evicted = @ \cup Evicted(spk)]
  BY <1>1
<1> HIDE DEF f
<1>9. /\ found' \in Founds /\ found'.txs = f.txs /\ found'.seen = f.seen
      /\ found'.evicted = f.evicted \cup Evicted(spk)
  BY <1>5, <1>7, <1>8, EvictType, Zenon
<1> QED
  BY <1>1, <1>3, <1>4, <1>5, <1>6, <1>7, <1>9 DEF ScanType

\* A step of populate_with_spks.
LEMMA PopulateType ==
  ASSUME ServerType, ScanType, PopulateWithSpks, UNCHANGED wallet
  PROVE  ScanType'
<1>1. CASE FetchBatch
  BY <1>1, FetchBatchType DEF ScanType
<1>2. CASE EndOfList
  <2>1. scan' = ListDone /\ UNCHANGED <<found, txCache>> /\ scan.lists # <<>>
    BY <1>2 DEF EndOfList
  <2>2. scan' \in Scans /\ scan'.expected = scan.expected /\ scan'.batch = <<>>
    BY <2>1, ListDoneType DEF ScanType
  <2> QED
    BY <2>1, <2>2 DEF ScanType
<1> QED
  BY <1>1, <1>2, UnusedScriptType, UsedScriptType DEF PopulateWithSpks

\* The transactions asked for.
LEMMA FetchTxidsType ==
  ASSUME ServerType, ScanType, NEW txids, FetchTxids(txids), UNCHANGED wallet
  PROVE  ScanType' /\ txids \subseteq txCache'
<1>1. txids \subseteq Txs
  BY DEF FetchTxids, Fetchable, Present, ScanType
<1> QED
  BY <1>1 DEF FetchTxids, ScanType

LEMMA ApplyTxidsType ==
  ASSUME ServerType, ScanType, NEW txids \in SUBSET Txs, ApplyTxids(txids),
         txids \subseteq txCache, UNCHANGED wallet
  PROVE  ScanType'
<1> DEFINE entries == {e \in UNION {History(Outputs[t][1]) : t \in txids} : e[1] \in txids}
           f == Apply(found, entries)
           txs == f.txs \cup txids
<1>1. found' = [f EXCEPT !.txs = txs] /\ UNCHANGED <<scan, txCache>>
  BY Zenon DEF ApplyTxids
<1>2. entries \in Histories /\ Ids(entries) \subseteq txids
  <2>1. \A t \in txids : History(Outputs[t][1]) \in Histories
    BY HistoryType
  <2> QED
    BY <2>1 DEF Histories, Ids
<1> HIDE DEF entries
<1>3. /\ f \in Founds /\ f.txs = found.txs \cup Ids(entries)
      /\ f.seen \subseteq found.seen \cup Ids(entries) /\ f.evicted = found.evicted
  BY <1>2, ApplyType, Zenon DEF ScanType
<1> HIDE DEF f
<1>4. txs \in SUBSET Txs /\ txs = found.txs \cup Ids(entries) \cup txids
  BY <1>3 DEF Founds
<1> HIDE DEF txs
<1>5. found' \in Founds /\ found'.txs = txs /\ found'.seen = f.seen /\ found'.evicted = f.evicted
  BY <1>1, <1>3, <1>4 DEF Founds
<1> QED
  BY <1>1, <1>2, <1>3, <1>4, <1>5 DEF ScanType

\* The transactions of the outpoints.
LEMMA FetchOutpointsType ==
  ASSUME ServerType, ScanType, NEW outpoints \in SUBSET Outpoint, FetchOutpoints(outpoints),
         UNCHANGED wallet
  PROVE  /\ ScanType' /\ found'.ops \in SUBSET outpoints
         /\ UNCHANGED scan /\ found'.txs = found.txs /\ found'.evicted = found.evicted
<1>1. PICK got \in SUBSET outpoints :
        /\ Fetchable(Ids(got)) /\ found' = [found EXCEPT !.ops = got]
        /\ txCache' = txCache \cup Ids(got) /\ UNCHANGED scan
  BY Zenon DEF FetchOutpoints
<1>2. Ids(got) \subseteq Txs
  BY <1>1 DEF Fetchable, Present, ScanType
<1>3. found \in Founds
  BY DEF ScanType
<1>4. /\ found' \in Founds /\ found'.ops = got /\ found'.txs = found.txs
      /\ found'.seen = found.seen /\ found'.evicted = found.evicted
  BY <1>1, <1>3 DEF Founds
<1> QED
  BY <1>1, <1>2, <1>4 DEF ScanType

\* Their histories.
LEMMA ApplyOutpointsType ==
  ASSUME ServerType, ScanType, ApplyOutpoints, UNCHANGED wallet
  PROVE  ScanType'
<1> DEFINE H(o) == History(ScriptOf(o))
           got == found.ops
           entries == UNION {Related(o, H(o)) : o \in got}
           unspent == {o \in got : \A e \in H(o) : o \notin Inputs[e[1]]}
           looked(ops) == UNION {Ids(H(o)) : o \in ops}
<1>1. PICK extra \in SUBSET looked(got) :
        txCache' = txCache \cup Ids(entries) \cup looked(unspent) \cup extra
  BY Zenon DEF ApplyOutpoints
<1>2. found' = Apply(found, entries) /\ UNCHANGED scan
  BY Zenon DEF ApplyOutpoints
<1>3. \A o \in got : H(o) \in Histories
  BY HistoryType
<1>4. entries \in Histories
  BY <1>3 DEF Related, Histories
<1>5. looked(got) \subseteq Txs /\ looked(unspent) \subseteq looked(got) /\ Ids(entries) \subseteq Txs
  BY <1>3, <1>4 DEF Histories, Ids
<1> HIDE DEF entries, unspent, looked
<1>6. /\ found' \in Founds /\ found'.txs = found.txs \cup Ids(entries)
      /\ found'.seen \subseteq found.seen \cup Ids(entries) /\ found'.evicted = found.evicted
  BY <1>2, <1>4, ApplyType, Zenon DEF ScanType
<1> QED
  BY <1>1, <1>2, <1>5, <1>6 DEF ScanType

\* The previous outputs.
LEMMA FetchPrevType ==
  ASSUME ServerType, ScanType, FetchPrevTxouts, UNCHANGED wallet
  PROVE  ScanType'
<1> DEFINE spent == UNION {Inputs[t] : t \in found.txs}
           txouts == found.txouts \cup spent
<1>1. /\ found' = [found EXCEPT !.txouts = txouts] /\ UNCHANGED scan
      /\ txCache' = txCache \cup Ids(spent)
  BY Zenon DEF FetchPrevTxouts
<1>2. found \in Founds /\ found.txs \subseteq Txs
  BY DEF ScanType, Founds
<1>3. spent \subseteq UNION {Inputs[t] : t \in Txs} /\ Ids(spent) \subseteq Txs
  <2>1. \A t \in Txs : \A o \in Inputs[t] : o[1] \in Txs /\ o[2] \in DOMAIN Outputs[o[1]]
    BY TxsAssumption
  <2> QED
    BY <1>2, <2>1 DEF Ids
<1>4. txouts \in SUBSET UNION {Inputs[t] : t \in Txs}
  BY <1>2, <1>3 DEF Founds
<1> HIDE DEF spent, txouts
<1>5. /\ found' \in Founds /\ found'.txs = found.txs /\ found'.seen = found.seen
      /\ found'.evicted = found.evicted
  BY <1>1, <1>2, <1>4 DEF Founds
<1> QED
  BY <1>1, <1>3, <1>5 DEF ScanType

-----------------------------------------------------------------------------
(* The steps.                                                               *)

LEMMA StageNames ==
  Range(Stages) = {"Idle", "Done", "Update", "Anchors", "PrevTxouts", "OutpointHistories",
                   "Outpoints", "TxidHistories", "Txids", "Spks", "Tip"}
BY DEF Range, Stages

\* A call begins.
LEMMA BeginsType ==
  ASSUME TypeInv, NEW req \in RequestType, NEW lists \in Seq(Seq(Scripts)), NEW gap \in Nat,
         NEW expected \in [Scripts -> SUBSET Txs],
         \A s \in Scripts : expected[s] \subseteq wallet.txs,
         Begins(req, lists, gap, expected)
  PROVE  TypeInv' /\ TipInv'
<1>1. /\ stage' = IF wallet.chain = {} THEN "Spks" ELSE "Tip"
      /\ request' = req
      /\ prev' = wallet.chain /\ tip' = NewTip
      /\ scan' = NewScan(lists, gap, expected)
      /\ found' = NothingFound
      /\ anchors' = {} /\ update' = {}
      /\ quiet' = TRUE /\ UNCHANGED <<server, txCache, wallet, given, mixed>>
  BY Zenon DEF Begins, Goes
<1>2. ServerType'
  BY <1>1 DEF TypeInv, ServerType, server, Height
<1>3. TipType'
  BY <1>1, NewTipType, EmptyChain DEF TypeInv, TipType, ResultType
<1>4. ScanType'
  <2>1. scan' \in Scans /\ scan'.expected = expected /\ scan'.batch = <<>>
    BY <1>1, NewScanType
  <2>2. found' \in Founds /\ found'.txs = {} /\ found'.seen = {} /\ found'.evicted = {}
    BY <1>1, NothingFoundType DEF NothingFound
  <2> QED
    BY <1>1, <2>1, <2>2 DEF TypeInv, ScanType
<1>5. CallType'
  <2>1. stage' \in Range(Stages) /\ stage' # "TxidHistories"
    BY <1>1, StageNames
  <2> QED
    BY <1>1, <2>1 DEF TypeInv, CallType
<1>6. ResultType'
  BY <1>1, EmptyChain DEF TypeInv, ResultType, server
<1>7. TipInv'
  <2>1. tip'.at = "GetTip"
    BY <1>1 DEF NewTip
  <2> QED
    BY <1>1, <2>1 DEF TipInv
<1> QED
  BY <1>2, <1>3, <1>4, <1>5, <1>6, <1>7 DEF TypeInv

LEMMA FullScanType ==
  ASSUME TypeInv, FullScan
  PROVE  TypeInv' /\ TipInv'
<1> DEFINE none == [s \in Scripts |-> {}]
<1>1. PICK fetchPrev \in FetchPrev :
        Begins([NoRequest EXCEPT !.kind = "full_scan", !.fetchPrev = fetchPrev],
               Keychains, StopGap, none)
  BY Zenon DEF FullScan
<1>2. [NoRequest EXCEPT !.kind = "full_scan", !.fetchPrev = fetchPrev] \in RequestType
  <2>1. fetchPrev \in BOOLEAN
    BY FetchPrevAssumption
  <2> QED
    BY <2>1 DEF NoRequest, RequestType
<1>3. none \in [Scripts -> SUBSET Txs] /\ \A s \in Scripts : none[s] \subseteq wallet.txs
  OBVIOUS
<1>4. StopGap \in Nat /\ Keychains \in Seq(Seq(Scripts))
  BY SyncBounds, KeychainsAssumption
<1> HIDE DEF none
<1> QED
  BY <1>1, <1>2, <1>3, <1>4, BeginsType, Zenon

LEMMA PollSyncType ==
  ASSUME TypeInv, PollSync
  PROVE  TypeInv' /\ TipInv'
<1> DEFINE known == [s \in Scripts |-> {t \in wallet.txs : s \in Touches(t)}]
<1>1. PICK req \in Requests : Begins(req, <<AllScripts>>, Len(AllScripts) + 1, known)
  BY Zenon DEF PollSync
<1>2. req \in RequestType
  BY RequestsAssumption DEF RequestType, Outpoint
<1>3. wallet.txs \subseteq Txs
  BY DEF TypeInv, ResultType, WalletType
<1>4. known \in [Scripts -> SUBSET Txs] /\ \A s \in Scripts : known[s] \subseteq wallet.txs
  BY <1>3
<1>5. AllScripts \in Seq(Scripts)
  BY FlattenType, KeychainsAssumption DEF AllScripts
<1>6. Len(AllScripts) + 1 \in Nat /\ <<AllScripts>> \in Seq(Seq(Scripts))
  BY <1>5
<1> HIDE DEF known
<1> QED
  BY <1>1, <1>2, <1>4, <1>6, BeginsType, Zenon

\* A step that leaves the chains of the call alone, and does not finish it.
LEMMA KeepsTip ==
  ASSUME TipInv, UNCHANGED tipVars, stage \notin {"Idle", "Tip"}, stage' \notin {"Tip", "Done"}
  PROVE  TipInv'
BY DEF TipInv, tipVars, Connects, At

\* A step of a call between the tip and the anchors.
LEMMA KeepsRest ==
  ASSUME TypeInv, UNCHANGED <<server, tipVars>>
  PROVE  ServerType' /\ TipType'
BY DEF TypeInv, ServerType, server, Height, TipType, tipVars

LEMMA KeepsResult ==
  ASSUME TypeInv, UNCHANGED <<server, wallet, given, anchors, update>>
  PROVE  ResultType'
BY DEF TypeInv, ResultType, server

LEMMA FetchTipStep ==
  ASSUME TypeInv, TipInv, FetchTip
  PROVE  TypeInv' /\ TipInv'
<1>1. TipType' /\ TipInv'
  BY FetchTipType DEF TypeInv
<1>2. UNCHANGED <<server, scanVars, syncVars, quiet>> /\ stage' \in {"Spks", "Tip"}
      /\ mixed' \in BOOLEAN
  BY DEF FetchTip
<1>3. ServerType'
  BY <1>2 DEF TypeInv, ServerType, server, Height
<1>4. ScanType'
  BY <1>2 DEF TypeInv, ScanType, scanVars, syncVars
<1>5. CallType'
  BY <1>2, StageNames DEF TypeInv, CallType, syncVars
<1>6. ResultType'
  BY <1>2 DEF TypeInv, ResultType, server, syncVars
<1> QED
  BY <1>1, <1>3, <1>4, <1>5, <1>6 DEF TypeInv

LEMMA ScanSpksStep ==
  ASSUME TypeInv, TipInv, ScanSpks
  PROVE  TypeInv' /\ TipInv'
<1>1. /\ stage = "Spks" /\ stage' \in {"Spks", "Txids", "PrevTxouts"} /\ PopulateWithSpks
      /\ UNCHANGED <<server, tipVars, syncVars, history>>
  BY DEF ScanSpks
<1>2. ScanType'
  BY <1>1, PopulateType DEF TypeInv, syncVars
<1>3. TipInv'
  BY <1>1, KeepsTip
<1>4. CallType'
  BY <1>1, StageNames DEF TypeInv, CallType, syncVars, history
<1>5. ServerType' /\ TipType' /\ ResultType'
  BY <1>1, KeepsRest, KeepsResult DEF syncVars
<1> QED
  BY <1>2, <1>3, <1>4, <1>5 DEF TypeInv

LEMMA TxidsStep ==
  ASSUME TypeInv, TipInv, Txids
  PROVE  TypeInv' /\ TipInv'
<1>1. UNCHANGED <<server, tipVars, syncVars, history>>
  BY DEF Txids
<1>2. ServerType' /\ TipType' /\ ResultType'
  BY <1>1, KeepsRest, KeepsResult DEF syncVars
<1>3. CASE Goes("Txids", "TxidHistories") /\ FetchTxids(request.txids)
  <2>1. ScanType' /\ request.txids \subseteq txCache'
    BY <1>1, <1>3, FetchTxidsType DEF TypeInv, syncVars
  <2>2. CallType'
    BY <1>1, <1>3, <2>1, StageNames DEF TypeInv, CallType, Goes, syncVars, history
  <2>3. TipInv'
    BY <1>1, <1>3, KeepsTip DEF Goes
  <2> QED
    BY <1>2, <2>1, <2>2, <2>3 DEF TypeInv
<1>4. CASE Goes("TxidHistories", "Outpoints") /\ ApplyTxids(request.txids)
  <2>1. request.txids \in SUBSET Txs /\ request.txids \subseteq txCache
    BY <1>4 DEF TypeInv, CallType, RequestType, Goes
  <2>2. ScanType'
    BY <1>1, <1>4, <2>1, ApplyTxidsType DEF TypeInv, syncVars
  <2>3. CallType'
    BY <1>1, <1>4, StageNames DEF TypeInv, CallType, Goes, syncVars, history
  <2>4. TipInv'
    BY <1>1, <1>4, KeepsTip DEF Goes
  <2> QED
    BY <1>2, <2>2, <2>3, <2>4 DEF TypeInv
<1> QED
  BY <1>3, <1>4 DEF Txids

LEMMA OutpointsStep ==
  ASSUME TypeInv, TipInv, Outpoints
  PROVE  TypeInv' /\ TipInv'
<1>1. /\ Goes("Outpoints", "OutpointHistories")
      /\ FetchOutpoints(request.outpoints)
      /\ quiet' = (quiet /\ \A o \in request.outpoints \ found'.ops : o[1] \notin Present)
  BY Zenon DEF Outpoints
<1>2. UNCHANGED <<server, tipVars, request, wallet, given, anchors, update, calls, seen, stale, mixed>>
  BY DEF Outpoints, syncVars
<1>3. request.outpoints \in SUBSET Outpoint
  BY DEF TypeInv, CallType, RequestType
<1>4. quiet' \in BOOLEAN
  BY <1>1
<1>5. ServerType' /\ TipType' /\ ResultType'
  BY <1>2, KeepsRest, KeepsResult
<1>6. ScanType'
  BY <1>1, <1>2, <1>3, FetchOutpointsType DEF TypeInv
<1>7. CallType'
  BY <1>1, <1>2, <1>4, StageNames DEF TypeInv, CallType, Goes
<1>8. TipInv'
  BY <1>1, <1>2, KeepsTip DEF Goes
<1> QED
  BY <1>5, <1>6, <1>7, <1>8 DEF TypeInv

LEMMA OutpointHistoriesStep ==
  ASSUME TypeInv, TipInv, OutpointHistories
  PROVE  TypeInv' /\ TipInv'
<1>1. /\ Goes("OutpointHistories", "PrevTxouts") /\ ApplyOutpoints
      /\ UNCHANGED <<server, tipVars, syncVars, history>>
  BY DEF OutpointHistories
<1>2. ServerType' /\ TipType' /\ ResultType'
  BY <1>1, KeepsRest, KeepsResult DEF syncVars
<1>3. ScanType'
  BY <1>1, ApplyOutpointsType DEF TypeInv, syncVars
<1>4. CallType'
  BY <1>1, StageNames DEF TypeInv, CallType, Goes, syncVars, history
<1>5. TipInv'
  BY <1>1, KeepsTip DEF Goes
<1> QED
  BY <1>2, <1>3, <1>4, <1>5 DEF TypeInv

LEMMA PrevTxoutsStep ==
  ASSUME TypeInv, TipInv, PrevTxouts
  PROVE  TypeInv' /\ TipInv'
<1>1. /\ stage = "PrevTxouts" /\ stage' \in {"Update", "Anchors"}
      /\ FetchPrevTxouts \/ UNCHANGED scanVars
      /\ UNCHANGED <<server, tipVars, syncVars, quiet, mixed>>
  BY DEF PrevTxouts, Goes
<1>2. ServerType' /\ TipType' /\ ResultType'
  BY <1>1, KeepsRest, KeepsResult DEF syncVars
<1>3. ScanType'
  <2>1. CASE FetchPrevTxouts
    BY <1>1, <2>1, FetchPrevType DEF TypeInv, syncVars
  <2>2. CASE UNCHANGED scanVars
    BY <1>1, <2>2 DEF TypeInv, ScanType, syncVars, scanVars
  <2> QED
    BY <1>1, <2>1, <2>2
<1>4. CallType'
  BY <1>1, StageNames DEF TypeInv, CallType, syncVars
<1>5. TipInv'
  BY <1>1, KeepsTip
<1> QED
  BY <1>2, <1>3, <1>4, <1>5 DEF TypeInv

\* The blocks of the anchors a call may get, and of those it gave out before.
LEMMA FetchAnchorsStep ==
  ASSUME TypeInv, TipInv, FetchAnchors
  PROVE  TypeInv' /\ TipInv'
<1>1. PICK as \in SUBSET (Provable \cup Cached) : anchors' = as /\ given' = given \cup as
  BY Zenon DEF FetchAnchors
<1>2. /\ stage = "Anchors" /\ stage' = "Update"
      /\ UNCHANGED <<server, tipVars, scanVars, request, wallet, update, calls, quiet, seen, mixed>>
  BY DEF FetchAnchors, Goes
<1>3. ServerType' /\ TipType'
  BY <1>2, KeepsRest
<1>4. ScanType'
  BY <1>2 DEF TypeInv, ScanType, scanVars
<1>5. CallType'
  BY <1>2, StageNames DEF TypeInv, CallType
<1>6. ResultType'
  <2>1. Provable \subseteq mined /\ Cached \subseteq given
    BY DEF Provable, Cached
  <2>2. given' \subseteq mined /\ anchors' \subseteq given'
    BY <1>1, <2>1 DEF TypeInv, ResultType
  <2> QED
    BY <1>2, <2>2 DEF TypeInv, ResultType, server
<1>7. TipInv'
  BY <1>2, KeepsTip
<1> QED
  BY <1>3, <1>4, <1>5, <1>6, <1>7 DEF TypeInv

\* chain_update() at the end of a call.
LEMMA FinishStep ==
  ASSUME TypeInv, TipInv, Finish
  PROVE  TypeInv' /\ TipInv'
<1>1. /\ stage = "Update" /\ stage' = "Done"
      /\ UNCHANGED <<server, tipVars, scanVars, request, wallet, given, anchors, calls,
                     quiet, seen, stale>>
      /\ mixed' \in BOOLEAN
  BY DEF Finish, Goes
<1>2. ServerType' /\ TipType'
  BY <1>1, KeepsRest
<1>3. ScanType'
  BY <1>1 DEF TypeInv, ScanType, scanVars
<1>4. CallType'
  BY <1>1, StageNames DEF TypeInv, CallType
<1>5. IsChain(update') /\ (prev # {} => Connects(update'))
  <2>1. CASE prev = {}
    <3>1. update' = {}
      BY <2>1, Zenon DEF Finish
    <3> QED
      BY <2>1, <3>1, EmptyChain
  <2>2. CASE prev # {}
    <3> DEFINE anchored == {a[2] : a \in anchors}
    <3>1. update' \in ChainUpdates(anchored)
      BY <2>2, Zenon DEF Finish
    <3>2. anchored \subseteq Blocks
      BY DEF TypeInv, ResultType, ServerType
    <3>3. TipType /\ Connects(tip.blocks)
      BY <1>1, <2>2 DEF TypeInv, TipInv
    <3> HIDE DEF anchored
    <3> QED
      BY <3>1, <3>2, <3>3, ChainUpdateType
  <2> QED
    BY <2>1, <2>2
<1>6. ResultType'
  BY <1>1, <1>5 DEF TypeInv, ResultType, server
<1>7. TipInv'
  BY <1>1, <1>5 DEF TipInv, tipVars, Connects, At
<1> QED
  BY <1>2, <1>3, <1>4, <1>6, <1>7 DEF TypeInv

\* Nothing is left of a call that returned or failed.
LEMMA NothingLeft ==
  ASSUME prev' = {}, tip' = NewTip, stage' = "Idle",
         scan' = NewScan(<<>>, 1, [s \in Scripts |-> {}]), found' = NothingFound
  PROVE  /\ TipType' /\ TipInv'
         /\ txCache' \subseteq Txs => ScanType'
<1>1. TipType' /\ TipInv'
  BY NewTipType, EmptyChain DEF TipType, TipInv
<1>2. ASSUME txCache' \subseteq Txs
      PROVE  ScanType'
  <2> DEFINE none == [s \in Scripts |-> {}]
             lists == <<>>
  <2>1. none \in [Scripts -> SUBSET Txs] /\ lists \in Seq(Seq(Scripts)) /\ 1 \in Nat
    OBVIOUS
  <2>2. \A s \in Scripts : none[s] = {}
    OBVIOUS
  <2>3. scan' = NewScan(lists, 1, none)
    OBVIOUS
  <2> HIDE DEF none, lists
  <2>4. scan' \in Scans /\ scan'.expected = none /\ scan'.batch = <<>>
    BY <2>1, <2>3, NewScanType
  <2>5. found' \in Founds /\ found'.txs = {} /\ found'.seen = {} /\ found'.evicted = {}
    BY NothingFoundType DEF NothingFound
  <2> QED
    BY <1>2, <2>2, <2>4, <2>5 DEF ScanType
<1> QED
  BY <1>1, <1>2

\* The wallet takes the result.
LEMMA AppliedStep ==
  ASSUME TypeInv, TipInv, Applied
  PROVE  TypeInv' /\ TipInv'
<1>1. /\ stage' = "Idle" /\ request' = NoRequest
      /\ prev' = {} /\ tip' = NewTip /\ scan' = NewScan(<<>>, 1, [s \in Scripts |-> {}])
      /\ found' = NothingFound /\ anchors' = {} /\ update' = {} /\ quiet' = TRUE
      /\ UNCHANGED <<server, txCache, given, calls, stale, mixed>>
  BY Zenon DEF Applied, Goes
<1>2. wallet' = [chain |-> IF prev = {} THEN wallet.chain ELSE update,
                 txs |-> (wallet.txs \cup found.txs) \ found.evicted]
  BY Zenon DEF Applied
<1>3. ServerType'
  BY <1>1 DEF TypeInv, ServerType, server, Height
<1>4. TipType' /\ TipInv' /\ ScanType'
  <2>1. txCache' \subseteq Txs
    BY <1>1 DEF TypeInv, ScanType
  <2> QED
    BY <1>1, <2>1, NothingLeft, Zenon
<1>5. CallType'
  <2>1. NoRequest \in RequestType
    BY DEF NoRequest, RequestType
  <2> QED
    BY <1>1, <2>1, StageNames DEF TypeInv, CallType
<1>6. ResultType'
  <2> DEFINE blocks == IF prev = {} THEN wallet.chain ELSE update
             txs == (wallet.txs \cup found.txs) \ found.evicted
  <2>1. IsChain(blocks) /\ blocks \in SUBSET Blocks
    BY DEF TypeInv, ResultType, IsChain
  <2>2. txs \in SUBSET Txs
    BY DEF TypeInv, ResultType, ScanType, WalletType, Founds
  <2> HIDE DEF blocks, txs
  <2>3. wallet' = [chain |-> blocks, txs |-> txs]
    BY <1>2 DEF blocks, txs
  <2>4. wallet' \in WalletType /\ wallet'.chain = blocks
    BY <2>1, <2>2, <2>3 DEF WalletType
  <2> QED
    BY <1>1, <2>1, <2>4, EmptyChain DEF TypeInv, ResultType, server
<1> QED
  BY <1>3, <1>4, <1>5, <1>6 DEF TypeInv

\* A request fails, and what was fetched before stays in the cache.
LEMMA FailsStep ==
  ASSUME TypeInv, TipInv, Fails
  PROVE  TypeInv' /\ TipInv'
<1>1. /\ stage' = "Idle" /\ request' = NoRequest
      /\ prev' = {} /\ tip' = NewTip /\ scan' = NewScan(<<>>, 1, [s \in Scripts |-> {}])
      /\ found' = NothingFound /\ quiet' = TRUE
      /\ UNCHANGED <<server, wallet, given, anchors, update, calls, stale, mixed>>
  BY Zenon DEF Fails
<1>2. txCache' \subseteq Txs
  <2>1. \E got \in SUBSET (InFlight \cap Present) : txCache' = txCache \cup got
    BY Zenon DEF Fails
  <2>2. Present \subseteq Txs /\ txCache \subseteq Txs
    BY DEF Present, TypeInv, ScanType
  <2> QED
    BY <2>1, <2>2
<1>3. ServerType'
  BY <1>1 DEF TypeInv, ServerType, server, Height
<1>4. TipType' /\ TipInv' /\ ScanType'
  BY <1>1, <1>2, NothingLeft, Zenon
<1>5. CallType'
  <2>1. NoRequest \in RequestType
    BY DEF NoRequest, RequestType
  <2> QED
    BY <1>1, <2>1, StageNames DEF TypeInv, CallType
<1>6. ResultType'
  BY <1>1, KeepsResult
<1> QED
  BY <1>3, <1>4, <1>5, <1>6 DEF TypeInv

\* The server changes between two steps.
LEMMA ChangesStep ==
  ASSUME TypeInv, TipInv, Changes
  PROVE  TypeInv' /\ TipInv'
<1>1. /\ ServerEvent /\ quiet' \in BOOLEAN
      /\ UNCHANGED <<tipVars, scanVars, stage, syncVars, stale, mixed>>
  BY DEF Changes
<1>2. ServerType' /\ mined \subseteq mined'
  BY <1>1, ServerStep DEF TypeInv
<1>3. TipType'
  BY <1>1 DEF TypeInv, TipType, tipVars
<1>4. ScanType'
  BY <1>1 DEF TypeInv, ScanType, scanVars, syncVars
<1>5. CallType'
  BY <1>1 DEF TypeInv, CallType, scanVars, syncVars
<1>6. ResultType'
  BY <1>1, <1>2 DEF TypeInv, ResultType, syncVars
<1>7. TipInv'
  BY <1>1 DEF TipInv, tipVars, syncVars, Descended, Connects, At
<1> QED
  BY <1>2, <1>3, <1>4, <1>5, <1>6, <1>7 DEF TypeInv

-----------------------------------------------------------------------------
(* The inductive invariant and the theorems.                                *)

IInv == TypeInv /\ TipInv

\* The inductive invariant holds at first.
LEMMA InitIInv == Init => IInv
<1> SUFFICES ASSUME Init
             PROVE  IInv
  OBVIOUS
<1>1. /\ prev = {} /\ tip = NewTip /\ stage = "Idle"
      /\ scan = NewScan(<<>>, 1, [s \in Scripts |-> {}]) /\ found = NothingFound /\ txCache = {}
  BY Zenon DEF Init
<1>2. ServerType
  <2> DEFINE n == MaxHeight - 1
             first == [i \in 1..n |-> 0]
  <2>1. n \in Nat /\ 0 \in 0..MaxEvents /\ n <= MaxHeight /\ n + 1 = MaxHeight
    BY Bounds
  <2>2. chain = first /\ place \in [Txs -> StartAt] /\ events = 0
        /\ mined = {<<t, <<place[t], 0>>>> : t \in {u \in Txs : place[u] > 0}}
    BY Zenon DEF Init, ServerInit
  <2> HIDE DEF n
  <2>3. first \in Seq(0..MaxEvents) /\ Len(first) = n
    BY <2>1
  <2>4. Height = n
    BY <2>2, <2>3 DEF Height
  <2>5. \A t \in Txs : place[t] \in {Absent} \cup 0..n
    <3> TAKE t \in Txs
    <3>1. place[t] \in -1..(MaxHeight - 1)
      BY <2>2, ServerBounds
    <3> QED
      BY <2>1, <3>1 DEF Absent, n
  <2>6. mined \subseteq Txs \X Blocks
    <3>1. \A t \in {u \in Txs : place[u] > 0} : place[t] \in 0..MaxHeight /\ 0 \in -1..MaxEvents
      <4> TAKE t \in {u \in Txs : place[u] > 0}
      <4>1. place[t] \in {Absent} \cup 0..n /\ place[t] > 0
        BY <2>5
      <4> QED
        BY <2>1, <4>1 DEF Absent
    <3>2. \A t \in {u \in Txs : place[u] > 0} : <<t, <<place[t], 0>>>> \in Txs \X Blocks
      BY <3>1 DEF Blocks
    <3> QED
      BY <2>2, <3>2
  <2> QED
    BY <2>1, <2>2, <2>3, <2>4, <2>5, <2>6 DEF ServerType
<1>3. TipType /\ TipInv
  BY <1>1, NewTipType, EmptyChain DEF TipType, TipInv
<1>4. ScanType
  <2> DEFINE none == [s \in Scripts |-> {}]
             lists == <<>>
  <2>1. none \in [Scripts -> SUBSET Txs] /\ lists \in Seq(Seq(Scripts)) /\ 1 \in Nat
    OBVIOUS
  <2>2. \A s \in Scripts : none[s] = {}
    OBVIOUS
  <2>3. scan = NewScan(lists, 1, none)
    BY <1>1
  <2> HIDE DEF none, lists
  <2>4. scan \in Scans /\ scan.expected = none /\ scan.batch = <<>>
    BY <2>1, <2>3, NewScanType
  <2>5. found \in Founds /\ found.txs = {} /\ found.seen = {} /\ found.evicted = {}
    BY <1>1, NothingFoundType DEF NothingFound
  <2> QED
    BY <1>1, <2>2, <2>4, <2>5 DEF ScanType
<1>5. CallType
  <2>1. NoRequest \in RequestType
    BY DEF NoRequest, RequestType
  <2> QED
    BY <1>1, <2>1, StageNames DEF Init, CallType
<1>6. ResultType
  <2>1. wallet \in [chain : Wallets, txs : {{}}] /\ given = {} /\ anchors = {} /\ update = {}
    BY DEF Init
  <2>2. wallet.chain \in Wallets /\ wallet \in [chain : {wallet.chain}, txs : {{}}]
    BY <2>1
  <2>3. IsChain(wallet.chain) /\ wallet.chain \in SUBSET Blocks
    BY <2>2, WalletsAssumption DEF IsChain
  <2>4. wallet \in WalletType
    BY <2>2, <2>3 DEF WalletType
  <2> QED
    BY <2>1, <2>3, <2>4, EmptyChain DEF ResultType
<1> QED
  BY <1>2, <1>3, <1>4, <1>5, <1>6 DEF IInv, TypeInv

\* Every step preserves it.
LEMMA NextIInv == IInv /\ [Next]_vars => IInv'
<1> SUFFICES ASSUME TypeInv, TipInv, [Next]_vars
             PROVE  TypeInv' /\ TipInv'
  BY DEF IInv
<1>1. CASE Next
  BY <1>1, FullScanType, PollSyncType, FetchTipStep, ScanSpksStep, TxidsStep, OutpointsStep,
     OutpointHistoriesStep, PrevTxoutsStep, FetchAnchorsStep, FinishStep, AppliedStep,
     FailsStep, ChangesStep, Zenon DEF Next, SyncStep
<1>2. CASE UNCHANGED vars
  <2>1. UNCHANGED <<server, tipVars, scanVars, stage, syncVars, history>>
    BY <1>2 DEF vars
  <2>2. ServerType' /\ TipType' /\ ResultType'
    BY <2>1, KeepsRest, KeepsResult DEF syncVars
  <2>3. ScanType' /\ CallType'
    BY <2>1 DEF TypeInv, ScanType, CallType, scanVars, syncVars, history
  <2>4. TipInv'
    BY <2>1 DEF TipInv, tipVars, syncVars, Descended, Connects, At
  <2> QED
    BY <2>2, <2>3, <2>4 DEF TypeInv
<1> QED
  BY <1>1, <1>2

\* The inductive invariant holds in every reachable state.
THEOREM Invariant == Spec => []IInv
BY InitIInv, NextIInv, PTL DEF Spec

\* Every variable keeps its type; in particular the chains of the wallet, of
\* the call and of the update have one block for a height, whatever the server
\* does between the requests, and whatever the scan found is in the cache.
THEOREM TypeCorrect == Spec => []TypeOK
<1>1. IInv => TypeOK
  <2> SUFFICES ASSUME IInv
               PROVE  TypeOK
    OBVIOUS
  <2>1. ServerType /\ TipType /\ ScanType /\ CallType /\ ResultType
    BY DEF IInv, TypeInv
  <2>2. \A blocks \in {wallet.chain, prev, update, tip.blocks, tip.latest} : IsChain(blocks)
    BY <2>1 DEF TipType, ResultType
  <2>3. tip.at \in {"GetTip", "Suffix", "Walk", "Done"} /\ tip.left \subseteq prev
    BY <2>1 DEF TipType, Tips
  <2>4. found.pending \subseteq Txs \X (1..MaxHeight)
        /\ found.txs \cup found.seen \cup found.evicted \subseteq txCache \cup wallet.txs
    BY <2>1 DEF ScanType, Founds
  <2>5. stage \in Range(Stages) /\ {quiet, mixed} \subseteq BOOLEAN
    BY <2>1 DEF CallType
  <2> QED
    BY <2>1, <2>2, <2>3, <2>4, <2>5 DEF TypeOK, ServerType, ResultType
<1> QED
  BY <1>1, Invariant, PTL

\* Whatever the server does between the requests of a call, its chain update
\* keeps each checkpoint of the wallet, or has another block at its height and
\* shares only lower ones with the wallet (fetch_tip_and_latest_blocks,
\* chain_update).
THEOREM UpdatesConnect == Spec => []UpdateConnects
<1>1. IInv => UpdateConnects
  <2> SUFFICES ASSUME IInv, stage = "Done", prev # {}, NEW p \in prev
               PROVE  \/ p \in update
                      \/ /\ At(update, p[1]) # {}
                         /\ \A h \in {b[1] : b \in prev \cap update} : p[1] > h
    BY Zenon DEF UpdateConnects
  <2>1. \/ p \in update
        \/ At(update, p[1]) # {} /\ \A q \in prev \cap update : q[1] < p[1]
    BY Zenon DEF IInv, TipInv, Connects
  <2> QED
    BY <2>1
<1> QED
  BY <1>1, Invariant, PTL

-----------------------------------------------------------------------------
(* The chains of the wallet and of a call, compared with the best chain.    *)

\* The blocks a call or the wallet may use were mined by events of the past.
Known ==
  Chain \cup wallet.chain \cup tip.latest \cup tip.blocks \cup update \cup stale
    \cup {m[2] : m \in mined}

PastInv == Known \subseteq Blocks /\ \A b \in Known : b[2] <= events

CallInv ==
  /\ prev = IF stage = "Idle" THEN {} ELSE wallet.chain
  /\ tip.at \in {"GetTip", "Suffix"} => tip.latest = {}
  /\ stage \notin {"Idle", "Update", "Done"} => anchors = {}

\* None of the first blocks that is on the best chain has one of the second
\* below it that is not, blocks of cached anchors aside.
Under(above, below) ==
  \A b \in above \cap Chain : \A c \in below \ (Chain \cup stale) : ~ (c[1] < b[1])

\* What is asked for in a call fits the chain it will return.
ForkInv ==
  /\ Under(wallet.chain, wallet.chain)
  /\ stage = "Tip" => Under(prev \cup tip.latest, tip.latest)
  /\ stage \notin {"Idle", "Tip"} => Under(tip.blocks, tip.blocks \cup tip.latest)
  /\ stage \in {"Anchors", "Update"} => Under(tip.blocks, seen)
  /\ stage = "Done" => Under(update, update)

StaleInv ==
  /\ stale \cap Chain = {}
  /\ stage = "Tip" => tip.latest \cap stale = {}
  /\ stage = "Anchors" => Chain \subseteq seen
  /\ stage = "Update" => {a[2] : a \in anchors} \subseteq seen \cup stale

\* The chain that a quiet call will return.
OnChain == Block(Height) \in tip.blocks /\ (~mixed => tip.blocks \subseteq Chain \cup stale)

QuietInv ==
  /\ tip.latest \subseteq Chain
  /\ stage = "Tip" /\ tip.at # "GetTip" => Top(prev) <= Height
  /\ stage = "Tip" /\ tip.at = "Suffix" => tip.height = Height
  /\ stage = "Tip" /\ tip.at = "Walk" => Block(Height) \in tip.latest
  /\ stage # "Tip" /\ prev # {} /\ Top(prev) <= Height => OnChain
  /\ stage \in {"Anchors", "Update"} => seen \subseteq Chain

ChainInv ==
  /\ PastInv /\ CallInv /\ StaleInv
  /\ ~mixed => ForkInv
  /\ quiet /\ stage # "Idle" => QuietInv
  /\ QuietUpdateOnChain /\ AnchorsInChain

-----------------------------------------------------------------------------
(* The best chain.                                                          *)

\* The blocks of the best chain have different heights, up to the tip.
LEMMA ChainType ==
  ASSUME ServerType
  PROVE  /\ Height \in Nat /\ IsChain(Chain)
         /\ \A b \in Chain : b[1] \in 0 .. Height /\ b = Block(b[1])
         /\ Block(Height) \in Chain /\ Block(Height)[1] = Height
<1>1. Height \in Nat
  BY DEF ServerType, Height
<1>2. IsChain(Chain)
  BY ChainParts DEF Chain
<1>3. ASSUME NEW b \in Chain
      PROVE  b[1] \in 0 .. Height /\ b = Block(b[1])
  <2>1. PICK h \in 0 .. Height : b = Block(h)
    BY DEF Chain
  <2> QED
    BY <2>1, BlockType
<1>4. Height \in 0 .. Height
  BY <1>1
<1>5. Block(Height) \in Chain /\ Block(Height)[1] = Height
  BY <1>4, BlockType DEF Chain
<1> QED
  BY <1>1, <1>2, <1>3, <1>5

LEMMA SameChain ==
  ASSUME UNCHANGED server
  PROVE  /\ Chain' = Chain /\ Height' = Height /\ Block(Height)' = Block(Height)
         /\ UNCHANGED <<chain, mined, events>>
BY DEF server, Chain, Height, Block

\* A block of the past that is on the best chain after a change of the server
\* was on it before, and so was all that is below it.
LEMMA ChainStep ==
  ASSUME ServerType, ServerEvent, \A b \in Chain : b[2] <= events
  PROVE  /\ \A b \in Chain' : b[2] <= events'
         /\ \A b \in Chain' : b[2] <= events =>
              b \in Chain /\ \A c \in Chain : c[1] < b[1] => c \in Chain'
         /\ \A m \in mined' : m \in mined \/ m[2][2] = events'
         /\ events' = events + 1
<1>1. events \in Nat /\ Height \in Nat /\ events' = events + 1
  BY Bounds DEF ServerType, Height, ServerEvent, NewBlocks, MempoolChange
<1>2. CASE NewBlocks
  <2>1. PICK h \in 1..(Height + 1), n \in 0..MaxHeight :
          /\ chain' = SubSeq(chain, 1, h - 1) \o [i \in 1..n |-> events + 1]
          /\ mined' = mined \cup {<<t, <<place'[t], events + 1>>>> :
                                    t \in {u \in Txs : place'[u] >= h}}
    BY <1>2, Zenon DEF NewBlocks
  <2>2. /\ Len(chain') = h + n - 1
        /\ \A k \in 1 .. (h - 1) : chain'[k] = chain[k]
        /\ \A k \in h .. (h + n - 1) : chain'[k] = events + 1
    <3>1. events < MaxEvents
      BY <1>2 DEF NewBlocks
    <3> QED
      BY <2>1, <3>1, NewChain, Zenon
  <2>3. h \in Nat \ {0} /\ n \in Nat /\ h - 1 <= Height
    BY <1>1, Bounds
  <2>4. Height' = h + n - 1
    BY <2>2 DEF Height
  <2>5. ASSUME NEW b \in Chain'
        PROVE  \/ /\ b[2] = events + 1
               \/ /\ b \in Chain /\ b[1] < h
    <3>1. PICK k \in 0 .. Height' : b = Block(k)'
      BY DEF Chain
    <3>2. CASE k = 0
      <4>1. b = Block(0) /\ 0 \in 0 .. Height
        BY <1>1, <3>1, <3>2 DEF Block
      <4>2. b[1] = 0
        BY <4>1 DEF Block
      <4> QED
        BY <2>3, <4>1, <4>2 DEF Chain
    <3>3. CASE k \in 1 .. (h - 1)
      <4>1. b = <<k, chain[k]>> /\ k # 0
        BY <2>2, <3>1, <3>3 DEF Block
      <4>2. b = Block(k) /\ k \in 0 .. Height
        BY <1>1, <2>3, <3>3, <4>1 DEF Block
      <4> QED
        BY <2>3, <3>3, <4>1, <4>2 DEF Chain
    <3>4. CASE k \in h .. (h + n - 1)
      <4>1. b = <<k, events + 1>>
        BY <2>2, <2>3, <3>1, <3>4 DEF Block
      <4> QED
        BY <4>1
    <3> QED
      BY <2>3, <2>4, <3>2, <3>3, <3>4
  <2>6. ASSUME NEW c \in Chain, c[1] < h
        PROVE  c \in Chain'
    <3>1. c[1] \in 0 .. Height /\ c = Block(c[1])
      BY ChainType
    <3> DEFINE k == c[1]
    <3>2. k \in 0 .. (h - 1) /\ k \in 0 .. Height'
      BY <2>3, <2>4, <2>6, <3>1
    <3>3. c = Block(k)
      BY <3>1
    <3> HIDE DEF k
    <3>4. c = IF k = 0 THEN <<0, 0>> ELSE <<k, chain'[k]>>
      BY <2>2, <3>2, <3>3 DEF Block
    <3> QED
      BY <3>2, <3>4 DEF Chain, Block
  <2>7. ASSUME NEW b \in Chain', b[2] <= events
        PROVE  b \in Chain /\ \A c \in Chain : c[1] < b[1] => c \in Chain'
    <3>1. b \in Chain /\ b[1] < h
      BY <1>1, <2>5, <2>7
    <3>2. \A c \in Chain : c[1] \in Int
      BY ChainType
    <3>3. ASSUME NEW c \in Chain, c[1] < b[1]
          PROVE  c \in Chain'
      <4>1. c[1] < h
        BY <2>3, <3>1, <3>2, <3>3
      <4> QED
        BY <2>6, <4>1
    <3> QED
      BY <3>1, <3>3
  <2>8. \A b \in Chain' : b[2] <= events'
    <3> TAKE b \in Chain'
    <3>1. CASE b[2] = events + 1
      BY <1>1, <3>1
    <3>2. CASE b \in Chain
      <4>1. b[2] <= events /\ b[2] \in Int
        BY <3>2, Bounds, ChainType DEF IsChain, Blocks
      <4> QED
        BY <1>1, <4>1
    <3> QED
      BY <2>5, <3>1, <3>2
  <2>9. \A m \in mined' : m \in mined \/ m[2][2] = events'
    BY <1>1, <2>1
  <2> QED
    BY <1>1, <2>7, <2>8, <2>9
<1>3. CASE MempoolChange
  <2>1. UNCHANGED <<chain, mined>>
    BY <1>3 DEF MempoolChange
  <2>2. Chain' = Chain
    BY <2>1 DEF Chain, Block, Height
  <2>3. \A b \in Chain : b[2] \in Int
    BY Bounds, ChainType DEF IsChain, Blocks
  <2>4. \A b \in Chain : b[2] <= events'
    BY <1>1, <2>3
  <2> QED
    BY <1>1, <2>1, <2>2, <2>4
<1> QED
  BY <1>2, <1>3 DEF ServerEvent

\* The greatest height of a set of blocks.
LEMMA TopType ==
  ASSUME NEW blocks \in SUBSET Blocks, blocks # {}
  PROVE  /\ Top(blocks) \in Nat /\ \E b \in blocks : b[1] = Top(blocks)
         /\ \A b \in blocks : b[1] <= Top(blocks)
<1> DEFINE T == {b[1] : b \in blocks}
<1>1. T \in SUBSET (0 .. MaxHeight) /\ T # {}
  BY DEF Blocks
<1>2. Top(blocks) = Max(T)
  BY Zenon DEF Top
<1>3. \A b \in blocks : b[1] \in T
  OBVIOUS
<1>4. \A m \in T : \E b \in blocks : b[1] = m
  OBVIOUS
<1> HIDE DEF T
<1>5. Max(T) \in T /\ \A m \in T : m <= Max(T)
  BY <1>1, Greatest, Bounds
<1>6. Top(blocks) \in T /\ \A m \in T : m <= Top(blocks)
  BY <1>2, <1>5
<1> DEFINE top == Top(blocks)
<1>7. top \in T /\ \A m \in T : m <= top
  BY <1>6
<1> HIDE DEF top
<1>8. top \in Nat
  BY <1>1, <1>7
<1>9. \E b \in blocks : b[1] = top
  BY <1>4, <1>7, Zenon
<1>10. \A b \in blocks : b[1] <= top
  BY <1>3, <1>7, Zenon
<1> QED
  BY <1>8, <1>9, <1>10, Zenon DEF top

-----------------------------------------------------------------------------
(* The steps preserve the invariant of the chains.                          *)

\* The stages between the tip and the anchors.
Middle == {"Spks", "Txids", "TxidHistories", "Outpoints", "OutpointHistories", "PrevTxouts"}

LEMMA MiddleChains ==
  ASSUME ChainInv, stage \in Middle, stage' \in Middle, quiet' => quiet,
         UNCHANGED <<server, tipVars, wallet, update, anchors, seen, stale, mixed>>
  PROVE  ChainInv'
<1>1. /\ Chain' = Chain /\ Height' = Height /\ Block(Height)' = Block(Height)
      /\ UNCHANGED <<chain, mined, events>>
  BY SameChain
<1>2. /\ UNCHANGED <<prev, tip, wallet, update, anchors, seen, stale, mixed>>
      /\ stage \notin {"Idle", "Tip", "Anchors", "Update", "Done"}
      /\ stage' \notin {"Idle", "Tip", "Anchors", "Update", "Done"}
  BY DEF tipVars, Middle
<1>3. PastInv'
  <2>1. Known' = Known
    BY <1>1, <1>2 DEF Known
  <2> QED
    BY <1>1, <2>1 DEF ChainInv, PastInv
<1>4. CallInv'
  BY <1>2 DEF ChainInv, CallInv
<1>5. StaleInv'
  BY <1>1, <1>2 DEF ChainInv, StaleInv
<1>6. ~mixed' => ForkInv'
  BY <1>1, <1>2 DEF ChainInv, ForkInv, Under
<1>7. quiet' => QuietInv'
  BY <1>1, <1>2 DEF ChainInv, QuietInv, OnChain
<1>8. QuietUpdateOnChain' /\ AnchorsInChain'
  BY <1>2 DEF QuietUpdateOnChain, AnchorsInChain, Synced
<1> QED
  BY <1>3, <1>4, <1>5, <1>6, <1>7, <1>8 DEF ChainInv

\* A call begins with the wallet's chain.
LEMMA BeginsChains ==
  ASSUME ChainInv, NEW req, NEW lists, NEW gap, NEW expected, Begins(req, lists, gap, expected)
  PROVE  ChainInv'
<1>1. /\ stage = "Idle" /\ stage' = IF wallet.chain = {} THEN "Spks" ELSE "Tip"
      /\ prev' = wallet.chain /\ tip' = NewTip
      /\ anchors' = {} /\ update' = {} /\ seen' = {}
      /\ UNCHANGED <<server, wallet, stale, mixed>>
  BY Zenon DEF Begins, Goes
<1>2. /\ Chain' = Chain /\ Height' = Height /\ Block(Height)' = Block(Height)
      /\ UNCHANGED <<chain, mined, events>>
  BY <1>1, SameChain
<1>3. tip'.at = "GetTip" /\ tip'.latest = {} /\ tip'.blocks = {}
  BY <1>1 DEF NewTip
<1>4. PastInv'
  <2>1. Known' \subseteq Known
    BY <1>1, <1>2, <1>3 DEF Known
  <2> QED
    BY <1>2, <2>1 DEF ChainInv, PastInv
<1>5. CallInv'
  BY <1>1, <1>3 DEF CallInv
<1>6. StaleInv'
  BY <1>1, <1>2, <1>3 DEF ChainInv, StaleInv
<1>7. ~mixed' => ForkInv'
  BY <1>1, <1>2, <1>3 DEF ChainInv, ForkInv, Under
<1>8. QuietInv'
  BY <1>1, <1>3 DEF QuietInv
<1>9. QuietUpdateOnChain' /\ AnchorsInChain'
  BY <1>1 DEF QuietUpdateOnChain, AnchorsInChain, Synced
<1> QED
  BY <1>4, <1>5, <1>6, <1>7, <1>8, <1>9 DEF ChainInv

\* What a request of fetch_tip_and_latest_blocks leaves alone.
LEMMA FetchTipFrame ==
  ASSUME FetchTip
  PROVE  /\ stage = "Tip" /\ stage' = IF tip'.at = "Done" THEN "Spks" ELSE "Tip"
         /\ mixed' = (mixed \/ Joins(tip.latest, tip'.latest))
         /\ Chain' = Chain /\ Height' = Height /\ Block(Height)' = Block(Height)
         /\ UNCHANGED <<chain, mined, events, prev, wallet, anchors, update, quiet, seen, stale>>
<1>1. UNCHANGED server
  BY DEF FetchTip
<1>2. UNCHANGED prev
  BY DEF FetchTip, FetchTipAndLatestBlocks, GetTip, Suffix, Walk
<1> QED
  BY <1>1, <1>2, SameChain, Zenon DEF FetchTip, syncVars

LEMMA GetTipChains ==
  ASSUME TypeInv, TipInv, ChainInv, FetchTip, GetTip
  PROVE  ChainInv'
<1>1. /\ stage = "Tip" /\ stage' = IF tip'.at = "Done" THEN "Spks" ELSE "Tip"
      /\ mixed' = (mixed \/ Joins(tip.latest, tip'.latest))
      /\ Chain' = Chain /\ Height' = Height /\ Block(Height)' = Block(Height)
      /\ UNCHANGED <<chain, mined, events, prev, wallet, anchors, update, quiet, seen, stale>>
  BY FetchTipFrame
<1>2. tip.at = "GetTip" /\ tip.latest = {} /\ prev = wallet.chain
  BY <1>1 DEF GetTip, ChainInv, CallInv
<1>3. /\ prev \in SUBSET Blocks /\ prev # {} /\ Height \in Nat /\ tip \in Tips
  BY <1>1 DEF TypeInv, TipInv, TipType, IsChain, ServerType, Height
<1>4. Top(prev) \in Nat
  BY <1>3, TopType
<1>5. \/ /\ Height < Top(prev)
         /\ tip'.at = "Done" /\ tip'.blocks = prev /\ tip'.latest = {}
      \/ /\ Top(prev) <= Height
         /\ tip'.at = "Suffix" /\ tip'.height = Height /\ tip'.latest = {}
         /\ tip'.blocks = tip.blocks
  <2>1. CASE Height < Top(prev)
    <3>1. tip' = [tip EXCEPT !.at = "Done", !.blocks = prev]
      BY <2>1 DEF GetTip
    <3> QED
      BY <1>2, <1>3, <2>1, <3>1 DEF Tips
  <2>2. CASE ~ (Height < Top(prev))
    <3>1. tip' = [tip EXCEPT !.at = "Suffix", !.height = Height]
      BY <2>2 DEF GetTip
    <3> QED
      BY <1>2, <1>3, <1>4, <2>2, <3>1 DEF Tips
  <2> QED
    BY <2>1, <2>2
<1>6. PastInv'
  <2>1. Known' \subseteq Known
    BY <1>1, <1>2, <1>5 DEF Known
  <2> QED
    BY <1>1, <2>1 DEF ChainInv, PastInv
<1>7. CallInv'
  BY <1>1, <1>5 DEF ChainInv, CallInv
<1>8. StaleInv'
  BY <1>1, <1>5 DEF ChainInv, StaleInv
<1>9. ~mixed' => ForkInv'
  BY <1>1, <1>2, <1>5 DEF ChainInv, ForkInv, Under
<1>10. QuietInv'
  BY <1>1, <1>3, <1>4, <1>5 DEF QuietInv
<1>11. QuietUpdateOnChain' /\ AnchorsInChain'
  BY <1>1 DEF QuietUpdateOnChain, AnchorsInChain, Synced
<1> QED
  BY <1>6, <1>7, <1>8, <1>9, <1>10, <1>11 DEF ChainInv

\* The last headers are all of one chain.
LEMMA SuffixChains ==
  ASSUME TypeInv, TipInv, ChainInv, FetchTip, Suffix
  PROVE  ChainInv'
<1>1. /\ stage = "Tip" /\ stage' = IF tip'.at = "Done" THEN "Spks" ELSE "Tip"
      /\ mixed' = (mixed \/ Joins(tip.latest, tip'.latest))
      /\ Chain' = Chain /\ Height' = Height /\ Block(Height)' = Block(Height)
      /\ UNCHANGED <<chain, mined, events, prev, wallet, anchors, update, quiet, seen, stale>>
  BY FetchTipFrame
<1> DEFINE start == IF tip.height < SuffixLength THEN 0 ELSE tip.height - SuffixLength + 1
           T == {k \in 0..Height : k >= start /\ k < start + SuffixLength}
           new == {Block(h) : h \in T}
<1>2. tip.at = "Suffix" /\ tip' = [tip EXCEPT !.at = "Walk", !.left = prev, !.latest = new]
  BY Zenon DEF Suffix
<1>3. tip \in Tips /\ Height \in Nat /\ SuffixLength \in Nat \ {0}
  BY SuffixAssumption DEF TypeInv, TipType, ServerType, Height
<1>4. new \subseteq Chain
  BY DEF Chain
<1>5. tip.height = Height => Block(Height) \in new
  <2> SUFFICES ASSUME tip.height = Height
               PROVE  Height \in T
    OBVIOUS
  <2>1. Height >= start /\ Height < start + SuffixLength /\ Height \in 0 .. Height
    BY <1>3
  <2> QED
    BY <2>1
<1> HIDE DEF T, start, new
<1>6. tip'.at = "Walk" /\ tip'.latest = new /\ tip'.blocks = tip.blocks
  BY <1>2, <1>3 DEF Tips
<1>7. stage' = "Tip"
  BY <1>1, <1>6
<1>8. PastInv'
  <2>1. Known' \subseteq Known
    BY <1>1, <1>4, <1>6 DEF Known
  <2> QED
    BY <1>1, <2>1 DEF ChainInv, PastInv
<1>9. CallInv'
  BY <1>1, <1>6, <1>7 DEF ChainInv, CallInv
<1>10. StaleInv'
  BY <1>1, <1>4, <1>6, <1>7 DEF ChainInv, StaleInv
<1>11. ~mixed' => ForkInv'
  BY <1>1, <1>4, <1>6, <1>7 DEF ChainInv, ForkInv, Under
<1>12. quiet' => QuietInv'
  BY <1>1, <1>2, <1>4, <1>5, <1>6, <1>7 DEF ChainInv, QuietInv
<1>13. QuietUpdateOnChain' /\ AnchorsInChain'
  BY <1>7 DEF QuietUpdateOnChain, AnchorsInChain, Synced
<1> QED
  BY <1>8, <1>9, <1>10, <1>11, <1>12, <1>13 DEF ChainInv

\* What a step of the walk does to the latest blocks and the chain to return.
LEMMA WalkResult ==
  ASSUME ServerType, TipType, Descended, Walk
  PROVE  /\ At(tip.latest, NextLeft[1]) # {} \/ NextLeft[1] <= Height
         /\ IsChain(NextLatest) /\ tip'.latest = NextLatest
         /\ \/ /\ NextBlock = NextLeft /\ tip'.at = "Done"
               /\ tip'.blocks = Connected(NextLeft[1], NextLatest)
            \/ /\ tip'.at = "Done" /\ tip'.blocks = NextLatest
            \/ /\ tip'.at = "Walk" /\ tip'.blocks = tip.blocks
<1> DEFINE Done(agreement) == [tip EXCEPT !.at = "Done", !.latest = NextLatest,
                                          !.blocks = Connected(agreement, NextLatest)]
<1>1. /\ tip.at = "Walk"
      /\ At(tip.latest, NextLeft[1]) # {} \/ NextLeft[1] <= Height
      /\ tip' = IF NextBlock = NextLeft THEN Done(NextLeft[1])
                ELSE IF tip.left = {NextLeft} THEN Done(-1)
                ELSE [tip EXCEPT !.latest = NextLatest, !.left = @ \ {NextLeft}]
  BY Zenon DEF Walk, NextLeft, NextBlock, NextLatest
<1>2. IsChain(NextLatest)
  BY <1>1, NextBlockType DEF Descended
<1>3. tip \in Tips
  BY DEF TipType
<1>4. Connected(-1, NextLatest) = NextLatest
  <2> DEFINE new == {p \in prev : p[1] <= -1} \cup {b \in NextLatest : b[1] > -1}
  <2>1. prev \subseteq Blocks /\ NextLatest \subseteq Blocks
    BY <1>2, Zenon DEF TipType, IsChain
  <2>2. \A b \in Blocks : ~ (b[1] <= -1) /\ b[1] > -1
    BY DEF Blocks
  <2>3. new = NextLatest
    BY <2>1, <2>2
  <2>4. NextLatest # {}
    BY Zenon DEF NextLatest
  <2> QED
    BY <2>3, <2>4, Zenon DEF Connected
<1>5. ASSUME NEW agreement, tip' = Done(agreement)
      PROVE  tip'.at = "Done" /\ tip'.latest = NextLatest
             /\ tip'.blocks = Connected(agreement, NextLatest)
  <2> DEFINE blocks == Connected(agreement, NextLatest)
  <2>1. tip' = [tip EXCEPT !.at = "Done", !.latest = NextLatest, !.blocks = blocks]
    BY <1>5, Zenon
  <2> HIDE DEF blocks
  <2>2. tip'.at = "Done" /\ tip'.latest = NextLatest /\ tip'.blocks = blocks
    BY <1>3, <2>1 DEF Tips
  <2> QED
    BY <2>2 DEF blocks
<1>6. CASE NextBlock = NextLeft
  BY <1>1, <1>2, <1>5, <1>6, Zenon
<1>7. CASE NextBlock # NextLeft /\ tip.left = {NextLeft}
  BY <1>1, <1>2, <1>4, <1>5, <1>7, Zenon
<1>8. CASE NextBlock # NextLeft /\ tip.left # {NextLeft}
  <2>1. tip' = [tip EXCEPT !.latest = NextLatest, !.left = tip.left \ {NextLeft}]
    BY <1>1, <1>8, Zenon
  <2>2. tip'.at = "Walk" /\ tip'.latest = NextLatest /\ tip'.blocks = tip.blocks
    BY <1>1, <1>3, <2>1 DEF Tips
  <2> QED
    BY <1>1, <1>2, <2>2
<1> QED
  BY <1>6, <1>7, <1>8

\* A header that is asked for on the walk is of the best chain of that moment.
LEMMA NextBlockOnChain ==
  ASSUME ServerType, TipType, tip.left # {},
         At(tip.latest, NextLeft[1]) # {} \/ NextLeft[1] <= Height
  PROVE  NextBlock \in tip.latest \cup Chain /\ NextBlock[1] = NextLeft[1]
<1>1. NextLeft \in Blocks
  BY NextLeftIsTop
<1>2. CASE At(tip.latest, NextLeft[1]) # {}
  <2>1. NextBlock \in At(tip.latest, NextLeft[1])
    BY <1>2, Zenon DEF NextBlock
  <2> QED
    BY <2>1, Zenon DEF At
<1>3. CASE At(tip.latest, NextLeft[1]) = {}
  <2>1. NextBlock = Block(NextLeft[1])
    BY <1>3, Zenon DEF NextBlock
  <2>2. NextLeft[1] \in 0 .. Height
    <3>1. NextLeft[1] \in Nat /\ NextLeft[1] <= Height /\ Height \in Nat
      BY <1>1, <1>3 DEF Blocks, ServerType, Height
    <3> QED
      BY <3>1
  <2> QED
    BY <2>1, <2>2, BlockType DEF Chain
<1> QED
  BY <1>2, <1>3

\* The wallet's chain up to a checkpoint that agrees fits the latest blocks.
LEMMA AgreementUnder ==
  ASSUME TipType, Descended, IsChain(NextLatest), NextBlock = NextLeft,
         Under(prev, prev), Under(prev \cup NextLatest, NextLatest), NextLatest \cap stale = {}
  PROVE  LET blocks == Connected(NextLeft[1], NextLatest) IN
         Under(blocks, blocks \cup NextLatest)
<1> DEFINE cp == NextLeft
           new == {p \in prev : p[1] <= cp[1]} \cup {b \in NextLatest : b[1] > cp[1]}
<1>1. cp \in prev /\ cp \in Blocks /\ cp \in NextLatest
  BY NextLeftIsTop DEF Descended, NextLatest
<1>2. \A b \in prev \cup NextLatest : b[1] \in Nat
  BY DEF TipType, IsChain, Blocks
<1>3. new # {} /\ Connected(cp[1], NextLatest) = new
  <2>1. cp \in new
    BY <1>1, <1>2
  <2> QED
    BY <2>1, Zenon DEF Connected
<1>4. ASSUME NEW b \in new \cap Chain, NEW c \in (new \cup NextLatest) \ (Chain \cup stale),
             c[1] < b[1]
      PROVE  FALSE
  <2>1. CASE c \in NextLatest
    <3>1. b \in (prev \cup NextLatest) \cap Chain /\ c \in NextLatest \ (Chain \cup stale)
      BY <1>4, <2>1
    <3> QED
      BY <1>4, <3>1, Zenon DEF Under
  <2>2. CASE c \notin NextLatest
    <3>1. c \in prev \ (Chain \cup stale) /\ c[1] <= cp[1] /\ c # cp
      BY <1>1, <1>4, <2>2
    <3>2. CASE b \in prev
      BY <1>4, <3>1, <3>2, Zenon DEF Under
    <3>3. CASE b \notin prev
      <4>1. b \in NextLatest /\ cp[1] < b[1]
        BY <1>1, <1>2, <1>4, <3>3
      <4>2. CASE cp \in Chain
        <5>1. c[1] # cp[1]
          BY <1>1, <3>1, Zenon DEF TipType, IsChain
        <5>2. c[1] < cp[1]
          BY <1>1, <1>2, <3>1, <5>1
        <5> QED
          BY <1>1, <3>1, <4>2, <5>2, Zenon DEF Under
      <4>3. CASE cp \notin Chain
        <5>1. cp \in NextLatest \ (Chain \cup stale) /\ b \in (prev \cup NextLatest) \cap Chain
          BY <1>1, <1>4, <4>1, <4>3
        <5> QED
          BY <4>1, <5>1, Zenon DEF Under
      <4> QED
        BY <4>2, <4>3
    <3> QED
      BY <3>2, <3>3
  <2> QED
    BY <2>1, <2>2
<1> HIDE DEF new
<1>5. Under(new, new \cup NextLatest)
  BY <1>4, Zenon DEF Under
<1> QED
  BY <1>3, <1>5, Zenon

\* If the server did not change, it is on the best chain and has its tip.
LEMMA AgreementOnChain ==
  ASSUME ServerType, TipType, Descended, IsChain(NextLatest), NextBlock = NextLeft,
         NextLatest \subseteq Chain, Block(Height) \in NextLatest, Top(prev) <= Height
  PROVE  LET blocks == Connected(NextLeft[1], NextLatest) IN
         /\ Block(Height) \in blocks
         /\ Under(prev, prev) => blocks \subseteq Chain \cup stale
<1> DEFINE cp == NextLeft
           new == {p \in prev : p[1] <= cp[1]} \cup {b \in NextLatest : b[1] > cp[1]}
<1>1. cp \in prev /\ cp \in Blocks /\ cp \in NextLatest
  BY NextLeftIsTop DEF Descended, NextLatest
<1>2. \A b \in prev \cup NextLatest : b[1] \in Nat
  BY DEF TipType, IsChain, Blocks
<1>3. cp \in new /\ Connected(cp[1], NextLatest) = new
  <2>1. cp \in new
    BY <1>1, <1>2
  <2> QED
    BY <2>1, Zenon DEF Connected
<1>4. Height \in Nat /\ Block(Height)[1] = Height
  BY ChainType
<1>5. cp[1] <= Height
  <2>1. prev \in SUBSET Blocks /\ prev # {}
    BY <1>1 DEF TipType, IsChain
  <2>2. Top(prev) \in Nat /\ cp[1] <= Top(prev)
    BY <1>1, <2>1, TopType
  <2>3. cp[1] \in Nat
    BY <1>1, <1>2
  <2> QED
    BY <1>4, <2>2, <2>3
<1>6. Block(Height) \in new
  <2>1. CASE cp[1] = Height
    <3>1. cp = Block(Height)
      BY <1>1, <1>4, <2>1, Zenon DEF IsChain
    <3> QED
      BY <1>3, <3>1, Zenon
  <2>2. CASE cp[1] # Height
    <3> DEFINE last == Block(Height)
    <3>1. last \in NextLatest /\ last[1] = Height
      BY <1>4
    <3> HIDE DEF last
    <3>2. last[1] > cp[1]
      BY <1>1, <1>2, <1>4, <1>5, <2>2, <3>1
    <3>3. last \in new
      BY <3>1, <3>2
    <3> QED
      BY <3>3 DEF last
  <2> QED
    BY <2>1, <2>2
<1>7. ASSUME Under(prev, prev), NEW p \in new
      PROVE  p \in Chain \cup stale
  <2>1. CASE p \in NextLatest
    BY <2>1
  <2>2. CASE p \notin NextLatest
    <3>1. p \in prev /\ p[1] <= cp[1] /\ p # cp
      BY <1>1, <1>7, <2>2
    <3>2. p[1] # cp[1]
      BY <1>1, <3>1, Zenon DEF TipType, IsChain
    <3>3. p[1] < cp[1]
      BY <1>1, <1>2, <3>1, <3>2
    <3>4. cp \in prev \cap Chain
      BY <1>1
    <3> QED
      BY <1>7, <3>1, <3>3, <3>4, Zenon DEF Under
  <2> QED
    BY <2>1, <2>2
<1> HIDE DEF new
<1> QED
  BY <1>3, <1>6, <1>7, Zenon

\* A step of the walk.
LEMMA WalkChains ==
  ASSUME TypeInv, TipInv, ChainInv, FetchTip, Walk
  PROVE  ChainInv'
<1>1. /\ stage = "Tip" /\ stage' = IF tip'.at = "Done" THEN "Spks" ELSE "Tip"
      /\ mixed' = (mixed \/ Joins(tip.latest, tip'.latest))
      /\ Chain' = Chain /\ Height' = Height /\ Block(Height)' = Block(Height)
      /\ UNCHANGED <<chain, mined, events, prev, wallet, anchors, update, quiet, seen, stale>>
  BY FetchTipFrame
<1>2. tip.at = "Walk" /\ Descended /\ ServerType /\ TipType
  BY <1>1 DEF Walk, TypeInv, TipInv
<1>3. /\ At(tip.latest, NextLeft[1]) # {} \/ NextLeft[1] <= Height
      /\ IsChain(NextLatest) /\ tip'.latest = NextLatest
      /\ \/ /\ NextBlock = NextLeft /\ tip'.at = "Done"
            /\ tip'.blocks = Connected(NextLeft[1], NextLatest)
         \/ /\ tip'.at = "Done" /\ tip'.blocks = NextLatest
         \/ /\ tip'.at = "Walk" /\ tip'.blocks = tip.blocks
  BY <1>2, WalkResult
<1>4. NextBlock \in tip.latest \cup Chain
  BY <1>2, <1>3, NextBlockOnChain DEF Descended
<1>5. NextLatest \subseteq tip.latest \cup Chain /\ tip.latest \subseteq NextLatest
  BY <1>4 DEF NextLatest
<1>6. prev = wallet.chain /\ tip.latest \cap stale = {} /\ stale \cap Chain = {}
  BY <1>1 DEF ChainInv, CallInv, StaleInv
<1>7. NextLatest \cap stale = {}
  BY <1>5, <1>6
<1>8. ASSUME ~ mixed'
      PROVE  Under(prev, prev) /\ Under(prev \cup NextLatest, NextLatest)
  <2>1. ~ mixed /\ ~ Joins(tip.latest, NextLatest)
    BY <1>1, <1>3, <1>8
  <2>2. Under(prev, prev) /\ Under(prev \cup tip.latest, tip.latest)
    BY <1>1, <1>6, <2>1 DEF ChainInv, ForkInv
  <2>3. ASSUME NEW b \in (prev \cup NextLatest) \cap Chain, NEW c \in NextLatest \ (Chain \cup stale),
               c[1] < b[1]
        PROVE  FALSE
    <3>1. c \in tip.latest \ (Chain \cup stale)
      BY <1>5
    <3>2. CASE b \in prev \cup tip.latest
      <4>1. b \in (prev \cup tip.latest) \cap Chain
        BY <3>2
      <4> QED
        BY <2>2, <2>3, <3>1, <4>1, Zenon DEF Under
    <3>3. CASE b \notin prev \cup tip.latest
      <4>1. b \in (NextLatest \ tip.latest) \cap Chain
        BY <3>3
      <4> QED
        BY <2>1, <2>3, <4>1, Zenon DEF Joins
    <3> QED
      BY <3>2, <3>3
  <2>4. Under(prev \cup NextLatest, NextLatest)
    BY <2>3, Zenon DEF Under
  <2> QED
    BY <2>2, <2>4
<1>9. ASSUME quiet
      PROVE  NextLatest \subseteq Chain /\ Block(Height) \in NextLatest /\ Top(prev) <= Height
  <2>1. /\ tip.latest \subseteq Chain /\ Block(Height) \in tip.latest /\ Top(prev) <= Height
    BY <1>1, <1>2, <1>9 DEF ChainInv, QuietInv
  <2> QED
    BY <1>5, <2>1
<1>10. PastInv'
  <2>1. tip'.blocks \subseteq prev \cup NextLatest \cup tip.blocks
    BY <1>3 DEF Connected
  <2>2. Known' \subseteq Known
    BY <1>1, <1>3, <1>5, <1>6, <2>1 DEF Known
  <2> QED
    BY <1>1, <2>2 DEF ChainInv, PastInv
<1>11. CallInv'
  <2>1. prev' = wallet'.chain /\ tip'.at \notin {"GetTip", "Suffix"} /\ anchors' = {}
    BY <1>1, <1>3, <1>6 DEF ChainInv, CallInv
  <2> QED
    BY <1>1, <2>1 DEF CallInv
<1>12. StaleInv'
  BY <1>1, <1>3, <1>6, <1>7 DEF StaleInv
<1>13. ASSUME ~ mixed'
       PROVE  ForkInv'
  <2>1. Under(wallet.chain, wallet.chain)' /\ Under(prev \cup tip.latest, tip.latest)'
    BY <1>1, <1>3, <1>6, <1>8, <1>13 DEF Under
  <2>2. ASSUME tip'.at = "Done"
        PROVE  Under(tip.blocks, tip.blocks \cup tip.latest)'
    <3>1. Under(tip'.blocks, tip'.blocks \cup NextLatest)
      <4>1. CASE NextBlock = NextLeft /\ tip'.blocks = Connected(NextLeft[1], NextLatest)
        BY <1>2, <1>3, <1>7, <1>8, <1>13, <4>1, AgreementUnder
      <4>2. CASE tip'.blocks = NextLatest
        BY <1>8, <1>13, <4>2 DEF Under
      <4> QED
        BY <1>3, <2>2, <4>1, <4>2
    <3> QED
      BY <1>1, <1>3, <3>1 DEF Under
  <2> QED
    BY <1>1, <2>1, <2>2 DEF ForkInv
<1>14. ASSUME quiet'
       PROVE  QuietInv'
  <2>1. NextLatest \subseteq Chain /\ Block(Height) \in NextLatest /\ Top(prev) <= Height
    BY <1>1, <1>9, <1>14
  <2>2. ASSUME tip'.at = "Done"
        PROVE  OnChain'
    <3>1. Block(Height) \in tip'.blocks /\ (~ mixed' => tip'.blocks \subseteq Chain \cup stale)
      <4>1. CASE NextBlock = NextLeft /\ tip'.blocks = Connected(NextLeft[1], NextLatest)
        BY <1>2, <1>3, <1>8, <2>1, <4>1, AgreementOnChain
      <4>2. CASE tip'.blocks = NextLatest
        BY <2>1, <4>2
      <4> QED
        BY <1>3, <2>2, <4>1, <4>2
    <3> QED
      BY <1>1, <3>1 DEF OnChain
  <2> QED
    BY <1>1, <1>3, <2>1, <2>2 DEF QuietInv
<1>15. QuietUpdateOnChain' /\ AnchorsInChain'
  BY <1>1 DEF QuietUpdateOnChain, AnchorsInChain, Synced
<1> QED
  BY <1>10, <1>11, <1>12, <1>13, <1>14, <1>15 DEF ChainInv

\* The headers of the anchors are fetched from here on.
LEMMA PrevTxoutsChains ==
  ASSUME ChainInv, PrevTxouts
  PROVE  ChainInv'
<1>1. /\ stage = "PrevTxouts" /\ stage' \in {"Update", "Anchors"} /\ seen' = Chain
      /\ UNCHANGED <<server, prev, tip, wallet, anchors, update, quiet, stale, mixed>>
  BY DEF PrevTxouts, Goes, tipVars, syncVars
<1>2. /\ Chain' = Chain /\ Height' = Height /\ Block(Height)' = Block(Height)
      /\ UNCHANGED <<chain, mined, events>>
  BY <1>1, SameChain
<1>3. PastInv'
  <2>1. Known' = Known
    BY <1>1, <1>2 DEF Known
  <2> QED
    BY <1>2, <2>1 DEF ChainInv, PastInv
<1>4. CallInv' /\ anchors' = {}
  BY <1>1 DEF ChainInv, CallInv
<1>5. StaleInv'
  BY <1>1, <1>2, <1>4 DEF ChainInv, StaleInv
<1>6. ~mixed' => ForkInv'
  BY <1>1, <1>2 DEF ChainInv, ForkInv, Under
<1>7. quiet' => QuietInv'
  BY <1>1, <1>2 DEF ChainInv, QuietInv, OnChain
<1>8. QuietUpdateOnChain' /\ AnchorsInChain'
  BY <1>1 DEF QuietUpdateOnChain, AnchorsInChain, Synced
<1> QED
  BY <1>3, <1>4, <1>5, <1>6, <1>7, <1>8 DEF ChainInv

\* An anchor is of a block on the best chain since, or of a stale one.
LEMMA FetchAnchorsChains ==
  ASSUME TypeInv, ChainInv, FetchAnchors
  PROVE  ChainInv'
<1>1. /\ stage = "Anchors" /\ stage' = "Update"
      /\ UNCHANGED <<server, prev, tip, wallet, update, quiet, seen, mixed>>
  BY DEF FetchAnchors, Goes, tipVars
<1>2. PICK as \in SUBSET (Provable \cup Cached) :
        anchors' = as /\ stale' = stale \cup ({a[2] : a \in as} \ seen)
  BY Zenon DEF FetchAnchors
<1>3. /\ Chain' = Chain /\ Height' = Height /\ Block(Height)' = Block(Height)
      /\ UNCHANGED <<chain, mined, events>>
  BY <1>1, SameChain
<1>4. stale \subseteq stale' /\ {a[2] : a \in anchors'} \subseteq seen' \cup stale'
  BY <1>1, <1>2
<1>5. PastInv'
  <2>1. as \subseteq mined
    BY DEF Provable, Cached, TypeInv, ResultType
  <2>2. {a[2] : a \in as} \subseteq {m[2] : m \in mined}
    BY <2>1
  <2>3. stale' \subseteq stale \cup {m[2] : m \in mined}
    BY <1>2, <2>2
  <2>4. Known' \subseteq Known
    BY <1>1, <1>3, <2>3 DEF Known
  <2> QED
    BY <1>3, <2>4 DEF ChainInv, PastInv
<1>6. CallInv'
  BY <1>1 DEF ChainInv, CallInv
<1>7. StaleInv'
  <2>1. stale \cap Chain = {} /\ Chain \subseteq seen
    BY <1>1 DEF ChainInv, StaleInv
  <2>2. stale' \cap Chain = {}
    BY <1>2, <2>1
  <2> QED
    BY <1>1, <1>3, <1>4, <2>2 DEF StaleInv
<1>8. ASSUME ~ mixed'
      PROVE  ForkInv'
  <2>1. ForkInv
    BY <1>1, <1>8 DEF ChainInv
  <2>2. /\ Under(wallet.chain, wallet.chain) /\ Under(tip.blocks, tip.blocks \cup tip.latest)
        /\ Under(tip.blocks, seen)
    BY <1>1, <2>1 DEF ForkInv
  <2>3. /\ Under(wallet.chain, wallet.chain)' /\ Under(tip.blocks, tip.blocks \cup tip.latest)'
        /\ Under(tip.blocks, seen)'
    BY <1>1, <1>3, <1>4, <2>2 DEF Under
  <2> QED
    BY <1>1, <2>3 DEF ForkInv
<1>9. quiet' => QuietInv'
  BY <1>1, <1>3, <1>4 DEF ChainInv, QuietInv, OnChain
<1>10. QuietUpdateOnChain' /\ AnchorsInChain'
  BY <1>1 DEF QuietUpdateOnChain, AnchorsInChain, Synced
<1> QED
  BY <1>5, <1>6, <1>7, <1>8, <1>9, <1>10 DEF ChainInv

\* chain_update() keeps the chain, takes what it adds from the latest blocks and
\* the anchors, and leaves none of their heights out.
LEMMA ChainUpdateBlocks ==
  ASSUME TipType, NEW anchored \in SUBSET Blocks, NEW new \in ChainUpdates(anchored)
  PROVE  /\ tip.blocks \subseteq new /\ new \subseteq tip.blocks \cup tip.latest \cup anchored
         /\ \A b \in anchored : b[1] <= Top(tip.blocks) => \E c \in new : c[1] = b[1]
<1> DEFINE missing == {h \in {b[1] : b \in anchored} : h <= Top(tip.blocks) /\ At(tip.blocks, h) = {}}
           Added(f, k) == IF At(tip.latest, k) # {} THEN At(tip.latest, k) ELSE {f[k]}
<1>1. PICK p \in [missing -> anchored] :
        /\ \A h \in missing : p[h][1] = h
        /\ new = tip.blocks \cup UNION {Added(p, h) : h \in missing}
  BY Zenon DEF ChainUpdates
<1>2. \A b \in anchored : b[1] <= Top(tip.blocks) => b[1] \in missing \/ At(tip.blocks, b[1]) # {}
  OBVIOUS
<1> HIDE DEF missing
<1>3. ASSUME NEW h \in missing
      PROVE  /\ Added(p, h) \subseteq tip.latest \cup anchored
             /\ \E c \in Added(p, h) : c[1] = h
  <2>1. CASE At(tip.latest, h) # {}
    BY <2>1 DEF At
  <2>2. CASE At(tip.latest, h) = {}
    BY <1>1, <2>2
  <2> QED
    BY <2>1, <2>2
<1> HIDE DEF Added
<1>4. tip.blocks \subseteq new /\ new \subseteq tip.blocks \cup tip.latest \cup anchored
  BY <1>1, <1>3
<1>5. ASSUME NEW b \in anchored, b[1] <= Top(tip.blocks)
      PROVE  \E c \in new : c[1] = b[1]
  <2>1. CASE b[1] \in missing
    <3>1. PICK c \in Added(p, b[1]) : c[1] = b[1]
      BY <1>3, <2>1, Zenon
    <3>2. c \in new
      BY <1>1, <2>1
    <3> QED
      BY <3>1, <3>2
  <2>2. CASE At(tip.blocks, b[1]) # {}
    <3>1. PICK c \in tip.blocks : c[1] = b[1]
      BY <2>2, Zenon DEF At
    <3> QED
      BY <1>4, <3>1
  <2> QED
    BY <1>2, <1>5, <2>1, <2>2
<1> QED
  BY <1>4, <1>5

\* The chain update of a quiet call.
LEMMA QuietUpdate ==
  ASSUME TypeInv, NEW anchored \in SUBSET Blocks, NEW new \in ChainUpdates(anchored),
         Block(Height) \in tip.blocks, tip.blocks \subseteq Chain \cup stale,
         tip.latest \subseteq Chain, anchored \subseteq Chain \cup stale
  PROVE  /\ Block(Height) \in new /\ new \subseteq Chain \cup stale
         /\ \A b \in anchored : b \in new \/ At(stale, b[1]) # {}
<1>1. ServerType /\ TipType
  BY DEF TypeInv
<1>2. /\ tip.blocks \subseteq new /\ new \subseteq tip.blocks \cup tip.latest \cup anchored
      /\ \A b \in anchored : b[1] <= Top(tip.blocks) => \E c \in new : c[1] = b[1]
  BY <1>1, ChainUpdateBlocks
<1>3. Block(Height) \in new /\ new \subseteq Chain \cup stale
  BY <1>2
<1>4. Height \in Nat /\ Block(Height)[1] = Height /\ IsChain(Chain)
      /\ \A b \in Chain : b[1] \in 0 .. Height
  BY <1>1, ChainType
<1>5. Top(tip.blocks) \in Nat /\ Height <= Top(tip.blocks)
  <2>1. tip.blocks \in SUBSET Blocks /\ tip.blocks # {}
    BY <1>1 DEF TipType, IsChain
  <2>2. Top(tip.blocks) \in Nat /\ Block(Height)[1] <= Top(tip.blocks)
    BY <2>1, TopType
  <2> QED
    BY <1>4, <2>2
<1>6. ASSUME NEW b \in anchored, At(stale, b[1]) = {}
      PROVE  b \in new
  <2>1. b \in Chain
    BY <1>6, Zenon DEF At
  <2>2. b[1] <= Top(tip.blocks)
    BY <1>4, <1>5, <2>1
  <2>3. PICK c \in new : c[1] = b[1]
    BY <1>2, <2>2
  <2>4. c \in Chain
    BY <1>3, <1>6, <2>3, Zenon DEF At
  <2>5. c = b
    BY <1>4, <2>1, <2>3, <2>4, Zenon DEF IsChain
  <2> QED
    BY <2>3, <2>5
<1> QED
  BY <1>3, <1>6

LEMMA FinishChains ==
  ASSUME TypeInv, ChainInv, Finish
  PROVE  ChainInv'
<1> DEFINE anchored == {a[2] : a \in anchors}
<1>1. /\ stage = "Update" /\ stage' = "Done"
      /\ mixed' = (mixed \/ Joins(tip.blocks, update'))
      /\ UNCHANGED <<server, prev, tip, wallet, anchors, quiet, seen, stale>>
  BY DEF Finish, Goes, tipVars
<1>2. IF prev = {} THEN update' = {} ELSE update' \in ChainUpdates(anchored)
  BY Zenon DEF Finish
<1>3. /\ Chain' = Chain /\ Height' = Height /\ Block(Height)' = Block(Height)
      /\ UNCHANGED <<chain, mined, events>>
  BY <1>1, SameChain
<1>4. anchors \subseteq mined /\ anchored \in SUBSET Blocks
  BY DEF TypeInv, ResultType, ServerType
<1>5. update' \subseteq tip.blocks \cup tip.latest \cup anchored
  <2> HIDE DEF anchored
  <2>1. CASE prev = {}
    BY <1>2, <2>1
  <2>2. CASE prev # {}
    <3>1. update' \in ChainUpdates(anchored) /\ TipType
      BY <1>2, <2>2 DEF TypeInv
    <3> QED
      BY <1>4, <3>1, ChainUpdateBlocks
  <2> QED
    BY <2>1, <2>2
<1>6. anchored \subseteq seen \cup stale
  BY <1>1 DEF ChainInv, StaleInv
<1>7. PastInv'
  <2>1. anchored \subseteq {m[2] : m \in mined}
    BY <1>4
  <2> HIDE DEF anchored
  <2>2. Known' \subseteq Known
    BY <1>1, <1>3, <1>5, <2>1 DEF Known
  <2> QED
    BY <1>3, <2>2 DEF ChainInv, PastInv
<1>8. CallInv'
  BY <1>1 DEF ChainInv, CallInv
<1>9. StaleInv'
  BY <1>1, <1>3 DEF ChainInv, StaleInv
<1> HIDE DEF anchored
<1>10. ASSUME ~ mixed'
       PROVE  ForkInv'
  <2>1. ~ mixed /\ ~ Joins(tip.blocks, update')
    BY <1>1, <1>10
  <2>2. /\ Under(wallet.chain, wallet.chain) /\ Under(tip.blocks, tip.blocks \cup tip.latest)
        /\ Under(tip.blocks, seen)
    BY <1>1, <2>1 DEF ChainInv, ForkInv
  <2>3. ASSUME NEW b \in update' \cap Chain, NEW c \in update' \ (Chain \cup stale), c[1] < b[1]
        PROVE  FALSE
    <3>1. CASE b \in tip.blocks
      <4>1. b \in tip.blocks \cap Chain
        BY <3>1
      <4>2. CASE c \in tip.blocks \cup tip.latest
        <5>1. c \in (tip.blocks \cup tip.latest) \ (Chain \cup stale)
          BY <4>2
        <5> QED
          BY <2>2, <2>3, <4>1, <5>1, Zenon DEF Under
      <4>3. CASE c \in anchored
        <5>1. c \in seen \ (Chain \cup stale)
          BY <1>6, <4>3
        <5> QED
          BY <2>2, <2>3, <4>1, <5>1, Zenon DEF Under
      <4> QED
        BY <1>5, <4>2, <4>3
    <3>2. CASE b \notin tip.blocks
      <4>1. b \in (update' \ tip.blocks) \cap Chain
        BY <3>2
      <4> QED
        BY <2>1, <2>3, <4>1, Zenon DEF Joins
    <3> QED
      BY <3>1, <3>2
  <2>4. Under(wallet.chain, wallet.chain)' /\ Under(tip.blocks, tip.blocks \cup tip.latest)'
    BY <1>1, <1>3, <2>2 DEF Under
  <2>5. Under(update, update)'
    BY <1>1, <1>3, <2>3 DEF Under
  <2> QED
    BY <1>1, <2>4, <2>5 DEF ForkInv
<1>11. quiet' => QuietInv'
  <2>1. ASSUME ~ mixed', OnChain
        PROVE  OnChain'
    BY <1>1, <1>3, <2>1 DEF OnChain
  <2>2. ASSUME quiet
        PROVE  QuietInv
    BY <1>1, <2>2 DEF ChainInv
  <2>3. OnChain => OnChain'
    BY <1>1, <1>3 DEF OnChain
  <2> QED
    BY <1>1, <1>3, <2>2, <2>3 DEF QuietInv
<1>12. ASSUME quiet', ~ mixed', prev' # {}, Top(prev') <= Height'
       PROVE  /\ Block(Height) \in update' /\ update' \subseteq Chain \cup stale
              /\ \A b \in anchored : b \in update' \/ At(stale, b[1]) # {}
  <2>1. QuietInv /\ ~ mixed
    BY <1>1, <1>12 DEF ChainInv
  <2>2. OnChain /\ tip.latest \subseteq Chain /\ seen \subseteq Chain
    BY <1>1, <1>3, <1>12, <2>1 DEF QuietInv
  <2>3. anchored \subseteq Chain \cup stale
    BY <1>6, <2>2
  <2>4. update' \in ChainUpdates(anchored)
    BY <1>1, <1>2, <1>12
  <2> QED
    BY <1>4, <2>1, <2>2, <2>3, <2>4, QuietUpdate DEF OnChain
<1>13. QuietUpdateOnChain'
  <2>1. quiet' /\ ~ mixed' /\ prev' # {} /\ Top(prev') <= Height' =>
          Block(Height)' \in update' /\ update' \ stale' \subseteq Chain'
    BY <1>1, <1>3, <1>12
  <2> QED
    BY <2>1, Zenon DEF QuietUpdateOnChain, Synced
<1>14. AnchorsInChain'
  <2>1. ASSUME quiet', ~ mixed', prev' # {}, Top(prev') <= Height', NEW a \in anchors'
        PROVE  a[2] \in update' \/ At(stale', a[2][1]) # {}
    <3>1. a[2] \in anchored
      BY <1>1 DEF anchored
    <3>2. a[2] \in update' \/ At(stale, a[2][1]) # {}
      BY <1>12, <2>1, <3>1
    <3> QED
      BY <1>1, <3>2
  <2> QED
    BY <2>1, Zenon DEF AnchorsInChain, Synced
<1> QED
  BY <1>7, <1>8, <1>9, <1>10, <1>11, <1>13, <1>14 DEF ChainInv

\* The wallet takes the update, and nothing is left of the call.
LEMMA EndChains ==
  ASSUME ChainInv, Applied \/ Fails
  PROVE  ChainInv'
<1>1. /\ stage' = "Idle" /\ prev' = {} /\ tip' = NewTip
      /\ UNCHANGED <<server, stale, mixed>>
  BY Zenon DEF Applied, Fails, Goes
<1>2. wallet'.chain = wallet.chain \/ (stage = "Done" /\ wallet'.chain = update)
  <2>1. CASE Applied
    BY <2>1 DEF Applied, Goes
  <2>2. CASE Fails
    BY <2>2, Zenon DEF Fails
  <2> QED
    BY <2>1, <2>2
<1>3. update' = {} \/ update' = update
  BY Zenon DEF Applied, Fails
<1>4. /\ Chain' = Chain /\ Height' = Height /\ Block(Height)' = Block(Height)
      /\ UNCHANGED <<chain, mined, events>>
  BY <1>1, SameChain
<1>5. tip'.at = "GetTip" /\ tip'.latest = {} /\ tip'.blocks = {}
  BY <1>1 DEF NewTip
<1>6. PastInv'
  <2>1. Known' \subseteq Known
    BY <1>1, <1>2, <1>3, <1>4, <1>5 DEF Known
  <2> QED
    BY <1>4, <2>1 DEF ChainInv, PastInv
<1>7. CallInv'
  BY <1>1, <1>5 DEF CallInv
<1>8. StaleInv'
  BY <1>1, <1>4 DEF ChainInv, StaleInv
<1>9. ASSUME ~ mixed'
      PROVE  ForkInv'
  <2>1. ForkInv
    BY <1>1, <1>9 DEF ChainInv
  <2>2. Under(wallet'.chain, wallet'.chain)
    BY <1>2, <2>1 DEF ForkInv
  <2>3. Under(wallet.chain, wallet.chain)'
    BY <1>1, <1>4, <2>2 DEF Under
  <2> QED
    BY <1>1, <2>3 DEF ForkInv
<1>10. QuietUpdateOnChain' /\ AnchorsInChain'
  BY <1>1 DEF QuietUpdateOnChain, AnchorsInChain, Synced
<1> QED
  BY <1>1, <1>6, <1>7, <1>8, <1>9, <1>10 DEF ChainInv

\* The server changes between two steps.
LEMMA ChangesChains ==
  ASSUME TypeInv, ChainInv, Changes
  PROVE  ChainInv'
<1>1. /\ ServerEvent /\ quiet' = (quiet /\ stage = "Idle")
      /\ seen' = IF stage = "Anchors" THEN seen \cup {<<h, chain'[h]>> : h \in DOMAIN chain'} ELSE seen
      /\ UNCHANGED <<prev, tip, stage, wallet, anchors, update, stale, mixed>>
  BY DEF Changes, tipVars, syncVars
<1>2. ServerType /\ ServerType'
  BY <1>1, ServerStep DEF TypeInv
<1>3. Known \subseteq Blocks /\ \A b \in Known : b[2] <= events
  BY DEF ChainInv, PastInv
<1>4. Chain \subseteq Known
  BY DEF Known
<1>5. /\ \A b \in Chain' : b[2] <= events'
      /\ \A b \in Chain' : b[2] <= events =>
           b \in Chain /\ \A c \in Chain : c[1] < b[1] => c \in Chain'
      /\ \A m \in mined' : m \in mined \/ m[2][2] = events'
      /\ events' = events + 1
  <2>1. \A b \in Chain : b[2] <= events
    BY <1>3, <1>4
  <2> QED
    BY <1>1, <1>2, <2>1, ChainStep
<1>6. PastInv'
  <2>1. events \in Nat /\ events' = events + 1
    BY <1>2, <1>5, Bounds DEF ServerType
  <2>2. \A b \in Known : b[2] <= events'
    <3> TAKE b \in Known
    <3>1. b[2] \in Int /\ b[2] <= events
      BY <1>3, Bounds DEF Blocks
    <3> QED
      BY <2>1, <3>1
  <2>3. \A m \in mined' : m[2] \in Known \/ (m[2] \in Blocks /\ m[2][2] <= events')
    <3> TAKE m \in mined'
    <3>1. CASE m \in mined
      BY <3>1 DEF Known
    <3>2. CASE m[2][2] = events'
      <4>1. m[2] \in Blocks
        BY <1>2 DEF ServerType
      <4> QED
        BY <2>1, <3>2, <4>1
    <3> QED
      BY <1>5, <3>1, <3>2
  <2>4. \A b \in Chain' : b \in Blocks /\ b[2] <= events'
    <3> TAKE b \in Chain'
    <3>1. PICK h \in 0 .. Height' : b = Block(h)'
      BY DEF Chain
    <3>2. CASE h = 0
      BY <1>5, <3>1, <3>2, Bounds DEF Block, Blocks
    <3>3. CASE h # 0
      <4>1. Height' \in Nat /\ Height' = Len(chain') /\ Height' <= MaxHeight
            /\ chain' \in Seq(0..MaxEvents)
        BY <1>2 DEF ServerType, Height
      <4>2. b = <<h, chain'[h]>> /\ h \in 1 .. Len(chain')
        BY <3>1, <3>3, <4>1 DEF Block
      <4>3. chain'[h] \in 0 .. MaxEvents
        BY <4>1, <4>2, MemberOfSeq
      <4>4. h \in 0 .. MaxHeight /\ chain'[h] \in -1 .. MaxEvents
        BY <4>1, <4>2, <4>3, Bounds
      <4> QED
        BY <1>5, <4>2, <4>4 DEF Blocks
    <3> QED
      BY <3>2, <3>3
  <2>5. ASSUME NEW b \in Known'
        PROVE  b \in Blocks /\ b[2] <= events'
    <3>1. b \in Known \/ b \in Chain' \/ \E m \in mined' : b = m[2]
      BY <1>1 DEF Known
    <3> QED
      BY <1>3, <2>2, <2>3, <2>4, <3>1
  <2> QED
    BY <2>5 DEF PastInv
<1>7. CallInv'
  BY <1>1 DEF ChainInv, CallInv
<1>8. ASSUME NEW above \in SUBSET Known, NEW below, Under(above, below)
      PROVE  \A b \in above \cap Chain' : \A c \in below \ (Chain' \cup stale) : ~ (c[1] < b[1])
  <2> SUFFICES ASSUME NEW b \in above \cap Chain', NEW c \in below \ (Chain' \cup stale), c[1] < b[1]
               PROVE  FALSE
    OBVIOUS
  <2>1. b \in Chain /\ \A d \in Chain : d[1] < b[1] => d \in Chain'
    BY <1>3, <1>5
  <2>2. c \notin Chain
    BY <2>1
  <2> QED
    BY <1>8, <2>1, <2>2, Zenon DEF Under
<1>9. StaleInv'
  <2>1. stale \cap Chain = {}
    BY DEF ChainInv, StaleInv
  <2>2. stale \cap Chain' = {}
    <3>1. stale \subseteq Known
      BY DEF Known
    <3> QED
      BY <1>3, <1>5, <2>1, <3>1
  <2>3. ASSUME stage = "Anchors", NEW b \in Chain'
        PROVE  b \in seen'
    <3>1. PICK h \in 0 .. Height' : b = Block(h)'
      BY DEF Chain
    <3>2. CASE h = 0
      <4>1. b = Block(0) /\ 0 \in 0 .. Height
        BY <1>2, <3>1, <3>2 DEF Block, ServerType, Height
      <4>2. b \in Chain
        BY <4>1 DEF Chain
      <4> QED
        BY <1>1, <2>3, <4>2 DEF ChainInv, StaleInv
    <3>3. CASE h # 0
      <4>1. h \in DOMAIN chain' /\ b = <<h, chain'[h]>>
        BY <1>2, <3>1, <3>3 DEF Block, ServerType, Height
      <4> QED
        BY <1>1, <2>3, <4>1
    <3> QED
      BY <3>2, <3>3
  <2>4. seen \subseteq seen'
    BY <1>1
  <2> QED
    BY <1>1, <2>2, <2>3, <2>4 DEF ChainInv, StaleInv
<1>10. ASSUME ~ mixed'
       PROVE  ForkInv'
  <2>1. ForkInv
    BY <1>1, <1>10 DEF ChainInv
  <2>2. /\ wallet.chain \in SUBSET Known /\ tip.blocks \in SUBSET Known
        /\ update \in SUBSET Known /\ tip.latest \in SUBSET Known
    BY DEF Known
  <2>3. Under(wallet.chain, wallet.chain)'
    BY <1>1, <1>8, <2>1, <2>2 DEF ForkInv, Under
  <2>4. stage = "Tip" => Under(prev \cup tip.latest, tip.latest)'
    <3> SUFFICES ASSUME stage = "Tip"
                 PROVE  Under(prev \cup tip.latest, tip.latest)'
      OBVIOUS
    <3> DEFINE both == prev \cup tip.latest
    <3>1. Under(both, tip.latest)
      BY <2>1 DEF ForkInv
    <3>2. both \in SUBSET Known
      BY <2>2 DEF ChainInv, CallInv
    <3> HIDE DEF both
    <3>3. \A b \in both \cap Chain' : \A c \in tip.latest \ (Chain' \cup stale) : ~ (c[1] < b[1])
      BY <1>8, <3>1, <3>2
    <3> QED
      BY <1>1, <3>3 DEF Under, both
  <2>5. stage \notin {"Idle", "Tip"} => Under(tip.blocks, tip.blocks \cup tip.latest)'
    BY <1>1, <1>8, <2>1, <2>2 DEF ForkInv, Under
  <2>6. stage \in {"Anchors", "Update"} => Under(tip.blocks, seen)'
    <3> SUFFICES ASSUME stage \in {"Anchors", "Update"}
                 PROVE  Under(tip.blocks, seen)'
      OBVIOUS
    <3>1. \A b \in tip.blocks \cap Chain' : \A c \in seen \ (Chain' \cup stale) : ~ (c[1] < b[1])
      BY <1>8, <2>1, <2>2 DEF ForkInv
    <3>2. \A c \in seen' \ Chain' : c \in seen
      <4>1. \A h \in DOMAIN chain' : <<h, chain'[h]>> \in Chain'
        <5> TAKE h \in DOMAIN chain'
        <5>1. h # 0 /\ h \in 0 .. Height'
          BY <1>2 DEF ServerType, Height
        <5>2. <<h, chain'[h]>> = Block(h)'
          BY <5>1 DEF Block
        <5> QED
          BY <5>1, <5>2 DEF Chain
      <4> QED
        BY <1>1, <4>1
    <3> QED
      BY <1>1, <3>1, <3>2 DEF Under
  <2>7. stage = "Done" => Under(update, update)'
    BY <1>1, <1>8, <2>1, <2>2 DEF ForkInv, Under
  <2> QED
    BY <1>1, <2>3, <2>4, <2>5, <2>6, <2>7 DEF ForkInv
<1>11. QuietUpdateOnChain' /\ AnchorsInChain'
  BY <1>1 DEF QuietUpdateOnChain, AnchorsInChain, Synced
<1>12. ~ (quiet' /\ stage' # "Idle")
  BY <1>1
<1> QED
  BY <1>6, <1>7, <1>9, <1>10, <1>11, <1>12 DEF ChainInv

\* The wallet's first checkpoints are of the server's chain or of a fork of it.
LEMMA InitChains ==
  ASSUME Init, TypeInv
  PROVE  ChainInv
<1>1. /\ stage = "Idle" /\ prev = {} /\ tip = NewTip
      /\ wallet.chain \in Wallets /\ update = {} /\ anchors = {} /\ stale = {} /\ seen = {}
  BY Zenon DEF Init
<1>2. tip.at = "GetTip" /\ tip.latest = {} /\ tip.blocks = {}
  BY <1>1 DEF NewTip
<1>3. /\ events = 0 /\ chain = [i \in 1..(MaxHeight - 1) |-> 0]
      /\ mined = {<<t, <<place[t], 0>>>> : t \in {u \in Txs : place[u] > 0}}
  BY DEF Init, ServerInit
<1>4. ServerType /\ mined \subseteq Txs \X Blocks /\ wallet.chain \subseteq Blocks
  BY DEF TypeInv, ServerType, ResultType, IsChain
<1>5. Height = MaxHeight - 1 /\ Height \in Nat
  BY <1>3, Bounds DEF Height
<1>6. \A h \in 0 .. Height : Block(h) = <<h, 0>>
  BY <1>3, <1>5 DEF Block
<1>7. \A b \in Chain : b[2] = 0
  BY <1>6 DEF Chain
<1>8. PastInv
  <2>1. Chain \subseteq Blocks
    BY <1>4, ChainType DEF IsChain
  <2>2. \A b \in wallet.chain : b[2] <= 0
    BY <1>1, WalletsAssumption
  <2>3. \A m \in mined : m[2] \in Blocks /\ m[2][2] = 0
    BY <1>3, <1>4
  <2>4. ASSUME NEW b \in Known
        PROVE  b \in Blocks /\ b[2] <= 0
    <3>1. b \in Chain \/ b \in wallet.chain \/ \E m \in mined : b = m[2]
      BY <1>1, <1>2 DEF Known
    <3> QED
      BY <1>4, <1>7, <2>1, <2>2, <2>3, <3>1
  <2> QED
    BY <1>3, <2>4 DEF PastInv
<1>9. CallInv /\ StaleInv
  BY <1>1, <1>2 DEF CallInv, StaleInv
<1>10. Under(wallet.chain, wallet.chain)
  <2> SUFFICES ASSUME NEW b \in wallet.chain \cap Chain, NEW c \in wallet.chain, c[1] < b[1]
               PROVE  c \in Chain
    BY Zenon DEF Under
  <2>1. b[1] \in 0 .. Height /\ b[2] = 0
    BY <1>4, <1>7, ChainType
  <2>2. c[2] = 0
    BY <1>1, <2>1, WalletsAssumption
  <2>3. c \in Blocks
    BY <1>4
  <2>4. c = <<c[1], 0>> /\ c[1] \in Nat
    BY <2>2, <2>3 DEF Blocks
  <2>5. c[1] \in 0 .. Height
    BY <1>5, <2>1, <2>4
  <2> QED
    BY <1>6, <2>4, <2>5 DEF Chain
<1>11. ForkInv
  BY <1>1, <1>10 DEF ForkInv
<1>12. QuietUpdateOnChain /\ AnchorsInChain
  BY <1>1 DEF QuietUpdateOnChain, AnchorsInChain, Synced
<1> QED
  BY <1>1, <1>8, <1>9, <1>11, <1>12 DEF ChainInv

LEMMA NextChains ==
  ASSUME IInv, ChainInv, [Next]_vars
  PROVE  ChainInv'
<1>1. TypeInv /\ TipInv
  BY DEF IInv
<1>2. CASE FullScan \/ PollSync
  BY <1>2, BeginsChains, Zenon DEF FullScan, PollSync
<1>3. CASE FetchTip
  BY <1>1, <1>3, GetTipChains, SuffixChains, WalkChains DEF FetchTip, FetchTipAndLatestBlocks
<1>4. CASE ScanSpks
  <2>1. stage \in Middle /\ stage' \in Middle
    BY <1>4 DEF ScanSpks, Middle
  <2> QED
    BY <1>4, <2>1, MiddleChains DEF ScanSpks, syncVars, history
<1>5. CASE Txids \/ OutpointHistories
  <2>1. stage \in Middle /\ stage' \in Middle
    BY <1>5 DEF Txids, OutpointHistories, Goes, Middle
  <2> QED
    BY <1>5, <2>1, MiddleChains DEF Txids, OutpointHistories, syncVars, history
<1>6. CASE Outpoints
  <2>1. /\ stage = "Outpoints" /\ stage' = "OutpointHistories" /\ (quiet' => quiet)
        /\ UNCHANGED <<server, tipVars, wallet, update, anchors, seen, stale, mixed>>
    BY <1>6 DEF Outpoints, Goes, syncVars
  <2> QED
    BY <2>1, MiddleChains DEF Middle
<1>7. CASE PrevTxouts
  BY <1>7, PrevTxoutsChains
<1>8. CASE FetchAnchors
  BY <1>1, <1>8, FetchAnchorsChains
<1>9. CASE Finish
  BY <1>1, <1>9, FinishChains
<1>10. CASE Applied \/ Fails
  BY <1>10, EndChains
<1>11. CASE Changes
  BY <1>1, <1>11, ChangesChains
<1>12. CASE UNCHANGED vars
  <2>1. UNCHANGED <<server, prev, tip, stage, wallet, anchors, update, quiet, seen, stale, mixed>>
    BY <1>12 DEF vars, tipVars, syncVars, history
  <2>2. /\ Chain' = Chain /\ Height' = Height /\ Block(Height)' = Block(Height)
        /\ UNCHANGED <<chain, mined, events>>
    BY <2>1, SameChain
  <2>3. PastInv' /\ CallInv' /\ StaleInv'
    <3>1. Known' = Known
      BY <2>1, <2>2 DEF Known
    <3> QED
      BY <2>1, <2>2, <3>1 DEF ChainInv, PastInv, CallInv, StaleInv
  <2>4. ~mixed' => ForkInv'
    BY <2>1, <2>2 DEF ChainInv, ForkInv, Under
  <2>5. quiet' /\ stage' # "Idle" => QuietInv'
    BY <2>1, <2>2 DEF ChainInv, QuietInv, OnChain
  <2>6. QuietUpdateOnChain' /\ AnchorsInChain'
    BY <2>1, <2>2 DEF ChainInv, QuietUpdateOnChain, AnchorsInChain, Synced
  <2> QED
    BY <2>3, <2>4, <2>5, <2>6 DEF ChainInv
<1> QED
  BY <1>2, <1>3, <1>4, <1>5, <1>6, <1>7, <1>8, <1>9, <1>10, <1>11, <1>12, Zenon
     DEF Next, SyncStep

\* What the checkpoints of the wallet and the blocks of a call have to do with
\* the best chain, in every reachable state.
THEOREM ChainInvariant == Spec => []ChainInv
<1>1. Init => ChainInv
  BY InitIInv, InitChains DEF IInv
<1>2. IInv /\ ChainInv /\ [Next]_vars => ChainInv'
  BY NextChains
<1> QED
  BY <1>1, <1>2, Invariant, PTL DEF Spec

\* A call during which nothing changed, of a server that is not behind the
\* wallet, brings the wallet to the server's tip and leaves no block that is not
\* on its best chain, whatever raced with the calls before it, unless one of
\* them joined two chains (fetch_tip_and_latest_blocks, chain_update).
THEOREM QuietUpdatesOnChain == Spec => []QuietUpdateOnChain
BY ChainInvariant, PTL DEF ChainInv

\* It then has the block of each anchor, or a stale one at its height.
THEOREM AnchorsAreInChain == Spec => []AnchorsInChain
BY ChainInvariant, PTL DEF ChainInv

=============================================================================
