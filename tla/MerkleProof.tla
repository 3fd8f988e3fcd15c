---------------------------- MODULE MerkleProof ----------------------------
(***************************************************************************)
(* Merkle inclusion proofs (bdk-tokio-electrum, util.rs) and the trees the *)
(* server makes them from (external).  A hash is the pair of what it is of, *)
(* so that no two differ in their arguments only; the double SHA-256 of    *)
(* the code is taken to be as good.                                        *)
(***************************************************************************)
EXTENDS Integers, SequencesExt

Hash(left, right) == <<left, right>>

\* Variant of Climb that does not halve the position.
ClimbAside(at, hash) ==
  [at EXCEPT !.cur = IF at.index % 2 = 0 THEN Hash(at.cur, hash) ELSE Hash(hash, at.cur)]

\* One round of the loop of validate_merkle_proof.
Climb(at, hash) ==
  [cur |-> IF at.index % 2 = 0 THEN Hash(at.cur, hash) ELSE Hash(hash, at.cur),
   index |-> at.index \div 2]

\* Its rounds, from the transaction up.
Rounds(txid, merkle, pos) ==
  LET at[k \in 0 .. Len(merkle)] ==
        IF k = 0 THEN [cur |-> txid, index |-> pos] ELSE Climb(at[k - 1], merkle[k])
  IN  at

\* validate_merkle_proof(): they end at the root.
ValidateMerkleProof(txid, root, merkle, pos) ==
  Rounds(txid, merkle, pos)[Len(merkle)].cur = root

-----------------------------------------------------------------------------
(* The server.  Position 0 is the first leaf; a row of odd length is hashed *)
(* with its last member twice.                                              *)

Sibling(row, pos) ==
  LET other == IF pos % 2 = 0 THEN pos + 1 ELSE pos - 1 IN
  IF other < Len(row) THEN row[other + 1] ELSE row[pos + 1]

RowAbove(row) ==
  [i \in 1 .. (Len(row) + 1) \div 2 |-> Hash(row[2 * i - 1], Sibling(row, 2 * i - 2))]

\* The rows of the tree, and the place in each that a leaf contributes to.
Levels(leaves, pos) ==
  LET level[k \in 0 .. Len(leaves)] ==
        IF k = 0 THEN [row |-> leaves, pos |-> pos]
        ELSE [row |-> RowAbove(level[k - 1].row), pos |-> level[k - 1].pos \div 2]
  IN  level

\* The first row of one hash holds the root.
Depth(leaves) ==
  CHOOSE k \in 0 .. Len(leaves) :
    /\ Len(Levels(leaves, 0)[k].row) = 1
    /\ \A j \in 0 .. k - 1 : Len(Levels(leaves, 0)[j].row) # 1

Root(leaves) == Levels(leaves, 0)[Depth(leaves)].row[1]

\* The siblings on the way up from a leaf.
Path(leaves, pos) ==
  [k \in 1 .. Depth(leaves) |->
    Sibling(Levels(leaves, pos)[k - 1].row, Levels(leaves, pos)[k - 1].pos)]

=============================================================================
