------------------------- MODULE MerkleProofProofs -------------------------
(***************************************************************************)
(* Theorems about MerkleProof, for trees of any size.  Both the loop of    *)
(* validate_merkle_proof and the tree are recursive, and what they compute *)
(* is proved by least counterexamples.                                     *)
(***************************************************************************)
EXTENDS MerkleProof, WellFoundedInduction, TLAPS

-----------------------------------------------------------------------------
(* Recursion over the naturals.                                             *)

\* A set of naturals has a least member.
LEMMA Least ==
  ASSUME NEW T \in SUBSET Nat, T # {}
  PROVE  \E n \in T : \A m \in T : n <= m
<1> DEFINE R == OpToRel(<, Nat)
<1>1. IsWellFoundedOn(R, Nat)
  BY NatLessThanWellFounded
<1>2. \A x, y \in Nat : <<x, y>> \in R <=> x < y
  BY DEF OpToRel
<1> HIDE DEF R
<1>3. PICK x \in T : \A y \in T : ~ (<<y, x>> \in R)
  BY <1>1, WFMin, Zenon
<1>4. \A y \in T : x <= y
  <2> TAKE y \in T
  <2>1. x \in Nat /\ y \in Nat
    OBVIOUS
  <2>2. ~ (y < x)
    BY <1>2, <1>3, <2>1, Zenon
  <2> QED
    BY <2>1, <2>2
<1> QED
  BY <1>4

\* What holds of 0 and of every number after one of which it holds, holds of
\* all of them.
LEMMA Induction ==
  ASSUME NEW n \in Nat, NEW T \in SUBSET (0 .. n), 0 \in T,
         \A k \in 1 .. n : k - 1 \in T => k \in T
  PROVE  T = 0 .. n
<1> SUFFICES ASSUME T # 0 .. n
             PROVE  FALSE
  OBVIOUS
<1> DEFINE Rest == (0 .. n) \ T
<1>1. Rest \in SUBSET Nat /\ Rest # {}
  <2>1. Rest # {}
    BY Zenon
  <2>2. 0 .. n \subseteq Nat
    OBVIOUS
  <2> QED
    BY <2>1, <2>2, Zenon
<1>2. PICK m \in Rest : \A k \in Rest : m <= k
  BY <1>1, Least, Zenon
<1>3. m \in 1 .. n /\ m - 1 \in 0 .. n
  BY <1>2
<1>4. m - 1 \notin Rest
  BY <1>2, <1>3
<1> QED
  BY <1>2, <1>3, <1>4

-----------------------------------------------------------------------------
(* The loop of validate_merkle_proof.                                       *)

\* The first n + 1 states of the loop.
IsRounds(f, n, txid, merkle, pos) ==
  f = [k \in 0 .. n |-> IF k = 0 THEN [cur |-> txid, index |-> pos]
                        ELSE Climb(f[k - 1], merkle[k])]

LEMMA RoundsExist ==
  ASSUME NEW n \in Nat, NEW txid, NEW merkle, NEW pos
  PROVE  \E f : IsRounds(f, n, txid, merkle, pos)
<1> DEFINE start == [cur |-> txid, index |-> pos]
           T == {k \in 0 .. n : \E f : IsRounds(f, k, txid, merkle, pos)}
<1>1. 0 \in T
  <2> DEFINE f == [k \in 0 .. 0 |-> start]
  <2>1. f = [k \in 0 .. 0 |-> IF k = 0 THEN start ELSE Climb(f[k - 1], merkle[k])]
    OBVIOUS
  <2>2. IsRounds(f, 0, txid, merkle, pos)
    BY <2>1, Zenon DEF IsRounds
  <2>3. 0 \in 0 .. n
    OBVIOUS
  <2> QED
    BY <2>2, <2>3, Zenon
<1>2. ASSUME NEW m \in 1 .. n, m - 1 \in T
      PROVE  m \in T
  <2>1. PICK g : IsRounds(g, m - 1, txid, merkle, pos)
    BY <1>2, Zenon
  <2> DEFINE f == [k \in 0 .. m |-> IF k = m THEN Climb(g[m - 1], merkle[m]) ELSE g[k]]
  <2>2. /\ DOMAIN f = 0 .. m /\ f[m] = Climb(g[m - 1], merkle[m])
        /\ \A k \in 0 .. (m - 1) : f[k] = g[k]
    OBVIOUS
  <2>3. \A k \in 0 .. (m - 1) : g[k] = IF k = 0 THEN start ELSE Climb(g[k - 1], merkle[k])
    BY <2>1 DEF IsRounds
  <2>4. \A k \in 0 .. m : f[k] = IF k = 0 THEN start ELSE Climb(f[k - 1], merkle[k])
    <3> HIDE DEF f, start
    <3> TAKE k \in 0 .. m
    <3>1. CASE k = 0
      BY <2>2, <2>3, <3>1
    <3>2. CASE k = m
      <4>1. m # 0 /\ m - 1 \in 0 .. (m - 1)
        OBVIOUS
      <4> QED
        BY <2>2, <3>2, <4>1
    <3>3. CASE k # 0 /\ k # m
      <4>1. k \in 0 .. (m - 1) /\ k - 1 \in 0 .. (m - 1)
        BY <3>3
      <4> QED
        BY <2>2, <2>3, <3>3, <4>1
    <3> QED
      BY <3>1, <3>2, <3>3
  <2>5. f = [k \in 0 .. m |-> f[k]]
    OBVIOUS
  <2> HIDE DEF f
  <2>6. f = [k \in 0 .. m |-> IF k = 0 THEN start ELSE Climb(f[k - 1], merkle[k])]
    BY <2>4, <2>5, Zenon
  <2>7. IsRounds(f, m, txid, merkle, pos)
    BY <2>6, Zenon DEF IsRounds
  <2>8. m \in 0 .. n
    OBVIOUS
  <2> QED
    BY <2>7, <2>8, Zenon
<1>3. T \in SUBSET (0 .. n)
  OBVIOUS
<1> HIDE DEF T
<1>4. T = 0 .. n
  BY <1>1, <1>2, <1>3, Induction, Zenon
<1>5. n \in T
  BY <1>4
<1> QED
  BY <1>5, Zenon DEF T

\* The states of the loop, one after the other.
LEMMA RoundsSteps ==
  ASSUME NEW txid, NEW merkle, NEW pos, Len(merkle) \in Nat
  PROVE  LET at == Rounds(txid, merkle, pos) IN
         /\ at[0] = [cur |-> txid, index |-> pos]
         /\ \A k \in 1 .. Len(merkle) : at[k] = Climb(at[k - 1], merkle[k])
<1> DEFINE n == Len(merkle)
           at == Rounds(txid, merkle, pos)
<1>1. \E f : IsRounds(f, n, txid, merkle, pos)
  BY RoundsExist, Zenon
<1>2. IsRounds(at, n, txid, merkle, pos)
  BY <1>1 DEF Rounds, IsRounds
<1> HIDE DEF at
<1>3. \A k \in 0 .. n : at[k] = IF k = 0 THEN [cur |-> txid, index |-> pos]
                                ELSE Climb(at[k - 1], merkle[k])
  BY <1>2, Zenon DEF IsRounds
<1>4. 0 \in 0 .. n /\ \A k \in 1 .. n : k \in 0 .. n /\ k # 0
  OBVIOUS
<1> QED
  BY <1>3, <1>4, Zenon DEF at

-----------------------------------------------------------------------------
(* The rows of the tree.                                                    *)

IsLevels(f, n, leaves, pos) ==
  f = [k \in 0 .. n |->
        IF k = 0 THEN [row |-> leaves, pos |-> pos]
        ELSE [row |-> RowAbove(f[k - 1].row), pos |-> f[k - 1].pos \div 2]]

LEMMA LevelsExist ==
  ASSUME NEW n \in Nat, NEW leaves, NEW pos
  PROVE  \E f : IsLevels(f, n, leaves, pos)
<1> DEFINE start == [row |-> leaves, pos |-> pos]
           T == {k \in 0 .. n : \E f : IsLevels(f, k, leaves, pos)}
<1>1. 0 \in T
  <2> DEFINE f == [k \in 0 .. 0 |-> start]
  <2>1. f = [k \in 0 .. 0 |->
              IF k = 0 THEN start
              ELSE [row |-> RowAbove(f[k - 1].row), pos |-> f[k - 1].pos \div 2]]
    OBVIOUS
  <2>2. IsLevels(f, 0, leaves, pos)
    BY <2>1, Zenon DEF IsLevels
  <2>3. 0 \in 0 .. n
    OBVIOUS
  <2> QED
    BY <2>2, <2>3, Zenon
<1>2. ASSUME NEW m \in 1 .. n, m - 1 \in T
      PROVE  m \in T
  <2>1. PICK g : IsLevels(g, m - 1, leaves, pos)
    BY <1>2, Zenon
  <2> DEFINE Above(level) == [row |-> RowAbove(level.row), pos |-> level.pos \div 2]
             f == [k \in 0 .. m |-> IF k = m THEN Above(g[m - 1]) ELSE g[k]]
  <2>2. \A k \in 0 .. (m - 1) : g[k] = IF k = 0 THEN start ELSE Above(g[k - 1])
    BY <2>1 DEF IsLevels
  <2> HIDE DEF Above, start
  <2>3. /\ DOMAIN f = 0 .. m /\ f[m] = Above(g[m - 1])
        /\ \A k \in 0 .. (m - 1) : f[k] = g[k]
    OBVIOUS
  <2>4. \A k \in 0 .. m : f[k] = IF k = 0 THEN start ELSE Above(f[k - 1])
    <3> HIDE DEF f
    <3> TAKE k \in 0 .. m
    <3>1. CASE k = 0
      BY <2>2, <2>3, <3>1
    <3>2. CASE k = m
      <4>1. m # 0 /\ m - 1 \in 0 .. (m - 1)
        OBVIOUS
      <4> QED
        BY <2>3, <3>2, <4>1
    <3>3. CASE k # 0 /\ k # m
      <4>1. k \in 0 .. (m - 1) /\ k - 1 \in 0 .. (m - 1)
        BY <3>3
      <4> QED
        BY <2>2, <2>3, <3>3, <4>1
    <3> QED
      BY <3>1, <3>2, <3>3
  <2>5. f = [k \in 0 .. m |-> f[k]]
    OBVIOUS
  <2> HIDE DEF f
  <2>6. f = [k \in 0 .. m |-> IF k = 0 THEN start ELSE Above(f[k - 1])]
    BY <2>4, <2>5, Zenon
  <2>7. IsLevels(f, m, leaves, pos)
    BY <2>6, Zenon DEF IsLevels, Above, start
  <2>8. m \in 0 .. n
    OBVIOUS
  <2> QED
    BY <2>7, <2>8, Zenon
<1>3. T \in SUBSET (0 .. n)
  OBVIOUS
<1> HIDE DEF T
<1>4. T = 0 .. n
  BY <1>1, <1>2, <1>3, Induction, Zenon
<1>5. n \in T
  BY <1>4
<1> QED
  BY <1>5, Zenon DEF T

\* Each row is the one above the row before, and each place half the one before.
LEMMA LevelsSteps ==
  ASSUME NEW leaves, NEW pos, Len(leaves) \in Nat
  PROVE  /\ Levels(leaves, pos)[0].row = leaves
         /\ Levels(leaves, pos)[0].pos = pos
         /\ \A k \in 1 .. Len(leaves) :
              /\ Levels(leaves, pos)[k].row = RowAbove(Levels(leaves, pos)[k - 1].row)
              /\ Levels(leaves, pos)[k].pos = Levels(leaves, pos)[k - 1].pos \div 2
<1> DEFINE n == Len(leaves)
           level == Levels(leaves, pos)
<1>1. \E f : IsLevels(f, n, leaves, pos)
  BY LevelsExist, Zenon
<1>2. IsLevels(level, n, leaves, pos)
  BY <1>1, Zenon DEF Levels, IsLevels
<1> HIDE DEF level
<1>3. \A k \in 0 .. n :
        level[k] = IF k = 0 THEN [row |-> leaves, pos |-> pos]
                   ELSE [row |-> RowAbove(level[k - 1].row), pos |-> level[k - 1].pos \div 2]
  BY <1>2, Zenon DEF IsLevels
<1>4. 0 \in 0 .. n /\ \A k \in 1 .. n : k \in 0 .. n /\ k # 0
  OBVIOUS
<1>5. level[0] = [row |-> leaves, pos |-> pos]
  BY <1>3, <1>4
<1>6. \A k \in 1 .. n :
        level[k] = [row |-> RowAbove(level[k - 1].row), pos |-> level[k - 1].pos \div 2]
  BY <1>3, <1>4, Zenon
<1>7. level[0].row = leaves /\ level[0].pos = pos
  BY <1>5
<1>8. \A k \in 1 .. n : /\ level[k].row = RowAbove(level[k - 1].row)
                        /\ level[k].pos = level[k - 1].pos \div 2
  <2> TAKE k \in 1 .. n
  <2> DEFINE row == RowAbove(level[k - 1].row)
             half == level[k - 1].pos \div 2
  <2>1. level[k] = [row |-> row, pos |-> half]
    BY <1>6, Zenon
  <2> HIDE DEF row, half
  <2>2. level[k].row = row /\ level[k].pos = half
    BY <2>1
  <2> QED
    BY <2>2, Zenon DEF row, half
<1> QED
  BY <1>7, <1>8, Zenon DEF level

\* A place in a row and half of it in the row above: the pair that is hashed.
LEMMA Halves ==
  ASSUME NEW row, Len(row) \in Nat, NEW pos \in 0 .. (Len(row) - 1)
  PROVE  /\ Len(RowAbove(row)) = (Len(row) + 1) \div 2
         /\ pos \div 2 \in 0 .. (Len(RowAbove(row)) - 1)
         /\ RowAbove(row)[(pos \div 2) + 1] =
              IF pos % 2 = 0 THEN Hash(row[pos + 1], Sibling(row, pos))
              ELSE Hash(Sibling(row, pos), row[pos + 1])
<1> DEFINE n == Len(row)
           m == (n + 1) \div 2
           half == pos \div 2
<1>1. n \in Nat /\ m \in Nat /\ half \in 0 .. (m - 1) /\ half + 1 \in 1 .. m
  OBVIOUS
<1>2. Len(RowAbove(row)) = m
  BY <1>1 DEF RowAbove
<1>3. RowAbove(row)[half + 1] = Hash(row[2 * (half + 1) - 1], Sibling(row, 2 * (half + 1) - 2))
  BY <1>1 DEF RowAbove
<1>4. CASE pos % 2 = 0
  <2>1. 2 * (half + 1) - 1 = pos + 1 /\ 2 * (half + 1) - 2 = pos
    BY <1>4
  <2> QED
    BY <1>1, <1>2, <1>3, <1>4, <2>1
<1>5. CASE pos % 2 # 0
  <2>1. 2 * (half + 1) - 1 = pos /\ 2 * (half + 1) - 2 = pos - 1 /\ (pos - 1) % 2 = 0
    BY <1>5
  <2>2. Sibling(row, pos) = row[pos]
    BY <1>5 DEF Sibling
  <2>3. Sibling(row, pos - 1) = row[pos + 1]
    BY <2>1 DEF Sibling
  <2> QED
    BY <1>1, <1>2, <1>3, <1>5, <2>1, <2>2, <2>3
<1> QED
  BY <1>4, <1>5

\* The rows are those of the leaves, whatever leaf one looks at.
LEMMA SameRows ==
  ASSUME NEW leaves, Len(leaves) \in Nat, NEW pos, NEW k \in 0 .. Len(leaves)
  PROVE  Levels(leaves, pos)[k].row = Levels(leaves, 0)[k].row
<1> DEFINE n == Len(leaves)
           level == Levels(leaves, pos)
           first == Levels(leaves, 0)
           T == {i \in 0 .. n : level[i].row = first[i].row}
<1>1. /\ level[0].row = leaves /\ first[0].row = leaves
      /\ \A i \in 1 .. n : level[i].row = RowAbove(level[i - 1].row)
                           /\ first[i].row = RowAbove(first[i - 1].row)
  <2>1. \A p : /\ Levels(leaves, p)[0].row = leaves
               /\ \A i \in 1 .. n :
                    Levels(leaves, p)[i].row = RowAbove(Levels(leaves, p)[i - 1].row)
    BY LevelsSteps
  <2> QED
    BY <2>1, Zenon
<1> HIDE DEF level, first
<1>2. 0 \in T
  BY <1>1
<1>3. \A i \in 1 .. n : i - 1 \in T => i \in T
  BY <1>1
<1>4. T \in SUBSET (0 .. n)
  OBVIOUS
<1>5. T = 0 .. n
  BY <1>2, <1>3, <1>4, Induction, Zenon
<1>6. k \in T
  BY <1>5, Zenon
<1> QED
  BY <1>6 DEF level, first

\* The rows shrink to one hash.
LEMMA DepthType ==
  ASSUME NEW leaves, Len(leaves) \in Nat \ {0}
  PROVE  Depth(leaves) \in 0 .. Len(leaves) /\ Len(Levels(leaves, 0)[Depth(leaves)].row) = 1
<1> DEFINE n == Len(leaves)
           level == Levels(leaves, 0)
           T == {k \in 0 .. n : /\ Len(level[k].row) \in Nat \ {0}
                                /\ Len(level[k].row) = 1 \/ Len(level[k].row) + k <= n}
           Ones == {k \in 0 .. n : Len(level[k].row) = 1}
<1>1. level[0].row = leaves /\ \A i \in 1 .. n : level[i].row = RowAbove(level[i - 1].row)
  <2>1. Len(leaves) \in Nat
    OBVIOUS
  <2> QED
    BY <2>1, LevelsSteps
<1> HIDE DEF level
<1>2. 0 \in T
  BY <1>1
<1>3. ASSUME NEW i \in 1 .. n, i - 1 \in T
      PROVE  i \in T
  <2> DEFINE l == Len(level[i - 1].row)
  <2>1. l \in Nat \ {0} /\ (l = 1 \/ l + (i - 1) <= n)
    BY <1>3
  <2>2. Len(level[i].row) = (l + 1) \div 2
    <3>1. 0 \in 0 .. (l - 1) /\ l \in Nat
      BY <2>1
    <3>2. level[i].row = RowAbove(level[i - 1].row)
      BY <1>1, Zenon
    <3> QED
      BY <3>1, <3>2, Halves, Zenon
  <2> HIDE DEF l
  <2>3. (l + 1) \div 2 \in Nat \ {0} /\ ((l + 1) \div 2 = 1 \/ (l + 1) \div 2 + i <= n)
    BY <2>1
  <2>4. i \in 0 .. n
    OBVIOUS
  <2> QED
    BY <2>2, <2>3, <2>4, Zenon
<1>4. T \in SUBSET (0 .. n)
  OBVIOUS
<1> HIDE DEF T
<1>5. T = 0 .. n
  BY <1>2, <1>3, <1>4, Induction, Zenon
<1>6. n \in T /\ n \in Nat \ {0}
  BY <1>5
<1>7. n \in Ones
  BY <1>6 DEF T
<1>8. Ones \in SUBSET Nat /\ Ones # {}
  <2>1. 0 .. n \subseteq Nat
    OBVIOUS
  <2> QED
    BY <1>7, <2>1, Zenon
<1> HIDE DEF Ones
<1>9. PICK k \in Ones : \A j \in Ones : k <= j
  BY <1>8, Least, Zenon
<1>10. k \in 0 .. n /\ Len(level[k].row) = 1 /\ \A j \in 0 .. (k - 1) : Len(level[j].row) # 1
  <2>1. k \in 0 .. n /\ Len(level[k].row) = 1
    BY <1>9, Zenon DEF Ones
  <2>2. ASSUME NEW j \in 0 .. (k - 1), Len(level[j].row) = 1
        PROVE  FALSE
    <3>1. j \in 0 .. n /\ ~ (k <= j)
      BY <2>1
    <3>2. j \in Ones
      BY <2>2, <3>1, Zenon DEF Ones
    <3> QED
      BY <1>9, <3>1, <3>2, Zenon
  <2> QED
    BY <2>1, <2>2, Zenon
<1> QED
  BY <1>10, Zenon DEF Depth, level

-----------------------------------------------------------------------------
(* The proof of a transaction, climbed by validate_merkle_proof.            *)

\* The proof that the server makes for a leaf is valid with the root of the
\* tree, whatever the number of leaves and the place of this one.
THEOREM ProofValid ==
  ASSUME NEW leaves, Len(leaves) \in Nat \ {0}, NEW pos \in 0 .. (Len(leaves) - 1)
  PROVE  ValidateMerkleProof(leaves[pos + 1], Root(leaves), Path(leaves, pos), pos)
<1> DEFINE n == Len(leaves)
           d == Depth(leaves)
           merkle == Path(leaves, pos)
           level == Levels(leaves, pos)
           at == Rounds(leaves[pos + 1], merkle, pos)
           Here(k) == /\ Len(level[k].row) \in Nat
                      /\ level[k].pos \in 0 .. (Len(level[k].row) - 1)
                      /\ at[k].index = level[k].pos
                      /\ at[k].cur = level[k].row[level[k].pos + 1]
           T == {k \in 0 .. d : Here(k)}
<1>1. n \in Nat \ {0} /\ n \in Nat /\ d \in 0 .. n /\ d \in Nat
  BY DepthType
<1>2. Len(merkle) = d /\ \A k \in 1 .. d : merkle[k] = Sibling(level[k - 1].row, level[k - 1].pos)
  BY <1>1 DEF Path
<1>3. /\ level[0].row = leaves /\ level[0].pos = pos
      /\ \A k \in 1 .. n : /\ level[k].row = RowAbove(level[k - 1].row)
                           /\ level[k].pos = level[k - 1].pos \div 2
  BY <1>1, LevelsSteps
<1>4. /\ at[0] = [cur |-> leaves[pos + 1], index |-> pos]
      /\ \A k \in 1 .. d : at[k] = Climb(at[k - 1], merkle[k])
  <2>1. Len(merkle) \in Nat
    BY <1>1, <1>2
  <2> QED
    BY <1>2, <2>1, RoundsSteps
<1>5. level[d].row = Levels(leaves, 0)[d].row /\ Len(level[d].row) = 1
  BY <1>1, SameRows, DepthType
<1> HIDE DEF level, at, merkle, d
<1>6. 0 \in T
  <2>1. at[0].index = pos /\ at[0].cur = leaves[pos + 1]
    BY <1>4
  <2>2. 0 \in 0 .. d
    BY <1>1
  <2> QED
    BY <1>1, <1>3, <2>1, <2>2
<1>7. ASSUME NEW k \in 1 .. d, k - 1 \in T
      PROVE  k \in T
  <2> DEFINE row == level[k - 1].row
             p == level[k - 1].pos
             other == Sibling(row, p)
             cur == at[k - 1].cur
             up == IF p % 2 = 0 THEN Hash(cur, other) ELSE Hash(other, cur)
             half == p \div 2
  <2>1. /\ Len(row) \in Nat /\ p \in 0 .. (Len(row) - 1)
        /\ at[k - 1].index = p /\ cur = row[p + 1]
    BY <1>7
  <2>2. k \in 1 .. n /\ k \in 0 .. d
    BY <1>1
  <2>3. level[k].row = RowAbove(row) /\ level[k].pos = half
    BY <1>3, <2>2, Zenon
  <2>4. at[k] = [cur |-> up, index |-> half]
    <3>1. at[k] = Climb(at[k - 1], other)
      BY <1>2, <1>4, Zenon
    <3> QED
      BY <2>1, <3>1, Zenon DEF Climb
  <2> HIDE DEF up, half
  <2>5. at[k].cur = up /\ at[k].index = half
    BY <2>4
  <2>6. /\ Len(RowAbove(row)) = (Len(row) + 1) \div 2
        /\ half \in 0 .. (Len(RowAbove(row)) - 1)
        /\ RowAbove(row)[half + 1] = up
    <3> HIDE DEF row, p, cur
    <3>1. RowAbove(row)[half + 1] = IF p % 2 = 0 THEN Hash(row[p + 1], other) ELSE Hash(other, row[p + 1])
      BY <2>1, Halves, Zenon DEF half
    <3>2. half \in 0 .. (Len(RowAbove(row)) - 1) /\ Len(RowAbove(row)) = (Len(row) + 1) \div 2
      BY <2>1, Halves, Zenon DEF half
    <3> QED
      BY <2>1, <3>1, <3>2, Zenon DEF up
  <2>7. Len(RowAbove(row)) \in Nat
    <3>1. \A l \in Nat : (l + 1) \div 2 \in Nat
      OBVIOUS
    <3> QED
      BY <2>1, <2>6, <3>1, Zenon
  <2> QED
    BY <2>2, <2>3, <2>5, <2>6, <2>7, Zenon
<1>8. T \in SUBSET (0 .. d)
  OBVIOUS
<1> HIDE DEF T
<1>9. T = 0 .. d
  BY <1>1, <1>6, <1>7, <1>8, Induction, Zenon
<1>10. Here(d)
  <2>1. d \in T
    BY <1>1, <1>9
  <2> QED
    BY <2>1, Zenon DEF T
<1>11. at[d].cur = level[d].row[1]
  BY <1>5, <1>10
<1>12. level[d].row[1] = Root(leaves)
  BY <1>5, Zenon DEF Root, d
<1> QED
  BY <1>2, <1>11, <1>12, Zenon DEF ValidateMerkleProof, at, merkle

=============================================================================
