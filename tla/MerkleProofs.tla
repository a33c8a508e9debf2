---------------------------- MODULE MerkleProofs ----------------------------
(***************************************************************************)
(* The two Merkle trees, for any depth, any keys and lists of any length.  *)
(* A hash tells what it was made of, but not whether that was an item or   *)
(* two hashes.                                                             *)
(* First what the recursive functions of the trees are at each level, then *)
(* the sparse tree, then the tree of a list.                               *)
(***************************************************************************)
EXTENDS SparseMerkleTree, MerkleTree, FiniteSetTheorems, Iteration

-----------------------------------------------------------------------------
(* A proof verifies when the hashes combined from its leaf on, which are   *)
(* f, end with its root.                                                   *)
LEMMA VerifiesWhen ==
  ASSUME NEW given, NEW n \in Nat, Len(given.siblings) = n, Len(given.pathBits) = n,
         NEW f, f[0] = given.leafHash,
         \A i \in 1..n : f[i] = IF given.pathBits[i] THEN HashPair(f[i - 1], given.siblings[i])
                                                     ELSE HashPair(given.siblings[i], f[i - 1])
  PROVE  VerifyProof(given) <=> f[n] = given.rootHash
<1> DEFINE Fold(h) == [i \in 0..n |->
                         IF i = 0 THEN given.leafHash
                         ELSE IF given.pathBits[i] THEN HashPair(h[i - 1], given.siblings[i])
                                                   ELSE HashPair(given.siblings[i], h[i - 1])]
           hash == CHOOSE h : h = Fold(h)
<1>1. VerifyProof(given) <=> hash[n] = given.rootHash
  BY DEF VerifyProof
<1>2. hash = Fold(hash)
  <2> DEFINE g == [i \in 0..n |-> f[i]]
  <2>1. g = Fold(g)
    <3>1. \A i \in 1..n : i - 1 \in 0..n
      OBVIOUS
    <3> QED BY <3>1
  <2> HIDE DEF g, Fold
  <2> QED BY <2>1
<1>3. hash[0] = f[0]
  <2> HIDE DEF hash
  <2> QED BY <1>2
<1>4. ASSUME NEW i \in Nat, i + 1 \in 0..n, hash[i] = f[i]
      PROVE  hash[i + 1] = f[i + 1]
  <2>1. i + 1 \in 1..n /\ i + 1 # 0 /\ (i + 1) - 1 = i
    BY <1>4
  <2> HIDE DEF hash
  <2> QED BY <1>2, <1>4, <2>1
<1>5. hash[n] = f[n]
  <2> DEFINE N == {i \in Nat : i \in 0..n => hash[i] = f[i]}
  <2> HIDE DEF hash
  <2>1. 0 \in N
    BY <1>3
  <2>2. ASSUME NEW i \in Nat, i \in N PROVE i + 1 \in N
    <3> SUFFICES ASSUME i + 1 \in 0..n PROVE hash[i + 1] = f[i + 1]
      OBVIOUS
    <3>1. i \in 0..n
      OBVIOUS
    <3> QED BY <2>2, <3>1, <1>4
  <2> HIDE DEF N
  <2>3. n \in N
    BY <2>1, <2>2, EveryNat
  <2> QED BY <2>3 DEF N
<1> QED BY <1>1, <1>5


LEMMA DefaultHashes ==
  /\ defaultHashes[0] = Hash(Empty)
  /\ \A i \in 1..Depth : defaultHashes[i] = HashPair(defaultHashes[i - 1], defaultHashes[i - 1])
<1> DEFINE Fold(n, h) == [i \in 0..n |-> IF i = 0 THEN Hash(Empty) ELSE HashPair(h[i - 1], h[i - 1])]
           N == {n \in Nat : \E h : h = Fold(n, h)}
<1>1. 0 \in N
  <2> DEFINE h == [i \in 0..0 |-> Hash(Empty)]
  <2>1. h = Fold(0, h)
    OBVIOUS
  <2> HIDE DEF h, Fold
  <2> QED BY <2>1
<1>2. ASSUME NEW n \in Nat, n \in N PROVE n + 1 \in N
  <2>1. PICK h : h = Fold(n, h)
    BY <1>2
  <2> DEFINE g == [i \in 0..n + 1 |-> IF i = n + 1 THEN HashPair(h[n], h[n]) ELSE h[i]]
  <2>2. g = Fold(n + 1, g)
    <3>1. ASSUME NEW i \in 0..n + 1 PROVE g[i] = Fold(n + 1, g)[i]
      BY <2>1
    <3> QED BY <3>1
  <2> HIDE DEF g, Fold
  <2> QED BY <2>2
<1> HIDE DEF Fold
<1>3. PICK h : h = Fold(Depth, h)
  <2>1. Depth \in N
    <3> HIDE DEF N
    <3> QED BY <1>1, <1>2, EveryNat, TreeAssumption
  <2> QED BY <2>1
<1>4. defaultHashes = CHOOSE g : g = Fold(Depth, g)
  BY DEF defaultHashes, Fold, Levels
<1>5. defaultHashes = Fold(Depth, defaultHashes)
  BY <1>3, <1>4
<1> QED BY <1>5, TreeAssumption DEF Fold

(* The two children of the subtree under k at level i + 1 are under k with *)
(* the bit of level i cleared, and set.                                    *)
WithBit(k, level, bit) == [k EXCEPT ![BitPos(level)] = bit]

LEMMA SubtreesUnfold ==
  ASSUME NEW c
  PROVE  /\ \A k \in Keys : SubtreeHash(c, 0, k) = Hash(c[k])
         /\ \A i \in 0..Depth - 1, k \in Keys :
              SubtreeHash(c, i + 1, k) = HashPair(SubtreeHash(c, i, WithBit(k, i, 0)),
                                               SubtreeHash(c, i, WithBit(k, i, 1)))
<1> DEFINE Row(i, below) == [k \in Keys |->
                               IF i = 0 THEN Hash(c[k])
                               ELSE HashPair(below[[k EXCEPT ![Depth + 1 - i] = 0]],
                                             below[[k EXCEPT ![Depth + 1 - i] = 1]])]
           Fold(n, h) == [i \in 0..n |-> Row(i, h[i - 1])]
           N == {n \in Nat : \E h : h = Fold(n, h)}
<1> HIDE DEF Row
<1>1. 0 \in N
  <2> DEFINE h == [i \in 0..0 |-> Row(0, 0)]
  <2>1. Row(0, 0) = Row(0, h[-1])
    BY DEF Row
  <2>2. h = Fold(0, h)
    BY <2>1
  <2> HIDE DEF h, Fold
  <2> QED BY <2>2
<1>2. ASSUME NEW n \in Nat, n \in N PROVE n + 1 \in N
  <2>1. PICK h : h = Fold(n, h)
    BY <1>2
  <2> DEFINE g == [i \in 0..n + 1 |-> IF i = n + 1 THEN Row(n + 1, h[n]) ELSE h[i]]
  <2>2. \A i \in 1..n : i - 1 \in 0..n /\ h[i] = Row(i, h[i - 1])
    BY <2>1
  <2>3. h[0] = Row(0, h[0 - 1]) /\ Row(0, h[0 - 1]) = Row(0, g[0 - 1])
    BY <2>1 DEF Row
  <2>4. g = Fold(n + 1, g)
    <3>1. ASSUME NEW i \in 0..n + 1 PROVE g[i] = Row(i, g[i - 1])
      <4>1. CASE i = 0
        BY <4>1, <2>3
      <4>2. CASE i \in 1..n
        BY <4>2, <2>2
      <4>3. CASE i = n + 1
        BY <4>3
      <4> QED BY <4>1, <4>2, <4>3
    <3> QED BY <3>1
  <2> HIDE DEF g, Fold
  <2> QED BY <2>4
<1>3. PICK h : h = Fold(Depth, h)
  <2> HIDE DEF Fold
  <2>1. Depth \in N
    <3> HIDE DEF N
    <3> QED BY <1>1, <1>2, EveryNat, TreeAssumption
  <2> QED BY <2>1
<1>4. Subtrees(c) = CHOOSE g : g = Fold(Depth, g)
  BY DEF Subtrees, Row, Levels
<1>5. Subtrees(c) = Fold(Depth, Subtrees(c))
  <2> HIDE DEF Fold
  <2> QED BY <1>3, <1>4
<1>6. \A i \in 0..Depth : Subtrees(c)[i] = Row(i, Subtrees(c)[i - 1])
  <2> DEFINE s == Subtrees(c)
  <2> HIDE DEF s
  <2>1. s = Fold(Depth, s)
    BY <1>5 DEF s
  <2> QED BY <2>1 DEF s
<1>7. \A k \in Keys : SubtreeHash(c, 0, k) = Hash(c[k])
  <2>1. Subtrees(c)[0] = Row(0, Subtrees(c)[0 - 1])
    BY <1>6, TreeAssumption
  <2> HIDE DEF Fold
  <2> QED BY <2>1 DEF Row, SubtreeHash
<1>8. ASSUME NEW i \in 0..Depth - 1, NEW k \in Keys
      PROVE  SubtreeHash(c, i + 1, k) = HashPair(SubtreeHash(c, i, WithBit(k, i, 0)),
                                              SubtreeHash(c, i, WithBit(k, i, 1)))
  <2>1. i + 1 \in 0..Depth /\ i + 1 # 0 /\ (i + 1) - 1 = i /\ Depth + 1 - (i + 1) = Depth - i
    BY TreeAssumption
  <2>2. Subtrees(c)[i + 1] = Row(i + 1, Subtrees(c)[i])
    BY <1>6, <2>1
  <2> HIDE DEF Fold
  <2> QED BY <2>1, <2>2 DEF Row, WithBit, BitPos, SubtreeHash
<1> QED BY <1>7, <1>8

(* What Set stores along its path.                                         *)
LEMMA PathUnfolds ==
  ASSUME NEW key, NEW v
  PROVE  LET path == Path(key, v)
         IN  /\ DOMAIN path = Levels \X {key}
             /\ path[<<0, key>>] = Hash(v)
             /\ \A i \in 0..Depth - 1 :
                  path[<<i + 1, key>>] = Combine(key, i, path[<<i, key>>], SiblingHash(nodes, i, key))
<1> DEFINE Up(i, hash) == IF i = 0 THEN Hash(v)
                          ELSE Combine(key, i - 1, hash, SiblingHash(nodes, i - 1, key))
           Fold(n, h) == [i \in 0..n |-> Up(i, h[i - 1])]
           N == {n \in Nat : \E h : h = Fold(n, h)}
<1> HIDE DEF Up
<1>1. 0 \in N
  <2> DEFINE h == [i \in 0..0 |-> Up(0, 0)]
  <2>1. Up(0, 0) = Up(0, h[-1])
    BY DEF Up
  <2>2. h = Fold(0, h)
    BY <2>1
  <2> HIDE DEF h, Fold
  <2> QED BY <2>2
<1>2. ASSUME NEW n \in Nat, n \in N PROVE n + 1 \in N
  <2>1. PICK h : h = Fold(n, h)
    BY <1>2
  <2> DEFINE g == [i \in 0..n + 1 |-> IF i = n + 1 THEN Up(n + 1, h[n]) ELSE h[i]]
  <2>2. \A i \in 1..n : i - 1 \in 0..n /\ h[i] = Up(i, h[i - 1])
    BY <2>1
  <2>3. h[0] = Up(0, h[0 - 1]) /\ Up(0, h[0 - 1]) = Up(0, g[0 - 1])
    BY <2>1 DEF Up
  <2>4. g = Fold(n + 1, g)
    <3>1. ASSUME NEW i \in 0..n + 1 PROVE g[i] = Up(i, g[i - 1])
      <4>1. CASE i = 0
        BY <4>1, <2>3
      <4>2. CASE i \in 1..n
        BY <4>2, <2>2
      <4>3. CASE i = n + 1
        BY <4>3
      <4> QED BY <4>1, <4>2, <4>3
    <3> QED BY <3>1
  <2> HIDE DEF g, Fold
  <2> QED BY <2>4
<1> DEFINE hash == CHOOSE g : g = Fold(Depth, g)
<1>3. PICK h : h = Fold(Depth, h)
  <2> HIDE DEF Fold
  <2>1. Depth \in N
    <3> HIDE DEF N
    <3> QED BY <1>1, <1>2, EveryNat, TreeAssumption
  <2> QED BY <2>1
<1>4. Path(key, v) = [place \in Levels \X {key} |-> hash[place[1]]]
  BY DEF Path, Up, Levels
<1>5. hash = Fold(Depth, hash)
  <2> HIDE DEF Fold
  <2> QED BY <1>3
<1> HIDE DEF hash
<1>6. \A i \in 0..Depth : hash[i] = Up(i, hash[i - 1])
  BY <1>5
<1>7. \A i \in Levels : Path(key, v)[<<i, key>>] = hash[i]
  <2>1. \A i \in Levels : <<i, key>> \in Levels \X {key} /\ <<i, key>>[1] = i
    OBVIOUS
  <2> QED BY <1>4, <2>1
<1>8. hash[0] = Hash(v)
  BY <1>6, TreeAssumption DEF Up
<1>9. ASSUME NEW i \in 0..Depth - 1
      PROVE  hash[i + 1] = Combine(key, i, hash[i], SiblingHash(nodes, i, key))
  <2>1. i + 1 \in 0..Depth /\ i + 1 # 0 /\ (i + 1) - 1 = i
    BY TreeAssumption
  <2>2. hash[i + 1] = Up(i + 1, hash[i])
    BY <1>6, <2>1
  <2> QED BY <2>1, <2>2 DEF Up
<1>10. 0 \in Levels /\ \A i \in 0..Depth - 1 : i \in Levels /\ i + 1 \in Levels
  BY TreeAssumption DEF Levels
<1>11. DOMAIN Path(key, v) = Levels \X {key}
  BY <1>4
<1> HIDE DEF Fold
<1> QED BY <1>7, <1>8, <1>9, <1>10, <1>11

-----------------------------------------------------------------------------
(***************************************************************************)
(* Subtrees.                                                               *)
(***************************************************************************)

(* j and k are under the same node of the level.                           *)
Together(j, k, level) == \A pos \in 1..Depth - level : j[pos] = k[pos]
Flipped(k, level) == [k EXCEPT ![BitPos(level)] = 1 - @]

LEMMA Bits ==
  ASSUME NEW k \in Keys, NEW i \in 0..Depth - 1
  PROVE  /\ i \in Levels /\ i + 1 \in Levels /\ BitPos(i) \in 1..Depth
         /\ Flipped(k, i) \in Keys /\ Flipped(k, i) # k
         /\ \A bit \in {0, 1} : WithBit(k, i, bit) \in Keys
         /\ k[BitPos(i)] \in {0, 1}
         /\ WithBit(k, i, k[BitPos(i)]) = k
         /\ WithBit(k, i, 1 - k[BitPos(i)]) = Flipped(k, i)
BY TreeAssumption DEF Levels, BitPos, Keys, Flipped, WithBit

(* A subtree is its two children, in the order of its key's bit.           *)
LEMMA SubtreeOfChildren ==
  ASSUME NEW c, NEW k \in Keys, NEW i \in 0..Depth - 1
  PROVE  SubtreeHash(c, i + 1, k) = Combine(k, i, SubtreeHash(c, i, k), SubtreeHash(c, i, Flipped(k, i)))
<1>1. SubtreeHash(c, i + 1, k) = HashPair(SubtreeHash(c, i, WithBit(k, i, 0)),
                                       SubtreeHash(c, i, WithBit(k, i, 1)))
  BY SubtreesUnfold
<1>2. CASE k[BitPos(i)] = 1
  <2>1. WithBit(k, i, 1) = k /\ WithBit(k, i, 0) = Flipped(k, i)
    BY <1>2, Bits
  <2> QED BY <1>1, <1>2, <2>1 DEF Combine, IsRightChild
<1>3. CASE k[BitPos(i)] = 0
  <2>1. WithBit(k, i, 0) = k /\ WithBit(k, i, 1) = Flipped(k, i)
    BY <1>3, Bits
  <2> QED BY <1>1, <1>3, <2>1 DEF Combine, IsRightChild
<1> QED BY <1>2, <1>3, Bits

(* c and d store the same under the node of k at this level.               *)
SameUnder(c, d, k, level) == \A m \in Keys : Together(m, k, level) => c[m] = d[m]

(* The hash of a subtree is of the contents under it, and of no other.     *)
LEMMA SubtreeOfContents ==
  ASSUME NEW c, NEW d, NEW level \in Levels, NEW j \in Keys, NEW k \in Keys,
         Together(j, k, level), SameUnder(c, d, j, level)
  PROVE  SubtreeHash(c, level, j) = SubtreeHash(d, level, k)
<1> DEFINE Same(i) == \A m, n \in Keys :
             Together(m, n, i) /\ (\A o \in Keys : Together(o, m, i) => c[o] = d[o])
               => SubtreeHash(c, i, m) = SubtreeHash(d, i, n)
           N == {i \in Nat : i \in Levels => Same(i)}
<1>1. 0 \in N
  <2> SUFFICES ASSUME NEW m \in Keys, NEW n \in Keys, Together(m, n, 0),
                      \A o \in Keys : Together(o, m, 0) => c[o] = d[o]
               PROVE  SubtreeHash(c, 0, m) = SubtreeHash(d, 0, n)
    OBVIOUS
  <2>1. m = n
    BY TreeAssumption DEF Together, Keys
  <2>2. c[m] = d[m]
    BY DEF Together
  <2> QED BY <2>1, <2>2, SubtreesUnfold
<1>2. ASSUME NEW i \in Nat, i \in N PROVE i + 1 \in N
  <2> SUFFICES ASSUME i + 1 \in Levels, NEW m \in Keys, NEW n \in Keys, Together(m, n, i + 1),
                      \A o \in Keys : Together(o, m, i + 1) => c[o] = d[o]
               PROVE  SubtreeHash(c, i + 1, m) = SubtreeHash(d, i + 1, n)
    OBVIOUS
  <2>1. i \in 0..Depth - 1 /\ i \in Levels
    BY TreeAssumption DEF Levels
  <2>2. ASSUME NEW bit \in {0, 1}
        PROVE  SubtreeHash(c, i, WithBit(m, i, bit)) = SubtreeHash(d, i, WithBit(n, i, bit))
    <3>1. WithBit(m, i, bit) \in Keys /\ WithBit(n, i, bit) \in Keys
      BY <2>1, Bits
    <3>2. Together(WithBit(m, i, bit), WithBit(n, i, bit), i)
      BY <2>1, TreeAssumption DEF Together, WithBit, BitPos, Keys
    <3>3. ASSUME NEW o \in Keys, Together(o, WithBit(m, i, bit), i) PROVE c[o] = d[o]
      <4>1. ASSUME NEW pos \in 1..Depth - (i + 1) PROVE o[pos] = m[pos]
        <5>1. pos \in 1..Depth - i /\ pos # BitPos(i) /\ pos \in 1..Depth
          BY <2>1, TreeAssumption DEF BitPos
        <5>2. o[pos] = WithBit(m, i, bit)[pos]
          BY <3>3, <5>1 DEF Together
        <5> QED BY <5>1, <5>2 DEF WithBit, Keys
      <4>2. Together(o, m, i + 1)
        BY <4>1 DEF Together
      <4> QED BY <4>2
    <3>4. Same(i)
      BY <1>2, <2>1
    <3> HIDE DEF N
    <3> QED BY <3>1, <3>2, <3>3, <3>4
  <2> HIDE DEF N
  <2> QED BY <2>1, <2>2, SubtreesUnfold, ZenonT(30)
<1>3. level \in N
  <2> HIDE DEF N
  <2>1. level \in Nat
    BY TreeAssumption DEF Levels
  <2> QED BY <1>1, <1>2, <2>1, EveryNat
<1> QED BY <1>3 DEF SameUnder

(* Where nothing is stored, it is the default hash.                        *)
LEMMA EmptySubtree ==
  ASSUME NEW c, NEW level \in Levels, NEW k \in Keys,
         \A m \in Keys : Together(m, k, level) => c[m] = Empty
  PROVE  SubtreeHash(c, level, k) = defaultHashes[level]
<1> DEFINE Vacant(i) == \A m \in Keys :
             (\A o \in Keys : Together(o, m, i) => c[o] = Empty)
               => SubtreeHash(c, i, m) = defaultHashes[i]
           N == {i \in Nat : i \in Levels => Vacant(i)}
<1>1. 0 \in N
  <2> SUFFICES ASSUME NEW m \in Keys, \A o \in Keys : Together(o, m, 0) => c[o] = Empty
               PROVE  SubtreeHash(c, 0, m) = defaultHashes[0]
    OBVIOUS
  <2>1. c[m] = Empty
    BY DEF Together
  <2> QED BY <2>1, SubtreesUnfold, DefaultHashes
<1>2. ASSUME NEW i \in Nat, i \in N PROVE i + 1 \in N
  <2> SUFFICES ASSUME i + 1 \in Levels, NEW m \in Keys,
                      \A o \in Keys : Together(o, m, i + 1) => c[o] = Empty
               PROVE  SubtreeHash(c, i + 1, m) = defaultHashes[i + 1]
    OBVIOUS
  <2>1. i \in 0..Depth - 1 /\ i \in Levels /\ i + 1 \in 1..Depth /\ (i + 1) - 1 = i
    BY TreeAssumption DEF Levels
  <2>2. ASSUME NEW bit \in {0, 1}
        PROVE  SubtreeHash(c, i, WithBit(m, i, bit)) = defaultHashes[i]
    <3>1. WithBit(m, i, bit) \in Keys
      BY <2>1, Bits
    <3>2. ASSUME NEW o \in Keys, Together(o, WithBit(m, i, bit), i) PROVE c[o] = Empty
      <4>1. Together(o, m, i + 1)
        BY <2>1, <3>2, TreeAssumption DEF Together, WithBit, BitPos, Keys
      <4> QED BY <4>1
    <3>3. Vacant(i)
      BY <1>2, <2>1
    <3> HIDE DEF N
    <3> QED BY <3>1, <3>2, <3>3
  <2>3. defaultHashes[i + 1] = HashPair(defaultHashes[i], defaultHashes[i])
    BY <2>1, DefaultHashes
  <2> HIDE DEF N
  <2> QED BY <2>1, <2>2, <2>3, SubtreesUnfold
<1>3. level \in N
  <2> HIDE DEF N
  <2>1. level \in Nat
    BY TreeAssumption DEF Levels
  <2> QED BY <1>1, <1>2, <2>1, EveryNat
<1> QED BY <1>3
-----------------------------------------------------------------------------
(***************************************************************************)
(* Set.                                                                    *)
(***************************************************************************)

(* The path of Set is right up to a level when the siblings it reads below *)
(* that level are.                                                         *)
LEMMA PathIsRight ==
  ASSUME NEW key \in Keys, NEW v, NEW c, c[key] = v, NEW top \in Levels,
         \A i \in 0..Depth - 1 :
           i < top => SiblingHash(nodes, i, key) = SubtreeHash(c, i, Flipped(key, i))
  PROVE  Path(key, v)[<<top, key>>] = SubtreeHash(c, top, key)
<1> DEFINE N == {i \in Nat : i <= top => Path(key, v)[<<i, key>>] = SubtreeHash(c, i, key)}
<1> DEFINE path == Path(key, v)
<1>0. /\ path[<<0, key>>] = Hash(v)
      /\ \A i \in 0..Depth - 1 :
           path[<<i + 1, key>>] = Combine(key, i, path[<<i, key>>], SiblingHash(nodes, i, key))
  BY PathUnfolds
<1>1. 0 \in N
  BY <1>0, SubtreesUnfold
<1>2. ASSUME NEW i \in Nat, i \in N PROVE i + 1 \in N
  <2> SUFFICES ASSUME i + 1 <= top
               PROVE  path[<<i + 1, key>>] = SubtreeHash(c, i + 1, key)
    OBVIOUS
  <2>1. i \in 0..Depth - 1 /\ i < top /\ i <= top
    BY TreeAssumption DEF Levels
  <2>2. path[<<i, key>>] = SubtreeHash(c, i, key)
    BY <1>2, <2>1
  <2>3. path[<<i + 1, key>>] = Combine(key, i, path[<<i, key>>], SubtreeHash(c, i, Flipped(key, i)))
    BY <1>0, <2>1
  <2>4. SubtreeHash(c, i + 1, key)
          = Combine(key, i, SubtreeHash(c, i, key), SubtreeHash(c, i, Flipped(key, i)))
    BY <2>1, SubtreeOfChildren
  <2> HIDE DEF N, path
  <2> QED BY <2>2, <2>3, <2>4
<1>3. top \in N
  <2> HIDE DEF N
  <2>1. top \in Nat
    BY TreeAssumption DEF Levels
  <2> QED BY <1>1, <1>2, <2>1, EveryNat
<1> QED BY <1>3, TreeAssumption DEF Levels

(* No other key is set under the node of key at this level.                *)
Alone(key, level) == \A j \in KeysSet : Together(j, key, level) => j = key

SparseInv ==
  /\ TypeOK
  /\ last = Unset => KeysSet = {} /\ root = defaultHashes[Depth]
  /\ \A key \in KeysSet : nodes[<<0, key>>] = Hash(Value(key))
  /\ last # Unset =>
       /\ root = nodes[<<Depth, last>>]
       /\ \A i \in 0..Depth - 1 :
            nodes[<<i + 1, last>>]
              = Combine(last, i, nodes[<<i, last>>], SiblingHash(nodes, i, last))
  /\ \A key \in KeysSet, level \in Levels :
       Alone(key, level) => nodes[<<level, key>>] = SubtreeHash(Contents, level, key)
  /\ (\A j, k \in KeysSet : j = k \/ Neighbours(j, k)) /\ last # Unset
       => root = SubtreeHash(Contents, Depth, last)

LEMMA UnsetIsNoKey == Unset \notin Keys /\ \A v : <<v>> # Unset
BY TreeAssumption DEF Unset, Keys

LEMMA SparseInitInv == Init => SparseInv
<1> SUFFICES ASSUME Init PROVE SparseInv
  OBVIOUS
<1>1. KeysSet = {} /\ last = Unset
  BY DEF Init, KeysSet, IsSet
<1>2. TypeOK
  <2>1. DOMAIN nodes = {}
    BY DEF Init
  <2>2. DOMAIN nodes = Levels \X KeysSet
    BY <1>1, <2>1
  <2> QED BY <1>1, <2>2 DEF Init, TypeOK
<1> QED BY <1>1, <1>2 DEF Init, SparseInv

LEMMA SetEffects ==
  ASSUME TypeOK, NEW key \in Keys, NEW v \in Values \cup {Empty}, Set(key, v)
  PROVE  /\ KeysSet' = KeysSet \cup {key} /\ TypeOK' /\ last' = key /\ last' # Unset
         /\ root' = nodes'[<<Depth, key>>]
         /\ Contents'[key] = v /\ Value(key)' = v
         /\ \A k \in Keys : Contents'[k] = IF k \in KeysSet' THEN Value(k)' ELSE Empty
         /\ \A k \in Keys : k # key => Contents'[k] = Contents[k] /\ Value(k)' = Value(k)
         /\ \A i \in Levels : nodes'[<<i, key>>] = Path(key, v)[<<i, key>>]
         /\ \A i \in Levels, k \in KeysSet : k # key => nodes'[<<i, k>>] = nodes[<<i, k>>]
         /\ \A i \in 0..Depth - 1 : SiblingHash(nodes', i, key) = SiblingHash(nodes, i, key)
<1>1. /\ stored' = [stored EXCEPT ![key] = <<v>>]
      /\ DOMAIN Path(key, v) = Levels \X {key}
      /\ DOMAIN nodes = Levels \X KeysSet
  BY PathUnfolds DEF Set, TypeOK
<1>2. KeysSet' = KeysSet \cup {key}
  BY <1>1, UnsetIsNoKey DEF KeysSet, IsSet, TypeOK
<1>3. nodes' = [place \in Levels \X KeysSet' |->
                  IF place \in Levels \X {key} THEN Path(key, v)[place] ELSE nodes[place]]
  <2>1. Levels \X {key} \cup Levels \X KeysSet = Levels \X KeysSet'
    BY <1>2
  <2> QED BY <1>1, <2>1 DEF Set, Store
<1>4. TypeOK'
  BY <1>1, <1>2, <1>3 DEF TypeOK, Set
<1>5. last' = key /\ last' # Unset
  BY UnsetIsNoKey DEF Set
<1>6. \A i \in Levels : nodes'[<<i, key>>] = Path(key, v)[<<i, key>>]
  <2>1. \A i \in Levels : <<i, key>> \in Levels \X KeysSet' /\ <<i, key>> \in Levels \X {key}
    BY <1>2
  <2> QED BY <1>3, <2>1
<1>7. \A i \in Levels, k \in KeysSet : k # key => nodes'[<<i, k>>] = nodes[<<i, k>>]
  <2>1. ASSUME NEW i \in Levels, NEW k \in KeysSet, k # key
        PROVE  <<i, k>> \in Levels \X KeysSet' /\ <<i, k>> \notin Levels \X {key}
    BY <1>2, <2>1
  <2> QED BY <1>3, <2>1
<1>8. root' = nodes'[<<Depth, key>>]
  <2>1. Depth \in Levels
    BY TreeAssumption DEF Levels
  <2> QED BY <1>6, <2>1 DEF Set
<1>9. ASSUME NEW i \in 0..Depth - 1
      PROVE  SiblingHash(nodes', i, key) = SiblingHash(nodes, i, key)
  <2> DEFINE f == Flipped(key, i)
  <2>1. f \in Keys /\ f # key /\ i \in Levels
    BY Bits
  <2>2. <<i, f>> \in DOMAIN nodes' <=> <<i, f>> \in DOMAIN nodes
    BY <1>1, <1>2, <1>3, <2>1
  <2>3. <<i, f>> \in DOMAIN nodes => nodes'[<<i, f>>] = nodes[<<i, f>>]
    BY <1>1, <1>7, <2>1
  <2> QED BY <2>2, <2>3 DEF SiblingHash, NodeHash, Flipped
<1>10. ASSUME NEW k \in Keys
       PROVE  /\ Value(k)' = IF k = key THEN v ELSE Value(k)
              /\ Contents'[k] = Value(k)' /\ Contents[k] = Value(k)
              /\ k \notin KeysSet' => Value(k)' = Empty
  <2>1. stored'[k] = IF k = key THEN <<v>> ELSE stored[k]
    BY <1>1 DEF TypeOK
  <2>2. Value(k)' = IF k = key THEN v ELSE Value(k)
    BY <2>1, UnsetIsNoKey DEF Value, IsSet
  <2>3. Contents'[k] = Value(k)' /\ Contents[k] = Value(k)
    BY DEF Contents
  <2>4. k \notin KeysSet' => Value(k)' = Empty
    BY DEF Value, KeysSet
  <2> QED BY <2>2, <2>3, <2>4
<1> QED BY <1>2, <1>4, <1>5, <1>6, <1>7, <1>8, <1>9, <1>10
(* After Set the hashes of the path are right where the key is alone.      *)
LEMMA SetAlone ==
  ASSUME TypeOK, NEW key \in Keys, NEW v \in Values \cup {Empty}, Set(key, v),
         NEW level \in Levels, Alone(key, level)'
  PROVE  nodes'[<<level, key>>] = SubtreeHash(Contents', level, key)
<1> DEFINE c == Contents'
<1>1. /\ KeysSet' = KeysSet \cup {key} /\ c[key] = v
      /\ \A k \in Keys : k \notin KeysSet' => c[k] = Empty
      /\ nodes'[<<level, key>>] = Path(key, v)[<<level, key>>]
  <2>1. /\ KeysSet' = KeysSet \cup {key} /\ Contents'[key] = v
        /\ \A k \in Keys : Contents'[k] = IF k \in KeysSet' THEN Value(k)' ELSE Empty
        /\ \A i \in Levels : nodes'[<<i, key>>] = Path(key, v)[<<i, key>>]
    BY SetEffects
  <2> QED BY <2>1
<1>2. KeysSet' \subseteq Keys /\ DOMAIN nodes = Levels \X KeysSet
  BY DEF KeysSet, TypeOK
<1> HIDE DEF c
<1>3. ASSUME NEW i \in 0..Depth - 1, i < level
      PROVE  SiblingHash(nodes, i, key) = SubtreeHash(c, i, Flipped(key, i))
  <2> DEFINE f == Flipped(key, i)
  <2>1. f \in Keys /\ f # key /\ i \in Levels
    BY Bits
  <2>2. ASSUME NEW m \in Keys, Together(m, f, i) PROVE m \notin KeysSet'
    <3>1. Together(m, key, level)
      BY <1>3, <2>2, TreeAssumption DEF Together, Flipped, BitPos, Levels, Keys
    <3>2. m # key
      BY <2>2, TreeAssumption DEF Together, Flipped, BitPos, Levels, Keys
    <3> QED BY <3>1, <3>2 DEF Alone
  <2>3. f \notin KeysSet
    BY <1>1, <2>1, <2>2 DEF Together
  <2>4. SiblingHash(nodes, i, key) = defaultHashes[i]
    BY <1>2, <2>3 DEF SiblingHash, NodeHash, Flipped
  <2>5. SubtreeHash(c, i, f) = defaultHashes[i]
    BY <1>1, <2>1, <2>2, EmptySubtree
  <2> QED BY <2>4, <2>5
<1>4. Path(key, v)[<<level, key>>] = SubtreeHash(c, level, key)
  BY <1>1, <1>3, PathIsRight
<1> QED BY <1>1, <1>4 DEF c

(* What Set leaves of the path of another key is as right as it was.       *)
LEMMA SetOthers ==
  ASSUME TypeOK, NEW key \in Keys, NEW v \in Values \cup {Empty}, Set(key, v),
         NEW k \in Keys, NEW level \in Levels, ~Together(key, k, level)
  PROVE  SubtreeHash(Contents', level, k) = SubtreeHash(Contents, level, k)
<1>1. \A m \in Keys : m # key => Contents'[m] = Contents[m]
  BY SetEffects
<1>2. SameUnder(Contents', Contents, k, level)
  BY <1>1 DEF SameUnder
<1>3. Together(k, k, level)
  BY DEF Together
<1> QED BY <1>2, <1>3, SubtreeOfContents

(* Where all keys set are neighbours of the one that is set now, each of   *)
(* its siblings is found or empty.                                         *)
LEMMA SetAmongNeighbours ==
  ASSUME SparseInv, NEW key \in Keys, NEW v \in Values \cup {Empty}, Set(key, v),
         \A j, k \in KeysSet' : j = k \/ Neighbours(j, k)
  PROVE  root' = SubtreeHash(Contents', Depth, key)
<1> DEFINE c == Contents
           d == Contents'
<1>1. /\ TypeOK
      /\ KeysSet' = KeysSet \cup {key} /\ d[key] = v
      /\ \A k \in Keys : k \notin KeysSet' => d[k] = Empty
      /\ \A i \in Levels : nodes'[<<i, key>>] = Path(key, v)[<<i, key>>]
      /\ root' = nodes'[<<Depth, key>>]
  BY SetEffects DEF SparseInv
<1>2. KeysSet' \subseteq Keys /\ DOMAIN nodes = Levels \X KeysSet /\ KeysSet \subseteq Keys
  BY <1>1 DEF KeysSet, TypeOK
<1>3. \A k \in KeysSet, i \in Levels : Alone(k, i) => nodes[<<i, k>>] = SubtreeHash(c, i, k)
  BY DEF SparseInv
<1>4. ASSUME NEW k \in Keys, NEW i \in Levels, ~Together(key, k, i)
      PROVE  SubtreeHash(d, i, k) = SubtreeHash(c, i, k)
  BY <1>1, <1>4, SetOthers
<1> HIDE DEF c, d
<1>5. ASSUME NEW i \in 0..Depth - 1
      PROVE  SiblingHash(nodes, i, key) = SubtreeHash(d, i, Flipped(key, i))
  <2> DEFINE f == Flipped(key, i)
  <2>1. f \in Keys /\ f # key /\ i \in Levels
    BY Bits
  <2>2. ~Together(key, f, i)
    BY TreeAssumption DEF Together, Flipped, BitPos, Keys
  <2>3. ASSUME NEW j \in KeysSet', Together(j, f, i) PROVE j = f
    <3>1. j # key
      BY <2>2, <2>3
    <3>2. PICK pos \in 1..Depth : j = [key EXCEPT ![pos] = 1 - @]
      BY <1>1, <3>1 DEF Neighbours
    <3>3. pos = BitPos(i)
      <4>1. BitPos(i) \in 1..Depth /\ BitPos(i) \in 1..Depth - i /\ key[BitPos(i)] \in {0, 1}
        BY Bits DEF BitPos
      <4>2. j[BitPos(i)] = f[BitPos(i)]
        BY <2>3, <4>1 DEF Together
      <4>3. f[BitPos(i)] # key[BitPos(i)]
        BY <4>1 DEF Flipped, Keys
      <4>4. pos # BitPos(i) => j[BitPos(i)] = key[BitPos(i)]
        BY <3>2, <4>1
      <4> QED BY <4>2, <4>3, <4>4
    <3> QED BY <3>2, <3>3 DEF Flipped
  <2>4. CASE f \in KeysSet
    <3>1. Alone(f, i)
      BY <1>1, <2>3 DEF Alone
    <3>2. nodes[<<i, f>>] = SubtreeHash(c, i, f)
      BY <1>3, <2>1, <2>4, <3>1
    <3>3. SiblingHash(nodes, i, key) = nodes[<<i, f>>]
      BY <1>2, <2>1, <2>4 DEF SiblingHash, NodeHash, Flipped
    <3> QED BY <1>4, <2>1, <2>2, <3>2, <3>3
  <2>5. CASE f \notin KeysSet
    <3>1. \A m \in Keys : Together(m, f, i) => d[m] = Empty
      BY <1>1, <2>1, <2>3, <2>5
    <3>2. SiblingHash(nodes, i, key) = defaultHashes[i]
      BY <1>2, <2>5 DEF SiblingHash, NodeHash, Flipped
    <3> QED BY <2>1, <3>1, <3>2, EmptySubtree
  <2> QED BY <2>4, <2>5
<1>6. Depth \in Levels
  BY TreeAssumption DEF Levels
<1>7. Path(key, v)[<<Depth, key>>] = SubtreeHash(d, Depth, key)
  BY <1>1, <1>5, <1>6, PathIsRight
<1> QED BY <1>1, <1>6, <1>7 DEF d

LEMMA SparseStep == SparseInv /\ [Next]_vars => SparseInv'
<1> SUFFICES ASSUME SparseInv, [Next]_vars PROVE SparseInv'
  OBVIOUS
<1>1. ASSUME NEW key \in Keys, NEW v \in Values \cup {Empty}, Set(key, v)
      PROVE  SparseInv'
  <2>0. TypeOK
    BY DEF SparseInv
  <2>1. /\ KeysSet' = KeysSet \cup {key} /\ TypeOK' /\ last' = key /\ last' # Unset
        /\ root' = nodes'[<<Depth, key>>]
        /\ \A k \in Keys : k # key => Contents'[k] = Contents[k] /\ Value(k)' = Value(k)
        /\ Value(key)' = v
        /\ \A i \in Levels : nodes'[<<i, key>>] = Path(key, v)[<<i, key>>]
        /\ \A i \in Levels, k \in KeysSet : k # key => nodes'[<<i, k>>] = nodes[<<i, k>>]
        /\ \A i \in 0..Depth - 1 : SiblingHash(nodes', i, key) = SiblingHash(nodes, i, key)
    BY <1>1, <2>0, SetEffects
  <2>2. /\ 0 \in Levels /\ \A i \in 0..Depth - 1 : i \in Levels /\ i + 1 \in Levels
        /\ KeysSet \subseteq Keys
    BY TreeAssumption DEF Levels, KeysSet
  <2>3. /\ Path(key, v)[<<0, key>>] = Hash(v)
        /\ \A i \in 0..Depth - 1 : Path(key, v)[<<i + 1, key>>]
              = Combine(key, i, Path(key, v)[<<i, key>>], SiblingHash(nodes, i, key))
    BY PathUnfolds
  <2>4. \A k \in KeysSet' : nodes'[<<0, k>>] = Hash(Value(k)')
    <3>1. nodes'[<<0, key>>] = Hash(Value(key)')
      BY <2>1, <2>2, <2>3
    <3>2. ASSUME NEW k \in KeysSet, k # key PROVE nodes'[<<0, k>>] = Hash(Value(k)')
      <4>1. nodes[<<0, k>>] = Hash(Value(k))
        BY DEF SparseInv
      <4> QED BY <2>1, <2>2, <3>2, <4>1
    <3> QED BY <2>1, <3>1, <3>2
  <2>5. \A i \in 0..Depth - 1 :
          nodes'[<<i + 1, key>>]
            = Combine(key, i, nodes'[<<i, key>>], SiblingHash(nodes', i, key))
    BY <2>1, <2>2, <2>3
  <2>6. ASSUME NEW k \in KeysSet', NEW level \in Levels, Alone(k, level)'
        PROVE  nodes'[<<level, k>>] = SubtreeHash(Contents', level, k)
    <3>1. CASE k = key
      BY <1>1, <2>0, <2>6, <3>1, SetAlone
    <3>2. CASE k # key
      <4>1. k \in KeysSet /\ k \in Keys
        BY <2>1, <2>2, <3>2
      <4>2. ~Together(key, k, level)
        BY <2>1, <2>6, <3>2 DEF Alone
      <4>3. Alone(k, level)
        BY <2>1, <2>6 DEF Alone
      <4>4. nodes[<<level, k>>] = SubtreeHash(Contents, level, k)
        BY <4>1, <4>3 DEF SparseInv
      <4>5. SubtreeHash(Contents', level, k) = SubtreeHash(Contents, level, k)
        BY <1>1, <2>0, <4>1, <4>2, SetOthers
      <4> QED BY <2>1, <3>2, <4>1, <4>4, <4>5
    <3> QED BY <3>1, <3>2
  <2>7. (\A j, k \in KeysSet' : j = k \/ Neighbours(j, k))
          => root' = SubtreeHash(Contents', Depth, key)
    BY <1>1, SetAmongNeighbours
  <2> QED BY <2>1, <2>4, <2>5, <2>6, <2>7 DEF SparseInv
<1>2. CASE UNCHANGED vars
  BY <1>2 DEF vars, SparseInv, TypeOK, KeysSet, IsSet, Value, Contents, Alone
<1> QED BY <1>1, <1>2 DEF Next

(***************************************************************************)
(* What is stored along the path of each key is right for the values that  *)
(* Get returns wherever no other key is set below, at any depth, and the   *)
(* path of the last Set is the one its root was combined along.            *)
(***************************************************************************)
THEOREM SparseTreeIsSound == Spec => []SparseInv
BY SparseInitInv, SparseStep, PTL DEF Spec

(***************************************************************************)
(* After any sequence of Sets the proof of the last key verifies and every *)
(* proof shows the value Get returns (ProofsAfterSet), for keys of any     *)
(* length and any number of them.                                          *)
(***************************************************************************)
THEOREM ProofsFollowSet == Spec => []ProofsAfterSet
<1>1. SparseInv => LastSetVerifies
  <2> SUFFICES ASSUME SparseInv, last # Unset PROVE VerifyProof(GenerateProof(last))
    BY DEF LastSetVerifies
  <2>1. /\ TypeOK /\ root = nodes[<<Depth, last>>]
        /\ \A i \in 0..Depth - 1 :
             nodes[<<i + 1, last>>]
               = Combine(last, i, nodes[<<i, last>>], SiblingHash(nodes, i, last))
    BY DEF SparseInv
  <2>2. last \in KeysSet /\ DOMAIN nodes = Levels \X KeysSet /\ Depth \in Nat \ {0}
    BY <2>1, TreeAssumption DEF TypeOK
  <2> DEFINE given == GenerateProof(last)
             f == [i \in 0..Depth |-> nodes[<<i, last>>]]
  <2>3. /\ given.siblings = [i \in 1..Depth |-> SiblingHash(nodes, i - 1, last)]
        /\ given.pathBits = [i \in 1..Depth |-> ~IsRightChild(last, BitPos(i - 1))]
        /\ given.rootHash = root /\ given.leafHash = NodeHash(nodes, 0, last)
    BY DEF GenerateProof
  <2>4. Len(given.siblings) = Depth /\ Len(given.pathBits) = Depth
    BY <2>2, <2>3
  <2>5. f[0] = given.leafHash
    <3>1. <<0, last>> \in DOMAIN nodes
      BY <2>2 DEF Levels
    <3> QED BY <2>2, <2>3, <3>1 DEF NodeHash
  <2>6. ASSUME NEW i \in 1..Depth
        PROVE  f[i] = IF given.pathBits[i] THEN HashPair(f[i - 1], given.siblings[i])
                                           ELSE HashPair(given.siblings[i], f[i - 1])
    <3>1. i - 1 \in 0..Depth - 1 /\ (i - 1) + 1 = i /\ i \in 0..Depth /\ i - 1 \in 0..Depth
      BY <2>2
    <3>2. f[i] = Combine(last, i - 1, f[i - 1], SiblingHash(nodes, i - 1, last))
      <4>1. nodes[<<(i - 1) + 1, last>>]
              = Combine(last, i - 1, nodes[<<i - 1, last>>], SiblingHash(nodes, i - 1, last))
        BY <2>1, <3>1
      <4> QED BY <3>1, <4>1
    <3>3. /\ given.siblings[i] = SiblingHash(nodes, i - 1, last)
          /\ given.pathBits[i] = ~IsRightChild(last, BitPos(i - 1))
      BY <2>3
    <3> HIDE DEF given, f
    <3> QED BY <3>2, <3>3 DEF Combine
  <2>7. f[Depth] = given.rootHash
    BY <2>1, <2>2, <2>3
  <2> HIDE DEF given, f
  <2>8. VerifyProof(given) <=> f[Depth] = given.rootHash
    BY <2>2, <2>4, <2>5, <2>6, VerifiesWhen
  <2> QED BY <2>7, <2>8 DEF given
<1>2. SparseInv => ProofShowsValue
  <2> SUFFICES ASSUME SparseInv, NEW key \in Keys
               PROVE  NodeHash(nodes, 0, key) = Hash(Value(key))
    BY DEF ProofShowsValue, GenerateProof
  <2>1. 0 \in Levels /\ DOMAIN nodes = Levels \X KeysSet
    BY TreeAssumption DEF Levels, SparseInv, TypeOK
  <2>2. CASE key \in KeysSet
    <3>1. nodes[<<0, key>>] = Hash(Value(key))
      BY <2>2 DEF SparseInv
    <3> QED BY <2>1, <2>2, <3>1 DEF NodeHash
  <2>3. CASE key \notin KeysSet
    BY <2>1, <2>3, DefaultHashes DEF NodeHash, Value, KeysSet
  <2> QED BY <2>2, <2>3
<1>3. SparseInv => TypeOK
  BY DEF SparseInv
<1> QED BY <1>1, <1>2, <1>3, SparseTreeIsSound, PTL DEF ProofsAfterSet

(***************************************************************************)
(* As long as the keys set are one, or two that differ in one bit, the     *)
(* root is that of a sparse Merkle tree of the contents                    *)
(* (RootOfNeighbours), at any depth and in whatever order they are set.    *)
(***************************************************************************)
THEOREM NeighboursHaveTheRoot == Spec => []RootOfNeighbours
<1>1. SparseInv => RootOfNeighbours
  <2> SUFFICES ASSUME SparseInv, \A j, k \in KeysSet : j = k \/ Neighbours(j, k)
               PROVE  root = SubtreeHash(Contents, Depth, [i \in 1..Depth |-> 0])
    BY DEF RootOfNeighbours
  <2> DEFINE zeros == [i \in 1..Depth |-> 0]
  <2>1. zeros \in Keys /\ Depth \in Levels
    BY TreeAssumption DEF Keys, Levels
  <2>2. CASE last = Unset
    <3>1. \A m \in Keys : Contents[m] = Empty
      BY <2>2 DEF SparseInv, Contents, Value, KeysSet
    <3> HIDE DEF zeros
    <3>2. SubtreeHash(Contents, Depth, zeros) = defaultHashes[Depth]
      BY <2>1, <3>1, EmptySubtree
    <3> QED BY <2>2, <3>2 DEF SparseInv, zeros
  <2>3. CASE last # Unset
    <3>1. last \in Keys
      BY <2>3 DEF SparseInv, TypeOK, KeysSet
    <3>2. Together(last, zeros, Depth) /\ SameUnder(Contents, Contents, last, Depth)
      BY TreeAssumption DEF Together, SameUnder
    <3>3. root = SubtreeHash(Contents, Depth, last)
      BY <2>3 DEF SparseInv
    <3> HIDE DEF zeros
    <3>4. SubtreeHash(Contents, Depth, last) = SubtreeHash(Contents, Depth, zeros)
      BY <2>1, <3>1, <3>2, SubtreeOfContents
    <3> QED BY <3>3, <3>4 DEF zeros
  <2> QED BY <2>2, <2>3
<1> QED BY <1>1, SparseTreeIsSound, PTL

-----------------------------------------------------------------------------
LEMMA ListsAreSequences ==
  ASSUME NEW items \in Lists
  PROVE  /\ Len(items) \in 0..MaxItems /\ items \in [1..Len(items) -> Items]
         /\ DOMAIN items = 1..Len(items)
<1>1. PICK n \in 0..MaxItems : items \in [1..n -> Items]
  BY DEF Lists
<1>2. n \in Nat
  BY ListAssumption
<1>3. Len(items) = n
  BY <1>1, <1>2
<1> QED BY <1>1, <1>3

(* A level has half as many nodes as its children, rounded up.             *)
Half(m, n) == m \in Nat /\ (2 * m = n \/ 2 * m = n + 1)

LEMMA BuildParentLevelType ==
  ASSUME NEW s, Len(s) \in Nat
  PROVE  LET p == BuildParentLevel(s)
         IN  /\ Half(Len(p), Len(s)) /\ DOMAIN p = 1..Len(p)
             /\ \A k \in 1..Len(p) :
                  p[k] = HashPair(s[2 * k - 1], IF 2 * k <= Len(s) THEN s[2 * k] ELSE s[2 * k - 1])
<1> DEFINE n == Len(s)
           m == (n + 1) \div 2
<1>1. n \in Nat
  OBVIOUS
<1> HIDE DEF n
<1>2. Half(m, n)
  BY <1>1 DEF Half
<1> HIDE DEF m
<1>3. BuildParentLevel(s) = [k \in 1..m |-> HashPair(s[2 * k - 1], IF 2 * k <= n THEN s[2 * k] ELSE s[2 * k - 1])]
  BY DEF BuildParentLevel, m, n
<1>4. Len(BuildParentLevel(s)) = m
  BY <1>2, <1>3 DEF Half
<1> QED BY <1>2, <1>3, <1>4 DEF n

(* s is the levels of a tree of items, of which h are above the leaves.    *)
Leaves(items) == [j \in 1..Len(items) |-> Hash(items[j])]
Tower(s, h, items) ==
  /\ h \in Nat /\ DOMAIN s = 1..h + 1 /\ Len(s) = h + 1
  /\ s[1] = Leaves(items)
  /\ \A k \in 1..h : Len(s[k]) > 1 /\ s[k + 1] = BuildParentLevel(s[k])
  /\ Len(s[h + 1]) <= 1

LEMMA LevelsAreATower ==
  ASSUME NEW items, Len(items) \in Nat
  PROVE  \E h : Tower(LevelsOf(items), h, items)
<1> DEFINE size == Len(items)
           Row(k, below) == IF k = 0 THEN Leaves(items) ELSE BuildParentLevel(below)
           Fold(n, f) == [k \in 0..n |-> Row(k, f[k - 1])]
           N == {n \in Nat : \E f : f = Fold(n, f)}
           level == CHOOSE f : f = Fold(size, f)
           height == CHOOSE k \in 0..size : Len(level[k]) <= 1 /\ \A j \in 0..k - 1 : Len(level[j]) > 1
<1>1. LevelsOf(items) = [k \in 1..height + 1 |-> level[k - 1]]
  BY DEF LevelsOf, Leaves
<1> HIDE DEF Row
<1>2. 0 \in N
  <2> DEFINE f == [k \in 0..0 |-> Row(0, 0)]
  <2>1. Row(0, 0) = Row(0, f[-1])
    BY DEF Row
  <2>2. f = Fold(0, f)
    BY <2>1
  <2> HIDE DEF f, Fold
  <2> QED BY <2>2
<1>3. ASSUME NEW n \in Nat, n \in N PROVE n + 1 \in N
  <2>1. PICK f : f = Fold(n, f)
    BY <1>3
  <2> DEFINE g == [k \in 0..n + 1 |-> IF k = n + 1 THEN Row(n + 1, f[n]) ELSE f[k]]
  <2>2. \A k \in 1..n : k - 1 \in 0..n /\ f[k] = Row(k, f[k - 1])
    BY <2>1
  <2>3. f[0] = Row(0, f[0 - 1]) /\ Row(0, f[0 - 1]) = Row(0, g[0 - 1])
    BY <2>1 DEF Row
  <2>4. g = Fold(n + 1, g)
    <3>1. ASSUME NEW k \in 0..n + 1 PROVE g[k] = Row(k, g[k - 1])
      <4>1. CASE k = 0
        BY <4>1, <2>3
      <4>2. CASE k \in 1..n
        BY <4>2, <2>2
      <4>3. CASE k = n + 1
        BY <4>3
      <4> QED BY <4>1, <4>2, <4>3
    <3> QED BY <3>1
  <2> HIDE DEF g, Fold
  <2> QED BY <2>4
<1>4. level = Fold(size, level)
  <2> HIDE DEF Fold
  <2>1. size \in N
    <3> HIDE DEF N, size
    <3>1. size \in Nat
      BY DEF size
    <3> QED BY <1>2, <1>3, <3>1, EveryNat
  <2> QED BY <2>1
<1> HIDE DEF level, N
<1>5. level[0] = Leaves(items) /\ \A k \in 1..size : level[k] = BuildParentLevel(level[k - 1])
  BY <1>4 DEF Row
<1> HIDE DEF Fold
<1> DEFINE S == {k \in Nat : k <= size => Len(level[k]) \in Nat /\ (Len(level[k]) <= 1 \/ Len(level[k]) <= size - k)}
<1>6. 0 \in S
  BY <1>5 DEF Leaves
<1>7. ASSUME NEW k \in Nat, k \in S PROVE k + 1 \in S
  <2> SUFFICES ASSUME k + 1 <= size
               PROVE  /\ Len(level[k + 1]) \in Nat
                      /\ Len(level[k + 1]) <= 1 \/ Len(level[k + 1]) <= size - (k + 1)
    OBVIOUS
  <2>1. Len(level[k]) \in Nat /\ (Len(level[k]) <= 1 \/ Len(level[k]) <= size - k)
    BY <1>7
  <2>2. k + 1 \in 1..size /\ (k + 1) - 1 = k
    OBVIOUS
  <2>3. level[k + 1] = BuildParentLevel(level[k])
    BY <2>2, <1>5
  <2>4. Half(Len(level[k + 1]), Len(level[k]))
    BY <2>1, <2>3, BuildParentLevelType
  <2> QED BY <2>1, <2>4 DEF Half
<1>8. \A k \in 0..size : Len(level[k]) \in Nat /\ (Len(level[k]) <= 1 \/ Len(level[k]) <= size - k)
  <2> HIDE DEF S
  <2>1. Nat \subseteq S
    BY <1>6, <1>7, EveryNat
  <2> QED BY <2>1 DEF S
<1> HIDE DEF S
<1> DEFINE Low == {k \in 0..size : Len(level[k]) <= 1}
<1>9. PICK k \in Low : \A j \in Low : k <= j
  <2>1. size \in Low
    BY <1>8
  <2>2. Low \in SUBSET Nat
    OBVIOUS
  <2> HIDE DEF Low
  <2> QED BY <2>1, <2>2, LeastNat
<1>10. \A j \in 0..k - 1 : Len(level[j]) > 1
  BY <1>8, <1>9
<1>11. height \in 0..size /\ Len(level[height]) <= 1 /\ \A j \in 0..height - 1 : Len(level[j]) > 1
  BY <1>9, <1>10
<1> HIDE DEF height
<1>12. Tower(LevelsOf(items), height, items)
  <2> DEFINE s == [k_1 \in 1..height + 1 |-> level[k_1 - 1]]
  <2>1. height \in Nat /\ DOMAIN s = 1..height + 1 /\ Len(s) = height + 1
    BY <1>11
  <2>2. s[1] = Leaves(items)
    BY <1>11, <1>5
  <2>3. ASSUME NEW j \in 1..height PROVE Len(s[j]) > 1 /\ s[j + 1] = BuildParentLevel(s[j])
    <3>1. j - 1 \in 0..height - 1 /\ j \in 1..size /\ j \in 1..height + 1
         /\ j + 1 \in 1..height + 1 /\ (j + 1) - 1 = j
      BY <1>11
    <3>2. \A i \in 1..height + 1 : s[i] = level[i - 1]
      OBVIOUS
    <3> HIDE DEF s
    <3>3. s[j] = level[j - 1] /\ s[j + 1] = level[j]
      BY <3>1, <3>2
    <3> QED BY <3>1, <3>3, <1>5, <1>11
  <2>4. Len(s[height + 1]) <= 1
    BY <1>11
  <2> HIDE DEF s
  <2>5. Tower(s, height, items)
    BY <2>1, <2>2, <2>3, <2>4 DEF Tower
  <2> QED BY <2>5, <1>1 DEF s
<1> QED BY <1>12

(* Every level is a sequence, and shorter lists have no longer levels.     *)
LEMMA TowerSequences ==
  ASSUME NEW items, Len(items) \in Nat, NEW s, NEW h, Tower(s, h, items)
  PROVE  /\ \A k \in 1..h + 1 : Len(s[k]) \in Nat
         /\ \A k \in 1..h : Half(Len(s[k + 1]), Len(s[k]))
         /\ Len(items) = 0 => h = 0 /\ Len(s[h + 1]) = 0
         /\ Len(items) > 0 => Len(s[h + 1]) = 1
<1> DEFINE S == {k \in Nat : k + 1 \in 1..h + 1 => /\ Len(s[k + 1]) \in Nat
                                                   /\ Len(items) > 0 => Len(s[k + 1]) > 0}
<1>1. 0 \in S
  BY DEF Tower, Leaves
<1>2. ASSUME NEW k \in Nat, k \in S PROVE k + 1 \in S
  <2> SUFFICES ASSUME (k + 1) + 1 \in 1..h + 1
               PROVE  /\ Len(s[(k + 1) + 1]) \in Nat
                      /\ Len(items) > 0 => Len(s[(k + 1) + 1]) > 0
    OBVIOUS
  <2>1. k + 1 \in 1..h /\ k + 1 \in 1..h + 1
    BY DEF Tower
  <2>2. s[(k + 1) + 1] = BuildParentLevel(s[k + 1])
    BY <2>1 DEF Tower
  <2>3. Len(s[k + 1]) \in Nat /\ (Len(items) > 0 => Len(s[k + 1]) > 0)
    BY <1>2, <2>1
  <2>4. Half(Len(s[(k + 1) + 1]), Len(s[k + 1]))
    BY <2>2, <2>3, BuildParentLevelType
  <2> QED BY <2>3, <2>4 DEF Half
<1>3. \A k \in Nat : k \in S
  <2> HIDE DEF S
  <2> QED BY <1>1, <1>2, EveryNat
<1>4. \A k \in 1..h + 1 : Len(s[k]) \in Nat /\ (Len(items) > 0 => Len(s[k]) > 0)
  <2> TAKE k \in 1..h + 1
  <2>1. k - 1 \in Nat /\ (k - 1) + 1 = k
    BY DEF Tower
  <2>2. k - 1 \in S
    BY <2>1, <1>3
  <2> QED BY <2>1, <2>2
<1>5. \A k \in 1..h : Half(Len(s[k + 1]), Len(s[k]))
  <2> TAKE k \in 1..h
  <2>1. Len(s[k]) \in Nat /\ s[k + 1] = BuildParentLevel(s[k])
    BY <1>4 DEF Tower
  <2> QED BY <2>1, BuildParentLevelType
<1>6. Len(items) = 0 => h = 0 /\ Len(s[h + 1]) = 0
  BY DEF Tower, Leaves
<1>7. Len(items) > 0 => Len(s[h + 1]) = 1
  <2>1. h + 1 \in 1..h + 1 /\ Len(s[h + 1]) <= 1
    BY DEF Tower
  <2>2. Len(s[h + 1]) \in Nat /\ (Len(items) > 0 => Len(s[h + 1]) > 0)
    BY <2>1, <1>4
  <2> DEFINE m == Len(s[h + 1])
  <2>3. m \in Nat /\ m <= 1 /\ (Len(items) > 0 => m > 0)
    BY <2>1, <2>2
  <2> HIDE DEF m
  <2>4. Len(items) > 0 => m = 1
    BY <2>3
  <2> QED BY <2>4 DEF m
<1> QED BY <1>4, <1>5, <1>6, <1>7

(* The index an ancestor has at each level of the tree is one of a node.   *)
LEMMA AncestorsUnfold ==
  ASSUME NEW index, NEW h \in Nat, DOMAIN levels = 1..h + 1
  PROVE  /\ Ancestors(index)[1] = index
         /\ \A k \in 1..h : Ancestors(index)[k + 1] = Ancestors(index)[k] \div 2
<1> DEFINE Row(k, below) == IF k = 1 THEN index ELSE below \div 2
           Fold(n, f) == [k \in 1..n |-> Row(k, f[k - 1])]
           N == {n \in Nat : \E f : f = Fold(n + 1, f)}
           at == Ancestors(index)
<1> HIDE DEF Row
<1>1. 0 \in N
  <2> DEFINE f == [k \in 1..0 + 1 |-> Row(1, 0)]
  <2>1. Row(1, 0) = Row(1, f[0])
    BY DEF Row
  <2>2. f = Fold(0 + 1, f)
    BY <2>1
  <2> HIDE DEF f, Fold
  <2> QED BY <2>2
<1>2. ASSUME NEW n \in Nat, n \in N PROVE n + 1 \in N
  <2>1. PICK f : f = Fold(n + 1, f)
    BY <1>2
  <2> DEFINE m == n + 2
             g == [k \in 1..m |-> IF k = m THEN Row(m, f[n + 1]) ELSE f[k]]
  <2>2. \A k \in 2..n + 1 : k - 1 \in 1..n + 1 /\ f[k] = Row(k, f[k - 1])
    BY <2>1
  <2>3. f[1] = Row(1, f[1 - 1]) /\ Row(1, f[1 - 1]) = Row(1, g[1 - 1])
    BY <2>1 DEF Row
  <2>4. g = Fold(m, g)
    <3>1. ASSUME NEW k \in 1..m PROVE g[k] = Row(k, g[k - 1])
      <4>1. CASE k = 1
        BY <4>1, <2>3
      <4>2. CASE k \in 2..n + 1
        BY <4>2, <2>2
      <4>3. CASE k = m
        BY <4>3
      <4> QED BY <4>1, <4>2, <4>3
    <3> QED BY <3>1
  <2>5. m = (n + 1) + 1
    OBVIOUS
  <2> HIDE DEF g, Fold, m
  <2> QED BY <2>4, <2>5
<1>3. \E f : f = Fold(h + 1, f)
  <2> HIDE DEF N
  <2>1. h \in N
    BY <1>1, <1>2, EveryNat
  <2> QED BY <2>1 DEF N
<1>4. at = CHOOSE f : f = Fold(h + 1, f)
  BY DEF Ancestors, Row
<1>5. at = Fold(h + 1, at)
  <2> HIDE DEF Fold, at
  <2> QED BY <1>3, <1>4
<1> HIDE DEF at
<1>6. \A k \in 1..h + 1 : at[k] = Row(k, at[k - 1])
  BY <1>5
<1>7. at[1] = index
  BY <1>6 DEF Row
<1>8. ASSUME NEW k \in 1..h PROVE at[k + 1] = at[k] \div 2
  <2>1. k + 1 \in 1..h + 1 /\ k + 1 # 1 /\ (k + 1) - 1 = k
    OBVIOUS
  <2>2. at[k + 1] = Row(k + 1, at[k])
    BY <1>6, <2>1
  <2> QED BY <2>1, <2>2 DEF Row
<1> QED BY <1>7, <1>8 DEF at

(* The parent of a node and its sibling, in the order of the node's side.  *)
LEMMA ParentOfNode ==
  ASSUME NEW s, Len(s) \in Nat, NEW i \in 0..Len(s) - 1
  PROVE  /\ i \div 2 \in 0..Len(BuildParentLevel(s)) - 1
         /\ BuildParentLevel(s)[i \div 2 + 1]
              = IF i % 2 = 0 THEN HashPair(s[i + 1], Sibling(s, i))
                             ELSE HashPair(Sibling(s, i), s[i + 1])
<1> DEFINE p == BuildParentLevel(s)
           n == Len(s)
           m == Len(p)
           q == i \div 2
           bit == i % 2
<1>1. /\ Half(m, n) /\ \A k \in 1..m : p[k] = HashPair(s[2 * k - 1], IF 2 * k <= n THEN s[2 * k] ELSE s[2 * k - 1])
  BY BuildParentLevelType
<1>2. n \in Nat /\ i \in 0..n - 1
  OBVIOUS
<1>3. Sibling(s, i) = IF bit = 1 THEN s[i] ELSE IF i + 1 < n THEN s[i + 2] ELSE s[i + 1]
  BY DEF Sibling
<1> HIDE DEF n, m, p
<1>4. q \in Nat /\ bit \in {0, 1} /\ i = 2 * q + bit
  BY <1>2
<1> HIDE DEF q, bit
<1>5. q \in 0..m - 1 /\ q + 1 \in 1..m
  BY <1>1, <1>2, <1>4 DEF Half
<1>6. p[q + 1] = HashPair(s[2 * q + 1], IF 2 * q + 2 <= n THEN s[2 * q + 2] ELSE s[2 * q + 1])
  <2>1. 2 * (q + 1) = 2 * q + 2 /\ 2 * (q + 1) - 1 = 2 * q + 1
    BY <1>4
  <2>2. p[q + 1] = HashPair(s[2 * (q + 1) - 1],
                            IF 2 * (q + 1) <= n THEN s[2 * (q + 1)] ELSE s[2 * (q + 1) - 1])
    BY <1>1, <1>5
  <2> QED BY <2>1, <2>2
<1>7. CASE bit = 0
  <2>1. i = 2 * q /\ i + 1 = 2 * q + 1 /\ i + 2 = 2 * q + 2 /\ (i + 1 < n <=> 2 * q + 2 <= n)
    BY <1>2, <1>4, <1>7
  <2>2. p[q + 1] = HashPair(s[i + 1], Sibling(s, i))
    BY <1>3, <1>6, <1>7, <2>1
  <2> QED BY <2>2, <1>5, <1>7 DEF q, bit, m, n, p
<1>8. CASE bit = 1
  <2>1. i = 2 * q + 1 /\ i + 1 = 2 * q + 2 /\ 2 * q + 2 <= n
    BY <1>2, <1>4, <1>8
  <2>2. p[q + 1] = HashPair(Sibling(s, i), s[i + 1])
    BY <1>3, <1>6, <1>8, <2>1
  <2> QED BY <2>2, <1>5, <1>8 DEF q, bit, m, n, p
<1> QED BY <1>4, <1>7, <1>8

LEMMA HashesDiffer ==
  ASSUME NEW a, NEW b, NEW c, NEW d
  PROVE  /\ Hash(a) = Hash(b) => a = b
         /\ HashPair(a, b) = HashPair(c, d) => a = c /\ b = d
BY DEF Hash, HashPair, Concat

(* An item with the hash of a parent is the hashes of its children.        *)
LEMMA LeafOfParent ==
  ASSUME NEW a, NEW c, NEW d, Hash(a) = HashPair(c, d)
  PROVE  a = Concat(c, d)
BY DEF Hash, HashPair

(* The hashes combined from any leaf on.                                   *)
LEMMA CombinedHashes ==
  ASSUME NEW given, NEW n \in Nat
  PROVE  \E f : /\ f[0] = given.leafHash
                /\ \A i \in 1..n :
                     f[i] = IF given.pathBits[i] THEN HashPair(f[i - 1], given.siblings[i])
                                                 ELSE HashPair(given.siblings[i], f[i - 1])
<1> DEFINE Row(i, below) == IF i = 0 THEN given.leafHash
                            ELSE IF given.pathBits[i] THEN HashPair(below, given.siblings[i])
                                                      ELSE HashPair(given.siblings[i], below)
           Fold(m, f) == [i \in 0..m |-> Row(i, f[i - 1])]
           N == {m \in Nat : \E f : f = Fold(m, f)}
<1> HIDE DEF Row
<1>1. 0 \in N
  <2> DEFINE f == [i \in 0..0 |-> Row(0, 0)]
  <2>1. Row(0, 0) = Row(0, f[-1])
    BY DEF Row
  <2>2. f = Fold(0, f)
    BY <2>1
  <2> HIDE DEF f, Fold
  <2> QED BY <2>2
<1>2. ASSUME NEW m \in Nat, m \in N PROVE m + 1 \in N
  <2>1. PICK f : f = Fold(m, f)
    BY <1>2
  <2> DEFINE g == [i \in 0..m + 1 |-> IF i = m + 1 THEN Row(m + 1, f[m]) ELSE f[i]]
  <2>2. \A i \in 1..m : i - 1 \in 0..m /\ f[i] = Row(i, f[i - 1])
    BY <2>1
  <2>3. f[0] = Row(0, f[0 - 1]) /\ Row(0, f[0 - 1]) = Row(0, g[0 - 1])
    BY <2>1 DEF Row
  <2>4. g = Fold(m + 1, g)
    <3>1. ASSUME NEW i \in 0..m + 1 PROVE g[i] = Row(i, g[i - 1])
      <4>1. CASE i = 0
        BY <4>1, <2>3
      <4>2. CASE i \in 1..m
        BY <4>2, <2>2
      <4>3. CASE i = m + 1
        BY <4>3
      <4> QED BY <4>1, <4>2, <4>3
    <3> QED BY <3>1
  <2> HIDE DEF g, Fold
  <2> QED BY <2>4
<1>3. PICK f : f = Fold(n, f)
  <2> HIDE DEF N
  <2>1. n \in N
    BY <1>1, <1>2, EveryNat
  <2> QED BY <2>1 DEF N
<1>4. \A i \in 0..n : f[i] = Row(i, f[i - 1])
  BY <1>3
<1> HIDE DEF Fold
<1>5. f[0] = given.leafHash
  BY <1>4 DEF Row
<1>6. ASSUME NEW i \in 1..n
      PROVE  f[i] = IF given.pathBits[i] THEN HashPair(f[i - 1], given.siblings[i])
                                         ELSE HashPair(given.siblings[i], f[i - 1])
  BY <1>4 DEF Row
<1> QED BY <1>5, <1>6

(* Two leaves that both verify with the rest of a proof are the same.      *)
LEMMA OneLeafVerifies ==
  ASSUME NEW given, NEW other, NEW n \in Nat, Len(given.siblings) = n, Len(given.pathBits) = n,
         other.siblings = given.siblings, other.pathBits = given.pathBits,
         other.rootHash = given.rootHash, VerifyProof(given), VerifyProof(other)
  PROVE  given.leafHash = other.leafHash
<1> DEFINE Step(f) == \A i \in 1..n :
                        f[i] = IF given.pathBits[i] THEN HashPair(f[i - 1], given.siblings[i])
                                                    ELSE HashPair(given.siblings[i], f[i - 1])
<1>1. PICK f : f[0] = given.leafHash /\ Step(f)
  BY CombinedHashes, ZenonT(30)
<1>2. PICK g : g[0] = other.leafHash /\ Step(g)
  <2>1. PICK g : /\ g[0] = other.leafHash
                 /\ \A i \in 1..n :
                      g[i] = IF other.pathBits[i] THEN HashPair(g[i - 1], other.siblings[i])
                                                  ELSE HashPair(other.siblings[i], g[i - 1])
    BY CombinedHashes, ZenonT(30)
  <2> QED BY <2>1
<1>3. f[n] = given.rootHash
  BY <1>1, VerifiesWhen
<1>4. g[n] = other.rootHash
  <2>1. \A i \in 1..n : g[i] = IF other.pathBits[i] THEN HashPair(g[i - 1], other.siblings[i])
                                                    ELSE HashPair(other.siblings[i], g[i - 1])
    BY <1>2
  <2>2. Len(other.siblings) = n /\ Len(other.pathBits) = n
    OBVIOUS
  <2> HIDE DEF Step
  <2> QED BY <1>2, <2>1, <2>2, VerifiesWhen
<1> DEFINE S == {k \in Nat : k <= n => f[n - k] = g[n - k]}
<1>5. 0 \in S
  BY <1>3, <1>4
<1>6. ASSUME NEW k \in Nat, k \in S PROVE k + 1 \in S
  <2> SUFFICES ASSUME k + 1 <= n PROVE f[n - (k + 1)] = g[n - (k + 1)]
    OBVIOUS
  <2>1. n - k \in 1..n /\ (n - k) - 1 = n - (k + 1)
    OBVIOUS
  <2>2. f[n - k] = g[n - k]
    BY <1>6
  <2> DEFINE i == n - k
  <2>3. i \in 1..n /\ f[i] = g[i]
    BY <2>1, <2>2
  <2> HIDE DEF i
  <2>4. f[i - 1] = g[i - 1]
    BY <1>1, <1>2, <2>3, HashesDiffer
  <2> QED BY <2>1, <2>4 DEF i
<1>7. n \in S
  <2> HIDE DEF S
  <2> QED BY <1>5, <1>6, EveryNat
<1>8. f[0] = g[0]
  BY <1>7
<1> QED BY <1>1, <1>2, <1>8

-----------------------------------------------------------------------------
(***************************************************************************)
(* The inductive invariant of MerkleTree: the levels are those of the      *)
(* data, and the proof is one generated from them.                         *)
(***************************************************************************)
TreeInv ==
  /\ data \in Lists
  /\ levels = LevelsOf(data)
  /\ proof # NoProof => \E index \in 0..Len(data) - 1 : proof = ProofOf(index)

(* The proof of any index verifies.                                        *)
LEMMA ProofOfVerifies ==
  ASSUME data \in Lists, levels = LevelsOf(data), NEW index \in 0..Len(data) - 1
  PROVE  /\ Len(ProofOf(index).siblings) = Len(levels) - 1 /\ Len(levels) - 1 \in Nat
         /\ Len(ProofOf(index).pathBits) = Len(levels) - 1
         /\ VerifyProof(ProofOf(index))
<1>1. Len(data) \in Nat /\ Len(data) > 0
  BY ListsAreSequences
<1>2. PICK h : Tower(levels, h, data)
  BY <1>1, LevelsAreATower
<1>3. h \in Nat /\ DOMAIN levels = 1..h + 1 /\ Len(levels) = h + 1 /\ Len(levels) - 1 = h
  BY <1>2 DEF Tower
<1>4. /\ \A k \in 1..h + 1 : Len(levels[k]) \in Nat
      /\ \A k \in 1..h : levels[k + 1] = BuildParentLevel(levels[k])
      /\ Len(levels[1]) = Len(data) /\ Len(levels[h + 1]) = 1
  <2>1. (\A k \in 1..h + 1 : Len(levels[k]) \in Nat) /\ Len(levels[h + 1]) = 1
    BY <1>1, <1>2, TowerSequences
  <2>2. (\A k \in 1..h : levels[k + 1] = BuildParentLevel(levels[k])) /\ levels[1] = Leaves(data)
    BY <1>2 DEF Tower
  <2>3. Len(Leaves(data)) = Len(data)
    BY <1>1 DEF Leaves
  <2> QED BY <2>1, <2>2, <2>3
<1> DEFINE at == Ancestors(index)
           given == ProofOf(index)
<1>5. at[1] = index /\ \A k \in 1..h : at[k + 1] = at[k] \div 2
  BY <1>3, AncestorsUnfold
<1> HIDE DEF at
<1>6. /\ given.leafHash = levels[1][index + 1] /\ given.rootHash = levels[h + 1][1]
      /\ given.siblings = [k \in 1..h |-> Sibling(levels[k], at[k])]
      /\ given.pathBits = [k \in 1..h |-> at[k] % 2 = 0]
  BY <1>3 DEF ProofOf, RootOf, at
<1> HIDE DEF given
<1> DEFINE S == {k \in Nat : k \in 1..h + 1 => at[k] \in 0..Len(levels[k]) - 1}
<1>7. \A k \in 1..h + 1 : at[k] \in 0..Len(levels[k]) - 1
  <2>1. 0 \in S
    OBVIOUS
  <2>2. ASSUME NEW k \in Nat, k \in S PROVE k + 1 \in S
    <3>1. CASE k = 0
      BY <3>1, <1>4, <1>5
    <3>2. CASE k \in 1..h
      <4>1. at[k] \in 0..Len(levels[k]) - 1 /\ Len(levels[k]) \in Nat
        BY <2>2, <3>2, <1>3, <1>4
      <4>2. at[k] \div 2 \in 0..Len(BuildParentLevel(levels[k])) - 1
        BY <4>1, ParentOfNode
      <4> QED BY <4>2, <3>2, <1>4, <1>5
    <3>3. CASE k > h
      BY <3>3, <1>3
    <3> QED BY <3>1, <3>2, <3>3, <1>3
  <2> HIDE DEF S
  <2>3. \A k \in Nat : k \in S
    BY <2>1, <2>2, EveryNat
  <2> QED BY <2>3 DEF S
<1> HIDE DEF S
<1> DEFINE f == [k \in 0..h |-> levels[k + 1][at[k + 1] + 1]]
<1>8. f[0] = given.leafHash
  BY <1>3, <1>5, <1>6
<1>9. f[h] = given.rootHash
  <2>1. at[h + 1] = 0
    <3>1. h + 1 \in 1..h + 1
      BY <1>3
    <3>2. at[h + 1] \in 0..Len(levels[h + 1]) - 1
      BY <3>1, <1>7
    <3> QED BY <3>2, <1>4
  <2> QED BY <2>1, <1>3, <1>6
<1>10. ASSUME NEW i \in 1..h
       PROVE  f[i] = IF given.pathBits[i] THEN HashPair(f[i - 1], given.siblings[i])
                                          ELSE HashPair(given.siblings[i], f[i - 1])
  <2>1. i \in 1..h + 1 /\ Len(levels[i]) \in Nat /\ at[i] \in 0..Len(levels[i]) - 1
    BY <1>3, <1>4, <1>7
  <2>2. /\ f[i] = BuildParentLevel(levels[i])[at[i] \div 2 + 1]
        /\ f[i - 1] = levels[i][at[i] + 1]
    <3>1. i \in 0..h /\ i - 1 \in 0..h /\ (i - 1) + 1 = i
      BY <1>3
    <3>2. f[i] = levels[i + 1][at[i + 1] + 1] /\ f[i - 1] = levels[i][at[i] + 1]
      BY <3>1
    <3>3. levels[i + 1] = BuildParentLevel(levels[i]) /\ at[i + 1] = at[i] \div 2
      BY <1>4, <1>5
    <3> QED BY <3>2, <3>3
  <2> HIDE DEF f
  <2>3. BuildParentLevel(levels[i])[at[i] \div 2 + 1]
          = IF at[i] % 2 = 0 THEN HashPair(levels[i][at[i] + 1], Sibling(levels[i], at[i]))
                             ELSE HashPair(Sibling(levels[i], at[i]), levels[i][at[i] + 1])
    BY <2>1, ParentOfNode
  <2>4. given.siblings[i] = Sibling(levels[i], at[i]) /\ given.pathBits[i] = (at[i] % 2 = 0)
    BY <1>6
  <2> QED BY <2>2, <2>3, <2>4
<1>11. Len(given.siblings) = h /\ Len(given.pathBits) = h
  BY <1>3, <1>6
<1> HIDE DEF f
<1>12. VerifyProof(given) <=> f[h] = given.rootHash
  BY <1>3, <1>8, <1>10, <1>11, VerifiesWhen
<1> QED BY <1>3, <1>9, <1>11, <1>12 DEF given

LEMMA TreeInitInv == TreeInit => TreeInv
<1> SUFFICES ASSUME TreeInit PROVE TreeInv
  OBVIOUS
<1>1. data \in Lists
  <2>1. <<>> \in [1..0 -> Items] /\ 0 \in 0..MaxItems
    BY ListAssumption
  <2> QED BY <2>1 DEF TreeInit, Lists
<1> QED BY <1>1 DEF TreeInit, TreeInv

LEMMA TreeStep == TreeInv /\ [TreeNext]_treeVars => TreeInv'
<1> SUFFICES ASSUME TreeInv, [TreeNext]_treeVars PROVE TreeInv'
  OBVIOUS
<1>1. ASSUME NEW items \in Lists, NewMerkleTree(items) PROVE TreeInv'
  BY <1>1 DEF NewMerkleTree, TreeInv
<1>2. ASSUME NEW index \in -1..MaxItems, GenerateTreeProof(index) PROVE TreeInv'
  <2>1. data' = data /\ levels' = levels
    BY <1>2 DEF GenerateTreeProof
  <2>2. \A i : ProofOf(i)' = ProofOf(i)
    BY <2>1 DEF ProofOf, Ancestors
  <2>3. proof' = IF index < 0 \/ Len(data) <= index THEN NoProof ELSE ProofOf(index)
    BY <1>2 DEF GenerateTreeProof
  <2>4. Len(data) \in Nat
    BY ListsAreSequences DEF TreeInv
  <2>5. CASE index < 0 \/ Len(data) <= index
    BY <2>1, <2>3, <2>5 DEF TreeInv
  <2>6. CASE ~(index < 0 \/ Len(data) <= index)
    <3>1. index \in 0..Len(data) - 1
      BY <2>4, <2>6, ListAssumption
    <3>2. proof' = ProofOf(index)'
      BY <2>2, <2>3, <2>6
    <3> QED BY <2>1, <3>1, <3>2 DEF TreeInv
  <2> QED BY <2>5, <2>6
<1>3. ASSUME UNCHANGED treeVars PROVE TreeInv'
  <2>1. data' = data /\ levels' = levels /\ proof' = proof
    BY <1>3 DEF treeVars
  <2>2. \A i : ProofOf(i)' = ProofOf(i)
    BY <2>1 DEF ProofOf, Ancestors
  <2> QED BY <2>1, <2>2 DEF TreeInv
<1> QED BY <1>1, <1>2, <1>3 DEF TreeNext

(***************************************************************************)
(* Every proof GenerateProof returns verifies, and with the hash of any    *)
(* other item in the place of its leaf's it does not (ProofVerifies), for  *)
(* lists of any length of any items.                                       *)
(***************************************************************************)
THEOREM GeneratedProofsVerify == TreeSpec => []ProofVerifies
<1>1. TreeInv => ProofVerifies
  <2> SUFFICES ASSUME TreeInv, proof # NoProof
               PROVE  /\ VerifyProof(proof)
                      /\ \A item \in Items :
                           VerifyProof([proof EXCEPT !.leafHash = Hash(item)])
                             => Hash(item) = proof.leafHash
    BY DEF ProofVerifies
  <2>1. PICK index \in 0..Len(data) - 1 : proof = ProofOf(index)
    BY DEF TreeInv
  <2>2. /\ VerifyProof(proof) /\ Len(proof.siblings) = Len(levels) - 1 /\ Len(levels) - 1 \in Nat
        /\ Len(proof.pathBits) = Len(levels) - 1
    BY <2>1, ProofOfVerifies DEF TreeInv
  <2>3. ASSUME NEW item \in Items, VerifyProof([proof EXCEPT !.leafHash = Hash(item)])
        PROVE  Hash(item) = proof.leafHash
    <3> DEFINE other == [proof EXCEPT !.leafHash = Hash(item)]
    <3>1. /\ other.siblings = proof.siblings /\ other.pathBits = proof.pathBits
          /\ other.rootHash = proof.rootHash /\ other.leafHash = Hash(item)
      BY <2>1 DEF ProofOf
    <3>2. VerifyProof(other)
      BY <2>3
    <3> HIDE DEF other
    <3> QED BY <2>2, <3>1, <3>2, OneLeafVerifies
  <2> QED BY <2>2, <2>3
<1> QED BY <1>1, TreeInitInv, TreeStep, PTL DEF TreeSpec

-----------------------------------------------------------------------------
(***************************************************************************)
(* Trees of one root.  Level by level from the root down, the nodes of the *)
(* tree of fewer items begin the other's, and every node the other has     *)
(* more is one of the last third of them.                                  *)
(***************************************************************************)
GoesOn(s, t) ==
  /\ Len(s) <= Len(t)
  /\ \A i \in 1..Len(s) : t[i] = s[i]
  /\ \A m \in Len(s) + 1..Len(t) :
       \E i \in 1..Len(s) : 3 * i >= 2 * Len(s) + 3 /\ t[m] = s[i]

LEMMA GoesOnBelow ==
  ASSUME NEW s, NEW t, Len(s) \in Nat, Len(t) \in Nat, Len(s) > 1, Len(s) <= Len(t),
         GoesOn(BuildParentLevel(s), BuildParentLevel(t))
  PROVE  GoesOn(s, t)
<1> DEFINE p == BuildParentLevel(s)
           q == BuildParentLevel(t)
           a == Len(s)
           b == Len(t)
           pa == Len(p)
           qb == Len(q)
           Right(r, n, k) == IF 2 * k <= n THEN r[2 * k] ELSE r[2 * k - 1]
<1>1. a \in Nat /\ b \in Nat /\ a > 1 /\ a <= b
  OBVIOUS
<1>2. /\ Half(pa, a) /\ \A k \in 1..pa : p[k] = HashPair(s[2 * k - 1], Right(s, a, k))
      /\ Half(qb, b) /\ \A k \in 1..qb : q[k] = HashPair(t[2 * k - 1], Right(t, b, k))
  BY BuildParentLevelType
<1>3. /\ pa <= qb /\ \A k \in 1..pa : q[k] = p[k]
      /\ \A k \in pa + 1..qb : \E j \in 1..pa : 3 * j >= 2 * pa + 3 /\ q[k] = p[j]
  BY DEF GoesOn
<1> SUFFICES /\ \A i \in 1..a : t[i] = s[i]
             /\ \A m \in a + 1..b : \E i \in 1..a : 3 * i >= 2 * a + 3 /\ t[m] = s[i]
  BY <1>1 DEF GoesOn
<1> HIDE DEF p, q, a, b, pa, qb, Right
<1>4. pa \in Nat /\ qb \in Nat /\ (2 * pa = a \/ 2 * pa = a + 1) /\ (2 * qb = b \/ 2 * qb = b + 1)
  BY <1>2 DEF Half
<1>5. ASSUME NEW k \in 1..qb, NEW j \in 1..pa, q[k] = p[j]
      PROVE  t[2 * k - 1] = s[2 * j - 1] /\ Right(t, b, k) = Right(s, a, j)
  <2>1. HashPair(t[2 * k - 1], Right(t, b, k)) = HashPair(s[2 * j - 1], Right(s, a, j))
    BY <1>2, <1>5
  <2> QED BY <2>1, HashesDiffer
<1>6. ASSUME NEW m \in 1..b
      PROVE  \E k \in 1..qb : m = 2 * k - 1 \/ m = 2 * k
  <2> DEFINE k == (m + 1) \div 2
  <2>1. k \in Nat /\ (2 * k = m \/ 2 * k = m + 1)
    BY <1>1
  <2> HIDE DEF k
  <2>2. k \in 1..qb /\ (m = 2 * k - 1 \/ m = 2 * k)
    BY <2>1, <1>1, <1>4
  <2> QED BY <2>2
<1>7. ASSUME NEW i \in 1..a PROVE t[i] = s[i]
  <2>0. i \in 1..b
    BY <1>1
  <2>1. PICK k \in 1..qb : i = 2 * k - 1 \/ i = 2 * k
    BY <2>0, <1>6
  <2>2. k \in 1..pa
    BY <2>1, <1>1, <1>4
  <2>3. t[2 * k - 1] = s[2 * k - 1] /\ Right(t, b, k) = Right(s, a, k)
    BY <2>2, <1>3, <1>5
  <2>4. CASE i = 2 * k
    <3>1. 2 * k <= a /\ 2 * k <= b
      BY <2>4, <1>1
    <3> QED BY <3>1, <2>3, <2>4 DEF Right
  <2> QED BY <2>1, <2>3, <2>4
<1>8. ASSUME NEW m \in a + 1..b
      PROVE  \E i \in 1..a : 3 * i >= 2 * a + 3 /\ t[m] = s[i]
  <2>0. m \in 1..b
    BY <1>1
  <2>1. PICK k \in 1..qb : m = 2 * k - 1 \/ m = 2 * k
    BY <2>0, <1>6
  <2>2. CASE k <= pa
    <3>1. k \in 1..pa /\ m = 2 * k /\ 2 * k - 1 = a /\ 3 * a >= 2 * a + 3
      BY <2>1, <2>2, <1>1, <1>4
    <3>2. Right(t, b, k) = Right(s, a, k)
      BY <3>1, <1>3, <1>5
    <3>3. 2 * k <= b /\ ~(2 * k <= a)
      BY <3>1, <1>1
    <3>4. t[m] = s[a]
      BY <3>1, <3>2, <3>3 DEF Right
    <3> QED BY <3>1, <3>4, <1>1
  <2>3. CASE k > pa
    <3>1. k \in pa + 1..qb
      BY <2>3, <1>4
    <3>2. PICK j \in 1..pa : 3 * j >= 2 * pa + 3 /\ q[k] = p[j]
      BY <3>1, <1>3
    <3>3. t[2 * k - 1] = s[2 * j - 1] /\ Right(t, b, k) = Right(s, a, j)
      BY <3>2, <1>5
    <3>4. 2 * j - 1 \in 1..a /\ 3 * (2 * j - 1) >= 2 * a + 3
      BY <3>2, <1>1, <1>4
    <3>5. CASE m = 2 * k - 1
      BY <3>3, <3>4, <3>5
    <3>6. CASE m = 2 * k /\ 2 * j <= a
      <4>1. 2 * k <= b /\ 2 * j \in 1..a /\ 3 * (2 * j) >= 2 * a + 3
        BY <3>2, <3>4, <3>6, <1>1
      <4>2. t[m] = s[2 * j]
        BY <3>3, <3>6, <4>1 DEF Right
      <4> QED BY <4>1, <4>2
    <3>7. CASE m = 2 * k /\ ~(2 * j <= a)
      <4>1. 2 * k <= b
        BY <3>7, <1>1
      <4>2. t[m] = s[2 * j - 1]
        BY <3>3, <3>7, <4>1 DEF Right
      <4> QED BY <3>4, <4>2
    <3> QED BY <2>1, <3>5, <3>6, <3>7
  <2> QED BY <2>2, <2>3, <1>4
<1> QED BY <1>7, <1>8

LEMMA HalfOfLess ==
  ASSUME NEW m \in Nat, NEW n \in Nat, m <= n, NEW j, NEW k, Half(j, m), Half(k, n)
  PROVE  j <= k
BY DEF Half

(* The longer of two lists does not have the lower tree.                   *)
LEMMA LongerIsNotLower ==
  ASSUME NEW items, Len(items) \in Nat, NEW s, NEW h, Tower(s, h, items),
         NEW others, Len(others) \in Nat, NEW t, NEW g, Tower(t, g, others),
         Len(items) <= Len(others)
  PROVE  h <= g
<1>1. /\ h \in Nat /\ g \in Nat /\ s[1] = Leaves(items) /\ t[1] = Leaves(others)
      /\ Len(t[g + 1]) <= 1 /\ \A k \in 1..h : Len(s[k]) > 1
  BY DEF Tower
<1>2. /\ \A k \in 1..h + 1 : Len(s[k]) \in Nat
      /\ \A k \in 1..g + 1 : Len(t[k]) \in Nat
      /\ \A k \in 1..h : Half(Len(s[k + 1]), Len(s[k]))
      /\ \A k \in 1..g : Half(Len(t[k + 1]), Len(t[k]))
  BY TowerSequences
<1> DEFINE S == {k \in Nat : k <= h /\ k <= g => Len(s[k + 1]) <= Len(t[k + 1])}
<1>3. 0 \in S
  BY <1>1 DEF Leaves
<1>4. ASSUME NEW k \in Nat, k \in S PROVE k + 1 \in S
  <2> SUFFICES ASSUME k + 1 <= h, k + 1 <= g PROVE Len(s[(k + 1) + 1]) <= Len(t[(k + 1) + 1])
    OBVIOUS
  <2>1. k + 1 \in 1..h /\ k + 1 \in 1..h + 1 /\ k + 1 \in 1..g /\ k + 1 \in 1..g + 1
    BY <1>1
  <2>2. Len(s[k + 1]) <= Len(t[k + 1])
    BY <1>4, <1>1
  <2>3. /\ Half(Len(s[(k + 1) + 1]), Len(s[k + 1])) /\ Half(Len(t[(k + 1) + 1]), Len(t[k + 1]))
        /\ Len(s[k + 1]) \in Nat /\ Len(t[k + 1]) \in Nat
    BY <2>1, <1>2
  <2> QED BY <2>2, <2>3, HalfOfLess
<1>5. g \in S
  <2> HIDE DEF S
  <2> QED BY <1>1, <1>3, <1>4, EveryNat
<1> SUFFICES ASSUME g < h PROVE FALSE
  BY <1>1
<1>6. g + 1 \in 1..h /\ g + 1 \in 1..h + 1 /\ g + 1 \in 1..g + 1
  BY <1>1
<1>7. Len(s[g + 1]) <= Len(t[g + 1])
  BY <1>1, <1>5
<1>8. Len(s[g + 1]) > 1 /\ Len(t[g + 1]) <= 1 /\ Len(s[g + 1]) \in Nat /\ Len(t[g + 1]) \in Nat
  BY <1>1, <1>2, <1>6
<1> QED BY <1>7, <1>8

(* The levels of a tree from any of them up to the root.                   *)
Stack(s, h) ==
  /\ h \in Nat
  /\ \A k \in 1..h + 1 : Len(s[k]) \in Nat
  /\ \A k \in 1..h : Len(s[k]) > 1 /\ s[k + 1] = BuildParentLevel(s[k])

LEMMA TowersAreStacks ==
  ASSUME NEW items, Len(items) \in Nat, NEW s, NEW h, Tower(s, h, items), NEW d \in 0..h
  PROVE  Stack([k \in 1..(h - d) + 1 |-> s[d + k]], h - d)
<1>1. /\ h \in Nat /\ h - d \in Nat
      /\ \A k \in 1..h : Len(s[k]) > 1 /\ s[k + 1] = BuildParentLevel(s[k])
  BY DEF Tower
<1>2. \A k \in 1..h + 1 : Len(s[k]) \in Nat
  BY TowerSequences
<1> DEFINE top == [k \in 1..(h - d) + 1 |-> s[d + k]]
<1>3. ASSUME NEW k \in 1..(h - d) + 1 PROVE Len(top[k]) \in Nat
  <2>1. d + k \in 1..h + 1
    BY <1>1
  <2> QED BY <2>1, <1>2
<1>4. ASSUME NEW k \in 1..h - d PROVE Len(top[k]) > 1 /\ top[k + 1] = BuildParentLevel(top[k])
  <2>1. /\ d + k \in 1..h /\ (d + k) + 1 = d + (k + 1)
        /\ k \in 1..(h - d) + 1 /\ k + 1 \in 1..(h - d) + 1
    BY <1>1
  <2>2. top[k] = s[d + k] /\ top[k + 1] = s[(d + k) + 1]
    BY <2>1
  <2> HIDE DEF top
  <2> QED BY <2>1, <2>2, <1>1
<1> HIDE DEF top
<1>5. Stack(top, h - d)
  BY <1>1, <1>3, <1>4 DEF Stack
<1> QED BY <1>5 DEF top

(* Under one root, levels as far below it go on with one another.          *)
LEMMA SameRoot ==
  ASSUME NEW s, NEW t, NEW h, Stack(s, h), Stack(t, h), s[h + 1] = t[h + 1],
         Len(s[1]) <= Len(t[1])
  PROVE  GoesOn(s[1], t[1])
<1>2. /\ h \in Nat /\ s[h + 1] = t[h + 1]
      /\ \A k \in 1..h : /\ Len(s[k]) > 1 /\ s[k + 1] = BuildParentLevel(s[k])
                         /\ t[k + 1] = BuildParentLevel(t[k])
  BY DEF Stack
<1>3. /\ \A k \in 1..h + 1 : Len(s[k]) \in Nat /\ Len(t[k]) \in Nat
      /\ \A k \in 1..h : Half(Len(s[k + 1]), Len(s[k])) /\ Half(Len(t[k + 1]), Len(t[k]))
  <2>1. \A k \in 1..h + 1 : Len(s[k]) \in Nat /\ Len(t[k]) \in Nat
    BY DEF Stack
  <2>2. ASSUME NEW k \in 1..h
        PROVE  Half(Len(s[k + 1]), Len(s[k])) /\ Half(Len(t[k + 1]), Len(t[k]))
    <3>1. k \in 1..h + 1
      BY <1>2
    <3> QED BY <2>1, <3>1, <1>2, BuildParentLevelType
  <2> QED BY <2>1, <2>2
<1> DEFINE Shorter == {k \in Nat : k <= h => Len(s[k + 1]) <= Len(t[k + 1])}
<1>4. 0 \in Shorter
  OBVIOUS
<1>5. ASSUME NEW k \in Nat, k \in Shorter PROVE k + 1 \in Shorter
  <2> SUFFICES ASSUME k + 1 <= h PROVE Len(s[(k + 1) + 1]) <= Len(t[(k + 1) + 1])
    OBVIOUS
  <2>1. k + 1 \in 1..h /\ k + 1 \in 1..h + 1 /\ (k + 1) + 1 \in 1..h + 1
    BY <1>2
  <2>2. /\ Half(Len(s[(k + 1) + 1]), Len(s[k + 1])) /\ Half(Len(t[(k + 1) + 1]), Len(t[k + 1]))
        /\ Len(s[k + 1]) \in Nat /\ Len(t[k + 1]) \in Nat
    BY <2>1, <1>3
  <2>3. Len(s[k + 1]) <= Len(t[k + 1])
    BY <2>1, <1>5, <1>2
  <2> QED BY <2>2, <2>3, HalfOfLess
<1>6. \A k \in Nat : k \in Shorter
  <2> HIDE DEF Shorter
  <2> QED BY <1>4, <1>5, EveryNat
<1> DEFINE S == {j \in Nat : j <= h => GoesOn(s[h - j + 1], t[h - j + 1])}
<1>7. 0 \in S
  <2>1. h + 1 \in 1..h + 1 /\ Len(s[h + 1]) \in Nat /\ s[h + 1] = t[h + 1]
    BY <1>2, <1>3
  <2> DEFINE r == s[h + 1]
  <2>2. Len(r) \in Nat /\ r = t[h + 1]
    BY <2>1
  <2> HIDE DEF r
  <2>3. GoesOn(r, r)
    BY <2>2 DEF GoesOn
  <2>4. h - 0 + 1 = h + 1
    BY <1>2
  <2> QED BY <2>2, <2>3, <2>4 DEF r
<1>8. ASSUME NEW j \in Nat, j \in S PROVE j + 1 \in S
  <2> SUFFICES ASSUME j + 1 <= h PROVE GoesOn(s[h - (j + 1) + 1], t[h - (j + 1) + 1])
    OBVIOUS
  <2> DEFINE k == h - j
  <2>1. k \in 1..h /\ k \in 1..h + 1 /\ h - (j + 1) + 1 = k
    BY <1>2
  <2>2. GoesOn(s[k + 1], t[k + 1])
    BY <1>8, <1>2
  <2>3. Len(s[k]) <= Len(t[k])
    <3>1. k - 1 \in Nat /\ k - 1 <= h /\ (k - 1) + 1 = k
      BY <2>1, <1>2
    <3> HIDE DEF k
    <3>2. k - 1 \in Shorter
      BY <3>1, <1>6
    <3> QED BY <3>1, <3>2
  <2> HIDE DEF k, S, Shorter
  <2>4. /\ Len(s[k]) \in Nat /\ Len(t[k]) \in Nat /\ Len(s[k]) > 1
        /\ GoesOn(BuildParentLevel(s[k]), BuildParentLevel(t[k]))
    BY <2>1, <2>2, <1>2, <1>3
  <2>5. GoesOn(s[k], t[k])
    BY <2>3, <2>4, GoesOnBelow
  <2> QED BY <2>1, <2>5
<1>9. h \in S
  <2> HIDE DEF S
  <2> QED BY <1>2, <1>7, <1>8, EveryNat
<1>10. GoesOn(s[h - h + 1], t[h - h + 1]) /\ h - h + 1 = 1
  BY <1>2, <1>9
<1> QED BY <1>10

(***************************************************************************)
(* What RootDeterminesItems says two lists of one root have in common, for *)
(* lists of any length of any items: in trees of one height only the last  *)
(* nodes BuildParentLevel doubles can make them differ, and in trees of    *)
(* two heights the items of the lower one are two hashes joined.           *)
(***************************************************************************)
THEOREM RootTellsItems == TreeSpec => []RootDeterminesItems
<1>1. TreeInv => RootDeterminesItems
  <2> DEFINE Alike(items, other, higher) ==
               \/ /\ higher = 0
                  /\ IsPrefix(data, items)
                  /\ \A k \in (Len(data) + 1)..Len(items) :
                       \E j \in (Len(data) \div 2)..Len(data) : j > 0 /\ items[k] = data[j]
               \/ /\ higher > 0 /\ data # <<>>
                  /\ \A k \in 1..Len(data) :
                       \E i, j \in 1..Len(other[higher]) :
                         data[k] = Concat(other[higher][i], other[higher][j])
  <2> SUFFICES ASSUME TreeInv, NEW items \in Lists,
                      RootOf(LevelsOf(items)) = RootOf(levels), Len(data) <= Len(items)
               PROVE  Alike(items, LevelsOf(items), Len(LevelsOf(items)) - Len(levels))
    BY DEF RootDeterminesItems
  <2> DEFINE n == Len(data)
             m == Len(items)
             other == LevelsOf(items)
  <2>1. /\ n \in Nat /\ data \in [1..n -> Items] /\ m \in Nat /\ items \in [1..m -> Items] /\ n <= m
    BY ListsAreSequences DEF TreeInv
  <2>2. PICK h : Tower(levels, h, data)
    BY <2>1, LevelsAreATower DEF TreeInv
  <2>3. PICK g : Tower(other, g, items)
    BY <2>1, LevelsAreATower
  <2>4. levels[h + 1] = other[g + 1]
    BY <2>2, <2>3 DEF Tower, RootOf
  <2> HIDE DEF n, m, other, Alike
  <2> DEFINE d == g - h
             top == [k \in 1..h + 1 |-> other[d + k]]
  <2>5. /\ h \in Nat /\ g \in Nat /\ d \in 0..g /\ g - d = h
        /\ Len(other) - Len(levels) = d
        /\ levels[1] = Leaves(data) /\ other[1] = Leaves(items)
    <3>1. h <= g
      BY <2>1, <2>2, <2>3, LongerIsNotLower DEF n, m
    <3> QED BY <2>2, <2>3, <3>1 DEF Tower
  <2>6. /\ Len(Leaves(data)) = n /\ \A i \in 1..n : Leaves(data)[i] = Hash(data[i])
        /\ Len(Leaves(items)) = m /\ \A i \in 1..m : Leaves(items)[i] = Hash(items[i])
    BY <2>1 DEF Leaves, n, m
  <2>7. Stack(levels, h) /\ Stack(top, h) /\ levels[h + 1] = top[h + 1]
    <3>1. Stack([k \in 1..(g - d) + 1 |-> other[d + k]], g - d)
      <4> HIDE DEF d
      <4> QED BY <2>1, <2>3, <2>5, TowersAreStacks DEF m
    <3>2. \A k \in 1..h + 1 : Len(levels[k]) \in Nat
      BY <2>1, <2>2, TowerSequences DEF n
    <3>3. Stack(levels, h)
      BY <2>2, <3>2 DEF Tower, Stack
    <3>4. top[h + 1] = other[g + 1]
      BY <2>5
    <3> QED BY <2>4, <2>5, <3>1, <3>3, <3>4
  <2>8. top[1] = other[d + 1] /\ Len(top[1]) \in Nat /\ Len(levels[1]) = n
    BY <2>5, <2>6, <2>7 DEF Stack
  <2> HIDE DEF top
  <2>9. Len(levels[1]) <= Len(top[1]) => GoesOn(levels[1], top[1])
    BY <2>7, SameRoot
  <2>10. Len(top[1]) <= Len(levels[1]) => GoesOn(top[1], levels[1])
    BY <2>7, SameRoot
  <2> HIDE DEF d
  <2>11. CASE d = 0
    <3>1. GoesOn(Leaves(data), Leaves(items))
      BY <2>1, <2>5, <2>6, <2>8, <2>9, <2>11
    <3>2. \A i \in 1..n : i \in 1..m
      BY <2>1
    <3>3. ASSUME NEW i \in 1..n PROVE items[i] = data[i]
      <4>1. Hash(items[i]) = Hash(data[i])
        BY <3>1, <3>2, <2>6 DEF GoesOn
      <4> QED BY <4>1, HashesDiffer
    <3>4. ASSUME NEW k \in n + 1..m
          PROVE  \E j \in n \div 2..n : j > 0 /\ items[k] = data[j]
      <4>1. PICK i \in 1..n : 3 * i >= 2 * n + 3 /\ Leaves(items)[k] = Leaves(data)[i]
        BY <3>1, <2>6 DEF GoesOn
      <4>2. k \in 1..m
        BY <2>1
      <4>3. Hash(items[k]) = Hash(data[i])
        BY <4>1, <4>2, <2>6
      <4>4. items[k] = data[i]
        BY <4>3, HashesDiffer
      <4>5. n \div 2 \in Int /\ 2 * (n \div 2) <= n
        BY <2>1
      <4>6. i \in n \div 2..n /\ i > 0
        BY <2>1, <4>1, <4>5
      <4> QED BY <4>4, <4>6
    <3>5. IsPrefix(data, items)
      <4>1. /\ SubSeq(data, 1, n) = [i \in 1..n |-> data[i]]
            /\ SubSeq(items, 1, n) = [i \in 1..n |-> items[i]]
        BY <2>1
      <4>2. [i \in 1..n |-> data[i]] = [i \in 1..n |-> items[i]]
        BY <3>3
      <4> QED BY <2>1, <4>1, <4>2 DEF IsPrefix, n, m
    <3> QED BY <2>5, <2>11, <3>4, <3>5 DEF Alike, n, m, other
  <2>12. CASE d > 0
    <3>1. n > 0
      <4> SUFFICES ASSUME n = 0 PROVE FALSE
        BY <2>1
      <4>1. Len(levels[h + 1]) = 0
        BY <2>1, <2>2, TowerSequences DEF n
      <4>2. m = 0
        BY <2>1, <2>3, <2>4, <4>1, TowerSequences DEF m
      <4>3. g = 0
        BY <2>1, <2>3, <4>2, TowerSequences DEF m
      <4> QED BY <4>3, <2>5, <2>12
    <3>2. ASSUME NEW k \in 1..n PROVE \E i \in 1..Len(top[1]) : Hash(data[k]) = top[1][i]
      <4>1. levels[1][k] = Hash(data[k]) /\ k \in 1..Len(levels[1])
        BY <2>5, <2>6
      <4>2. CASE Len(levels[1]) <= Len(top[1])
        <5>1. top[1][k] = levels[1][k] /\ k \in 1..Len(top[1])
          BY <2>1, <2>8, <2>9, <4>1, <4>2 DEF GoesOn
        <5> QED BY <4>1, <5>1
      <4>3. CASE Len(top[1]) <= Len(levels[1])
        <5>1. CASE k \in 1..Len(top[1])
          BY <2>10, <4>1, <4>3, <5>1 DEF GoesOn
        <5>2. CASE k \in Len(top[1]) + 1..Len(levels[1])
          BY <2>10, <4>1, <4>3, <5>2 DEF GoesOn
        <5> QED BY <2>1, <2>8, <4>1, <5>1, <5>2
      <4> QED BY <2>1, <2>8, <4>2, <4>3
    <3> DEFINE below == other[d]
               l == Len(below)
               p == BuildParentLevel(below)
    <3>3. l \in Nat /\ p = top[1]
      <4>1. d \in 1..g /\ d \in 1..g + 1
        BY <2>5, <2>12
      <4>2. l \in Nat
        BY <2>1, <2>3, <4>1, TowerSequences DEF m
      <4>3. other[d + 1] = p
        BY <2>3, <4>1 DEF Tower
      <4> QED BY <2>8, <4>2, <4>3
    <3>4. /\ Half(Len(p), l)
          /\ \A k \in 1..Len(p) :
               p[k] = HashPair(below[2 * k - 1], IF 2 * k <= l THEN below[2 * k] ELSE below[2 * k - 1])
      BY <3>3, BuildParentLevelType
    <3> HIDE DEF below, l, p
    <3>5. ASSUME NEW k \in 1..n PROVE \E i, j \in 1..l : data[k] = Concat(below[i], below[j])
      <4>1. PICK q \in 1..Len(p) : Hash(data[k]) = p[q]
        BY <3>2, <3>3
      <4> DEFINE right == IF 2 * q <= l THEN 2 * q ELSE 2 * q - 1
      <4>2. 2 * q - 1 \in 1..l /\ right \in 1..l
        BY <3>3, <3>4 DEF Half
      <4>3. Hash(data[k]) = HashPair(below[2 * q - 1], below[right])
        BY <3>4, <4>1
      <4> HIDE DEF right
      <4>4. data[k] = Concat(below[2 * q - 1], below[right])
        BY <4>3, LeafOfParent
      <4> QED BY <4>2, <4>4
    <3>6. data # <<>>
      BY <3>1 DEF n
    <3> QED BY <2>5, <2>12, <3>5, <3>6 DEF Alike, n, other, below, l
  <2> QED BY <2>5, <2>11, <2>12 DEF other
<1> QED BY <1>1, TreeInitInv, TreeStep, PTL DEF TreeSpec
=============================================================================
