-------------------------- MODULE SparseMerkleTree --------------------------
(***************************************************************************)
(* data-structures/merkle.go, SparseMerkleTree: a map from keys of Depth   *)
(* bits to values, with a root hash and proofs of inclusion and exclusion. *)
(*                                                                         *)
(* A key is the tuple of its bits, first bit first; bit position pos of    *)
(* the code is index pos + 1.  Level 0 is the leaves, level Depth the root.*)
(* Operators named Fault... are wrong versions of the operator that        *)
(* follows them.                                                           *)
(***************************************************************************)
EXTENDS FiniteSets, MerkleHash

CONSTANTS
  Depth,
  Values,       (* the values clients store                                  *)
  MaxKeys,      (* bound: how many different keys are set                   *)
  Empty         (* the empty byte string, which is also a value              *)

ASSUME TreeAssumption == Depth \in Nat \ {0} /\ Empty \notin Values /\ MaxKeys \in Nat

VARIABLES
  stored,       (* nodes[string(key)]: the raw value of each key set         *)
  nodes,        (* nodes["level:key"]: hashes, of the places that have one   *)
  root,
  last          (* the key of the last Set; history, only the properties     *)
                (* read it                                                   *)

vars == <<stored, nodes, root, last>>

Keys == [1..Depth -> {0, 1}]
Levels == 0..Depth
Unset == <<>>

-----------------------------------------------------------------------------
(* The hash of an empty subtree of each height.                              *)
defaultHashes[i \in Levels] ==
  IF i = 0 THEN Hash(Empty) ELSE HashPair(defaultHashes[i - 1], defaultHashes[i - 1])

(* bitPos, as an index of the tuple: the bit that says whether the node of   *)
(* this level is a right or a left child.                                    *)
FaultFirstBitFirst(level) == level + 1
BitPos(level) == Depth - level

IsRightChild(key, pos) == key[pos] = 1

NodeHash(ns, level, key) ==
  IF <<level, key>> \in DOMAIN ns THEN ns[<<level, key>>] ELSE defaultHashes[level]

(* The node stored under the key with the bit of this level flipped.         *)
SiblingHash(ns, level, key) ==
  NodeHash(ns, level, [key EXCEPT ![BitPos(level)] = 1 - @])

FaultSidesSwapped(key, level, hash, sibling) ==
  IF IsRightChild(key, BitPos(level)) THEN HashPair(hash, sibling)
                                      ELSE HashPair(sibling, hash)

(* A node's hash and its sibling's, in the order the node's side asks for.   *)
Combine(key, level, hash, sibling) ==
  IF IsRightChild(key, BitPos(level)) THEN HashPair(sibling, hash)
                                      ELSE HashPair(hash, sibling)

-----------------------------------------------------------------------------
Init ==
  /\ stored = [k \in Keys |-> Unset]
  /\ nodes = <<>>
  /\ root = defaultHashes[Depth]
  /\ last = Unset

(* The loop of Set reads a sibling at every level; it writes only nodes of   *)
(* the key itself, so the map it reads is the one it started with.           *)
Path(key, v) ==
  LET hash[i \in Levels] ==
        IF i = 0 THEN Hash(v)
        ELSE Combine(key, i - 1, hash[i - 1], SiblingHash(nodes, i - 1, key))
  IN  [place \in Levels \X {key} |-> hash[place[1]]]

(* setNodeHash for every place of the path. *)
Store(path) ==
  [place \in DOMAIN path \cup DOMAIN nodes |->
     IF place \in DOMAIN path THEN path[place] ELSE nodes[place]]

Set(key, v) ==
  LET path == Path(key, v) IN
  /\ stored' = [stored EXCEPT ![key] = <<v>>]
  /\ nodes' = Store(path)
  /\ root' = path[<<Depth, key>>]
  /\ last' = key

IsSet(key) == stored[key] # Unset
KeysSet == {key \in Keys : IsSet(key)}

Next ==
  \E key \in Keys, v \in Values \cup {Empty} :
    Cardinality(KeysSet \cup {key}) <= MaxKeys /\ Set(key, v)

Spec == Init /\ [][Next]_vars

-----------------------------------------------------------------------------
(* GenerateProof at the present state.                                       *)
GenerateProof(key) ==
  [leafHash |-> NodeHash(nodes, 0, key),
   siblings |-> [i \in 1..Depth |-> SiblingHash(nodes, i - 1, key)],
   pathBits |-> [i \in 1..Depth |-> ~IsRightChild(key, BitPos(i - 1))],
   rootHash |-> root]

-----------------------------------------------------------------------------
Value(key) == IF IsSet(key) THEN stored[key][1] ELSE Empty

Contents == [key \in Keys |-> Value(key)]

(* The hashes of the subtrees of a tree of these contents: at a level, under *)
(* a key, of the keys that agree with it on all but the last level bits.     *)
(* The children of a subtree differ in the first of those.                   *)
Subtrees(contents) ==
  LET at[level \in Levels] ==
        [key \in Keys |->
           IF level = 0 THEN Hash(contents[key])
           ELSE HashPair(at[level - 1][[key EXCEPT ![Depth + 1 - level] = 0]],
                         at[level - 1][[key EXCEPT ![Depth + 1 - level] = 1]])]
  IN  at

SubtreeHash(contents, level, key) == Subtrees(contents)[level][key]

Neighbours(j, k) == \E pos \in 1..Depth : k = [j EXCEPT ![pos] = 1 - @]

TypeOK ==
  /\ stored \in [Keys -> {Unset} \cup {<<v>> : v \in Values \cup {Empty}}]
  /\ DOMAIN nodes = Levels \X KeysSet
  /\ last \in {Unset} \cup KeysSet

(***************************************************************************)
(* After any sequence of Sets the proof of the key set last verifies: the  *)
(* siblings GenerateProof reads are those Set combined, on the same sides. *)
(***************************************************************************)
LastSetVerifies == last # Unset => VerifyProof(GenerateProof(last))

(***************************************************************************)
(* What a proof says of its key is what Get would return for it, the empty *)
(* value when it was never set: the raw values and the leaf hashes stored  *)
(* in the one map by Set stay in step.                                     *)
(***************************************************************************)
ProofShowsValue == \A key \in Keys : GenerateProof(key).leafHash = Hash(Value(key))

(***************************************************************************)
(* After every Set there is a right proof: of the key set last, and of the *)
(* value Get returns for any key.                                          *)
(***************************************************************************)
ProofsAfterSet == TypeOK /\ LastSetVerifies /\ ProofShowsValue

(***************************************************************************)
(* As long as the keys set are one key, or two whose bits differ in one    *)
(* place, the root is the root of a sparse Merkle tree of the contents, in *)
(* whatever order and however often they were set: the empty subtrees and  *)
(* the one sibling that is not empty are found.                            *)
(***************************************************************************)
RootOfNeighbours ==
  (\A j, k \in KeysSet : j = k \/ Neighbours(j, k))
    => root = SubtreeHash(Contents, Depth, [i \in 1..Depth |-> 0])

(***************************************************************************)
(* Every key that was set has a proof that verifies, as                    *)
(* TestSparseMerkleTree_ProofVerificationMultipleKeys asks.  The code does *)
(* not give this: a sibling is looked up under the one key that differs in *)
(* the bit of its level, and the node there, if any, is as it was when     *)
(* that key was set.  Another Set moves the root from under the proof.     *)
(***************************************************************************)
ProofsVerify == \A key \in KeysSet : VerifyProof(GenerateProof(key))
=============================================================================
