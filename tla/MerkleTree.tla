----------------------------- MODULE MerkleTree -----------------------------
(***************************************************************************)
(* data-structures/merkle.go, MerkleTree: built once from a list of items, *)
(* then asked for proofs.  A tree is its levels of hashes, leaves first;   *)
(* where a level has an odd number of nodes the last is its own sibling.   *)
(*                                                                         *)
(* Operators named Fault... are wrong versions of the one that follows.    *)
(***************************************************************************)
EXTENDS MerkleHash, SequencesExt

CONSTANTS
  Items,
  MaxItems      (* bound: the items of a list                                *)

ASSUME ListAssumption == MaxItems \in Nat

VARIABLES data, levels, proof

treeVars == <<data, levels, proof>>

NoProof == <<>>
Lists == UNION {[1..n -> Items] : n \in 0..MaxItems}

FaultDropLast(children) ==
  [k \in 1..(Len(children) \div 2) |-> HashPair(children[2 * k - 1], children[2 * k])]

BuildParentLevel(children) ==
  [k \in 1..((Len(children) + 1) \div 2) |->
     LET left == children[2 * k - 1]
         right == IF 2 * k <= Len(children) THEN children[2 * k] ELSE left
     IN  HashPair(left, right)]

(* The levels of a tree: the hashes of the items, and the parents of each    *)
(* level, up to the first of at most one node.  There are no more levels     *)
(* above the leaves than leaves.                                             *)
LevelsOf(items) ==
  LET level[k \in 0..Len(items)] ==
        IF k = 0 THEN [j \in 1..Len(items) |-> Hash(items[j])]
        ELSE BuildParentLevel(level[k - 1])
      height == CHOOSE k \in 0..Len(items) :
                  Len(level[k]) <= 1 /\ \A j \in 0..k - 1 : Len(level[j]) > 1
  IN  [k \in 1..height + 1 |-> level[k - 1]]

RootOf(lvls) == lvls[Len(lvls)]  (* empty for no items, else the one hash     *)

TreeInit == data = <<>> /\ levels = LevelsOf(<<>>) /\ proof = NoProof

NewMerkleTree(items) ==
  /\ data' = items
  /\ levels' = LevelsOf(items)
  /\ proof' = NoProof

(* The index of the ancestor at each level, from an index from 0.            *)
Ancestors(index) ==
  LET at[k \in DOMAIN levels] == IF k = 1 THEN index ELSE at[k - 1] \div 2 IN at

FaultNext(nodes, index) == IF index + 1 < Len(nodes) THEN nodes[index + 2] ELSE nodes[index + 1]
Sibling(nodes, index) ==
  IF index % 2 = 1 THEN nodes[index]
  ELSE IF index + 1 < Len(nodes) THEN nodes[index + 2] ELSE nodes[index + 1]

ProofOf(index) ==
  LET height == Len(levels) - 1
      at == Ancestors(index)
  IN  [leafHash |-> levels[1][index + 1],
       siblings |-> [k \in 1..height |-> Sibling(levels[k], at[k])],
       pathBits |-> [k \in 1..height |-> at[k] % 2 = 0],
       rootHash |-> RootOf(levels)[1]]

GenerateTreeProof(index) ==
  /\ proof' = IF index < 0 \/ Len(data) <= index THEN NoProof ELSE ProofOf(index)
  /\ UNCHANGED <<data, levels>>

TreeNext ==
  \/ \E items \in Lists : NewMerkleTree(items)
  \/ \E index \in -1..MaxItems : GenerateTreeProof(index)

TreeSpec == TreeInit /\ [][TreeNext]_treeVars

-----------------------------------------------------------------------------
(***************************************************************************)
(* Every proof that is generated verifies, whatever the number of items:   *)
(* siblings, sides and the doubled last nodes are those the root was       *)
(* computed from; with another leaf it does not verify.                    *)
(***************************************************************************)
ProofVerifies ==
  proof # NoProof =>
    /\ VerifyProof(proof)
    /\ \A item \in Items :
         VerifyProof([proof EXCEPT !.leafHash = Hash(item)]) => Hash(item) = proof.leafHash

(***************************************************************************)
(* What two lists of one root have in common.  When their trees are of one *)
(* height, the shorter list begins the longer, which goes on with items of *)
(* the shorter one's end: only the doubling of last nodes makes them       *)
(* differ.  Else, as leaves are hashed no differently from parents, every  *)
(* item of the lower tree is two hashes joined, of the other tree's nodes. *)
(***************************************************************************)
RootDeterminesItems ==
  \A items \in Lists :
    LET other == LevelsOf(items)
        higher == Len(other) - Len(levels)
    IN  RootOf(other) = RootOf(levels) /\ Len(data) <= Len(items) =>
          \/ /\ higher = 0
             /\ IsPrefix(data, items)
             /\ \A k \in (Len(data) + 1)..Len(items) :
                  \E j \in (Len(data) \div 2)..Len(data) : j > 0 /\ items[k] = data[j]
          \/ /\ higher > 0 /\ data # <<>>
             /\ \A k \in 1..Len(data) :
                  \E i, j \in 1..Len(other[higher]) :
                    data[k] = Concat(other[higher][i], other[higher][j])
=============================================================================
