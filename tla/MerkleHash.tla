----------------------------- MODULE MerkleHash -----------------------------
(***************************************************************************)
(* What MerkleTree and SparseMerkleTree of data-structures/merkle.go share.*)
(* sha256 is taken to be one to one, and so is joining two hashes, which   *)
(* are all of 32 bytes.  Nothing marks what a hash is of: an item may be   *)
(* two hashes joined, and its leaf is then the parent of those two.        *)
(***************************************************************************)
EXTENDS Integers, Sequences

Hash(v) == <<"sha256", v>>
Concat(left, right) == <<left, right>>
HashPair(left, right) == Hash(Concat(left, right))

VerifyProof(proof) ==
  /\ Len(proof.siblings) = Len(proof.pathBits)
  /\ LET size == Len(proof.siblings)
         hash[i \in 0..size] ==
           IF i = 0 THEN proof.leafHash
           ELSE IF proof.pathBits[i] THEN HashPair(hash[i - 1], proof.siblings[i])
                                     ELSE HashPair(proof.siblings[i], hash[i - 1])
     IN  hash[size] = proof.rootHash
=============================================================================
