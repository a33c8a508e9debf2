--------------------------- MODULE MCSerialization ---------------------------
(***************************************************************************)
(* One instance each of the two Merkle trees and of RLP.  A behaviour is   *)
(* one of a single part; the others stay as they are made.  The trees,     *)
(* which have proofs, are extended, so that what is checked here is what   *)
(* is proved there.                                                        *)
(***************************************************************************)
EXTENDS SparseMerkleTree, MerkleTree

CONSTANT a

(* The second item is the first one's hash joined to itself, so that lists *)
(* of different heights may have one root.                                 *)
MCItems == {a, Concat(Hash(a), Hash(a))}

VARIABLES
  part,
  stream, pos, limits, strings, outcome         (* RLP *)

(* Data and payloads of one byte at either side of 0x80, and of lengths at *)
(* either side of 55 and 255; integers of one to three bytes; lists in     *)
(* lists, empty ones and the longest ones with a short header.             *)
Code == INSTANCE RLP WITH RLPValues <- {}
Run(n) == Code!Bytes([k \in 1..n |-> 65])
MCValues ==
  LET List(items) == Code!List(items)
      Uint(n) == Code!Uint(n)
  IN  {Run(n) : n \in {0, 1, 2, 55, 56, 255, 256}}
        \cup {Code!Bytes(<<127>>), Code!Bytes(<<128>>), Code!Null}
        \cup {Uint(n) : n \in {0, 127, 128, 255, 256, 65536}}
        \cup {List(<<>>), List(<<List(<<>>), List(<<List(<<>>)>>)>>),
              List(<<Run(2), Code!Bytes(<<200>>), List(<<Uint(7), Code!Null>>), Run(1)>>),
              List(<<Run(54)>>), List(<<Run(55)>>),
              List(<<List(<<Run(2)>>), Run(256), Run(0)>>),
              List(<<List(<<Run(30), Run(30)>>), Uint(1024)>>)}
RLP == INSTANCE RLP WITH RLPValues <- MCValues

rlpVars == <<stream, pos, limits, strings, outcome>>

MCInit ==
  /\ part \in {"sparse", "tree", "rlp"}
  /\ Init /\ TreeInit
  /\ RLP!RLPInit /\ (part # "rlp" => stream = [value |-> Code!Null, bytes |-> <<128>>])

Only(p) ==
  /\ part = p /\ UNCHANGED part
  /\ p # "sparse" => UNCHANGED vars
  /\ p # "tree" => UNCHANGED treeVars
  /\ p # "rlp" => UNCHANGED rlpVars

MCNext ==
  \/ Only("sparse") /\ Next
  \/ Only("tree") /\ TreeNext
  \/ Only("rlp") /\ RLP!RLPNext

MCSpec == MCInit /\ [][MCNext]_<<part, vars, treeVars, rlpVars>>

-----------------------------------------------------------------------------
DecodesWhole == RLP!DecodesWhole
ReadsInOrder == RLP!ReadsInOrder
=============================================================================
