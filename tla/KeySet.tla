------------------------------- MODULE KeySet -------------------------------
(***************************************************************************)
(* What the search tree of data-structures/bst.go and the trie of trie.go  *)
(* promise: a set of keys.  Each call says what it does to the set for the *)
(* key it was given, and answers whether it found the set without, or      *)
(* with, that key.                                                         *)
(***************************************************************************)
VARIABLES contents, answer

Init == contents = {} /\ answer = FALSE

Add(k) == contents' = contents \cup {k}
Remove(k) == contents' = contents \ {k}

Insert(k) == Add(k) /\ answer' = (k \notin contents)
Delete(k) == Remove(k) /\ answer' = (k \in contents)
Search(k) == answer' = (k \in contents) /\ UNCHANGED contents
=============================================================================
