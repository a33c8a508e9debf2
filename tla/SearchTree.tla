----------------------------- MODULE SearchTree -----------------------------
(***************************************************************************)
(* data-structures/bst.go: a binary search tree whose Delete replaces a    *)
(* node with two children by its successor or by its predecessor, at       *)
(* random.  A tree is Nil or a record of a value and two trees.            *)
(*                                                                         *)
(* Operators named Fault... are wrong versions of the one that follows.    *)
(***************************************************************************)
EXTENDS Integers, Sequences, FiniteSets

CONSTANT Values
VARIABLES root, answer

vars == <<root, answer>>

Nil == <<>>
Leaf(v) == [val |-> v, left |-> Nil, right |-> Nil]

Init == root = Nil /\ answer = FALSE

RECURSIVE Inserted(_, _)
Inserted(n, v) ==
  IF n = Nil THEN Leaf(v)
  ELSE IF v = n.val THEN n
  ELSE IF v < n.val THEN [n EXCEPT !.left = Inserted(n.left, v)]
  ELSE [n EXCEPT !.right = Inserted(n.right, v)]

RECURSIVE Finds(_, _)
Finds(n, v) ==
  n # Nil /\ (n.val = v \/ Finds(IF v < n.val THEN n.left ELSE n.right, v))

RECURSIVE Leftmost(_)
Leftmost(n) == IF n.left = Nil THEN n.val ELSE Leftmost(n.left)
RECURSIVE Rightmost(_)
Rightmost(n) == IF n.right = Nil THEN n.val ELSE Rightmost(n.right)

Successor(n) == Leftmost(n.right)
Predecessor(n) == Rightmost(n.left)

OnlyChild(n) == IF n.left = Nil THEN n.right ELSE n.left

FaultKeepValue(n, v) == n
(* n.Val = suc.Val, or pred.Val. *)
WithValue(n, v) == [n EXCEPT !.val = v]

(* The trees that deleting v from n may leave. *)
RECURSIVE Deleted(_, _)
Deleted(n, v) ==
  IF n = Nil THEN {Nil}
  ELSE IF v < n.val THEN {[n EXCEPT !.left = t] : t \in Deleted(n.left, v)}
  ELSE IF v > n.val THEN {[n EXCEPT !.right = t] : t \in Deleted(n.right, v)}
  ELSE IF n.left = Nil \/ n.right = Nil THEN {OnlyChild(n)}
  ELSE LET suc == Successor(n)
           pred == Predecessor(n)
       IN  {[WithValue(n, suc) EXCEPT !.right = t] : t \in Deleted(n.right, suc)}
             \cup {[WithValue(n, pred) EXCEPT !.left = t] : t \in Deleted(n.left, pred)}

Search(v) == answer' = Finds(root, v) /\ UNCHANGED root

Insert(v) ==
  /\ answer' = ~Finds(root, v)
  /\ root' = Inserted(root, v)

Delete(v) ==
  /\ answer' = Finds(root, v)
  /\ IF answer' THEN root' \in Deleted(root, v) ELSE UNCHANGED root

Next == \E v \in Values : Search(v) \/ Insert(v) \/ Delete(v)

Spec == Init /\ [][Next]_vars

-----------------------------------------------------------------------------
RECURSIVE InOrderRecursive(_)
InOrderRecursive(n) ==
  IF n = Nil THEN <<>>
  ELSE InOrderRecursive(n.left) \o <<n.val>> \o InOrderRecursive(n.right)

(* The loop of inOrderHelperStack from a stack, top first, and current.    *)
RECURSIVE InOrderStack(_, _)
InOrderStack(stack, current) ==
  IF current # Nil THEN InOrderStack(<<current>> \o stack, current.left)
  ELSE IF stack = <<>> THEN <<>>
  ELSE <<Head(stack).val>> \o InOrderStack(Tail(stack), Head(stack).right)

IsValidInOrder(n) ==
  LET s == InOrderRecursive(n) IN \A k \in 2..Len(s) : s[k - 1] < s[k]

FaultOnlyChildren(n, above, below) ==
  n # Nil => /\ n.left # Nil => n.left.val < n.val
             /\ n.right # Nil => n.val < n.right.val

(* isValidHelper: the value of n is between those of above and below.      *)
RECURSIVE IsValidBetween(_, _, _)
IsValidBetween(n, above, below) ==
  n # Nil => /\ \A v \in above : v < n.val
             /\ \A v \in below : n.val < v
             /\ IsValidBetween(n.left, above, {n.val})
             /\ IsValidBetween(n.right, {n.val}, below)

RECURSIVE Height(_)
Height(n) ==
  IF n = Nil THEN 0
  ELSE LET l == Height(n.left)
           r == Height(n.right)
       IN  1 + (IF l > r THEN l ELSE r)

(* The trees that differ from n in at most one value. *)
RECURSIVE Relabelled(_)
Relabelled(n) ==
  IF n = Nil THEN {Nil}
  ELSE {[n EXCEPT !.val = v] : v \in Values}
         \cup {[n EXCEPT !.left = t] : t \in Relabelled(n.left)}
         \cup {[n EXCEPT !.right = t] : t \in Relabelled(n.right)}

RECURSIVE ValuesIn(_)
ValuesIn(n) == IF n = Nil THEN {} ELSE {n.val} \cup ValuesIn(n.left) \cup ValuesIn(n.right)

(***************************************************************************)
(* Both traversals return the values in the tree once and in ascending     *)
(* order, and a tree of that many values has a possible height.            *)
(***************************************************************************)
TraversalsAgree ==
  LET s == InOrderRecursive(root)
      size == Cardinality(ValuesIn(root))
  IN  /\ InOrderStack(<<>>, root) = s
      /\ Len(s) = size /\ {s[k] : k \in 1..size} = ValuesIn(root)
      /\ \A k \in 2..size : s[k - 1] < s[k]
      /\ Height(root) <= size /\ size < 2 ^ Height(root)

(***************************************************************************)
(* IsValid, which compares with the bounds of all ancestors, and           *)
(* isValidInOrder accept the tree, and accept and reject the same trees    *)
(* among those with one value replaced, however deep.                      *)
(***************************************************************************)
ValidatorsAgree ==
  /\ IsValidBetween(root, {}, {})
  /\ \A t \in Relabelled(root) : IsValidBetween(t, {}, {}) = IsValidInOrder(t)

(***************************************************************************)
(* After any insertions and deletions the tree is a search tree, and all   *)
(* that reads it agrees on that.                                           *)
(***************************************************************************)
TreeIsSound == TraversalsAgree /\ ValidatorsAgree

(***************************************************************************)
(* The tree is a set of its values, and a call does to it what it should   *)
(* for its own value: a Delete removes the value it was asked for and no   *)
(* other, whichever of successor and predecessor the random number         *)
(* chooses, and no value is left where Search does not look.               *)
(***************************************************************************)
Set == INSTANCE KeySet WITH contents <- ValuesIn(root)

CallsActOnSet ==
  \A v \in Values : /\ Insert(v) => Set!Insert(v)
                    /\ Delete(v) => Set!Delete(v)
                    /\ Search(v) => Set!Search(v)

ImplementsKeySet == Set!Init /\ [][CallsActOnSet]_vars
=============================================================================
