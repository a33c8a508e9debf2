---------------------------- MODULE PriorityQueue ----------------------------
(***************************************************************************)
(* What a heap of data-structures/heap.go promises: a bag of values from   *)
(* which Pop takes one that no other must precede.  A call changes the bag *)
(* once, at its start; what it does after that changes nothing.            *)
(***************************************************************************)
EXTENDS Integers, Bags

CONSTANTS Values, Nothing
VARIABLES bag, smallestFirst, popped, busy

vars == <<bag, smallestFirst, popped, busy>>

Precedes(v, w) == IF smallestFirst THEN v < w ELSE v > w

Init ==
  bag = EmptyBag /\ smallestFirst \in BOOLEAN /\ popped = Nothing /\ busy = FALSE

Push(v) == bag' = bag (+) SetToBag({v}) /\ UNCHANGED popped

Pop ==
  \/ bag = EmptyBag /\ popped' = Nothing /\ UNCHANGED bag
  \/ \E v \in BagToSet(bag) :
       /\ \A w \in BagToSet(bag) : ~Precedes(w, v)
       /\ popped' = v /\ bag' = bag (-) SetToBag({v})

(* The values of a slice take the place of what was there. *)
Heapify == BagToSet(bag') \subseteq Values /\ UNCHANGED popped

Call == ~busy /\ busy' \in BOOLEAN /\ ((\E v \in Values : Push(v)) \/ Pop \/ Heapify)
Return == busy /\ ~busy' /\ UNCHANGED <<bag, popped>>

Next == (Call \/ Return) /\ UNCHANGED smallestFirst

Spec == Init /\ [][Next]_vars
=============================================================================
