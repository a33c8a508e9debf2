----------------------------- MODULE BinaryHeap -----------------------------
(***************************************************************************)
(* data-structures/heap.go: MinHeap and MaxHeap, which are one algorithm   *)
(* for two orders.  One step is one iteration of a loop: of the bubbling   *)
(* up in Push, of siftDown, or of the loop of Heapify around it.           *)
(*                                                                         *)
(* Operators named Fault... are wrong versions of the one that follows.    *)
(***************************************************************************)
EXTENDS Integers, FiniteSets

CONSTANTS
  Values,
  MaxSize,      (* bound: values pushed or given to Heapify                  *)
  Nothing       (* Pop of an empty heap                                      *)

ASSUME HeapAssumption == Values \subseteq Int /\ MaxSize \in Nat

VARIABLES
  isMin,        (* MinHeap or MaxHeap                                        *)
  items,
  loop,         (* the loop running: none, Push's, Pop's or Heapify's        *)
  i,            (* the index it is at                                        *)
  built,        (* i of the loop of Heapify                                  *)
  popped        (* what the last Pop returned                                *)

vars == <<isMin, items, loop, i, built, popped>>

Size == Cardinality(DOMAIN items)
Slices == UNION {[0..(n - 1) -> Values] : n \in 0..MaxSize}

Parent(c) == (c - 1) \div 2
LeftChild(p) == 2 * p + 1
RightChild(p) == 2 * p + 2

Before(v, w) == IF isMin THEN v < w ELSE w < v
FaultOverwrite(a, b) == [items EXCEPT ![a] = items[b]]
Swap(a, b) == [items EXCEPT ![a] = items[b], ![b] = items[a]]

Init ==
  /\ isMin \in BOOLEAN
  /\ items = [k \in {} |-> 0]
  /\ loop = "none" /\ i = 0 /\ built = 0
  /\ popped = Nothing

Push(v) ==
  /\ loop = "none" /\ Size < MaxSize
  /\ items' = [k \in 0..Size |-> IF k = Size THEN v ELSE items[k]]
  /\ loop' = "push" /\ i' = Size
  /\ UNCHANGED <<isMin, built, popped>>

BubbleUp ==
  /\ loop = "push"
  /\ IF 0 < i /\ Before(items[i], items[Parent(i)])
     THEN items' = Swap(i, Parent(i)) /\ i' = Parent(i) /\ UNCHANGED loop
     ELSE loop' = "none" /\ UNCHANGED <<items, i>>
  /\ UNCHANGED <<isMin, built, popped>>

PopEmpty ==
  /\ loop = "none" /\ Size = 0
  /\ popped' = Nothing
  /\ UNCHANGED <<isMin, items, loop, i, built>>

Pop ==
  /\ loop = "none" /\ Size > 0
  /\ popped' = items[0]
  /\ items' = [k \in 0..(Size - 2) |-> IF k = 0 THEN items[Size - 1] ELSE items[k]]
  /\ loop' = "pop" /\ i' = 0
  /\ UNCHANGED <<isMin, built>>

Heapify(slice) ==
  /\ loop = "none"
  /\ items' = slice
  /\ LET last == Cardinality(DOMAIN slice) \div 2 - 1
     IN  IF last < 0 THEN UNCHANGED <<loop, i, built>>
         ELSE loop' = "heapify" /\ i' = last /\ built' = last
  /\ UNCHANGED <<isMin, popped>>

FaultAnyChild ==
  IF LeftChild(i) < Size /\ Before(items[LeftChild(i)], items[i]) THEN LeftChild(i)
  ELSE IF RightChild(i) < Size /\ Before(items[RightChild(i)], items[i])
  THEN RightChild(i) ELSE i

(* The index that belongs at i: of i and its children the first in order.  *)
Target ==
  LET left == IF LeftChild(i) < Size /\ Before(items[LeftChild(i)], items[i])
              THEN LeftChild(i) ELSE i
  IN  IF RightChild(i) < Size /\ Before(items[RightChild(i)], items[left])
      THEN RightChild(i) ELSE left

Sink ==
  /\ loop \in {"pop", "heapify"} /\ Target # i
  /\ items' = Swap(i, Target) /\ i' = Target
  /\ UNCHANGED <<isMin, loop, built, popped>>

Settle ==
  /\ loop \in {"pop", "heapify"} /\ Target = i
  /\ IF loop = "heapify" /\ built > 0
     THEN i' = built - 1 /\ built' = built - 1 /\ UNCHANGED loop
     ELSE loop' = "none" /\ UNCHANGED <<i, built>>
  /\ UNCHANGED <<isMin, items, popped>>

Next ==
  \/ \E v \in Values : Push(v)
  \/ \E slice \in Slices : Heapify(slice)
  \/ BubbleUp \/ PopEmpty \/ Pop \/ Sink \/ Settle

Spec == Init /\ [][Next]_vars

-----------------------------------------------------------------------------
TypeOK ==
  /\ isMin \in BOOLEAN
  /\ \E n \in 0..MaxSize : items \in [0..(n - 1) -> Values]
  /\ loop \in {"none", "push", "pop", "heapify"}
  /\ i \in 0..MaxSize /\ built \in 0..MaxSize
  /\ popped \in Values \cup {Nothing}

(***************************************************************************)
(* Between calls no item is to come before its parent: whatever mix of     *)
(* Push, Pop and Heapify came before, on heaps of either order.            *)
(***************************************************************************)
InOrderAt(c) == ~Before(items[c], items[Parent(c)])
HeapOrder == loop = "none" => \A c \in DOMAIN items \ {0} : InOrderAt(c)

(***************************************************************************)
(* The slice amounts to a bag from which Pop takes the first in order; no  *)
(* step of a loop adds, loses or repeats a value.                          *)
(***************************************************************************)
Queue ==
  INSTANCE PriorityQueue WITH
    bag <- [v \in {items[k] : k \in DOMAIN items} |->
              Cardinality({k \in DOMAIN items : items[k] = v})],
    smallestFirst <- isMin,
    busy <- loop # "none"

ImplementsPriorityQueue == Queue!Spec
=============================================================================
