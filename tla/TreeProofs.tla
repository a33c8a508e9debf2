----------------------------- MODULE TreeProofs -----------------------------
(***************************************************************************)
(* The trees in which a place is found by computing it: the binary heap,   *)
(* whose children are indices, and the two tries, whose nodes are the      *)
(* prefixes of addresses and of words.                                     *)
(***************************************************************************)
EXTENDS BinaryHeap, RoutingTable, Trie, Bags, FiniteSetTheorems, Iteration

-----------------------------------------------------------------------------
(***************************************************************************)
(* The heap order of BinaryHeap, for heaps of any size and any values, and *)
(* that the slice is a priority queue.                                     *)
(*                                                                         *)
(* Between calls every item is in order with its parent.  While a loop     *)
(* runs this fails around index i only, and the items around it are in     *)
(* order as if i were not there: the children of i with the parent of i.   *)
(***************************************************************************)

(* Before, with the order as an argument. *)
Bef(min, v, w) == IF min THEN v < w ELSE w < v

(* Of the f[0] to f[n - 1] those with a parent at lo or later are in order *)
(* with it, but for child, and the children of gap.                        *)
Ordered(min, f, n, lo, child, gap) ==
  \A c \in 1..(n - 1) :
    lo <= Parent(c) /\ c # child /\ Parent(c) # gap => ~Bef(min, f[c], f[Parent(c)])

(* The children of j are in order with the parent of j. *)
Bridged(min, f, n, lo, j) ==
  \A c \in 1..(n - 1) :
    Parent(c) = j /\ lo <= Parent(j) => ~Bef(min, f[c], f[Parent(j)])

NoGap == -2

IInv ==
  /\ TypeOK
  /\ loop = "none" => Ordered(isMin, items, Size, 0, NoGap, NoGap)
  /\ loop = "push" =>
       /\ i < Size
       /\ Ordered(isMin, items, Size, 0, i, NoGap)
       /\ Bridged(isMin, items, Size, 0, i)
  /\ loop = "pop" =>
       /\ Ordered(isMin, items, Size, 0, NoGap, i)
       /\ Bridged(isMin, items, Size, 0, i)
  /\ loop = "heapify" =>
       /\ built <= i /\ built < Size
       /\ Ordered(isMin, items, Size, built, NoGap, i)
       /\ Bridged(isMin, items, Size, built, i)

-----------------------------------------------------------------------------
(* The length of a slice. *)
LEMMA SliceSize ==
  ASSUME NEW n \in Nat, NEW f \in [0..(n - 1) -> Values]
  PROVE  Cardinality(DOMAIN f) = n
<1>1. DOMAIN f = 0..(n - 1)
  OBVIOUS
<1>2. CASE n = 0
  BY <1>1, <1>2, FS_EmptySet
<1>3. CASE n > 0
  BY <1>1, <1>3, FS_Interval
<1> QED
  BY <1>2, <1>3

(* Bef is a strict order of which no two different values are unrelated.   *)
LEMMA Order ==
  ASSUME NEW min \in BOOLEAN, NEW u \in Values, NEW v \in Values, NEW w \in Values
  PROVE  /\ Bef(min, u, v) => ~Bef(min, v, u)
         /\ Bef(min, u, v) /\ Bef(min, v, w) => Bef(min, u, w)
         /\ ~Bef(min, u, v) /\ ~Bef(min, v, w) => ~Bef(min, u, w)
         /\ ~Bef(min, u, u)
BY HeapAssumption DEF Bef

(* Parents are nearer to the root, and children come in twos. *)
LEMMA Family ==
  ASSUME NEW c \in Nat
  PROVE  /\ Parent(c) \in Int /\ Parent(c) < c /\ -1 <= Parent(c)
         /\ c > 0 => Parent(c) \in Nat
         /\ c = 0 => Parent(c) = -1
         /\ \A p \in Nat : c > 0 /\ Parent(c) = p <=> c \in {LeftChild(p), RightChild(p)}
BY DEF Parent, LeftChild, RightChild

(* A value that bubbles up from i leaves order behind. *)
LEMMA BubbleKeeps ==
  ASSUME NEW min \in BOOLEAN, NEW n \in Nat, NEW f \in [0..(n - 1) -> Values],
         NEW j \in 1..(n - 1),
         Ordered(min, f, n, 0, j, NoGap), Bridged(min, f, n, 0, j),
         Bef(min, f[j], f[Parent(j)]),
         NEW g, g = [f EXCEPT ![j] = f[Parent(j)], ![Parent(j)] = f[j]]
  PROVE  /\ Ordered(min, g, n, 0, Parent(j), NoGap)
         /\ Bridged(min, g, n, 0, Parent(j))
<1> DEFINE p == Parent(j)
<1>1. p \in 0..(n - 1) /\ p < j
  BY Family
<1>2. g[j] = f[p] /\ g[p] = f[j] /\ \A c \in 0..(n - 1) : c # j /\ c # p => g[c] = f[c]
  BY <1>1
<1>3. ASSUME NEW c \in 1..(n - 1)
      PROVE  Parent(c) \in 0..(n - 1) /\ Parent(c) < c
  BY Family
<1>4. ASSUME NEW c \in 1..(n - 1), c # p
      PROVE  ~Bef(min, g[c], g[Parent(c)])
  <2>1. CASE c = j
    BY <1>1, <1>2, <2>1, Order
  <2>2. CASE c # j /\ Parent(c) = p
    <3>1. ~Bef(min, f[c], f[p])
      BY <1>1, <2>2 DEF Ordered, NoGap
    <3>2. ~Bef(min, f[p], f[j])
      BY <1>1, Order
    <3> QED
      BY <1>1, <1>2, <1>4, <2>2, <3>1, <3>2, Order
  <2>3. CASE c # j /\ Parent(c) = j
    BY <1>1, <1>2, <1>4, <2>3 DEF Bridged
  <2>4. CASE c # j /\ Parent(c) # p /\ Parent(c) # j
    BY <1>2, <1>3, <1>4, <2>4 DEF Ordered, NoGap
  <2> QED
    BY <2>1, <2>2, <2>3, <2>4
<1>5. ASSUME NEW c \in 1..(n - 1), Parent(c) = p, 0 <= Parent(p)
      PROVE  ~Bef(min, g[c], g[Parent(p)])
  <2>1. p \in 1..(n - 1) /\ Parent(p) \in 0..(n - 1) /\ Parent(p) < p
    BY <1>1, <1>5, Family
  <2>2. g[Parent(p)] = f[Parent(p)]
    BY <1>1, <1>2, <2>1
  <2>3. ~Bef(min, f[p], f[Parent(p)])
    BY <1>1, <2>1 DEF Ordered, NoGap
  <2>4. CASE c = j
    BY <1>2, <2>2, <2>3, <2>4
  <2>5. CASE c # j
    <3>1. ~Bef(min, f[c], f[p])
      BY <1>1, <1>5, <2>5 DEF Ordered, NoGap
    <3>2. c # p
      BY <1>3, <1>5
    <3> QED
      BY <1>1, <1>2, <2>1, <2>2, <2>3, <2>5, <3>1, <3>2, Order
  <2> QED
    BY <2>4, <2>5
<1> QED
  BY <1>4, <1>5 DEF Ordered, Bridged

(* A value that sinks from j, where it is out of order, to the first of    *)
(* its children leaves order behind.                                       *)
LEMMA SinkKeeps ==
  ASSUME NEW min \in BOOLEAN, NEW n \in Nat, NEW f \in [0..(n - 1) -> Values],
         NEW lo \in Nat, NEW j \in 0..(n - 1), lo <= j,
         Ordered(min, f, n, lo, NoGap, j), Bridged(min, f, n, lo, j),
         NEW t \in 1..(n - 1), Parent(t) = j, Bef(min, f[t], f[j]),
         \A c \in 1..(n - 1) : Parent(c) = j => ~Bef(min, f[c], f[t]),
         NEW g, g = [f EXCEPT ![j] = f[t], ![t] = f[j]]
  PROVE  /\ Ordered(min, g, n, lo, NoGap, t)
         /\ Bridged(min, g, n, lo, t)
<1>1. j < t
  BY Family
<1>2. g[j] = f[t] /\ g[t] = f[j] /\ \A c \in 0..(n - 1) : c # j /\ c # t => g[c] = f[c]
  BY <1>1
<1>3. ASSUME NEW c \in 1..(n - 1)
      PROVE  Parent(c) \in 0..(n - 1) /\ Parent(c) < c
  BY Family
<1>4. ASSUME NEW c \in 1..(n - 1), lo <= Parent(c), Parent(c) # t
      PROVE  ~Bef(min, g[c], g[Parent(c)])
  <2>1. CASE c = t
    BY <1>1, <1>2, <2>1, Order
  <2>2. CASE c # t /\ Parent(c) = j
    BY <1>1, <1>2, <1>3, <2>2
  <2>3. CASE c = j
    BY <1>1, <1>2, <1>3, <1>4, <2>3 DEF Bridged
  <2>4. CASE c # t /\ c # j /\ Parent(c) # j
    BY <1>2, <1>3, <1>4, <2>4 DEF Ordered, NoGap
  <2> QED
    BY <2>1, <2>2, <2>3, <2>4
<1>5. ASSUME NEW c \in 1..(n - 1), Parent(c) = t
      PROVE  ~Bef(min, g[c], g[Parent(t)])
  <2>1. c # t /\ c # j
    BY <1>1, <1>3, <1>5
  <2>2. ~Bef(min, f[c], f[t])
    BY <1>1, <1>3, <1>5, <2>1 DEF Ordered, NoGap
  <2> QED
    BY <1>1, <1>2, <2>1, <2>2
<1> QED
  BY <1>4, <1>5 DEF Ordered, Bridged

(* Where siftDown is to go, or that it is over. *)
LEMMA TargetIsFirst ==
  ASSUME isMin \in BOOLEAN, NEW n \in Nat, Size = n, items \in [0..(n - 1) -> Values],
         i \in 0..(n - 1)
  PROVE  /\ Target # i => /\ Target \in 1..(n - 1) /\ Parent(Target) = i
                          /\ Bef(isMin, items[Target], items[i])
                          /\ \A c \in 1..(n - 1) :
                               Parent(c) = i => ~Bef(isMin, items[c], items[Target])
         /\ Target = i => \A c \in 1..(n - 1) :
                            Parent(c) = i => ~Bef(isMin, items[c], items[i])
<1> DEFINE l == LeftChild(i)
           r == RightChild(i)
           left == IF l < n /\ Bef(isMin, items[l], items[i]) THEN l ELSE i
<1>1. l \in Nat /\ r \in Nat /\ l > i /\ r > i /\ l # r /\ Parent(l) = i /\ Parent(r) = i
  BY Family DEF LeftChild, RightChild
<1>2. Target = IF r < n /\ Bef(isMin, items[r], items[left]) THEN r ELSE left
  BY DEF Target, Before, Bef
<1>3. \A c \in 1..(n - 1) : Parent(c) = i => c = l \/ c = r
  BY Family
<1> HIDE DEF l, r
<1>4. left \in 0..(n - 1) /\ (left # i => left = l)
  BY <1>1
<1>5. CASE r < n /\ Bef(isMin, items[r], items[left])
  <2>1. Target = r /\ r \in 1..(n - 1)
    BY <1>1, <1>2, <1>5
  <2>2. Bef(isMin, items[r], items[i])
    <3>1. CASE left = i
      BY <1>5, <3>1
    <3>2. CASE left # i
      <4>1. l < n /\ left = l /\ Bef(isMin, items[l], items[i])
        BY <3>2
      <4> QED
        BY <1>1, <1>5, <2>1, <4>1, Order
    <3> QED
      BY <3>1, <3>2
  <2>3. ASSUME l < n
        PROVE  ~Bef(isMin, items[l], items[r])
    <3>1. CASE Bef(isMin, items[l], items[i])
      BY <1>1, <1>5, <2>1, <2>3, <3>1, Order
    <3>2. CASE ~Bef(isMin, items[l], items[i])
      BY <1>1, <2>1, <2>2, <2>3, <3>2, Order
    <3> QED
      BY <3>1, <3>2
  <2> QED
    BY <1>1, <1>3, <2>1, <2>2, <2>3, Order
<1>6. CASE ~(r < n /\ Bef(isMin, items[r], items[left]))
  <2>1. Target = left
    BY <1>2, <1>6
  <2>2. r < n => ~Bef(isMin, items[r], items[left])
    BY <1>6
  <2>3. l < n => ~Bef(isMin, items[l], items[left])
    BY <1>1, <1>4, Order
  <2> QED
    BY <1>1, <1>3, <1>4, <2>1, <2>2, <2>3
<1> QED
  BY <1>5, <1>6

(* TypeOK, with the length of the slice. *)
LEMMA SizeOf ==
  ASSUME TypeOK
  PROVE  Size \in 0..MaxSize /\ items \in [0..(Size - 1) -> Values]
<1>1. PICK n \in 0..MaxSize : items \in [0..(n - 1) -> Values]
  BY DEF TypeOK
<1>2. Size = n
  BY <1>1, SliceSize, HeapAssumption DEF Size
<1> QED
  BY <1>1, <1>2

(* siftDown goes on from an item of the heap only. *)
LEMMA SinkInside ==
  ASSUME TypeOK, Target # i
  PROVE  i \in 0..(Size - 1)
BY SizeOf DEF Target, LeftChild, RightChild, TypeOK

-----------------------------------------------------------------------------
LEMMA InitIInv == Init => IInv
<1> SUFFICES ASSUME Init PROVE IInv
  OBVIOUS
<1>1. items \in [0..(0 - 1) -> Values]
  BY DEF Init
<1>2. Size = 0
  BY <1>1, SliceSize DEF Size
<1> QED
  BY <1>1, <1>2, HeapAssumption DEF Init, IInv, TypeOK, Ordered

LEMMA NextIInv == IInv /\ [Next]_vars => IInv'
<1> SUFFICES ASSUME IInv, [Next]_vars PROVE IInv'
  OBVIOUS
<1> DEFINE n == Size
<1>1. TypeOK /\ n \in 0..MaxSize /\ n \in Nat /\ items \in [0..(n - 1) -> Values]
      /\ isMin \in BOOLEAN /\ i \in 0..MaxSize /\ built \in 0..MaxSize /\ MaxSize \in Nat
  BY SizeOf, HeapAssumption DEF IInv, TypeOK
<1>2. ASSUME NEW m \in 0..MaxSize, items' \in [0..(m - 1) -> Values]
      PROVE  Size' = m
  <2>1. \A f \in [0..(m - 1) -> Values] : Cardinality(DOMAIN f) = m
    BY SliceSize, HeapAssumption
  <2> QED
    BY <1>2, <2>1 DEF Size
<1> HIDE DEF n
<1>3. ASSUME NEW v \in Values, Push(v)
      PROVE  IInv'
  <2>1. n < MaxSize /\ loop' = "push" /\ i' = n /\ isMin' = isMin
        /\ built' = built /\ popped' = popped /\ loop = "none"
    BY <1>3 DEF Push, n
  <2>2. items' = [k \in 0..n |-> IF k = n THEN v ELSE items[k]]
    BY <1>3 DEF Push, n
  <2>3. items' \in [0..((n + 1) - 1) -> Values]
    BY <1>1, <2>2
  <2>4. n + 1 \in 0..MaxSize /\ Size' = n + 1
    BY <1>1, <1>2, <2>1, <2>3
  <2>5. TypeOK'
    BY <1>1, <2>1, <2>3, <2>4 DEF TypeOK
  <2>6. Ordered(isMin, items', n + 1, 0, n, NoGap)
    <3>1. \A c \in 1..(n - 1) : Parent(c) \in 0..(n - 1)
      BY <1>1, Family
    <3> QED
      BY <1>1, <2>1, <2>2, <3>1, Family DEF IInv, Ordered, NoGap, n
  <2>7. Bridged(isMin, items', n + 1, 0, n)
    BY <1>1, Family DEF Bridged
  <2> QED
    BY <1>1, <2>1, <2>4, <2>5, <2>6, <2>7 DEF IInv
<1>4. ASSUME BubbleUp
      PROVE  IInv'
  <2>1. loop = "push" /\ i \in 0..(n - 1) /\ Ordered(isMin, items, n, 0, i, NoGap)
        /\ Bridged(isMin, items, n, 0, i)
    BY <1>1, <1>4 DEF BubbleUp, IInv, n
  <2>2. isMin' = isMin /\ built' = built /\ popped' = popped
    BY <1>4 DEF BubbleUp
  <2>3. CASE 0 < i /\ Before(items[i], items[Parent(i)])
    <3>1. items' = [items EXCEPT ![i] = items[Parent(i)], ![Parent(i)] = items[i]]
          /\ i' = Parent(i) /\ loop' = loop
      BY <1>4, <2>3 DEF BubbleUp, Swap
    <3>2. Parent(i) \in 0..(n - 1)
      BY <1>1, <2>1, <2>3, Family
    <3>3. items' \in [0..(n - 1) -> Values]
      BY <1>1, <2>1, <3>1, <3>2
    <3>4. Size' = n
      BY <1>1, <1>2, <3>3
    <3>5. Ordered(isMin, items', n, 0, i', NoGap) /\ Bridged(isMin, items', n, 0, i')
      <4>1. Bef(isMin, items[i], items[Parent(i)])
        BY <2>3 DEF Before, Bef
      <4>2. i \in 1..(n - 1)
        BY <1>1, <2>1, <2>3
      <4> QED
        BY <1>1, <2>1, <3>1, <4>1, <4>2, BubbleKeeps
    <3> QED
      BY <1>1, <2>1, <2>2, <3>1, <3>2, <3>3, <3>4, <3>5 DEF IInv, TypeOK
  <2>4. CASE ~(0 < i /\ Before(items[i], items[Parent(i)]))
    <3>1. loop' = "none" /\ items' = items /\ i' = i
      BY <1>4, <2>4 DEF BubbleUp
    <3>2. Size' = n
      BY <1>1, <1>2, <3>1
    <3>3. Ordered(isMin, items, n, 0, NoGap, NoGap)
      <4>1. 0 < i => ~Bef(isMin, items[i], items[Parent(i)])
        BY <2>4 DEF Before, Bef
      <4> QED
        BY <1>1, <2>1, <4>1 DEF Ordered
    <3> QED
      BY <1>1, <2>2, <3>1, <3>2, <3>3 DEF IInv, TypeOK
  <2> QED
    BY <2>3, <2>4
<1>5. ASSUME PopEmpty
      PROVE  IInv'
  <2>1. Size' = n
    BY <1>1, <1>2, <1>5 DEF PopEmpty
  <2> QED
    BY <1>1, <1>5, <2>1 DEF PopEmpty, IInv, TypeOK, n
<1>6. ASSUME Pop
      PROVE  IInv'
  <2>1. n > 0 /\ loop = "none" /\ loop' = "pop" /\ i' = 0 /\ isMin' = isMin
        /\ built' = built /\ popped' = items[0]
    BY <1>6 DEF Pop, n
  <2>2. items' = [k \in 0..(n - 2) |-> IF k = 0 THEN items[n - 1] ELSE items[k]]
    BY <1>6 DEF Pop, n
  <2>3. items' \in [0..((n - 1) - 1) -> Values]
    BY <1>1, <2>1, <2>2
  <2>4. n - 1 \in 0..MaxSize /\ Size' = n - 1
    BY <1>1, <1>2, <2>1, <2>3
  <2>5. TypeOK'
    BY <1>1, <2>1, <2>3, <2>4 DEF TypeOK
  <2>6. Ordered(isMin, items', n - 1, 0, NoGap, 0)
    <3>1. SUFFICES ASSUME NEW c \in 1..(n - 2), 0 <= Parent(c), Parent(c) # 0
                   PROVE  ~Bef(isMin, items'[c], items'[Parent(c)])
      BY <1>1 DEF Ordered
    <3>2. Parent(c) \in 1..(n - 2)
      BY <1>1, <3>1, Family
    <3>3. items'[c] = items[c] /\ items'[Parent(c)] = items[Parent(c)]
      BY <1>1, <2>2, <3>2
    <3>4. Ordered(isMin, items, n, 0, NoGap, NoGap)
      BY <2>1 DEF IInv, n
    <3> QED
      BY <1>1, <3>2, <3>3, <3>4 DEF Ordered, NoGap
  <2>7. Bridged(isMin, items', n - 1, 0, 0)
    BY <1>1, Family DEF Bridged
  <2> QED
    BY <1>1, <2>1, <2>4, <2>5, <2>6, <2>7 DEF IInv
<1>7. ASSUME NEW slice \in Slices, Heapify(slice)
      PROVE  IInv'
  <2>1. PICK m \in 0..MaxSize : slice \in [0..(m - 1) -> Values]
    BY DEF Slices
  <2>2. items' = slice /\ isMin' = isMin /\ popped' = popped
    BY <1>7 DEF Heapify
  <2>3. Size' = m /\ Cardinality(DOMAIN slice) = m
    BY <1>1, <1>2, <2>1, <2>2, SliceSize
  <2> DEFINE last == m \div 2 - 1
  <2>4. loop = "none"
        /\ IF last < 0 THEN loop' = loop /\ i' = i /\ built' = built
           ELSE loop' = "heapify" /\ i' = last /\ built' = last
    BY <1>7, <2>3 DEF Heapify
  <2>5. last >= 0 => last \in 0..MaxSize /\ last < m
    BY <1>1, <2>1
  <2>6. TypeOK'
    <3>1. i' \in 0..MaxSize /\ built' \in 0..MaxSize
          /\ loop' \in {"none", "push", "pop", "heapify"}
      BY <1>1, <2>4, <2>5
    <3>2. \E k \in 0..MaxSize : items' \in [0..(k - 1) -> Values]
      BY <2>1, <2>2
    <3>3. popped \in Values \cup {Nothing}
      BY <1>1 DEF TypeOK
    <3> QED
      BY <1>1, <2>2, <3>1, <3>2, <3>3 DEF TypeOK
  <2>7. CASE last < 0
    <3>1. Ordered(isMin, items', m, 0, NoGap, NoGap)
      BY <1>1, <2>1, <2>7 DEF Ordered
    <3> QED
      BY <1>1, <2>2, <2>3, <2>4, <2>6, <2>7, <3>1 DEF IInv
  <2>8. CASE last >= 0
    <3>1. \A c \in 1..(m - 1) : Parent(c) \in Int /\ Parent(c) <= last
      BY <1>1, <2>1 DEF Parent
    <3>2. Ordered(isMin, items', m, last, NoGap, last)
      <4> HIDE DEF last
      <4> QED
        BY <2>5, <2>8, <3>1 DEF Ordered
    <3>3. Bridged(isMin, items', m, last, last)
      BY <1>1, <2>5, <2>8, Family DEF Bridged
    <3> QED
      BY <1>1, <2>2, <2>3, <2>4, <2>5, <2>6, <2>8, <3>2, <3>3 DEF IInv
  <2> QED
    BY <1>1, <2>1, <2>7, <2>8
<1>8. ASSUME Sink
      PROVE  IInv'
  <2> DEFINE lo == IF loop = "pop" THEN 0 ELSE built
             t == Target
  <2>1. t # i /\ loop \in {"pop", "heapify"} /\ isMin' = isMin /\ loop' = loop
        /\ built' = built /\ popped' = popped /\ i' = t
        /\ items' = [items EXCEPT ![i] = items[t], ![t] = items[i]]
    BY <1>8 DEF Sink, Swap
  <2>2. i \in 0..(n - 1)
    BY <1>1, <2>1, SinkInside DEF n
  <2>3. t \in 1..(n - 1) /\ Parent(t) = i /\ Bef(isMin, items[t], items[i])
        /\ \A c \in 1..(n - 1) : Parent(c) = i => ~Bef(isMin, items[c], items[t])
    BY <1>1, <2>1, <2>2, TargetIsFirst DEF n
  <2>4. lo \in Nat /\ lo <= i /\ Ordered(isMin, items, n, lo, NoGap, i)
        /\ Bridged(isMin, items, n, lo, i)
    BY <1>1, <2>1 DEF IInv, n
  <2> HIDE DEF t
  <2>5. Ordered(isMin, items', n, lo, NoGap, t) /\ Bridged(isMin, items', n, lo, t)
    <3> HIDE DEF lo
    <3> QED
      BY <1>1, <2>1, <2>2, <2>3, <2>4, SinkKeeps
  <2>6. items' \in [0..(n - 1) -> Values]
    BY <1>1, <2>1, <2>2, <2>3
  <2>7. Size' = n
    BY <1>1, <1>2, <2>6
  <2>8. TypeOK'
    <3>1. i' \in 0..MaxSize
      BY <1>1, <2>1, <2>3
    <3>2. \E k \in 0..MaxSize : items' \in [0..(k - 1) -> Values]
      BY <1>1, <2>6
    <3> QED
      BY <1>1, <2>1, <3>1, <3>2 DEF TypeOK
  <2>9. i < t
    BY <1>1, <2>2, <2>3, Family
  <2> QED
    BY <1>1, <2>1, <2>2, <2>3, <2>4, <2>5, <2>7, <2>8, <2>9 DEF IInv, n
<1>9. ASSUME Settle
      PROVE  IInv'
  <2> DEFINE lo == IF loop = "pop" THEN 0 ELSE built
  <2>1. Target = i /\ loop \in {"pop", "heapify"} /\ isMin' = isMin /\ items' = items
        /\ popped' = popped
    BY <1>9 DEF Settle
  <2>2. Size' = n
    BY <1>1, <1>2, <2>1
  <2>3. lo \in Nat /\ Ordered(isMin, items, n, lo, NoGap, i)
    BY <1>1, <2>1 DEF IInv, n
  <2>4. \A c \in 1..(n - 1) : Parent(c) = i => ~Bef(isMin, items[c], items[i])
    <3>1. CASE i \in 0..(n - 1)
      BY <1>1, <2>1, <3>1, TargetIsFirst DEF n
    <3>2. CASE i \notin 0..(n - 1)
      BY <1>1, <3>2, Family
    <3> QED
      BY <3>1, <3>2
  <2>5. Ordered(isMin, items, n, lo, NoGap, NoGap)
    BY <2>3, <2>4 DEF Ordered
  <2>6. CASE loop = "heapify" /\ built > 0
    <3>1. i' = built - 1 /\ built' = built - 1 /\ loop' = loop
      BY <1>9, <2>6 DEF Settle
    <3>2. Ordered(isMin, items, n, built - 1, NoGap, built - 1)
      <4>1. \A c \in 1..(n - 1) : Parent(c) \in Int
        BY <1>1, Family
      <4> QED
        BY <1>1, <2>5, <2>6, <4>1 DEF Ordered, NoGap
    <3>3. Bridged(isMin, items, n, built - 1, built - 1)
      BY <1>1, <2>6, Family DEF Bridged
    <3>4. built - 1 \in 0..MaxSize /\ built - 1 < n
      BY <1>1, <2>6 DEF IInv, n
    <3> QED
      BY <1>1, <2>1, <2>2, <2>6, <3>1, <3>2, <3>3, <3>4 DEF IInv, TypeOK
  <2>7. CASE ~(loop = "heapify" /\ built > 0)
    <3>1. loop' = "none" /\ i' = i /\ built' = built
      BY <1>9, <2>7 DEF Settle
    <3>2. lo = 0
      BY <1>1, <2>1, <2>7
    <3> QED
      BY <1>1, <2>1, <2>2, <2>5, <3>1, <3>2 DEF IInv, TypeOK
  <2> QED
    BY <2>6, <2>7
<1>10. ASSUME UNCHANGED vars
       PROVE  IInv'
  <2>1. Size' = n
    BY <1>10 DEF vars, Size, n
  <2> QED
    BY <1>10, <2>1 DEF vars, IInv, TypeOK, n
<1> QED
  BY <1>3, <1>4, <1>5, <1>6, <1>7, <1>8, <1>9, <1>10 DEF Next

(***************************************************************************)
(* Indices stay inside the slice and its length inside the bound, and Pop  *)
(* returns a value or nothing.                                             *)
(***************************************************************************)
THEOREM TypeCorrect == Spec => []TypeOK
<1>1. IInv => TypeOK
  BY DEF IInv
<1> QED
  BY InitIInv, NextIInv, <1>1, PTL DEF Spec

(***************************************************************************)
(* Whatever the values and however many, no item is to come before its     *)
(* parent when Push, Pop or Heapify has returned.                          *)
(***************************************************************************)
THEOREM HeapsStayOrdered == Spec => []HeapOrder
<1>1. IInv => HeapOrder
  <2> SUFFICES ASSUME IInv, loop = "none", NEW c \in DOMAIN items \ {0}
               PROVE  ~Before(items[c], items[Parent(c)])
    BY DEF HeapOrder, InOrderAt
  <2>1. c \in 1..(Size - 1) /\ Size \in Nat
    BY SizeOf, HeapAssumption DEF IInv
  <2>2. 0 <= Parent(c) /\ Parent(c) # NoGap /\ c # NoGap
    BY <2>1, Family DEF NoGap
  <2>3. ~Bef(isMin, items[c], items[Parent(c)])
    BY <2>1, <2>2 DEF IInv, Ordered
  <2> QED
    BY <2>3 DEF Bef, Before
<1> QED
  BY InitIInv, NextIInv, <1>1, PTL DEF Spec

-----------------------------------------------------------------------------
(***************************************************************************)
(* The slice as a bag.                                                     *)
(***************************************************************************)
IsSlice(f, n) == f = [k \in 0..(n - 1) |-> f[k]]
Swapped(f, a, b) == [f EXCEPT ![a] = f[b], ![b] = f[a]]
Appended(f, n, v) == [k \in 0..n |-> IF k = n THEN v ELSE f[k]]
Where(f, v) == {k \in DOMAIN f : f[k] = v}
Held(f) == {f[k] : k \in DOMAIN f}
BagOf(f) == [v \in Held(f) |-> Cardinality(Where(f, v))]

LEMMA CountsAreNat ==
  ASSUME NEW n \in Nat, NEW f, IsSlice(f, n), NEW v
  PROVE  /\ IsFiniteSet(Where(f, v)) /\ Cardinality(Where(f, v)) \in Nat
         /\ v \in Held(f) <=> Cardinality(Where(f, v)) # 0
<1>1. IsFiniteSet(0..(n - 1)) /\ Where(f, v) \in SUBSET (0..(n - 1))
  BY FS_Interval DEF Where, IsSlice
<1>2. IsFiniteSet(Where(f, v)) /\ Cardinality(Where(f, v)) \in Nat
  BY <1>1, FS_Subset, FS_CardinalityType
<1>3. Cardinality(Where(f, v)) = 0 <=> Where(f, v) = {}
  BY <1>2, FS_EmptySet
<1>4. v \in Held(f) <=> Where(f, v) # {}
  BY DEF Where, Held
<1> QED BY <1>2, <1>3, <1>4

LEMMA SwapKeepsBag ==
  ASSUME NEW n \in Nat, NEW f, IsSlice(f, n), NEW a \in 0..(n - 1), NEW b \in 0..(n - 1)
  PROVE  BagOf(Swapped(f, a, b)) = BagOf(f)
<1> DEFINE g == Swapped(f, a, b)
<1>1. DOMAIN f = 0..(n - 1)
  BY DEF IsSlice
<1>2. IsSlice(g, n) /\ DOMAIN g = 0..(n - 1) /\ g[a] = f[b] /\ g[b] = f[a]
      /\ \A k \in 0..(n - 1) : k # a /\ k # b => g[k] = f[k]
  BY <1>1 DEF IsSlice, Swapped
<1> HIDE DEF g
<1>3. ASSUME NEW x \in 0..(n - 1), NEW y \in 0..(n - 1), {x, y} = {a, b}, f[x] # f[y]
      PROVE  Cardinality(Where(g, f[x])) = Cardinality(Where(f, f[x]))
  <2> DEFINE W == Where(f, f[x])
  <2>1. Where(g, f[x]) = (W \ {x}) \cup {y}
    BY <1>1, <1>2, <1>3 DEF Where
  <2>2. x \in W /\ y \notin W
    BY <1>1, <1>2, <1>3 DEF Where
  <2>3. IsFiniteSet(W) /\ Cardinality(W) \in Nat
    BY CountsAreNat
  <2> HIDE DEF W
  <2>4. IsFiniteSet(W \ {x}) /\ Cardinality(W \ {x}) = Cardinality(W) - 1
    BY <2>2, <2>3, FS_RemoveElement
  <2>5. Cardinality(Where(g, f[x])) = (Cardinality(W) - 1) + 1
    BY <2>1, <2>2, <2>4, FS_AddElement
  <2> QED BY <2>3, <2>5 DEF W
<1>4. ASSUME NEW v PROVE Cardinality(Where(g, v)) = Cardinality(Where(f, v))
  <2>1. CASE f[a] # f[b] /\ v = f[a]
    BY <1>3, <2>1
  <2>2. CASE f[a] # f[b] /\ v = f[b]
    <3>1. {b, a} = {a, b}
      OBVIOUS
    <3> QED BY <1>3, <2>2, <3>1
  <2>3. CASE f[a] = f[b] \/ (v # f[a] /\ v # f[b])
    <3>1. Where(g, v) = Where(f, v)
      BY <1>1, <1>2, <2>3 DEF Where
    <3> QED BY <3>1
  <2> QED BY <2>1, <2>2, <2>3
<1>5. \A v : /\ v \in Held(f) <=> Cardinality(Where(f, v)) # 0
             /\ v \in Held(g) <=> Cardinality(Where(g, v)) # 0
  BY <1>2, CountsAreNat
<1>6. Held(f) = Held(g)
  BY <1>4, <1>5
<1>7. BagOf(g) = BagOf(f)
  BY <1>4, <1>6 DEF BagOf
<1> QED BY <1>7 DEF g

(* A slice with one more value is a bag with one more. *)
LEMMA OneMoreInBag ==
  ASSUME NEW n \in Nat, NEW f, IsSlice(f, n), NEW v
  PROVE  /\ BagOf(Appended(f, n, v)) = BagOf(f) (+) SetToBag({v})
         /\ BagOf(Appended(f, n, v)) (-) SetToBag({v}) = BagOf(f)
<1> DEFINE g == Appended(f, n, v)
<1>1. DOMAIN g = 0..n /\ DOMAIN f = 0..(n - 1)
      /\ g[n] = v /\ \A k \in 0..(n - 1) : g[k] = f[k] /\ k # n
  BY DEF IsSlice, Appended
<1> HIDE DEF g
<1>2. Held(g) = Held(f) \cup {v}
  <2>1. 0..n = 0..(n - 1) \cup {n}
    OBVIOUS
  <2> QED BY <1>1, <2>1 DEF Held
<1>3. \A w : /\ IsFiniteSet(Where(f, w)) /\ Cardinality(Where(f, w)) \in Nat
             /\ w \in Held(f) <=> Cardinality(Where(f, w)) # 0
  BY CountsAreNat
<1>4. ASSUME NEW w
      PROVE  Cardinality(Where(g, w)) = Cardinality(Where(f, w)) + (IF w = v THEN 1 ELSE 0)
  <2>1. CASE w = v
    <3>1. Where(g, w) = Where(f, w) \cup {n} /\ n \notin Where(f, w)
      BY <1>1, <2>1 DEF Where
    <3> QED BY <1>3, <2>1, <3>1, FS_AddElement
  <2>2. CASE w # v
    <3>1. Where(g, w) = Where(f, w)
      BY <1>1, <2>2 DEF Where
    <3> QED BY <1>3, <2>2, <3>1
  <2> QED BY <2>1, <2>2
<1>5. \A w : Cardinality(Where(f, w)) \in Nat
             /\ (w \notin Held(f) => Cardinality(Where(f, w)) = 0)
  BY <1>3
<1>6. BagOf(g) = BagOf(f) (+) SetToBag({v})
  BY <1>2, <1>4, <1>5 DEF BagOf, (+), SetToBag
<1>7. BagOf(g) (-) SetToBag({v}) = BagOf(f)
  BY <1>2, <1>3, <1>4, <1>5 DEF BagOf, (-), SetToBag
<1> QED BY <1>6, <1>7 DEF g

(* With the last value in the place of the first, the first is gone.       *)
LEMMA PopTakesFromBag ==
  ASSUME NEW n \in Nat \ {0}, NEW f, IsSlice(f, n),
         NEW g, g = [k \in 0..(n - 2) |-> IF k = 0 THEN f[n - 1] ELSE f[k]]
  PROVE  BagOf(g) = BagOf(f) (-) SetToBag({f[0]})
<1> DEFINE h == Swapped(f, 0, n - 1)
           m == n - 1
<1>1. m \in Nat /\ 0 \in 0..(n - 1) /\ n - 1 \in 0..(n - 1) /\ n \in Nat
  OBVIOUS
<1>2. BagOf(h) = BagOf(f)
  BY <1>1, SwapKeepsBag
<1>3. IsSlice(g, m)
  <2>1. n - 2 = m - 1
    OBVIOUS
  <2> HIDE DEF m
  <2> QED BY <2>1 DEF IsSlice
<1>4. h = Appended(g, m, f[0])
  <2>1. DOMAIN f = 0..m
    BY DEF IsSlice
  <2>2. h = [k \in 0..m |-> h[k]]
    BY <2>1 DEF Swapped
  <2>3. ASSUME NEW k \in 0..m PROVE h[k] = IF k = m THEN f[0] ELSE g[k]
    <3>1. CASE k = m
      BY <2>1, <3>1 DEF Swapped
    <3>2. CASE k # m
      <4>1. k \in 0..(n - 2)
        BY <3>2
      <4> QED BY <2>1, <3>2, <4>1 DEF Swapped
    <3> QED BY <3>1, <3>2
  <2> HIDE DEF h, m
  <2> QED BY <2>2, <2>3 DEF Appended
<1> HIDE DEF h, m
<1>5. BagOf(h) (-) SetToBag({f[0]}) = BagOf(g)
  BY <1>1, <1>3, <1>4, OneMoreInBag
<1> QED BY <1>2, <1>5

(* In a heap no value is to come before the one at the root.               *)
LEMMA RootIsFirst ==
  ASSUME IInv, loop = "none", NEW k \in DOMAIN items
  PROVE  ~Before(items[k], items[0])
<1> DEFINE n == Size
           Early == {c \in 0..(n - 1) : Bef(isMin, items[c], items[0])}
<1>1. n \in Nat /\ items \in [0..(n - 1) -> Values] /\ isMin \in BOOLEAN
      /\ Ordered(isMin, items, n, 0, NoGap, NoGap)
  BY SizeOf, HeapAssumption DEF IInv, TypeOK
<1> HIDE DEF n
<1>2. Early = {}
  <2> SUFFICES ASSUME Early # {} PROVE FALSE
    OBVIOUS
  <2>1. Early \in SUBSET Nat
    OBVIOUS
  <2> HIDE DEF Early
  <2>2. PICK c \in Early : \A d \in Early : c <= d
    BY <2>1, LeastNat
  <2> USE DEF Early
  <2>3. c \in 0..(n - 1) /\ Bef(isMin, items[c], items[0]) /\ 0 \in 0..(n - 1)
    BY <1>1
  <2>4. c # 0
    BY <1>1, <2>3, Order
  <2>5. Parent(c) \in 0..(n - 1) /\ Parent(c) < c /\ c \in 1..(n - 1)
    BY <1>1, <2>3, <2>4, Family
  <2>6. ~Bef(isMin, items[c], items[Parent(c)])
    BY <1>1, <2>5 DEF Ordered, NoGap
  <2>7. ~Bef(isMin, items[Parent(c)], items[0])
    <3>1. ~(c <= Parent(c))
      BY <2>5
    <3> QED BY <2>2, <2>5, <3>1
  <2> QED BY <1>1, <2>3, <2>5, <2>6, <2>7, Order
<1> QED BY <1>1, <1>2 DEF Bef, Before

(* What Queue has for bag, and its operators on bags, are those of here.   *)
QueueNext(bag, bagNext, busy, busyNext) ==
  /\ isMin' = isMin
  /\ \/ /\ ~busy /\ busyNext \in BOOLEAN
        /\ \/ \E v \in Values : bagNext = bag (+) SetToBag({v}) /\ popped' = popped
           \/ bag = EmptyBag /\ popped' = Nothing /\ bagNext = bag
           \/ \E v \in DOMAIN bag : /\ \A w \in DOMAIN bag : ~Before(w, v)
                                   /\ popped' = v /\ bagNext = bag (-) SetToBag({v})
           \/ DOMAIN bagNext \subseteq Values /\ popped' = popped
     \/ busy /\ ~busyNext /\ bagNext = bag /\ popped' = popped

LEMMA QueueSteps ==
  ASSUME QueueNext(BagOf(items), BagOf(items'), loop # "none", loop' # "none")
  PROVE  Queue!Next
  BY DEF QueueNext, BagOf, Held, Where, Before, (+), (-), SetToBag, EmptyBag, BagToSet,
         Queue!Next, Queue!Call, Queue!Return, Queue!Push, Queue!Pop, Queue!Heapify,
         Queue!Precedes, Queue!(+), Queue!(-), Queue!SetToBag, Queue!EmptyBag, Queue!BagToSet

LEMMA QueueStutters ==
  ASSUME BagOf(items') = BagOf(items), isMin' = isMin, popped' = popped,
         (loop' # "none") <=> (loop # "none")
  PROVE  UNCHANGED Queue!vars
  BY DEF BagOf, Held, Where, Queue!vars

LEMMA StepsOfQueue == IInv /\ [Next]_vars => [Queue!Next]_Queue!vars
<1> SUFFICES ASSUME IInv, [Next]_vars PROVE [Queue!Next]_Queue!vars
  OBVIOUS
<1> DEFINE n == Size
           Step == QueueNext(BagOf(items), BagOf(items'), loop # "none", loop' # "none")
           Stutter == /\ BagOf(items') = BagOf(items) /\ isMin' = isMin /\ popped' = popped
                      /\ (loop' # "none") <=> (loop # "none")
<1> HIDE DEF Step, Stutter
<1>1. n \in Nat /\ items \in [0..(n - 1) -> Values] /\ DOMAIN items = 0..(n - 1) /\ TypeOK
  <2>1. TypeOK
    BY DEF IInv
  <2>2. n \in 0..MaxSize /\ items \in [0..(n - 1) -> Values]
    BY <2>1, SizeOf
  <2> QED BY <2>1, <2>2, HeapAssumption
<1>2. IsSlice(items, n)
  BY <1>1 DEF IsSlice
<1>3. Step => [Queue!Next]_Queue!vars
  BY QueueSteps DEF Step
<1>4. Stutter => [Queue!Next]_Queue!vars
  BY QueueStutters DEF Stutter
<1> HIDE DEF n
<1>5. ASSUME NEW v \in Values, Push(v)
      PROVE  Step
  <2>1. items' = Appended(items, n, v)
    BY <1>5 DEF Push, Appended, n
  <2>2. BagOf(items') = BagOf(items) (+) SetToBag({v})
    BY <1>1, <1>2, <2>1, OneMoreInBag
  <2> QED BY <1>5, <2>2 DEF Push, Step, QueueNext
<1>6. ASSUME NEW slice \in Slices, Heapify(slice)
      PROVE  Step
  <2>1. DOMAIN BagOf(slice) \subseteq Values
    BY DEF Slices, BagOf, Held
  <2>2. items' = slice /\ isMin' = isMin /\ popped' = popped /\ loop = "none"
    BY <1>6 DEF Heapify
  <2> QED BY <2>1, <2>2 DEF Step, QueueNext
<1>7. ASSUME BubbleUp
      PROVE  Step \/ Stutter
  <2>1. loop = "push" /\ isMin' = isMin /\ popped' = popped /\ i \in 0..(n - 1)
    BY <1>1, <1>7 DEF BubbleUp, IInv, TypeOK, n
  <2>2. CASE 0 < i /\ Before(items[i], items[Parent(i)])
    <3>1. items' = Swapped(items, i, Parent(i)) /\ loop' = loop
      BY <1>7, <2>2 DEF BubbleUp, Swap, Swapped
    <3>2. Parent(i) \in 0..(n - 1)
      BY <1>1, <2>1, <2>2, Family
    <3>3. BagOf(items') = BagOf(items)
      BY <1>1, <1>2, <2>1, <3>1, <3>2, SwapKeepsBag
    <3> QED BY <2>1, <3>1, <3>3 DEF Stutter
  <2>3. CASE ~(0 < i /\ Before(items[i], items[Parent(i)]))
    <3>1. loop' = "none" /\ items' = items
      BY <1>7, <2>3 DEF BubbleUp
    <3> QED BY <2>1, <3>1 DEF Step, QueueNext
  <2> QED BY <2>2, <2>3
<1>8. ASSUME PopEmpty
      PROVE  Step
  <2>1. n = 0 /\ loop = "none" /\ popped' = Nothing /\ isMin' = isMin /\ items' = items
        /\ loop' = loop
    BY <1>8 DEF PopEmpty, n
  <2>2. BagOf(items) = EmptyBag
    <3>1. Held(items) = {}
      BY <1>1, <2>1 DEF Held
    <3> QED BY <3>1 DEF BagOf, EmptyBag, SetToBag
  <2> QED BY <2>1, <2>2 DEF Step, QueueNext
<1>9. ASSUME Pop
      PROVE  Step
  <2>1. n \in Nat \ {0} /\ loop = "none" /\ popped' = items[0] /\ isMin' = isMin
        /\ items' = [k \in 0..(n - 2) |-> IF k = 0 THEN items[n - 1] ELSE items[k]]
    BY <1>1, <1>9 DEF Pop, n
  <2>2. BagOf(items') = BagOf(items) (-) SetToBag({items[0]})
    BY <1>2, <2>1, PopTakesFromBag
  <2>3. DOMAIN BagOf(items) = Held(items)
    BY DEF BagOf
  <2>4. items[0] \in Held(items)
    BY <1>1, <2>1 DEF Held
  <2>5. \A w \in Held(items) : ~Before(w, items[0])
    BY <2>1, RootIsFirst DEF Held
  <2> QED BY <2>1, <2>2, <2>3, <2>4, <2>5 DEF Step, QueueNext
<1>10. ASSUME Sink
       PROVE  Stutter
  <2>1. Target # i /\ loop \in {"pop", "heapify"} /\ isMin' = isMin /\ loop' = loop
        /\ popped' = popped /\ items' = Swapped(items, i, Target)
    BY <1>10 DEF Sink, Swap, Swapped
  <2>2. i \in 0..(n - 1)
    BY <1>1, <2>1, SinkInside DEF n
  <2>3. Target \in 0..(n - 1)
    BY <1>1, <2>1, <2>2, TargetIsFirst DEF TypeOK, n
  <2>4. BagOf(items') = BagOf(items)
    BY <1>1, <1>2, <2>1, <2>2, <2>3, SwapKeepsBag
  <2> QED BY <2>1, <2>4 DEF Stutter
<1>11. ASSUME Settle
       PROVE  Step \/ Stutter
  <2>1. loop \in {"pop", "heapify"} /\ isMin' = isMin /\ popped' = popped /\ items' = items
        /\ (loop' = loop \/ loop' = "none")
    BY <1>11 DEF Settle
  <2> QED BY <2>1 DEF Step, Stutter, QueueNext
<1>12. ASSUME UNCHANGED vars
       PROVE  Stutter
  BY <1>12 DEF vars, Stutter
<1> QED
  BY <1>3, <1>4, <1>5, <1>6, <1>7, <1>8, <1>9, <1>10, <1>11, <1>12 DEF Next

(***************************************************************************)
(* Whatever mix of calls, on heaps of either order and of any size: the    *)
(* slice is a bag from which Pop takes the first in order, and no step of  *)
(* a loop adds, loses or repeats a value.                                  *)
(***************************************************************************)
THEOREM HeapIsPriorityQueue == Spec => ImplementsPriorityQueue
<1>1. Init => Queue!Init
  BY DEF Init, Queue!Init, Queue!EmptyBag, Queue!SetToBag
<1>2. IInv /\ [Next]_vars => [Queue!Next]_Queue!vars
  BY StepsOfQueue
<1> QED BY <1>1, <1>2, InitIInv, NextIInv, PTL DEF Spec, ImplementsPriorityQueue, Queue!Spec

-----------------------------------------------------------------------------
(* A set of indices has a greatest.                                        *)
LEMMA GreatestIndex ==
  ASSUME NEW n \in Nat, NEW S \in SUBSET (0..n), S # {}
  PROVE  \E m \in S : \A k \in S : k <= m
<1> DEFINE T == {t \in Nat : \E k \in S : t = n - k}
<1>1. T # {}
  <2>1. PICK k \in S : TRUE
    OBVIOUS
  <2>2. n - k \in Nat
    OBVIOUS
  <2> QED BY <2>1, <2>2
<1>2. PICK t \in T : \A u \in T : t <= u
  <2>1. T \in SUBSET Nat
    OBVIOUS
  <2> HIDE DEF T
  <2> QED BY <1>1, <2>1, LeastNat
<1>3. PICK m \in S : t = n - m
  BY <1>2
<1>4. ASSUME NEW k \in S PROVE k <= m
  <2>1. n - k \in Nat /\ n - k \in T
    OBVIOUS
  <2>2. t <= n - k
    BY <1>2, <2>1
  <2>3. k \in Int /\ m \in Int
    OBVIOUS
  <2> QED BY <1>3, <2>2, <2>3
<1> QED BY <1>4

-----------------------------------------------------------------------------
(***************************************************************************)
(* The routing table.                                                      *)
(***************************************************************************)
Bits == Seq({0, 1})
Names == Gateways \cup {NoGateway}

RouteInv ==
  /\ routes \in Seq([prefix : Bits, gateway : Names])
  /\ DOMAIN gateway \subseteq Bits /\ <<>> \in DOMAIN gateway
  /\ \A n \in DOMAIN gateway : gateway[n] = Current(n) /\ Prefixes(n) \subseteq DOMAIN gateway
  /\ \A n \in Bits \ DOMAIN gateway : Current(n) = NoGateway

LEMMA PrefixFacts ==
  ASSUME NEW bits \in Bits
  PROVE  /\ bits \in Prefixes(bits) /\ <<>> \in Prefixes(bits) /\ Prefixes(bits) \subseteq Bits
         /\ \A p \in Prefixes(bits) : Prefixes(p) \subseteq Prefixes(bits)
<1>1. Len(bits) \in Nat /\ SubSeq(bits, 1, Len(bits)) = bits /\ SubSeq(bits, 1, 0) = <<>>
  BY DEF Bits
<1>2. bits \in Prefixes(bits) /\ <<>> \in Prefixes(bits)
  <2>1. Len(bits) \in 0..Len(bits) /\ 0 \in 0..Len(bits)
    BY <1>1
  <2> QED BY <1>1, <2>1 DEF Prefixes
<1>3. ASSUME NEW l \in 0..Len(bits)
      PROVE  /\ SubSeq(bits, 1, l) \in Bits /\ Len(SubSeq(bits, 1, l)) = l
             /\ \A j \in 0..l : SubSeq(SubSeq(bits, 1, l), 1, j) = SubSeq(bits, 1, j)
  BY <1>1 DEF Bits
<1>4. Prefixes(bits) \subseteq Bits
  BY <1>3 DEF Prefixes
<1>5. ASSUME NEW p \in Prefixes(bits) PROVE Prefixes(p) \subseteq Prefixes(bits)
  <2>1. PICK l \in 0..Len(bits) : p = SubSeq(bits, 1, l)
    BY DEF Prefixes
  <2>2. \A j \in 0..l : j \in 0..Len(bits)
    BY <1>1
  <2> QED BY <1>3, <2>1, <2>2 DEF Prefixes
<1> QED BY <1>2, <1>4, <1>5

(* Adding a route makes it the current one of its prefix and no other.     *)
LEMMA CurrentAfterAdd ==
  ASSUME RouteInv, NEW gw \in Names, NEW bits \in Bits, AddPath(bits, gw)
  PROVE  /\ Current(bits)' = gw
         /\ \A n : n # bits => Current(n)' = Current(n)
<1> DEFINE n == Len(routes)
           at(p) == {k \in DOMAIN routes : routes[k].prefix = p}
           after(p) == {k \in DOMAIN routes' : routes'[k].prefix = p}
<1>1. /\ n \in Nat /\ DOMAIN routes = 1..n /\ DOMAIN routes' = 1..n + 1
      /\ \A k \in 1..n : routes'[k] = routes[k]
      /\ routes'[n + 1] = [prefix |-> bits, gateway |-> gw]
  BY DEF RouteInv, AddPath
<1>2. \A p : /\ Current(p) = IF at(p) = {} THEN NoGateway
                              ELSE routes[CHOOSE k \in at(p) : \A j \in at(p) : j <= k].gateway
             /\ Current(p)' = IF after(p) = {} THEN NoGateway
                               ELSE routes'[CHOOSE k \in after(p) : \A j \in after(p) : j <= k].gateway
  BY DEF Current
<1>3. Current(bits)' = gw
  <2>1. n + 1 \in after(bits) /\ \A j \in after(bits) : j <= n + 1 /\ j \in Int
    BY <1>1
  <2> HIDE DEF after, n
  <2>2. (CHOOSE k \in after(bits) : \A j \in after(bits) : j <= k) = n + 1
    BY <2>1
  <2> QED BY <1>1, <1>2, <2>1, <2>2
<1>4. ASSUME NEW p, p # bits PROVE Current(p)' = Current(p)
  <2>1. after(p) = at(p) /\ at(p) \in SUBSET (0..n)
    BY <1>1, <1>4
  <2> HIDE DEF after, at, n
  <2>2. CASE at(p) = {}
    BY <1>2, <2>1, <2>2
  <2>3. CASE at(p) # {}
    <3> DEFINE m == CHOOSE k \in at(p) : \A j \in at(p) : j <= k
    <3>1. m \in at(p)
      BY <1>1, <2>1, <2>3, GreatestIndex
    <3> HIDE DEF m
    <3>2. m \in 1..n
      BY <3>1, <1>1 DEF at
    <3>3. Current(p) = routes[m].gateway /\ Current(p)' = routes'[m].gateway
      BY <1>2, <2>1, <2>3 DEF m
    <3> QED BY <1>1, <3>2, <3>3
  <2> QED BY <2>2, <2>3
<1> QED BY <1>3, <1>4

LEMMA RouteInitInv == RouteInit => RouteInv
<1> SUFFICES ASSUME RouteInit PROVE RouteInv
  OBVIOUS
<1>1. routes = <<>> /\ gateway = [n \in {<<>>} |-> NoGateway]
  BY DEF RouteInit
<1>2. \A n : Current(n) = NoGateway
  BY <1>1 DEF Current
<1>3. <<>> \in Bits /\ Prefixes(<<>>) = {<<>>}
  <2>1. <<>> \in Bits /\ Len(<<>>) = 0 /\ \A l \in 0..0 : SubSeq(<<>>, 1, l) = <<>>
    BY DEF Bits
  <2>2. <<>> \in Prefixes(<<>>)
    BY <2>1, PrefixFacts
  <2>3. \A p \in Prefixes(<<>>) : p = <<>>
    BY <2>1 DEF Prefixes
  <2> QED BY <2>1, <2>2, <2>3
<1> QED BY <1>1, <1>2, <1>3 DEF RouteInv

LEMMA RouteStep == RouteInv /\ [AddRoute]_routeVars => RouteInv'
<1> SUFFICES ASSUME RouteInv, [AddRoute]_routeVars PROVE RouteInv'
  OBVIOUS
<1>1. ASSUME NEW gw \in Names, NEW bits \in Bits, AddPath(bits, gw) PROVE RouteInv'
  <2>1. /\ Current(bits)' = gw
        /\ \A n : n # bits => Current(n)' = Current(n)
    BY <1>1, CurrentAfterAdd
  <2>2. gateway' = [n \in DOMAIN gateway \cup Prefixes(bits) |->
                      IF n = bits THEN gw
                      ELSE IF n \in DOMAIN gateway THEN gateway[n] ELSE NoGateway]
    BY <1>1 DEF AddPath
  <2>3. /\ bits \in Prefixes(bits) /\ Prefixes(bits) \subseteq Bits
        /\ \A p \in Prefixes(bits) : Prefixes(p) \subseteq Prefixes(bits)
    BY PrefixFacts
  <2>4. routes' \in Seq([prefix : Bits, gateway : Names])
    BY <1>1 DEF AddPath, RouteInv
  <2>5. DOMAIN gateway' \subseteq Bits /\ <<>> \in DOMAIN gateway'
    BY <2>2, <2>3 DEF RouteInv
  <2>6. ASSUME NEW n \in DOMAIN gateway'
        PROVE  gateway'[n] = Current(n)' /\ Prefixes(n) \subseteq DOMAIN gateway'
    <3>1. Prefixes(n) \subseteq DOMAIN gateway'
      BY <2>2, <2>3 DEF RouteInv
    <3>2. CASE n = bits
      BY <2>1, <2>2, <3>1, <3>2
    <3>3. CASE n # bits /\ n \in DOMAIN gateway
      BY <2>1, <2>2, <3>1, <3>3 DEF RouteInv
    <3>4. CASE n # bits /\ n \notin DOMAIN gateway
      BY <2>1, <2>2, <2>5, <3>1, <3>4 DEF RouteInv
    <3> QED BY <3>2, <3>3, <3>4
  <2>7. \A n \in Bits \ DOMAIN gateway' : Current(n)' = NoGateway
    BY <2>1, <2>2, <2>3 DEF RouteInv
  <2> QED BY <2>4, <2>5, <2>6, <2>7 DEF RouteInv
<1>2. CASE AddRoute
  <2>1. PICK gw \in Names, bits \in Networks \cup Far : AddPath(bits, gw)
    BY <1>2 DEF AddRoute, Names
  <2>2. bits \in Bits
    BY RouteAssumption DEF Networks, Bits
  <2> QED BY <1>1, <2>1, <2>2
<1>3. CASE UNCHANGED routeVars
  <2>1. gateway' = gateway /\ routes' = routes
    BY <1>3 DEF routeVars
  <2>2. \A n : Current(n)' = Current(n)
    BY <2>1 DEF Current
  <2> QED BY <2>1, <2>2 DEF RouteInv
<1> QED BY <1>2, <1>3

LEMMA FindRouteUnfolds ==
  ASSUME RouteInv, NEW addr \in Addresses
  PROVE  \E best : /\ FindRoute(addr) = best[Width]
                   /\ best[0] = gateway[<<>>]
                   /\ \A k \in 1..Width :
                        best[k] = IF SubSeq(addr, 1, k) \in DOMAIN gateway
                                  THEN Better(best[k - 1], SubSeq(addr, 1, k))
                                  ELSE best[k - 1]
<1> DEFINE At(k) == SubSeq(addr, 1, k)
           Row(k, before) == IF At(k) \notin DOMAIN gateway THEN before
                             ELSE Better(IF k = 0 THEN NoGateway ELSE before, At(k))
           Fold(n, f) == [k \in 0..n |-> Row(k, f[k - 1])]
           N == {n \in Nat : \E f : f = Fold(n, f)}
           best == CHOOSE f : f = Fold(Width, f)
<1>1. FindRoute(addr) = best[Width]
  BY DEF FindRoute
<1>2. \A x : Row(0, x) = gateway[<<>>]
  <2>1. At(0) = <<>> /\ <<>> \in DOMAIN gateway
    BY RouteAssumption DEF RouteInv, Addresses
  <2> QED BY <2>1 DEF Better, NoGateway
<1>3. \A k \in 1..Width : \A x : Row(k, x) = IF At(k) \in DOMAIN gateway THEN Better(x, At(k)) ELSE x
  OBVIOUS
<1> HIDE DEF Row
<1>4. 0 \in N
  <2> DEFINE f == [k \in 0..0 |-> Row(0, 0)]
  <2>1. Row(0, 0) = Row(0, f[-1])
    BY <1>2
  <2>2. f = Fold(0, f)
    BY <2>1
  <2> HIDE DEF f, Fold
  <2> QED BY <2>2
<1>5. ASSUME NEW n \in Nat, n \in N PROVE n + 1 \in N
  <2>1. PICK f : f = Fold(n, f)
    BY <1>5
  <2> DEFINE g == [k \in 0..n + 1 |-> IF k = n + 1 THEN Row(n + 1, f[n]) ELSE f[k]]
  <2>2. \A k \in 1..n : k - 1 \in 0..n /\ f[k] = Row(k, f[k - 1])
    BY <2>1
  <2>3. f[0] = Row(0, f[0 - 1]) /\ Row(0, f[0 - 1]) = Row(0, g[0 - 1])
    BY <2>1, <1>2
  <2>4. g = Fold(n + 1, g)
    <3>1. ASSUME NEW k \in 0..n + 1 PROVE g[k] = Row(k, g[k - 1])
      <4>1. CASE k = 0
        BY <4>1, <2>3
      <4>2. CASE k \in 1..n
        BY <4>2, <2>2
      <4>3. CASE k = n + 1
        BY <4>3
      <4> QED BY <4>1, <4>2, <4>3
    <3> QED BY <3>1
  <2> HIDE DEF g, Fold
  <2> QED BY <2>4
<1>6. best = Fold(Width, best)
  <2> HIDE DEF Fold
  <2>1. Width \in N
    <3> HIDE DEF N
    <3> QED BY <1>4, <1>5, EveryNat, RouteAssumption
  <2> QED BY <2>1
<1> HIDE DEF best
<1>7. \A k \in 0..Width : best[k] = Row(k, best[k - 1])
  BY <1>6
<1> HIDE DEF Fold
<1>8. best[0] = gateway[<<>>]
  BY <1>2, <1>7, RouteAssumption
<1>9. \A k \in 1..Width : best[k] = IF At(k) \in DOMAIN gateway THEN Better(best[k - 1], At(k))
                                                                  ELSE best[k - 1]
  BY <1>3, <1>7, RouteAssumption
<1> QED BY <1>1, <1>8, <1>9

(***************************************************************************)
(* FindRoute answers with the current route of the longest prefix of the   *)
(* address (LongestPrefix), for addresses of any number of bits, any       *)
(* number of calls of AddRoute and any routes, of more bits or fewer.      *)
(***************************************************************************)
THEOREM FindsLongestPrefix == RouteSpec => []LongestPrefix
<1>1. ASSUME RouteInv PROVE LongestPrefix
  <2> SUFFICES ASSUME NEW addr \in Addresses
               PROVE  LET live == {k \in 0..Width : Current(SubSeq(addr, 1, k)) # NoGateway}
                      IN  FindRoute(addr) =
                            IF live = {} THEN NoGateway
                            ELSE Current(SubSeq(addr, 1, CHOOSE k \in live : \A j \in live : j <= k))
    BY DEF LongestPrefix
  <2> DEFINE At(k) == SubSeq(addr, 1, k)
             live == {k \in 0..Width : Current(At(k)) # NoGateway}
  <2>1. PICK best : /\ FindRoute(addr) = best[Width]
                    /\ best[0] = gateway[<<>>]
                    /\ \A k \in 1..Width :
                         best[k] = IF At(k) \in DOMAIN gateway THEN Better(best[k - 1], At(k))
                                                                ELSE best[k - 1]
    BY <1>1, FindRouteUnfolds
  <2>2. At(0) = <<>> /\ \A k \in 0..Width : At(k) \in Bits
    BY RouteAssumption DEF Addresses, Bits
  <2> HIDE DEF At
  (* What an address's node gives, and that without a node it gives nothing. *)
  <2>3. /\ best[0] = Current(At(0))
        /\ \A k \in 1..Width :
             best[k] = IF Current(At(k)) # NoGateway THEN Current(At(k)) ELSE best[k - 1]
    <3>1. best[0] = Current(At(0))
      BY <1>1, <2>1, <2>2 DEF RouteInv
    <3>2. ASSUME NEW k \in 1..Width
          PROVE  best[k] = IF Current(At(k)) # NoGateway THEN Current(At(k)) ELSE best[k - 1]
      <4>1. At(k) \in Bits
        BY <2>2
      <4>2. CASE At(k) \in DOMAIN gateway
        BY <1>1, <2>1, <4>2 DEF RouteInv, Better
      <4>3. CASE At(k) \notin DOMAIN gateway
        BY <1>1, <2>1, <4>1, <4>3 DEF RouteInv
      <4> QED BY <4>2, <4>3
    <3> QED BY <3>1, <3>2
  <2> DEFINE Found(k) == \/ best[k] = NoGateway /\ \A j \in 0..k : j \notin live
                         \/ \E j \in 0..k : /\ j \in live /\ best[k] = Current(At(j))
                                            /\ \A l \in 0..k : l \in live => l <= j
             S == {k \in Nat : k <= Width => Found(k)}
  <2>4. 0 \in S
    BY <2>3, RouteAssumption
  <2>5. ASSUME NEW k \in Nat, k \in S PROVE k + 1 \in S
    <3> SUFFICES ASSUME k + 1 <= Width PROVE Found(k + 1)
      OBVIOUS
    <3>1. k + 1 \in 1..Width /\ k + 1 \in 0..Width /\ (k + 1) - 1 = k /\ Found(k)
      BY <2>5, RouteAssumption
    <3>2. best[k + 1] = IF k + 1 \in live THEN Current(At(k + 1)) ELSE best[k]
      BY <2>3, <3>1
    <3> HIDE DEF live
    <3>3. \A j \in 0..k + 1 : j \in 0..k \/ j = k + 1
      OBVIOUS
    <3>4. CASE k + 1 \in live
      <4>1. best[k + 1] = Current(At(k + 1))
        BY <3>2, <3>4
      <4>2. \A l \in 0..k + 1 : l <= k + 1
        OBVIOUS
      <4> QED BY <3>4, <4>1, <4>2
    <3>5. CASE k + 1 \notin live
      <4>1. best[k + 1] = best[k] /\ \A j \in 0..k : j \in 0..k + 1
        BY <3>2, <3>5
      <4> QED BY <3>1, <3>3, <3>5, <4>1
    <3> QED BY <3>4, <3>5
  <2>6. Found(Width)
    <3> HIDE DEF S
    <3>1. Width \in S
      BY <2>4, <2>5, EveryNat, RouteAssumption
    <3> QED BY <3>1, RouteAssumption DEF S
  <2> HIDE DEF S
  <2>7. CASE live = {}
    BY <2>1, <2>6, <2>7 DEF At
  <2>8. CASE live # {}
    <3>1. PICK j \in live : best[Width] = Current(At(j)) /\ \A l \in live : l <= j
      BY <2>6, <2>8
    <3>2. (CHOOSE k \in live : \A l \in live : l <= k) = j
      <4>1. \A k \in live : k \in Int
        OBVIOUS
      <4> HIDE DEF live
      <4> QED BY <3>1, <4>1
    <3> QED BY <2>1, <2>8, <3>1, <3>2 DEF At
  <2> QED BY <2>7, <2>8
<1>2. RouteInv => LongestPrefix
  BY <1>1
<1> QED BY <1>2, RouteInitInv, RouteStep, PTL DEF RouteSpec

(***************************************************************************)
(* FindRoute stops at the first bit for which there is no node: the nodes  *)
(* on the way to every route are there, so none it would have found is     *)
(* missed.                                                                 *)
(***************************************************************************)
THEOREM PathsAreComplete ==
  RouteSpec => [](\A n \in DOMAIN gateway : Prefixes(n) \subseteq DOMAIN gateway)
<1>1. RouteInv => \A n \in DOMAIN gateway : Prefixes(n) \subseteq DOMAIN gateway
  BY DEF RouteInv
<1> QED BY <1>1, RouteInitInv, RouteStep, PTL DEF RouteSpec

-----------------------------------------------------------------------------
(***************************************************************************)
(* Prefixes of sequences of runes.                                         *)
(***************************************************************************)
Strings == Seq(Runes)

LEMMA IsPrefixFacts ==
  ASSUME NEW s \in Strings, NEW t \in Strings
  PROVE  /\ Len(s) \in Nat /\ Len(t) \in Nat
         /\ IsPrefix(s, t) <=> s \in Prefixes(t)
         /\ IsPrefix(s, t) => Len(s) <= Len(t) /\ (Len(s) = Len(t) => s = t)
         /\ IsPrefix(s, s) /\ IsPrefix(<<>>, s) /\ Len(<<>>) = 0 /\ <<>> \in Strings
         /\ Len(s) = 0 => s = <<>>
<1>1. /\ Len(s) \in Nat /\ Len(t) \in Nat /\ SubSeq(s, 1, Len(s)) = s /\ SubSeq(t, 1, Len(t)) = t
      /\ Len(<<>>) = 0 /\ <<>> \in Strings /\ (Len(s) = 0 => s = <<>>)
      /\ SubSeq(<<>>, 1, 0) = <<>> /\ SubSeq(s, 1, 0) = <<>>
  BY DEF Strings
<1>2. IsPrefix(s, t) <=> Len(s) <= Len(t) /\ s = SubSeq(t, 1, Len(s))
  BY <1>1 DEF IsPrefix
<1>3. ASSUME NEW l \in 0..Len(t) PROVE Len(SubSeq(t, 1, l)) = l
  BY <1>1 DEF Strings
<1>4. IsPrefix(s, t) <=> s \in Prefixes(t)
  <2>1. ASSUME IsPrefix(s, t) PROVE s \in Prefixes(t)
    <3>1. Len(s) \in 0..Len(t)
      BY <1>1, <1>2, <2>1
    <3> QED BY <1>2, <2>1, <3>1 DEF Prefixes
  <2>2. ASSUME s \in Prefixes(t) PROVE IsPrefix(s, t)
    <3>1. PICK l \in 0..Len(t) : s = SubSeq(t, 1, l)
      BY <2>2 DEF Prefixes
    <3> QED BY <1>2, <1>3, <3>1
  <2> QED BY <2>1, <2>2
<1>5. IsPrefix(s, t) => Len(s) <= Len(t) /\ (Len(s) = Len(t) => s = t)
  BY <1>1, <1>2
<1>6. IsPrefix(s, s) /\ IsPrefix(<<>>, s)
  BY <1>1 DEF IsPrefix
<1> QED BY <1>1, <1>4, <1>5, <1>6

(* The prefixes of one sequence are prefixes of each other.                *)
LEMMA PrefixOfPrefix ==
  ASSUME NEW s \in Strings, NEW t \in Strings, IsPrefix(s, t)
  PROVE  /\ \A r \in Strings : IsPrefix(r, s) => IsPrefix(r, t)
         /\ \A r \in Strings : IsPrefix(r, t) /\ Len(r) <= Len(s) => IsPrefix(r, s)
<1>1. ASSUME NEW r \in Strings, IsPrefix(r, s) PROVE IsPrefix(r, t)
  <2>1. /\ Len(r) \in Nat /\ Len(s) \in Nat /\ Len(t) \in Nat /\ Len(r) <= Len(s) /\ Len(s) <= Len(t)
        /\ SubSeq(r, 1, Len(r)) = SubSeq(s, 1, Len(r)) /\ SubSeq(s, 1, Len(s)) = SubSeq(t, 1, Len(s))
    BY <1>1 DEF IsPrefix, Strings
  <2>2. \A k \in 1..Len(s) : s[k] = t[k]
    BY <2>1 DEF Strings
  <2>3. SubSeq(s, 1, Len(r)) = SubSeq(t, 1, Len(r))
    BY <2>1, <2>2 DEF Strings
  <2> QED BY <2>1, <2>3 DEF IsPrefix
<1>2. ASSUME NEW r \in Strings, IsPrefix(r, t), Len(r) <= Len(s) PROVE IsPrefix(r, s)
  <2>1. /\ Len(r) \in Nat /\ Len(s) \in Nat /\ Len(t) \in Nat /\ Len(r) <= Len(s) /\ Len(s) <= Len(t)
        /\ SubSeq(r, 1, Len(r)) = SubSeq(t, 1, Len(r)) /\ SubSeq(s, 1, Len(s)) = SubSeq(t, 1, Len(s))
    BY <1>2 DEF IsPrefix, Strings
  <2>2. \A k \in 1..Len(s) : s[k] = t[k]
    BY <2>1 DEF Strings
  <2>3. SubSeq(s, 1, Len(r)) = SubSeq(t, 1, Len(r))
    BY <2>1, <2>2 DEF Strings
  <2> QED BY <2>1, <2>3 DEF IsPrefix
<1> QED BY <1>1, <1>2

(* The prefix of each length.                                              *)
LEMMA PrefixOfLength ==
  ASSUME NEW t \in Strings, NEW l \in 0..Len(t)
  PROVE  /\ SubSeq(t, 1, l) \in Strings /\ Len(SubSeq(t, 1, l)) = l /\ IsPrefix(SubSeq(t, 1, l), t)
         /\ \A r \in Strings : IsPrefix(r, t) /\ Len(r) = l => r = SubSeq(t, 1, l)
<1>1. Len(t) \in Nat /\ SubSeq(t, 1, l) \in Strings /\ Len(SubSeq(t, 1, l)) = l
  BY DEF Strings
<1>2. SubSeq(t, 1, l) \in Prefixes(t)
  BY DEF Prefixes
<1>3. IsPrefix(SubSeq(t, 1, l), t)
  BY <1>1, <1>2, IsPrefixFacts
<1>4. ASSUME NEW r \in Strings, IsPrefix(r, t), Len(r) = l PROVE r = SubSeq(t, 1, l)
  <2>1. SubSeq(r, 1, Len(r)) = r
    BY DEF Strings
  <2> QED BY <1>4, <2>1 DEF IsPrefix
<1> QED BY <1>1, <1>3, <1>4

-----------------------------------------------------------------------------
(***************************************************************************)
(* The trie.  A set of nodes that has every node's prefixes and the root.  *)
(***************************************************************************)
Closed(in) ==
  /\ in \subseteq Strings /\ <<>> \in in
  /\ \A n \in in, m \in Strings : IsPrefix(m, n) => m \in in

(* A node that is above another has a child on the way to it.              *)
LEMMA ChildTowards ==
  ASSUME NEW in, Closed(in), NEW n \in in, NEW m \in Strings, IsPrefix(m, n), m # n
  PROVE  \E c \in in : Len(c) = Len(m) + 1 /\ IsPrefix(m, c) /\ IsPrefix(c, n)
<1>1. n \in Strings /\ m \in Strings
  BY DEF Closed
<1>2. Len(m) \in Nat /\ Len(n) \in Nat /\ Len(m) < Len(n)
  BY <1>1, IsPrefixFacts
<1> DEFINE c == SubSeq(n, 1, Len(m) + 1)
<1>3. Len(m) + 1 \in 0..Len(n)
  BY <1>2
<1>4. c \in Strings /\ Len(c) = Len(m) + 1 /\ IsPrefix(c, n)
  BY <1>1, <1>3, PrefixOfLength
<1> HIDE DEF c
<1>5. c \in in
  BY <1>4 DEF Closed
<1>6. IsPrefix(m, c)
  BY <1>1, <1>2, <1>4, PrefixOfPrefix
<1> QED BY <1>4, <1>5, <1>6

(* A step of the walk up. *)
KeptOrCut(m, before, endings) ==
  IF HasChildren(m, before) \/ m \in endings THEN before ELSE before \ {m}

WalkUp(n, in, endings, left) ==
  /\ left[0] = in
  /\ \A k \in 1..Len(n) :
       left[k] = KeptOrCut(SubSeq(n, 1, Len(n) + 1 - k), left[k - 1], endings)

LEMMA PruneUnfolds ==
  ASSUME NEW n, Len(n) \in Nat, NEW in, NEW endings
  PROVE  \E left : Prune(n, in, endings) = left[Len(n)] /\ WalkUp(n, in, endings, left)
<1> DEFINE At(k) == SubSeq(n, 1, Len(n) + 1 - k)
           Row(k, before) == IF k = 0 THEN in ELSE KeptOrCut(At(k), before, endings)
           Fold(l, f) == [k \in 0..l |-> Row(k, f[k - 1])]
           N == {l \in Nat : \E f : f = Fold(l, f)}
           left == CHOOSE f : f = Fold(Len(n), f)
<1>1. Prune(n, in, endings) = left[Len(n)]
  BY DEF Prune, KeptOrCut
<1>2. \A x : Row(0, x) = in
  OBVIOUS
<1>3. \A k \in 1..Len(n) : \A x : Row(k, x) = KeptOrCut(At(k), x, endings)
  OBVIOUS
<1> HIDE DEF Row
<1>4. 0 \in N
  <2> DEFINE f == [k \in 0..0 |-> Row(0, 0)]
  <2>1. Row(0, 0) = Row(0, f[-1])
    BY <1>2
  <2>2. f = Fold(0, f)
    BY <2>1
  <2> HIDE DEF f, Fold
  <2> QED BY <2>2
<1>5. ASSUME NEW l \in Nat, l \in N PROVE l + 1 \in N
  <2>1. PICK f : f = Fold(l, f)
    BY <1>5
  <2> DEFINE g == [k \in 0..l + 1 |-> IF k = l + 1 THEN Row(l + 1, f[l]) ELSE f[k]]
  <2>2. \A k \in 1..l : k - 1 \in 0..l /\ f[k] = Row(k, f[k - 1])
    BY <2>1
  <2>3. f[0] = Row(0, f[0 - 1]) /\ Row(0, f[0 - 1]) = Row(0, g[0 - 1])
    BY <2>1, <1>2
  <2>4. g = Fold(l + 1, g)
    <3>1. ASSUME NEW k \in 0..l + 1 PROVE g[k] = Row(k, g[k - 1])
      <4>1. CASE k = 0
        BY <4>1, <2>3
      <4>2. CASE k \in 1..l
        BY <4>2, <2>2
      <4>3. CASE k = l + 1
        BY <4>3
      <4> QED BY <4>1, <4>2, <4>3
    <3> QED BY <3>1
  <2> HIDE DEF g, Fold
  <2> QED BY <2>4
<1>6. left = Fold(Len(n), left)
  <2> HIDE DEF Fold
  <2>1. Len(n) \in N
    <3> HIDE DEF N
    <3> QED BY <1>4, <1>5, EveryNat
  <2> QED BY <2>1
<1> HIDE DEF left
<1>7. \A k \in 0..Len(n) : left[k] = Row(k, left[k - 1])
  BY <1>6
<1> HIDE DEF Fold
<1>8. left[0] = in
  BY <1>2, <1>7
<1>9. \A k \in 1..Len(n) : left[k] = KeptOrCut(At(k), left[k - 1], endings)
  <2> HIDE DEF At
  <2> TAKE k \in 1..Len(n)
  <2>1. left[k] = Row(k, left[k - 1])
    BY <1>7
  <2> QED BY <2>1, <1>3
<1>10. WalkUp(n, in, endings, left)
  BY <1>8, <1>9 DEF WalkUp
<1> QED BY <1>1, <1>10

(* Going up from word, Prune takes away the nodes that lead to no word of  *)
(* endings, if word's own are all there are, and no others.                *)
Leads(n, endings) == \E w \in endings : IsPrefix(n, w)

LEMMA PruneIsExact ==
  ASSUME NEW in, Closed(in), NEW word \in in, NEW endings, endings \subseteq in,
         \A n \in in : n = <<>> \/ IsPrefix(n, word) \/ Leads(n, endings)
  PROVE  LET out == Prune(word, in, endings)
         IN  /\ Closed(out) /\ out \subseteq in /\ endings \subseteq out
             /\ \A n \in out : n = <<>> \/ Leads(n, endings)
<1> DEFINE size == Len(word)
           At(k) == SubSeq(word, 1, size + 1 - k)
<1>1. word \in Strings /\ size \in Nat /\ endings \subseteq Strings /\ in \subseteq Strings
  BY IsPrefixFacts DEF Closed
<1>2. PICK left : Prune(word, in, endings) = left[size] /\ WalkUp(word, in, endings, left)
  BY <1>1, PruneUnfolds
<1>0. /\ left[0] = in
      /\ \A k \in 1..size : left[k] = KeptOrCut(At(k), left[k - 1], endings)
  BY <1>2 DEF WalkUp
<1>3. ASSUME NEW k \in 1..size
      PROVE  /\ At(k) \in Strings /\ Len(At(k)) = size + 1 - k /\ IsPrefix(At(k), word) /\ At(k) # <<>>
             /\ \A n \in Strings : IsPrefix(n, word) /\ Len(n) = size + 1 - k => n = At(k)
  <2>1. size + 1 - k \in 0..size /\ size + 1 - k # 0
    BY <1>1
  <2>2. At(k) \in Strings /\ Len(At(k)) = size + 1 - k /\ IsPrefix(At(k), word)
    BY <1>1, <2>1, PrefixOfLength
  <2>3. \A n \in Strings : IsPrefix(n, word) /\ Len(n) = size + 1 - k => n = At(k)
    BY <1>1, <2>1, PrefixOfLength
  <2> HIDE DEF At
  <2>4. At(k) # <<>>
    BY <2>1, <2>2
  <2> QED BY <2>2, <2>3, <2>4
<1> HIDE DEF At
<1> DEFINE Good(k) ==
             /\ Closed(left[k]) /\ left[k] \subseteq in /\ endings \subseteq left[k]
             /\ \A n \in left[k] : \/ n = <<>>
                                   \/ IsPrefix(n, word) /\ Len(n) <= size - k
                                   \/ Leads(n, endings)
           S == {k \in Nat : k <= size => Good(k)}
<1>4. 0 \in S
  <2>1. \A n \in in : IsPrefix(n, word) => Len(n) <= size - 0
    BY <1>1, IsPrefixFacts
  <2> QED BY <1>0, <2>1
<1>5. ASSUME NEW k \in Nat, k \in S PROVE k + 1 \in S
  <2> SUFFICES ASSUME k + 1 <= size PROVE Good(k + 1)
    OBVIOUS
  <2> DEFINE m == At(k + 1)
             before == left[k]
             after == left[k + 1]
  <2>1. k + 1 \in 1..size /\ (k + 1) - 1 = k /\ size + 1 - (k + 1) = size - k /\ Good(k)
    BY <1>1, <1>5
  <2>2. after = IF HasChildren(m, before) \/ m \in endings THEN before ELSE before \ {m}
    BY <1>0, <2>1 DEF KeptOrCut
  <2>3. /\ m \in Strings /\ Len(m) = size - k /\ IsPrefix(m, word) /\ m # <<>>
        /\ \A n \in Strings : IsPrefix(n, word) /\ Len(n) = size - k => n = m
    BY <1>3, <2>1
  <2>4. /\ Closed(before) /\ before \subseteq in /\ endings \subseteq before
        /\ \A n \in before : \/ n = <<>>
                             \/ IsPrefix(n, word) /\ Len(n) <= size - k
                             \/ Leads(n, endings)
    BY <2>1
  <2> HIDE DEF m, before, S
  <2>5. after \subseteq in /\ endings \subseteq after
    BY <2>2, <2>4
  <2>6. Closed(after)
    <3>1. CASE after = before
      BY <3>1, <2>4
    <3>2. CASE after = before \ {m} /\ ~HasChildren(m, before)
      <4>1. ASSUME NEW n \in after, NEW l \in Strings, IsPrefix(l, n) PROVE l \in after
        <5>1. n \in before /\ n # m /\ l \in before
          BY <3>2, <4>1, <2>4 DEF Closed
        <5>2. CASE l = m
          <6>1. \E c \in before : Len(c) = Len(m) + 1 /\ IsPrefix(m, c)
            BY <2>3, <2>4, <4>1, <5>1, <5>2, ChildTowards
          <6> QED BY <3>2, <6>1 DEF HasChildren
        <5> QED BY <3>2, <5>1, <5>2
      <4>2. after \subseteq Strings /\ <<>> \in after
        BY <2>3, <2>4, <3>2 DEF Closed
      <4> HIDE DEF after
      <4> QED BY <4>1, <4>2 DEF Closed
    <3> HIDE DEF after
    <3> QED BY <2>2, <3>1, <3>2
  <2>7. ASSUME NEW n \in after
        PROVE  \/ n = <<>>
               \/ IsPrefix(n, word) /\ Len(n) <= size - (k + 1)
               \/ Leads(n, endings)
    <3>1. n \in before /\ n \in Strings
      BY <2>2, <2>4 DEF Closed
    <3> SUFFICES ASSUME n # <<>>, IsPrefix(n, word), Len(n) <= size - k, ~(Len(n) <= size - (k + 1))
                 PROVE  Leads(n, endings)
      BY <2>4, <3>1
    <3>2. n = m
      <4>1. Len(n) \in Nat
        BY <3>1, IsPrefixFacts
      <4>2. Len(n) = size - k
        BY <1>1, <4>1
      <4> QED BY <2>3, <3>1, <4>2
    <3>3. HasChildren(m, before) \/ m \in endings
      BY <2>2, <3>2
    <3>4. CASE m \in endings
      BY <2>3, <3>2, <3>4, IsPrefixFacts DEF Leads
    <3>5. CASE HasChildren(m, before)
      <4>1. PICK c \in before : Len(c) = Len(m) + 1 /\ IsPrefix(m, c)
        BY <3>5 DEF HasChildren
      <4>2. c \in Strings /\ Len(c) = size - k + 1 /\ c # <<>> /\ ~(Len(c) <= size - k)
        <5>1. c \in Strings
          BY <2>4, <4>1 DEF Closed
        <5>2. Len(c) = size - k + 1 /\ size - k \in Nat
          BY <1>1, <2>1, <2>3, <4>1
        <5>3. c # <<>>
          BY <5>2
        <5> QED BY <5>1, <5>2, <5>3, <1>1
      <4>3. PICK w \in endings : IsPrefix(c, w)
        BY <2>4, <4>1, <4>2 DEF Leads
      <4>4. IsPrefix(m, w)
        BY <1>1, <2>3, <4>1, <4>2, <4>3, PrefixOfPrefix
      <4> QED BY <3>2, <4>3, <4>4 DEF Leads
    <3> QED BY <3>3, <3>4, <3>5
  <2> QED BY <2>5, <2>6, <2>7
<1>6. Good(size)
  <2> HIDE DEF Good
  <2>1. size \in S
    <3> HIDE DEF S, size
    <3>1. size \in Nat
      BY <1>1 DEF size
    <3> QED BY <3>1, <1>4, <1>5, EveryNat
  <2> QED BY <1>1, <2>1
<1> HIDE DEF S
<1>7. ASSUME NEW n \in left[size] PROVE n = <<>> \/ Leads(n, endings)
  <2>1. n \in Strings
    BY <1>6 DEF Closed
  <2>2. Len(n) <= size - size => n = <<>>
    BY <1>1, <2>1, IsPrefixFacts
  <2> QED BY <1>6, <2>2
<1> QED BY <1>2, <1>6, <1>7

LEMMA PrefixesAreStrings ==
  ASSUME NEW word \in Strings
  PROVE  /\ \A n \in Prefixes(word) : n \in Strings /\ IsPrefix(n, word) /\ Len(n) <= Len(word)
         /\ \A n \in Strings : IsPrefix(n, word) => n \in Prefixes(word)
<1>1. Len(word) \in Nat
  BY DEF Strings
<1>2. ASSUME NEW n \in Prefixes(word) PROVE n \in Strings /\ IsPrefix(n, word) /\ Len(n) <= Len(word)
  <2>1. PICK l \in 0..Len(word) : n = SubSeq(word, 1, l)
    BY DEF Prefixes
  <2> QED BY <1>1, <2>1, PrefixOfLength, IsPrefixFacts
<1>3. \A n \in Strings : IsPrefix(n, word) => n \in Prefixes(word)
  BY <1>1, IsPrefixFacts
<1> QED BY <1>2, <1>3

(* A walk along word comes through when the last node of it is there.      *)
LEMMA WalkIsThere ==
  ASSUME NEW in, Closed(in), NEW word \in Strings
  PROVE  Prefixes(word) \subseteq in <=> word \in in
<1>1. word \in Prefixes(word)
  BY PrefixesAreStrings, IsPrefixFacts
<1>2. word \in in => Prefixes(word) \subseteq in
  BY PrefixesAreStrings DEF Closed
<1> QED BY <1>1, <1>2

(* FindAllWithPrefix's search finds the words under its node and no more.  *)
LEMMA WordsBelowIsExact ==
  ASSUME Closed(nodes), ends \subseteq nodes,
         NEW deepest \in Nat, \A n \in nodes : Len(n) <= deepest, NEW prefix \in nodes
  PROVE  WordsBelow(prefix) = {word \in ends : IsPrefix(prefix, word)}
<1> DEFINE Children(m) == {d \in nodes : Len(d) = Len(m) + 1 /\ IsPrefix(m, d)}
           Own(m) == IF m \in ends THEN {m} ELSE {}
           Fold(f) == [m \in nodes |-> Own(m) \cup UNION {f[c] : c \in Children(m)}]
           Under(m) == {word \in ends : IsPrefix(m, word)}
           exact == [m \in nodes |-> Under(m)]
           found == CHOOSE f : f = Fold(f)
<1>1. WordsBelow(prefix) = found[prefix]
  BY DEF WordsBelow
<1>2. nodes \subseteq Strings /\ ends \subseteq Strings
  BY DEF Closed
<1>3. ASSUME NEW m \in nodes
      PROVE  exact[m] = Own(m) \cup UNION {exact[c] : c \in Children(m)}
  <2>1. \A c \in Children(m) : c \in nodes /\ exact[c] = Under(c)
    OBVIOUS
  <2>2. exact[m] = Under(m)
    OBVIOUS
  <2> HIDE DEF exact
  <2>3. ASSUME NEW word \in Under(m) PROVE word \in Own(m) \cup UNION {exact[c] : c \in Children(m)}
    <3>1. CASE word = m
      BY <3>1
    <3>2. CASE word # m
      <4>1. PICK c \in nodes : Len(c) = Len(m) + 1 /\ IsPrefix(m, c) /\ IsPrefix(c, word)
        BY <1>2, <3>2, ChildTowards
      <4> QED BY <2>1, <4>1
    <3> QED BY <3>1, <3>2
  <2>4. Own(m) \subseteq Under(m)
    BY <1>2, IsPrefixFacts
  <2>5. ASSUME NEW c \in Children(m), NEW word \in exact[c] PROVE word \in Under(m)
    <3>1. word \in ends /\ IsPrefix(c, word) /\ IsPrefix(m, c)
      BY <2>1, <2>5
    <3>2. IsPrefix(m, word)
      BY <1>2, <3>1, PrefixOfPrefix
    <3> QED BY <3>1, <3>2
  <2> HIDE DEF Under, Own, Children
  <2> QED BY <2>2, <2>3, <2>4, <2>5
<1> HIDE DEF Own, Children
<1>4. exact = Fold(exact)
  <2> HIDE DEF Under
  <2> DEFINE again == Fold(exact)
  <2>1. DOMAIN exact = nodes /\ DOMAIN again = nodes
    OBVIOUS
  <2>2. \A m \in nodes : again[m] = Own(m) \cup UNION {exact[c] : c \in Children(m)}
    OBVIOUS
  <2> HIDE DEF exact
  <2>3. \A m \in nodes : again[m] = exact[m]
    BY <1>3, <2>2
  <2>4. exact = [m \in nodes |-> exact[m]]
    BY DEF exact
  <2>5. again = [m \in nodes |-> again[m]]
    OBVIOUS
  <2> HIDE DEF again
  <2>6. exact = again
    BY <2>3, <2>4, <2>5
  <2> QED BY <2>6 DEF again
<1>5. found = Fold(found)
  <2> HIDE DEF Fold, exact
  <2> QED BY <1>4
<1> HIDE DEF found
<1>6. \A m \in nodes : found[m] = Own(m) \cup UNION {found[c] : c \in Children(m)}
  BY <1>5
<1> HIDE DEF exact, Fold
<1>7. ASSUME NEW m \in nodes, \A c \in Children(m) : found[c] = exact[c]
      PROVE  found[m] = exact[m]
  <2>1. {found[c] : c \in Children(m)} = {exact[c] : c \in Children(m)}
    BY <1>7
  <2> QED BY <1>3, <1>6, <2>1
<1> DEFINE S == {k \in Nat : \A m \in nodes : Len(m) + k >= deepest => found[m] = exact[m]}
<1>8. 0 \in S
  <2> SUFFICES ASSUME NEW m \in nodes, Len(m) + 0 >= deepest PROVE found[m] = exact[m]
    OBVIOUS
  <2>1. Len(m) \in Nat
    BY <1>2, IsPrefixFacts
  <2>2. Children(m) = {}
    BY <2>1 DEF Children
  <2> QED BY <1>7, <2>2
<1>9. ASSUME NEW k \in Nat, k \in S PROVE k + 1 \in S
  <2> SUFFICES ASSUME NEW m \in nodes, Len(m) + (k + 1) >= deepest PROVE found[m] = exact[m]
    OBVIOUS
  <2>1. Len(m) \in Nat
    BY <1>2, IsPrefixFacts
  <2>2. ASSUME NEW c \in Children(m) PROVE found[c] = exact[c]
    <3>1. c \in nodes /\ Len(c) + k >= deepest
      BY <2>1 DEF Children
    <3> QED BY <1>9, <3>1
  <2> QED BY <1>7, <2>2
<1>10. deepest \in S
  <2> HIDE DEF S
  <2> QED BY <1>8, <1>9, EveryNat
<1>11. found[prefix] = exact[prefix]
  <2>1. Len(prefix) \in Nat
    BY <1>2, IsPrefixFacts
  <2> QED BY <1>10, <2>1
<1> QED BY <1>1, <1>11 DEF exact

-----------------------------------------------------------------------------
(***************************************************************************)
(* The inductive invariant of the trie: it has the way to every word, none *)
(* of its nodes is deeper than some bound, and while no deletion has       *)
(* panicked every node leads to a word.                                    *)
(***************************************************************************)
TrieInv ==
  /\ Closed(nodes) /\ ends \subseteq nodes /\ ends \subseteq Words
  /\ \E deepest \in Nat : \A n \in nodes : Len(n) <= deepest
  /\ panicked \in BOOLEAN
  /\ ~panicked => \A n \in nodes : n = <<>> \/ Leads(n, ends)

LEMMA TrieInitInv == TrieInit => TrieInv
<1> SUFFICES ASSUME TrieInit PROVE TrieInv
  OBVIOUS
<1>1. nodes = {<<>>} /\ ends = {} /\ ~panicked /\ panicked \in BOOLEAN
  BY DEF TrieInit
<1>2. <<>> \in Strings /\ Len(<<>>) = 0
  BY DEF Strings
<1>3. Closed(nodes)
  <2>1. \A m \in Strings : IsPrefix(m, <<>>) => m = <<>>
    BY <1>2, IsPrefixFacts
  <2> QED BY <1>1, <1>2, <2>1 DEF Closed
<1> QED BY <1>1, <1>2, <1>3 DEF TrieInv

(* What Search finds are the words marked, and a walk finds every node.    *)
LEMMA MarkedAreFound ==
  ASSUME TrieInv
  PROVE  /\ \A word \in Strings : StartsWith(word) <=> word \in nodes
         /\ \A word \in Words : IsWord(word) <=> word \in ends
         /\ FoundWords = ends
<1>1. \A word \in Strings : StartsWith(word) <=> word \in nodes
  BY WalkIsThere DEF StartsWith, TrieInv
<1>2. Words \subseteq Strings
  BY WordAssumption DEF Strings
<1>3. \A word \in Words : IsWord(word) <=> word \in ends
  BY <1>1, <1>2 DEF IsWord, TrieInv
<1>4. FoundWords = ends
  BY <1>3 DEF FoundWords, TrieInv
<1> QED BY <1>1, <1>3, <1>4

(* A deletion that does not panic cuts off no other word.                  *)
LEMMA DeletionStep ==
  ASSUME TrieInv, ~panicked, NEW word \in ends, Unlink(word), panicked' = panicked
  PROVE  TrieInv' /\ ends' = ends \ {word}
<1> DEFINE endings == ends \ {word}
           in == nodes
           out == Prune(word, in, endings)
<1>1. Closed(nodes) /\ word \in nodes /\ endings \subseteq nodes /\ word \in Strings
  BY DEF TrieInv, Closed
<1>2. ASSUME NEW n \in nodes PROVE n = <<>> \/ IsPrefix(n, word) \/ Leads(n, endings)
  <2> SUFFICES ASSUME n # <<>>, ~IsPrefix(n, word) PROVE Leads(n, endings)
    OBVIOUS
  <2>1. PICK w \in ends : IsPrefix(n, w)
    BY DEF TrieInv, Leads
  <2> QED BY <2>1 DEF Leads
<1>3. /\ Closed(out) /\ out \subseteq in /\ endings \subseteq out
      /\ \A n \in out : n = <<>> \/ Leads(n, endings)
  <2>1. /\ Closed(in) /\ word \in in /\ endings \subseteq in
        /\ \A n \in in : n = <<>> \/ IsPrefix(n, word) \/ Leads(n, endings)
    BY <1>1, <1>2
  <2> HIDE DEF endings, in
  <2> QED BY <2>1, PruneIsExact
<1>4. nodes' = out /\ ends' = endings \cap out
  BY DEF Unlink
<1> HIDE DEF out
<1>5. Closed(nodes)'
  BY <1>3, <1>4 DEF Closed
<1>6. ends' = endings
  BY <1>3, <1>4
<1>7. \A n \in nodes' : n = <<>> \/ Leads(n, ends)'
  BY <1>3, <1>4, <1>6 DEF Leads
<1>8. nodes' \subseteq nodes /\ ends' \subseteq nodes'
  BY <1>3, <1>4, <1>6
<1>9. \E deepest \in Nat : \A n \in nodes' : Len(n) <= deepest
  BY <1>8 DEF TrieInv
<1> QED BY <1>5, <1>6, <1>7, <1>8, <1>9 DEF TrieInv

LEMMA TrieStep == TrieInv /\ [TrieNext]_trieVars => TrieInv'
<1> SUFFICES ASSUME TrieInv, [TrieNext]_trieVars PROVE TrieInv'
  OBVIOUS
<1>1. ASSUME ~panicked, NEW word \in Words, InsertWord(word) PROVE TrieInv'
  <2>1. nodes' = nodes \cup Prefixes(word) /\ ends' = ends \cup {word} /\ panicked' = panicked
    BY <1>1 DEF InsertWord
  <2>2. word \in Strings /\ Len(word) \in Nat
    BY WordAssumption DEF Strings
  <2>3. \A n \in Prefixes(word) : n \in Strings /\ IsPrefix(n, word) /\ Len(n) <= Len(word)
    BY <2>2, PrefixesAreStrings
  <2>4. \A n \in Strings : IsPrefix(n, word) => n \in Prefixes(word)
    BY <2>2, PrefixesAreStrings
  <2>5. Closed(nodes)'
    <3>1. ASSUME NEW n \in Prefixes(word), NEW m \in Strings, IsPrefix(m, n) PROVE m \in Prefixes(word)
      BY <2>2, <2>3, <2>4, <3>1, PrefixOfPrefix
    <3>2. nodes' \subseteq Strings /\ <<>> \in nodes'
      BY <2>1, <2>3 DEF TrieInv, Closed
    <3>3. ASSUME NEW n \in nodes', NEW m \in Strings, IsPrefix(m, n) PROVE m \in nodes'
      BY <2>1, <3>1, <3>3 DEF TrieInv, Closed
    <3> QED BY <3>2, <3>3 DEF Closed
  <2>6. ends' \subseteq nodes' /\ ends' \subseteq Words
    <3>1. word \in Prefixes(word)
      BY <2>2, <2>4, IsPrefixFacts
    <3> QED BY <2>1, <3>1 DEF TrieInv
  <2>7. \E deepest \in Nat : \A n \in nodes' : Len(n) <= deepest
    <3>1. PICK deepest \in Nat : \A n \in nodes : Len(n) <= deepest
      BY DEF TrieInv
    <3>2. PICK more \in Nat : deepest <= more /\ Len(word) <= more
      BY <2>2
    <3>3. ASSUME NEW n \in nodes' PROVE Len(n) <= more
      <4>1. n \in Strings
        BY <2>5 DEF Closed
      <4>2. Len(n) \in Nat
        BY <4>1, IsPrefixFacts
      <4> QED BY <2>1, <2>2, <2>3, <3>1, <3>2, <4>2
    <3> QED BY <3>3
  <2>8. \A n \in nodes' : n = <<>> \/ Leads(n, ends)'
    BY <1>1, <2>1, <2>3 DEF TrieInv, Leads
  <2> QED BY <2>1, <2>5, <2>6, <2>7, <2>8 DEF TrieInv
<1>2. ASSUME UNCHANGED <<nodes, ends, panicked>> PROVE TrieInv'
  <2>1. nodes' = nodes /\ ends' = ends /\ panicked' = panicked
    BY <1>2
  <2> QED BY <2>1 DEF TrieInv, Closed, Leads
(* A word unmarked, with its nodes left, by a deletion that panics.        *)
<1>3. ASSUME NEW word \in Words, ends' \in {ends, ends \ {word}}, nodes' = nodes, panicked' = TRUE
      PROVE  TrieInv'
  BY <1>3 DEF TrieInv, Closed
<1>4. ASSUME ~panicked, NEW word \in Words, DeleteIterative(word) PROVE TrieInv'
  <2>1. CASE ~IsWord(word)
    BY <1>2, <1>4, <2>1 DEF DeleteIterative
  <2>2. CASE IsWord(word) /\ Panics(word)
    BY <1>3, <1>4, <2>2 DEF DeleteIterative
  <2>3. CASE IsWord(word) /\ ~Panics(word)
    <3>1. word \in ends /\ Unlink(word) /\ panicked' = panicked
      BY <1>4, <2>3 DEF DeleteIterative, IsWord
    <3> QED BY <1>4, <3>1, DeletionStep
  <2> QED BY <2>1, <2>2, <2>3
<1>5. ASSUME ~panicked, NEW word \in Words, DeleteRecursive(word) PROVE TrieInv'
  <2>1. CASE StartsWith(word) /\ Panics(word)
    <3>1. ends' = ends /\ nodes' = nodes /\ panicked' = TRUE
      BY <1>5, <2>1 DEF DeleteRecursive
    <3> QED BY <1>3, <3>1
  <2>2. CASE ~IsWord(word) /\ ~(StartsWith(word) /\ Panics(word))
    BY <1>2, <1>5, <2>2 DEF DeleteRecursive
  <2>3. CASE IsWord(word) /\ ~Panics(word)
    <3>1. word \in ends /\ Unlink(word) /\ panicked' = panicked
      BY <1>5, <2>3 DEF DeleteRecursive, IsWord
    <3> QED BY <1>5, <3>1, DeletionStep
  <2> QED BY <2>1, <2>2, <2>3 DEF IsWord
<1>6. ASSUME NEW word \in Words, SearchWord(word) PROVE TrieInv'
  BY <1>2, <1>6 DEF SearchWord
<1>7. ASSUME UNCHANGED trieVars PROVE TrieInv'
  BY <1>2, <1>7 DEF trieVars
<1> QED BY <1>1, <1>4, <1>5, <1>6, <1>7 DEF TrieNext

(***************************************************************************)
(* FindAllWithPrefix returns the words that begin with its argument and    *)
(* StartsWith says whether there is one (PrefixesOfWords), after any       *)
(* insertions and deletions of any words: what a deletion takes away led   *)
(* to no word, and what it leaves leads to one.                            *)
(***************************************************************************)
THEOREM FindsWordsOfPrefix == TrieSpec => []PrefixesOfWords
<1>1. ASSUME TrieInv PROVE PrefixesOfWords
  <2> SUFFICES ASSUME NEW word \in Words, NEW prefix \in Prefixes(word)
               PROVE  LET found == {w \in ends : IsPrefix(prefix, w)}
                      IN  /\ FindAllWithPrefix(prefix) = found
                          /\ StartsWith(prefix)
                               <=> (found # {} \/ prefix = <<>> \/ (panicked /\ prefix \in nodes))
    BY DEF PrefixesOfWords
  <2> DEFINE found == {w \in ends : IsPrefix(prefix, w)}
  <2>1. prefix \in Strings
    <3>1. word \in Strings
      BY WordAssumption DEF Strings
    <3>2. PICK l \in 0..Len(word) : prefix = SubSeq(word, 1, l)
      BY DEF Prefixes
    <3> QED BY <3>1, <3>2, PrefixOfLength
  <2>2. (found # {} => prefix \in nodes) /\ (StartsWith(prefix) <=> prefix \in nodes)
    BY <1>1, <2>1, MarkedAreFound DEF TrieInv, Closed
  <2>3. FindAllWithPrefix(prefix) = found
    <3>1. CASE prefix \in nodes
      <4>1. PICK deepest \in Nat : \A n \in nodes : Len(n) <= deepest
        BY <1>1 DEF TrieInv
      <4>2. WordsBelow(prefix) = found
        BY <1>1, <3>1, <4>1, WordsBelowIsExact DEF TrieInv
      <4> QED BY <2>2, <3>1, <4>2 DEF FindAllWithPrefix
    <3>2. CASE prefix \notin nodes
      BY <2>2, <3>2 DEF FindAllWithPrefix
    <3> QED BY <3>1, <3>2
  <2>4. prefix \in nodes => found # {} \/ prefix = <<>> \/ panicked
    BY <1>1 DEF TrieInv, Leads
  <2>5. prefix = <<>> => prefix \in nodes
    BY <1>1 DEF TrieInv, Closed
  <2> QED BY <2>2, <2>3, <2>4, <2>5
<1>2. TrieInv => PrefixesOfWords
  BY <1>1
<1> QED BY <1>2, TrieInitInv, TrieStep, PTL DEF TrieSpec

(***************************************************************************)
(* The words that Search finds are a set of keys: every call does to it    *)
(* what it should for its own word, by either deletion and up to a panic   *)
(* (ImplementsKeySet).  It takes the invariant: pruning must leave the way *)
(* to every other word.                                                    *)
(***************************************************************************)
THEOREM TrieIsAKeySet == TrieSpec => ImplementsKeySet
<1>1. ASSUME TrieInv, TrieInv', TrieNext PROVE CallsActOnWords
  <2>1. /\ FoundWords = ends /\ \A word \in Words : IsWord(word) <=> word \in ends
        /\ \A word \in Words : word \in ends => StartsWith(word)
    BY <1>1, MarkedAreFound DEF IsWord
  <2>2. FoundWords' = ends'
    <3>1. \A word \in Words : Prefixes(word) \subseteq nodes' <=> word \in nodes'
      BY <1>1, WordAssumption, WalkIsThere DEF TrieInv, Closed, Strings
    <3> QED BY <1>1, <3>1 DEF FoundWords, IsWord, StartsWith, TrieInv
  <2>3. ~panicked
    BY <1>1 DEF TrieNext
  <2> SUFFICES ASSUME NEW word \in Words
               PROVE  /\ InsertWord(word) => WordSet!Add(word) /\ UNCHANGED answer
                      /\ SearchWord(word) => WordSet!Search(word)
                      /\ DeleteIterative(word) =>
                           WordSet!Delete(word) \/ (panicked' /\ WordSet!Remove(word))
                      /\ DeleteRecursive(word) =>
                           WordSet!Delete(word) \/ (panicked' /\ UNCHANGED FoundWords)
    BY DEF CallsActOnWords
  <2>4. InsertWord(word) => WordSet!Add(word) /\ UNCHANGED answer
    BY <2>1, <2>2 DEF InsertWord, WordSet!Add
  <2>5. SearchWord(word) => WordSet!Search(word)
    <3> SUFFICES ASSUME SearchWord(word) PROVE WordSet!Search(word)
      OBVIOUS
    <3>1. answer' = (word \in FoundWords) /\ ends' = ends
      <4>1. answer' = IsWord(word) /\ ends' = ends
        BY DEF SearchWord
      <4>2. IsWord(word) = (word \in FoundWords)
        BY <2>1 DEF IsWord
      <4> QED BY <4>1, <4>2
    <3> QED BY <2>1, <2>2, <3>1 DEF WordSet!Search
  (* A deletion that finds its word and does not panic.                    *)
  <2>6. ASSUME IsWord(word), Unlink(word), panicked' = panicked, answer' = TRUE
        PROVE  WordSet!Delete(word)
    <3>1. word \in ends /\ ends' = ends \ {word}
      BY <1>1, <2>1, <2>3, <2>6, DeletionStep
    <3>2. (word \in FoundWords) = TRUE
      BY <2>1, <3>1
    <3> QED BY <2>1, <2>2, <2>6, <3>1, <3>2 DEF WordSet!Delete, WordSet!Remove
  (* One that finds no word.                                               *)
  <2>7. ASSUME ~IsWord(word), ends' = ends, answer' = FALSE PROVE WordSet!Delete(word)
    <3>1. (word \in FoundWords) = FALSE /\ FoundWords' = FoundWords \ {word}
      BY <2>1, <2>2, <2>7
    <3> QED BY <2>7, <3>1 DEF WordSet!Delete, WordSet!Remove
  <2>8. DeleteIterative(word) => WordSet!Delete(word) \/ (panicked' /\ WordSet!Remove(word))
    <3> SUFFICES ASSUME DeleteIterative(word)
                 PROVE  WordSet!Delete(word) \/ (panicked' /\ WordSet!Remove(word))
      OBVIOUS
    <3>1. CASE ~IsWord(word)
      BY <2>7, <3>1 DEF DeleteIterative
    <3>2. CASE IsWord(word) /\ Panics(word)
      BY <2>1, <2>2, <3>2 DEF DeleteIterative, WordSet!Remove
    <3>3. CASE IsWord(word) /\ ~Panics(word)
      BY <2>6, <3>3 DEF DeleteIterative
    <3> QED BY <3>1, <3>2, <3>3
  <2>9. DeleteRecursive(word) => WordSet!Delete(word) \/ (panicked' /\ UNCHANGED FoundWords)
    <3> SUFFICES ASSUME DeleteRecursive(word)
                 PROVE  WordSet!Delete(word) \/ (panicked' /\ UNCHANGED FoundWords)
      OBVIOUS
    <3>1. CASE StartsWith(word) /\ Panics(word)
      <4>1. panicked' /\ ends' = ends
        BY <2>1, <3>1 DEF DeleteRecursive
      <4> QED BY <2>1, <2>2, <4>1
    <3>2. CASE ~IsWord(word) /\ ~(StartsWith(word) /\ Panics(word))
      BY <2>7, <3>2 DEF DeleteRecursive
    <3>3. CASE IsWord(word) /\ ~Panics(word)
      BY <2>6, <3>3 DEF DeleteRecursive
    <3> QED BY <3>1, <3>2, <3>3 DEF IsWord
  <2> QED BY <2>4, <2>5, <2>8, <2>9
<1>2. TrieInit => WordSet!Init
  <2> SUFFICES ASSUME TrieInit PROVE WordSet!Init
    OBVIOUS
  <2>1. FoundWords = {} /\ answer = FALSE
    BY DEF TrieInit, FoundWords, IsWord
  <2> QED BY <2>1 DEF WordSet!Init
<1>3. TrieInv /\ TrieInv' /\ [TrieNext]_trieVars => [CallsActOnWords]_trieVars
  BY <1>1
<1> QED BY <1>2, <1>3, TrieInitInv, TrieStep, PTL DEF TrieSpec, ImplementsKeySet
=============================================================================
