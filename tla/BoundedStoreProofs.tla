------------------------- MODULE BoundedStoreProofs -------------------------
(***************************************************************************)
(* The two stores of a fixed size that drop the oldest of what they hold:  *)
(* the cache, by a list of its keys, and the buffer, by an index that      *)
(* comes round.                                                            *)
(***************************************************************************)
EXTENDS LRUCache, MetricsBuffer, FiniteSetTheorems, Iteration

-----------------------------------------------------------------------------
(***************************************************************************)
(* The list of LRUCache is one chain through the keys of the map, for any  *)
(* keys, values and capacity, and amounts to the cache of RecencyCache.    *)
(*                                                                         *)
(* The invariant names the chain: a sequence s of the keys of the map, each*)
(* once, that head, tail and the pointers of its keys represent.  The      *)
(* pointers of the other keys are arbitrary: an evicted node keeps those   *)
(* it had.                                                                 *)
(***************************************************************************)

Lists == [prev : [Keys -> Node], next : [Keys -> Node], head : Node, tail : Node]

(* The i-th key of the chain s of n keys, and NoNode beyond its ends. *)
At(s, n, i) == IF i \in 1..n THEN s[i] ELSE NoNode

Chained(s, n) ==
  /\ n \in Nat /\ s \in [1..n -> Keys]
  /\ \A i, j \in 1..n : s[i] = s[j] => i = j

Linked(l, s, n) ==
  /\ l \in Lists /\ Chained(s, n)
  /\ l.head = At(s, n, 1)
  /\ \A i \in 1..n : l.next[s[i]] = At(s, n, i + 1) /\ l.prev[s[i]] = At(s, n, i - 1)

Represents(l, s, n) == Linked(l, s, n) /\ l.tail = At(s, n, n)

KeysOf(s, n) == {s[i] : i \in 1..n}

(* What the list operations make of a chain. *)
Before(k, s, n) == [i \in 1..n + 1 |-> IF i = 1 THEN k ELSE s[i - 1]]
Raised(s, n, p) == [i \in 1..n |-> IF i = 1 THEN s[p] ELSE IF i <= p THEN s[i - 1] ELSE s[i]]
Without(s, n, p) == [i \in 1..n - 1 |-> IF i < p THEN s[i] ELSE s[i + 1]]
Cut(l, k) == SetPrev(SetNext(l, l.prev[k], l.next[k]), l.next[k], l.prev[k])

-----------------------------------------------------------------------------
(* The pointers that LinkFirst changes.                                    *)
LEMMA LinkFirstPointers ==
  ASSUME CacheAssumption, NEW l \in Lists, NEW n \in Keys, l.head # n
  PROVE  LET m == LinkFirst(l, n)
         IN  /\ m \in Lists /\ m.head = n /\ m.tail = l.tail
             /\ m.prev[n] = NoNode /\ m.next[n] = l.head
             /\ l.head # NoNode => m.prev[l.head] = n
             /\ \A k \in Keys : /\ k # n => m.next[k] = l.next[k]
                                /\ k # n /\ k # l.head => m.prev[k] = l.prev[k]
<1> DEFINE l1 == SetPrev(l, n, NoNode)
           l2 == SetNext(l1, n, l.head)
           l3 == SetPrev(l2, l.head, n)
           m == [l3 EXCEPT !.head = n]
<1>1. n \in Node /\ n # NoNode /\ NoNode \in Node /\ l.head \in Node
  BY DEF Node, Lists, CacheAssumption
<1>2. l1 \in Lists /\ l1.head = l.head /\ l1.tail = l.tail /\ l1.next = l.next
      /\ l1.prev[n] = NoNode /\ \A k \in Keys : k # n => l1.prev[k] = l.prev[k]
  BY <1>1 DEF SetPrev, Lists
<1> HIDE DEF l1
<1>3. l2 \in Lists /\ l2.head = l.head /\ l2.tail = l.tail /\ l2.prev = l1.prev
      /\ l2.next[n] = l.head /\ \A k \in Keys : k # n => l2.next[k] = l.next[k]
  BY <1>1, <1>2 DEF SetNext, Lists
<1> HIDE DEF l2
<1>4. l3 \in Lists /\ l3.tail = l.tail /\ l3.next = l2.next
      /\ (l.head # NoNode => l3.prev[l.head] = n)
      /\ \A k \in Keys : k # l.head => l3.prev[k] = l2.prev[k]
  <2>1. l.head # NoNode => l.head \in Keys
    BY <1>1 DEF Node
  <2> QED BY <1>1, <1>3, <2>1 DEF SetPrev, Lists
<1> HIDE DEF l3
<1>5. m \in Lists /\ m.head = n /\ m.tail = l3.tail /\ m.next = l3.next /\ m.prev = l3.prev
  BY <1>1, <1>4 DEF Lists
<1> HIDE DEF m
<1>6. LinkFirst(l, n) = m
  BY <1>2, <1>3 DEF LinkFirst, l1, l2, l3, m
<1> QED BY <1>1, <1>2, <1>3, <1>4, <1>5, <1>6

(* Linking a key that is not in the chain, before it.                      *)
LEMMA LinkFirstChains ==
  ASSUME CacheAssumption, NEW l, NEW s, NEW n, Linked(l, s, n),
         NEW k \in Keys, k \notin KeysOf(s, n)
  PROVE  Linked(LinkFirst(l, k), Before(k, s, n), n + 1) /\ LinkFirst(l, k).tail = l.tail
<1> DEFINE m == LinkFirst(l, k)
           t == Before(k, s, n)
<1>0. /\ l \in Lists /\ l.head = At(s, n, 1)
      /\ \A i \in 1..n : l.next[s[i]] = At(s, n, i + 1) /\ l.prev[s[i]] = At(s, n, i - 1)
  BY DEF Linked
<1>1. n \in Nat /\ n + 1 \in Nat /\ s \in [1..n -> Keys] /\ (\A i, j \in 1..n : s[i] = s[j] => i = j)
      /\ \A i \in 1..n : s[i] # k /\ s[i] \in Keys
  BY DEF Linked, Chained, KeysOf
<1>2. l.head # k
  BY <1>0, <1>1 DEF At, CacheAssumption
<1>3. m \in Lists /\ m.head = k /\ m.tail = l.tail /\ m.prev[k] = NoNode /\ m.next[k] = l.head
  BY <1>0, <1>2, LinkFirstPointers
<1>4. /\ l.head # NoNode => m.prev[l.head] = k
      /\ \A j \in Keys : /\ j # k => m.next[j] = l.next[j]
                         /\ j # k /\ j # l.head => m.prev[j] = l.prev[j]
  BY <1>0, <1>2, LinkFirstPointers
<1> HIDE DEF m
<1>5. t \in [1..n + 1 -> Keys] /\ t[1] = k
      /\ \A i \in 2..n + 1 : t[i] = s[i - 1] /\ i - 1 \in 1..n
  BY <1>1 DEF Before
<1> HIDE DEF t
<1>6. \A i \in 1..n + 1 : i = 1 \/ i \in 2..n + 1
  BY <1>1
<1>7. Chained(t, n + 1)
  <2>1. ASSUME NEW i \in 1..n + 1, NEW j \in 1..n + 1, t[i] = t[j] PROVE i = j
    <3>1. CASE i = 1 \/ j = 1
      BY <1>1, <1>5, <1>6, <2>1, <3>1
    <3>2. CASE i # 1 /\ j # 1
      <4>1. i \in 2..n + 1 /\ j \in 2..n + 1
        BY <1>6, <3>2
      <4>2. i - 1 = j - 1
        BY <1>1, <1>5, <2>1, <4>1
      <4> QED BY <4>1, <4>2
    <3> QED BY <3>1, <3>2
  <2> QED BY <1>1, <1>5, <2>1 DEF Chained
<1>8. m.head = At(t, n + 1, 1)
  BY <1>1, <1>3, <1>5 DEF At
<1>9. ASSUME NEW i \in 1..n + 1
      PROVE  m.next[t[i]] = At(t, n + 1, i + 1) /\ m.prev[t[i]] = At(t, n + 1, i - 1)
  <2>1. CASE i = 1
    <3>1. At(t, n + 1, 2) = At(s, n, 1)
      BY <1>1, <1>5 DEF At
    <3>2. At(t, n + 1, 0) = NoNode
      BY <1>1 DEF At
    <3> QED BY <1>0, <1>3, <1>5, <2>1, <3>1, <3>2
  <2>2. CASE i # 1
    <3> DEFINE j == i - 1
    <3>1. j \in 1..n /\ t[i] = s[j] /\ i = j + 1 /\ s[j] \in Keys /\ s[j] # k
      BY <1>1, <1>5, <2>2
    <3> HIDE DEF j
    <3>2. m.next[t[i]] = At(s, n, j + 1)
      BY <1>0, <1>1, <1>4, <3>1
    <3>3. At(s, n, j + 1) = At(t, n + 1, i + 1)
      BY <1>1, <1>5, <3>1 DEF At
    <3>4. m.prev[t[i]] = At(t, n + 1, i - 1)
      <4>1. CASE j = 1
        <5>1. l.head = s[j] /\ l.head # NoNode
          BY <1>0, <1>1, <3>1, <4>1 DEF At, CacheAssumption
        <5> QED BY <1>1, <1>4, <1>5, <3>1, <4>1, <5>1 DEF At
      <4>2. CASE j # 1
        <5>1. s[j] # l.head
          BY <1>0, <1>1, <3>1, <4>2 DEF At
        <5>2. m.prev[t[i]] = At(s, n, j - 1)
          BY <1>0, <1>1, <1>4, <3>1, <5>1
        <5>3. j - 1 \in 1..n /\ j \in 2..n + 1 /\ j \in 1..n + 1 /\ i - 1 = j
          BY <1>1, <3>1, <4>2
        <5>4. t[j] = s[j - 1]
          BY <1>5, <5>3
        <5> QED BY <5>2, <5>3, <5>4 DEF At
      <4> QED BY <4>1, <4>2
    <3> QED BY <3>2, <3>3, <3>4
  <2> QED BY <2>1, <2>2
<1> QED BY <1>3, <1>7, <1>8, <1>9 DEF Linked, m, t

(* Taking a key out of the chain that is not the first.                    *)
LEMMA CutChains ==
  ASSUME CacheAssumption, NEW l, NEW s, NEW n, Linked(l, s, n), NEW p \in 2..n
  PROVE  Linked(Cut(l, s[p]), Without(s, n, p), n - 1) /\ Cut(l, s[p]).tail = l.tail
<1> DEFINE k == s[p]
           a == s[p - 1]
           b == At(s, n, p + 1)
           l1 == SetNext(l, a, b)
           m == SetPrev(l1, b, a)
           t == Without(s, n, p)
<1>0. /\ l \in Lists /\ l.head = At(s, n, 1)
      /\ \A i \in 1..n : l.next[s[i]] = At(s, n, i + 1) /\ l.prev[s[i]] = At(s, n, i - 1)
  BY DEF Linked
<1>1. n \in Nat /\ n - 1 \in Nat /\ p \in 1..n /\ p - 1 \in 1..n
      /\ s \in [1..n -> Keys] /\ (\A i \in 1..n : s[i] \in Keys)
  BY DEF Linked, Chained
<1>2. \A i, j \in 1..n : s[i] = s[j] => i = j
  BY DEF Linked, Chained
<1>3. /\ l.prev[k] = a /\ l.next[k] = b
      /\ a \in Keys /\ a # NoNode /\ a \in Node /\ b \in Node /\ (b # NoNode => b \in Keys)
  <2>1. At(s, n, p - 1) = a
    BY <1>1 DEF At
  <2>2. b \in Node
    BY <1>1 DEF At, Node
  <2> QED BY <1>0, <1>1, <2>1, <2>2 DEF Node, CacheAssumption
<1>4. Cut(l, k) = m
  BY <1>3 DEF Cut
<1> HIDE DEF k, a, b
<1>5. l1 \in Lists
  BY <1>0, <1>3 DEF SetNext, Lists
<1>6. l1.head = l.head /\ l1.tail = l.tail /\ l1.prev = l.prev
  BY <1>0, <1>3 DEF SetNext, Lists
<1>7. \A j \in Keys : j = a => l1.next[j] = b
  BY <1>0, <1>3 DEF SetNext, Lists
<1>8. \A j \in Keys : j # a => l1.next[j] = l.next[j]
  BY <1>0, <1>3 DEF SetNext, Lists
<1> HIDE DEF l1
<1>9. m \in Lists
  BY <1>3, <1>5 DEF SetPrev, Lists
<1>10. m.head = l.head /\ m.tail = l.tail /\ m.next = l1.next
  <2>1. m.head = l1.head /\ m.tail = l1.tail /\ m.next = l1.next
    BY <1>3, <1>5 DEF SetPrev, Lists
  <2> QED BY <1>6, <2>1
<1>11. \A j \in Keys : j = b => m.prev[j] = a
  <2>1. \A j \in Keys : b # NoNode /\ j = b => m.prev[j] = a
    BY <1>3, <1>5 DEF SetPrev, Lists
  <2> QED BY <2>1 DEF CacheAssumption
<1>12. \A j \in Keys : j # b => m.prev[j] = l.prev[j]
  <2>1. \A j \in Keys : j # b => m.prev[j] = l1.prev[j]
    BY <1>3, <1>5 DEF SetPrev, Lists
  <2> QED BY <1>6, <2>1
<1> HIDE DEF m
<1>13. /\ DOMAIN t = 1..n - 1
       /\ \A i \in 1..n - 1 : /\ i \in 1..n /\ i + 1 \in 1..n
                              /\ i < p => t[i] = s[i]
                              /\ p <= i => t[i] = s[i + 1]
  BY <1>1 DEF Without
<1> HIDE DEF t
<1>14. Chained(t, n - 1)
  <2>1. t \in [1..n - 1 -> Keys]
    BY <1>1 DEF Without, t
  <2>2. ASSUME NEW i \in 1..n - 1, NEW j \in 1..n - 1, t[i] = t[j] PROVE i = j
    <3>1. PICK x \in 1..n, y \in 1..n : /\ t[i] = s[x] /\ t[j] = s[y]
                                       /\ x = (IF i < p THEN i ELSE i + 1)
                                       /\ y = (IF j < p THEN j ELSE j + 1)
      BY <1>1, <1>13
    <3>2. x = y
      BY <1>2, <2>2, <3>1
    <3> QED BY <1>1, <3>1, <3>2
  <2> QED BY <1>1, <2>1, <2>2 DEF Chained
<1>15. m.head = At(t, n - 1, 1)
  BY <1>0, <1>1, <1>10, <1>13 DEF At
<1>16. ASSUME NEW i \in 1..n - 1
       PROVE  m.next[t[i]] = At(t, n - 1, i + 1)
  <2>1. CASE i = p - 1
    <3>1. m.next[t[i]] = b
      BY <1>1, <1>3, <1>7, <1>10, <1>13, <2>1 DEF a
    <3> QED BY <1>1, <1>13, <2>1, <3>1 DEF At, b
  <2>2. CASE i < p - 1
    <3>1. t[i] = s[i] /\ s[i] # a /\ s[i] \in Keys
      BY <1>1, <1>2, <1>13, <2>2 DEF a
    <3>2. m.next[t[i]] = At(s, n, i + 1)
      BY <1>0, <1>8, <1>10, <1>13, <3>1
    <3> QED BY <1>1, <1>13, <2>2, <3>2 DEF At
  <2>3. CASE i >= p
    <3>1. t[i] = s[i + 1] /\ s[i + 1] # a /\ s[i + 1] \in Keys
      BY <1>1, <1>2, <1>13, <2>3 DEF a
    <3>2. m.next[t[i]] = At(s, n, (i + 1) + 1)
      BY <1>0, <1>8, <1>10, <1>13, <3>1
    <3> QED BY <1>1, <1>13, <2>3, <3>2 DEF At
  <2> QED BY <1>1, <2>1, <2>2, <2>3
<1>17. ASSUME NEW i \in 1..n - 1
       PROVE  m.prev[t[i]] = At(t, n - 1, i - 1)
  <2>1. CASE i = p
    <3>1. t[i] = b /\ t[i] \in Keys
      BY <1>1, <1>2, <1>13, <2>1 DEF At, b
    <3>2. m.prev[t[i]] = a
      BY <1>11, <3>1
    <3> QED BY <1>1, <1>13, <2>1, <3>2 DEF At, a
  <2>2. CASE i < p
    <3>1. t[i] = s[i] /\ s[i] \in Keys
      BY <1>1, <1>13, <2>2
    <3>3. s[i] # b
      <4>1. CASE p + 1 \in 1..n
        BY <1>1, <1>2, <1>13, <2>2, <4>1 DEF b, At
      <4>2. CASE p + 1 \notin 1..n
        BY <3>1, <4>2 DEF b, At, CacheAssumption
      <4> QED BY <4>1, <4>2
    <3>2. m.prev[t[i]] = At(s, n, i - 1)
      BY <1>0, <1>12, <1>13, <3>1, <3>3
    <3> QED BY <1>1, <1>13, <2>2, <3>2 DEF At
  <2>3. CASE i > p
    <3>1. t[i] = s[i + 1] /\ s[i + 1] # b /\ s[i + 1] \in Keys
      BY <1>1, <1>2, <1>13, <2>3 DEF b, At
    <3>2. m.prev[t[i]] = At(s, n, (i + 1) - 1)
      BY <1>0, <1>12, <1>13, <3>1
    <3> QED BY <1>1, <1>13, <2>3, <3>2 DEF At
  <2> QED BY <1>1, <2>1, <2>2, <2>3
<1> QED BY <1>4, <1>9, <1>10, <1>14, <1>15, <1>16, <1>17 DEF Linked, k, t

LEMMA AddHeadChains ==
  ASSUME CacheAssumption, NEW l, NEW s, NEW n, Represents(l, s, n),
         NEW k \in Keys, k \notin KeysOf(s, n)
  PROVE  Represents(AddHead(l, k), Before(k, s, n), n + 1)
<1> DEFINE m == LinkFirst(l, k)
           t == Before(k, s, n)
<1>1. Linked(m, t, n + 1) /\ m.tail = l.tail
  BY LinkFirstChains DEF Represents
<1>2. n \in Nat /\ s \in [1..n -> Keys] /\ l.tail = At(s, n, n)
  BY DEF Represents, Linked, Chained
<1> HIDE DEF m
<1>3. CASE l.tail = NoNode
  <2> DEFINE r == [m EXCEPT !.tail = k]
  <2>1. n = 0
    BY <1>2, <1>3 DEF At, CacheAssumption
  <2>2. At(t, n + 1, n + 1) = k
    BY <2>1 DEF At, Before
  <2>3. AddHead(l, k) = r
    BY <1>3 DEF AddHead, m
  <2>4. m \in Lists
    BY <1>1 DEF Linked
  <2>5. r \in Lists /\ r.head = m.head /\ r.next = m.next /\ r.prev = m.prev /\ r.tail = k
    BY <2>4 DEF Lists, Node
  <2> HIDE DEF r, t
  <2>6. Linked(r, t, n + 1)
    BY <1>1, <2>5 DEF Linked
  <2> QED BY <2>2, <2>3, <2>5, <2>6 DEF Represents, t
<1>4. CASE l.tail # NoNode
  <2>1. n > 0 /\ l.tail = s[n]
    BY <1>2, <1>4 DEF At
  <2>2. At(t, n + 1, n + 1) = s[n]
    BY <1>2, <2>1 DEF At, Before
  <2>3. AddHead(l, k) = m
    BY <1>4 DEF AddHead, m
  <2> QED BY <1>1, <2>1, <2>2, <2>3 DEF Represents
<1> QED BY <1>3, <1>4

(* What is left without p, of the chain and of its end.                    *)
LEMMA CutEnds ==
  ASSUME CacheAssumption, NEW s, NEW n, Chained(s, n), NEW p \in 2..n
  PROVE  /\ At(Without(s, n, p), n - 1, n - 1) = IF p = n THEN s[n - 1] ELSE s[n]
         /\ KeysOf(Without(s, n, p), n - 1) = KeysOf(s, n) \ {s[p]}
         /\ Before(s[p], Without(s, n, p), n - 1) = Raised(s, n, p)
<1> DEFINE t == Without(s, n, p)
<1>1. n \in Nat /\ n - 1 \in Nat /\ p \in 1..n /\ p - 1 \in 1..n /\ n - 1 \in 1..n - 1
      /\ DOMAIN s = 1..n
  BY DEF Chained
<1>2. \A i, j \in 1..n : s[i] = s[j] => i = j
  BY DEF Chained
<1>3. /\ DOMAIN t = 1..n - 1
      /\ \A i \in 1..n - 1 : /\ i \in 1..n /\ i + 1 \in 1..n
                             /\ i < p => t[i] = s[i]
                             /\ p <= i => t[i] = s[i + 1]
  BY <1>1 DEF Without
<1> HIDE DEF t
<1>4. At(t, n - 1, n - 1) = IF p = n THEN s[n - 1] ELSE s[n]
  BY <1>1, <1>3 DEF At
<1>5. KeysOf(t, n - 1) = KeysOf(s, n) \ {s[p]}
  <2>1. ASSUME NEW i \in 1..n - 1 PROVE t[i] \in KeysOf(s, n) \ {s[p]}
    <3>1. CASE i < p
      BY <1>1, <1>2, <1>3, <3>1 DEF KeysOf
    <3>2. CASE p <= i
      BY <1>1, <1>2, <1>3, <3>2 DEF KeysOf
    <3> QED BY <1>1, <3>1, <3>2
  <2>2. ASSUME NEW i \in 1..n, i # p PROVE s[i] \in KeysOf(t, n - 1)
    <3>1. CASE i < p
      BY <1>1, <1>3, <3>1 DEF KeysOf
    <3>2. CASE i > p
      <4>1. i - 1 \in 1..n - 1 /\ p <= i - 1 /\ (i - 1) + 1 = i
        BY <1>1, <3>2
      <4> QED BY <1>3, <4>1 DEF KeysOf
    <3> QED BY <1>1, <2>2, <3>1, <3>2
  <2> QED BY <2>1, <2>2 DEF KeysOf
<1>6. Before(s[p], t, n - 1) = Raised(s, n, p)
  <2>1. (n - 1) + 1 = n
    BY <1>1
  <2>2. ASSUME NEW i \in 1..n
        PROVE  (IF i = 1 THEN s[p] ELSE t[i - 1])
               = (IF i = 1 THEN s[p] ELSE IF i <= p THEN s[i - 1] ELSE s[i])
    <3>1. CASE i # 1
      <4>1. i - 1 \in 1..n - 1 /\ (i - 1) + 1 = i
        BY <1>1, <3>1
      <4>2. i <= p => t[i - 1] = s[i - 1]
        BY <1>1, <1>3, <4>1
      <4>3. i > p => t[i - 1] = s[i]
        BY <1>1, <1>3, <4>1
      <4> QED BY <1>1, <3>1, <4>2, <4>3
    <3> QED BY <3>1
  <2> QED BY <2>1, <2>2 DEF Before, Raised
<1> QED BY <1>4, <1>5, <1>6 DEF t

LEMMA MoveToHeadChains ==
  ASSUME CacheAssumption, NEW l, NEW s, NEW n, Represents(l, s, n), NEW p \in 1..n
  PROVE  Represents(MoveToHead(l, s[p]), Raised(s, n, p), n)
<1> DEFINE k == s[p]
<1>1. /\ n \in Nat /\ s \in [1..n -> Keys] /\ Chained(s, n) /\ Linked(l, s, n)
      /\ l.head = At(s, n, 1) /\ l.tail = At(s, n, n) /\ l.prev[k] = At(s, n, p - 1)
      /\ k \in Keys /\ k # NoNode /\ n \in 1..n
  BY DEF Represents, Linked, Chained, CacheAssumption
<1>2. \A i, j \in 1..n : s[i] = s[j] => i = j
  BY <1>1 DEF Chained
<1>3. l.head = s[1] /\ l.tail = s[n] /\ 1 \in 1..n
  BY <1>1 DEF At
<1>4. CASE p = 1
  <2>1. MoveToHead(l, k) = l
    BY <1>3, <1>4 DEF MoveToHead
  <2>2. Raised(s, n, 1) = s
    <3>1. \A i \in 1..n : (IF i = 1 THEN s[1] ELSE IF i <= 1 THEN s[i - 1] ELSE s[i]) = s[i]
      BY <1>1
    <3>2. s = [i \in 1..n |-> s[i]]
      BY <1>1
    <3> QED BY <3>1, <3>2 DEF Raised
  <2> QED BY <1>4, <2>1, <2>2
<1>5. CASE p # 1
  <2> DEFINE cut == Cut(l, k)
             t == Without(s, n, p)
             r == IF k = l.tail THEN [cut EXCEPT !.tail = l.prev[k]] ELSE cut
  <2>1. p \in 2..n /\ p - 1 \in 1..n /\ k # l.head
    BY <1>1, <1>2, <1>3, <1>5
  <2>2. Linked(cut, t, n - 1) /\ cut.tail = l.tail
    BY <1>1, <2>1, CutChains
  <2>3. /\ At(t, n - 1, n - 1) = IF p = n THEN s[n - 1] ELSE s[n]
        /\ KeysOf(t, n - 1) = KeysOf(s, n) \ {k}
        /\ Before(k, t, n - 1) = Raised(s, n, p)
    BY <1>1, <2>1, CutEnds
  <2>4. MoveToHead(l, k) = LinkFirst(r, k)
    BY <2>1 DEF MoveToHead, Cut
  <2> HIDE DEF cut, t
  <2>5. k = l.tail <=> p = n
    BY <1>1, <1>2, <1>3
  <2>6. cut \in Lists
    BY <2>2 DEF Linked
  <2>7. r.tail = At(t, n - 1, n - 1)
    <3>1. l.prev[k] = s[p - 1]
      BY <1>1, <2>1 DEF At
    <3> QED BY <1>3, <2>2, <2>3, <2>5, <2>6, <3>1 DEF Lists
  <2>8. Linked(r, t, n - 1)
    <3>1. l.prev[k] \in Node
      BY <1>1 DEF Linked, Lists
    <3>2. r \in Lists /\ r.head = cut.head /\ r.next = cut.next /\ r.prev = cut.prev
      BY <2>6, <3>1 DEF Lists
    <3> HIDE DEF r
    <3> QED BY <2>2, <3>2 DEF Linked
  <2> HIDE DEF r, k
  <2>9. Linked(LinkFirst(r, k), Before(k, t, n - 1), (n - 1) + 1) /\ LinkFirst(r, k).tail = r.tail
    <3>1. k \in Keys /\ k \notin KeysOf(t, n - 1)
      BY <1>1, <2>3
    <3> QED BY <2>8, <3>1, LinkFirstChains
  <2>10. At(Raised(s, n, p), n, n) = At(t, n - 1, n - 1)
    BY <1>1, <2>1, <2>3 DEF At, Raised, k
  <2>11. (n - 1) + 1 = n
    BY <1>1
  <2> QED BY <2>3, <2>4, <2>7, <2>9, <2>10, <2>11 DEF Represents, k
<1> QED BY <1>4, <1>5

LEMMA PopTailChains ==
  ASSUME CacheAssumption, NEW l, NEW s, NEW n, Represents(l, s, n), n > 0
  PROVE  /\ Represents(PopTail(l), Without(s, n, n), n - 1)
         /\ l.tail = s[n] /\ KeysOf(Without(s, n, n), n - 1) = KeysOf(s, n) \ {s[n]}
<1> DEFINE t == Without(s, n, n)
<1>1. /\ n \in Nat /\ n - 1 \in Nat /\ n \in 1..n /\ s \in [1..n -> Keys] /\ Chained(s, n)
      /\ Linked(l, s, n) /\ l \in Lists /\ l.tail = At(s, n, n)
      /\ l.prev[s[n]] = At(s, n, n - 1) /\ l.next[s[n]] = At(s, n, n + 1)
  BY DEF Represents, Linked, Chained
<1>2. l.tail = s[n] /\ l.tail # NoNode /\ l.next[s[n]] = NoNode
  BY <1>1 DEF At, CacheAssumption
<1>3. CASE n = 1
  <2> DEFINE r == [l EXCEPT !.head = NoNode, !.tail = NoNode]
  <2>1. l.prev[l.tail] = NoNode
    BY <1>1, <1>2, <1>3 DEF At
  <2>2. PopTail(l) = r
    BY <1>1, <1>2, <2>1 DEF PopTail, Lists
  <2>3. r \in Lists /\ r.head = NoNode /\ r.tail = NoNode
    BY <1>1 DEF Lists, Node
  <2>4. Chained(t, 0) /\ \A i \in 1..0 : FALSE
    BY <1>3 DEF Chained, Without
  <2>5. At(t, 0, 0) = NoNode /\ At(t, 0, 1) = NoNode
    BY DEF At
  <2>6. KeysOf(t, 0) = KeysOf(s, n) \ {s[n]}
    BY <1>1, <1>3 DEF KeysOf
  <2> HIDE DEF r, t
  <2>7. Represents(r, t, 0)
    BY <2>3, <2>4, <2>5 DEF Represents, Linked
  <2> QED BY <1>2, <1>3, <2>2, <2>6, <2>7 DEF t
<1>4. CASE n # 1
  <2> DEFINE before == l.prev[l.tail]
             cut == Cut(l, s[n])
             r == [cut EXCEPT !.tail = before]
  <2>1. n \in 2..n /\ before = s[n - 1] /\ before \in Keys /\ before # NoNode
    BY <1>1, <1>2, <1>4 DEF At, CacheAssumption
  <2>2. Linked(cut, t, n - 1)
    BY <1>1, <2>1, CutChains
  <2>3. /\ At(t, n - 1, n - 1) = s[n - 1]
        /\ KeysOf(t, n - 1) = KeysOf(s, n) \ {s[n]}
    BY <1>1, <2>1, CutEnds
  <2>4. cut = SetNext(l, before, NoNode)
    BY <1>2 DEF Cut, SetPrev
  <2>5. PopTail(l) = r
    BY <1>2, <2>1, <2>4 DEF PopTail
  <2> HIDE DEF cut, t, before
  <2>6. cut \in Lists
    BY <2>2 DEF Linked
  <2>7. r \in Lists /\ r.head = cut.head /\ r.next = cut.next /\ r.prev = cut.prev
        /\ r.tail = before
    BY <2>1, <2>6 DEF Lists, Node
  <2> HIDE DEF r
  <2>8. Linked(r, t, n - 1)
    BY <2>2, <2>7 DEF Linked
  <2> QED BY <1>2, <2>1, <2>3, <2>5, <2>7, <2>8 DEF Represents, t
<1> QED BY <1>3, <1>4

(* A chain has its keys once each, so no more than there are.              *)
LEMMA ChainSize ==
  ASSUME CacheAssumption, NEW s, NEW n, Chained(s, n)
  PROVE  /\ IsFiniteSet(KeysOf(s, n)) /\ Cardinality(KeysOf(s, n)) = n
         /\ n <= Cardinality(Keys) /\ Cardinality(Keys) \in Nat
<1>1. n \in Nat /\ s \in [1..n -> KeysOf(s, n)] /\ (\A i, j \in 1..n : s[i] = s[j] => i = j)
      /\ KeysOf(s, n) \in SUBSET Keys
  BY DEF Chained, KeysOf
<1>2. s \in Bijection(1..n, KeysOf(s, n))
  BY <1>1 DEF Bijection, Injection, Surjection, IsInjective, KeysOf
<1>3. Cardinality(KeysOf(s, n)) = n
  BY <1>1, <1>2, FS_CountingElements DEF ExistsBijection
<1> QED BY <1>1, <1>3, FS_Subset, FS_CardinalityType DEF CacheAssumption

(* Following the pointers reads the chain. *)
LEMMA WalkReads ==
  ASSUME CacheAssumption, NEW s, NEW n, Chained(s, n), NEW step, NEW first,
         first = At(s, n, 1), \A i \in 1..n : step[s[i]] = At(s, n, i + 1)
  PROVE  Walk(first, step) = s
<1> DEFINE at[i \in Nat] == IF i = 0 THEN first
                            ELSE IF at[i - 1] = NoNode THEN NoNode ELSE step[at[i - 1]]
           met == {i \in 0..Cardinality(Keys) : \A j \in 0..i : at[j] # NoNode}
           N == {i \in Nat : at[i] = At(s, n, i + 1)}
<1>1. n \in Nat /\ s \in [1..n -> Keys] /\ NoNode \notin Keys /\ \A i \in 1..n : s[i] # NoNode
  BY DEF Chained, CacheAssumption
<1>2. at = [i \in Nat |-> IF i = 0 THEN first
                          ELSE IF at[i - 1] = NoNode THEN NoNode ELSE step[at[i - 1]]]
  <2> DEFINE f == [i \in Nat |-> At(s, n, i + 1)]
  <2>1. ASSUME NEW i \in Nat
        PROVE  At(s, n, i + 1) = IF i = 0 THEN first
                                 ELSE IF f[i - 1] = NoNode THEN NoNode ELSE step[f[i - 1]]
    <3>1. CASE i = 0
      BY <3>1
    <3>2. CASE i # 0
      <4>1. i - 1 \in Nat /\ f[i - 1] = At(s, n, i)
        BY <3>2
      <4>2. CASE i \in 1..n
        BY <1>1, <3>2, <4>1, <4>2 DEF At
      <4>3. CASE i \notin 1..n
        BY <1>1, <3>2, <4>1, <4>3 DEF At
      <4> QED BY <4>2, <4>3
    <3> QED BY <3>1, <3>2
  <2>2. f = [i \in Nat |-> IF i = 0 THEN first
                           ELSE IF f[i - 1] = NoNode THEN NoNode ELSE step[f[i - 1]]]
    BY <2>1
  <2>3. \E g : g = [i \in Nat |-> IF i = 0 THEN first
                                 ELSE IF g[i - 1] = NoNode THEN NoNode ELSE step[g[i - 1]]]
    BY <2>2
  <2> HIDE DEF f
  <2> QED BY <2>3
<1>3. Walk(first, step) = [i \in 1..Cardinality(met) |-> at[i - 1]]
  BY DEF Walk
<1> HIDE DEF at
<1>4. Nat \subseteq N
  <2>1. 0 \in N
    BY <1>2
  <2>2. ASSUME NEW i \in Nat, i \in N PROVE i + 1 \in N
    <3>1. at[i + 1] = IF at[i] = NoNode THEN NoNode ELSE step[at[i]]
      BY <1>2
    <3>2. at[i] = At(s, n, i + 1)
      BY <2>2
    <3>3. CASE i + 1 \in 1..n
      BY <1>1, <3>1, <3>2, <3>3 DEF At
    <3>4. CASE i + 1 \notin 1..n
      BY <1>1, <3>1, <3>2, <3>4 DEF At
    <3> QED BY <3>3, <3>4
  <2> HIDE DEF N
  <2> QED BY <2>1, <2>2, EveryNat
<1>5. \A i \in Nat : at[i] = At(s, n, i + 1)
  BY <1>4
<1>6. met = 0..n - 1
  <2>1. n <= Cardinality(Keys) /\ Cardinality(Keys) \in Nat
    BY ChainSize
  <2>2. \A i \in Nat : at[i] # NoNode <=> i \in 0..n - 1
    BY <1>1, <1>5 DEF At
  <2> QED BY <1>1, <2>1, <2>2
<1> HIDE DEF met, N
<1>7. Cardinality(met) = n
  <2>1. CASE n = 0
    BY <1>6, <2>1, FS_EmptySet
  <2>2. CASE n # 0
    <3>1. n - 1 \in Int /\ 0 <= n - 1
      BY <1>1, <2>2
    <3>2. \A k \in Int : 0 <= k => Cardinality(0..k) = k - 0 + 1
      BY FS_Interval
    <3>3. Cardinality(met) = (n - 1) - 0 + 1
      BY ONLY <1>6, <3>1, <3>2
    <3> QED BY <1>1, <3>3
  <2> QED BY <2>1, <2>2
<1>8. \A i \in 1..n : at[i - 1] = s[i]
  BY <1>1, <1>5 DEF At
<1> QED BY <1>1, <1>3, <1>7, <1>8

(* The list read from its head, and from its tail.                         *)
LEMMA ReadsForthAndBack ==
  ASSUME CacheAssumption, NEW l, NEW s, NEW n, Represents(l, s, n)
  PROVE  /\ Walk(l.head, l.next) = s
         /\ Walk(l.tail, l.prev) = [i \in 1..n |-> s[n + 1 - i]]
<1> DEFINE b == [i \in 1..n |-> s[n + 1 - i]]
<1>1. /\ n \in Nat /\ s \in [1..n -> Keys] /\ Chained(s, n)
      /\ l.head = At(s, n, 1) /\ l.tail = At(s, n, n)
      /\ \A i \in 1..n : l.next[s[i]] = At(s, n, i + 1) /\ l.prev[s[i]] = At(s, n, i - 1)
  BY DEF Represents, Linked, Chained
<1>2. Walk(l.head, l.next) = s
  <2>1. Chained(s, n) /\ l.head = At(s, n, 1)
    BY <1>1
  <2>2. \A i \in 1..n : l.next[s[i]] = At(s, n, i + 1)
    BY <1>1
  <2> QED BY ONLY CacheAssumption, <2>1, <2>2, WalkReads
<1>3. b \in [1..n -> Keys] /\ \A i \in 1..n : n + 1 - i \in 1..n /\ b[i] = s[n + 1 - i]
  BY <1>1
<1> HIDE DEF b
<1>4. Chained(b, n)
  <2>1. ASSUME NEW i \in 1..n, NEW j \in 1..n, b[i] = b[j] PROVE i = j
    <3>1. n + 1 - i = n + 1 - j
      BY <1>1, <1>3, <2>1 DEF Chained
    <3> QED BY <1>1, <3>1
  <2> QED BY <1>1, <1>3, <2>1 DEF Chained
<1>5. l.tail = At(b, n, 1)
  <2>1. CASE n = 0
    BY <1>1, <2>1 DEF At
  <2>2. CASE n # 0
    <3>1. b[1] = s[n] /\ 1 \in 1..n /\ n \in 1..n
      <4>1. n + 1 - 1 = n /\ 1 \in 1..n
        BY <1>1, <2>2
      <4> QED BY <1>1, <1>3, <4>1
    <3> QED BY <1>1, <3>1 DEF At
  <2> QED BY <2>1, <2>2
<1>6. ASSUME NEW i \in 1..n PROVE l.prev[b[i]] = At(b, n, i + 1)
  <2> DEFINE j == n + 1 - i
  <2>1. j \in 1..n /\ b[i] = s[j] /\ l.prev[s[j]] = At(s, n, j - 1)
    BY <1>1, <1>3
  <2>2. CASE i = n
    BY <1>1, <2>1, <2>2 DEF At
  <2>3. CASE i # n
    <3>1. i + 1 \in 1..n /\ n + 1 - (i + 1) = j - 1 /\ j - 1 \in 1..n
      BY <1>1, <2>3
    <3>2. b[i + 1] = s[j - 1]
      BY <1>3, <3>1
    <3> QED BY <2>1, <3>1, <3>2 DEF At
  <2> QED BY <2>2, <2>3
<1>7. Walk(l.tail, l.prev) = b
  BY <1>4, <1>5, <1>6, WalkReads
<1> QED BY <1>2, <1>7 DEF b

-----------------------------------------------------------------------------
(* The chain s of n keys is that of the list and the map. *)
IsChain(s, n) ==
  Represents(list, s, n) /\ cache = KeysOf(s, n) /\ n <= capacity

IInv ==
  /\ capacity \in Capacities
  /\ nodeValue \in [Keys -> CacheValues \cup {0}] /\ \A k \in cache : nodeValue[k] \in CacheValues
  /\ got \in CacheValues \cup {-1}
  /\ \E n \in Nat : \E s \in [1..n -> Keys] : IsChain(s, n)

LEMMA InitIInv == CacheAssumption /\ CacheInit => IInv
<1> SUFFICES ASSUME CacheAssumption, CacheInit PROVE IInv
  OBVIOUS
<1> DEFINE s == [i \in 1..0 |-> NoNode]
<1>1. Chained(s, 0) /\ s \in [1..0 -> Keys]
  BY DEF Chained
<1>2. list \in Lists /\ list.head = NoNode /\ list.tail = NoNode
  BY DEF CacheInit, Lists, Node
<1>3. At(s, 0, 0) = NoNode /\ At(s, 0, 1) = NoNode
  BY DEF At
<1>4. KeysOf(s, 0) = {} /\ 0 <= capacity
  BY DEF KeysOf, CacheInit, CacheAssumption
<1> HIDE DEF s
<1>5. IsChain(s, 0)
  BY <1>1, <1>2, <1>3, <1>4 DEF IsChain, Represents, Linked, CacheInit
<1> QED BY <1>1, <1>5 DEF IInv, CacheInit

(* The keys of a chain one of whose keys goes first, or that a key joins.  *)
LEMMA KeysAfter ==
  ASSUME NEW n \in Nat, NEW s \in [1..n -> Keys], NEW k, NEW p \in 0..n
  PROVE  /\ p # 0 => KeysOf(Raised(s, n, p), n) = KeysOf(s, n)
         /\ KeysOf(Before(k, s, n), n + 1) = KeysOf(s, n) \cup {k}
<1>1. ASSUME p # 0
      PROVE  KeysOf(Raised(s, n, p), n) = KeysOf(s, n)
  <2> DEFINE t == Raised(s, n, p)
  <2>1. ASSUME NEW i \in 1..n PROVE t[i] \in KeysOf(s, n)
    <3>1. i # 1 => i - 1 \in 1..n
      OBVIOUS
    <3> QED BY <1>1, <3>1 DEF Raised, KeysOf
  <2>2. ASSUME NEW i \in 1..n PROVE s[i] \in KeysOf(t, n)
    <3>1. CASE i = p
      <4>1. t[1] = s[i] /\ 1 \in 1..n
        BY <3>1 DEF Raised
      <4> QED BY <4>1 DEF KeysOf
    <3>2. CASE i < p
      <4>1. i + 1 \in 1..n /\ i + 1 # 1 /\ i + 1 <= p /\ (i + 1) - 1 = i
        BY <3>2
      <4>2. t[i + 1] = s[i]
        BY <4>1 DEF Raised
      <4> QED BY <4>1, <4>2 DEF KeysOf
    <3>3. CASE i > p
      <4>1. t[i] = s[i]
        BY <1>1, <3>3 DEF Raised
      <4> QED BY <4>1 DEF KeysOf
    <3> QED BY <3>1, <3>2, <3>3
  <2> QED BY <2>1, <2>2 DEF KeysOf
<1>2. KeysOf(Before(k, s, n), n + 1) = KeysOf(s, n) \cup {k}
  <2> DEFINE t == Before(k, s, n)
  <2>1. ASSUME NEW i \in 1..n + 1 PROVE t[i] \in KeysOf(s, n) \cup {k}
    <3>1. i # 1 => i - 1 \in 1..n
      OBVIOUS
    <3> QED BY <3>1 DEF Before, KeysOf
  <2>2. t[1] = k /\ 1 \in 1..n + 1
    BY DEF Before
  <2>3. ASSUME NEW i \in 1..n PROVE s[i] \in KeysOf(t, n + 1)
    <3>1. i + 1 \in 1..n + 1 /\ i + 1 # 1 /\ (i + 1) - 1 = i
      OBVIOUS
    <3>2. t[i + 1] = s[i]
      BY <3>1 DEF Before
    <3> QED BY <3>1, <3>2 DEF KeysOf
  <2> QED BY <2>1, <2>2, <2>3 DEF KeysOf
<1> QED BY <1>1, <1>2

(* What becomes of the chain when one of its keys is used.                 *)
LEMMA UseChain ==
  ASSUME CacheAssumption, NEW n \in Nat, NEW s \in [1..n -> Keys], IsChain(s, n),
         NEW p \in 1..n, list' = MoveToHead(list, s[p]), cache' = cache, capacity' = capacity
  PROVE  IsChain(Raised(s, n, p), n)' /\ Raised(s, n, p) \in [1..n -> Keys]
<1>1. Represents(list', Raised(s, n, p), n)
  BY MoveToHeadChains DEF IsChain
<1>2. KeysOf(Raised(s, n, p), n) = KeysOf(s, n)
  <2>1. p \in 0..n /\ p # 0
    OBVIOUS
  <2> QED BY <2>1, KeysAfter
<1>3. Raised(s, n, p) \in [1..n -> Keys]
  BY <1>1 DEF Represents, Linked, Chained
<1> QED BY <1>1, <1>2, <1>3 DEF IsChain

(* What becomes of the chain when a key joins: the last one leaves when    *)
(* there is no room for one more.                                          *)
Joined(k, s, n) == IF n < capacity THEN Before(k, s, n)
                   ELSE Without(Before(k, s, n), n + 1, n + 1)

LEMMA InsertChain ==
  ASSUME CacheAssumption, capacity \in Nat, NEW n \in Nat, NEW s \in [1..n -> Keys],
         IsChain(s, n), NEW k \in Keys, NEW v, Insert(k, v),
         NEW j, j = Joined(k, s, n), NEW m, m = IF n < capacity THEN n + 1 ELSE n
  PROVE  IsChain(j, m)' /\ m \in Nat /\ j \in [1..m -> Keys]
<1> DEFINE t == Before(k, s, n)
           added == AddHead(list, k)
<1>1. k \notin cache /\ capacity' = capacity /\ cache = KeysOf(s, n) /\ n <= capacity
  BY DEF Insert, IsChain
<1>2. Represents(added, t, n + 1)
  BY <1>1, AddHeadChains DEF IsChain
<1>3. cache \cup {k} = KeysOf(t, n + 1)
  <2>1. 0 \in 0..n
    OBVIOUS
  <2> QED BY <1>1, <2>1, KeysAfter
<1>4. Cardinality(cache \cup {k}) = n + 1
  BY <1>2, <1>3, ChainSize DEF Represents, Linked
<1>5. IF n + 1 > capacity
      THEN list' = PopTail(added) /\ cache' = (cache \cup {k}) \ {added.tail}
      ELSE list' = added /\ cache' = cache \cup {k}
  BY <1>4 DEF Insert, Overflow
<1> HIDE DEF t, added
<1>6. CASE n < capacity
  <2>1. ~(n + 1 > capacity) /\ n + 1 <= capacity
    BY <1>6
  <2>2. Represents(list', t, n + 1) /\ cache' = KeysOf(t, n + 1)
    BY <1>2, <1>3, <1>5, <2>1
  <2>3. t \in [1..n + 1 -> Keys]
    BY <1>2 DEF Represents, Linked, Chained
  <2> QED BY <1>1, <1>6, <2>1, <2>2, <2>3 DEF IsChain, Joined, t
<1>7. CASE ~(n < capacity)
  <2> DEFINE r == Without(t, n + 1, n + 1)
  <2>1. n + 1 > capacity /\ n + 1 > 0 /\ (n + 1) - 1 = n
    BY <1>7
  <2>2. Represents(PopTail(added), r, (n + 1) - 1) /\ added.tail = t[n + 1]
        /\ KeysOf(r, (n + 1) - 1) = KeysOf(t, n + 1) \ {t[n + 1]}
    BY <1>2, <2>1, PopTailChains
  <2> HIDE DEF r
  <2>3. Represents(list', r, n) /\ cache' = KeysOf(r, n)
    BY <1>3, <1>5, <2>1, <2>2
  <2>4. r \in [1..n -> Keys]
    BY <2>3 DEF Represents, Linked, Chained
  <2> QED BY <1>1, <1>7, <2>3, <2>4 DEF IsChain, Joined, t, r
<1> QED BY <1>6, <1>7

LEMMA NextIInv == CacheAssumption /\ IInv /\ [CacheNext]_cacheVars => IInv'
<1> SUFFICES ASSUME CacheAssumption, IInv, [CacheNext]_cacheVars PROVE IInv'
  OBVIOUS
<1>0. PICK n \in Nat : \E s \in [1..n -> Keys] : IsChain(s, n)
  BY DEF IInv
<1>1. PICK s \in [1..n -> Keys] : IsChain(s, n)
  BY <1>0
<1>2. cache = KeysOf(s, n) /\ capacity \in Nat
  BY <1>1 DEF IsChain, IInv, CacheAssumption
<1>3. ASSUME NEW k \in Keys, Get(k) PROVE IInv'
  <2>1. capacity' = capacity /\ cache' = cache /\ nodeValue' = nodeValue
    BY <1>3 DEF Get
  <2>2. CASE k \in cache
    <3>1. PICK p \in 1..n : k = s[p]
      BY <1>2, <2>2 DEF KeysOf
    <3>2. list' = MoveToHead(list, s[p]) /\ got' = nodeValue[k]
      BY <1>3, <2>2, <3>1 DEF Get
    <3>3. IsChain(Raised(s, n, p), n)' /\ Raised(s, n, p) \in [1..n -> Keys]
      BY <1>1, <2>1, <3>2, UseChain
    <3> QED BY <2>1, <2>2, <3>2, <3>3 DEF IInv
  <2>3. CASE k \notin cache
    <3>1. list' = list /\ got' = -1
      BY <1>3, <2>3 DEF Get
    <3>2. IsChain(s, n)'
      BY <1>1, <2>1, <3>1 DEF IsChain
    <3> QED BY <2>1, <3>1, <3>2 DEF IInv
  <2> QED BY <2>2, <2>3
<1>4. ASSUME NEW k \in Keys, NEW v \in CacheValues, Update(k, v) PROVE IInv'
  <2>1. capacity' = capacity /\ cache' = cache /\ got' = got /\ k \in cache
        /\ nodeValue' = [nodeValue EXCEPT ![k] = v] /\ list' = MoveToHead(list, k)
    BY <1>4 DEF Update
  <2>2. PICK p \in 1..n : k = s[p]
    BY <1>2, <2>1 DEF KeysOf
  <2>3. IsChain(Raised(s, n, p), n)' /\ Raised(s, n, p) \in [1..n -> Keys]
    BY <1>1, <2>1, <2>2, UseChain
  <2>4. cache \subseteq Keys
    BY <1>2 DEF KeysOf
  <2> QED BY <2>1, <2>3, <2>4 DEF IInv
<1>5. ASSUME NEW k \in Keys, NEW v \in CacheValues, Insert(k, v) PROVE IInv'
  <2>1. capacity' = capacity /\ got' = got /\ nodeValue' = [nodeValue EXCEPT ![k] = v]
        /\ cache' \subseteq cache \cup {k}
    BY <1>5 DEF Insert
  <2>2. \E m \in Nat : \E t \in [1..m -> Keys] : IsChain(t, m)'
    <3>1. PICK t : t = Joined(k, s, n)
      OBVIOUS
    <3>2. PICK m : m = IF n < capacity THEN n + 1 ELSE n
      OBVIOUS
    <3>3. IsChain(t, m)' /\ m \in Nat /\ t \in [1..m -> Keys]
      BY <1>1, <1>2, <1>5, <3>1, <3>2, InsertChain
    <3> QED BY <3>3
  <2>3. cache \subseteq Keys
    BY <1>2 DEF KeysOf
  <2>4. nodeValue' \in [Keys -> CacheValues \cup {0}] /\ \A j \in cache' : nodeValue'[j] \in CacheValues
    BY <2>1, <2>3 DEF IInv
  <2> QED BY <2>1, <2>2, <2>4 DEF IInv
<1>6. ASSUME UNCHANGED cacheVars PROVE IInv'
  BY <1>6 DEF cacheVars, IInv, IsChain
<1> QED BY <1>3, <1>4, <1>5, <1>6 DEF CacheNext, Put

LEMMA Invariant == ASSUME CacheAssumption PROVE CacheSpec => []IInv
<1>1. CacheInit => IInv
  BY InitIInv
<1>2. IInv /\ [CacheNext]_cacheVars => IInv'
  BY NextIInv
<1> QED BY <1>1, <1>2, PTL DEF CacheSpec

(***************************************************************************)
(* The map is no larger than the capacity, whatever the calls, every node  *)
(* pointer leads to a key or nowhere, and Get returns a value put or -1.   *)
(***************************************************************************)
THEOREM CacheTypes == ASSUME CacheAssumption PROVE CacheSpec => []CacheTypeOK
<1>1. IInv => CacheTypeOK
  <2> SUFFICES ASSUME IInv PROVE CacheTypeOK
    OBVIOUS
  <2>1. PICK n \in Nat : \E s \in [1..n -> Keys] : IsChain(s, n)
    BY DEF IInv
  <2>2. PICK s \in [1..n -> Keys] : IsChain(s, n)
    BY <2>1
  <2>3. Cardinality(cache) = n /\ n <= capacity /\ cache \subseteq Keys /\ list \in Lists
    BY <2>2, ChainSize DEF IsChain, Represents, Linked, KeysOf
  <2> QED BY <2>3 DEF IInv, CacheTypeOK, Lists
<1> QED BY <1>1, Invariant, PTL

(***************************************************************************)
(* After any calls the list read from its head has each key of the map     *)
(* once, and read from its tail is the same backwards: no step of the      *)
(* pointer surgery of addToHead, moveToHead and removeTail leaves a node   *)
(* behind or makes a cycle.                                                *)
(***************************************************************************)
THEOREM ListIsOneChain == ASSUME CacheAssumption PROVE CacheSpec => []OneChain
<1>1. IInv => OneChain
  <2> SUFFICES ASSUME IInv PROVE OneChain
    OBVIOUS
  <2>1. PICK n \in Nat : \E s \in [1..n -> Keys] : IsChain(s, n)
    BY DEF IInv
  <2>2. PICK s \in [1..n -> Keys] : IsChain(s, n)
    BY <2>1
  <2>3. Cardinality(cache) = n /\ cache = KeysOf(s, n)
    BY <2>2, ChainSize DEF IsChain, Represents, Linked
  <2> DEFINE b == [i \in 1..n |-> s[n + 1 - i]]
  <2>4. Walk(list.head, list.next) = s /\ Walk(list.tail, list.prev) = b
    BY <2>2, ReadsForthAndBack DEF IsChain
  <2>5. Len(s) = n /\ Len(b) = n
    BY <2>2
  <2> QED BY <2>3, <2>4, <2>5 DEF OneChain, KeysOf
<1> QED BY <1>1, Invariant, PTL

-----------------------------------------------------------------------------
(* With a chain, what RecencyCache says of its order is of the chain.      *)
Value == [k \in cache |-> nodeValue[k]]
Order == Walk(list.head, list.next)

LEMMA OrderIsChain ==
  ASSUME CacheAssumption, NEW n \in Nat, NEW s \in [1..n -> Keys], IsChain(s, n)
  PROVE  /\ Order = s /\ Len(s) = n /\ Recency!Range(s) = cache /\ Recency!Cached = cache
         /\ \A p \in 1..n : Recency!Use(s[p]) = Raised(s, n, p)
         /\ \A k : k \notin cache => Recency!Use(k) = Before(k, s, n)
<1>1. Order = s
  BY ReadsForthAndBack DEF Order, IsChain
<1>2. Len(s) = n /\ DOMAIN s = 1..n /\ cache = KeysOf(s, n)
  BY DEF IsChain
<1>3. Recency!Range(s) = cache
  BY <1>2 DEF Recency!Range, KeysOf
<1>4. Recency!Cached = cache
  BY <1>1, <1>3 DEF Recency!Cached, Order
<1>5. \A i, j \in 1..n : s[i] = s[j] => i = j
  BY DEF IsChain, Represents, Linked, Chained
<1>6. ASSUME NEW p \in 1..n PROVE Recency!Use(s[p]) = Raised(s, n, p)
  <2>1. s[p] \in cache
    BY <1>2 DEF KeysOf
  <2>2. (CHOOSE q \in 1..n : s[q] = s[p]) = p
    BY <1>5
  <2> QED BY <1>1, <1>2, <1>4, <2>1, <2>2 DEF Recency!Use, Order, Raised
<1>7. ASSUME NEW k, k \notin cache PROVE Recency!Use(k) = Before(k, s, n)
  <2>1. \A q \in 1..n + 1 : q <= n + 1
    OBVIOUS
  <2> QED BY <1>1, <1>2, <1>4, <1>7, <2>1 DEF Recency!Use, Order, Before
<1> QED BY <1>1, <1>2, <1>3, <1>4, <1>6, <1>7

LEMMA GetSteps ==
  ASSUME NEW k \in Keys, capacity' = capacity, Value' = Value,
         IF k \in Recency!Cached THEN Order' = Recency!Use(k) /\ got' = Value[k]
                                 ELSE Order' = Order /\ got' = -1
  PROVE  Recency!Next
BY DEF Recency!Next, Recency!Get, Recency!Missing, Order, Value

LEMMA PutSteps ==
  ASSUME NEW k \in Keys, NEW v \in CacheValues, capacity' = capacity, got' = got,
         Order' = Recency!Keep(Recency!Use(k)),
         Value' = [j \in Recency!Range(Order') |-> IF j = k THEN v ELSE Value[j]]
  PROVE  Recency!Next
BY DEF Recency!Next, Recency!Put, Order, Value

LEMMA StepsOfRecency ==
  CacheAssumption /\ IInv /\ [CacheNext]_cacheVars => [Recency!Next]_Recency!vars
<1> SUFFICES ASSUME CacheAssumption, IInv, [CacheNext]_cacheVars PROVE [Recency!Next]_Recency!vars
  OBVIOUS
<1>0. PICK n \in Nat : \E s \in [1..n -> Keys] : IsChain(s, n)
  BY DEF IInv
<1>1. PICK s \in [1..n -> Keys] : IsChain(s, n)
  BY <1>0
<1>2. cache = KeysOf(s, n) /\ cache \subseteq Keys /\ capacity \in Nat /\ n <= capacity
      /\ nodeValue \in [Keys -> CacheValues \cup {0}]
  BY <1>1 DEF IsChain, IInv, CacheAssumption, KeysOf
<1>3. /\ Order = s /\ Len(s) = n /\ Recency!Cached = cache
      /\ \A p \in 1..n : Recency!Use(s[p]) = Raised(s, n, p)
      /\ \A k : k \notin cache => Recency!Use(k) = Before(k, s, n)
  BY <1>1, OrderIsChain
<1>4. ASSUME NEW m \in Nat, NEW t \in [1..m -> Keys], IsChain(t, m)'
      PROVE  Order' = t /\ Recency!Range(t) = cache'
  <2>1. Represents(list', t, m) /\ cache' = KeysOf(t, m)
    BY <1>4 DEF IsChain
  <2>2. Order' = t
    BY <2>1, ReadsForthAndBack DEF Order
  <2> QED BY <2>1, <2>2 DEF Recency!Range, KeysOf
<1>5. ASSUME NEW k \in Keys, Get(k) PROVE Recency!Next
  <2>1. capacity' = capacity /\ cache' = cache /\ nodeValue' = nodeValue /\ Value' = Value
    BY <1>5 DEF Get, Value
  <2>2. CASE k \in cache
    <3>1. PICK p \in 1..n : k = s[p]
      BY <1>2, <2>2 DEF KeysOf
    <3>2. list' = MoveToHead(list, s[p]) /\ got' = Value[k]
      BY <1>5, <2>2, <3>1 DEF Get, Value
    <3>3. Order' = Recency!Use(k)
      <4>1. IsChain(Raised(s, n, p), n)' /\ Raised(s, n, p) \in [1..n -> Keys]
        BY <1>1, <2>1, <3>2, UseChain
      <4>2. PICK t : t = Raised(s, n, p)
        OBVIOUS
      <4>3. Order' = t
        BY <1>4, <4>1, <4>2
      <4> QED BY <1>3, <3>1, <4>2, <4>3
    <3> QED BY <1>3, <2>1, <2>2, <3>2, <3>3, GetSteps
  <2>3. CASE k \notin cache
    <3>1. list' = list /\ got' = -1
      BY <1>5, <2>3 DEF Get
    <3>2. Order' = Order
      BY <3>1 DEF Order
    <3> QED BY <1>3, <2>1, <2>3, <3>1, <3>2, GetSteps
  <2> QED BY <2>2, <2>3
<1>6. ASSUME NEW k \in Keys, NEW v \in CacheValues, Update(k, v) PROVE Recency!Next
  <2>1. capacity' = capacity /\ cache' = cache /\ got' = got /\ k \in cache
        /\ nodeValue' = [nodeValue EXCEPT ![k] = v] /\ list' = MoveToHead(list, k)
    BY <1>6 DEF Update
  <2>2. PICK p \in 1..n : k = s[p]
    BY <1>2, <2>1 DEF KeysOf
  <2>3. PICK t : t = Raised(s, n, p)
    OBVIOUS
  <2>4. IsChain(t, n)' /\ t \in [1..n -> Keys]
    BY <1>1, <2>1, <2>2, <2>3, UseChain
  <2>5. Order' = t /\ Recency!Range(t) = cache
    BY <1>4, <2>1, <2>4
  <2>6. Recency!Keep(t) = t
    <3>1. Len(t) = n /\ t = [q \in 1..n |-> t[q]]
      BY <2>4
    <3>2. (IF n < capacity THEN n ELSE capacity) = n
      BY <1>2
    <3> QED BY <3>1, <3>2 DEF Recency!Keep
  <2>7. Value' = [j \in cache |-> IF j = k THEN v ELSE Value[j]]
    BY <1>2, <2>1 DEF Value
  <2> QED BY <1>3, <2>1, <2>2, <2>3, <2>5, <2>6, <2>7, PutSteps
<1>7. ASSUME NEW k \in Keys, NEW v \in CacheValues, Insert(k, v) PROVE Recency!Next
  <2>1. capacity' = capacity /\ got' = got /\ nodeValue' = [nodeValue EXCEPT ![k] = v]
        /\ cache' \subseteq cache \cup {k} /\ k \notin cache
    BY <1>7 DEF Insert
  <2>2. PICK t : t = Joined(k, s, n)
    OBVIOUS
  <2>3. PICK m : m = IF n < capacity THEN n + 1 ELSE n
    OBVIOUS
  <2>4. IsChain(t, m)' /\ m \in Nat /\ t \in [1..m -> Keys]
    BY <1>1, <1>2, <1>7, <2>2, <2>3, InsertChain
  <2>5. Order' = t /\ Recency!Range(t) = cache'
    BY <1>4, <2>4
  <2>6. Recency!Keep(Before(k, s, n)) = t
    <3>1. Before(k, s, n) = [q \in 1..n + 1 |-> Before(k, s, n)[q]]
          /\ Len(Before(k, s, n)) = n + 1
      BY DEF Before
    <3>2. CASE n < capacity
      <4>1. (IF n + 1 < capacity THEN n + 1 ELSE capacity) = n + 1
        BY <1>2, <3>2
      <4> QED BY <2>2, <3>1, <3>2, <4>1 DEF Joined, Recency!Keep
    <3>3. CASE ~(n < capacity)
      <4>1. (IF n + 1 < capacity THEN n + 1 ELSE capacity) = n /\ (n + 1) - 1 = n
        BY <1>2, <3>3
      <4>2. t = [q \in 1..n |-> Before(k, s, n)[q]]
        BY <2>2, <3>3, <4>1 DEF Joined, Without
      <4> QED BY <3>1, <4>1, <4>2 DEF Recency!Keep
    <3> QED BY <3>2, <3>3
  <2>7. Value' = [j \in cache' |-> IF j = k THEN v ELSE Value[j]]
    BY <1>2, <2>1 DEF Value
  <2> QED BY <1>3, <2>1, <2>5, <2>6, <2>7, PutSteps
<1>8. ASSUME UNCHANGED cacheVars PROVE UNCHANGED Recency!vars
  BY <1>8 DEF cacheVars, Recency!vars
<1> QED BY <1>5, <1>6, <1>7, <1>8 DEF CacheNext, Put

(***************************************************************************)
(* The pointers and the map amount to a cache that keeps its entries in    *)
(* order of last use, evicts the one used longest ago, and returns the     *)
(* value last put, for any keys, values and capacity.                      *)
(***************************************************************************)
THEOREM CacheEvictsLeastRecent == ASSUME CacheAssumption PROVE CacheSpec => ImplementsLRU
<1>1. CacheInit => Recency!Init
  <2> SUFFICES ASSUME CacheInit PROVE Recency!Init
    OBVIOUS
  <2> DEFINE s == [i \in 1..0 |-> NoNode]
  <2>1. Chained(s, 0)
    BY DEF Chained
  <2>2. At(s, 0, 1) = NoNode /\ list.head = NoNode
    BY DEF At, CacheInit
  <2>3. Walk(list.head, list.next) = s
    BY <2>1, <2>2, WalkReads
  <2>4. s = <<>>
    OBVIOUS
  <2> HIDE DEF s
  <2> QED BY <2>3, <2>4 DEF CacheInit, CacheAssumption, Recency!Init, Recency!Missing
<1>2. IInv /\ [CacheNext]_cacheVars => [Recency!Next]_Recency!vars
  BY StepsOfRecency
<1> QED BY <1>1, <1>2, Invariant, PTL DEF CacheSpec, ImplementsLRU, Recency!Spec

-----------------------------------------------------------------------------
(***************************************************************************)
(* A ring buffer of any size tells of the last samples pushed and of       *)
(* nothing else.                                                           *)
(***************************************************************************)

(***************************************************************************)
(* The slots reached by going back from writeIdx hold the newest samples,  *)
(* and the samples were pushed in the order of their times.                *)
(***************************************************************************)
RingInv ==
  /\ BufferTypeOK
  /\ count = Kept
  /\ \A i \in 1..count : buffer[Back(i - 1)] = history[Len(history) - (i - 1)]
  /\ \A i, j \in 1..Len(history) : i <= j => history[i].time <= history[j].time
  /\ \A i \in 1..Len(history) : history[i].time <= now

(* An index that has left the buffer by less than its size comes back in   *)
(* at the front.                                                           *)
LEMMA Wraps ==
  ASSUME NEW m \in Nat \ {0}, NEW a \in 0..(2 * m - 1)
  PROVE  a % m = IF a < m THEN a ELSE a - m
OBVIOUS

(* The constants the code allows, and the numbers they are.                *)
LEMMA RingNumbers ==
  ASSUME BufferAssumption, BufferTypeOK
  PROVE  /\ size \in Nat \ {0} /\ writeIdx \in 0..size - 1
         /\ Len(history) \in Nat /\ now \in Nat
         /\ Kept \in 0..size /\ Kept <= Len(history)
         /\ Kept = size \/ Kept = Len(history)
BY DEF BufferAssumption, BufferTypeOK, Kept, Smaller

LEMMA InitRingInv == BufferAssumption /\ RingInit => RingInv
<1> SUFFICES ASSUME BufferAssumption, RingInit PROVE RingInv
  OBVIOUS
<1>1. size \in Nat \ {0} /\ Horizon \in Nat
  BY DEF RingInit, BufferAssumption
<1>2. BufferTypeOK
  BY <1>1 DEF RingInit, BufferTypeOK
<1>3. count = Kept
  BY <1>1 DEF RingInit, Kept, Smaller
<1> QED BY <1>2, <1>3 DEF RingInit, RingInv

(* Going back from writeIdx + 1 one comes to writeIdx and then on to the   *)
(* slots one came to before.                                               *)
LEMMA BackAfterPush ==
  ASSUME BufferAssumption, BufferTypeOK, writeIdx' = NextIdx, size' = size,
         NEW i \in 0..size - 1
  PROVE  /\ Back(i) \in 0..size - 1
         /\ Back(i)' = IF i = 0 THEN writeIdx ELSE Back(i - 1)
         /\ i < size - 1 => Back(i) # writeIdx
<1>1. size \in Nat \ {0} /\ writeIdx \in 0..size - 1
  BY RingNumbers
<1>2. writeIdx' = IF writeIdx + 1 < size THEN writeIdx + 1 ELSE 0
  <2>1. writeIdx + 1 \in 0..(2 * size - 1)
    BY <1>1
  <2>2. (writeIdx + 1) % size = IF writeIdx + 1 < size THEN writeIdx + 1
                                ELSE (writeIdx + 1) - size
    BY <1>1, <2>1, Wraps
  <2> QED BY <1>1, <2>2 DEF NextIdx
<1> QED BY <1>1, <1>2 DEF Back

LEMMA PushStep ==
  ASSUME BufferAssumption, RingInv, NEW v \in Readings, PushSample(v)
  PROVE  /\ RingInv'
         /\ history' = Append(history, [value |-> v, time |-> now])
         /\ [value |-> v, time |-> now] \in Samples
<1> DEFINE s == [value |-> v, time |-> now]
<1>1. /\ size \in Nat \ {0} /\ writeIdx \in 0..size - 1 /\ Len(history) \in Nat
      /\ history \in Seq(Samples) /\ now \in 0..Horizon /\ Horizon \in Nat
      /\ size \in Sizes /\ count \in 0..size
  BY RingNumbers DEF RingInv, BufferTypeOK, BufferAssumption
<1>2. s \in Samples /\ s.time = now
  BY <1>1 DEF Samples
<1>3. /\ buffer' = [buffer EXCEPT ![writeIdx] = s] /\ history' = Append(history, s)
      /\ writeIdx' = NextIdx /\ count' = NextCount /\ UNCHANGED <<now, size>>
  BY DEF PushSample
<1> HIDE DEF s
<1>4. /\ history' \in Seq(Samples) /\ Len(history') = Len(history) + 1
      /\ history'[Len(history) + 1] = s
      /\ \A i \in 1..Len(history) : history'[i] = history[i]
  BY ONLY <1>1, <1>2, <1>3
<1>5. count' = Kept' /\ count' \in 0..size /\ count' <= count + 1
  BY <1>1, <1>3, <1>4 DEF NextCount, RingInv, Kept, Smaller
<1>N. size \in Nat /\ count \in Nat /\ count' \in Nat /\ count' <= size /\ count' <= count + 1
  BY <1>1, <1>5
<1>6. BufferTypeOK'
  <2>1. writeIdx' \in 0..size - 1
    <3>1. 0 \in 0..size - 1
      BY <1>1
    <3>2. (writeIdx + 1) % size \in 0..size - 1
      BY <1>1
    <3> QED BY <1>3, <3>2 DEF NextIdx
  <2>2. buffer' \in [0..size - 1 -> Samples \cup {Zero}]
    BY <1>1, <1>2, <1>3 DEF RingInv, BufferTypeOK
  <2> QED BY <1>1, <1>3, <1>4, <1>5, <2>1, <2>2 DEF BufferTypeOK, Samples, Zero
<1>7. ASSUME NEW i \in 1..count'
      PROVE  buffer'[Back(i - 1)'] = history'[Len(history') - (i - 1)]
  <2>1. i \in 1..size /\ i - 1 \in 0..size - 1 /\ i - 1 <= count
    BY ONLY <1>N, i \in 1..count'
  <2>2. Back(i - 1)' = IF i - 1 = 0 THEN writeIdx ELSE Back((i - 1) - 1)
    BY <1>3, <2>1, BackAfterPush DEF RingInv
  <2>3. buffer'[writeIdx] = s
    BY <1>1, <1>3 DEF RingInv, BufferTypeOK
  <2>4. CASE i = 1
    BY <1>1, <1>4, <2>2, <2>3, <2>4
  <2>5. CASE i # 1
    <3>1. i - 1 \in 1..count /\ (i - 1) - 1 \in 0..size - 1 /\ (i - 1) - 1 < size - 1
      BY ONLY <1>N, <2>1, <2>5
    <3>2. Back((i - 1) - 1) \in 0..size - 1 /\ Back((i - 1) - 1) # writeIdx
      BY <1>3, <3>1, BackAfterPush DEF RingInv
    <3>3. buffer'[Back((i - 1) - 1)] = buffer[Back((i - 1) - 1)]
      BY <1>1, <1>3, <3>2 DEF RingInv, BufferTypeOK
    <3>4. buffer[Back((i - 1) - 1)] = history[Len(history) - ((i - 1) - 1)]
      BY <3>1 DEF RingInv
    <3>5. /\ Len(history') - (i - 1) = Len(history) - ((i - 1) - 1)
          /\ Len(history) - ((i - 1) - 1) \in 1..Len(history)
      <4>1. count <= Len(history) /\ Len(history) \in Nat
        BY <1>1 DEF RingInv, Kept, Smaller
      <4>2. Len(history') = Len(history) + 1
        BY <1>4
      <4> QED BY ONLY <1>N, <2>1, <3>1, <4>1, <4>2
    <3>6. i - 1 # 0
      BY <2>1, <2>5
    <3> QED BY <1>4, <2>2, <3>3, <3>4, <3>5, <3>6
  <2> QED BY <2>4, <2>5
<1>8. \A i \in 1..Len(history') : history'[i].time <= now'
  BY <1>1, <1>2, <1>3, <1>4 DEF RingInv
<1>9. \A i, j \in 1..Len(history') : i <= j => history'[i].time <= history'[j].time
  <2> SUFFICES ASSUME NEW i \in 1..Len(history'), NEW j \in 1..Len(history'), i <= j
               PROVE  history'[i].time <= history'[j].time
    OBVIOUS
  <2>1. CASE j \in 1..Len(history)
    <3>1. i \in 1..Len(history) /\ history[i].time <= history[j].time
      BY <1>1, <1>4, <2>1 DEF RingInv
    <3> QED BY <1>4, <2>1, <3>1
  <2>2. CASE j = Len(history) + 1
    BY <1>2, <1>3, <1>4, <1>8, <2>2
  <2> QED BY <1>1, <1>4, <2>1, <2>2
<1> QED BY <1>2, <1>3, <1>5, <1>6, <1>7, <1>8, <1>9 DEF RingInv, s

-----------------------------------------------------------------------------
(* What the calls that read the buffer return.                             *)

LEMMA SegmentIs ==
  ASSUME BufferAssumption, BufferTypeOK, NEW i \in 0..size - 1, NEW j \in 0..size - 1, i <= j
  PROVE  /\ Segment(i, j) \in Seq(Samples \cup {Zero})
         /\ Len(Segment(i, j)) = j - i + 1
         /\ \A k \in 1..j - i + 1 : Segment(i, j)[k] = buffer[i + k - 1]
<1>1. size \in Nat
  BY RingNumbers
<1>2. j - i + 1 \in Nat
  BY <1>1
<1>3. \A k \in 1..j - i + 1 : buffer[i + k - 1] \in Samples \cup {Zero}
  <2> SUFFICES ASSUME NEW k \in 1..j - i + 1 PROVE buffer[i + k - 1] \in Samples \cup {Zero}
    OBVIOUS
  <2>1. i + k - 1 \in 0..size - 1
    BY <1>1
  <2> QED BY <2>1 DEF BufferTypeOK
<1> QED BY <1>2, <1>3 DEF Segment

LEMMA LastIs ==
  ASSUME BufferAssumption, BufferTypeOK, NEW n \in 0..Len(history)
  PROVE  LastOf(n) = [k \in 1..n |-> history[Len(history) - (n - k)]]
<1>1. history \in Seq(Samples) /\ Len(history) \in Nat
  BY DEF BufferTypeOK
<1>2. LastOf(n) = [k \in 1..n |-> history[k + (Len(history) - n + 1) - 1]]
  BY <1>1 DEF LastOf
<1>3. \A k \in 1..n : k + (Len(history) - n + 1) - 1 = Len(history) - (n - k)
  BY <1>1
<1> QED BY <1>2, <1>3

LEMMA Concatenation ==
  ASSUME NEW S, NEW s \in Seq(S), NEW t \in Seq(S)
  PROVE  /\ Len(s \o t) = Len(s) + Len(t)
         /\ \A m \in 1..Len(s) : (s \o t)[m] = s[m]
         /\ \A m \in Len(s) + 1..Len(s) + Len(t) : (s \o t)[m] = t[m - Len(s)]
OBVIOUS

(* The slots that GetRecent copies, in the order it copies them.           *)
LEMMA CopiedSlots ==
  ASSUME BufferAssumption, RingInv, NEW n \in 1..count
  PROVE  LET end == (writeIdx - 1 + size) % size
             start == (writeIdx - n + size) % size
         IN  CopyOut(n, start, end) = [k \in 1..n |-> buffer[Back(n - k)]]
<1>1. /\ size \in Nat \ {0} /\ writeIdx \in 0..size - 1 /\ n \in 1..size
  BY RingNumbers DEF RingInv, BufferTypeOK
<1> DEFINE end == (writeIdx - 1 + size) % size
           start == (writeIdx - n + size) % size
<1>2. end = IF writeIdx = 0 THEN size - 1 ELSE writeIdx - 1
  <2>1. writeIdx - 1 + size \in 0..(2 * size - 1)
    BY <1>1
  <2>2. end = IF writeIdx - 1 + size < size THEN writeIdx - 1 + size
              ELSE (writeIdx - 1 + size) - size
    BY <1>1, <2>1, Wraps
  <2> HIDE DEF end
  <2> QED BY <1>1, <2>2
<1>3. start = IF n <= writeIdx THEN writeIdx - n ELSE (writeIdx - n) + size
  <2>1. writeIdx - n + size \in 0..(2 * size - 1)
    BY <1>1
  <2>2. start = IF writeIdx - n + size < size THEN writeIdx - n + size
                ELSE (writeIdx - n + size) - size
    BY <1>1, <2>1, Wraps
  <2> HIDE DEF start
  <2> QED BY <1>1, <2>2
<1> HIDE DEF end, start
<1>4. start \in 0..size - 1 /\ end \in 0..size - 1
  BY <1>1, <1>2, <1>3
<1> DEFINE source == IF start < end THEN Segment(start, end)
                     ELSE Segment(start, size - 1) \o Segment(0, end)
<1>5. ASSUME NEW k \in 1..n PROVE k <= Len(source) /\ source[k] = buffer[Back(n - k)]
  <2>1. CASE start < end
    <3>1. start <= end /\ k \in 1..end - start + 1 /\ Back(n - k) = start + k - 1
      BY <1>1, <1>2, <1>3, <1>4, <2>1 DEF Back
    <3>2. Len(Segment(start, end)) = end - start + 1
          /\ Segment(start, end)[k] = buffer[start + k - 1]
      BY <1>4, <3>1, SegmentIs DEF RingInv
    <3> QED BY <2>1, <3>1, <3>2
  <2>2. CASE ~(start < end)
    <3> DEFINE front == Segment(start, size - 1)
               rest == Segment(0, end)
    <3>1. start <= size - 1 /\ 0 <= end /\ size - 1 \in 0..size - 1 /\ 0 \in 0..size - 1
      BY <1>1, <1>4
    <3>2. /\ front \in Seq(Samples \cup {Zero}) /\ Len(front) = size - 1 - start + 1
          /\ \A m \in 1..size - 1 - start + 1 : front[m] = buffer[start + m - 1]
      BY <1>4, <3>1, SegmentIs DEF RingInv
    <3>3. /\ rest \in Seq(Samples \cup {Zero}) /\ Len(rest) = end - 0 + 1
          /\ \A m \in 1..end - 0 + 1 : rest[m] = buffer[0 + m - 1]
      BY <1>4, <3>1, SegmentIs DEF RingInv
    <3> HIDE DEF front, rest
    <3>4. Len(front) = size - start /\ Len(rest) = end + 1
      BY <1>1, <1>4, <3>2, <3>3
    <3>5. /\ Len(front \o rest) = Len(front) + Len(rest)
          /\ \A m \in 1..Len(front) : (front \o rest)[m] = front[m]
          /\ \A m \in Len(front) + 1..Len(front) + Len(rest) :
               (front \o rest)[m] = rest[m - Len(front)]
      BY <3>2, <3>3, Concatenation
    <3>6. CASE k <= size - start
      <4>1. Back(n - k) = start + k - 1
        BY <1>1, <1>2, <1>3, <1>4, <2>2, <3>6 DEF Back
      <4>2. k \in 1..Len(front) /\ k \in 1..size - 1 - start + 1
            /\ k <= Len(front) + Len(rest)
        BY <1>1, <1>4, <3>4, <3>6
      <4>3. (front \o rest)[k] = buffer[start + k - 1]
        BY <3>2, <3>5, <4>2
      <4> QED BY <2>2, <3>5, <4>1, <4>2, <4>3 DEF front, rest
    <3>7. CASE k > size - start
      <4>1. Back(n - k) = k - (size - start) - 1
        BY <1>1, <1>2, <1>3, <1>4, <2>2, <3>7 DEF Back
      <4>2. k - (size - start) \in 1..end + 1
        BY <1>1, <1>2, <1>3, <1>4, <2>2, <3>7
      <4>3. k \in Len(front) + 1..Len(front) + Len(rest) /\ k <= Len(front) + Len(rest)
        BY <1>1, <1>4, <3>4, <3>7, <4>2
      <4>4. (front \o rest)[k] = rest[k - (size - start)]
        BY <3>4, <3>5, <4>3
      <4>5. rest[k - (size - start)] = buffer[k - (size - start) - 1]
        <5>1. /\ k - (size - start) \in 1..end - 0 + 1
              /\ 0 + (k - (size - start)) - 1 = k - (size - start) - 1
          BY <1>1, <1>4, <4>2
        <5> QED BY <3>3, <5>1
      <4> QED BY <2>2, <3>5, <4>1, <4>3, <4>4, <4>5 DEF front, rest
    <3> QED BY <1>1, <1>4, <3>6, <3>7
  <2> QED BY <2>1, <2>2
<1>6. CopyOut(n, start, end) = [k \in 1..n |-> IF k <= Len(source) THEN source[k] ELSE Zero]
  BY DEF CopyOut
<1> HIDE DEF source
<1>7. CopyOut(n, start, end) = [k \in 1..n |-> buffer[Back(n - k)]]
  BY <1>5, <1>6
<1> QED BY <1>7 DEF start, end

LEMMA RingStep == BufferAssumption /\ RingInv /\ [RingNext]_ringVars => RingInv'
<1> SUFFICES ASSUME BufferAssumption, RingInv, [RingNext]_ringVars PROVE RingInv'
  OBVIOUS
<1>1. ASSUME NEW v \in Readings, PushSample(v) PROVE RingInv'
  BY <1>1, PushStep
<1>2. ASSUME UNCHANGED bufferVars, now' \in 0..Horizon, now <= now' PROVE RingInv'
  <2>1. \A i \in 1..Len(history) : history[i].time <= now'
    <3>1. history \in Seq(Samples) /\ now \in Nat /\ now' \in Nat
      BY <1>2, RingNumbers DEF RingInv, BufferTypeOK, BufferAssumption
    <3>2. \A i \in 1..Len(history) : history[i].time \in Nat /\ history[i].time <= now
      <4>1. \A i \in 1..Len(history) : history[i] \in Samples
        BY <3>1
      <4>2. 0..Horizon \subseteq Nat
        BY DEF BufferAssumption
      <4>3. \A i \in 1..Len(history) : history[i].time \in 0..Horizon
        BY <4>1 DEF Samples
      <4> QED BY <4>2, <4>3 DEF RingInv
    <3> QED BY ONLY <1>2, <3>1, <3>2
  <2> QED BY <1>2, <2>1 DEF bufferVars, RingInv, BufferTypeOK, Kept, Smaller, Back, Samples, Zero
<1>3. now \in Nat /\ Horizon \in Nat /\ now <= Horizon
  BY DEF RingInv, BufferTypeOK, BufferAssumption
<1>4. ASSUME NEW a \in Asks, GetRecent(a) PROVE RingInv'
  BY <1>2, <1>3, <1>4 DEF GetRecent
<1>5. ASSUME NEW a \in Asks, GetWindow(a) PROVE RingInv'
  BY <1>2, <1>3, <1>5 DEF GetWindow
<1>6. CASE Average
  BY <1>2, <1>3, <1>6 DEF Average
<1>7. CASE Tick
  BY <1>2, <1>3, <1>7 DEF Tick
<1>8. CASE UNCHANGED ringVars
  BY <1>2, <1>3, <1>8 DEF ringVars
<1> QED BY <1>1, <1>4, <1>5, <1>6, <1>7, <1>8 DEF RingNext

LEMMA RecentStep ==
  ASSUME BufferAssumption, RingInv, NEW a \in Asks, GetRecent(a)
  PROVE  reply'.result = LastOf(Smaller(a, Kept))
<1> DEFINE n == Smaller(a, count)
           end == (writeIdx - 1 + size) % size
           start == (writeIdx - n + size) % size
<1>1. n \in 0..count /\ n \in 0..Len(history) /\ n = Smaller(a, Kept)
  <2>1. a \in Nat /\ count \in Nat /\ count = Kept /\ count <= Len(history) /\ Len(history) \in Nat
    BY RingNumbers DEF BufferAssumption, RingInv
  <2> QED BY <2>1 DEF Smaller
<1>2. reply'.result = CopyOut(n, start, end)
  BY DEF GetRecent
<1>3. LastOf(n) = [k \in 1..n |-> history[Len(history) - (n - k)]]
  BY <1>1, LastIs DEF RingInv
<1> HIDE DEF n
<1>4. CASE n = 0
  <2>1. CopyOut(n, start, end) = [k \in 1..n |-> history[Len(history) - (n - k)]]
    BY <1>4 DEF CopyOut
  <2> QED BY <1>1, <1>2, <1>3, <2>1
<1>5. CASE n # 0
  <2>1. n \in 1..count /\ count \in Nat
    BY <1>1, <1>5, RingNumbers DEF RingInv
  <2>2. CopyOut(n, start, end) = [k \in 1..n |-> buffer[Back(n - k)]]
    BY <2>1, CopiedSlots
  <2>3. ASSUME NEW k \in 1..n
        PROVE  buffer[Back(n - k)] = history[Len(history) - (n - k)]
    <3>1. n - k + 1 \in 1..count /\ (n - k + 1) - 1 = n - k
      BY <2>1
    <3>2. buffer[Back((n - k + 1) - 1)] = history[Len(history) - ((n - k + 1) - 1)]
      BY <3>1 DEF RingInv
    <3> QED BY <3>1, <3>2
  <2> HIDE DEF start, end
  <2> QED BY <1>1, <1>2, <1>3, <2>2, <2>3
<1> QED BY <1>4, <1>5

LEMMA AverageStep ==
  ASSUME BufferAssumption, RingInv, Average
  PROVE  /\ reply'.of = Kept
         /\ reply'.sum = SumFunction([i \in 1..Kept |-> history[Len(history) - i + 1].value])
<1>1. /\ reply'.sum = SumFunction([i \in 1..count |-> buffer[Back(i - 1)].value])
      /\ reply'.of = count /\ count = Kept
  BY DEF Average, RingInv
<1>2. ASSUME NEW i \in 1..count
      PROVE  buffer[Back(i - 1)].value = history[Len(history) - i + 1].value
  <2>1. Len(history) - (i - 1) = Len(history) - i + 1
    BY RingNumbers DEF RingInv
  <2> QED BY <2>1 DEF RingInv
<1>3. [i \in 1..count |-> buffer[Back(i - 1)].value]
        = [i \in 1..Kept |-> history[Len(history) - i + 1].value]
  BY <1>1, <1>2
<1> QED BY <1>1, <1>3

LEMMA WindowStep ==
  ASSUME BufferAssumption, RingInv, NEW a \in Asks, GetWindow(a)
  PROVE  LET k == Len(reply'.result)
         IN  /\ k <= Kept
             /\ \A i \in 1..k : /\ reply'.result[i] = history[Len(history) - i + 1]
                                /\ reply'.began - reply'.result[i].time <= a
             /\ \A i \in k + 1..Kept : now' - history[Len(history) - i + 1].time > a
<1>1. PICK k \in 0..count :
        /\ \A i \in 0..k - 1 : Within(now - buffer[Back(i)].time, a)
        /\ k < count => ~Within(now' - buffer[Back(k)].time, a)
        /\ reply' = [call |-> "GetWindow", ask |-> a, began |-> now,
                     result |-> [i \in 1..k |-> buffer[Back(i - 1)]]]
        /\ now' \in Nat
  <2>1. now \in Nat
    BY RingNumbers DEF RingInv
  <2>2. PICK t \in now..Horizon, k \in 0..count :
          /\ \A i \in 0..k - 1 : Within(now - buffer[Back(i)].time, a)
          /\ k < count => ~Within(t - buffer[Back(k)].time, a)
          /\ now' = t
          /\ reply' = [call |-> "GetWindow", ask |-> a, began |-> now,
                       result |-> [i \in 1..k |-> buffer[Back(i - 1)]]]
    BY DEF GetWindow
  <2>3. t \in Nat
    BY <2>1 DEF BufferAssumption
  <2> QED BY <2>2, <2>3
<1>2. /\ count \in Nat /\ count = Kept /\ k \in Nat /\ k <= count /\ a \in Nat /\ now \in Nat
      /\ Len(history) \in Nat /\ count <= Len(history)
  BY RingNumbers DEF RingInv, BufferAssumption
<1>3. reply'.result = [i \in 1..k |-> buffer[Back(i - 1)]] /\ reply'.began = now
  BY <1>1
<1>4. Len(reply'.result) = k
  BY <1>2, <1>3
<1>5. \A i \in 1..count : /\ buffer[Back(i - 1)] = history[Len(history) - i + 1]
                          /\ Len(history) - i + 1 \in 1..Len(history)
                          /\ history[Len(history) - i + 1].time \in Nat
  <2> SUFFICES ASSUME NEW i \in 1..count
               PROVE  /\ buffer[Back(i - 1)] = history[Len(history) - i + 1]
                      /\ Len(history) - i + 1 \in 1..Len(history)
                      /\ history[Len(history) - i + 1].time \in Nat
    OBVIOUS
  <2>1. Len(history) - (i - 1) = Len(history) - i + 1 /\ Len(history) - i + 1 \in 1..Len(history)
    BY <1>2
  <2>2. history[Len(history) - i + 1] \in Samples
    BY <2>1 DEF RingInv, BufferTypeOK
  <2> QED BY <2>1, <2>2 DEF RingInv, Samples, BufferAssumption
<1>6. ASSUME NEW i \in 1..k
      PROVE  /\ reply'.result[i] = history[Len(history) - i + 1]
             /\ reply'.began - reply'.result[i].time <= a
  <2>1. i \in 1..count /\ i - 1 \in 0..k - 1
    BY <1>2
  <2>2. reply'.result[i] = buffer[Back(i - 1)]
    BY <1>3
  <2>3. now - buffer[Back(i - 1)].time <= a
    BY <1>1, <2>1 DEF Within
  <2> QED BY <1>3, <1>5, <2>1, <2>2, <2>3
<1>7. ASSUME NEW i \in k + 1..count
      PROVE  now' - history[Len(history) - i + 1].time > a
  <2>1. k + 1 \in 1..count /\ i \in 1..count /\ k < count /\ (k + 1) - 1 = k
    BY <1>2
  <2>2. ~(now' - buffer[Back(k)].time <= a)
    BY <1>1, <2>1 DEF Within
  <2>3. buffer[Back(k)] = history[Len(history) - (k + 1) + 1]
    BY <1>5, <2>1
  <2>4. Len(history) - i + 1 <= Len(history) - (k + 1) + 1
    BY <1>2, <2>1
  <2>5. history[Len(history) - i + 1].time <= history[Len(history) - (k + 1) + 1].time
    BY <1>5, <2>1, <2>4 DEF RingInv
  <2>6. history[Len(history) - i + 1].time \in Nat
        /\ history[Len(history) - (k + 1) + 1].time \in Nat
    BY <1>5, <2>1
  <2>7. \A t, x, y \in Nat : ~(t - y <= a) /\ x <= y => t - x > a
    BY <1>2
  <2> QED BY ONLY <1>1, <2>2, <2>3, <2>5, <2>6, <2>7
<1> QED BY <1>2, <1>4, <1>6, <1>7

(* The last call told the truth and nothing has happened since, or it was  *)
(* not a call that reads.                                                  *)
LEMMA ReadStep ==
  BufferAssumption /\ RingInv /\ ReadsAreExact /\ [RingNext]_ringVars => ReadsAreExact'
<1> SUFFICES ASSUME BufferAssumption, RingInv, ReadsAreExact, [RingNext]_ringVars
             PROVE  ReadsAreExact'
  OBVIOUS
<1> USE DEF ReadsAreExact, RecentIsLast, AverageIsOfLast, WindowIsExact
<1>1. ASSUME reply' = NoReply PROVE ReadsAreExact'
  BY <1>1 DEF NoReply
<1>2. ASSUME NEW v \in Readings, PushSample(v) PROVE ReadsAreExact'
  BY <1>1, <1>2 DEF PushSample
<1>3. CASE Tick
  BY <1>1, <1>3 DEF Tick
<1>4. ASSUME NEW a \in Asks, GetRecent(a) PROVE ReadsAreExact'
  <2>1. reply'.call = "GetRecent" /\ reply'.ask = a /\ UNCHANGED <<size, history>>
    BY <1>4 DEF GetRecent, bufferVars
  <2>2. reply'.result = LastOf(Smaller(a, Kept))
    BY <1>4, RecentStep
  <2> QED BY <2>1, <2>2 DEF LastOf, Kept
<1>5. CASE Average
  <2>1. reply'.call = "Average" /\ UNCHANGED <<size, history>>
    BY <1>5 DEF Average, bufferVars
  <2> QED BY <1>5, <2>1, AverageStep DEF Kept
<1>6. ASSUME NEW a \in Asks, GetWindow(a) PROVE ReadsAreExact'
  <2>1. reply'.call = "GetWindow" /\ reply'.ask = a /\ UNCHANGED <<size, history>>
    BY <1>6 DEF GetWindow, bufferVars
  <2> QED BY <1>6, <2>1, WindowStep DEF Kept
<1>7. CASE UNCHANGED ringVars
  BY <1>7 DEF ringVars, bufferVars, LastOf, Kept
<1> QED BY <1>2, <1>3, <1>4, <1>5, <1>6, <1>7 DEF RingNext

(***************************************************************************)
(* The indexes stay inside the buffer and the slots it counts are those    *)
(* written last.                                                           *)
(***************************************************************************)
THEOREM RingIsSound == ASSUME BufferAssumption PROVE RingSpec => []RingInv
<1> USE BufferAssumption
<1> QED BY InitRingInv, RingStep, PTL DEF RingSpec

(***************************************************************************)
(* Push keeps writeIdx inside the ring and count from passing its size,    *)
(* and every slot holds a sample or is as it was made, for every size.     *)
(***************************************************************************)
THEOREM BufferTypes == ASSUME BufferAssumption PROVE RingSpec => []BufferTypeOK
<1>1. RingInv => BufferTypeOK
  BY DEF RingInv
<1> QED BY <1>1, RingIsSound, PTL

(***************************************************************************)
(* GetRecent, Average and GetWindow tell of the last samples pushed and of *)
(* nothing else, at any size, any fill and after any number of wraps.      *)
(***************************************************************************)
THEOREM ReadsTellTheTruth == ASSUME BufferAssumption PROVE RingSpec => []ReadsAreExact
<1>1. RingInit => ReadsAreExact
  BY DEF RingInit, NoReply, ReadsAreExact, RecentIsLast, AverageIsOfLast, WindowIsExact
<1>2. RingInv /\ ReadsAreExact /\ [RingNext]_ringVars => ReadsAreExact'
  BY ReadStep
<1> QED BY <1>1, <1>2, RingIsSound, PTL DEF RingSpec

-----------------------------------------------------------------------------
(* The ring is an implementation of the sequence of its last samples.      *)

HoldsLast ==
  /\ InBuffer \in Seq(Samples) /\ Len(InBuffer) = count
  /\ \A k \in 1..count : InBuffer[k] = history[Len(history) - (count - k)]

LEMMA InBufferIs == BufferAssumption /\ RingInv => HoldsLast
<1> SUFFICES ASSUME BufferAssumption, RingInv PROVE HoldsLast
  OBVIOUS
<1>1. /\ count \in Nat /\ count <= Len(history) /\ Len(history) \in Nat
      /\ history \in Seq(Samples)
  BY RingNumbers DEF RingInv, BufferTypeOK
<1>2. ASSUME NEW k \in 1..count
      PROVE  /\ buffer[Back(count - k)] = history[Len(history) - (count - k)]
             /\ history[Len(history) - (count - k)] \in Samples
  <2>1. /\ count - k + 1 \in 1..count /\ (count - k + 1) - 1 = count - k
        /\ Len(history) - (count - k) \in 1..Len(history)
    BY <1>1
  <2>2. buffer[Back((count - k + 1) - 1)] = history[Len(history) - ((count - k + 1) - 1)]
    BY <2>1 DEF RingInv
  <2>3. history[Len(history) - (count - k)] \in Samples
    BY ONLY <1>1, <2>1
  <2> QED BY <2>1, <2>2, <2>3
<1> DEFINE at(k) == buffer[Back(count - k)]
<1>3. InBuffer = [k \in 1..count |-> at(k)]
  BY DEF InBuffer
<1>4. \A k \in 1..count : at(k) \in Samples /\ at(k) = history[Len(history) - (count - k)]
  BY <1>2
<1> HIDE DEF at
<1>5. InBuffer \in Seq(Samples) /\ Len(InBuffer) = count
  BY ONLY <1>1, <1>3, <1>4
<1> QED BY <1>3, <1>4, <1>5 DEF HoldsLast

LEMMA SameSequence ==
  ASSUME NEW S, NEW s \in Seq(S), NEW t \in Seq(S), Len(s) = Len(t),
         \A k \in 1..Len(s) : s[k] = t[k]
  PROVE  s = t
OBVIOUS

(* A push appends the sample, after dropping the oldest when it is full.   *)
LEMMA PushIsPush ==
  ASSUME BufferAssumption, RingInv, NEW v \in Readings, PushSample(v)
  PROVE  \E s \in Samples : Promise!Push(s)
<1> DEFINE s == [value |-> v, time |-> now]
<1>1. RingInv' /\ history' = Append(history, s) /\ s \in Samples
  BY PushStep
<1> HIDE DEF s
<1>2. /\ count' = NextCount /\ size' = size /\ size \in Nat /\ count \in 0..size
      /\ history \in Seq(Samples) /\ Len(history) \in Nat /\ count <= Len(history)
  BY RingNumbers DEF PushSample, RingInv, BufferTypeOK
<1>3. HoldsLast
  BY InBufferIs
<1>4. HoldsLast'
  BY <1>1, InBufferIs, PTL
<1>5. /\ Len(history') = Len(history) + 1 /\ history'[Len(history) + 1] = s
      /\ \A i \in 1..Len(history) : history'[i] = history[i]
  BY ONLY <1>1, <1>2
<1>6. CASE count < size
  <2> DEFINE new == Append(InBuffer, s)
  <2>1. new \in Seq(Samples) /\ Len(new) = count + 1 /\ new[count + 1] = s
        /\ \A k \in 1..count : new[k] = InBuffer[k]
    BY ONLY <1>1, <1>2, <1>3 DEF HoldsLast
  <2>2. count' = count + 1
    BY <1>2, <1>6 DEF NextCount
  <2> HIDE DEF new
  <2>3. ASSUME NEW k \in 1..count + 1 PROVE InBuffer'[k] = new[k]
    <3>1. InBuffer'[k] = history'[Len(history') - (count' - k)]
      BY <1>4, <2>2, <2>3 DEF HoldsLast
    <3>2. Len(history') - (count' - k) = Len(history) - (count - k)
      <4>1. \A l, c, m \in Nat : (l + 1) - ((c + 1) - m) = l - (c - m)
        OBVIOUS
      <4>2. count \in Nat /\ Len(history) \in Nat /\ k \in Nat
        BY <1>2, <2>3
      <4> QED BY ONLY <1>5, <2>2, <4>1, <4>2
    <3>3. CASE k = count + 1
      BY <1>2, <1>5, <2>1, <2>2, <3>1, <3>3
    <3>4. CASE k \in 1..count
      <4>1. Len(history) - (count - k) \in 1..Len(history)
        BY <1>2, <3>4
      <4> QED BY <1>3, <1>5, <2>1, <3>1, <3>2, <3>4, <4>1 DEF HoldsLast
    <3> QED BY <1>2, <3>3, <3>4
  <2>4. InBuffer' = new
    <3>1. InBuffer' \in Seq(Samples) /\ Len(InBuffer') = count + 1
      BY <1>4, <2>2 DEF HoldsLast
    <3> QED BY <2>1, <2>3, <3>1, SameSequence
  <2> QED BY <1>1, <1>2, <1>3, <1>6, <2>4 DEF HoldsLast, new, Promise!Push
<1>7. CASE ~(count < size)
  <2> DEFINE new == Append(Tail(InBuffer), s)
  <2>1. count \in Nat \ {0} /\ count' = count
    BY <1>2, <1>7, RingNumbers DEF NextCount, RingInv
  <2>2. new \in Seq(Samples) /\ Len(new) = count /\ new[count] = s
        /\ \A k \in 1..count - 1 : new[k] = InBuffer[k + 1]
    BY ONLY <1>1, <1>3, <2>1 DEF HoldsLast
  <2> HIDE DEF new
  <2>3. ASSUME NEW k \in 1..count PROVE InBuffer'[k] = new[k]
    <3>1. InBuffer'[k] = history'[Len(history') - (count - k)]
      BY <1>4, <2>1, <2>3 DEF HoldsLast
    <3>2. CASE k = count
      BY <1>2, <1>5, <2>1, <2>2, <3>1, <3>2
    <3>3. CASE k \in 1..count - 1
      <4>1. /\ Len(history') - (count - k) = Len(history) - (count - (k + 1))
            /\ Len(history) - (count - (k + 1)) \in 1..Len(history)
            /\ k + 1 \in 1..count
        BY <1>2, <1>5, <2>1, <3>3
      <4> QED BY <1>3, <1>5, <2>2, <3>1, <3>3, <4>1 DEF HoldsLast
    <3> QED BY <2>1, <3>2, <3>3
  <2>4. InBuffer' = new
    <3>1. InBuffer' \in Seq(Samples) /\ Len(InBuffer') = count
      BY <1>4, <2>1 DEF HoldsLast
    <3> QED BY <2>2, <2>3, <3>1, SameSequence
  <2> QED BY <1>1, <1>2, <1>3, <1>7, <2>4 DEF HoldsLast, new, Promise!Push
<1> QED BY <1>6, <1>7

(***************************************************************************)
(* However often it has wrapped, the buffer holds the last samples pushed: *)
(* each step of the ring is a push or a stutter of RecentSamples.          *)
(***************************************************************************)
THEOREM RingHoldsRecent == ASSUME BufferAssumption PROVE RingSpec => HoldsRecent
<1>1. RingInit => Promise!Init
  BY DEF RingInit, BufferAssumption, Promise!Init, InBuffer
<1>2. RingInv /\ [RingNext]_ringVars => [Promise!Next]_Promise!vars
  <2> SUFFICES ASSUME RingInv, [RingNext]_ringVars PROVE [Promise!Next]_Promise!vars
    OBVIOUS
  <2>1. ASSUME NEW v \in Readings, PushSample(v) PROVE Promise!Next
    BY <2>1, PushIsPush DEF Promise!Next
  <2>2. ASSUME UNCHANGED bufferVars PROVE UNCHANGED Promise!vars
    BY <2>2 DEF bufferVars, InBuffer, Back, Promise!vars
  <2> QED BY <2>1, <2>2 DEF RingNext, ringVars, GetRecent, GetWindow, Average, Tick
<1> QED BY <1>1, <1>2, RingIsSound, PTL DEF RingSpec, HoldsRecent, Promise!Spec
=============================================================================
