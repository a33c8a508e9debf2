------------------------------ MODULE LRUCache ------------------------------
(***************************************************************************)
(* data-structures/lru-cache.go: a map from keys to the nodes of a doubly  *)
(* linked list, last used first.  A node is identified by its key, since a *)
(* key never has two nodes that can be reached.                            *)
(*                                                                         *)
(* The assignments of a list operation are applied in the code's order to  *)
(* a record of the pointers.  Operators named Fault... are wrong versions  *)
(* of the operator that follows them.                                      *)
(***************************************************************************)
EXTENDS Integers, Sequences, FiniteSets

CONSTANTS
  Keys, CacheValues,
  Capacities,   (* the capacities given to NewLRUCache                       *)
  NoNode        (* no node                                                   *)

CacheAssumption ==
  /\ Capacities \subseteq Nat
  /\ CacheValues \subseteq Nat
  /\ IsFiniteSet(Keys) /\ NoNode \notin Keys

VARIABLES
  capacity,
  cache,        (* the keys of the map                                       *)
  nodeValue,    (* listNode.value                                            *)
  list,         (* prev and next of the nodes, head and tail                 *)
  got           (* what the last Get returned                                *)

cacheVars == <<capacity, cache, nodeValue, list, got>>

Node == Keys \cup {NoNode}

CacheTypeOK ==
  /\ capacity \in Capacities
  /\ cache \subseteq Keys /\ Cardinality(cache) <= capacity
  /\ nodeValue \in [Keys -> CacheValues \cup {0}]
  /\ list \in [prev : [Keys -> Node], next : [Keys -> Node], head : Node, tail : Node]
  /\ got \in CacheValues \cup {-1}

CacheInit ==
  /\ capacity \in Capacities
  /\ cache = {}
  /\ nodeValue = [k \in Keys |-> 0]
  /\ list = [prev |-> [k \in Keys |-> NoNode], next |-> [k \in Keys |-> NoNode],
             head |-> NoNode, tail |-> NoNode]
  /\ got = -1

-----------------------------------------------------------------------------
(* n.next = m and n.prev = m, guarded by n != nil.                         *)
SetNext(l, n, m) == IF n = NoNode THEN l ELSE [l EXCEPT !.next[n] = m]
SetPrev(l, n, m) == IF n = NoNode THEN l ELSE [l EXCEPT !.prev[n] = m]

(* n becomes the head, before what was the head. *)
LinkFirst(l, n) ==
  [SetPrev(SetNext(SetPrev(l, n, NoNode), n, l.head), l.head, n) EXCEPT !.head = n]

AddHead(l, n) ==
  LET linked == LinkFirst(l, n)
  IN  IF l.tail = NoNode THEN [linked EXCEPT !.tail = n] ELSE linked

FaultKeepTail(l, n) ==
  IF n = l.head THEN l
  ELSE LinkFirst(SetPrev(SetNext(l, l.prev[n], l.next[n]), l.next[n], l.prev[n]), n)

MoveToHead(l, n) ==
  IF n = l.head THEN l
  ELSE LET cut == SetPrev(SetNext(l, l.prev[n], l.next[n]), l.next[n], l.prev[n])
           shortened == IF n = l.tail THEN [cut EXCEPT !.tail = l.prev[n]] ELSE cut
       IN  LinkFirst(shortened, n)

PopTail(l) ==
  IF l.tail = NoNode THEN l
  ELSE LET before == l.prev[l.tail]
           cut == IF before = NoNode THEN [l EXCEPT !.head = NoNode]
                  ELSE SetNext(l, before, NoNode)
       IN  [cut EXCEPT !.tail = before]

Get(k) ==
  /\ IF k \in cache
     THEN list' = MoveToHead(list, k) /\ got' = nodeValue[k]
     ELSE got' = -1 /\ UNCHANGED list
  /\ UNCHANGED <<capacity, cache, nodeValue>>

FaultUpdateInPlace(k, v) ==
  /\ k \in cache
  /\ nodeValue' = [nodeValue EXCEPT ![k] = v]
  /\ UNCHANGED <<capacity, cache, list, got>>

Update(k, v) ==
  /\ k \in cache
  /\ nodeValue' = [nodeValue EXCEPT ![k] = v]
  /\ list' = MoveToHead(list, k)
  /\ UNCHANGED <<capacity, cache, got>>

FaultOverflow(keys) == Cardinality(keys) > capacity + 1
Overflow(keys) == Cardinality(keys) > capacity

Insert(k, v) ==
  /\ k \notin cache
  /\ nodeValue' = [nodeValue EXCEPT ![k] = v]
  /\ LET added == AddHead(list, k)
         keys == cache \cup {k}
     IN  IF Overflow(keys)
         THEN list' = PopTail(added) /\ cache' = keys \ {added.tail}
         ELSE list' = added /\ cache' = keys
  /\ UNCHANGED <<capacity, got>>

Put(k, v) == Update(k, v) \/ Insert(k, v)

CacheNext == \E k \in Keys : Get(k) \/ \E v \in CacheValues : Put(k, v)

CacheSpec == CacheInit /\ [][CacheNext]_cacheVars

-----------------------------------------------------------------------------
(* The nodes met from n on, following the pointers of step.                *)
Walk(n, step) ==
  LET at[i \in Nat] == IF i = 0 THEN n
                       ELSE IF at[i - 1] = NoNode THEN NoNode ELSE step[at[i - 1]]
      met == {i \in 0..Cardinality(Keys) : \A j \in 0..i : at[j] # NoNode}
  IN  [i \in 1..Cardinality(met) |-> at[i - 1]]

(***************************************************************************)
(* The list is one chain: read from the head it has each key of the map    *)
(* once, and read from the tail it is the same chain backwards.            *)
(***************************************************************************)
OneChain ==
  LET forth == Walk(list.head, list.next)
      back == Walk(list.tail, list.prev)
      size == Cardinality(cache)
  IN  /\ Len(forth) = size /\ {forth[i] : i \in 1..size} = cache
      /\ Len(back) = size /\ \A i \in 1..size : back[i] = forth[size + 1 - i]

(***************************************************************************)
(* The pointers and the map amount to a cache that keeps its entries in    *)
(* order of last use, evicts the one used longest ago, and returns the     *)
(* value last put.                                                         *)
(***************************************************************************)
Recency ==
  INSTANCE RecencyCache WITH Values <- CacheValues,
                             order <- Walk(list.head, list.next),
                             value <- [k \in cache |-> nodeValue[k]]

ImplementsLRU == Recency!Spec
=============================================================================
