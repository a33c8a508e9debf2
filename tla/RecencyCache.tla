---------------------------- MODULE RecencyCache ----------------------------
(***************************************************************************)
(* What data-structures/lru-cache.go promises: a cache of bounded capacity *)
(* that remembers its entries in the order of their last use and gives up  *)
(* the one that was used longest ago.                                      *)
(***************************************************************************)
EXTENDS Integers, Sequences

CONSTANTS Keys, Values

VARIABLES
  capacity,
  order,      (* the cached keys, last used first                            *)
  value,      (* their values                                                *)
  got         (* what the last Get returned                                  *)

vars == <<capacity, order, value, got>>

Missing == -1

Init ==
  /\ capacity \in Nat
  /\ order = <<>>
  /\ value = [k \in {} |-> Missing]
  /\ got = Missing

Range(s) == {s[p] : p \in DOMAIN s}
Cached == Range(order)

(* k goes first, and those that were before it one place further. *)
Use(k) ==
  LET size == IF k \in Cached THEN Len(order) ELSE Len(order) + 1
      left == IF k \in Cached THEN CHOOSE p \in 1..size : order[p] = k ELSE size
  IN  [p \in 1..size |-> IF p = 1 THEN k ELSE IF p <= left THEN order[p - 1] ELSE order[p]]

Keep(s) == [p \in 1..(IF Len(s) < capacity THEN Len(s) ELSE capacity) |-> s[p]]

Get(k) ==
  /\ IF k \in Cached
     THEN order' = Use(k) /\ got' = value[k]
     ELSE got' = Missing /\ UNCHANGED order
  /\ UNCHANGED <<capacity, value>>

Put(k, v) ==
  /\ order' = Keep(Use(k))
  /\ value' = [j \in Range(order') |-> IF j = k THEN v ELSE value[j]]
  /\ UNCHANGED <<capacity, got>>

Next == \E k \in Keys : Get(k) \/ \E v \in Values : Put(k, v)

Spec == Init /\ [][Next]_vars
=============================================================================
