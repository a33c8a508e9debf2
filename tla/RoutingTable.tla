---------------------------- MODULE RoutingTable ----------------------------
(***************************************************************************)
(* practice/routing_table.go: routes in a trie over the bits of an IPv4    *)
(* address, and the lookup of the longest prefix.  An address is the tuple *)
(* of its bits, first bit first, and a node the bits that lead to it.      *)
(* net.ParseCIDR also takes IPv6 routes: their address becomes 0 or, when  *)
(* it is an IPv4 address in IPv6 form, that one, and is read as 0 beyond   *)
(* its bits, so that a route may lead deeper than any lookup.              *)
(*                                                                         *)
(* Operators named Fault... are wrong versions of the one that follows.    *)
(***************************************************************************)
EXTENDS Integers, Sequences, SequencesExt

CONSTANTS
  Width,        (* bits of an IPv4 address: 32                               *)
  Gateways,     (* names; the empty one is "no gateway"                      *)
  Far,          (* bits of IPv6 routes, which are more than Width            *)
  MaxRoutes     (* bound: calls of AddRoute                                  *)

ASSUME RouteAssumption == Width \in Nat /\ \A bits \in Far : bits \in Seq({0, 1})

VARIABLES
  gateway,      (* TrieNode.gateway of the nodes there are                   *)
  routes        (* the routes added, in order; history                       *)

routeVars == <<gateway, routes>>

NoGateway == ""
Addresses == [1..Width -> {0, 1}]
Networks == UNION {[1..n -> {0, 1}] : n \in 0..Width}

RouteInit == gateway = [n \in {<<>>} |-> NoGateway] /\ routes = <<>>

(* The loop of AddRoute, from the first bit to the last of the prefix. *)
AddPath(bits, gw) ==
  /\ gateway' = [n \in DOMAIN gateway \cup Prefixes(bits) |->
                   IF n = bits THEN gw
                   ELSE IF n \in DOMAIN gateway THEN gateway[n] ELSE NoGateway]
  /\ routes' = Append(routes, [prefix |-> bits, gateway |-> gw])

AddRoute ==
  /\ Len(routes) < MaxRoutes
  /\ \E gw \in Gateways \cup {NoGateway} :
       \E bits \in Networks \cup Far : AddPath(bits, gw)

RouteSpec == RouteInit /\ [][AddRoute]_routeVars

FaultFirstMatch(best, n) == IF best = NoGateway THEN gateway[n] ELSE best
Better(best, n) == IF gateway[n] # NoGateway THEN gateway[n] ELSE best

(* The loop of FindRoute: the best so far once k bits have been followed.  *)
FindRoute(addr) ==
  LET best[k \in 0..Width] ==
        IF SubSeq(addr, 1, k) \notin DOMAIN gateway THEN best[k - 1]
        ELSE Better(IF k = 0 THEN NoGateway ELSE best[k - 1], SubSeq(addr, 1, k))
  IN  best[Width]

-----------------------------------------------------------------------------
(***************************************************************************)
(* FindRoute answers with the route of the longest prefix of the address,  *)
(* the last one added for it; a route added again with no gateway is       *)
(* taken back and the next longest answers.  An IPv6 route never answers   *)
(* when it is longer than Width bits, and a shorter one answers for the    *)
(* addresses that begin with so many zeros.                                *)
(***************************************************************************)
Current(prefix) ==
  LET at == {k \in DOMAIN routes : routes[k].prefix = prefix}
  IN  IF at = {} THEN NoGateway
      ELSE routes[CHOOSE k \in at : \A j \in at : j <= k].gateway

LongestPrefix ==
  \A addr \in Addresses :
    LET live == {k \in 0..Width : Current(SubSeq(addr, 1, k)) # NoGateway}
    IN  FindRoute(addr) =
          IF live = {} THEN NoGateway
          ELSE Current(SubSeq(addr, 1, CHOOSE k \in live : \A j \in live : j <= k))
=============================================================================
