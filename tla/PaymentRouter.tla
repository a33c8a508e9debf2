---------------------------- MODULE PaymentRouter ----------------------------
(***************************************************************************)
(* practice/payment_router.go: FindPath, a Dijkstra search backwards from  *)
(* the destination.  The amount a node must send grows by the fee of each  *)
(* channel on the way back, and a channel carries it only within its       *)
(* limits.  One step is one iteration of the search or of the walk along   *)
(* prev.  Nodes of equal rank leave the heap in any order: their places in *)
(* it depend on the iteration order of Go maps.                            *)
(*                                                                         *)
(* Operators named Fault... are wrong versions of the one that follows.    *)
(***************************************************************************)
EXTENDS Integers, Sequences, FiniteSets

CONSTANTS
  Nodes,
  Graphs,       (* the graphs searched: functions from channels to edges     *)
  Payments,     (* records of src, dst and amount                            *)
  MaxInt64      (* above every amount                                        *)

Edge == [from : Nodes, to : Nodes, base : Nat, ppm : Nat, cltv : Nat,
         min : Nat, max : Nat, capacity : Nat, disabled : BOOLEAN]

ASSUME RouterAssumption ==
  /\ Payments \subseteq [src : Nodes, dst : Nodes, amount : Nat]
  /\ \A g \in Graphs : \A c \in DOMAIN g : c \in Nat /\ g[c] \in Edge
  /\ MaxInt64 \in Nat

(* A capacity in msat is a multiple of 1000, which MaxInt64 is not.        *)
ASSUME CapacityAssumption ==
  /\ IsFiniteSet(Nodes)
  /\ \A g \in Graphs : \A c \in DOMAIN g : g[c].capacity * 1000 < MaxInt64

VARIABLES
  graph,        (* Graph.Edges: the edge of each channel                     *)
  payment,      (* the arguments of FindPath                                 *)
  dist, prev,
  heap,         (* the amount and total CLTV of the nodes in the heap        *)
  at,           (* cur of reconstructPath                                    *)
  hops,
  phase

vars == <<graph, payment, dist, prev, heap, at, hops, phase>>

HopFee(e, amount) == e.base + (amount * e.ppm) \div 1000000

EdgePassesFilters(e, amount) ==
  /\ ~e.disabled
  /\ amount >= e.min
  /\ amount <= e.max
  /\ amount <= e.capacity * 1000

Incoming(e, amount) == amount + HopFee(e, amount)

Init ==
  /\ graph \in Graphs
  /\ payment \in Payments
  /\ dist = [n \in Nodes |-> IF n = payment.dst THEN payment.amount ELSE MaxInt64]
  /\ prev = <<>>
  /\ heap = [n \in {payment.dst} |-> [amount |-> payment.amount, cltv |-> 0]]
  /\ at = payment.src
  /\ hops = <<>>
  /\ phase = "search"

FaultByCLTV(a, b) == a.cltv < b.cltv
Less(a, b) ==
  \/ a.amount < b.amount
  \/ a.amount = b.amount /\ a.cltv < b.cltv

FaultFilterForwarded(n, u) ==
  {c \in DOMAIN graph :
     LET e == graph[c]
         amount == Incoming(e, heap[n].amount)
     IN  /\ e.from = u /\ e.to = n
         /\ EdgePassesFilters(e, heap[n].amount) /\ amount < dist[u]}

FaultNotOnlyBetter(n, u) ==
  {c \in DOMAIN graph :
     LET e == graph[c]
         amount == Incoming(e, heap[n].amount)
     IN  /\ e.from = u /\ e.to = n
         /\ EdgePassesFilters(e, amount) /\ amount <= dist[u]}

(* The channels from u to n that let u deliver for less than it could. *)
Offers(n, u) ==
  {c \in DOMAIN graph :
     LET e == graph[c]
         amount == Incoming(e, heap[n].amount)
     IN  /\ e.from = u /\ e.to = n
         /\ EdgePassesFilters(e, amount) /\ amount < dist[u]}

(* What is left in prev after the offers have been taken in their order:   *)
(* the cheapest, and of equals the first.                                  *)
Best(n, u) ==
  LET cost(c) == Incoming(graph[c], heap[n].amount)
  IN  CHOOSE c \in Offers(n, u) :
        \A d \in Offers(n, u) : cost(c) < cost(d) \/ (cost(c) = cost(d) /\ c <= d)

(* The entry of u in the heap, pushed or updated in place. *)
Entry(n, u) ==
  LET e == graph[Best(n, u)]
  IN  [amount |-> Incoming(e, heap[n].amount), cltv |-> heap[n].cltv + e.cltv]

FaultPeek(n) == DOMAIN heap
Popped(n) == DOMAIN heap \ {n}

First(n) == \A m \in DOMAIN heap : ~Less(heap[m], heap[n])

(* n is popped and its incoming channels are relaxed. *)
Expand(n) ==
  /\ phase = "search" /\ n # payment.src /\ First(n)
  /\ LET better == {u \in Nodes : Offers(n, u) # {}}
         cost(u) == Incoming(graph[Best(n, u)], heap[n].amount)
     IN  /\ dist' = [u \in Nodes |-> IF u \in better THEN cost(u) ELSE dist[u]]
         /\ prev' = [u \in DOMAIN prev \cup better |->
                       IF u \in better
                       THEN [node |-> n, channel |-> Best(n, u), amount |-> cost(u)]
                       ELSE prev[u]]
         /\ heap' = [u \in Popped(n) \cup better |->
                       IF u \in better THEN Entry(n, u) ELSE heap[u]]
  /\ UNCHANGED <<graph, payment, at, hops, phase>>

Found ==
  /\ phase = "search"
  /\ payment.src \in DOMAIN heap /\ First(payment.src)
  /\ phase' = "walk"
  /\ heap' = [n \in Popped(payment.src) |-> heap[n]]
  /\ UNCHANGED <<graph, payment, dist, prev, at, hops>>

ErrNoPath ==
  /\ phase = "search" /\ DOMAIN heap = {}
  /\ phase' = "no path"
  /\ UNCHANGED <<graph, payment, dist, prev, heap, at, hops>>

(* One hop of reconstructPath. *)
Walk ==
  /\ phase = "walk" /\ at # payment.dst
  /\ LET hop == prev[at]
         amountOut == IF hop.node = payment.dst THEN payment.amount
                      ELSE prev[hop.node].amount
     IN  /\ hops' = Append(hops, [node |-> hop.node, channel |-> hop.channel,
                                  forward |-> amountOut, fee |-> hop.amount - amountOut])
         /\ at' = hop.node
  /\ UNCHANGED <<graph, payment, dist, prev, heap, phase>>

Return ==
  /\ phase = "walk" /\ at = payment.dst
  /\ phase' = "route"
  /\ UNCHANGED <<graph, payment, dist, prev, heap, at, hops>>

Next == (\E n \in DOMAIN heap : Expand(n)) \/ Found \/ ErrNoPath \/ Walk \/ Return

Spec == Init /\ [][Next]_vars /\ WF_vars(Next)

-----------------------------------------------------------------------------
TypeOK ==
  /\ dist \in [Nodes -> Nat]
  /\ DOMAIN prev \subseteq Nodes /\ DOMAIN heap \subseteq Nodes
  /\ \A u \in DOMAIN prev :
       prev[u] \in [node : Nodes, channel : DOMAIN graph, amount : Nat]
  /\ \A u \in DOMAIN heap : /\ heap[u] \in [amount : Nat, cltv : Nat]
                           /\ heap[u].amount = dist[u]
  /\ at \in Nodes
  /\ phase \in {"search", "walk", "route", "no path"}

(***************************************************************************)
(* A node that has been popped keeps its amount and its predecessor, and   *)
(* never comes back to the heap: the search decides it once.  FindPath has *)
(* no set of visited nodes and relies on the order of pops for this.       *)
(***************************************************************************)
Settled == {n \in Nodes : dist[n] < MaxInt64 /\ n \notin DOMAIN heap}

SettledOnce ==
  [][\A n \in Settled : /\ dist'[n] = dist[n] /\ n \notin DOMAIN heap'
                        /\ n \in DOMAIN prev => prev'[n] = prev[n]]_vars

(***************************************************************************)
(* A route that is returned can be paid as it stands: from src to dst      *)
(* along channels of the graph, no node twice; each channel accepts the    *)
(* amount its hop is sent, which is what the hop forwards and its fee for  *)
(* that; and dst gets the amount of the payment.                           *)
(***************************************************************************)
RouteCanBePaid ==
  phase = "route" =>
    LET size == Len(hops)
        sender(i) == IF i = 1 THEN payment.src ELSE hops[i - 1].node
        sent(i) == hops[i].forward + hops[i].fee
    IN  /\ IF size = 0 THEN payment.src = payment.dst
           ELSE hops[size].node = payment.dst /\ hops[size].forward = payment.amount
        /\ \A i \in 1..size :
             LET e == graph[hops[i].channel]
             IN  /\ e.from = sender(i) /\ e.to = hops[i].node
                 /\ hops[i].fee = HopFee(e, hops[i].forward)
                 /\ EdgePassesFilters(e, sent(i))
                 /\ i < size => hops[i].forward = sent(i + 1)
        /\ \A i, j \in 1..size : hops[i].node = hops[j].node => i = j

(* Ways to deliver the payment over at most k channels, no node twice. *)
Partial[k \in Nat] ==
  IF k = 0 THEN {[at |-> payment.dst, amount |-> payment.amount, seen |-> {payment.dst}]}
  ELSE LET shorter == Partial[k - 1]
           extend(p, c) == [at |-> graph[c].from, amount |-> Incoming(graph[c], p.amount),
                            seen |-> p.seen \cup {graph[c].from}]
           fits(p, c) == /\ graph[c].to = p.at /\ graph[c].from \notin p.seen
                         /\ EdgePassesFilters(graph[c], Incoming(graph[c], p.amount))
       IN  shorter \cup {extend(q[1], q[2]) :
                           q \in {r \in shorter \X DOMAIN graph : fits(r[1], r[2])}}

Costs == {p.amount : p \in {q \in Partial[Cardinality(Nodes) - 1] : q.at = payment.src}}

(***************************************************************************)
(* "FindPath finds the lowest-cost path" (line 170): no way of paying      *)
(* costs less than the route, and there is none when it reports no path.   *)
(***************************************************************************)
FindsLowestCost ==
  /\ phase = "no path" => Costs = {}
  /\ phase = "route" => \A c \in Costs : dist[payment.src] <= c

(***************************************************************************)
(* That holds when no channel has a minimum above the payment, so that     *)
(* arriving with less is never worse.                                      *)
(***************************************************************************)
LowestCostWithoutMinimum ==
  (\A c \in DOMAIN graph : graph[c].min <= payment.amount) => FindsLowestCost

(***************************************************************************)
(* FindPath returns, with a route or with ErrNoPath: neither the search    *)
(* nor the walk along prev goes round for ever.                            *)
(***************************************************************************)
FindPathReturns == <>(phase \in {"route", "no path"})
=============================================================================
