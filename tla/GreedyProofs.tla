---------------------------- MODULE GreedyProofs ----------------------------
(***************************************************************************)
(* The two programs of practice/ that take the best next step and never    *)
(* take one back: FindPath on any graph, for any payment, and Solve in any *)
(* factory of the rules.                                                   *)
(***************************************************************************)
EXTENDS PaymentRouter, RoboticLeveling, FiniteSetTheorems, Iteration

-----------------------------------------------------------------------------
(***************************************************************************)
(* FindPath: its types, that a node is decided once, that the route        *)
(* returned can be paid as it stands, and that where no minimum is in the  *)
(* way none is cheaper.                                                    *)
(*                                                                         *)
(* Fees are not negative, so what is offered through a node costs at least *)
(* what the node does; nodes leave the heap in the order of their amounts; *)
(* so no offer is less than what a node that has left was given.           *)
(***************************************************************************)

(* prev leads on from where it led to, and the walk is on it. *)
Leads(u) == u = payment.dst \/ u \in DOMAIN prev

(* The nodes that have been in the heap and have left it. *)
Decided == {u \in Nodes : Leads(u) /\ u \notin DOMAIN heap}

IInv ==
  /\ graph \in Graphs /\ payment \in Payments
  /\ TypeOK
  /\ \A u \in DOMAIN heap : Leads(u)
  /\ \A u \in DOMAIN prev : Leads(prev[u].node)
  /\ phase = "search" => at = payment.src
  /\ phase = "walk" => Leads(at)
  /\ \A n \in Decided : \A m \in DOMAIN heap : dist[n] <= heap[m].amount
  /\ \A u \in Nodes : dist[u] < MaxInt64 => Leads(u)
  /\ \A u \in Nodes : Leads(u) => payment.amount <= dist[u]
  /\ payment.dst \notin DOMAIN prev /\ dist[payment.dst] = payment.amount

-----------------------------------------------------------------------------
LEMMA FeeIsNat ==
  ASSUME NEW e \in Edge, NEW amount \in Nat
  PROVE  HopFee(e, amount) \in Nat
<1>1. e.base \in Nat /\ e.ppm \in Nat
  BY DEF Edge
<1> DEFINE x == amount * e.ppm
<1>2. x \in Nat
  BY <1>1
<1> HIDE DEF x
<1>3. x \div 1000000 \in Nat
  BY <1>2
<1> QED
  BY <1>1, <1>3 DEF HopFee, x

(* A channel asks for no less than it forwards. *)
LEMMA FeesAreNotNegative ==
  ASSUME NEW e \in Edge, NEW amount \in Nat
  PROVE  Incoming(e, amount) \in Nat /\ amount <= Incoming(e, amount)
BY FeeIsNat DEF Incoming

(* Where there is an offer, Best is one. *)
LEMMA BestIsAnOffer ==
  ASSUME graph \in Graphs, NEW n, NEW u, Offers(n, u) # {}, heap[n].amount \in Nat
  PROVE  /\ Best(n, u) \in Offers(n, u)
         /\ \A c \in Offers(n, u) : Incoming(graph[Best(n, u)], heap[n].amount)
                                      <= Incoming(graph[c], heap[n].amount)
<1> DEFINE cost(c) == Incoming(graph[c], heap[n].amount)
           O == Offers(n, u)
           C == {cost(c) : c \in O}
<1>1. O \subseteq DOMAIN graph /\ O # {}
  BY DEF Offers
<1>2. \A c \in O : cost(c) \in Nat /\ c \in Nat
  BY <1>1, FeesAreNotNegative, RouterAssumption
<1>3. PICK x \in C : \A y \in C : x <= y
  <2>1. C \in SUBSET Nat /\ C # {}
    BY <1>1, <1>2
  <2> QED
    BY <2>1, LeastNat
<1> DEFINE E == {c \in O : cost(c) = x}
<1>4. PICK c \in E : \A d \in E : c <= d
  <2>1. E \in SUBSET Nat /\ E # {}
    BY <1>2, <1>3
  <2> QED
    BY <2>1, LeastNat
<1>5. \A d \in O : cost(c) < cost(d) \/ (cost(c) = cost(d) /\ c <= d)
  <2> SUFFICES ASSUME NEW d \in O, cost(c) # cost(d)
               PROVE  cost(c) < cost(d)
    BY <1>4
  <2>1. cost(c) = x /\ cost(d) \in C /\ cost(c) \in Nat /\ cost(d) \in Nat
    BY <1>2, <1>4
  <2> HIDE DEF cost, C
  <2> QED
    BY <1>3, <2>1
<1>6. /\ Best(n, u) \in O
      /\ \A d \in O : \/ cost(Best(n, u)) < cost(d)
                      \/ cost(Best(n, u)) = cost(d) /\ Best(n, u) <= d
  BY <1>4, <1>5 DEF Best
<1>7. \A d \in O : cost(Best(n, u)) <= cost(d)
  <2> HIDE DEF cost, O
  <2> QED BY <1>2, <1>6
<1> QED
  BY <1>6, <1>7

(***************************************************************************)
(* What expanding n does to the nodes around it: those that take an offer  *)
(* have not been decided and are given no less than n.                     *)
(***************************************************************************)
LEMMA OffersAreLater ==
  ASSUME IInv, NEW n \in DOMAIN heap, First(n), NEW u \in Nodes, Offers(n, u) # {}
  PROVE  LET cost == Incoming(graph[Best(n, u)], heap[n].amount)
         IN  /\ graph[Best(n, u)] \in Edge /\ Best(n, u) \in DOMAIN graph
             /\ cost \in Nat /\ heap[n].amount <= cost /\ cost < dist[u]
             /\ u # n /\ u \notin Decided /\ u # payment.dst
<1> DEFINE cost == Incoming(graph[Best(n, u)], heap[n].amount)
<1>1. heap[n].amount \in Nat /\ heap[n].amount = dist[n] /\ dist[u] \in Nat /\ n \in Nodes
  BY DEF IInv, TypeOK
<1>2. Best(n, u) \in Offers(n, u)
  BY <1>1, BestIsAnOffer DEF IInv
<1>3. Best(n, u) \in DOMAIN graph /\ cost < dist[u]
  BY <1>2 DEF Offers
<1>4. graph[Best(n, u)] \in Edge
  BY <1>3, RouterAssumption DEF IInv
<1>5. cost \in Nat /\ heap[n].amount <= cost
  BY <1>1, <1>4, FeesAreNotNegative
<1> HIDE DEF cost
<1>6. u # n
  BY <1>1, <1>3, <1>5
<1>7. u \in Decided => dist[u] <= heap[n].amount
  BY DEF IInv
<1>8. u \notin Decided
  BY <1>1, <1>3, <1>5, <1>7
<1>9. u # payment.dst
  <2>1. Leads(n) /\ payment.amount \in Nat
    BY RouterAssumption DEF IInv
  <2>2. payment.amount <= dist[n] /\ dist[payment.dst] = payment.amount
    BY <1>1, <2>1 DEF IInv
  <2> QED BY <1>1, <1>3, <1>5, <2>1, <2>2
<1> QED
  BY <1>3, <1>4, <1>5, <1>6, <1>8, <1>9 DEF cost

LEMMA InitIInv == Init => IInv
<1> SUFFICES ASSUME Init PROVE IInv
  OBVIOUS
<1>1. payment \in Payments /\ payment \in [src : Nodes, dst : Nodes, amount : Nat]
  BY RouterAssumption DEF Init
<1>2. TypeOK
  BY <1>1, RouterAssumption DEF Init, TypeOK
<1>3. Decided = {}
  BY DEF Init, Decided, Leads
<1>4. \A u \in Nodes : dist[u] < MaxInt64 => u = payment.dst
  BY RouterAssumption DEF Init
<1> QED
  BY <1>1, <1>2, <1>3, <1>4 DEF Init, IInv, Leads

LEMMA ExpandIInv == ASSUME IInv, NEW n \in DOMAIN heap, Expand(n) PROVE IInv'
<1> DEFINE better == {u \in Nodes : Offers(n, u) # {}}
           cost(u) == Incoming(graph[Best(n, u)], heap[n].amount)
<1>1. /\ First(n) /\ phase = "search"
      /\ dist' = [u \in Nodes |-> IF u \in better THEN cost(u) ELSE dist[u]]
      /\ prev' = [u \in DOMAIN prev \cup better |->
                    IF u \in better
                    THEN [node |-> n, channel |-> Best(n, u), amount |-> cost(u)]
                    ELSE prev[u]]
      /\ heap' = [u \in (DOMAIN heap \ {n}) \cup better |->
                    IF u \in better THEN Entry(n, u) ELSE heap[u]]
      /\ graph' = graph /\ payment' = payment /\ at' = at /\ hops' = hops /\ phase' = phase
  BY DEF Expand, Popped
<1>2. \A u \in better : /\ Best(n, u) \in DOMAIN graph /\ graph[Best(n, u)] \in Edge
                        /\ cost(u) \in Nat /\ heap[n].amount <= cost(u)
                        /\ u # n /\ u \notin Decided /\ u # payment.dst /\ u \in Nodes
  BY <1>1, OffersAreLater
<1>3. TypeOK /\ n \in Nodes /\ heap[n] \in [amount : Nat, cltv : Nat] /\ dist \in [Nodes -> Nat]
      /\ heap[n].amount = dist[n] /\ DOMAIN heap \subseteq Nodes /\ DOMAIN prev \subseteq Nodes
      /\ graph \in Graphs /\ payment \in Payments
  BY DEF IInv, TypeOK
<1>4. \A u \in better : /\ Entry(n, u) \in [amount : Nat, cltv : Nat]
                        /\ Entry(n, u).amount = cost(u)
  BY <1>2, <1>3 DEF Entry, Edge
<1> HIDE DEF better, cost
<1>5. \A m \in DOMAIN heap : heap[n].amount <= heap[m].amount
  <2> SUFFICES ASSUME NEW m \in DOMAIN heap PROVE heap[n].amount <= heap[m].amount
    OBVIOUS
  <2>1. heap[m].amount \in Nat /\ heap[n].amount \in Nat
    BY <1>3 DEF TypeOK
  <2>2. ~(heap[m].amount < heap[n].amount)
    BY <1>1 DEF First, Less
  <2> QED
    BY <2>1, <2>2
<1>6. TypeOK'
  <2>1. dist' \in [Nodes -> Nat]
    BY <1>1, <1>2, <1>3
  <2>2. DOMAIN prev' \subseteq Nodes /\ DOMAIN heap' \subseteq Nodes
    BY <1>1, <1>2, <1>3
  <2>3. ASSUME NEW u \in DOMAIN prev'
        PROVE  prev'[u] \in [node : Nodes, channel : DOMAIN graph, amount : Nat]
    BY <1>1, <1>2, <1>3, <2>3 DEF TypeOK
  <2>4. ASSUME NEW u \in DOMAIN heap'
        PROVE  heap'[u] \in [amount : Nat, cltv : Nat] /\ heap'[u].amount = dist'[u]
    <3>1. CASE u \in better
      BY <1>1, <1>2, <1>4, <3>1
    <3>2. CASE u \notin better
      BY <1>1, <1>3, <2>4, <3>2 DEF TypeOK
    <3> QED
      BY <3>1, <3>2
  <2>5. at' \in Nodes /\ phase' \in {"search", "walk", "route", "no path"}
    BY <1>1, <1>3 DEF TypeOK
  <2> QED
    BY <1>1, <2>1, <2>2, <2>3, <2>4, <2>5 DEF TypeOK
<1>7. \A u : Leads(u) => Leads(u)'
  BY <1>1 DEF Leads
<1>8. \A u \in DOMAIN heap' : Leads(u)'
  <2>1. \A u \in better : Leads(u)'
    BY <1>1 DEF Leads
  <2> QED
    BY <1>1, <1>7, <2>1 DEF IInv
<1>9. ASSUME NEW u \in DOMAIN prev'
      PROVE  prev'[u].node = payment.dst \/ prev'[u].node \in DOMAIN prev'
  <2>1. CASE u \in better
    <3>1. prev'[u].node = n
      BY <1>1, <2>1
    <3>2. n = payment.dst \/ n \in DOMAIN prev
      BY DEF IInv, Leads
    <3> QED
      BY <1>1, <3>1, <3>2
  <2>2. CASE u \notin better
    <3>1. u \in DOMAIN prev /\ prev'[u] = prev[u]
      BY <1>1, <1>9, <2>2
    <3>2. prev[u].node = payment.dst \/ prev[u].node \in DOMAIN prev
      BY <3>1 DEF IInv, Leads
    <3> QED
      BY <1>1, <3>1, <3>2
  <2> QED
    BY <2>1, <2>2
<1>10. ASSUME NEW s \in Decided', NEW m \in DOMAIN heap'
       PROVE  dist'[s] <= heap'[m].amount
  <2>1. s \in Nodes /\ s \notin DOMAIN heap' /\ (s = payment.dst \/ s \in DOMAIN prev')
    BY <1>1, <1>10 DEF Decided, Leads
  <2>2. s \notin better /\ dist'[s] = dist[s]
    BY <1>1, <2>1
  <2>3. s = n \/ s \in Decided
    BY <1>1, <2>1, <2>2 DEF Decided, Leads
  <2>4. dist[s] <= heap[n].amount
    BY <1>3, <2>3 DEF IInv
  <2>5. CASE m \in better
    <3>1. heap'[m].amount = cost(m) /\ heap[n].amount <= cost(m) /\ cost(m) \in Nat
      BY <1>1, <1>2, <1>4, <2>5
    <3> QED
      BY <1>3, <2>1, <2>2, <2>4, <3>1
  <2>6. CASE m \notin better
    <3>1. heap'[m] = heap[m] /\ heap[n].amount <= heap[m].amount /\ heap[m].amount \in Nat
      BY <1>1, <1>3, <1>5, <2>6 DEF TypeOK
    <3> QED
      BY <1>3, <2>1, <2>2, <2>4, <3>1
  <2> QED
    BY <2>5, <2>6
<1>11. ASSUME NEW u \in Nodes, Leads(u)' PROVE payment.amount <= dist'[u]
  <2>1. payment.amount <= dist[n] /\ payment.amount \in Nat
    BY <1>3, RouterAssumption DEF IInv
  <2>2. CASE u \in better
    BY <1>1, <1>2, <1>3, <2>1, <2>2
  <2>3. CASE u \notin better
    BY <1>1, <1>11, <2>3 DEF IInv, Leads
  <2> QED
    BY <2>2, <2>3
<1>12. ASSUME NEW u \in Nodes, dist'[u] < MaxInt64 PROVE Leads(u)'
  BY <1>1, <1>7, <1>12 DEF IInv, Leads
<1>13. payment.dst \notin DOMAIN prev' /\ dist'[payment.dst] = payment.amount
  BY <1>1, <1>2, RouterAssumption DEF IInv
<1> QED
  <2>1. (\A u \in DOMAIN prev : Leads(prev[u].node))'
    BY <1>1, <1>9 DEF Leads
  <2> QED
    BY <1>1, <1>3, <1>6, <1>8, <1>10, <1>11, <1>12, <1>13, <2>1 DEF IInv

LEMMA NextIInv == IInv /\ [Next]_vars => IInv'
<1> SUFFICES ASSUME IInv, [Next]_vars PROVE IInv'
  OBVIOUS
<1>1. ASSUME NEW n \in DOMAIN heap, Expand(n) PROVE IInv'
  BY <1>1, ExpandIInv
<1>2. ASSUME Found PROVE IInv'
  <2> DEFINE s == payment.src
  <2>1. /\ phase = "search" /\ phase' = "walk" /\ s \in DOMAIN heap /\ First(s)
        /\ heap' = [n \in DOMAIN heap \ {s} |-> heap[n]]
        /\ UNCHANGED <<graph, payment, dist, prev, at, hops>>
    BY <1>2 DEF Found, Popped
  <2>2. TypeOK'
    BY <2>1 DEF IInv, TypeOK
  <2>3. Leads(at)' /\ \A u : Leads(u) <=> Leads(u)'
    BY <2>1 DEF IInv, Leads
  <2>4. ASSUME NEW n \in Decided', NEW m \in DOMAIN heap'
        PROVE  dist'[n] <= heap'[m].amount
    <3>1. n = s \/ n \in Decided
      BY <2>1 DEF Decided, Leads
    <3>2. heap[s].amount \in Nat /\ heap[m].amount \in Nat /\ heap[s].amount = dist[s]
      BY <2>1 DEF IInv, TypeOK
    <3>3. ~(heap[m].amount < heap[s].amount)
      BY <2>1 DEF First, Less
    <3> QED
      BY <2>1, <3>1, <3>2, <3>3 DEF IInv
  <2>5. (\A u \in DOMAIN heap : Leads(u))' /\ (\A u \in DOMAIN prev : Leads(prev[u].node))'
    BY <2>1 DEF IInv, Leads
  <2>6. /\ (\A u \in Nodes : dist[u] < MaxInt64 => Leads(u))'
        /\ (\A u \in Nodes : Leads(u) => payment.amount <= dist[u])'
        /\ (payment.dst \notin DOMAIN prev /\ dist[payment.dst] = payment.amount)'
    BY <2>1 DEF IInv, Leads
  <2> QED
    BY <2>1, <2>2, <2>3, <2>4, <2>5, <2>6 DEF IInv
<1>3. ASSUME ErrNoPath PROVE IInv'
  BY <1>3 DEF ErrNoPath, IInv, TypeOK, Leads, Decided
<1>4. ASSUME Walk PROVE IInv'
  <2>1. at \in DOMAIN prev /\ at' = prev[at].node /\ phase = "walk"
        /\ UNCHANGED <<graph, payment, dist, prev, heap, phase>>
    BY <1>4 DEF Walk, IInv, Leads
  <2>2. at' \in Nodes /\ Leads(at)'
    BY <2>1 DEF IInv, TypeOK, Leads
  <2> QED
    BY <2>1, <2>2 DEF IInv, TypeOK, Leads, Decided
<1>5. ASSUME Return PROVE IInv'
  BY <1>5 DEF Return, IInv, TypeOK, Leads, Decided
<1>6. ASSUME UNCHANGED vars PROVE IInv'
  BY <1>6 DEF vars, IInv, TypeOK, Leads, Decided
<1> QED
  BY <1>1, <1>2, <1>3, <1>4, <1>5, <1>6 DEF Next

-----------------------------------------------------------------------------
(***************************************************************************)
(* On any graph, for any payment: distances and heap agree, and prev leads *)
(* from node to node along channels of the graph, so that reconstructPath  *)
(* finds an entry at every node it comes to.                               *)
(***************************************************************************)
THEOREM TypeCorrect == Spec => []TypeOK
<1>1. IInv => TypeOK
  BY DEF IInv
<1> QED
  BY InitIInv, NextIInv, <1>1, PTL DEF Spec

(***************************************************************************)
(* On any graph, for any payment, a node that has left the heap is decided:*)
(* what it costs and where it leads stay, and it does not come back.       *)
(***************************************************************************)
THEOREM NodesSettleOnce == Spec => SettledOnce
<1> DEFINE A == \A n \in Settled : /\ dist'[n] = dist[n] /\ n \notin DOMAIN heap'
                                   /\ n \in DOMAIN prev => prev'[n] = prev[n]
<1>1. IInv /\ [Next]_vars => [A]_vars
  <2> SUFFICES ASSUME IInv, Next, NEW s \in Settled
               PROVE  /\ dist'[s] = dist[s] /\ s \notin DOMAIN heap'
                      /\ s \in DOMAIN prev => prev'[s] = prev[s]
    BY DEF vars
  <2>1. s \in Nodes /\ s \notin DOMAIN heap /\ s \in Decided
    BY DEF Settled, Decided, IInv
  <2>2. ASSUME NEW n \in DOMAIN heap, Expand(n)
        PROVE  /\ dist'[s] = dist[s] /\ s \notin DOMAIN heap'
               /\ s \in DOMAIN prev => prev'[s] = prev[s]
    <3>1. Offers(n, s) = {}
      <4>1. First(n)
        BY <2>2 DEF Expand
      <4> QED
        BY <2>1, <4>1, OffersAreLater
    <3> QED
      BY <2>1, <2>2, <3>1 DEF Expand, Popped
  <2>3. CASE Found
    BY <2>1, <2>3 DEF Found, Popped
  <2>4. CASE ErrNoPath \/ Walk \/ Return
    BY <2>1, <2>4 DEF ErrNoPath, Walk, Return
  <2> QED
    BY <2>2, <2>3, <2>4 DEF Next
<1> QED
  BY InitIInv, NextIInv, <1>1, PTL DEF Spec, SettledOnce

-----------------------------------------------------------------------------
(***************************************************************************)
(* The route.  prev leads from a node to one that is decided, along a      *)
(* channel that accepts what it is sent; and it does not go round, since a *)
(* node that is decided is not given another way on.                       *)
(***************************************************************************)
WayFrom(u) ==
  LET p == prev[u]
      e == graph[p.channel]
  IN  /\ p.node \in Decided
      /\ e.from = u /\ e.to = p.node
      /\ p.amount = dist[u] /\ dist[u] = Incoming(e, dist[p.node])
      /\ EdgePassesFilters(e, dist[u])

PrevInv ==
  /\ \A u \in DOMAIN prev : WayFrom(u)
  /\ \A T \in SUBSET DOMAIN prev : T # {} => \E u \in T : prev[u].node \notin T

(* The walk has come along prev from src and been nowhere twice. *)
Stop(k) == IF k = 0 THEN payment.src ELSE hops[k].node

HopFrom(u) ==
  [node |-> prev[u].node, channel |-> prev[u].channel,
   forward |-> dist[prev[u].node], fee |-> dist[u] - dist[prev[u].node]]

WalkInv ==
  /\ hops \in Seq([node : Nodes, channel : Nat, forward : Nat, fee : Int])
  /\ phase \in {"search", "no path"} => hops = <<>>
  /\ at = Stop(Len(hops))
  /\ \A k \in 1..Len(hops) : Stop(k - 1) \in DOMAIN prev /\ hops[k] = HopFrom(Stop(k - 1))
  /\ \A j, k \in 1..Len(hops) : hops[j].node = hops[k].node => j = k
  /\ phase = "route" => at = payment.dst

LEMMA ExpandPrevInv == ASSUME IInv, PrevInv, NEW n \in DOMAIN heap, Expand(n) PROVE PrevInv'
<1> DEFINE better == {u \in Nodes : Offers(n, u) # {}}
           cost(u) == Incoming(graph[Best(n, u)], heap[n].amount)
<1>1. /\ First(n) /\ phase = "search"
      /\ dist' = [u \in Nodes |-> IF u \in better THEN cost(u) ELSE dist[u]]
      /\ prev' = [u \in DOMAIN prev \cup better |->
                    IF u \in better
                    THEN [node |-> n, channel |-> Best(n, u), amount |-> cost(u)]
                    ELSE prev[u]]
      /\ DOMAIN heap' = (DOMAIN heap \ {n}) \cup better
      /\ graph' = graph /\ payment' = payment
  BY DEF Expand, Popped
<1>2. n \in Nodes /\ heap[n].amount = dist[n] /\ heap[n].amount \in Nat /\ dist \in [Nodes -> Nat]
      /\ graph \in Graphs
  BY DEF IInv, TypeOK
<1>3. ASSUME NEW u \in better
      PROVE  /\ cost(u) < dist[u] /\ u # n /\ u \notin Decided /\ u \in Nodes
             /\ graph[Best(n, u)].from = u /\ graph[Best(n, u)].to = n
             /\ EdgePassesFilters(graph[Best(n, u)], cost(u))
  <2>1. Best(n, u) \in Offers(n, u)
    BY <1>2, BestIsAnOffer
  <2>2. u # n /\ u \notin Decided /\ u \in Nodes /\ cost(u) < dist[u]
    BY <1>1, OffersAreLater
  <2>3. \A c \in Offers(n, u) : /\ graph[c].from = u /\ graph[c].to = n
                                /\ EdgePassesFilters(graph[c], Incoming(graph[c], heap[n].amount))
    BY DEF Offers
  <2> QED BY <2>1, <2>2, <2>3
<1> HIDE DEF better, cost
<1>4. ASSUME NEW m \in Decided PROVE m \in Decided' /\ m \notin better /\ dist'[m] = dist[m]
  BY <1>1, <1>2, <1>3, <1>4 DEF Decided, Leads
<1>5. n \in Decided' /\ n \notin better /\ dist'[n] = dist[n]
  BY <1>1, <1>2, <1>3 DEF Decided, Leads, IInv
<1>6. ASSUME NEW u \in DOMAIN prev' PROVE WayFrom(u)'
  <2>1. CASE u \in better
    <3>1. /\ prev'[u] = [node |-> n, channel |-> Best(n, u), amount |-> cost(u)]
          /\ dist'[u] = cost(u)
      BY <1>1, <1>3, <2>1
    <3>2. cost(u) = Incoming(graph[Best(n, u)], dist'[n])
      BY <1>2, <1>5 DEF cost
    <3> QED
      BY <1>1, <1>3, <1>5, <2>1, <3>1, <3>2 DEF WayFrom
  <2>2. CASE u \notin better
    <3>1. u \in DOMAIN prev /\ prev'[u] = prev[u] /\ WayFrom(u) /\ u \in Nodes
      BY <1>1, <1>6, <2>2 DEF PrevInv, IInv, TypeOK
    <3>2. dist'[u] = dist[u] /\ prev[u].node \in Decided
      BY <1>1, <2>2, <3>1 DEF WayFrom
    <3>3. prev[u].node \in Decided' /\ dist'[prev[u].node] = dist[prev[u].node]
      BY <1>4, <3>2
    <3> QED
      BY <1>1, <3>1, <3>2, <3>3 DEF WayFrom
  <2> QED BY <2>1, <2>2
<1>7. ASSUME NEW T \in SUBSET DOMAIN prev', T # {}
      PROVE  \E u \in T : prev'[u].node \notin T
  <2>1. CASE T \subseteq better
    <3>1. PICK u \in T : TRUE
      BY <1>7
    <3>2. prev'[u].node = n
      BY <1>1, <2>1
    <3> QED BY <1>5, <2>1, <3>2
  <2>2. CASE ~(T \subseteq better)
    <3>1. PICK u \in T \ better : prev[u].node \notin T \ better
      <4>1. T \ better \in SUBSET DOMAIN prev /\ T \ better # {}
        BY <1>1, <2>2
      <4> QED BY <4>1 DEF PrevInv
    <3>2. u \in DOMAIN prev /\ prev'[u] = prev[u]
      BY <1>1, <3>1
    <3>3. prev[u].node \notin better
      BY <1>4, <3>2 DEF PrevInv, WayFrom
    <3> QED BY <3>1, <3>2, <3>3
  <2> QED BY <2>1, <2>2
<1> QED BY <1>6, <1>7 DEF PrevInv

LEMMA NextPrevInv == IInv /\ PrevInv /\ [Next]_vars => PrevInv'
<1> SUFFICES ASSUME IInv, PrevInv, [Next]_vars PROVE PrevInv'
  OBVIOUS
<1>1. ASSUME UNCHANGED <<graph, payment, dist, prev>>, DOMAIN heap' \subseteq DOMAIN heap
      PROVE  PrevInv'
  <2>1. Decided \subseteq Decided'
    BY <1>1 DEF Decided, Leads
  <2> QED
    BY <1>1, <2>1 DEF PrevInv, WayFrom
<1>2. ASSUME NEW n \in DOMAIN heap, Expand(n) PROVE PrevInv'
  BY <1>2, ExpandPrevInv
<1> QED
  BY <1>1, <1>2 DEF Next, Found, Popped, ErrNoPath, Walk, Return, vars

(* The walk comes to no node it has been to: those since then would go     *)
(* round along prev.                                                       *)
LEMMA NotRound ==
  ASSUME IInv, PrevInv, WalkInv, phase = "walk", at # payment.dst
  PROVE  \A k \in 1..Len(hops) : hops[k].node # prev[at].node
<1> SUFFICES ASSUME NEW k \in 1..Len(hops), hops[k].node = prev[at].node PROVE FALSE
  OBVIOUS
<1> DEFINE T == {hops[j].node : j \in k..Len(hops)}
<1>1. Len(hops) \in Nat /\ at \in DOMAIN prev
  BY DEF WalkInv, IInv, Leads
<1>2. ASSUME NEW j \in k..Len(hops)
      PROVE  hops[j].node \in DOMAIN prev /\ prev[hops[j].node].node \in T
  <2>1. CASE j = Len(hops)
    <3>1. hops[j].node = at
      BY <1>1, <2>1 DEF WalkInv, Stop
    <3> QED BY <1>1, <3>1
  <2>2. CASE j # Len(hops)
    <3>1. j + 1 \in 1..Len(hops) /\ j + 1 \in k..Len(hops) /\ (j + 1) - 1 = j /\ j # 0
      BY <1>1, <2>2
    <3>2. Stop(j) \in DOMAIN prev /\ hops[j + 1] = HopFrom(Stop(j))
      BY <3>1 DEF WalkInv
    <3>3. Stop(j) = hops[j].node /\ hops[j + 1].node = prev[Stop(j)].node
      BY <3>1, <3>2 DEF Stop, HopFrom
    <3> QED BY <3>1, <3>2, <3>3
  <2> QED BY <2>1, <2>2
<1>3. T \in SUBSET DOMAIN prev /\ T # {}
  BY <1>1, <1>2
<1>4. \A u \in T : prev[u].node \in T
  BY <1>2
<1> HIDE DEF T
<1> QED BY <1>3, <1>4 DEF PrevInv

LEMMA Appended ==
  ASSUME NEW H, NEW s \in Seq(H), NEW e \in H
  PROVE  /\ Append(s, e) \in Seq(H) /\ Len(s) \in Nat /\ Len(Append(s, e)) = Len(s) + 1
         /\ Append(s, e)[Len(s) + 1] = e
         /\ \A k \in 1..Len(s) : Append(s, e)[k] = s[k]
OBVIOUS

LEMMA NextWalkInv == IInv /\ PrevInv /\ WalkInv /\ [Next]_vars => WalkInv'
<1> SUFFICES ASSUME IInv, PrevInv, WalkInv, [Next]_vars PROVE WalkInv'
  OBVIOUS
<1>1. ASSUME NEW n \in DOMAIN heap, Expand(n) PROVE WalkInv'
  BY <1>1 DEF Expand, WalkInv, Stop
<1>2. CASE Found
  BY <1>2 DEF Found, WalkInv, Stop, HopFrom
<1>3. CASE ErrNoPath
  BY <1>3 DEF ErrNoPath, WalkInv, Stop, HopFrom
<1>4. CASE Walk
  <2> DEFINE hop == HopFrom(at)
             Hops == [node : Nodes, channel : Nat, forward : Nat, fee : Int]
             size == Len(hops)
  <2>1. at \in DOMAIN prev /\ WayFrom(at) /\ at \in Nodes
    BY <1>4 DEF Walk, IInv, Leads, PrevInv, TypeOK
  <2>2. hops' = Append(hops, hop) /\ at' = hop.node
    <3>1. (IF prev[at].node = payment.dst THEN payment.amount ELSE prev[prev[at].node].amount)
            = dist[prev[at].node]
      <4>1. CASE prev[at].node = payment.dst
        BY <4>1 DEF IInv
      <4>2. CASE prev[at].node # payment.dst
        <5>1. prev[at].node \in DOMAIN prev
          BY <2>1, <4>2 DEF IInv, Leads
        <5> QED BY <4>2, <5>1 DEF PrevInv, WayFrom
      <4> QED BY <4>1, <4>2
    <3>2. prev[at].amount = dist[at]
      BY <2>1 DEF WayFrom
    <3> QED BY <1>4, <3>1, <3>2 DEF Walk, HopFrom
  <2>3. hop \in Hops
    <3>1. prev[at].node \in Nodes /\ prev[at].channel \in Nat
      BY <2>1, RouterAssumption DEF IInv, TypeOK
    <3>2. dist[at] \in Nat /\ dist[prev[at].node] \in Nat
      BY <2>1, <3>1 DEF IInv, TypeOK
    <3> QED BY <3>1, <3>2 DEF HopFrom
  <2>4. phase = "walk" /\ phase' = "walk" /\ UNCHANGED <<graph, payment, dist, prev, heap>>
    BY <1>4 DEF Walk
  <2>5. hop.node = prev[at].node
    BY DEF HopFrom
  <2> HIDE DEF hop
  <2>6. hops' \in Seq(Hops) /\ Len(hops') = size + 1 /\ hops'[size + 1] = hop /\ size \in Nat
        /\ \A k \in 1..size : hops'[k] = hops[k]
    <3>1. hops \in Seq(Hops)
      BY DEF WalkInv
    <3> HIDE DEF Hops
    <3> QED BY ONLY <2>2, <2>3, <3>1, Appended
  <2>7. \A k \in 0..size : Stop(k)' = Stop(k)
    <3>1. \A k \in 0..size : k # 0 => k \in 1..size
      BY <2>6
    <3>2. \A k \in 0..size : k # 0 => hops'[k] = hops[k]
      BY ONLY <2>6, <3>1
    <3> QED BY ONLY <2>4, <3>2 DEF Stop
  <2>8. ASSUME NEW k \in 1..size + 1
        PROVE  Stop(k - 1) \in DOMAIN prev /\ hops'[k] = HopFrom(Stop(k - 1))
    <3>1. CASE k \in 1..size
      BY <2>6, <3>1 DEF WalkInv
    <3>2. CASE k = size + 1
      <4>1. k - 1 = size
        BY <2>6, <3>2
      <4> QED BY <2>1, <2>6, <3>2, <4>1 DEF WalkInv, hop
    <3> QED BY <2>6, <3>1, <3>2
  <2>9. ASSUME NEW k \in 1..size + 1
        PROVE  (Stop(k - 1))' \in DOMAIN prev /\ hops'[k] = HopFrom(Stop(k - 1))'
    <3>1. k - 1 \in 0..size
      BY <2>6
    <3> QED BY <2>4, <2>7, <2>8, <3>1 DEF HopFrom
  <2>10. ASSUME NEW j \in 1..size + 1, NEW k \in 1..size + 1, hops'[j].node = hops'[k].node
         PROVE  j = k
    <3>1. \A m \in 1..size : hops[m].node # hop.node
      BY <1>4, <2>4, <2>5, NotRound DEF Walk
    <3>2. CASE j \in 1..size /\ k \in 1..size
      BY <2>6, <2>10, <3>2 DEF WalkInv
    <3>3. CASE j = size + 1 /\ k \in 1..size
      BY <2>6, <2>10, <3>1, <3>3
    <3>4. CASE j \in 1..size /\ k = size + 1
      BY <2>6, <2>10, <3>1, <3>4
    <3>5. \A m \in 1..size + 1 : m \in 1..size \/ m = size + 1
      BY <2>6
    <3> QED BY <3>2, <3>3, <3>4, <3>5
  <2>11. at' = Stop(Len(hops))'
    BY <2>2, <2>6 DEF Stop
  <2> QED BY <2>4, <2>6, <2>9, <2>10, <2>11 DEF WalkInv
<1>5. CASE Return
  BY <1>5 DEF Return, WalkInv, Stop, HopFrom
<1>6. CASE UNCHANGED vars
  BY <1>6 DEF vars, WalkInv, Stop, HopFrom
<1> QED
  BY <1>1, <1>2, <1>3, <1>4, <1>5, <1>6 DEF Next

(***************************************************************************)
(* On any graph, for any payment, a route that FindPath returns can be     *)
(* paid as it stands: it leads from src to dst along channels that accept  *)
(* what they are sent, and is nowhere twice.                               *)
(***************************************************************************)
THEOREM RoutesCanBePaid == Spec => []RouteCanBePaid
<1>1. Init => PrevInv /\ WalkInv
  BY DEF Init, PrevInv, WalkInv, Stop
<1>2. IInv /\ PrevInv /\ WalkInv => RouteCanBePaid
  <2> SUFFICES ASSUME IInv, PrevInv, WalkInv, phase = "route" PROVE RouteCanBePaid
    BY DEF RouteCanBePaid
  <2> DEFINE size == Len(hops)
             sender(k) == IF k = 1 THEN payment.src ELSE hops[k - 1].node
             sent(k) == hops[k].forward + hops[k].fee
  <2>1. size \in Nat /\ at = payment.dst /\ at = Stop(size) /\ dist \in [Nodes -> Nat]
    BY DEF WalkInv, IInv, TypeOK
  <2>2. ASSUME NEW k \in 1..size
        PROVE  LET e == graph[hops[k].channel]
               IN  /\ e.from = sender(k) /\ e.to = hops[k].node
                   /\ hops[k].fee = HopFee(e, hops[k].forward)
                   /\ EdgePassesFilters(e, sent(k))
                   /\ hops[k].forward = dist[hops[k].node] /\ sent(k) = dist[sender(k)]
    <3> DEFINE u == Stop(k - 1)
    <3>1. u \in DOMAIN prev /\ hops[k] = HopFrom(u) /\ u = sender(k)
      <4>1. u \in DOMAIN prev /\ hops[k] = HopFrom(u)
        BY <2>2 DEF WalkInv
      <4>2. k - 1 = 0 <=> k = 1
        BY <2>1, <2>2
      <4> QED BY <4>1, <4>2 DEF Stop
    <3> HIDE DEF u
    <3>2. /\ WayFrom(u) /\ u \in Nodes /\ prev[u].node \in Nodes
          /\ prev[u].channel \in DOMAIN graph
      BY <3>1 DEF PrevInv, IInv, TypeOK
    <3>3. dist[u] \in Nat /\ dist[prev[u].node] \in Nat
      BY <2>1, <3>2
    <3>4. HopFee(graph[prev[u].channel], dist[prev[u].node]) \in Int
      <4>1. graph[prev[u].channel] \in Edge
        BY <3>2, RouterAssumption DEF IInv
      <4>2. HopFee(graph[prev[u].channel], dist[prev[u].node]) \in Nat
        BY ONLY <3>3, <4>1, FeeIsNat
      <4> QED BY <4>2
    <3>5. /\ hops[k].forward = dist[prev[u].node] /\ hops[k].fee = dist[u] - dist[prev[u].node]
          /\ hops[k].node = prev[u].node /\ hops[k].channel = prev[u].channel
      BY <3>1 DEF HopFrom
    <3>6. sent(k) = dist[u]
      BY <3>3, <3>5
    <3>7. hops[k].fee = HopFee(graph[hops[k].channel], hops[k].forward)
      BY <3>2, <3>3, <3>4, <3>5 DEF WayFrom, Incoming
    <3> QED BY <3>1, <3>2, <3>5, <3>6, <3>7 DEF WayFrom
  <2>3. ASSUME NEW k \in 1..size, k < size PROVE hops[k].forward = sent(k + 1)
    <3>1. k + 1 \in 1..size /\ sender(k + 1) = hops[k].node
      BY <2>1, <2>3
    <3> HIDE DEF sender, sent
    <3> QED BY <2>2, <3>1
  <2>4. IF size = 0 THEN payment.src = payment.dst
        ELSE hops[size].node = payment.dst /\ hops[size].forward = payment.amount
    <3>1. CASE size = 0
      BY <2>1, <3>1 DEF Stop
    <3>2. CASE size # 0
      <4>1. hops[size].node = payment.dst /\ size \in 1..size
        BY <2>1, <3>2 DEF Stop
      <4>2. hops[size].forward = dist[hops[size].node]
        BY <2>2, <4>1
      <4> QED BY <3>2, <4>1, <4>2 DEF IInv
    <3> QED BY <3>1, <3>2
  <2>5. \A j, k \in 1..size : hops[j].node = hops[k].node => j = k
    BY DEF WalkInv
  <2> HIDE DEF sender, sent, size
  <2>6. \A k \in 1..size :
          LET e == graph[hops[k].channel]
          IN  /\ e.from = sender(k) /\ e.to = hops[k].node
              /\ hops[k].fee = HopFee(e, hops[k].forward)
              /\ EdgePassesFilters(e, sent(k))
              /\ k < size => hops[k].forward = sent(k + 1)
    BY <2>2, <2>3
  <2> QED BY <2>4, <2>5, <2>6 DEF RouteCanBePaid, sender, sent, size
<1> QED
  BY InitIInv, NextIInv, NextPrevInv, NextWalkInv, <1>1, <1>2, PTL DEF Spec

-----------------------------------------------------------------------------
(***************************************************************************)
(* The cost.  A node that is decided, but for src, has made its offers: no *)
(* neighbour needs more than what it would send through that node.         *)
(***************************************************************************)
SpreadInv ==
  /\ \A n \in Decided \ {payment.src} : \A c \in DOMAIN graph :
       LET e == graph[c]
           amount == Incoming(e, dist[n])
       IN  e.to = n /\ EdgePassesFilters(e, amount) => dist[e.from] <= amount
  /\ phase = "search" => payment.src \notin Decided
  /\ phase = "no path" => DOMAIN heap = {} /\ payment.src \notin Decided
  /\ phase \in {"walk", "route"} => payment.src \in Decided

(* Who forwards no less charges no less. *)
LEMMA FeesGrow ==
  ASSUME NEW e \in Edge, NEW a \in Nat, NEW b \in Nat, a <= b
  PROVE  Incoming(e, a) <= Incoming(e, b)
<1>1. e.base \in Nat /\ e.ppm \in Nat
  BY DEF Edge
<1> DEFINE x == a * e.ppm
           y == b * e.ppm
           d == b - a
<1>2. x \in Nat /\ y \in Nat /\ x <= y
  <2>1. d \in Nat /\ b = a + d
    OBVIOUS
  <2>2. d * e.ppm \in Nat /\ x \in Nat
    BY <1>1, <2>1
  <2>3. y = x + d * e.ppm
    BY <1>1, <2>1
  <2> HIDE DEF x, y, d
  <2> QED BY <2>2, <2>3
<1> HIDE DEF x, y
<1>3. x \div 1000000 \in Nat /\ y \div 1000000 \in Nat /\ x \div 1000000 <= y \div 1000000
  BY <1>2
<1>4. HopFee(e, a) = e.base + x \div 1000000 /\ HopFee(e, b) = e.base + y \div 1000000
  BY DEF HopFee, x, y
<1> QED BY <1>1, <1>3, <1>4 DEF Incoming

LEMMA ExpandSpreadInv ==
  ASSUME IInv, SpreadInv, NEW n \in DOMAIN heap, Expand(n) PROVE SpreadInv'
<1> DEFINE better == {u \in Nodes : Offers(n, u) # {}}
           cost(u) == Incoming(graph[Best(n, u)], heap[n].amount)
<1>1. /\ First(n) /\ phase = "search" /\ n # payment.src
      /\ dist' = [u \in Nodes |-> IF u \in better THEN cost(u) ELSE dist[u]]
      /\ DOMAIN prev' = DOMAIN prev \cup better
      /\ DOMAIN heap' = (DOMAIN heap \ {n}) \cup better
      /\ graph' = graph /\ payment' = payment /\ phase' = phase
  BY DEF Expand, Popped
<1>2. n \in Nodes /\ heap[n].amount = dist[n] /\ heap[n].amount \in Nat /\ dist \in [Nodes -> Nat]
      /\ graph \in Graphs
  BY DEF IInv, TypeOK
<1>3. ASSUME NEW u \in better
      PROVE  cost(u) \in Nat /\ cost(u) <= dist[u] /\ u # n /\ u \notin Decided
  BY <1>1, <1>2, OffersAreLater
<1>4. ASSUME NEW u \in Nodes, NEW c \in Offers(n, u)
      PROVE  u \in better /\ cost(u) <= Incoming(graph[c], heap[n].amount)
  BY <1>2, <1>4, BestIsAnOffer
<1> HIDE DEF better, cost
<1>5. dist' \in [Nodes -> Nat] /\ \A u \in Nodes : dist'[u] <= dist[u]
  BY <1>1, <1>2, <1>3
<1>6. \A m \in Decided' : m \in Nodes /\ m \notin better /\ (m = n \/ m \in Decided)
                          /\ dist'[m] = dist[m]
  BY <1>1, <1>3 DEF Decided, Leads
<1>7. ASSUME NEW m \in Decided', m # payment.src, NEW c \in DOMAIN graph, graph[c].to = m,
             EdgePassesFilters(graph[c], Incoming(graph[c], dist[m]))
      PROVE  dist'[graph[c].from] <= Incoming(graph[c], dist[m])
  <2> DEFINE e == graph[c]
             amount == Incoming(e, dist[m])
  <2>1. e \in Edge /\ e.from \in Nodes
    BY <1>2, RouterAssumption DEF Edge
  <2>2. amount \in Nat /\ dist[e.from] \in Nat /\ dist'[e.from] \in Nat
    BY <1>2, <1>5, <1>6, <2>1, FeesAreNotNegative
  <2>3. CASE m = n /\ c \in Offers(n, e.from)
    BY <1>1, <1>2, <1>4, <2>1, <2>3
  <2>4. CASE m = n /\ c \notin Offers(n, e.from)
    <3>1. ~(amount < dist[e.from])
      BY <1>2, <1>7, <2>4 DEF Offers
    <3> HIDE DEF amount
    <3> QED BY <1>5, <2>1, <2>2, <3>1 DEF amount
  <2>5. CASE m \in Decided
    <3>1. dist[e.from] <= amount
      BY <1>7, <2>5 DEF SpreadInv
    <3> HIDE DEF amount, e
    <3>2. dist'[e.from] <= amount
      BY <1>5, <2>1, <2>2, <3>1
    <3> QED BY <3>2 DEF amount, e
  <2> QED BY <1>6, <2>3, <2>4, <2>5
<1>8. \A m \in Decided' \ {payment.src} : \A c \in DOMAIN graph :
        graph[c].to = m /\ EdgePassesFilters(graph[c], Incoming(graph[c], dist'[m]))
          => dist'[graph[c].from] <= Incoming(graph[c], dist'[m])
  BY <1>6, <1>7
<1>9. payment.src \notin Decided'
  BY <1>1, <1>6 DEF SpreadInv
<1> QED BY <1>1, <1>8, <1>9 DEF SpreadInv, EdgePassesFilters, Incoming, HopFee

LEMMA NextSpreadInv == IInv /\ SpreadInv /\ [Next]_vars => SpreadInv'
<1> SUFFICES ASSUME IInv, SpreadInv, [Next]_vars PROVE SpreadInv'
  OBVIOUS
<1>1. ASSUME NEW n \in DOMAIN heap, Expand(n) PROVE SpreadInv'
  BY <1>1, ExpandSpreadInv
<1>2. CASE Found
  <2>1. /\ UNCHANGED <<graph, payment, dist, prev>> /\ phase' = "walk"
        /\ DOMAIN heap' = DOMAIN heap \ {payment.src} /\ payment.src \in DOMAIN heap
    BY <1>2 DEF Found, Popped
  <2>2. Decided' = Decided \cup {payment.src}
    BY <2>1 DEF Decided, Leads, IInv, TypeOK
  <2> QED BY <2>1, <2>2 DEF SpreadInv
<1>3. ASSUME UNCHANGED <<graph, payment, dist, prev, heap>>
      PROVE  Decided' = Decided
  BY <1>3 DEF Decided, Leads
<1>4. CASE ErrNoPath
  BY <1>3, <1>4 DEF ErrNoPath, SpreadInv
<1>5. CASE Walk \/ Return
  BY <1>3, <1>5 DEF Walk, Return, SpreadInv
<1>6. CASE UNCHANGED vars
  BY <1>3, <1>6 DEF vars, SpreadInv
<1> QED BY <1>1, <1>2, <1>4, <1>5, <1>6 DEF Next

(* The ways to pay over one more channel than those in P. *)
Way == [at : Nodes, amount : Nat, seen : SUBSET Nodes]
Extended(p, c) == [at |-> graph[c].from, amount |-> Incoming(graph[c], p.amount),
                   seen |-> p.seen \cup {graph[c].from}]
Fits(p, c) == /\ graph[c].to = p.at /\ graph[c].from \notin p.seen
              /\ EdgePassesFilters(graph[c], Incoming(graph[c], p.amount))
Longer(P) ==
  P \cup {Extended(q[1], q[2]) : q \in {r \in P \X DOMAIN graph : Fits(r[1], r[2])}}
Arrived == [at |-> payment.dst, amount |-> payment.amount, seen |-> {payment.dst}]

LEMMA PartialUnfolds ==
  ASSUME graph \in Graphs, payment \in Payments
  PROVE  /\ Partial[0] = {Arrived}
         /\ \A k \in Nat : Partial[k + 1] = Longer(Partial[k])
         /\ \A k \in Nat : Partial[k] \in SUBSET Way
<1> DEFINE step == [P \in SUBSET Way |-> Longer(P)]
<1>1. {Arrived} \in SUBSET Way
  BY RouterAssumption DEF Arrived, Way
<1>2. step \in [SUBSET Way -> SUBSET Way]
  <2> SUFFICES ASSUME NEW P \in SUBSET Way, NEW p \in P, NEW c \in DOMAIN graph
               PROVE  Extended(p, c) \in Way
    BY DEF Longer
  <2>1. graph[c] \in Edge /\ p.amount \in Nat /\ p.seen \in SUBSET Nodes
    BY RouterAssumption DEF Way
  <2>2. Incoming(graph[c], p.amount) \in Nat /\ graph[c].from \in Nodes
    BY <2>1, FeesAreNotNegative DEF Edge
  <2> QED BY <2>1, <2>2 DEF Extended, Way
<1> DEFINE Sets == SUBSET Way
           start == {Arrived}
<1> HIDE DEF step
<1>3. PICK f \in [Nat -> Sets] : f[0] = start /\ \A k \in Nat : f[k + 1] = step[f[k]]
  <2> HIDE DEF Sets, start
  <2>1. start \in Sets /\ step \in [Sets -> Sets]
    BY <1>1, <1>2 DEF Sets, start
  <2> QED BY <2>1, IterationExists, SMTT(30)
<1>4. f = [k \in Nat |-> IF k = 0 THEN {Arrived} ELSE Longer(f[k - 1])]
  <2>1. ASSUME NEW k \in Nat PROVE f[k] = IF k = 0 THEN {Arrived} ELSE Longer(f[k - 1])
    <3>1. CASE k # 0
      <4>1. k - 1 \in Nat /\ (k - 1) + 1 = k
        BY <3>1
      <4>2. f[(k - 1) + 1] = step[f[k - 1]] /\ f[k - 1] \in SUBSET Way
        BY <1>3, <4>1
      <4> QED BY <3>1, <4>1, <4>2 DEF step
    <3> QED BY <1>3, <3>1
  <2> QED BY <2>1
<1>5. Partial = [k \in Nat |-> IF k = 0 THEN {Arrived} ELSE Longer(Partial[k - 1])]
  BY <1>4 DEF Partial, Longer, Extended, Fits, Arrived
<1>6. Partial[0] = {Arrived} /\ \A k \in Nat : Partial[k + 1] = Longer(Partial[k])
  <2>1. \A k \in Nat : k + 1 \in Nat /\ k + 1 # 0 /\ (k + 1) - 1 = k
    OBVIOUS
  <2> HIDE DEF Longer
  <2> QED BY <1>5, <2>1
<1>7. \A k \in Nat : Partial[k] \in SUBSET Way
  <2> DEFINE N == {k \in Nat : Partial[k] \in SUBSET Way}
  <2>1. 0 \in N
    BY <1>1, <1>6
  <2>2. \A k \in Nat : k \in N => k + 1 \in N
    BY <1>2, <1>6 DEF step
  <2> HIDE DEF N
  <2>3. Nat \subseteq N
    BY <2>1, <2>2, EveryNat
  <2> QED BY <2>3 DEF N
<1> QED BY <1>6, <1>7

(* The search is over, and a node that is to send x is decided and could   *)
(* send no less; or src could send no more than that.                      *)
Ended == phase \in {"no path", "walk", "route"}
Covered(u, x) ==
  \/ payment.src \in Decided /\ dist[payment.src] <= x
  \/ u \in Decided \ {payment.src} /\ dist[u] <= x

LEMMA ReachedIsCovered ==
  ASSUME IInv, SpreadInv, Ended, NEW u \in Nodes, Leads(u), NEW x \in Nat, dist[u] <= x
  PROVE  Covered(u, x)
<1>1. payment.src \in Nodes /\ dist \in [Nodes -> Nat]
  BY RouterAssumption DEF IInv, TypeOK
<1>2. CASE u \in DOMAIN heap
  <2>1. payment.src \in Decided
    BY <1>2 DEF Ended, SpreadInv
  <2>2. dist[payment.src] <= heap[u].amount /\ heap[u].amount = dist[u]
    BY <1>2, <2>1 DEF IInv, TypeOK
  <2> QED BY <1>1, <2>1, <2>2 DEF Covered
<1>3. CASE u \notin DOMAIN heap
  BY <1>3 DEF Decided, Covered
<1> QED BY <1>2, <1>3

(* Who needs no more than p sends can take p's next channel for no more.   *)
LEMMA ExtendedIsCovered ==
  ASSUME IInv, SpreadInv, Ended, \A c \in DOMAIN graph : graph[c].min <= payment.amount,
         NEW p \in Way, Covered(p.at, p.amount), NEW c \in DOMAIN graph, Fits(p, c)
  PROVE  Covered(Extended(p, c).at, Extended(p, c).amount)
<1> DEFINE e == graph[c]
           x == Incoming(e, p.amount)
<1>1. /\ e \in Edge /\ e.from \in Nodes /\ p.amount \in Nat /\ payment.src \in Nodes
      /\ payment.amount \in Nat
      /\ e.min \in Nat /\ e.max \in Nat /\ e.capacity \in Nat
      /\ dist \in [Nodes -> Nat]
  BY RouterAssumption DEF Way, Edge, IInv, TypeOK
<1>2. x \in Nat /\ p.amount <= x /\ Extended(p, c).at = e.from /\ Extended(p, c).amount = x
  BY <1>1, FeesAreNotNegative DEF Extended
<1>3. CASE payment.src \in Decided /\ dist[payment.src] <= p.amount
  <2> HIDE DEF x
  <2>1. dist[payment.src] <= x
    BY <1>1, <1>2, <1>3
  <2> QED BY <1>2, <1>3, <2>1 DEF Covered
<1>4. CASE p.at \in Decided \ {payment.src} /\ dist[p.at] <= p.amount
  <2> DEFINE y == Incoming(e, dist[p.at])
  <2>1. p.at \in Nodes /\ dist[p.at] \in Nat /\ Leads(p.at)
    BY <1>1, <1>4 DEF Decided
  <2>2. y \in Nat /\ dist[p.at] <= y /\ y <= x
    BY <1>1, <1>4, <2>1, FeesAreNotNegative, FeesGrow
  <2>3. e.min <= payment.amount /\ payment.amount <= dist[p.at]
    BY <2>1 DEF IInv
  <2>4. e.to = p.at /\ EdgePassesFilters(e, x)
    BY DEF Fits
  <2> HIDE DEF x, y, e
  <2>5. EdgePassesFilters(e, y)
    <3>1. ~e.disabled /\ x <= e.max /\ x <= e.capacity * 1000
      BY <2>4 DEF EdgePassesFilters
    <3>2. e.min <= y /\ y <= e.max
      BY <1>1, <1>2, <2>1, <2>2, <2>3, <3>1
    <3>3. y <= e.capacity * 1000
      BY <1>1, <1>2, <2>2, <3>1
    <3> QED BY <1>1, <2>2, <3>1, <3>2, <3>3 DEF EdgePassesFilters
  <2>6. dist[e.from] <= y
    BY <1>4, <2>4, <2>5 DEF SpreadInv, e, y
  <2>7. dist[e.from] <= x /\ y < MaxInt64
    <3>1. y <= e.capacity * 1000 /\ e.capacity * 1000 < MaxInt64 /\ MaxInt64 \in Nat
      BY <2>5, CapacityAssumption, RouterAssumption DEF EdgePassesFilters, IInv, e
    <3> QED BY <1>1, <1>2, <2>2, <2>6, <3>1
  <2>8. Leads(e.from)
    <3>1. dist[e.from] < MaxInt64
      BY <1>1, <2>2, <2>6, <2>7, RouterAssumption
    <3> QED BY <1>1, <3>1 DEF IInv
  <2>9. Covered(e.from, x)
    BY <1>1, <1>2, <2>7, <2>8, ReachedIsCovered
  <2> QED BY <1>2, <2>9 DEF e
<1> QED BY <1>3, <1>4 DEF Covered

LEMMA WaysAreCovered ==
  ASSUME IInv, SpreadInv, Ended, \A c \in DOMAIN graph : graph[c].min <= payment.amount
  PROVE  \A k \in Nat : \A p \in Partial[k] : Covered(p.at, p.amount)
<1> DEFINE N == {k \in Nat : \A p \in Partial[k] : Covered(p.at, p.amount)}
<1>1. graph \in Graphs /\ payment \in Payments
  BY DEF IInv
<1>2. 0 \in N
  <2>1. Leads(payment.dst) /\ payment.dst \in Nodes /\ payment.amount \in Nat
        /\ dist[payment.dst] = payment.amount
    BY RouterAssumption DEF Leads, IInv
  <2>2. Covered(payment.dst, payment.amount)
    BY <2>1, ReachedIsCovered
  <2>3. Arrived.at = payment.dst /\ Arrived.amount = payment.amount
    BY DEF Arrived
  <2> QED BY <1>1, <2>2, <2>3, PartialUnfolds
<1>3. ASSUME NEW k \in Nat, k \in N PROVE k + 1 \in N
  <2>1. Partial[k + 1] = Longer(Partial[k]) /\ Partial[k] \in SUBSET Way
    BY <1>1, PartialUnfolds
  <2>2. ASSUME NEW p \in Partial[k + 1] PROVE Covered(p.at, p.amount)
    <3>1. CASE p \in Partial[k]
      BY <1>3, <3>1
    <3>2. ASSUME NEW w \in Partial[k], NEW c \in DOMAIN graph, Fits(w, c), p = Extended(w, c)
          PROVE  Covered(p.at, p.amount)
      BY <1>3, <2>1, <3>2, ExtendedIsCovered
    <3> QED BY <2>1, <2>2, <3>1, <3>2 DEF Longer
  <2> QED BY <2>2
<1> HIDE DEF N
<1>4. Nat \subseteq N
  BY <1>2, <1>3, EveryNat
<1> QED BY <1>4 DEF N

(***************************************************************************)
(* On any graph whose channels accept as little as the payment, the route  *)
(* costs src the least that any way of paying does, and when FindPath      *)
(* reports no path there is no way.                                        *)
(***************************************************************************)
THEOREM RoutesCostLeast == Spec => []LowestCostWithoutMinimum
<1>1. Init => SpreadInv
  <2> SUFFICES ASSUME Init PROVE SpreadInv
    OBVIOUS
  <2>1. Decided = {}
    BY DEF Init, Decided, Leads
  <2> QED BY <2>1 DEF Init, SpreadInv
<1>2. IInv /\ SpreadInv => LowestCostWithoutMinimum
  <2> SUFFICES ASSUME IInv, SpreadInv, \A c \in DOMAIN graph : graph[c].min <= payment.amount
               PROVE  FindsLowestCost
    BY DEF LowestCostWithoutMinimum
  <2> DEFINE k == Cardinality(Nodes) - 1
  <2>1. k \in Nat
    <3>1. Nodes # {} /\ IsFiniteSet(Nodes)
      BY RouterAssumption, CapacityAssumption DEF IInv
    <3>2. Cardinality(Nodes) \in Nat /\ Cardinality(Nodes) # 0
      BY <3>1, FS_CardinalityType, FS_EmptySet
    <3> QED BY <3>2
  <2>2. ASSUME Ended, NEW x \in Costs
        PROVE  payment.src \in Decided /\ dist[payment.src] <= x
    <3>1. PICK p \in Partial[k] : p.at = payment.src /\ p.amount = x
      BY DEF Costs
    <3>2. Covered(p.at, p.amount)
      BY <2>1, <2>2, <3>1, WaysAreCovered
    <3> QED BY <3>1, <3>2 DEF Covered
  <2>3. CASE phase = "no path"
    BY <2>2, <2>3 DEF Ended, SpreadInv, FindsLowestCost
  <2>4. CASE phase = "route"
    BY <2>2, <2>4 DEF Ended, FindsLowestCost
  <2> QED BY <2>3, <2>4 DEF FindsLowestCost
<1> QED
  BY InitIInv, NextIInv, NextSpreadInv, <1>1, <1>2, PTL DEF Spec

-----------------------------------------------------------------------------
(***************************************************************************)
(* Solve: its commands are valid, and the turns left get fewer.            *)
(*                                                                         *)
(* A PICK takes from a stack above its target and a PLACE adds to one      *)
(* below, so what is missing below the targets never grows, and no stack   *)
(* is farther from another than its farther end.                           *)
(***************************************************************************)

SumOf(f) == FoldFunction(+, 0, f)

(* A sum over 0 to n - 1 is what its partial sums come to: the order in    *)
(* which FoldFunction chooses the summands makes no difference.            *)
LEMMA PartialSums ==
  ASSUME NEW n \in Nat, NEW f \in [0..n - 1 -> Int]
  PROVE  \E p \in [0..n -> Int] :
           /\ p[0] = 0 /\ \A k \in 0..n - 1 : p[k + 1] = p[k] + f[k]
           /\ p[n] = SumOf(f)
<1> DEFINE S == 0..n - 1
           One(s) == CHOOSE x \in s : TRUE
           Row(s, h) == IF s = {} THEN 0 ELSE f[One(s)] + h[s \ {One(s)}]
           Small(k) == {s \in SUBSET S : Cardinality(s) <= k}
           iter == CHOOSE h : h = [s \in SUBSET S |-> Row(s, h)]
<1>1. SumOf(f) = iter[S]
  BY DEF SumOf, FoldFunction, FoldFunctionOnSet, MapThenFoldSet
<1>2. ASSUME NEW s \in SUBSET S
      PROVE  /\ IsFiniteSet(s) /\ Cardinality(s) \in Nat
             /\ \A x \in s : /\ s \ {x} \in SUBSET S
                             /\ Cardinality(s \ {x}) = Cardinality(s) - 1
             /\ s = {} <=> Cardinality(s) = 0
  <2>1. IsFiniteSet(S) /\ IsFiniteSet(s)
    <3>1. 0 \in Int /\ n - 1 \in Int
      OBVIOUS
    <3>2. IsFiniteSet(S)
      BY <3>1, FS_Interval
    <3> QED BY <3>2, FS_Subset
  <2>2. Cardinality(s) \in Nat /\ (s = {} <=> Cardinality(s) = 0)
    BY <2>1, FS_CardinalityType, FS_EmptySet
  <2>3. \A x \in s : Cardinality(s \ {x}) = Cardinality(s) - 1
    BY <2>1, FS_RemoveElement
  <2> QED BY <2>1, <2>2, <2>3
<1>3. \A s : s # {} => One(s) \in s
  OBVIOUS
<1> HIDE DEF One
<1>4. \A k \in Nat : \E h : h = [s \in Small(k) |-> Row(s, h)]
  <2> DEFINE N == {k \in Nat : \E h : h = [s \in Small(k) |-> Row(s, h)]}
  <2>1. 0 \in N
    <3> DEFINE h == [s \in Small(0) |-> 0]
    <3>1. \A s \in Small(0) : s = {}
      BY <1>2
    <3>2. h = [s \in Small(0) |-> Row(s, h)]
      BY <3>1
    <3> QED BY <3>2
  <2>2. ASSUME NEW k \in Nat, k \in N PROVE k + 1 \in N
    <3>1. PICK h : h = [s \in Small(k) |-> Row(s, h)]
      BY <2>2
    <3> DEFINE g == [s \in Small(k + 1) |-> Row(s, h)]
    <3>2. ASSUME NEW s \in Small(k + 1), s # {}
          PROVE  s \ {One(s)} \in Small(k) /\ s \ {One(s)} \in Small(k + 1)
      <4>1. One(s) \in s /\ s \in SUBSET S
        BY <1>3, <3>2
      <4>2. Cardinality(s \ {One(s)}) = Cardinality(s) - 1 /\ Cardinality(s) \in Nat
        BY <1>2, <4>1
      <4>3. Cardinality(s) <= k + 1
        OBVIOUS
      <4>4. Cardinality(s \ {One(s)}) <= k /\ Cardinality(s \ {One(s)}) <= k + 1
        BY <4>2, <4>3
      <4>5. s \ {One(s)} \in SUBSET S
        BY <4>1
      <4> QED BY <4>4, <4>5
    <3>3. ASSUME NEW s \in Small(k) PROVE s \in Small(k + 1) /\ g[s] = h[s]
      <4>1. s \in Small(k + 1)
        BY <1>2
      <4>2. h[s] = Row(s, h)
        BY <3>1, <3>3
      <4> HIDE DEF Row, Small
      <4> QED BY <4>1, <4>2
    <3>4. \A s \in Small(k + 1) : g[s] = Row(s, g)
      <4> SUFFICES ASSUME NEW s \in Small(k + 1) PROVE g[s] = Row(s, g)
        OBVIOUS
      <4>1. g[s] = Row(s, h)
        OBVIOUS
      <4>2. s # {} => g[s \ {One(s)}] = h[s \ {One(s)}]
        BY <3>2, <3>3
      <4> HIDE DEF g
      <4> QED BY <4>1, <4>2
    <3>5. g = [s \in Small(k + 1) |-> Row(s, g)]
      <4> HIDE DEF Row, Small
      <4> QED BY <3>4
    <3> HIDE DEF g, Row, Small
    <3> QED BY <3>5
  <2> HIDE DEF N
  <2>3. Nat \subseteq N
    BY <2>1, <2>2, EveryNat
  <2> QED BY <2>3 DEF N
<1>5. \A s \in SUBSET S : iter[s] = Row(s, iter)
  <2>1. Small(n) = SUBSET S
    <3>1. ASSUME NEW s \in SUBSET S PROVE Cardinality(s) <= n
      <4>1. IsFiniteSet(S) /\ Cardinality(S) = n
        <5>1. 0 \in Int /\ n - 1 \in Int
          OBVIOUS
        <5>2. IsFiniteSet(S) /\ Cardinality(S) = IF 0 > n - 1 THEN 0 ELSE (n - 1) - 0 + 1
          BY <5>1, FS_Interval
        <5> QED BY <5>2
      <4>2. Cardinality(s) <= Cardinality(S)
        BY <4>1, FS_Subset
      <4> QED BY <4>1, <4>2
    <3> QED BY <3>1
  <2>2. \E h : h = [s \in SUBSET S |-> Row(s, h)]
    BY <1>4, <2>1
  <2>3. iter = [s \in SUBSET S |-> Row(s, iter)]
    BY <2>2
  <2> HIDE DEF iter, Row
  <2> QED BY <2>3
<1> HIDE DEF iter
<1>6. \A s \in SUBSET S : /\ iter[s] \in Int
                          /\ \A x \in s : iter[s] = f[x] + iter[s \ {x}]
  <2> DEFINE Free(s) == iter[s] \in Int /\ \A x \in s : iter[s] = f[x] + iter[s \ {x}]
             N == {k \in Nat : \A s \in Small(k) : Free(s)}
  <2>0. Free({})
    <3>1. {} \in SUBSET S
      OBVIOUS
    <3>2. iter[{}] = Row({}, iter)
      BY <1>5, <3>1
    <3> QED BY <3>2
  <2>1. 0 \in N
    <3>1. \A s \in Small(0) : s = {}
      BY <1>2
    <3> HIDE DEF Free, Small
    <3> QED BY <2>0, <3>1
  <2>2. ASSUME NEW k \in Nat, k \in N PROVE k + 1 \in N
    <3> SUFFICES ASSUME NEW s \in Small(k + 1), s # {} PROVE Free(s)
      <4> HIDE DEF Free, Small
      <4> QED BY <2>0
    <3> DEFINE y == One(s)
    <3>1. y \in s /\ s \in SUBSET S /\ y \in S /\ iter[s] = f[y] + iter[s \ {y}]
      BY <1>3, <1>5
    <3>2. \A x \in s : s \ {x} \in Small(k)
      BY <1>2
    <3>3. \A x \in s : Free(s \ {x})
      BY <2>2, <3>2
    <3> HIDE DEF y
    <3>4. ASSUME NEW x \in s PROVE iter[s] = f[x] + iter[s \ {x}]
      <4>1. CASE x = y
        BY <3>1, <4>1
      <4>2. CASE x # y
        <5>1. x \in s \ {y} /\ y \in s \ {x} /\ (s \ {x}) \ {y} = (s \ {y}) \ {x}
          BY <3>1, <4>2
        <5> DEFINE rest == (s \ {y}) \ {x}
        <5>2. iter[s \ {y}] = f[x] + iter[rest] /\ iter[s \ {x}] = f[y] + iter[rest]
          BY <3>1, <3>3, <5>1
        <5>3. rest \in Small(k)
          <6>1. s \ {y} \in Small(k)
            BY <3>1, <3>2
          <6>2. /\ s \ {y} \in SUBSET S /\ rest \in SUBSET S /\ Cardinality(s \ {y}) <= k
                /\ Cardinality(rest) = Cardinality(s \ {y}) - 1 /\ Cardinality(s \ {y}) \in Nat
            BY <1>2, <5>1, <6>1
          <6>3. Cardinality(rest) <= k
            BY <6>2
          <6> QED BY <6>2, <6>3
        <5>4. iter[rest] \in Int /\ f[x] \in Int /\ f[y] \in Int
          BY <2>2, <3>1, <5>3
        <5> HIDE DEF rest
        <5> QED BY <3>1, <5>2, <5>4
      <4> QED BY <4>1, <4>2
    <3>5. iter[s] \in Int
      <4>1. f[y] \in Int /\ iter[s \ {y}] \in Int
        BY <3>1, <3>3
      <4> QED BY <3>1, <4>1
    <3> QED BY <3>4, <3>5
  <2> HIDE DEF N
  <2>3. Nat \subseteq N
    BY <2>1, <2>2, EveryNat
  <2>4. \A s \in SUBSET S : \E k \in Nat : s \in Small(k)
    BY <1>2
  <2> QED BY <2>3, <2>4 DEF N
<1> DEFINE p == [k \in 0..n |-> iter[0..k - 1]]
<1>7. p \in [0..n -> Int] /\ p[n] = iter[S]
  <2>1. \A k \in 0..n : 0..k - 1 \in SUBSET S
    OBVIOUS
  <2> QED BY <1>6, <2>1
<1>8. p[0] = 0
  <2>1. 0..0 - 1 = {} /\ {} \in SUBSET S /\ 0 \in 0..n
    OBVIOUS
  <2>2. iter[{}] = 0
    BY <1>5, <2>1
  <2>3. p[0] = iter[0..0 - 1]
    BY <2>1
  <2> QED BY <2>1, <2>2, <2>3
<1>9. ASSUME NEW k \in 0..n - 1 PROVE p[k + 1] = p[k] + f[k]
  <2>1. /\ 0..(k + 1) - 1 \in SUBSET S /\ k \in 0..(k + 1) - 1
        /\ (0..(k + 1) - 1) \ {k} = 0..k - 1 /\ k \in 0..n /\ k + 1 \in 0..n
    OBVIOUS
  <2>2. iter[0..(k + 1) - 1] = f[k] + iter[0..k - 1]
    BY <1>6, <2>1
  <2> QED BY <1>7, <2>1, <2>2
<1> HIDE DEF p
<1> QED BY <1>1, <1>7, <1>8, <1>9

(* A sum is more when its summands are.                                    *)
LEMMA SumOfMore ==
  ASSUME NEW n \in Nat, NEW f \in [0..n - 1 -> Int], NEW g \in [0..n - 1 -> Int],
         \A k \in 0..n - 1 : f[k] <= g[k]
  PROVE  /\ SumOf(f) <= SumOf(g)
         /\ (\E k \in 0..n - 1 : f[k] < g[k]) => SumOf(f) < SumOf(g)
<1>1. PICK p \in [0..n -> Int] : /\ p[0] = 0 /\ \A k \in 0..n - 1 : p[k + 1] = p[k] + f[k]
                                 /\ p[n] = SumOf(f)
  BY PartialSums
<1>2. PICK q \in [0..n -> Int] : /\ q[0] = 0 /\ \A k \in 0..n - 1 : q[k + 1] = q[k] + g[k]
                                 /\ q[n] = SumOf(g)
  BY PartialSums
<1> DEFINE More(k) == p[k] <= q[k] /\ ((\E j \in 0..k - 1 : f[j] < g[j]) => p[k] < q[k])
           N == {k \in Nat : k <= n => More(k)}
<1>3. 0 \in N
  <2>1. 0..0 - 1 = {}
    OBVIOUS
  <2>2. p[0] <= q[0]
    BY <1>1, <1>2
  <2> QED BY <2>1, <2>2
<1>4. ASSUME NEW k \in Nat, k \in N PROVE k + 1 \in N
  <2> SUFFICES ASSUME k + 1 <= n PROVE More(k + 1)
    OBVIOUS
  <2>1. k \in 0..n - 1 /\ k \in 0..n /\ k + 1 \in 0..n /\ 0..(k + 1) - 1 = (0..k - 1) \cup {k}
    OBVIOUS
  <2>2. More(k)
    BY <1>4
  <2>3. /\ p[k + 1] = p[k] + f[k] /\ q[k + 1] = q[k] + g[k] /\ f[k] <= g[k]
        /\ p[k] \in Int /\ q[k] \in Int /\ f[k] \in Int /\ g[k] \in Int
    BY <1>1, <1>2, <2>1
  <2>4. p[k + 1] <= q[k + 1]
    BY <2>2, <2>3
  <2>5. ASSUME NEW j \in 0..(k + 1) - 1, f[j] < g[j] PROVE p[k + 1] < q[k + 1]
    <3>1. CASE j = k
      <4>1. f[k] < g[k] /\ p[k] <= q[k]
        BY <2>2, <2>5, <3>1
      <4> QED BY <2>3, <4>1
    <3>2. CASE j \in 0..k - 1
      <4>1. p[k] < q[k]
        BY <2>2, <2>5, <3>2
      <4> QED BY <2>3, <4>1
    <3> QED BY <2>1, <3>1, <3>2
  <2> QED BY <2>4, <2>5
<1> HIDE DEF N
<1>5. Nat \subseteq N
  BY <1>3, <1>4, EveryNat
<1>6. More(n)
  BY <1>5 DEF N
<1> QED BY <1>1, <1>2, <1>6

(* A sum changes by what one summand changes.                              *)
LEMMA SumWithOneChanged ==
  ASSUME NEW n \in Nat, NEW f \in [0..n - 1 -> Int], NEW g \in [0..n - 1 -> Int],
         NEW d \in 0..n - 1, \A k \in 0..n - 1 : k # d => g[k] = f[k]
  PROVE  SumOf(g) = SumOf(f) + (g[d] - f[d])
<1>1. PICK p \in [0..n -> Int] : /\ p[0] = 0 /\ \A k \in 0..n - 1 : p[k + 1] = p[k] + f[k]
                                 /\ p[n] = SumOf(f)
  BY PartialSums
<1>2. PICK q \in [0..n -> Int] : /\ q[0] = 0 /\ \A k \in 0..n - 1 : q[k + 1] = q[k] + g[k]
                                 /\ q[n] = SumOf(g)
  BY PartialSums
<1> DEFINE Apart(k) == q[k] = p[k] + IF d < k THEN g[d] - f[d] ELSE 0
           N == {k \in Nat : k <= n => Apart(k)}
<1>3. 0 \in N
  <2>1. ~(d < 0) /\ q[0] = p[0] + 0
    BY <1>1, <1>2
  <2> QED BY <2>1
<1>4. ASSUME NEW k \in Nat, k \in N PROVE k + 1 \in N
  <2> SUFFICES ASSUME k + 1 <= n PROVE Apart(k + 1)
    OBVIOUS
  <2>1. k \in 0..n - 1 /\ k \in 0..n /\ k + 1 \in 0..n
    OBVIOUS
  <2>2. Apart(k)
    BY <1>4
  <2>3. /\ p[k + 1] = p[k] + f[k] /\ q[k + 1] = q[k] + g[k] /\ (k # d => g[k] = f[k])
        /\ p[k] \in Int /\ q[k] \in Int /\ f[k] \in Int /\ g[k] \in Int
        /\ f[d] \in Int /\ g[d] \in Int
    BY <1>1, <1>2, <2>1
  <2>4. CASE k = d
    <3>1. q[k] = p[k]
      BY <2>2, <2>3, <2>4
    <3>2. q[k + 1] = p[k + 1] + (g[d] - f[d])
      BY <2>3, <2>4, <3>1
    <3> QED BY <2>4, <3>2
  <2>5. CASE k # d
    <3>1. (d < k + 1) = (d < k)
      BY ONLY <2>5, k \in Nat, d \in Int
    <3>2. g[k] = f[k]
      BY <2>3, <2>5
    <3>3. CASE d < k
      <4>1. q[k] = p[k] + (g[d] - f[d])
        BY <2>2, <3>3
      <4>2. q[k + 1] = p[k + 1] + (g[d] - f[d])
        BY <2>3, <3>2, <4>1, SMTT(30)
      <4> QED BY <3>1, <3>3, <4>2
    <3>4. CASE ~(d < k)
      <4>1. q[k] = p[k] + 0
        BY <2>2, <3>4
      <4>2. q[k + 1] = p[k + 1] + 0
        BY <2>3, <3>2, <4>1
      <4> QED BY <3>1, <3>4, <4>2
    <3> QED BY <3>3, <3>4
  <2> QED BY <2>4, <2>5
<1> HIDE DEF N
<1>5. Nat \subseteq N
  BY <1>3, <1>4, EveryNat
<1>6. Apart(n)
  BY <1>5 DEF N
<1>7. d < n
  OBVIOUS
<1> QED BY <1>1, <1>2, <1>6, <1>7

-----------------------------------------------------------------------------
ArmTypes(n) ==
  /\ boxes \in [0..n - 1 -> Nat] /\ clawPos \in 0..n - 1
  /\ boxInClaw \in BOOLEAN /\ turn \in Nat

(* The targets of all stacks are the boxes of all stacks and the claw.     *)
LEMMA SumOfTargets ==
  ASSUME NEW n \in Nat \ {0}, ArmTypes(n)
  PROVE  /\ Stacks = 0..n - 1 /\ Cardinality(Stacks) = n /\ Total \in Nat
         /\ \A s \in Stacks : TargetHeight(s) \in Nat
         /\ Total = SumOf(boxes) + (IF boxInClaw THEN 1 ELSE 0)
         /\ SumOf(boxes) \in Nat
         /\ SumOf([s \in Stacks |-> TargetHeight(s)]) = Total
<1>1. Stacks = 0..n - 1 /\ IsFiniteSet(Stacks) /\ Cardinality(Stacks) = n
  <2>1. 0 \in Int /\ n - 1 \in Int /\ Stacks = 0..n - 1
    BY DEF ArmTypes, Stacks
  <2>2. IsFiniteSet(0..n - 1)
        /\ Cardinality(0..n - 1) = IF 0 > n - 1 THEN 0 ELSE (n - 1) - 0 + 1
    BY <2>1, FS_Interval
  <2> QED BY <2>1, <2>2
<1>2. SumOf(boxes) \in Nat
  <2> DEFINE none == [s \in 0..n - 1 |-> 0]
  <2>1. /\ none \in [0..n - 1 -> Int] /\ boxes \in [0..n - 1 -> Int]
        /\ \A k \in 0..n - 1 : none[k] <= boxes[k]
    BY DEF ArmTypes
  <2>2. PICK p \in [0..n -> Int] : /\ p[0] = 0 /\ \A k \in 0..n - 1 : p[k + 1] = p[k] + none[k]
                                   /\ p[n] = SumOf(none)
    BY <2>1, PartialSums
  <2> DEFINE N == {k \in Nat : k <= n => p[k] = 0}
  <2>3. 0 \in N
    BY <2>2
  <2>4. ASSUME NEW k \in Nat, k \in N PROVE k + 1 \in N
    <3> SUFFICES ASSUME k + 1 <= n PROVE p[k + 1] = 0
      OBVIOUS
    <3>1. k \in 0..n - 1 /\ p[k] = 0
      BY <2>4
    <3>2. p[k + 1] = p[k] + none[k] /\ none[k] = 0
      BY <2>2, <3>1
    <3> QED BY <3>1, <3>2
  <2> HIDE DEF N
  <2>5. Nat \subseteq N
    BY <2>3, <2>4, EveryNat
  <2>6. SumOf(none) = 0
    <3>1. n \in N /\ n <= n
      BY <2>5
    <3> QED BY <2>2, <3>1 DEF N
  <2>7. SumOf(none) <= SumOf(boxes)
    <3> HIDE DEF none
    <3> QED BY <2>1, SumOfMore
  <2>8. SumOf(boxes) \in Int
    <3>1. PICK b \in [0..n -> Int] : b[n] = SumOf(boxes)
      BY <2>1, PartialSums
    <3>2. n \in 0..n
      OBVIOUS
    <3> QED BY <3>1, <3>2
  <2> HIDE DEF none
  <2> QED BY <2>6, <2>7, <2>8
<1>3. Total \in Nat /\ Total = SumOf(boxes) + (IF boxInClaw THEN 1 ELSE 0)
  <2>1. Total = SumOf(boxes) + (IF boxInClaw THEN 1 ELSE 0)
    BY DEF Total, SumOf
  <2> QED BY <1>2, <2>1
<1> DEFINE q == Total \div n
           r == Total % n
<1> HIDE DEF q, r
<1>4. q \in Nat /\ r \in 0..n - 1 /\ r = Total - n * q
  <2>1. n \in Nat /\ n > 0
    OBVIOUS
  <2> DEFINE t == Total
  <2> HIDE DEF t
  <2>2. t \in Nat
    BY <1>3 DEF t
  <2>3. t \div n \in Nat /\ t % n \in 0..n - 1
    BY <2>1, <2>2
  <2>4. t % n = t - n * (t \div n)
    <3>1. \A m \in Int : 0 < n => m % n = m - n * (m \div n)
      OBVIOUS
    <3> QED BY <2>1, <2>2, <3>1
  <2> QED BY <2>3, <2>4 DEF q, r, t
<1>5. \A s \in Stacks : TargetHeight(s) = q + (IF s < r THEN 1 ELSE 0)
  BY <1>1 DEF TargetHeight, q, r
<1> DEFINE f == [s \in Stacks |-> TargetHeight(s)]
<1>6. \A s \in Stacks : TargetHeight(s) \in Nat
  BY <1>4, <1>5
<1>7. f \in [0..n - 1 -> Int] /\ \A s \in 0..n - 1 : f[s] = q + (IF s < r THEN 1 ELSE 0)
  BY <1>1, <1>5, <1>6
<1> HIDE DEF f
<1>8. PICK p \in [0..n -> Int] : /\ p[0] = 0 /\ \A k \in 0..n - 1 : p[k + 1] = p[k] + f[k]
                                 /\ p[n] = SumOf(f)
  BY <1>7, PartialSums
<1> DEFINE Shared(k) == p[k] = k * q + (IF k < r THEN k ELSE r)
           N == {k \in Nat : k <= n => Shared(k)}
<1>9. 0 \in N
  <2>1. 0 * q = 0 /\ (IF 0 < r THEN 0 ELSE r) = 0
    BY <1>4
  <2>2. p[0] = 0
    BY <1>8
  <2> QED BY <2>1, <2>2
<1>10. ASSUME NEW k \in Nat, k \in N PROVE k + 1 \in N
  <2> SUFFICES ASSUME k + 1 <= n PROVE Shared(k + 1)
    OBVIOUS
  <2>1. k \in 0..n - 1 /\ p[k + 1] = p[k] + f[k] /\ f[k] = q + (IF k < r THEN 1 ELSE 0)
    <3>1. k \in 0..n - 1
      OBVIOUS
    <3> QED BY <1>7, <1>8, <3>1
  <2>2. Shared(k)
    BY <1>10
  <2>3. (k + 1) * q = k * q + q /\ k * q \in Nat
    BY <1>4
  <2> DEFINE a == k * q
             b == (k + 1) * q
  <2>4. /\ b = a + q /\ a \in Nat /\ p[k] = a + IF k < r THEN k ELSE r
        /\ p[k + 1] = p[k] + (q + IF k < r THEN 1 ELSE 0)
    BY <2>1, <2>2, <2>3
  <2> HIDE DEF a, b
  <2>5. p[k + 1] = b + IF k + 1 < r THEN k + 1 ELSE r
    BY <1>4, <2>4, SMTT(30)
  <2> QED BY <2>5 DEF b
<1> HIDE DEF N
<1>11. Nat \subseteq N
  BY <1>9, <1>10, EveryNat
<1>12. Shared(n)
  BY <1>11 DEF N
<1>13. SumOf(f) = Total
  <2>1. ~(n < r) /\ r \in Nat
    BY <1>4
  <2>2. n * q \in Int
    BY <1>4
  <2> DEFINE a == n * q
  <2>3. SumOf(f) = a + r /\ r = Total - a
    BY <1>4, <1>8, <1>12, <2>1
  <2> HIDE DEF a
  <2>4. a \in Int /\ r \in Int
    BY <1>4, <2>2 DEF a
  <2> QED BY <1>3, <2>3, <2>4
<1> QED BY <1>1, <1>2, <1>3, <1>6, <1>13 DEF f

(* A box in the claw has a place to go, for there are as many places as    *)
(* boxes.                                                                  *)
LEMMA PlaceForBox ==
  ASSUME NEW n \in Nat \ {0}, ArmTypes(n), boxInClaw
  PROVE  Dests # {}
<1> SUFFICES ASSUME Dests = {} PROVE FALSE
  OBVIOUS
<1> DEFINE f == [s \in Stacks |-> TargetHeight(s)]
<1>1. /\ Stacks = 0..n - 1 /\ \A s \in Stacks : TargetHeight(s) \in Nat
      /\ SumOf(f) = Total /\ Total = SumOf(boxes) + 1 /\ SumOf(boxes) \in Nat
  BY SumOfTargets
<1>2. boxes \in [0..n - 1 -> Int] /\ f \in [0..n - 1 -> Int]
  BY <1>1 DEF ArmTypes
<1>3. \A s \in 0..n - 1 : f[s] <= boxes[s]
  BY <1>1, <1>2, SMTT(30) DEF Dests, ArmTypes
<1> HIDE DEF f
<1>4. SumOf(f) <= SumOf(boxes)
  BY <1>2, <1>3, SumOfMore
<1> QED BY <1>1, <1>4

(* With no stack above its target and the claw empty none is below.        *)
LEMMA NoSourceLeft ==
  ASSUME NEW n \in Nat \ {0}, ArmTypes(n), ~boxInClaw,
         \A s \in Stacks : boxes[s] <= TargetHeight(s)
  PROVE  \A s \in Stacks : boxes[s] = TargetHeight(s)
<1> SUFFICES ASSUME NEW t \in Stacks, boxes[t] # TargetHeight(t) PROVE FALSE
  OBVIOUS
<1> DEFINE f == [s \in Stacks |-> TargetHeight(s)]
<1>1. /\ Stacks = 0..n - 1 /\ \A s \in Stacks : TargetHeight(s) \in Nat
      /\ SumOf(f) = Total /\ Total = SumOf(boxes) + 0 /\ SumOf(boxes) \in Nat
  BY SumOfTargets
<1>2. boxes \in [0..n - 1 -> Int] /\ f \in [0..n - 1 -> Int]
  BY <1>1 DEF ArmTypes
<1>3. \A s \in 0..n - 1 : boxes[s] <= f[s]
  BY <1>1, <1>2
<1>4. t \in 0..n - 1 /\ boxes[t] < f[t]
  BY <1>1, <1>2, <1>3
<1> HIDE DEF f
<1>5. SumOf(boxes) < SumOf(f)
  BY <1>2, <1>3, <1>4, SumOfMore
<1> QED BY <1>1, <1>5

(* Least chooses one of the stacks it is given.                            *)
LEMMA LeastStack ==
  ASSUME NEW n \in Nat \ {0}, NEW S \in SUBSET (0..n - 1), S # {}
  PROVE  Least(S) \in S
<1>1. S \in SUBSET Nat
  OBVIOUS
<1>2. \E m \in S : \A k \in S : m <= k
  BY <1>1, LeastNat
<1> QED BY <1>2 DEF Least

(* Solve stops only when the boxes are level, and gives no command that    *)
(* the rules forbid.                                                       *)
LEMMA SolveIsValid ==
  ASSUME NEW n \in Nat \ {0}, ArmTypes(n)
  PROVE  Valid(Solve) \/ (Solve = "" /\ IsLeveled /\ ~boxInClaw)
<1>1. Stacks = 0..n - 1 /\ \A s \in Stacks : TargetHeight(s) \in Nat
  BY SumOfTargets
<1>2. ASSUME NEW g \in Stacks, NEW here,
             here = "PLACE" => boxInClaw,
             here = "PICK" => ~boxInClaw /\ (clawPos = g => boxes[clawPos] > 0),
             here \in {"PICK", "PLACE"}
      PROVE  Valid(Toward(g, here))
  <2>1. g \in Int /\ clawPos \in Int /\ 0 <= g /\ g <= n - 1 /\ 0 <= clawPos /\ clawPos <= n - 1
    BY <1>1 DEF ArmTypes
  <2>2. CASE clawPos < g
    <3>1. Toward(g, here) = "RIGHT" /\ clawPos + 1 \in Stacks
      BY <1>1, <2>1, <2>2 DEF Toward
    <3> QED BY <3>1 DEF Valid
  <2>3. CASE clawPos > g
    <3>1. Toward(g, here) = "LEFT" /\ clawPos - 1 \in Stacks
      BY <1>1, <2>1, <2>3 DEF Toward
    <3> QED BY <3>1 DEF Valid
  <2>4. CASE clawPos = g
    <3>1. Toward(g, here) = here
      BY <2>1, <2>4 DEF Toward
    <3> QED BY <1>2, <2>4, <3>1 DEF Valid
  <2> QED BY <2>1, <2>2, <2>3, <2>4
<1>3. CASE boxInClaw
  <2>1. Dests # {} /\ Dests \in SUBSET (0..n - 1)
    BY <1>1, <1>3, PlaceForBox DEF Dests
  <2>2. Least(Dests) \in Stacks
    BY <1>1, <2>1, LeastStack
  <2> QED BY <1>2, <1>3, <2>1, <2>2 DEF Solve
<1>4. CASE ~boxInClaw /\ Sources # {}
  <2>1. Sources \in SUBSET (0..n - 1)
    BY <1>1 DEF Sources
  <2>2. Least(Sources) \in Sources
    BY <1>4, <2>1, LeastStack
  <2>3. Least(Sources) \in Stacks /\ boxes[Least(Sources)] > 0
    BY <1>1, <2>2 DEF Sources, ArmTypes
  <2> QED BY <1>2, <1>4, <2>3 DEF Solve
<1>5. CASE ~boxInClaw /\ Sources = {}
  <2>1. \A s \in Stacks : boxes[s] <= TargetHeight(s)
    <3> SUFFICES ASSUME NEW s \in Stacks PROVE boxes[s] <= TargetHeight(s)
      OBVIOUS
    <3>1. boxes[s] \in Nat /\ TargetHeight(s) \in Nat
      BY <1>1 DEF ArmTypes
    <3>2. ~(boxes[s] > TargetHeight(s))
      BY <1>5 DEF Sources
    <3> QED BY <3>1, <3>2
  <2>2. \A s \in Stacks : boxes[s] = TargetHeight(s)
    BY <1>5, <2>1, NoSourceLeft
  <2>3. Total \in Nat /\ Cardinality(Stacks) = n
    BY SumOfTargets
  <2>4. Total \div n \in Nat /\ Total % n \in Nat
    BY <2>3
  <2>5. \A s, t \in Stacks : s < t => TargetHeight(s) - TargetHeight(t) \in {0, 1}
    <3> DEFINE q == Total \div n
               r == Total % n
    <3>1. \A s \in Stacks : TargetHeight(s) = q + (IF s < r THEN 1 ELSE 0)
      BY <2>3 DEF TargetHeight
    <3>2. q \in Nat /\ r \in Nat
      BY <2>4
    <3> HIDE DEF q, r
    <3> QED BY <1>1, <3>1, <3>2
  <2>6. Solve = ""
    BY <1>5 DEF Solve
  <2> QED BY <1>5, <2>2, <2>5, <2>6 DEF IsLeveled
<1> QED BY <1>3, <1>4, <1>5 DEF ArmTypes

-----------------------------------------------------------------------------
(* What is left to do: for each box that is missing on a stack a way there *)
(* and a way back from it, with a PICK and a PLACE, where no way is longer *)
(* than to the end farther from the stack.                                 *)
FarEnd(n, s) == IF 2 * s < n - 1 THEN n - 1 - s ELSE s
Missing(s) == IF boxes[s] < TargetHeight(s) THEN TargetHeight(s) - boxes[s] ELSE 0
Work(n) == SumOf([s \in 0..n - 1 |-> Missing(s) * (2 * FarEnd(n, s) + 2)])
Away(g) == IF clawPos < g THEN g - clawPos ELSE clawPos - g

TurnsLeft(n) ==
  IF boxInClaw THEN Away(Least(Dests)) + Work(n) - FarEnd(n, Least(Dests)) - 1
  ELSE IF Sources # {} THEN Away(Least(Sources)) + Work(n)
  ELSE 0

(* The commands that change something, and what they change.               *)
Moves(g) ==
  /\ clawPos # g /\ clawPos' = (IF clawPos < g THEN clawPos + 1 ELSE clawPos - 1)
  /\ boxes' = boxes /\ boxInClaw' = boxInClaw
PicksUp(g) ==
  /\ clawPos = g /\ clawPos' = g /\ ~boxInClaw /\ boxInClaw' = TRUE
  /\ boxes' = [boxes EXCEPT ![g] = @ - 1]
PutsDown(g) ==
  /\ clawPos = g /\ clawPos' = g /\ boxInClaw /\ boxInClaw' = FALSE
  /\ boxes' = [boxes EXCEPT ![g] = @ + 1]

(* A step goes nearer to the stack Solve has in mind, or works on it.      *)
LEMMA Commands ==
  ASSUME NEW n \in Nat \ {0}, ArmTypes(n), Execute
  PROVE  /\ turn' = turn + 1
         /\ \/ /\ boxInClaw /\ Least(Dests) \in Dests
               /\ Moves(Least(Dests)) \/ PutsDown(Least(Dests))
            \/ /\ ~boxInClaw /\ Sources # {} /\ Least(Sources) \in Sources
               /\ Moves(Least(Sources)) \/ PicksUp(Least(Sources))
<1>1. Stacks = 0..n - 1 /\ \A s \in Stacks : TargetHeight(s) \in Nat
  BY SumOfTargets
<1>2. turn' = turn + 1 /\ Valid(Solve)
  BY DEF Execute
<1>3. Solve # ""
  BY <1>2 DEF Valid
<1>4. boxes \in [Stacks -> Nat] /\ clawPos \in Stacks
  BY <1>1 DEF ArmTypes
<1>5. ASSUME NEW g \in Stacks, NEW here \in {"PICK", "PLACE"}, Solve = Toward(g, here), clawPos # g
      PROVE  Moves(g)
  <2>1. clawPos \in Int /\ g \in Int
    BY <1>1, <1>4
  <2>2. CASE clawPos < g
    <3>1. Solve = "RIGHT"
      BY <1>5, <2>2 DEF Toward
    <3>2. /\ clawPos' = clawPos + 1 /\ boxInClaw' = boxInClaw
          /\ boxes' = [boxes EXCEPT ![clawPos] = @ + 0]
      BY <3>1 DEF Execute
    <3>3. boxes' = boxes
      BY <1>4, <3>2
    <3> QED BY <1>5, <2>2, <3>2, <3>3 DEF Moves
  <2>3. CASE clawPos > g
    <3>1. Solve = "LEFT"
      BY <1>5, <2>1, <2>3 DEF Toward
    <3>2. /\ clawPos' = clawPos + -1 /\ boxInClaw' = boxInClaw
          /\ boxes' = [boxes EXCEPT ![clawPos] = @ + 0]
      BY <3>1 DEF Execute
    <3>3. boxes' = boxes
      BY <1>4, <3>2
    <3>4. clawPos' = clawPos - 1 /\ ~(clawPos < g)
      BY <2>1, <2>3, <3>2
    <3> QED BY <1>5, <3>2, <3>3, <3>4 DEF Moves
  <2> QED BY <1>5, <2>1, <2>2, <2>3
<1>6. CASE boxInClaw
  <2> DEFINE g == Least(Dests)
  <2>1. Dests # {} /\ Dests \in SUBSET (0..n - 1)
    BY <1>1, <1>6, PlaceForBox DEF Dests
  <2>2. g \in Dests /\ g \in Stacks
    BY <1>1, <2>1, LeastStack
  <2>3. Solve = Toward(g, "PLACE")
    BY <1>6, <2>1 DEF Solve
  <2> HIDE DEF g
  <2>4. CASE clawPos = g
    <3>1. Solve = "PLACE"
      BY <1>1, <1>4, <2>3, <2>4 DEF Toward
    <3>2. clawPos' = clawPos + 0 /\ boxes' = [boxes EXCEPT ![clawPos] = @ + 1] /\ boxInClaw' = FALSE
      BY <3>1 DEF Execute
    <3>3. clawPos' = g
      BY <1>1, <1>4, <2>4, <3>2
    <3> QED BY <1>2, <1>6, <2>2, <2>4, <3>2, <3>3 DEF PutsDown, g
  <2>5. CASE clawPos # g
    BY <1>2, <1>5, <1>6, <2>2, <2>3, <2>5 DEF g
  <2> QED BY <2>4, <2>5
<1>7. CASE ~boxInClaw
  <2> DEFINE g == Least(Sources)
  <2>1. Sources # {} /\ Sources \in SUBSET (0..n - 1)
    BY <1>1, <1>3, <1>7 DEF Solve, Sources
  <2>2. g \in Sources /\ g \in Stacks
    BY <1>1, <2>1, LeastStack
  <2>3. Solve = Toward(g, "PICK")
    BY <1>7, <2>1 DEF Solve
  <2> HIDE DEF g
  <2>4. CASE clawPos = g
    <3>1. Solve = "PICK"
      BY <1>1, <1>4, <2>3, <2>4 DEF Toward
    <3>2. clawPos' = clawPos + 0 /\ boxes' = [boxes EXCEPT ![clawPos] = @ + -1] /\ boxInClaw' = TRUE
      BY <3>1 DEF Execute
    <3>3. clawPos' = g /\ boxes[g] \in Nat
      BY <1>1, <1>4, <2>2, <2>4, <3>2
    <3>4. boxes' = [boxes EXCEPT ![g] = @ - 1]
      BY <1>4, <2>4, <3>2, <3>3
    <3> QED BY <1>2, <1>7, <2>1, <2>2, <2>4, <3>2, <3>3, <3>4 DEF PicksUp, g
  <2>5. CASE clawPos # g
    BY <1>2, <1>5, <1>7, <2>1, <2>2, <2>3, <2>5 DEF g
  <2> QED BY <2>4, <2>5
<1> QED BY <1>6, <1>7

(* No command adds a box or loses one, so every target stays.              *)
LEMMA TargetsStay ==
  ASSUME NEW n \in Nat \ {0}, ArmTypes(n), Execute
  PROVE  /\ ArmTypes(n)' /\ Stacks' = Stacks /\ \A s \in Stacks : TargetHeight(s)' = TargetHeight(s)
<1>1. /\ Stacks = 0..n - 1 /\ SumOf(boxes) \in Nat
      /\ Total = SumOf(boxes) + (IF boxInClaw THEN 1 ELSE 0)
      /\ \A s \in Stacks : TargetHeight(s) \in Nat
  BY SumOfTargets
<1>2. /\ boxes \in [0..n - 1 -> Nat] /\ boxes \in [0..n - 1 -> Int]
      /\ clawPos \in 0..n - 1 /\ turn \in Nat
  BY DEF ArmTypes
<1>3. Total' = SumOf(boxes') + (IF boxInClaw' THEN 1 ELSE 0)
  BY DEF Total, SumOf, FoldFunction, FoldFunctionOnSet, MapThenFoldSet
<1> SUFFICES /\ boxes' \in [0..n - 1 -> Nat] /\ clawPos' \in 0..n - 1 /\ boxInClaw' \in BOOLEAN
             /\ Total' = Total
  <2>1. turn' \in Nat
    BY <1>2, Commands
  <2> QED BY <1>1, <2>1 DEF ArmTypes, Stacks, TargetHeight
<1>4. ASSUME NEW g \in 0..n - 1, Moves(g)
      PROVE  /\ boxes' \in [0..n - 1 -> Nat] /\ clawPos' \in 0..n - 1 /\ boxInClaw' \in BOOLEAN
             /\ Total' = Total
  <2>1. clawPos' \in 0..n - 1
    BY <1>2, <1>4 DEF Moves
  <2>2. boxes' = boxes /\ boxInClaw' = boxInClaw
    BY <1>4 DEF Moves
  <2> QED BY <1>1, <1>2, <1>3, <2>1, <2>2 DEF ArmTypes
<1>5. ASSUME NEW g \in Dests, PutsDown(g)
      PROVE  /\ boxes' \in [0..n - 1 -> Nat] /\ clawPos' \in 0..n - 1 /\ boxInClaw' \in BOOLEAN
             /\ Total' = Total
  <2>1. g \in 0..n - 1 /\ clawPos' = g /\ boxInClaw /\ boxInClaw' = FALSE
        /\ boxes' = [boxes EXCEPT ![g] = @ + 1]
    BY <1>1, <1>5 DEF Dests, PutsDown
  <2>2. boxes' \in [0..n - 1 -> Nat] /\ boxes' \in [0..n - 1 -> Int] /\ boxes'[g] = boxes[g] + 1
        /\ \A k \in 0..n - 1 : k # g => boxes'[k] = boxes[k]
    BY <1>2, <2>1
  <2>3. SumOf(boxes') = SumOf(boxes) + (boxes'[g] - boxes[g])
    BY <1>2, <2>1, <2>2, SumWithOneChanged, ZenonT(30)
  <2>4. SumOf(boxes') = SumOf(boxes) + 1
    BY <1>2, <2>1, <2>2, <2>3
  <2>5. boxInClaw /\ ~boxInClaw'
    BY <2>1
  <2>6. Total' = SumOf(boxes') /\ Total = SumOf(boxes) + 1
    BY <1>1, <1>3, <2>4, <2>5
  <2> QED BY <2>1, <2>2, <2>4, <2>6
<1>6. ASSUME NEW g \in Sources, PicksUp(g)
      PROVE  /\ boxes' \in [0..n - 1 -> Nat] /\ clawPos' \in 0..n - 1 /\ boxInClaw' \in BOOLEAN
             /\ Total' = Total
  <2>1. g \in 0..n - 1 /\ clawPos' = g /\ ~boxInClaw /\ boxInClaw' = TRUE /\ boxes[g] > TargetHeight(g)
        /\ boxes' = [boxes EXCEPT ![g] = @ - 1]
    BY <1>1, <1>6 DEF Sources, PicksUp
  <2>2. boxes[g] - 1 \in Nat
    BY <1>1, <1>2, <2>1
  <2>3. boxes' \in [0..n - 1 -> Nat] /\ boxes' \in [0..n - 1 -> Int] /\ boxes'[g] = boxes[g] - 1
        /\ \A k \in 0..n - 1 : k # g => boxes'[k] = boxes[k]
    BY <1>2, <2>1, <2>2
  <2>4. SumOf(boxes') = SumOf(boxes) + (boxes'[g] - boxes[g])
    BY <1>2, <2>1, <2>3, SumWithOneChanged, ZenonT(30)
  <2>5. SumOf(boxes') = SumOf(boxes) - 1
    BY <1>1, <1>2, <2>1, <2>3, <2>4
  <2> QED BY <1>1, <1>3, <2>1, <2>3, <2>5
<1>7. Dests \subseteq 0..n - 1 /\ Sources \subseteq 0..n - 1
  BY <1>1 DEF Dests, Sources
<1> QED BY <1>4, <1>5, <1>6, <1>7, Commands

LEMMA SumOfOne ==
  ASSUME NEW n \in Nat, NEW d \in 0..n - 1, NEW c \in Int
  PROVE  SumOf([s \in 0..n - 1 |-> IF s = d THEN c ELSE 0]) = c
<1> DEFINE f == [s \in 0..n - 1 |-> IF s = d THEN c ELSE 0]
<1>1. f \in [0..n - 1 -> Int] /\ \A k \in 0..n - 1 : f[k] = IF k = d THEN c ELSE 0
  OBVIOUS
<1> HIDE DEF f
<1>2. PICK p \in [0..n -> Int] : /\ p[0] = 0 /\ \A k \in 0..n - 1 : p[k + 1] = p[k] + f[k]
                                 /\ p[n] = SumOf(f)
  BY <1>1, PartialSums
<1> DEFINE Past(k) == p[k] = IF d < k THEN c ELSE 0
           N == {k \in Nat : k <= n => Past(k)}
<1>3. 0 \in N
  <2>1. ~(d < 0)
    OBVIOUS
  <2> QED BY <1>2, <2>1
<1>4. ASSUME NEW k \in Nat, k \in N PROVE k + 1 \in N
  <2> SUFFICES ASSUME k + 1 <= n PROVE Past(k + 1)
    OBVIOUS
  <2>1. k \in 0..n - 1 /\ Past(k)
    BY <1>4
  <2>2. p[k + 1] = p[k] + (IF k = d THEN c ELSE 0)
    BY <1>1, <1>2, <2>1
  <2> QED BY <2>1, <2>2
<1> HIDE DEF N
<1>5. Nat \subseteq N
  BY <1>3, <1>4, EveryNat
<1>6. Past(n) /\ d < n
  BY <1>5 DEF N
<1> QED BY <1>2, <1>6 DEF f

(* There is the more to do the more is missing, and at least what one box  *)
(* takes where one is missing.                                             *)
LEMMA WorkOfStacks ==
  ASSUME NEW n \in Nat \ {0}, ArmTypes(n)
  PROVE  /\ \A s \in 0..n - 1 : Missing(s) \in Nat /\ FarEnd(n, s) \in 0..n - 1
         /\ [s \in 0..n - 1 |-> Missing(s) * (2 * FarEnd(n, s) + 2)] \in [0..n - 1 -> Int]
         /\ \A s \in 0..n - 1 : Missing(s) * (2 * FarEnd(n, s) + 2) \in Nat
         /\ Work(n) \in Nat
         /\ \A d \in Dests : Work(n) >= 2 * FarEnd(n, d) + 2
<1> DEFINE f == [s \in 0..n - 1 |-> Missing(s) * (2 * FarEnd(n, s) + 2)]
<1>1. Stacks = 0..n - 1 /\ \A s \in Stacks : TargetHeight(s) \in Nat
  BY SumOfTargets
<1>2. ASSUME NEW s \in 0..n - 1
      PROVE  /\ Missing(s) \in Nat /\ FarEnd(n, s) \in 0..n - 1
             /\ Missing(s) * (2 * FarEnd(n, s) + 2) \in Nat
             /\ s \in Dests => 1 <= Missing(s)
  <2>1. TargetHeight(s) \in Nat /\ boxes[s] \in Nat
    BY <1>1 DEF ArmTypes
  <2>2. Missing(s) \in Nat /\ (s \in Dests => 1 <= Missing(s))
    BY <2>1 DEF Missing, Dests
  <2>3. FarEnd(n, s) \in 0..n - 1
    BY DEF FarEnd
  <2>4. \A a, b \in Nat : a * (2 * b + 2) \in Nat
    OBVIOUS
  <2> QED BY <2>2, <2>3, <2>4
<1>3. f \in [0..n - 1 -> Int] /\ \A s \in 0..n - 1 : f[s] = Missing(s) * (2 * FarEnd(n, s) + 2)
  BY <1>2
<1>4. Work(n) = SumOf(f)
  BY DEF Work
<1> HIDE DEF f
<1>5. Work(n) \in Int
  <2>1. PICK p \in [0..n -> Int] : p[n] = SumOf(f)
    BY <1>3, PartialSums
  <2>2. n \in 0..n
    OBVIOUS
  <2> QED BY <1>4, <2>1, <2>2
<1>6. ASSUME NEW d \in 0..n - 1, NEW c \in Int, c <= f[d]
      PROVE  c <= Work(n)
  <2> DEFINE g == [s \in 0..n - 1 |-> IF s = d THEN c ELSE 0]
  <2>1. g \in [0..n - 1 -> Int]
    OBVIOUS
  <2>2. \A s \in 0..n - 1 : g[s] <= f[s]
    <3>1. \A s \in 0..n - 1 : f[s] \in Nat
      BY <1>2, <1>3
    <3> QED BY <1>6, <3>1
  <2>3. SumOf(g) = c
    BY SumOfOne
  <2> HIDE DEF g
  <2>4. SumOf(g) <= SumOf(f)
    BY <1>3, <2>1, <2>2, SumOfMore
  <2> QED BY <1>4, <2>3, <2>4
<1>7. Work(n) \in Nat
  <2>1. 0 \in 0..n - 1 /\ f[0] \in Nat
    BY <1>2, <1>3
  <2>2. 0 <= f[0]
    BY <2>1
  <2>3. 0 <= Work(n)
    BY <1>6, <2>1, <2>2
  <2> QED BY <1>5, <2>3
<1>8. ASSUME NEW d \in Dests PROVE 2 * FarEnd(n, d) + 2 <= Work(n)
  <2>1. d \in 0..n - 1
    BY <1>1 DEF Dests
  <2>2. \A a, b \in Nat : 1 <= a => 2 * b + 2 <= a * (2 * b + 2)
    <3> SUFFICES ASSUME NEW a \in Nat, NEW b \in Nat, 1 <= a PROVE 2 * b + 2 <= a * (2 * b + 2)
      OBVIOUS
    <3> DEFINE e == 2 * b + 2
    <3>1. e \in Nat
      OBVIOUS
    <3> HIDE DEF e
    <3>2. e <= a * e
      <4>1. a - 1 \in Nat /\ a * e = (a - 1) * e + e /\ (a - 1) * e \in Nat /\ a * e \in Int
        BY <3>1
      <4> QED BY <3>1, <4>1
    <3> QED BY <3>2 DEF e
  <2>3. 2 * FarEnd(n, d) + 2 <= f[d] /\ 2 * FarEnd(n, d) + 2 \in Int
    <3>1. Missing(d) \in Nat /\ FarEnd(n, d) \in Nat /\ 1 <= Missing(d)
      BY <1>2, <2>1
    <3>2. f[d] = Missing(d) * (2 * FarEnd(n, d) + 2)
      BY <1>3, <2>1
    <3>3. 2 * FarEnd(n, d) + 2 <= Missing(d) * (2 * FarEnd(n, d) + 2)
      BY <2>2, <3>1
    <3> QED BY <3>1, <3>2, <3>3
  <2> QED BY <1>6, <2>1, <2>3
<1>9. \A d \in Dests : Work(n) >= 2 * FarEnd(n, d) + 2
  <2>1. \A d \in Dests : FarEnd(n, d) \in Nat
    <3>1. \A d \in Dests : d \in 0..n - 1
      BY <1>1 DEF Dests
    <3>2. \A d \in 0..n - 1 : FarEnd(n, d) \in 0..n - 1
      BY <1>2
    <3> QED BY <3>1, <3>2
  <2> QED BY <1>7, <1>8, <2>1
<1> QED BY <1>2, <1>3, <1>7, <1>9 DEF f

(* Going nearer to g takes one turn and one step.                          *)
LEMMA MovesNearer ==
  ASSUME NEW n \in Nat \ {0}, ArmTypes(n), NEW g \in 0..n - 1, Moves(g)
  PROVE  Away(g) \in Nat /\ Away(g)' = Away(g) - 1
<1>1. clawPos \in Int /\ g \in Int
  BY DEF ArmTypes
<1>2. CASE clawPos < g
  <2>1. clawPos' = clawPos + 1
    BY <1>2 DEF Moves
  <2> QED BY <1>1, <1>2, <2>1 DEF Away
<1>3. CASE ~(clawPos < g)
  <2>1. clawPos' = clawPos - 1 /\ clawPos # g
    BY <1>3 DEF Moves
  <2> QED BY <1>1, <1>3, <2>1 DEF Away
<1> QED BY <1>2, <1>3

(* No stack is farther away than its far end.                              *)
LEMMA AwayFromFarEnd ==
  ASSUME NEW n \in Nat \ {0}, NEW g \in 0..n - 1, NEW h \in 0..n - 1
  PROVE  /\ (IF g < h THEN h - g ELSE g - h) \in Nat
         /\ (IF g < h THEN h - g ELSE g - h) <= FarEnd(n, h)
         /\ (IF g < h THEN h - g ELSE g - h) <= FarEnd(n, g)
BY DEF FarEnd

LEMMA StacksToServe ==
  ASSUME NEW n \in Nat \ {0}, ArmTypes(n)
  PROVE  /\ Sources \in SUBSET (0..n - 1) /\ Dests \in SUBSET (0..n - 1)
         /\ Sources # {} => Least(Sources) \in Sources /\ Least(Sources) \in 0..n - 1
         /\ boxInClaw => Least(Dests) \in Dests /\ Least(Dests) \in 0..n - 1
<1>1. Sources \in SUBSET (0..n - 1) /\ Dests \in SUBSET (0..n - 1)
  BY SumOfTargets DEF Sources, Dests
<1>2. boxInClaw => Dests # {}
  BY PlaceForBox
<1> QED BY <1>1, <1>2, LeastStack

(* There is never less than nothing left to do.                            *)
LEMMA TurnsLeftIsNat ==
  ASSUME NEW n \in Nat \ {0}, ArmTypes(n)
  PROVE  TurnsLeft(n) \in Nat
<1>1. \A g \in 0..n - 1 : Away(g) \in Nat
  BY DEF Away, ArmTypes
<1>2. Work(n) \in Nat
  BY WorkOfStacks
<1>3. CASE boxInClaw
  <2> DEFINE d == Least(Dests)
  <2>1. d \in Dests /\ d \in 0..n - 1
    BY <1>3, StacksToServe
  <2> HIDE DEF d
  <2>2. Work(n) >= 2 * FarEnd(n, d) + 2 /\ FarEnd(n, d) \in Nat /\ Away(d) \in Nat
    BY <1>1, <2>1, WorkOfStacks
  <2>3. TurnsLeft(n) = Away(d) + Work(n) - FarEnd(n, d) - 1
    BY <1>3 DEF TurnsLeft, d
  <2> QED BY <1>2, <2>2, <2>3
<1>4. CASE ~boxInClaw /\ Sources # {}
  <2>1. Away(Least(Sources)) \in Nat
    BY <1>1, <1>4, StacksToServe
  <2> QED BY <1>2, <1>4, <2>1 DEF TurnsLeft
<1>5. CASE ~boxInClaw /\ Sources = {}
  BY <1>5 DEF TurnsLeft
<1> QED BY <1>3, <1>4, <1>5 DEF ArmTypes

(* Every command leaves fewer turns.                                       *)
LEMMA TurnsGetFewer ==
  ASSUME NEW n \in Nat \ {0}, ArmTypes(n), Execute, ArmTypes(n)',
         Stacks' = Stacks, \A s \in Stacks : TargetHeight(s)' = TargetHeight(s),
         /\ Sources' \in SUBSET (0..n - 1)
         /\ Sources' # {} => Least(Sources)' \in 0..n - 1
         /\ boxInClaw' => Least(Dests)' \in 0..n - 1
  PROVE  TurnsLeft(n)' <= TurnsLeft(n) - 1
<1>1. Stacks = 0..n - 1 /\ \A s \in Stacks : TargetHeight(s) \in Nat
  BY SumOfTargets
<1>2. Work(n) \in Nat /\ \A s \in 0..n - 1 : FarEnd(n, s) \in 0..n - 1
  BY WorkOfStacks
<1>3. boxes \in [0..n - 1 -> Nat] /\ clawPos \in 0..n - 1 /\ clawPos' \in 0..n - 1
  BY DEF ArmTypes
<1>4. (\A s \in 0..n - 1 : Missing(s)' = Missing(s)) => Work(n)' = Work(n)
  <2> SUFFICES ASSUME \A s \in 0..n - 1 : Missing(s)' = Missing(s) PROVE Work(n)' = Work(n)
    OBVIOUS
  <2>1. [s \in 0..n - 1 |-> Missing(s) * (2 * FarEnd(n, s) + 2)]'
          = [s \in 0..n - 1 |-> Missing(s) * (2 * FarEnd(n, s) + 2)]
    OBVIOUS
  <2>2. Work(n)' = SumOf([s \in 0..n - 1 |-> Missing(s)' * (2 * FarEnd(n, s) + 2)])
    BY DEF Work, SumOf, FoldFunction, FoldFunctionOnSet, MapThenFoldSet, FarEnd
  <2> QED BY <2>1, <2>2 DEF Work
<1>5. ASSUME NEW g \in 0..n - 1, Moves(g)
      PROVE  /\ Away(g) \in Nat /\ Away(g)' = Away(g) - 1 /\ Work(n)' = Work(n)
             /\ Sources' = Sources /\ Dests' = Dests /\ boxInClaw' = boxInClaw
  <2>1. boxes' = boxes /\ boxInClaw' = boxInClaw
    BY <1>5 DEF Moves
  <2>2. \A s \in 0..n - 1 : Missing(s)' = Missing(s)
    BY <1>1, <2>1 DEF Missing
  <2>3. Sources' = Sources /\ Dests' = Dests
    BY <2>1 DEF Sources, Dests
  <2> QED BY <1>4, <1>5, <2>1, <2>2, <2>3, MovesNearer
<1>d. PICK d : d = Least(Dests)
  OBVIOUS
<1>s. PICK s : s = Least(Sources)
  OBVIOUS
<1>6. CASE boxInClaw /\ d \in Dests /\ Moves(d)
  <2>1. d \in 0..n - 1
    BY <1>1, <1>6 DEF Dests
  <2>2. Away(d)' = Away(d) - 1 /\ Work(n)' = Work(n) /\ Dests' = Dests /\ boxInClaw' = boxInClaw
        /\ Away(d) \in Nat
    BY <1>5, <1>6, <2>1
  <2>3. TurnsLeft(n) = Away(d) + Work(n) - FarEnd(n, d) - 1
    BY <1>6, <1>d DEF TurnsLeft
  <2>4. TurnsLeft(n)' = Away(d)' + Work(n)' - FarEnd(n, d) - 1
    <3>1. Least(Dests)' = d
      BY <1>d, <2>2 DEF Least
    <3> QED BY <1>6, <2>2, <3>1 DEF TurnsLeft, Away, FarEnd
  <2>5. FarEnd(n, d) \in Nat
    BY <1>2, <2>1
  <2> QED BY <1>2, <2>2, <2>3, <2>4, <2>5
<1>7. CASE ~boxInClaw /\ Sources # {} /\ s \in Sources /\ Moves(s)
  <2>1. s \in 0..n - 1
    BY <1>1, <1>7 DEF Sources
  <2>2. Away(s)' = Away(s) - 1 /\ Work(n)' = Work(n) /\ Sources' = Sources /\ boxInClaw' = boxInClaw
        /\ Away(s) \in Nat
    BY <1>5, <1>7, <2>1
  <2>3. TurnsLeft(n) = Away(s) + Work(n)
    BY <1>7, <1>s DEF TurnsLeft
  <2>4. TurnsLeft(n)' = Away(s)' + Work(n)'
    <3>1. Least(Sources)' = s
      BY <1>s, <2>2 DEF Least
    <3> QED BY <1>7, <2>2, <3>1 DEF TurnsLeft, Away
  <2> QED BY <1>2, <2>2, <2>3, <2>4
<1>8. CASE boxInClaw /\ d \in Dests /\ PutsDown(d)
  <2>1. d \in 0..n - 1 /\ boxes[d] < TargetHeight(d) /\ boxes[d] \in Nat /\ TargetHeight(d) \in Nat
    BY <1>1, <1>3, <1>8 DEF Dests
  <2>2. /\ clawPos' = d /\ clawPos = d /\ boxInClaw' = FALSE /\ boxes' = [boxes EXCEPT ![d] = @ + 1]
    BY <1>8 DEF PutsDown
  <2>3. Missing(d)' = Missing(d) - 1 /\ \A k \in 0..n - 1 : k # d => Missing(k)' = Missing(k)
    <3>1. boxes'[d] = boxes[d] + 1 /\ \A k \in 0..n - 1 : k # d => boxes'[k] = boxes[k]
      BY <1>3, <2>1, <2>2
    <3>2. TargetHeight(d)' = TargetHeight(d) /\ \A k \in 0..n - 1 : TargetHeight(k)' = TargetHeight(k)
      BY <1>1, <2>1
    <3>3. Missing(d)' = (IF boxes[d] + 1 < TargetHeight(d) THEN TargetHeight(d) - (boxes[d] + 1) ELSE 0)
      BY <3>1, <3>2 DEF Missing
    <3>4. Missing(d) = TargetHeight(d) - boxes[d]
      BY <2>1 DEF Missing
    <3>5. Missing(d)' = Missing(d) - 1
      BY <2>1, <3>3, <3>4
    <3>6. \A k \in 0..n - 1 : k # d => Missing(k)' = Missing(k)
      BY <3>1, <3>2 DEF Missing
    <3> QED BY <3>5, <3>6
  <2>4. Work(n)' = Work(n) - (2 * FarEnd(n, d) + 2)
    <3> DEFINE f == [k \in 0..n - 1 |-> Missing(k) * (2 * FarEnd(n, k) + 2)]
               g == [k \in 0..n - 1 |-> Missing(k)' * (2 * FarEnd(n, k) + 2)]
    <3>1. f \in [0..n - 1 -> Int] /\ Work(n) = SumOf(f)
      BY WorkOfStacks DEF Work
    <3>2. \A k \in 0..n - 1 : k # d => g[k] = f[k]
      BY <2>3
    <3>3. g[d] - f[d] = -(2 * FarEnd(n, d) + 2) /\ g[d] \in Int
      <4>1. \A a, e \in Int : (a - 1) * e - a * e = -e /\ (a - 1) * e \in Int
        OBVIOUS
      <4>2. Missing(d) \in Int /\ 2 * FarEnd(n, d) + 2 \in Int
        BY <1>2, <2>1, WorkOfStacks
      <4>3. f[d] = Missing(d) * (2 * FarEnd(n, d) + 2)
            /\ g[d] = (Missing(d) - 1) * (2 * FarEnd(n, d) + 2)
        BY <2>1, <2>3
      <4> HIDE DEF f, g
      <4> QED BY <4>1, <4>2, <4>3
    <3>4. g \in [0..n - 1 -> Int]
      <4>1. \A k \in 0..n - 1 : g[k] \in Int
        BY <3>1, <3>2, <3>3
      <4> QED BY <4>1
    <3>5. Work(n)' = SumOf(g)
      BY DEF Work, SumOf, FoldFunction, FoldFunctionOnSet, MapThenFoldSet, FarEnd
    <3> HIDE DEF f, g
    <3>6. SumOf(g) = SumOf(f) + (g[d] - f[d])
      BY <2>1, <3>1, <3>2, <3>4, SumWithOneChanged
    <3>7. FarEnd(n, d) \in Nat
      BY <1>2, <2>1
    <3> QED BY <1>2, <3>1, <3>3, <3>5, <3>6, <3>7
  <2>5. TurnsLeft(n) = Away(d) + Work(n) - FarEnd(n, d) - 1 /\ Away(d) = 0
    <3>1. TurnsLeft(n) = Away(d) + Work(n) - FarEnd(n, d) - 1
      BY <1>8, <1>d DEF TurnsLeft
    <3>2. Away(d) = 0
      BY <2>1, <2>2 DEF Away
    <3> QED BY <3>1, <3>2
  <2>6. FarEnd(n, d) \in Nat /\ Work(n) >= 2 * FarEnd(n, d) + 2
    BY <1>2, <1>8, <2>1, WorkOfStacks
  <2>7. CASE Sources' # {}
    <3> DEFINE t == Least(Sources)'
    <3>1. TurnsLeft(n)' = (IF d < t THEN t - d ELSE d - t) + Work(n)'
      BY <2>2, <2>7 DEF TurnsLeft, Away
    <3>2. t \in 0..n - 1
      BY <2>7
    <3> HIDE DEF t
    <3> DEFINE away == IF d < t THEN t - d ELSE d - t
    <3>3. away \in Nat /\ away <= FarEnd(n, d)
      BY <2>1, <3>2, AwayFromFarEnd
    <3> HIDE DEF away
    <3>4. TurnsLeft(n)' = away + Work(n)'
      BY <3>1 DEF away
    <3> QED BY <1>2, <2>4, <2>5, <2>6, <3>3, <3>4
  <2>8. CASE Sources' = {}
    <3>1. TurnsLeft(n)' = 0
      BY <2>2, <2>8 DEF TurnsLeft
    <3> QED BY <1>2, <2>5, <2>6, <3>1
  <2> QED BY <2>7, <2>8
<1>9. CASE ~boxInClaw /\ Sources # {} /\ s \in Sources /\ PicksUp(s)
  <2>1. s \in 0..n - 1 /\ boxes[s] > TargetHeight(s) /\ boxes[s] \in Nat /\ TargetHeight(s) \in Nat
    BY <1>1, <1>3, <1>9 DEF Sources
  <2>2. /\ clawPos' = s /\ clawPos = s /\ boxInClaw' = TRUE /\ boxes' = [boxes EXCEPT ![s] = @ - 1]
    BY <1>9 DEF PicksUp
  <2>3. \A k \in 0..n - 1 : Missing(k)' = Missing(k)
    <3>1. boxes'[s] = boxes[s] - 1 /\ \A k \in 0..n - 1 : k # s => boxes'[k] = boxes[k]
      BY <1>3, <2>1, <2>2
    <3>2. \A k \in 0..n - 1 : TargetHeight(k)' = TargetHeight(k)
      BY <1>1
    <3>3. Missing(s)' = 0 /\ Missing(s) = 0
      BY <2>1, <3>1, <3>2 DEF Missing
    <3>4. \A k \in 0..n - 1 : k # s => Missing(k)' = Missing(k)
      BY <3>1, <3>2 DEF Missing
    <3> QED BY <3>3, <3>4
  <2>4. Work(n)' = Work(n)
    BY <1>4, <2>3
  <2>5. TurnsLeft(n) = Away(s) + Work(n) /\ Away(s) = 0
    <3>1. TurnsLeft(n) = Away(s) + Work(n)
      BY <1>9, <1>s DEF TurnsLeft
    <3>2. Away(s) = 0
      BY <2>1, <2>2 DEF Away
    <3> QED BY <3>1, <3>2
  <2> DEFINE t == Least(Dests)'
  <2>6. TurnsLeft(n)' = (IF s < t THEN t - s ELSE s - t) + Work(n)' - FarEnd(n, t) - 1
    BY <2>2 DEF TurnsLeft, Away, FarEnd
  <2>7. t \in 0..n - 1
    BY <2>2
  <2> HIDE DEF t
  <2> DEFINE away == IF s < t THEN t - s ELSE s - t
  <2>8. away \in Nat /\ away <= FarEnd(n, t) /\ FarEnd(n, t) \in Nat
    <3>1. away \in Nat /\ away <= FarEnd(n, t)
      BY <2>1, <2>7, AwayFromFarEnd
    <3>2. FarEnd(n, t) \in Nat
      BY <1>2, <2>7
    <3> QED BY <3>1, <3>2
  <2> HIDE DEF away
  <2>9. TurnsLeft(n)' = away + Work(n)' - FarEnd(n, t) - 1
    BY <2>6 DEF away
  <2> QED BY <1>2, <2>4, <2>5, <2>8, <2>9
<1> QED BY <1>d, <1>s, <1>6, <1>7, <1>8, <1>9, Commands

LEMMA SumOfMultiple ==
  ASSUME NEW n \in Nat, NEW f \in [0..n - 1 -> Int], NEW c \in Int
  PROVE  SumOf([k \in 0..n - 1 |-> c * f[k]]) = c * SumOf(f)
<1> DEFINE g == [k \in 0..n - 1 |-> c * f[k]]
<1>1. g \in [0..n - 1 -> Int] /\ \A k \in 0..n - 1 : g[k] = c * f[k]
  OBVIOUS
<1> HIDE DEF g
<1>2. PICK p \in [0..n -> Int] : /\ p[0] = 0 /\ \A k \in 0..n - 1 : p[k + 1] = p[k] + f[k]
                                 /\ p[n] = SumOf(f)
  BY PartialSums
<1>3. PICK q \in [0..n -> Int] : /\ q[0] = 0 /\ \A k \in 0..n - 1 : q[k + 1] = q[k] + g[k]
                                 /\ q[n] = SumOf(g)
  BY <1>1, PartialSums
<1> DEFINE N == {k \in Nat : k <= n => q[k] = c * p[k]}
<1>4. 0 \in N
  BY <1>2, <1>3
<1>5. ASSUME NEW k \in Nat, k \in N PROVE k + 1 \in N
  <2> SUFFICES ASSUME k + 1 <= n PROVE q[k + 1] = c * p[k + 1]
    OBVIOUS
  <2>1. k \in 0..n - 1 /\ k \in 0..n /\ q[k] = c * p[k]
    BY <1>5
  <2>2. q[k + 1] = c * p[k] + c * f[k] /\ p[k + 1] = p[k] + f[k] /\ p[k] \in Int /\ f[k] \in Int
    BY <1>1, <1>2, <1>3, <2>1
  <2>3. \A a, b \in Int : c * a + c * b = c * (a + b)
    OBVIOUS
  <2> QED BY <2>2, <2>3
<1> HIDE DEF N
<1>6. Nat \subseteq N
  BY <1>4, <1>5, EveryNat
<1>7. q[n] = c * p[n]
  <2>1. n \in N /\ n <= n
    BY <1>6
  <2> QED BY <2>1 DEF N
<1> QED BY <1>2, <1>3, <1>7 DEF g

(* For the factories of the rules, which have up to eight stacks and       *)
(* sixteen boxes, 200 turns are enough.  A stack has no more boxes missing *)
(* than its target, and one has none missing.                              *)
LEMMA EnoughTurns ==
  ASSUME NEW n \in 2..8, ArmTypes(n), ~boxInClaw, SumOf(boxes) \in 1..16
  PROVE  n - 1 + Work(n) <= 200
<1>1. /\ Stacks = 0..n - 1 /\ Total = SumOf(boxes) /\ Cardinality(Stacks) = n
      /\ \A s \in Stacks : TargetHeight(s) \in Nat
      /\ SumOf([s \in Stacks |-> TargetHeight(s)]) = Total
  <2>1. n \in Nat \ {0} /\ ArmTypes(n)
    OBVIOUS
  <2> QED BY <2>1, SumOfTargets
<1>2. Total \in 1..16
  BY <1>1
<1> DEFINE t == [s \in 0..n - 1 |-> TargetHeight(s)]
           m == [s \in 0..n - 1 |-> Missing(s)]
           f == [s \in 0..n - 1 |-> Missing(s) * (2 * FarEnd(n, s) + 2)]
<1>3. /\ \A s \in 0..n - 1 : Missing(s) \in Nat /\ FarEnd(n, s) \in 0..n - 1
      /\ f \in [0..n - 1 -> Int] /\ Work(n) = SumOf(f)
  <2>1. n \in Nat \ {0} /\ ArmTypes(n)
    OBVIOUS
  <2> QED BY <2>1, WorkOfStacks DEF Work
<1>4. /\ t \in [0..n - 1 -> Int] /\ SumOf(t) = Total
      /\ \A s \in 0..n - 1 : t[s] \in Nat /\ m[s] \in Nat /\ m[s] <= t[s]
  <2>1. \A s \in 0..n - 1 : TargetHeight(s) \in Nat /\ boxes[s] \in Nat
    BY <1>1 DEF ArmTypes
  <2>2. \A s \in 0..n - 1 : Missing(s) <= TargetHeight(s)
    BY <2>1 DEF Missing
  <2>3. \A s \in 0..n - 1 : t[s] = TargetHeight(s) /\ m[s] = Missing(s)
    OBVIOUS
  <2>4. t \in [0..n - 1 -> Int] /\ SumOf(t) = Total
    BY <1>1, <2>1
  <2> HIDE DEF t, m
  <2> QED BY <1>3, <2>1, <2>2, <2>3, <2>4
<1>5. \A s \in 0..n - 1 : t[s] = Total \div n + (IF s < Total % n THEN 1 ELSE 0)
  BY <1>1 DEF TargetHeight
<1>6. \A s \in 0..n - 1 : f[s] = m[s] * (2 * FarEnd(n, s) + 2)
  OBVIOUS
<1>7. \E z \in 0..n - 1 : m[z] = 0
  <2> SUFFICES ASSUME \A z \in 0..n - 1 : m[z] # 0 PROVE FALSE
    OBVIOUS
  <2>1. \A s \in 0..n - 1 : boxes[s] < t[s]
    BY DEF Missing
  <2>2. boxes \in [0..n - 1 -> Int] /\ 0 \in 0..n - 1 /\ boxes[0] \in Nat /\ t[0] \in Nat
        /\ \A s \in 0..n - 1 : boxes[s] \in Nat /\ t[s] \in Nat
    BY <1>4 DEF ArmTypes
  <2>3. \A s \in 0..n - 1 : boxes[s] <= t[s]
    BY <2>1, <2>2
  <2> HIDE DEF t, m
  <2>4. SumOf(boxes) < SumOf(t)
    BY <1>4, <2>1, <2>2, <2>3, SumOfMore, SMTT(30)
  <2> QED BY <1>1, <1>2, <1>4, <2>4
<1> HIDE DEF t, m, f
<1>8. PICK p \in [0..n -> Int] : /\ p[0] = 0 /\ \A k \in 0..n - 1 : p[k + 1] = p[k] + f[k]
                                 /\ p[n] = SumOf(f)
  <2>1. n \in Nat
    OBVIOUS
  <2> QED BY <1>3, <2>1, PartialSums
<1>9. CASE n <= 6
  <2> DEFINE g == [k \in 0..n - 1 |-> (2 * n) * t[k]]
  <2>1. g \in [0..n - 1 -> Int] /\ \A s \in 0..n - 1 : f[s] <= g[s]
    <3> SUFFICES ASSUME NEW s \in 0..n - 1 PROVE g[s] \in Int /\ f[s] <= g[s]
      OBVIOUS
    <3> DEFINE w == 2 * FarEnd(n, s) + 2
    <3>1. w \in Nat /\ w <= 2 * n /\ 2 * n \in Nat
      <4>1. FarEnd(n, s) \in Nat /\ FarEnd(n, s) <= n - 1 /\ n \in Nat
        <5>1. FarEnd(n, s) \in 0..n - 1
          BY <1>3
        <5> QED BY <5>1
      <4> QED BY <4>1
    <3>2. m[s] \in Nat /\ t[s] \in Nat /\ m[s] <= t[s] /\ f[s] = m[s] * w /\ g[s] = (2 * n) * t[s]
      BY <1>4, <1>6
    <3>3. \A a, b, c, e \in Nat : a <= b /\ c <= e => a * c <= e * b
      <4> SUFFICES ASSUME NEW a \in Nat, NEW b \in Nat, NEW c \in Nat, NEW e \in Nat, a <= b, c <= e
                   PROVE  a * c <= e * b
        OBVIOUS
      <4>1. b - a \in Nat /\ e - c \in Nat
        OBVIOUS
      <4>2. a * c <= a * e
        <5>1. a * (e - c) \in Nat /\ a * e = a * c + a * (e - c) /\ a * c \in Int
          BY <4>1
        <5> QED BY <5>1
      <4>3. a * e <= e * b
        <5>1. e * (b - a) \in Nat /\ e * b = a * e + e * (b - a) /\ a * e \in Int
          BY <4>1
        <5> QED BY <5>1
      <4>4. a * c \in Int /\ a * e \in Int /\ e * b \in Int
        OBVIOUS
      <4> QED BY <4>2, <4>3, <4>4
    <3>4. g[s] \in Int
      BY <3>2
    <3> HIDE DEF w, g
    <3> QED BY <3>1, <3>2, <3>3, <3>4
  <2>2. SumOf(g) = (2 * n) * Total
    BY <1>4, SumOfMultiple, SMTT(30)
  <2> HIDE DEF g
  <2>3. Work(n) <= (2 * n) * Total
    <3>1. n \in Nat
      OBVIOUS
    <3> QED BY <1>3, <2>1, <2>2, <3>1, SumOfMore
  <2>4. Work(n) \in Int
    BY <1>3, <1>8
  <2>5. (2 * n) * Total <= 12 * 16 /\ (2 * n) * Total \in Int
    <3>1. n \in {2, 3, 4, 5, 6}
      BY <1>9
    <3> QED BY <1>2, <3>1
  <2> QED BY <1>9, <2>3, <2>4, <2>5
<1>10. CASE n = 7
  <2>1. /\ p[1] = p[0] + f[0] /\ p[2] = p[1] + f[1] /\ p[3] = p[2] + f[2] /\ p[4] = p[3] + f[3]
        /\ p[5] = p[4] + f[4] /\ p[6] = p[5] + f[5] /\ p[7] = p[6] + f[6]
    BY <1>8, <1>10
  <2>2. /\ f[0] = m[0] * 14 /\ f[1] = m[1] * 12 /\ f[2] = m[2] * 10 /\ f[3] = m[3] * 8
        /\ f[4] = m[4] * 10 /\ f[5] = m[5] * 12 /\ f[6] = m[6] * 14
    BY <1>6, <1>10 DEF FarEnd
  <2>3. \A s \in 0..6 : m[s] \in 0..3 /\ (s >= 2 => m[s] \in 0..2)
    <3>1. \A s \in 0..6 : m[s] \in Nat /\ t[s] \in Nat /\ m[s] <= t[s]
                           /\ t[s] = Total \div 7 + (IF s < Total % 7 THEN 1 ELSE 0)
      BY <1>4, <1>5, <1>10
    <3>2. Total \div 7 \in 0..2 /\ Total % 7 \in 0..6 /\ (Total \div 7 = 2 => Total % 7 \in 0..2)
      BY <1>2
    <3> SUFFICES ASSUME NEW s \in 0..6 PROVE m[s] \in 0..3 /\ (s >= 2 => m[s] \in 0..2)
      OBVIOUS
    <3> DEFINE q == Total \div 7
               u == Total % 7
    <3>3. /\ q \in 0..2 /\ u \in 0..6 /\ (q = 2 => u \in 0..2)
          /\ m[s] \in Nat /\ m[s] <= q + (IF s < u THEN 1 ELSE 0)
      BY <3>1, <3>2
    <3> HIDE DEF q, u
    <3> QED BY <3>3
  <2>4. /\ m[0] \in 0..3 /\ m[1] \in 0..3 /\ m[2] \in 0..2 /\ m[3] \in 0..2 /\ m[4] \in 0..2
        /\ m[5] \in 0..2 /\ m[6] \in 0..2
    <3>1. /\ 0 \in 0..6 /\ 1 \in 0..6 /\ 2 \in 0..6 /\ 3 \in 0..6 /\ 4 \in 0..6 /\ 5 \in 0..6
          /\ 6 \in 0..6
      OBVIOUS
    <3> QED BY <2>3, <3>1
  <2>5. p[7] <= 190
    <3>1. p[7] = 0 + m[0] * 14 + m[1] * 12 + m[2] * 10 + m[3] * 8 + m[4] * 10 + m[5] * 12 + m[6] * 14
      BY <1>8, <2>1, <2>2
    <3>2. 0 + m[0] * 14 + m[1] * 12 + m[2] * 10 + m[3] * 8 + m[4] * 10 + m[5] * 12 + m[6] * 14 <= 190
      <4> DEFINE m0 == m[0]
                 m1 == m[1]
                 m2 == m[2]
                 m3 == m[3]
                 m4 == m[4]
                 m5 == m[5]
                 m6 == m[6]
      <4>1. /\ m0 \in 0..3 /\ m1 \in 0..3 /\ m2 \in 0..2 /\ m3 \in 0..2
            /\ m4 \in 0..2 /\ m5 \in 0..2 /\ m6 \in 0..2
        BY <2>4
      <4> HIDE DEF m0, m1, m2, m3, m4, m5, m6
      <4>3. 0 + m0 * 14 + m1 * 12 + m2 * 10 + m3 * 8 + m4 * 10 + m5 * 12 + m6 * 14 <= 190
        BY ONLY <4>1
      <4> QED BY <4>3 DEF m0, m1, m2, m3, m4, m5, m6
    <3> QED BY <3>1, <3>2
  <2>6. p[7] \in Int
    BY <1>8, <1>10
  <2> QED BY <1>3, <1>8, <1>10, <2>5, <2>6
<1>11. CASE n = 8
  <2>1. /\ p[1] = p[0] + f[0] /\ p[2] = p[1] + f[1] /\ p[3] = p[2] + f[2] /\ p[4] = p[3] + f[3]
        /\ p[5] = p[4] + f[4] /\ p[6] = p[5] + f[5] /\ p[7] = p[6] + f[6] /\ p[8] = p[7] + f[7]
    BY <1>8, <1>11
  <2>2. /\ f[0] = m[0] * 16 /\ f[1] = m[1] * 14 /\ f[2] = m[2] * 12 /\ f[3] = m[3] * 10
        /\ f[4] = m[4] * 10 /\ f[5] = m[5] * 12 /\ f[6] = m[6] * 14 /\ f[7] = m[7] * 16
    BY <1>6, <1>11 DEF FarEnd
  <2>3. \A s \in 0..7 : m[s] \in 0..2
    BY <1>2, <1>4, <1>5, <1>11
  <2>4. /\ m[0] \in 0..2 /\ m[1] \in 0..2 /\ m[2] \in 0..2 /\ m[3] \in 0..2 /\ m[4] \in 0..2
        /\ m[5] \in 0..2 /\ m[6] \in 0..2 /\ m[7] \in 0..2
    <3>1. /\ 0 \in 0..7 /\ 1 \in 0..7 /\ 2 \in 0..7 /\ 3 \in 0..7 /\ 4 \in 0..7 /\ 5 \in 0..7
          /\ 6 \in 0..7 /\ 7 \in 0..7
      OBVIOUS
    <3> QED BY <2>3, <3>1
  <2>5. \/ m[0] = 0 \/ m[1] = 0 \/ m[2] = 0 \/ m[3] = 0 \/ m[4] = 0 \/ m[5] = 0 \/ m[6] = 0 \/ m[7] = 0
    BY <1>7, <1>11
  <2>6. p[8] <= 190
    <3>1. p[8] = 0 + m[0] * 16 + m[1] * 14 + m[2] * 12 + m[3] * 10
                   + m[4] * 10 + m[5] * 12 + m[6] * 14 + m[7] * 16
      BY <1>8, <2>1, <2>2
    <3>2. 0 + m[0] * 16 + m[1] * 14 + m[2] * 12 + m[3] * 10
            + m[4] * 10 + m[5] * 12 + m[6] * 14 + m[7] * 16 <= 190
      <4> DEFINE m0 == m[0]
                 m1 == m[1]
                 m2 == m[2]
                 m3 == m[3]
                 m4 == m[4]
                 m5 == m[5]
                 m6 == m[6]
                 m7 == m[7]
      <4>1. /\ m0 \in 0..2 /\ m1 \in 0..2 /\ m2 \in 0..2 /\ m3 \in 0..2
            /\ m4 \in 0..2 /\ m5 \in 0..2 /\ m6 \in 0..2 /\ m7 \in 0..2
        BY <2>4
      <4>2. m0 = 0 \/ m1 = 0 \/ m2 = 0 \/ m3 = 0 \/ m4 = 0 \/ m5 = 0 \/ m6 = 0 \/ m7 = 0
        BY <2>5
      <4> HIDE DEF m0, m1, m2, m3, m4, m5, m6, m7
      <4>3. 0 + m0 * 16 + m1 * 14 + m2 * 12 + m3 * 10 + m4 * 10 + m5 * 12 + m6 * 14 + m7 * 16 <= 190
        BY ONLY <4>1, <4>2
      <4> QED BY <4>3 DEF m0, m1, m2, m3, m4, m5, m6, m7
    <3> QED BY <3>1, <3>2
  <2>7. p[8] \in Int
    BY <1>8, <1>11
  <2> QED BY <1>3, <1>8, <1>11, <2>6, <2>7
<1> QED BY <1>9, <1>10, <1>11

-----------------------------------------------------------------------------
ArmInv == \E n \in Nat \ {0} : ArmTypes(n) /\ turn + TurnsLeft(n) <= 200

(***************************************************************************)
(* Solve wins every factory of the rules (WinsInTime): it gives no invalid *)
(* command, stops only when the boxes are level, and does so within 200    *)
(* turns, wherever the claw starts.                                        *)
(***************************************************************************)
THEOREM SolveWins == ASSUME ArmAssumption PROVE ArmSpec => []WinsInTime
<1>1. ArmInit => ArmInv
  <2> SUFFICES ASSUME ArmInit PROVE ArmInv
    OBVIOUS
  <2>1. boxes \in Factories /\ clawPos \in Stacks /\ boxInClaw = FALSE /\ turn = 0
    BY DEF ArmInit
  <2>2. PICK n \in 2..8 : boxes \in [0..n - 1 -> Nat]
    BY <2>1, ArmAssumption DEF ArmAssumption
  <2>3. FoldFunction(+, 0, boxes) \in 1..16
    BY <2>1, ArmAssumption DEF ArmAssumption
  <2>4. ArmTypes(n) /\ n \in Nat \ {0}
    <3>1. Stacks = 0..n - 1 /\ n \in Nat \ {0} /\ turn \in Nat
      BY <2>1, <2>2 DEF Stacks
    <3> QED BY <2>1, <2>2, <3>1 DEF ArmTypes
  <2>5. n - 1 + Work(n) <= 200
    BY <2>1, <2>3, <2>4, EnoughTurns DEF SumOf
  <2>6. Work(n) \in Nat
    BY <2>4, WorkOfStacks
  <2>7. TurnsLeft(n) <= n - 1 + Work(n) /\ TurnsLeft(n) \in Nat
    <3>1. CASE Sources # {}
      <4>1. Least(Sources) \in 0..n - 1
        BY <2>4, <3>1, StacksToServe
      <4> DEFINE s == Least(Sources)
      <4>2. Away(s) \in Nat /\ Away(s) <= n - 1
        BY <2>4, <4>1 DEF Away, ArmTypes
      <4>3. TurnsLeft(n) = Away(s) + Work(n)
        BY <2>1, <3>1 DEF TurnsLeft
      <4> HIDE DEF s
      <4> QED BY <2>6, <4>2, <4>3
    <3>2. CASE Sources = {}
      <4>1. TurnsLeft(n) = 0
        BY <2>1, <3>2 DEF TurnsLeft
      <4> QED BY <2>4, <2>6, <4>1
    <3> QED BY <3>1, <3>2
  <2>8. turn + TurnsLeft(n) <= 200
    BY <2>1, <2>4, <2>5, <2>6, <2>7
  <2> QED BY <2>4, <2>8 DEF ArmInv
<1>2. ArmInv /\ [Execute]_armVars => ArmInv'
  <2> SUFFICES ASSUME NEW n \in Nat \ {0}, ArmTypes(n), turn + TurnsLeft(n) <= 200,
                      [Execute]_armVars
               PROVE  ArmTypes(n)' /\ (turn + TurnsLeft(n) <= 200)'
    BY DEF ArmInv
  <2>1. TurnsLeft(n) \in Nat /\ turn \in Nat
    BY TurnsLeftIsNat DEF ArmTypes
  <2>2. CASE Execute
    <3>1. ArmTypes(n)' /\ Stacks' = Stacks /\ \A s \in Stacks : TargetHeight(s)' = TargetHeight(s)
      BY <2>2, TargetsStay
    <3>2. /\ Sources' \in SUBSET (0..n - 1)
          /\ Sources' # {} => Least(Sources)' \in 0..n - 1
          /\ boxInClaw' => Least(Dests)' \in 0..n - 1
      <4>1. (ArmTypes(n) => /\ Sources \in SUBSET (0..n - 1)
                            /\ Sources # {} => Least(Sources) \in 0..n - 1
                            /\ boxInClaw => Least(Dests) \in 0..n - 1)'
        BY StacksToServe, PTL
      <4> QED BY <3>1, <4>1
    <3>3. TurnsLeft(n)' <= TurnsLeft(n) - 1
      BY <2>2, <3>1, <3>2, TurnsGetFewer
    <3>4. turn' = turn + 1
      BY <2>2, Commands
    <3>5. (ArmTypes(n) => TurnsLeft(n) \in Nat)'
      BY TurnsLeftIsNat, PTL
    <3>6. TurnsLeft(n)' \in Nat
      BY <3>1, <3>5
    <3> QED BY <2>1, <3>1, <3>3, <3>4, <3>6
  <2>3. CASE UNCHANGED armVars
    <3>1. boxes' = boxes /\ clawPos' = clawPos /\ boxInClaw' = boxInClaw /\ turn' = turn
      BY <2>3 DEF armVars
    <3>2. Total' = Total /\ Stacks' = Stacks
      BY <3>1 DEF Total, FoldFunction, FoldFunctionOnSet, MapThenFoldSet, Stacks
    <3>3. \A s : TargetHeight(s)' = TargetHeight(s)
      BY <3>2 DEF TargetHeight
    <3>4. Sources' = Sources /\ Dests' = Dests /\ \A s : Missing(s)' = Missing(s)
      BY <3>1, <3>2, <3>3 DEF Sources, Dests, Missing
    <3>5. Work(n)' = SumOf([s \in 0..n - 1 |-> Missing(s)' * (2 * FarEnd(n, s) + 2)])
      BY DEF Work, SumOf, FoldFunction, FoldFunctionOnSet, MapThenFoldSet, FarEnd
    <3>6. [s \in 0..n - 1 |-> Missing(s)' * (2 * FarEnd(n, s) + 2)]
            = [s \in 0..n - 1 |-> Missing(s) * (2 * FarEnd(n, s) + 2)]
      BY <3>4
    <3>7. Work(n)' = Work(n)
      BY <3>5, <3>6 DEF Work
    <3>8. TurnsLeft(n)' = TurnsLeft(n)
      BY <3>1, <3>4, <3>7 DEF TurnsLeft, Away, FarEnd, Least
    <3>9. ArmTypes(n)'
      BY <3>1 DEF ArmTypes
    <3> QED BY <3>1, <3>8, <3>9
  <2> QED BY <2>2, <2>3
<1>3. ArmInv => WinsInTime
  <2> SUFFICES ASSUME NEW n \in Nat \ {0}, ArmTypes(n), turn + TurnsLeft(n) <= 200
               PROVE  WinsInTime
    BY DEF ArmInv
  <2>1. TurnsLeft(n) \in Nat /\ turn \in Nat
    BY TurnsLeftIsNat DEF ArmTypes
  <2>2. turn <= 200
    BY <2>1
  <2> QED BY <2>2, SolveIsValid DEF WinsInTime
<1> QED BY <1>1, <1>2, <1>3, PTL DEF ArmSpec
=============================================================================
