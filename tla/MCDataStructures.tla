-------------------------- MODULE MCDataStructures --------------------------
(***************************************************************************)
(* One instance of every structure that stands alone: the containers of    *)
(* data-structures/ and the buffer, the routing table and the arm of       *)
(* practice/.  They share nothing, so a behaviour is one of a single       *)
(* structure, named by part; the others stay as they are made.  The heap,  *)
(* the cache, the buffer, the routing table and the trie, which have       *)
(* proofs, are extended, so that the run checks what the theorems name.    *)
(***************************************************************************)
EXTENDS BinaryHeap, LRUCache, MetricsBuffer, RoutingTable, Trie, RoboticLeveling

VARIABLES
  part,
  root, found,                                           (* SearchTree       *)
  val, next, l1, l2, call                                (* LinkedList       *)

Tree == INSTANCE SearchTree WITH Values <- 1..5, answer <- found

(* Words over, under and beside each other; u takes two bytes. *)
MCWords == {<<>>, <<"a">>, <<"a", "b">>, <<"a", "b", "c">>, <<"a", "d">>, <<"b">>, <<"a", "u">>}

Lists == INSTANCE LinkedList WITH Size <- 4, Vals <- {1, 2}

(* Routes longer than the addresses. *)
MCFar == {<<0, 0, 0>>, <<1, 0, 0, 0, 0, 0, 0>>}

(* Two or three stacks of up to five boxes, and sixteen boxes on one of    *)
(* eight stacks, the most there may be.                                    *)
Few == {f \in UNION {[0..(n - 1) -> 0..5] : n \in 2..3} : \E s \in DOMAIN f : f[s] > 0}
Most == {[s \in 0..7 |-> IF s = k THEN 16 ELSE 0] : k \in 0..7}
MCFactories == Few \cup Most

ASSUME Assumptions == CacheAssumption /\ BufferAssumption /\ ArmAssumption

treeVars == <<root, found>>
listVars == <<val, next, l1, l2, call>>

MCInit ==
  /\ part \in {"heap", "tree", "trie", "lists", "cache", "ring", "table", "arm"}
  /\ Init /\ (part # "heap" => isMin)
  /\ Tree!Init /\ TrieInit /\ RouteInit
  /\ Lists!ListInit /\ (part # "lists" => l1 = 0 /\ l2 = 0 /\ \A n \in 1..4 : val[n] = 1)
  /\ CacheInit /\ (part # "cache" => capacity = 1)
  /\ RingInit /\ (part # "ring" => size = 1)
  /\ ArmInit /\ (part # "arm" => clawPos = 0 /\ boxes = [s \in 0..1 |-> 1])

(* The variables of every part but the one that takes the step. *)
Only(p) ==
  /\ part = p /\ UNCHANGED part
  /\ p # "heap" => UNCHANGED vars
  /\ p # "tree" => UNCHANGED treeVars
  /\ p # "trie" => UNCHANGED trieVars
  /\ p # "lists" => UNCHANGED listVars
  /\ p # "cache" => UNCHANGED cacheVars
  /\ p # "ring" => UNCHANGED ringVars
  /\ p # "table" => UNCHANGED routeVars
  /\ p # "arm" => UNCHANGED armVars

MCNext ==
  \/ Only("heap") /\ Next
  \/ Only("tree") /\ Tree!Next
  \/ Only("trie") /\ TrieNext
  \/ Only("lists") /\ Lists!ListNext
  \/ Only("cache") /\ CacheNext
  \/ Only("ring") /\ RingNext
  \/ Only("table") /\ AddRoute
  \/ Only("arm") /\ Execute

MCSpec ==
  MCInit /\ [][MCNext]_<<part, vars, treeVars, trieVars, listVars, cacheVars,
                         ringVars, routeVars, armVars>>

-----------------------------------------------------------------------------
(* The types of the structures that declare them, as of one. *)
AllTypes == TypeOK /\ CacheTypeOK /\ BufferTypeOK

TreeIsSound == Tree!TreeIsSound

(* Both trees implement KeySet, each in the behaviours it has a part in.   *)
KeysAreSets ==
  /\ Tree!Set!Init /\ WordSet!Init
  /\ [][/\ part = "tree" => Tree!CallsActOnSet
        /\ part = "trie" => CallsActOnWords]_<<treeVars, trieVars>>

CallsActOnSequences == Lists!CallsActOnSequences
=============================================================================
