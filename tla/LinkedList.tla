----------------------------- MODULE LinkedList -----------------------------
(***************************************************************************)
(* data-structures/linkedlist.go: pointer surgery on two lists that share  *)
(* no node.  Nodes are numbers, Nil is 0, and Dummy is the node that some  *)
(* functions put before a list.  One step is one call.                     *)
(*                                                                         *)
(* Operators named Fault... are wrong versions of the one that follows.    *)
(***************************************************************************)
EXTENDS Integers, Sequences, SequencesExt

CONSTANTS Size, Vals      (* how many nodes, and their values                 *)

VARIABLES
  val, next,    (* of the nodes                                              *)
  l1, l2,       (* heads of two lists                                        *)
  call          (* the last call: its name, argument and answer              *)

listVars == <<val, next, l1, l2, call>>

Nil == 0
Dummy == -1
Nodes == 1..Size

(* The two chains 1..k and k+1..m, or the chain 1..m closed into a cycle.  *)
ListInit ==
  /\ val \in [Nodes -> Vals]
  /\ \E m \in 0..Size : \E k \in 0..m :
       \/ /\ next = [n \in Nodes \cup {Dummy} |->
                       IF n \in Nodes /\ n < m /\ n # k THEN n + 1 ELSE Nil]
          /\ l1 = IF k = 0 THEN Nil ELSE 1
          /\ l2 = IF k = m THEN Nil ELSE k + 1
       \/ /\ k > 0
          /\ next = [n \in Nodes \cup {Dummy} |->
                       IF n = m THEN k ELSE IF n \in Nodes /\ n < m THEN n + 1 ELSE Nil]
          /\ l1 = 1 /\ l2 = Nil
  /\ call = [op |-> "none"]

RECURSIVE ChainFrom(_, _, _)
ChainFrom(n, in, most) ==
  IF n = Nil \/ most = 0 THEN <<>> ELSE <<n>> \o ChainFrom(in[n], in, most - 1)
Chain(n) == ChainFrom(n, next, Size + 1)
Cyclic == Len(Chain(l1)) > Size

-----------------------------------------------------------------------------
RECURSIVE Reversed(_, _, _)
Reversed(in, prev, curr) ==
  IF curr = Nil THEN [next |-> in, head |-> prev]
  ELSE Reversed([in EXCEPT ![curr] = prev], curr, in[curr])

RECURSIVE ReversedRecursive(_, _)
ReversedRecursive(in, head) ==
  IF head = Nil \/ in[head] = Nil THEN [next |-> in, head |-> head]
  ELSE LET rest == ReversedRecursive(in, in[head])
       IN  [next |-> [rest.next EXCEPT ![rest.next[head]] = head, ![head] = Nil],
            head |-> rest.head]

ReverseList ==
  /\ ~Cyclic
  /\ \E r \in {Reversed(next, Nil, l1), ReversedRecursive(next, l1)} :
       next' = r.next /\ l1' = r.head
  /\ call' = [op |-> "reverse"]
  /\ UNCHANGED <<val, l2>>

FaultMeetLate(slow, fast) == fast # Nil /\ next[fast] # Nil /\ next[fast] = slow

(* Floyd's loop: the fast pointer meets the slow one. *)
RECURSIVE Meet(_, _)
Meet(slow, fast) ==
  /\ fast # Nil /\ next[fast] # Nil
  /\ LET s == next[slow]
         f == next[next[fast]]
     IN  s = f \/ Meet(s, f)

HasCycle ==
  /\ call' = [op |-> "cycle", answer |-> Meet(l1, l1)]
  /\ UNCHANGED <<val, next, l1, l2>>

RECURSIVE Middle(_, _)
Middle(slow, fast) ==
  IF fast = Nil \/ next[fast] = Nil THEN slow ELSE Middle(next[slow], next[next[fast]])

FindMiddle ==
  /\ ~Cyclic
  /\ call' = [op |-> "middle", answer |-> Middle(l1, l1)]
  /\ UNCHANGED <<val, next, l1, l2>>

(* The merging loop, with n the last node merged. *)
RECURSIVE Merged(_, _, _, _)
Merged(in, n, a, b) ==
  IF a = Nil \/ b = Nil THEN [in EXCEPT ![n] = IF a # Nil THEN a ELSE b]
  ELSE IF val[a] < val[b] THEN Merged([in EXCEPT ![n] = a], a, in[a], b)
  ELSE Merged([in EXCEPT ![n] = b], b, a, in[b])

MergeTwoLists ==
  /\ ~Cyclic
  /\ LET merged == Merged(next, Dummy, l1, l2)
     IN  /\ l1' = merged[Dummy] /\ l2' = Nil
         /\ next' = [merged EXCEPT ![Dummy] = Nil]
  /\ call' = [op |-> "merge"]
  /\ UNCHANGED val

(* k steps from node n; -2 when they lead past the end. *)
RECURSIVE Ahead(_, _, _)
Ahead(in, n, k) == IF k = 0 THEN n ELSE IF n = Nil THEN -2 ELSE Ahead(in, in[n], k - 1)

RECURSIVE Before(_, _, _)
Before(in, first, second) ==
  IF second = Nil THEN first ELSE Before(in, in[first], in[second])

(* The loop over both pointers; n of 0 dereferences the end of the list.   *)
RemoveNthFromEnd(n) ==
  /\ ~Cyclic
  /\ LET in == [next EXCEPT ![Dummy] = l1]
         second == Ahead(in, Dummy, n + 1)
         first == Before(in, Dummy, second)
     IN  IF second = -2
         THEN l1' = Nil /\ call' = [op |-> "remove", n |-> n] /\ UNCHANGED next
         ELSE IF in[first] = Nil
         THEN call' = [op |-> "panic", n |-> n] /\ UNCHANGED <<next, l1>>
         ELSE LET cut == [in EXCEPT ![first] = in[in[first]]]
              IN  /\ l1' = cut[Dummy] /\ next' = [cut EXCEPT ![Dummy] = Nil]
                  /\ call' = [op |-> "remove", n |-> n]
  /\ UNCHANGED <<val, l2>>

(* The second half stays reversed and the first half ends in its last node.*)
IsPalindrome ==
  /\ ~Cyclic
  /\ LET half == Reversed(next, Nil, Middle(l1, l1))
         front == ChainFrom(l1, half.next, Size)
         back == ChainFrom(half.head, half.next, Size)
         shorter == IF Len(front) < Len(back) THEN Len(front) ELSE Len(back)
     IN  /\ next' = half.next
         /\ call' = [op |-> "palindrome",
                     answer |-> \A k \in 1..shorter : val[front[k]] = val[back[k]]]
  /\ UNCHANGED <<val, l1, l2>>

ListNext ==
  /\ call.op # "panic"
  /\ \/ ReverseList \/ HasCycle \/ FindMiddle \/ MergeTwoLists \/ IsPalindrome
     \/ \E n \in 0..(Size + 1) : RemoveNthFromEnd(n)

-----------------------------------------------------------------------------
Sorted(s) == \A k \in 2..Len(s) : val[s[k - 1]] <= val[s[k]]
Within(s, t) == SelectSeq(t, LAMBDA n : n \in {s[k] : k \in DOMAIN s}) = s

(***************************************************************************)
(* What each call does to the lists as sequences.  No call loses a node of *)
(* theirs or makes a cycle, with two exceptions: removing the n-th node    *)
(* from the end of a list that has fewer drops the list, and IsPalindrome  *)
(* answers rightly but leaves only the first half and the middle of the    *)
(* list it was asked about.  Removing the 0-th panics, and nothing else.   *)
(***************************************************************************)
Effect ==
  LET s1 == Chain(l1)
      s2 == Chain(l2)
      after == Chain(l1)'
      size == Len(s1)
  IN  /\ call'.op # "merge" => Chain(l2)' = s2
      /\ call'.op = "reverse" => after = Reverse(s1)
      /\ call'.op = "cycle" => after = s1 /\ call'.answer = Cyclic
      /\ call'.op = "middle" =>
           after = s1 /\ call'.answer = IF s1 = <<>> THEN Nil ELSE s1[size \div 2 + 1]
      /\ call'.op = "merge" =>
           /\ Len(after) = size + Len(s2) /\ Within(s1, after) /\ Within(s2, after)
           /\ l2' = Nil /\ (Sorted(s1) /\ Sorted(s2) => Sorted(after))
      /\ call'.op = "remove" =>
           call'.n > 0 /\ after = IF call'.n > size THEN <<>> ELSE RemoveAt(s1, size - call'.n + 1)
      /\ call'.op = "panic" => call'.n = 0 /\ after = s1
      /\ call'.op = "palindrome" =>
           /\ call'.answer = (\A k \in 1..size : val[s1[k]] = val[s1[size + 1 - k]])
           /\ after = IF s1 = <<>> THEN <<>> ELSE SubSeq(s1, 1, size \div 2 + 1)

CallsActOnSequences == [][Effect]_listVars
=============================================================================
