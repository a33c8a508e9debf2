---------------------------- MODULE RecentSamples ----------------------------
(***************************************************************************)
(* What practice/metrics_buffer.go promises its callers: a buffer of size  *)
(* N is the sequence of the last N samples pushed, oldest first.           *)
(***************************************************************************)
EXTENDS Integers, Sequences

CONSTANTS Samples

VARIABLES size, recent

vars == <<size, recent>>

Init == size \in Nat \ {0} /\ recent = <<>>

Push(s) ==
  /\ recent' = IF Len(recent) < size THEN Append(recent, s)
               ELSE Append(Tail(recent), s)
  /\ UNCHANGED size

Next == \E s \in Samples : Push(s)

Spec == Init /\ [][Next]_vars
=============================================================================
