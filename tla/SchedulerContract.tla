-------------------------- MODULE SchedulerContract --------------------------
(***************************************************************************)
(* What practice/task_scheduler.go promises a caller that runs exactly one *)
(* Run(ctx) loop and takes no task out by hand: a task that was added      *)
(* starts at most once, never before its ExecuteAt time, always as the     *)
(* first pending task in (ExecuteAt, Priority) order, and never while the  *)
(* callback of another task is still running.                              *)
(*                                                                         *)
(* Nothing here knows of goroutines, the wake-up channel or timers.        *)
(***************************************************************************)
EXTENDS Integers

CONSTANTS
  Tasks,      (* the tasks callers may add                            *)
  ExecuteAt,  (* the due time of each task                            *)
  Priority,   (* the priority of each task; 0 goes first              *)
  Horizon     (* the clock saturates here; no task is due later       *)

VARIABLES
  now,        (* the clock                                            *)
  pending,    (* tasks accepted and not yet started                   *)
  executing,  (* tasks whose callback is in progress                  *)
  startedAt   (* when a task's callback started, or Never             *)

vars == <<now, pending, executing, startedAt>>

Never == -1

(* The order TaskHeap.Less gives two tasks. *)
Precedes(t, u) ==
  \/ ExecuteAt[t] < ExecuteAt[u]
  \/ ExecuteAt[t] = ExecuteAt[u] /\ Priority[t] < Priority[u]

Init ==
  /\ now = 0
  /\ pending = {}
  /\ executing = {}
  /\ startedAt = [t \in Tasks |-> Never]

Accept(t) ==
  /\ t \notin pending
  /\ startedAt[t] = Never
  /\ pending' = pending \cup {t}
  /\ UNCHANGED <<now, executing, startedAt>>

Start(t) ==
  /\ executing = {}
  /\ t \in pending
  /\ ExecuteAt[t] <= now
  /\ \A u \in pending : ~Precedes(u, t)
  /\ pending' = pending \ {t}
  /\ executing' = {t}
  /\ startedAt' = [startedAt EXCEPT ![t] = now]
  /\ UNCHANGED now

Finish ==
  /\ executing' = {}
  /\ UNCHANGED <<now, pending, startedAt>>

Tick ==
  /\ now' \in {now, now + 1}
  /\ now' <= Horizon
  /\ UNCHANGED <<pending, executing, startedAt>>

Next ==
  \/ \E t \in Tasks : Accept(t) \/ Start(t)
  \/ Finish
  \/ Tick

Spec == Init /\ [][Next]_vars
=============================================================================
