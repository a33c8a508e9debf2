------------------------- MODULE SchedulerProperties -------------------------
(* What should be true of the scheduler in TaskScheduler.tla.              *)
EXTENDS TaskScheduler

(* The tasks whose callback is in progress on some goroutine.              *)
Executing == {cur[g] : g \in Goroutines} \ {None}

(***************************************************************************)
(* One Run loop with no other consumer implements the contract: the two    *)
(* looks at the heap, the drop of ts.mu between them, the timer and the    *)
(* wake-ups amount to starting the first due task, one at a time.          *)
(***************************************************************************)
Contract ==
  INSTANCE SchedulerContract WITH pending <- heap, executing <- Executing

ImplementsContract == Contract!Spec

(***************************************************************************)
(* A task Run executes is due.  Run decides from the heap it saw under the *)
(* lock, or from a timer set for it, and ExecuteNextTask then pops         *)
(* whatever is at the root by then.                                        *)
(***************************************************************************)
NeverEarly ==
  \A r \in Runners : cur[r] # None => ExecuteAt[cur[r]] <= startedAt[cur[r]]

(***************************************************************************)
(* Why NeverEarly holds for a sole consumer: what Run learned before it    *)
(* released the lock is still true of some task of the heap when it acts.  *)
(***************************************************************************)
SeenIsStillThere ==
  \A r \in Runners :
    /\ pc[r] = "execute" => \E t \in heap : ExecuteAt[t] <= now
    /\ pc[r] \in Armed \cup {"arm"} =>
         \E t \in heap : ExecuteAt[t] <= now + timer[r]

(***************************************************************************)
(* Whatever the number of Run loops and other consumers, an added task is  *)
(* waiting in the heap, or was handed to one caller of GetNextTask, or was *)
(* started by one ExecuteNextTask: none is lost and none is used twice.    *)
(***************************************************************************)
Accounted ==
  /\ \A t \in Tasks :
       /\ t \in heap \cup taken => call[t] # "new"
       /\ startedAt[t] # Never => call[t] # "new"
       /\ call[t] # "new" => t \in heap \cup taken \/ startedAt[t] # Never
       /\ startedAt[t] # Never => t \notin heap \cup taken
  /\ heap \cap taken = {}
  /\ \A g, h \in Goroutines : g # h /\ cur[g] # None => cur[g] # cur[h]
  /\ \A g \in Goroutines : cur[g] # None => startedAt[cur[g]] # Never

(***************************************************************************)
(* Run returns only because its context is done: no callback, not even one *)
(* that panics, and no race on the heap ends the loop.                     *)
(***************************************************************************)
StopsOnlyWhenCancelled ==
  \A r \in Runners : pc[r] = "returned" => r \in cancelled

(***************************************************************************)
(* A task that is in the heap when Run goes round its loop is started, or  *)
(* Run is cancelled: timers, panics and tasks that arrive meanwhile do not *)
(* keep the loop from it.                                                  *)
(***************************************************************************)
SeenTasksDrain ==
  \A t \in Tasks, r \in Runners :
    (t \in heap /\ pc[r] = "loop") ~> (t \notin heap \/ r \in cancelled)

(***************************************************************************)
(* An AddTask whose push finds Run already parked gets its task started:   *)
(* this is the wake-up that ts.signal is there for.                        *)
(***************************************************************************)
ParkedRunSeesAdd ==
  \A t \in Tasks, r \in Runners :
    (call[t] = "pushed" /\ pc[r] \in Parked) ~> (t \notin heap \/ r \in cancelled)

(***************************************************************************)
(* A Run whose context is done returns, as TestRun_ContextCancellation-    *)
(* StopsLoop expects.  The loop looks at ctx only in its selects, so this  *)
(* rests on the due tasks running out.                                     *)
(***************************************************************************)
CancelledRunReturns ==
  \A r \in Runners : r \in cancelled ~> pc[r] = "returned"

(***************************************************************************)
(* The comment in AddTask: "if Run() is busy, it will re-check the heap    *)
(* anyway", that is, every task added is started unless Run is cancelled.  *)
(* It is false: after Run has looked at an empty heap and released ts.mu,  *)
(* and before its select has parked, a push is not seen and its signal is  *)
(* dropped.                                                                *)
(***************************************************************************)
EveryAddIsSeen ==
  \A t \in Tasks, r \in Runners :
    t \in heap ~> (t \notin heap \/ r \in cancelled)
=============================================================================
