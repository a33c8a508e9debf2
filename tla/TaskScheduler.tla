---------------------------- MODULE TaskScheduler ----------------------------
(***************************************************************************)
(* practice/task_scheduler.go: a heap of tasks behind a mutex, an          *)
(* unbuffered wake-up channel, AddTask callers, Run loops, and callers of  *)
(* GetNextTask and ExecuteNextTask.                                        *)
(*                                                                         *)
(* One action is one stretch of code that no other goroutine can observe   *)
(* half done: a critical section of ts.mu, the non-blocking send of        *)
(* AddTask, the entry into a select, the event that wakes a parked select. *)
(* What lies between two actions of a goroutine is exactly where the code  *)
(* can be interrupted.                                                     *)
(*                                                                         *)
(* Operators named Fault... are small wrong versions of the operator that  *)
(* follows them; no action uses them.  They record which mistake each      *)
(* property would expose.                                                  *)
(***************************************************************************)
EXTENDS Integers, FiniteSets

CONSTANTS
  Tasks,      (* the tasks the program may add; each is added once           *)
  ExecuteAt,  (* Task.ExecuteAt, in ticks of the clock                       *)
  Priority,   (* Task.Priority                                               *)
  Parent,     (* Parent[t]: the task whose callback adds t, None if a        *)
              (* goroutine of its own adds it                                *)
  Panics,     (* the tasks whose callback panics                             *)
  Runners,    (* the goroutines inside Run, each with its own context        *)
  Clients,    (* the goroutines that call GetNextTask and ExecuteNextTask    *)
  Horizon,    (* the clock saturates here; no task is due later              *)
  None        (* no task                                                     *)

ASSUME SchedulerAssumption ==
  /\ Horizon \in Nat
  /\ ExecuteAt \in [Tasks -> 0..Horizon]
  /\ Priority \in [Tasks -> Nat]
  /\ Parent \in [Tasks -> Tasks \cup {None}]
  /\ Panics \subseteq Tasks
  /\ None \notin Tasks
  /\ Runners \cap Clients = {}

VARIABLES
  now,        (* the clock                                                   *)
  heap,       (* ts.tasks                                                    *)
  call,       (* call[t]: how far AddTask(t) has got                         *)
  pc,         (* pc[g]: where goroutine g is                                 *)
  cur,        (* cur[g]: the task whose callback g is running, or None       *)
  timer,      (* timer[r]: Run's delay, then the time left on its timer      *)
  cancelled,  (* the Runs whose context is done                              *)
  startedAt,  (* when ExecuteNextTask popped a task to run it, or Never      *)
  taken       (* tasks handed to a caller of GetNextTask                     *)

vars == <<now, heap, call, pc, cur, timer, cancelled, startedAt, taken>>

Goroutines == Runners \cup Clients

Never == -1

(* Where a goroutine can be.  A Run that is Parked sits in the receive     *)
(* queue of ts.signal; in the other states nobody receives from it.        *)
Parked == {"parkedIdle", "parkedTimer"}
Armed == {"selectTimer", "parkedTimer"}
RunStates == {"loop", "selectIdle", "arm", "execute", "callback", "returned"}
               \cup Parked \cup Armed

TypeOK ==
  /\ now \in 0..Horizon
  /\ heap \subseteq Tasks
  /\ call \in [Tasks -> {"new", "pushed", "returned"}]
  /\ pc \in [Goroutines -> RunStates \cup {"ready"}]
  /\ cur \in [Goroutines -> Tasks \cup {None}]
  /\ timer \in [Runners -> 0..Horizon]
  /\ cancelled \subseteq Runners
  /\ startedAt \in [Tasks -> 0..Horizon \cup {Never}]
  /\ taken \subseteq Tasks

Init ==
  /\ now = 0
  /\ heap = {}
  /\ call = [t \in Tasks |-> "new"]
  /\ pc = [g \in Goroutines |-> IF g \in Runners THEN "loop" ELSE "ready"]
  /\ cur = [g \in Goroutines |-> None]
  /\ timer = [r \in Runners |-> 0]
  /\ cancelled = {}
  /\ startedAt = [t \in Tasks |-> Never]
  /\ taken = {}

-----------------------------------------------------------------------------
(* The heap.  container/heap keeps a Less-minimal task at the root; among  *)
(* tasks Less does not order, any may be there.                            *)

FaultTimeOnly(t, u) == ExecuteAt[t] < ExecuteAt[u]

Less(t, u) ==
  \/ ExecuteAt[t] < ExecuteAt[u]
  \/ ExecuteAt[t] = ExecuteAt[u] /\ Priority[t] < Priority[u]

Earliest(S) == {t \in S : \A u \in S : ~Less(u, t)}

-----------------------------------------------------------------------------
(* AddTask(t): push under the lock, then a send that gives up when no Run  *)
(* is parked.  A callback that adds a task runs both steps on the          *)
(* goroutine that executes the callback.                                   *)

CallerOf(t) == {g \in Goroutines : cur[g] = Parent[t] /\ pc[g] = "callback"}

AddTaskPush(t) ==
  /\ call[t] = "new"
  /\ Parent[t] = None \/ CallerOf(t) # {}
  /\ call' = [call EXCEPT ![t] = "pushed"]
  /\ heap' = heap \cup {t}
  /\ UNCHANGED <<now, pc, cur, timer, cancelled, startedAt, taken>>

FaultNoSend(t) ==
  /\ call[t] = "pushed"
  /\ call' = [call EXCEPT ![t] = "returned"]
  /\ UNCHANGED <<now, heap, pc, cur, timer, cancelled, startedAt, taken>>

AddTaskSignal(t) ==
  /\ call[t] = "pushed"
  /\ call' = [call EXCEPT ![t] = "returned"]
  /\ LET receivers == {r \in Runners : pc[r] \in Parked}
     IN \/ /\ receivers = {}                      \* default: drop the signal
           /\ UNCHANGED pc
        \/ \E r \in receivers : pc' = [pc EXCEPT ![r] = "loop"]
  /\ UNCHANGED <<now, heap, cur, timer, cancelled, startedAt, taken>>

-----------------------------------------------------------------------------
(* ExecuteNextTask, called by Run and by clients, and GetNextTask.         *)

Entry(g) == IF g \in Runners THEN "execute" ELSE "ready"
Resume(g) == IF g \in Runners THEN "loop" ELSE "ready"

FaultKeepInHeap(t) == heap' = heap

PopTask(t) == heap' = heap \ {t}

ExecuteEmpty(g) ==
  /\ pc[g] = Entry(g)
  /\ heap = {}
  /\ pc' = [pc EXCEPT ![g] = Resume(g)]
  /\ UNCHANGED <<now, heap, call, cur, timer, cancelled, startedAt, taken>>

ExecutePop(g) ==
  /\ pc[g] = Entry(g)
  /\ \E t \in Earliest(heap) :
       /\ PopTask(t)
       /\ cur' = [cur EXCEPT ![g] = t]
       /\ startedAt' = [startedAt EXCEPT ![t] = now]
  /\ pc' = [pc EXCEPT ![g] = "callback"]
  /\ UNCHANGED <<now, call, timer, cancelled, taken>>

(* The callback cannot end while an AddTask it called has yet to return.   *)
CallbackOver(g) ==
  /\ pc[g] = "callback"
  /\ \A t \in Tasks : Parent[t] = cur[g] => call[t] # "pushed"
  /\ cur' = [cur EXCEPT ![g] = None]
  /\ UNCHANGED <<now, heap, call, timer, cancelled, startedAt, taken>>

CallbackReturns(g) ==
  /\ cur[g] \notin Panics
  /\ CallbackOver(g)
  /\ pc' = [pc EXCEPT ![g] = Resume(g)]

FaultNoRecover(g) ==
  /\ cur[g] \in Panics
  /\ CallbackOver(g)
  /\ pc' = [pc EXCEPT ![g] = "returned"]

(* The deferred recover ends ExecuteNextTask normally.                     *)
CallbackPanics(g) ==
  /\ cur[g] \in Panics
  /\ CallbackOver(g)
  /\ pc' = [pc EXCEPT ![g] = Resume(g)]

GetNextTask(c) ==
  /\ pc[c] = "ready"
  /\ \E t \in Earliest(heap) :
       /\ PopTask(t)
       /\ taken' = taken \cup {t}
  /\ UNCHANGED <<now, call, pc, cur, timer, cancelled, startedAt>>

-----------------------------------------------------------------------------
(* Run(ctx).                                                               *)

FaultOffByOne(delay) == delay <= 1
FaultInverted(delay) == delay > 0

Due(delay) == delay <= 0

(* Look at the heap under the lock; act on what was seen after unlocking.  *)
RunCheck(r) ==
  /\ pc[r] = "loop"
  /\ \/ /\ heap = {}
        /\ pc' = [pc EXCEPT ![r] = "selectIdle"]
        /\ UNCHANGED timer
     \/ \E next \in Earliest(heap) :
          LET delay == ExecuteAt[next] - now
          IN IF Due(delay)
             THEN pc' = [pc EXCEPT ![r] = "execute"] /\ UNCHANGED timer
             ELSE /\ pc' = [pc EXCEPT ![r] = "arm"]
                  /\ timer' = [timer EXCEPT ![r] = delay]
  /\ UNCHANGED <<now, heap, call, cur, cancelled, startedAt, taken>>

FaultIgnoreCancel(r) ==
  /\ pc[r] = "selectIdle"
  /\ pc' = [pc EXCEPT ![r] = "parkedIdle"]
  /\ UNCHANGED <<now, heap, call, cur, timer, cancelled, startedAt, taken>>

(* The select on an empty heap: return if the context is done, else park.  *)
RunSelectIdle(r) ==
  /\ pc[r] = "selectIdle"
  /\ pc' = [pc EXCEPT ![r] = IF r \in cancelled THEN "returned" ELSE "parkedIdle"]
  /\ UNCHANGED <<now, heap, call, cur, timer, cancelled, startedAt, taken>>

(* time.NewTimer(delay): only from here on does the delay run down.        *)
RunArm(r) ==
  /\ pc[r] = "arm"
  /\ pc' = [pc EXCEPT ![r] = "selectTimer"]
  /\ UNCHANGED <<now, heap, call, cur, timer, cancelled, startedAt, taken>>

(* The select on a timer: any ready case may be chosen; park if none is.   *)
RunSelectTimer(r) ==
  /\ pc[r] = "selectTimer"
  /\ \/ r \in cancelled /\ pc' = [pc EXCEPT ![r] = "returned"]
     \/ timer[r] = 0 /\ pc' = [pc EXCEPT ![r] = "execute"]
     \/ /\ r \notin cancelled
        /\ timer[r] > 0
        /\ pc' = [pc EXCEPT ![r] = "parkedTimer"]
  /\ UNCHANGED <<now, heap, call, cur, timer, cancelled, startedAt, taken>>

RunTimerFires(r) ==
  /\ pc[r] = "parkedTimer"
  /\ timer[r] = 0
  /\ pc' = [pc EXCEPT ![r] = "execute"]
  /\ UNCHANGED <<now, heap, call, cur, timer, cancelled, startedAt, taken>>

(* The context of Run r is done: a parked select takes that case at once.  *)
Cancel(r) ==
  /\ r \notin cancelled
  /\ cancelled' = cancelled \cup {r}
  /\ pc' = [pc EXCEPT ![r] = IF @ \in Parked THEN "returned" ELSE @]
  /\ UNCHANGED <<now, heap, call, cur, timer, startedAt, taken>>

(* Time passes.  The clock stops at Horizon, where every task is due, so   *)
(* that comparing it with a due time stays exact; timers keep running.     *)
Tick ==
  /\ now' = IF now < Horizon THEN now + 1 ELSE now
  /\ timer' = [r \in Runners |->
                 IF pc[r] \in Armed /\ timer[r] > 0 THEN timer[r] - 1 ELSE timer[r]]
  /\ <<now, timer>>' # <<now, timer>>
  /\ UNCHANGED <<heap, call, pc, cur, cancelled, startedAt, taken>>

-----------------------------------------------------------------------------
RunStep(r) ==
  \/ RunCheck(r) \/ RunSelectIdle(r) \/ RunArm(r) \/ RunSelectTimer(r)
  \/ RunTimerFires(r)

ExecuteStep(g) ==
  ExecuteEmpty(g) \/ ExecutePop(g) \/ CallbackReturns(g) \/ CallbackPanics(g)

Next ==
  \/ \E t \in Tasks : AddTaskPush(t) \/ AddTaskSignal(t)
  \/ \E g \in Goroutines : ExecuteStep(g)
  \/ \E r \in Runners : RunStep(r) \/ Cancel(r)
  \/ \E c \in Clients : GetNextTask(c)
  \/ Tick

Spec == Init /\ [][Next]_vars

(* Goroutines that can run are run, timers fire, callbacks end and an      *)
(* AddTask that has started returns.  Whether a task is ever added, a      *)
(* context ever cancelled or a client ever calls is up to the program.     *)
Fairness ==
  /\ WF_vars(Tick)
  /\ \A t \in Tasks : WF_vars(AddTaskSignal(t))
  /\ \A r \in Runners : WF_vars(RunStep(r)) /\ WF_vars(ExecuteStep(r))

FairSpec == Spec /\ Fairness
=============================================================================
