------------------------- MODULE TaskSchedulerProofs -------------------------
(***************************************************************************)
(* Theorems about the scheduler for any set of tasks, due times, Run loops *)
(* and clients.                                                            *)
(***************************************************************************)
EXTENDS SchedulerProperties, TLAPS

(* A step of the scheduler keeps every variable in its type; in particular *)
(* Run never arms a timer with a delay that is not positive.               *)
LEMMA TypeStep == TypeOK /\ [Next]_vars => TypeOK'
<1> SUFFICES ASSUME TypeOK, [Next]_vars PROVE TypeOK'
  OBVIOUS
<1> USE SchedulerAssumption DEF TypeOK, Goroutines
<1>1. ASSUME NEW t \in Tasks, AddTaskPush(t) PROVE TypeOK'
  BY <1>1 DEF AddTaskPush
<1>2. ASSUME NEW t \in Tasks, AddTaskSignal(t) PROVE TypeOK'
  BY <1>2 DEF AddTaskSignal, RunStates, Parked, Armed
<1>3. ASSUME NEW g \in Goroutines, ExecuteEmpty(g) PROVE TypeOK'
  BY <1>3 DEF ExecuteEmpty, Resume, RunStates
<1>4. ASSUME NEW g \in Goroutines, ExecutePop(g) PROVE TypeOK'
  BY <1>4 DEF ExecutePop, PopTask, Earliest, RunStates
<1>5. ASSUME NEW g \in Goroutines, CallbackReturns(g) PROVE TypeOK'
  BY <1>5 DEF CallbackReturns, CallbackOver, Resume, RunStates
<1>6. ASSUME NEW g \in Goroutines, CallbackPanics(g) PROVE TypeOK'
  BY <1>6 DEF CallbackPanics, CallbackOver, Resume, RunStates
<1>7. ASSUME NEW c \in Clients, GetNextTask(c) PROVE TypeOK'
  BY <1>7 DEF GetNextTask, PopTask, Earliest
<1>8. ASSUME NEW r \in Runners, RunCheck(r) PROVE TypeOK'
  <2>1. CASE pc' = [pc EXCEPT ![r] = "arm"]
    <3>1. PICK next \in Earliest(heap) :
            /\ ~Due(ExecuteAt[next] - now)
            /\ timer' = [timer EXCEPT ![r] = ExecuteAt[next] - now]
      BY <1>8, <2>1 DEF RunCheck
    <3>2. ExecuteAt[next] - now \in 0..Horizon
      BY <3>1 DEF Earliest, Due
    <3> QED BY <1>8, <2>1, <3>1, <3>2 DEF RunCheck, RunStates
  <2>2. CASE pc' # [pc EXCEPT ![r] = "arm"]
    BY <1>8, <2>2 DEF RunCheck, RunStates
  <2> QED BY <2>1, <2>2
<1>9. ASSUME NEW r \in Runners, RunStep(r), ~RunCheck(r) PROVE TypeOK'
  BY <1>9 DEF RunStep, RunSelectIdle, RunArm, RunSelectTimer, RunTimerFires,
              RunStates, Parked, Armed
<1>10. ASSUME NEW r \in Runners, Cancel(r) PROVE TypeOK'
  BY <1>10 DEF Cancel, RunStates
<1>11. CASE Tick
  <2>1. now' \in 0..Horizon
    BY <1>11 DEF Tick
  <2>2. timer' \in [Runners -> 0..Horizon]
    <3>1. \A r \in Runners :
            (IF pc[r] \in Armed /\ timer[r] > 0 THEN timer[r] - 1 ELSE timer[r])
               \in 0..Horizon
      OBVIOUS
    <3> QED BY <1>11, <3>1 DEF Tick
  <2> QED BY <1>11, <2>1, <2>2 DEF Tick
<1>12. CASE UNCHANGED vars
  BY <1>12 DEF vars
<1> QED
  BY <1>1, <1>2, <1>3, <1>4, <1>5, <1>6, <1>7, <1>8, <1>9, <1>10, <1>11, <1>12
     DEF Next, ExecuteStep, RunStep

(* Every variable keeps its type, however many goroutines use the          *)
(* scheduler.                                                              *)
THEOREM TypeCorrect == Spec => []TypeOK
<1>1. Init => TypeOK
  BY SchedulerAssumption DEF Init, TypeOK, Goroutines, RunStates
<1> QED BY <1>1, TypeStep, PTL DEF Spec

-----------------------------------------------------------------------------
(* Tasks are accounted for, whatever the goroutines.                       *)

AccountedInv == TypeOK /\ Accounted

LEMMA AccountedStep == AccountedInv /\ [Next]_vars => Accounted'
<1> SUFFICES ASSUME AccountedInv, [Next]_vars PROVE Accounted'
  OBVIOUS
<1> USE SchedulerAssumption DEF AccountedInv, TypeOK, Accounted, Never
<1>1. ASSUME NEW t \in Tasks, AddTaskPush(t) PROVE Accounted'
  BY <1>1 DEF AddTaskPush
<1>2. ASSUME NEW t \in Tasks, AddTaskSignal(t) PROVE Accounted'
  BY <1>2 DEF AddTaskSignal
<1>3. ASSUME NEW g \in Goroutines, ExecutePop(g) PROVE Accounted'
  <2>1. PICK t \in Earliest(heap) :
          /\ heap' = heap \ {t}
          /\ cur' = [cur EXCEPT ![g] = t]
          /\ startedAt' = [startedAt EXCEPT ![t] = now]
    BY <1>3 DEF ExecutePop, PopTask
  <2>2. t \in heap /\ startedAt[t] = Never
    BY <2>1 DEF Earliest
  <2>3. UNCHANGED <<call, taken>>
    BY <1>3 DEF ExecutePop
  <2>4. \A h \in Goroutines : cur[h] # t
    BY <2>2
  <2>5. startedAt'[t] # Never /\ \A u \in Tasks \ {t} : startedAt'[u] = startedAt[u]
    BY <2>1, <2>2
  <2>6. /\ \A h, k \in Goroutines : h # k /\ cur'[h] # None => cur'[h] # cur'[k]
        /\ \A h \in Goroutines : cur'[h] # None => startedAt'[cur'[h]] # Never
    BY <2>1, <2>4, <2>5
  <2>7. /\ heap' \cap taken' = {}
        /\ \A u \in Tasks :
             /\ u \in heap' \cup taken' => call'[u] # "new"
             /\ startedAt'[u] # Never => call'[u] # "new"
             /\ call'[u] # "new" => u \in heap' \cup taken' \/ startedAt'[u] # Never
             /\ startedAt'[u] # Never => u \notin heap' \cup taken'
    BY <2>1, <2>2, <2>3, <2>5
  <2> QED BY <2>6, <2>7
<1>4. ASSUME NEW g \in Goroutines, CallbackOver(g) PROVE Accounted'
  BY <1>4 DEF CallbackOver
<1>5. ASSUME NEW c \in Clients, GetNextTask(c) PROVE Accounted'
  BY <1>5 DEF GetNextTask, PopTask, Earliest
<1>6. ASSUME UNCHANGED <<heap, call, cur, startedAt, taken>> PROVE Accounted'
  BY <1>6
<1> QED
  BY <1>1, <1>2, <1>3, <1>4, <1>5, <1>6
     DEF Next, ExecuteStep, RunStep, ExecuteEmpty, CallbackReturns, CallbackPanics,
         RunCheck, RunSelectIdle, RunArm, RunSelectTimer, RunTimerFires, Cancel,
         Tick, vars

(* Every added task is in the heap, or was handed out once, or was started *)
(* once, for any number of Run loops, clients and adding callbacks.        *)
THEOREM TasksAccounted == Spec => []Accounted
<1>1. Init => AccountedInv
  BY SchedulerAssumption DEF Init, AccountedInv, TypeOK, Accounted, Goroutines,
     RunStates, Never
<1>2. AccountedInv /\ [Next]_vars => AccountedInv'
  BY AccountedStep, TypeStep DEF AccountedInv
<1>3. AccountedInv => Accounted
  BY DEF AccountedInv
<1> QED BY <1>1, <1>2, <1>3, PTL DEF Spec

-----------------------------------------------------------------------------
(* No step but a cancellation ends a Run loop.                             *)

StopInv == TypeOK /\ StopsOnlyWhenCancelled

LEMMA StopStep == StopInv /\ [Next]_vars => StopsOnlyWhenCancelled'
<1> SUFFICES ASSUME StopInv, [Next]_vars PROVE StopsOnlyWhenCancelled'
  OBVIOUS
<1> USE DEF StopInv, TypeOK, StopsOnlyWhenCancelled, Goroutines
<1>1. ASSUME cancelled \subseteq cancelled',
             \A r \in Runners : pc'[r] = "returned" =>
               pc[r] = "returned" \/ r \in cancelled'
      PROVE  StopsOnlyWhenCancelled'
  BY <1>1
<1>2. ASSUME NEW t \in Tasks, AddTaskPush(t) \/ AddTaskSignal(t)
      PROVE  StopsOnlyWhenCancelled'
  BY <1>1, <1>2 DEF AddTaskPush, AddTaskSignal
<1>3. ASSUME NEW g \in Goroutines, ExecuteEmpty(g) \/ ExecutePop(g)
      PROVE  StopsOnlyWhenCancelled'
  BY <1>1, <1>3 DEF ExecuteEmpty, ExecutePop, Resume
<1>4. ASSUME NEW g \in Goroutines, CallbackReturns(g) \/ CallbackPanics(g)
      PROVE  StopsOnlyWhenCancelled'
  BY <1>1, <1>4 DEF CallbackReturns, CallbackPanics, CallbackOver, Resume
<1>5. ASSUME NEW r \in Runners, RunCheck(r) PROVE StopsOnlyWhenCancelled'
  BY <1>1, <1>5 DEF RunCheck
<1>6. ASSUME NEW r \in Runners, RunStep(r), ~RunCheck(r)
      PROVE  StopsOnlyWhenCancelled'
  BY <1>1, <1>6 DEF RunStep, RunSelectIdle, RunArm, RunSelectTimer, RunTimerFires
<1>7. ASSUME NEW r \in Runners, Cancel(r) PROVE StopsOnlyWhenCancelled'
  BY <1>1, <1>7 DEF Cancel
<1>8. ASSUME UNCHANGED <<pc, cancelled>> PROVE StopsOnlyWhenCancelled'
  BY <1>1, <1>8
<1> QED
  BY <1>2, <1>3, <1>4, <1>5, <1>6, <1>7, <1>8
     DEF Next, ExecuteStep, RunStep, GetNextTask, Tick, vars

(* A Run loop returns only when its context is done: no callback that      *)
(* panics, no other consumer that empties the heap first and no wake-up    *)
(* ends one, for any number of Run loops and clients.                      *)
THEOREM RunStopsOnlyWhenCancelled == Spec => []StopsOnlyWhenCancelled
<1>1. Init => StopInv
  BY SchedulerAssumption DEF Init, StopInv, TypeOK, StopsOnlyWhenCancelled,
     Goroutines, RunStates
<1>2. StopInv /\ [Next]_vars => StopInv'
  BY StopStep, TypeStep DEF StopInv
<1>3. StopInv => StopsOnlyWhenCancelled
  BY DEF StopInv
<1> QED BY <1>1, <1>2, <1>3, PTL DEF Spec

-----------------------------------------------------------------------------
(* One Run loop and no other consumer: what Run saw is still there when it *)
(* acts, so it starts only due tasks and implements the contract.          *)

SoleConsumer == Clients = {} /\ \E r : Runners = {r}

IdleHasNoTask == \A g \in Goroutines : pc[g] # "callback" => cur[g] = None

SoleInv ==
  /\ TypeOK
  /\ Accounted
  /\ IdleHasNoTask
  /\ SeenIsStillThere
  /\ NeverEarly

(* The root of the heap is due as soon as any task of the heap is.         *)
LEMMA RootIsDue ==
  ASSUME TypeOK, NEW t \in Earliest(heap), \E u \in heap : ExecuteAt[u] <= now
  PROVE  t \in Tasks /\ ExecuteAt[t] <= now
<1>1. PICK u \in heap : ExecuteAt[u] <= now
  OBVIOUS
<1>2. ~(ExecuteAt[u] < ExecuteAt[t])
  BY <1>1 DEF Earliest, Less
<1> QED BY <1>1, <1>2, SchedulerAssumption DEF TypeOK, Earliest

LEMMA IdleStep == TypeOK /\ IdleHasNoTask /\ [Next]_vars => IdleHasNoTask'
<1> SUFFICES ASSUME TypeOK, IdleHasNoTask, [Next]_vars PROVE IdleHasNoTask'
  OBVIOUS
<1> USE DEF TypeOK, IdleHasNoTask, Goroutines
<1>1. ASSUME NEW g \in Goroutines, ExecutePop(g) PROVE IdleHasNoTask'
  BY <1>1 DEF ExecutePop
<1>2. ASSUME NEW g \in Goroutines, CallbackReturns(g) \/ CallbackPanics(g)
      PROVE  IdleHasNoTask'
  BY <1>2 DEF CallbackReturns, CallbackPanics, CallbackOver
<1>3. ASSUME UNCHANGED cur,
             \A g \in Goroutines : pc'[g] = "callback" <=> pc[g] = "callback"
      PROVE  IdleHasNoTask'
  BY <1>3
<1>4. ASSUME NEW r \in Runners, RunStep(r) \/ Cancel(r) PROVE IdleHasNoTask'
  BY <1>3, <1>4 DEF RunStep, RunCheck, RunSelectIdle, RunArm, RunSelectTimer,
                    RunTimerFires, Cancel, Parked
<1>5. ASSUME NEW t \in Tasks, AddTaskPush(t) \/ AddTaskSignal(t)
      PROVE  IdleHasNoTask'
  BY <1>3, <1>5 DEF AddTaskPush, AddTaskSignal, Parked
<1>6. ASSUME NEW g \in Goroutines, ExecuteEmpty(g) PROVE IdleHasNoTask'
  BY <1>3, <1>6 DEF ExecuteEmpty, Entry, Resume
<1>7. ASSUME UNCHANGED <<pc, cur>> PROVE IdleHasNoTask'
  BY <1>7
<1> QED
  BY <1>1, <1>2, <1>4, <1>5, <1>6, <1>7
     DEF Next, ExecuteStep, GetNextTask, Tick, vars

(* Only the sole Run removes a task, and it has none pending while it does *)
(* so; time brings the timer and the due time closer at the same rate.     *)
LEMMA SeenStep ==
  SoleConsumer /\ SoleInv /\ [Next]_vars => SeenIsStillThere'
<1> SUFFICES ASSUME SoleConsumer, SoleInv, [Next]_vars PROVE SeenIsStillThere'
  OBVIOUS
<1> USE SchedulerAssumption DEF SoleInv, TypeOK, SeenIsStillThere, Goroutines
<1>1. PICK r : Runners = {r} /\ Goroutines = {r}
  BY DEF SoleConsumer
<1>2. ASSUME heap \subseteq heap', UNCHANGED <<now, timer>>,
             pc'[r] \in {"execute"} \cup Armed \cup {"arm"} =>
               \/ pc'[r] = pc[r]
               \/ pc[r] \in {"execute"} \cup Armed \cup {"arm"}
                  /\ (pc'[r] = "execute" => timer[r] = 0 /\ pc[r] \in Armed)
                  /\ (pc'[r] # "execute" => pc[r] # "execute")
      PROVE  SeenIsStillThere'
  BY <1>1, <1>2 DEF Armed
<1>3. ASSUME NEW t \in Tasks, AddTaskPush(t) \/ AddTaskSignal(t)
      PROVE  SeenIsStillThere'
  BY <1>1, <1>2, <1>3 DEF AddTaskPush, AddTaskSignal, Parked, Armed
<1>4. ASSUME ExecuteStep(r) PROVE SeenIsStillThere'
  BY <1>1, <1>4 DEF ExecuteStep, ExecuteEmpty, ExecutePop, CallbackReturns,
                    CallbackPanics, CallbackOver, Entry, Resume, Armed
<1>5. ASSUME RunCheck(r) PROVE SeenIsStillThere'
  <2>1. CASE pc'[r] \in {"execute", "arm"}
    <3>1. PICK next \in Earliest(heap) :
            \/ ExecuteAt[next] - now <= 0 /\ pc' = [pc EXCEPT ![r] = "execute"]
            \/ /\ pc' = [pc EXCEPT ![r] = "arm"]
               /\ timer' = [timer EXCEPT ![r] = ExecuteAt[next] - now]
      BY <1>1, <1>5, <2>1 DEF RunCheck, Due
    <3>2. next \in heap' /\ ExecuteAt[next] \in Int /\ UNCHANGED <<now, heap>>
      BY <1>5 DEF RunCheck, Earliest
    <3> QED BY <1>1, <3>1, <3>2 DEF Armed
  <2>2. CASE pc'[r] = "selectIdle"
    BY <1>1, <2>2 DEF Armed
  <2> QED BY <1>1, <1>5, <2>1, <2>2 DEF RunCheck
<1>6. ASSUME RunSelectIdle(r) \/ RunArm(r) \/ RunSelectTimer(r)
               \/ RunTimerFires(r) \/ Cancel(r)
      PROVE  SeenIsStillThere'
  BY <1>1, <1>2, <1>6 DEF RunSelectIdle, RunArm, RunSelectTimer, RunTimerFires,
                          Cancel, Armed, Parked
<1>7. CASE Tick
  <2>1. UNCHANGED <<heap, pc>> /\ now' \in Int /\ now <= now'
    BY <1>7 DEF Tick
  <2>2. pc[r] \in Armed \cup {"arm"} =>
          \E t \in heap : ExecuteAt[t] <= now' + timer'[r]
    <3> SUFFICES ASSUME pc[r] \in Armed \cup {"arm"}
                 PROVE  \E t \in heap : ExecuteAt[t] <= now' + timer'[r]
      OBVIOUS
    <3>1. PICK t \in heap : ExecuteAt[t] <= now + timer[r]
      BY <1>1
    <3>2. now' = Horizon => ExecuteAt[t] <= now'
      BY <3>1
    <3>3. timer'[r] \in 0..Horizon /\ timer'[r] >= timer[r] - 1
      BY <1>1, <1>7 DEF Tick
    <3>4. now' = Horizon \/ now' = now + 1
      BY <1>7 DEF Tick
    <3> QED BY <1>1, <3>1, <3>2, <3>3, <3>4
  <2> QED BY <1>1, <2>1, <2>2
<1>8. CASE UNCHANGED vars
  BY <1>8 DEF vars
<1> QED
  BY <1>1, <1>3, <1>4, <1>5, <1>6, <1>7, <1>8
     DEF Next, RunStep, SoleConsumer

LEMMA NeverEarlyStep ==
  SoleConsumer /\ SoleInv /\ [Next]_vars => NeverEarly'
<1> SUFFICES ASSUME SoleConsumer, SoleInv, [Next]_vars PROVE NeverEarly'
  OBVIOUS
<1> USE SchedulerAssumption DEF SoleInv, NeverEarly, TypeOK
<1>1. PICK r : Runners = {r} /\ Goroutines = {r} /\ Clients = {}
  BY DEF SoleConsumer, Goroutines
<1>2. ASSUME ExecutePop(r) PROVE NeverEarly'
  <2>1. PICK t \in Earliest(heap) :
          /\ cur' = [cur EXCEPT ![r] = t]
          /\ startedAt' = [startedAt EXCEPT ![t] = now]
    BY <1>2 DEF ExecutePop
  <2>2. \E u \in heap : ExecuteAt[u] <= now
    BY <1>1, <1>2 DEF ExecutePop, Entry, SeenIsStillThere
  <2>3. t \in Tasks /\ ExecuteAt[t] <= now
    BY <2>2, RootIsDue
  <2> QED BY <1>1, <2>1, <2>3
<1>3. ASSUME CallbackOver(r) PROVE NeverEarly'
  BY <1>1, <1>3 DEF CallbackOver
<1>4. ASSUME UNCHANGED <<cur, startedAt>> PROVE NeverEarly'
  BY <1>4
<1> QED
  BY <1>1, <1>2, <1>3, <1>4
     DEF Next, ExecuteStep, RunStep, ExecuteEmpty, CallbackReturns, CallbackPanics,
         AddTaskPush, AddTaskSignal, RunCheck, RunSelectIdle, RunArm,
         RunSelectTimer, RunTimerFires, Cancel, Tick, vars

LEMMA SoleInit == Init => SoleInv
BY SchedulerAssumption
   DEF Init, SoleInv, TypeOK, Accounted, IdleHasNoTask, SeenIsStillThere, NeverEarly,
       Goroutines, RunStates, Armed, Never

LEMMA SoleStep == SoleConsumer /\ SoleInv /\ [Next]_vars => SoleInv'
BY TypeStep, AccountedStep, IdleStep, SeenStep, NeverEarlyStep
   DEF SoleInv, AccountedInv

(* With a single Run loop no callback runs before its ExecuteAt, whatever  *)
(* the tasks and however AddTask, the timer and the clock interleave.      *)
THEOREM SoleRunNeverEarly ==
  ASSUME SoleConsumer
  PROVE  Spec => []NeverEarly
<1>1. SoleInv => NeverEarly
  BY DEF SoleInv
<1> QED BY SoleInit, SoleStep, <1>1, SoleConsumer, PTL DEF Spec

(* What the sole Run decides after it has looked at the heap is still right *)
(* when it acts on it, whatever AddTask and the clock did in between.      *)
THEOREM SoleRunActsOnTruth ==
  ASSUME SoleConsumer
  PROVE  Spec => []SeenIsStillThere
<1>1. SoleInv => SeenIsStillThere
  BY DEF SoleInv
<1> QED BY SoleInit, SoleStep, <1>1, SoleConsumer, PTL DEF Spec

-----------------------------------------------------------------------------
(* Every step of the loop is a step of the contract or changes nothing the *)
(* contract can see.                                                       *)
LEMMA ContractStep ==
  SoleConsumer /\ SoleInv /\ SoleInv' /\ [Next]_vars => [Contract!Next]_(Contract!vars)
<1> SUFFICES ASSUME SoleConsumer, SoleInv, SoleInv', [Next]_vars
             PROVE  Contract!Next \/ UNCHANGED <<now, heap, Executing, startedAt>>
  BY DEF Contract!vars
<1> USE SchedulerAssumption DEF SoleInv, TypeOK
<1>1. PICK r : Runners = {r} /\ Goroutines = {r} /\ Clients = {}
  BY DEF SoleConsumer, Goroutines
<1>2. Executing = {cur[r]} \ {None}
  BY <1>1 DEF Executing
<1>3. Executing' = {cur'[r]} \ {None}
  BY <1>1 DEF Executing
<1>4. ASSUME NEW t \in Tasks, AddTaskPush(t) PROVE Contract!Accept(t)
  BY <1>2, <1>3, <1>4 DEF AddTaskPush, Accounted, Contract!Accept, Never, Contract!Never
<1>5. ASSUME ExecutePop(r) PROVE \E t \in Tasks : Contract!Start(t)
  <2>1. PICK t \in Earliest(heap) :
          /\ heap' = heap \ {t}
          /\ cur' = [cur EXCEPT ![r] = t]
          /\ startedAt' = [startedAt EXCEPT ![t] = now]
    BY <1>5 DEF ExecutePop, PopTask
  <2>2. t \in heap /\ \A u \in heap : ~Contract!Precedes(u, t)
    BY DEF Earliest, Less, Contract!Precedes
  <2>3. \E u \in heap : ExecuteAt[u] <= now
    BY <1>1, <1>5 DEF ExecutePop, Entry, SeenIsStillThere
  <2>4. t \in Tasks /\ ExecuteAt[t] <= now
    BY <2>3, RootIsDue
  <2>5. Executing = {}
    BY <1>1, <1>2, <1>5 DEF ExecutePop, Entry, IdleHasNoTask
  <2>6. Executing' = {t} /\ now' = now
    BY <1>1, <1>3, <1>5, <2>1, <2>4 DEF ExecutePop
  <2> QED BY <2>1, <2>2, <2>4, <2>5, <2>6 DEF Contract!Start
<1>6. ASSUME CallbackOver(r) PROVE Contract!Finish
  BY <1>1, <1>3, <1>6 DEF CallbackOver, Contract!Finish
<1>7. ASSUME Tick PROVE Contract!Tick
  BY <1>2, <1>3, <1>7 DEF Tick, Contract!Tick
<1>8. ASSUME UNCHANGED <<now, heap, cur, startedAt>>
      PROVE  UNCHANGED <<now, heap, Executing, startedAt>>
  BY <1>2, <1>3, <1>8
<1> QED
  BY <1>1, <1>4, <1>5, <1>6, <1>7, <1>8
     DEF Next, Contract!Next, ExecuteStep, RunStep, ExecuteEmpty, CallbackReturns,
         CallbackPanics, AddTaskSignal, RunCheck, RunSelectIdle, RunArm,
         RunSelectTimer, RunTimerFires, Cancel, vars

(* One Run loop implements the contract for any tasks: first pending task  *)
(* first, never early, never twice, one at a time.                         *)
THEOREM SoleRunImplementsContract ==
  ASSUME SoleConsumer
  PROVE  Spec => ImplementsContract
<1>1. Init => Contract!Init
  BY DEF Init, Contract!Init, Executing, Never, Contract!Never
<1> QED
  BY SoleInit, SoleStep, ContractStep, <1>1, SoleConsumer, PTL
     DEF Spec, ImplementsContract, Contract!Spec
=============================================================================
