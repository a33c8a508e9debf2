------------------------- MODULE HealthCheckerProofs -------------------------
(***************************************************************************)
(* Theorems about RunChecker for every list of URLs and every pool size.   *)
(***************************************************************************)
EXTENDS HealthChecker, FiniteSetTheorems, TLAPS

(* Where a worker holds a URL, and that it does. *)
Holding == {"received", "check", "http", "send"}
Busy == {w \in Workers : worker[w] \in Holding}
HoldsJob == \A w \in Workers : worker[w] \in Holding => job[w] # 0

TypeInv == TypeOK /\ HoldsJob

(***************************************************************************)
(* The caller closes results only when every worker has exited.            *)
(***************************************************************************)
PhaseInv ==
  /\ resultsClosed = (main # "wait")
  /\ main = "wait" => out = <<>>
  /\ main # "wait" => \A w \in Workers : worker[w] = "exited"
  /\ \A w \in Workers : worker[w] # "panicked"

(***************************************************************************)
(* What is in the channels, in the hands of workers and in the output has  *)
(* been fed, so there is room in results for what a worker holds; unless   *)
(* the run is interrupted, it is all that has been fed.                    *)
(***************************************************************************)
InPipeline == Len(jobs) + Cardinality(Busy) + Len(results) + Len(out)

CountInv ==
  /\ InPipeline <= fed
  /\ ~interrupted => InPipeline = fed

(* The group has an error only if a worker saw an interrupt.               *)
ErrorInv ==
  /\ ctxDone => interrupted \/ main # "wait"
  /\ err => interrupted
  /\ main = "failed" => err

(* Channels as sequences: what a send and a receive leave behind.          *)
LEMMA SendTyped ==
  ASSUME NEW S, NEW s \in Seq(S), NEW e \in S
  PROVE  Append(s, e) \in Seq(S) /\ Len(Append(s, e)) = Len(s) + 1
OBVIOUS

LEMMA ReceiveTyped ==
  ASSUME NEW S, NEW s \in Seq(S), s # <<>>
  PROVE  Head(s) \in S /\ Tail(s) \in Seq(S) /\ Len(Tail(s)) = Len(s) - 1
OBVIOUS

LEMMA TypeStep == TypeInv /\ [Next]_vars => TypeInv'
<1> SUFFICES ASSUME TypeInv, [Next]_vars PROVE TypeInv'
  OBVIOUS
<1>0. n' = n /\ CheckResults' = CheckResults
  BY DEF Next, vars, CheckResults, Feed, FeederStops, WorkerStep, Receive, RangeEnds,
         Bail, CallCheckUrl, StartRequest, EndRequest, Send, MainStep, WaitReturns,
         Drain, FinishRunE, Interrupt, Over
<1> USE HealthAssumption, <1>0
    DEF TypeInv, TypeOK, HoldsJob, Holding, Workers, WorkerStates, MainStates,
        AllOutcomes, workerVars, feederVars, channelVars, contextVars, mainVars
<1>1. CASE Feed
  BY <1>1 DEF Feed, RoomInJobs
<1>2. CASE FeederStops
  BY <1>2 DEF FeederStops
<1>3. ASSUME NEW w \in Workers, Receive(w) PROVE TypeInv'
  BY <1>3 DEF Receive
<1>4. ASSUME NEW w \in Workers, RangeEnds(w) PROVE TypeInv'
  BY <1>4 DEF RangeEnds
<1>5. ASSUME NEW w \in Workers, Bail(w) PROVE TypeInv'
  BY <1>5 DEF Bail
<1>6. ASSUME NEW w \in Workers, CallCheckUrl(w) PROVE TypeInv'
  BY <1>6 DEF CallCheckUrl
<1>7. ASSUME NEW w \in Workers, StartRequest(w) PROVE TypeInv'
  BY <1>7 DEF StartRequest
<1>8. ASSUME NEW w \in Workers, EndRequest(w) PROVE TypeInv'
  BY <1>8 DEF EndRequest
<1>9. ASSUME NEW w \in Workers, Send(w) PROVE TypeInv'
  <2>1. CASE resultsClosed
    BY <1>9, <2>1 DEF Send
  <2>2. CASE ~resultsClosed
    <3>1. <<job[w], outcome[w]>> \in CheckResults
      BY <1>9 DEF Send, CheckResults
    <3>2. results' \in Seq(CheckResults)
      BY ONLY SMTT(20), <1>9, <2>2, <3>1, SendTyped, results \in Seq(CheckResults)
         DEF Send
    <3>3. worker' = [worker EXCEPT ![w] = "receive"] /\ job' = [job EXCEPT ![w] = 0]
      BY <1>9, <2>2 DEF Send
    <3>4. UNCHANGED <<n, pool, feederVars, outcome, jobs, jobsClosed, resultsClosed,
                      contextVars, mainVars>>
      BY <1>9 DEF Send
    <3> QED BY <3>2, <3>3, <3>4
  <2> QED BY <2>1, <2>2
<1>10. CASE WaitReturns
  BY <1>10 DEF WaitReturns
<1>11. CASE Drain
  <2>1. results' \in Seq(CheckResults) /\ out' \in Seq(CheckResults)
    BY ONLY <1>11, SendTyped, ReceiveTyped, results \in Seq(CheckResults),
            out \in Seq(CheckResults)
       DEF Drain
  <2> QED BY <1>11, <2>1 DEF Drain
<1>12. CASE FinishRunE
  BY <1>12 DEF FinishRunE
<1>13. CASE Interrupt
  BY <1>13 DEF Interrupt
<1>14. CASE UNCHANGED vars
  BY <1>14 DEF vars
<1> QED
  BY <1>1, <1>2, <1>3, <1>4, <1>5, <1>6, <1>7, <1>8, <1>9, <1>10, <1>11, <1>12,
     <1>13, <1>14
     DEF Next, WorkerStep, MainStep, Over

LEMMA PhaseStep == TypeInv /\ PhaseInv /\ [Next]_vars => PhaseInv'
<1> SUFFICES ASSUME TypeInv, PhaseInv, [Next]_vars PROVE PhaseInv'
  OBVIOUS
<1> USE DEF TypeInv, TypeOK, PhaseInv, Workers, MainStates,
            workerVars, feederVars, channelVars, contextVars, mainVars
<1>1. ASSUME NEW w \in Workers, WorkerStep(w) PROVE PhaseInv'
  BY <1>1 DEF WorkerStep, Receive, RangeEnds, Bail, CallCheckUrl, StartRequest,
              EndRequest, Send
<1>2. CASE Feed \/ FeederStops \/ Interrupt
  BY <1>2 DEF Feed, FeederStops, Interrupt
<1>3. CASE WaitReturns
  BY <1>3 DEF WaitReturns, GroupIsDone
<1>4. CASE Drain \/ FinishRunE
  BY <1>4 DEF Drain, FinishRunE
<1>5. CASE UNCHANGED vars
  BY <1>5 DEF vars
<1> QED BY <1>1, <1>2, <1>3, <1>4, <1>5 DEF Next, MainStep, Over

LEMMA ErrorStep == PhaseInv /\ ErrorInv /\ [Next]_vars => ErrorInv'
<1> SUFFICES ASSUME PhaseInv, ErrorInv, [Next]_vars PROVE ErrorInv'
  OBVIOUS
<1> USE DEF PhaseInv, ErrorInv, workerVars, feederVars, channelVars, contextVars, mainVars
<1>1. ASSUME NEW w \in Workers, Bail(w) PROVE ErrorInv'
  BY <1>1 DEF Bail
<1>2. ASSUME NEW w \in Workers, WorkerStep(w), ~Bail(w) PROVE ErrorInv'
  BY <1>2 DEF WorkerStep, Receive, RangeEnds, CallCheckUrl, StartRequest, EndRequest,
              Send
<1>3. CASE Feed \/ FeederStops \/ Interrupt
  BY <1>3 DEF Feed, FeederStops, Interrupt
<1>4. CASE MainStep
  BY <1>4 DEF MainStep, WaitReturns, Drain, FinishRunE
<1>5. CASE UNCHANGED vars
  BY <1>5 DEF vars
<1> QED BY <1>1, <1>2, <1>3, <1>4, <1>5 DEF Next, Over

LEMMA BusyFinite ==
  ASSUME TypeInv
  PROVE  IsFiniteSet(Busy) /\ Cardinality(Busy) \in Nat
<1>1. pool \in Nat
  BY HealthAssumption DEF TypeInv, TypeOK
<1>2. IsFiniteSet(Workers)
  BY <1>1, FS_Interval DEF Workers
<1>3. IsFiniteSet(Busy)
  BY <1>2, FS_Subset DEF Busy
<1> QED BY <1>3, FS_CardinalityType

(* How a worker's step changes the number of workers that hold a URL.      *)
LEMMA BusyChange ==
  ASSUME TypeInv, NEW w \in Workers, NEW s, worker' = [worker EXCEPT ![w] = s],
         UNCHANGED pool
  PROVE  /\ worker[w] \in Holding /\ s \in Holding =>
              Cardinality(Busy') = Cardinality(Busy)
         /\ worker[w] \in Holding /\ s \notin Holding =>
              Cardinality(Busy') = Cardinality(Busy) - 1
         /\ worker[w] \notin Holding /\ s \in Holding =>
              Cardinality(Busy') = Cardinality(Busy) + 1
         /\ worker[w] \notin Holding /\ s \notin Holding =>
              Cardinality(Busy') = Cardinality(Busy)
<1>1. Workers' = Workers /\ worker'[w] = s
      /\ \A v \in Workers : v # w => worker'[v] = worker[v]
  BY DEF Workers, TypeInv, TypeOK
<1>2. /\ worker[w] \in Holding /\ s \in Holding => Busy' = Busy
      /\ worker[w] \in Holding /\ s \notin Holding => Busy' = Busy \ {w}
      /\ worker[w] \notin Holding /\ s \in Holding => Busy' = Busy \cup {w}
      /\ worker[w] \notin Holding /\ s \notin Holding => Busy' = Busy
  BY <1>1 DEF Busy
<1>3. worker[w] \in Holding <=> w \in Busy
  BY DEF Busy
<1>4. w \in Busy => Cardinality(Busy \ {w}) = Cardinality(Busy) - 1
  BY BusyFinite, FS_RemoveElement
<1>5. w \notin Busy => Cardinality(Busy \cup {w}) = Cardinality(Busy) + 1
  BY BusyFinite, FS_AddElement
<1> QED BY <1>2, <1>3, <1>4, <1>5

LEMMA CountStep ==
  TypeInv /\ TypeInv' /\ PhaseInv /\ ErrorInv /\ CountInv /\ [Next]_vars => CountInv'
<1> SUFFICES ASSUME TypeInv, TypeInv', PhaseInv, ErrorInv, CountInv, [Next]_vars
             PROVE  CountInv'
  OBVIOUS
<1> USE DEF CountInv, InPipeline, workerVars, feederVars, channelVars, contextVars, mainVars
<1>0. /\ n \in Nat /\ fed \in Nat /\ Cardinality(Busy) \in Nat
      /\ jobs \in Seq(1..n) /\ results \in Seq(CheckResults) /\ out \in Seq(CheckResults)
      /\ Len(jobs) \in Nat /\ Len(results) \in Nat /\ Len(out) \in Nat
  BY SMTT(20), BusyFinite, HealthAssumption DEF TypeInv, TypeOK
<1>L. /\ Len(jobs) \in Nat /\ Len(results) \in Nat /\ Len(out) \in Nat
      /\ Cardinality(Busy) \in Nat /\ InPipeline \in Nat /\ fed \in Nat
  BY <1>0
<1>1. CASE Feed
  <2>1. fed + 1 \in 1..n
    BY <1>1, <1>0 DEF Feed
  <2>2. Len(jobs') = Len(jobs) + 1
    BY <1>0, <1>1, <2>1, SendTyped DEF Feed
  <2>3. Busy' = Busy
    BY <1>1 DEF Feed, Busy, Workers
  <2>4. fed' = fed + 1 /\ UNCHANGED <<results, out, interrupted>>
    BY <1>1 DEF Feed
  <2>5. InPipeline' = InPipeline + 1
    BY <1>0, <2>2, <2>3, <2>4
  <2> HIDE DEF InPipeline
  <2> QED BY <1>L, <2>4, <2>5
<1>2. ASSUME NEW w \in Workers, Receive(w) PROVE CountInv'
  <2>1. Len(jobs') = Len(jobs) - 1
    BY <1>0, <1>2, ReceiveTyped DEF Receive
  <2>2. Cardinality(Busy') = Cardinality(Busy) + 1
    BY <1>2, BusyChange DEF Receive, Holding
  <2> QED BY <1>0, <1>2, <2>1, <2>2 DEF Receive
<1>3. ASSUME NEW w \in Workers, RangeEnds(w) PROVE CountInv'
  <2>1. Cardinality(Busy') = Cardinality(Busy)
    <3>1. worker' = [worker EXCEPT ![w] = "exited"] /\ pool' = pool
          /\ worker[w] \notin Holding
      BY <1>3 DEF RangeEnds, Holding
    <3>2. "exited" \notin Holding
      BY DEF Holding
    <3> HIDE DEF CountInv, InPipeline
    <3> QED BY <3>1, <3>2, BusyChange
  <2> QED BY <1>3, <2>1 DEF RangeEnds
<1>4. ASSUME NEW w \in Workers, Bail(w) PROVE CountInv'
  <2>1. Cardinality(Busy') = Cardinality(Busy) - 1
    <3>1. worker' = [worker EXCEPT ![w] = "exited"] /\ pool' = pool
          /\ worker[w] \in Holding
      BY <1>4 DEF Bail, Holding
    <3>2. "exited" \notin Holding
      BY DEF Holding
    <3> HIDE DEF CountInv, InPipeline
    <3> QED BY <3>1, <3>2, BusyChange
  <2>2. interrupted
    BY <1>4 DEF Bail, PhaseInv, ErrorInv
  <2> QED BY <1>0, <1>4, <2>1, <2>2 DEF Bail
<1>5. ASSUME NEW w \in Workers, CallCheckUrl(w) \/ StartRequest(w) \/ EndRequest(w)
      PROVE  CountInv'
  <2>1. Cardinality(Busy') = Cardinality(Busy)
    BY <1>5, BusyChange DEF CallCheckUrl, StartRequest, EndRequest, Holding
  <2> QED BY <1>5, <2>1 DEF CallCheckUrl, StartRequest, EndRequest
<1>6. ASSUME NEW w \in Workers, Send(w) PROVE CountInv'
  <2>1. ~resultsClosed
    BY <1>6 DEF Send, PhaseInv
  <2>2. <<job[w], outcome[w]>> \in CheckResults
    BY <1>6 DEF Send, CheckResults, TypeInv, TypeOK, HoldsJob, Holding, Workers
  <2>3. Len(results') = Len(results) + 1
    BY <1>0, <1>6, <2>1, <2>2, SendTyped DEF Send
  <2>4. Cardinality(Busy') = Cardinality(Busy) - 1
    BY <1>6, <2>1, BusyChange DEF Send, Holding
  <2>5. InPipeline' = InPipeline
    <3>1. UNCHANGED <<jobs, out>>
      BY <1>6 DEF Send
    <3>2. \A j, b, r, o \in Nat : j + (b - 1) + (r + 1) + o = j + b + r + o
      OBVIOUS
    <3>3. InPipeline' = Len(jobs) + (Cardinality(Busy) - 1) + (Len(results) + 1) + Len(out)
      BY ONLY <2>3, <2>4, <3>1 DEF InPipeline
    <3>4. Len(jobs) + (Cardinality(Busy) - 1) + (Len(results) + 1) + Len(out)
            = Len(jobs) + Cardinality(Busy) + Len(results) + Len(out)
      BY ONLY <1>L, <3>2
    <3> QED BY ONLY <3>3, <3>4 DEF InPipeline
  <2>6. UNCHANGED <<fed, interrupted>>
    BY <1>6 DEF Send
  <2> HIDE DEF InPipeline
  <2> QED BY <2>5, <2>6
<1>7. CASE Drain
  <2>1. Busy' = Busy /\ UNCHANGED <<fed, jobs, interrupted>>
    BY <1>7 DEF Drain, Busy, Workers
  <2>2. CASE UNCHANGED <<out, results>>
    BY <2>1, <2>2
  <2>3. CASE results # <<>> /\ out' = Append(out, Head(results)) /\ results' = Tail(results)
    <3>1. Len(results') = Len(results) - 1 /\ Head(results) \in CheckResults
      BY <1>0, <2>3, ReceiveTyped
    <3>2. Len(out') = Len(out) + 1
      BY <1>0, <2>3, <3>1, SendTyped
    <3>3. InPipeline' = InPipeline
      <4>1. Len(results') = Len(results) - 1
        BY <3>1
      <4>2. jobs' = jobs /\ Cardinality(Busy)' = Cardinality(Busy)
        BY <2>1
      <4> QED BY ONLY <1>L, <4>1, <4>2, <3>2 DEF InPipeline
    <3> HIDE DEF InPipeline
    <3> QED BY <2>1, <3>3
  <2> QED BY <1>7, <2>2, <2>3 DEF Drain
<1>8. ASSUME UNCHANGED <<pool, fed, jobs, worker, results, out>>,
             interrupted => interrupted'
      PROVE  CountInv'
  BY <1>8 DEF Busy, Workers
<1> QED
  BY <1>1, <1>2, <1>3, <1>4, <1>5, <1>6, <1>7, <1>8
     DEF Next, WorkerStep, MainStep, FeederStops, WaitReturns, FinishRunE, Interrupt,
         Over, vars

-----------------------------------------------------------------------------
HealthInv == TypeInv /\ PhaseInv /\ CountInv /\ ErrorInv

LEMMA HealthInit == Init => HealthInv
<1> SUFFICES ASSUME Init PROVE HealthInv
  OBVIOUS
<1>1. TypeInv
  <2>1. n \in Nat /\ pool \in Nat
    BY HealthAssumption DEF Init
  <2>2. jobs \in Seq(1..n) /\ Len(jobs) <= pool
    BY <2>1 DEF Init
  <2>3. results \in Seq(CheckResults) /\ out \in Seq(CheckResults)
    BY DEF Init
  <2>4. /\ worker \in [Workers -> WorkerStates]
        /\ job \in [Workers -> 0..n]
        /\ outcome \in [Workers -> AllOutcomes]
        /\ HoldsJob
    BY <2>1 DEF Init, WorkerStates, AllOutcomes, HoldsJob, Holding
  <2>5. fed \in 0..n
    BY <2>1 DEF Init
  <2> QED BY <2>1, <2>2, <2>3, <2>4, <2>5 DEF Init, TypeInv, TypeOK, MainStates
<1>2. Busy = {}
  BY DEF Init, Busy, Holding
<1>3. CountInv
  BY <1>2, FS_EmptySet DEF Init, CountInv, InPipeline
<1> QED BY <1>1, <1>3 DEF Init, HealthInv, PhaseInv, ErrorInv

LEMMA HealthStep == HealthInv /\ [Next]_vars => HealthInv'
BY TypeStep, PhaseStep, CountStep, ErrorStep DEF HealthInv

(* For any list and pool size, a worker that has a result to send finds    *)
(* room in results, and results open.                                      *)
THEOREM SendsNeverBlock == Spec => []SendNeverBlocks
<1>1. HealthInv => SendNeverBlocks
  <2> SUFFICES ASSUME HealthInv, NEW w \in Workers, worker[w] = "send"
               PROVE  Len(results) < ResultsCapacity /\ ~resultsClosed
    BY DEF HealthInv, PhaseInv, SendNeverBlocks
  <2>1. w \in Busy
    BY DEF Busy, Holding
  <2>2. Cardinality(Busy) # 0
    BY <2>1, BusyFinite, FS_EmptySet DEF HealthInv
  <2>3. ~resultsClosed /\ out = <<>>
    BY DEF HealthInv, PhaseInv
  <2>4. fed <= n /\ n \in Nat /\ fed \in Nat /\ Len(jobs) \in Nat /\ Len(results) \in Nat
    BY HealthAssumption DEF HealthInv, TypeInv, TypeOK
  <2> QED BY <2>2, <2>3, <2>4, BusyFinite DEF HealthInv, CountInv, InPipeline, ResultsCapacity
<1> QED BY <1>1, HealthInit, HealthStep, PTL DEF Spec

(* RunE reports an error only for an interrupt, never for what a check     *)
(* came to: the first error of the group is always the context's.          *)
THEOREM FailureMeansInterrupt == Spec => []FailsOnlyWhenInterrupted
<1>1. HealthInv => FailsOnlyWhenInterrupted
  BY DEF HealthInv, ErrorInv, FailsOnlyWhenInterrupted
<1> QED BY <1>1, HealthInit, HealthStep, PTL DEF Spec

-----------------------------------------------------------------------------
(* How often something is in a channel, and what a send and a receive do   *)
(* to that.                                                                *)

Occurs(s, P) == {k \in DOMAIN s : s[k] \in P}

LEMMA OccursFinite ==
  ASSUME NEW S, NEW s \in Seq(S), NEW P
  PROVE  IsFiniteSet(Occurs(s, P)) /\ Cardinality(Occurs(s, P)) \in Nat
<1>1. DOMAIN s = 1..Len(s) /\ Len(s) \in Nat
  OBVIOUS
<1>2. IsFiniteSet(DOMAIN s)
  BY <1>1, FS_Interval
<1>3. IsFiniteSet(Occurs(s, P))
  BY <1>2, FS_Subset DEF Occurs
<1> QED BY <1>3, FS_CardinalityType

LEMMA OccursSend ==
  ASSUME NEW S, NEW s \in Seq(S), NEW e \in S, NEW P
  PROVE  Cardinality(Occurs(Append(s, e), P)) =
           Cardinality(Occurs(s, P)) + (IF e \in P THEN 1 ELSE 0)
<1>1. e \in P => Occurs(Append(s, e), P) = Occurs(s, P) \cup {Len(s) + 1}
  BY DEF Occurs
<1>2. e \notin P => Occurs(Append(s, e), P) = Occurs(s, P)
  BY DEF Occurs
<1>3. Len(s) + 1 \notin Occurs(s, P)
  BY DEF Occurs
<1>4. Cardinality(Occurs(s, P) \cup {Len(s) + 1}) = Cardinality(Occurs(s, P)) + 1
  BY <1>3, OccursFinite, FS_AddElement
<1>5. Cardinality(Occurs(s, P)) \in Nat
  BY OccursFinite
<1>6. CASE e \in P
  BY ONLY <1>1, <1>4, <1>5, <1>6
<1>7. CASE e \notin P
  BY ONLY <1>2, <1>5, <1>7
<1> QED BY <1>6, <1>7

LEMMA OccursReceive ==
  ASSUME NEW S, NEW s \in Seq(S), s # <<>>, NEW P
  PROVE  Cardinality(Occurs(Tail(s), P)) =
           Cardinality(Occurs(s, P)) - (IF Head(s) \in P THEN 1 ELSE 0)
<1> DEFINE rest == Occurs(s, P) \ {1}
           back == [k \in Occurs(Tail(s), P) |-> k + 1]
<1>1. back \in Bijection(Occurs(Tail(s), P), rest)
  <2>1. \A k \in Occurs(Tail(s), P) : k \in Nat /\ k + 1 \in rest
    BY DEF Occurs
  <2>2. \A k \in rest : k \in Nat /\ k - 1 \in Occurs(Tail(s), P) /\ (k - 1) + 1 = k
    BY DEF Occurs
  <2> HIDE DEF rest
  <2>3. back \in Injection(Occurs(Tail(s), P), rest)
    BY <2>1 DEF Injection, IsInjective
  <2>4. back \in Surjection(Occurs(Tail(s), P), rest)
    BY <2>1, <2>2 DEF Surjection
  <2> QED BY <2>3, <2>4 DEF Bijection
<1>2. Tail(s) \in Seq(S)
  BY ReceiveTyped
<1>3. Cardinality(rest) = Cardinality(Occurs(Tail(s), P))
  <2>1. IsFiniteSet(Occurs(Tail(s), P))
    BY <1>2, OccursFinite
  <2>2. ExistsBijection(Occurs(Tail(s), P), rest)
    BY <1>1 DEF ExistsBijection
  <2> HIDE DEF rest
  <2> QED BY <2>1, <2>2, FS_Bijection
<1>4. 1 \in Occurs(s, P) <=> Head(s) \in P
  BY DEF Occurs
<1>5. Cardinality(rest) = IF 1 \in Occurs(s, P) THEN Cardinality(Occurs(s, P)) - 1
                          ELSE Cardinality(Occurs(s, P))
  BY OccursFinite, FS_RemoveElement
<1> HIDE DEF rest
<1> QED BY <1>3, <1>4, <1>5, OccursFinite

-----------------------------------------------------------------------------
(* Each URL is in one place.                                               *)

IdleHands == \A w \in Workers : worker[w] \notin Holding => job[w] = 0

LEMMA IdleHandsStep == TypeInv /\ PhaseInv /\ IdleHands /\ [Next]_vars => IdleHands'
<1> SUFFICES ASSUME TypeInv, PhaseInv, IdleHands, [Next]_vars PROVE IdleHands'
  OBVIOUS
<1> USE DEF TypeInv, TypeOK, IdleHands, Holding, Workers, workerVars, feederVars,
            channelVars, contextVars, mainVars
<1>1. ASSUME NEW w \in Workers, WorkerStep(w) PROVE IdleHands'
  BY <1>1 DEF WorkerStep, Receive, RangeEnds, Bail, CallCheckUrl, StartRequest,
              EndRequest, Send, PhaseInv
<1>2. ASSUME UNCHANGED <<pool, worker, job>> PROVE IdleHands'
  BY <1>2
<1> QED
  BY <1>1, <1>2
     DEF Next, Feed, FeederStops, MainStep, WaitReturns, Drain, FinishRunE, Interrupt,
         Over, vars

(* The four places of the URL at position i. *)
InJobs(i) == Occurs(jobs, {i})
InHands(i) == {w \in Workers : job[w] = i}
InResults(i) == Occurs(results, {i} \X AllOutcomes)
InOutput(i) == Occurs(out, {i} \X AllOutcomes)

Places(i) ==
  /\ Copies(i) = Cardinality(InJobs(i)) + Cardinality(InHands(i))
                   + Cardinality(InResults(i)) + Cardinality(InOutput(i))
  /\ Cardinality(InJobs(i)) \in Nat /\ Cardinality(InHands(i)) \in Nat
  /\ Cardinality(InResults(i)) \in Nat /\ Cardinality(InOutput(i)) \in Nat

LEMMA PlacesOfUrl == TypeInv => \A i \in 1..n : Places(i)
<1> SUFFICES ASSUME TypeInv, NEW i \in 1..n PROVE Places(i)
  OBVIOUS
<1> USE DEF TypeInv, TypeOK
<1>1. {k \in DOMAIN jobs : jobs[k] = i} = InJobs(i)
  BY DEF InJobs, Occurs
<1>2. ASSUME NEW s \in Seq(CheckResults)
      PROVE  {k \in DOMAIN s : s[k][1] = i} = Occurs(s, {i} \X AllOutcomes)
  <2>1. \A k \in DOMAIN s : s[k] \in (1..n) \X AllOutcomes
    BY DEF CheckResults
  <2>2. \A k \in DOMAIN s : s[k][1] = i <=> s[k] \in {i} \X AllOutcomes
    BY <2>1
  <2> QED BY <2>2 DEF Occurs
<1>3. {k \in DOMAIN results : results[k][1] = i} = InResults(i)
      /\ {k \in DOMAIN out : out[k][1] = i} = InOutput(i)
  BY <1>2 DEF InResults, InOutput
<1>4. IsFiniteSet(InHands(i))
  <2>1. IsFiniteSet(Workers)
    BY FS_Interval, HealthAssumption DEF Workers
  <2> QED BY <2>1, FS_Subset DEF InHands
<1>5. Cardinality(InHands(i)) \in Nat
  BY <1>4, FS_CardinalityType
<1>6. Cardinality(InJobs(i)) \in Nat
  BY OccursFinite DEF InJobs
<1>7. Cardinality(InResults(i)) \in Nat /\ Cardinality(InOutput(i)) \in Nat
  BY OccursFinite DEF InResults, InOutput
<1> QED BY <1>1, <1>3, <1>5, <1>6, <1>7 DEF Places, Copies, InHands

(* A worker takes up the URL at position new, or none if new is 0.         *)
LEMMA HandsChange ==
  ASSUME TypeInv, NEW i \in 1..n, NEW w \in Workers, NEW new \in 0..n,
         job' = [job EXCEPT ![w] = new], UNCHANGED pool, new = 0 \/ job[w] = 0
  PROVE  Cardinality(InHands(i)') =
           Cardinality(InHands(i)) + (IF new = i THEN 1 ELSE 0)
                                   - (IF job[w] = i THEN 1 ELSE 0)
<1> USE DEF TypeInv, TypeOK
<1> DEFINE after == InHands(i)'
<1> SUFFICES Cardinality(after) =
               Cardinality(InHands(i)) + (IF new = i THEN 1 ELSE 0)
                                       - (IF job[w] = i THEN 1 ELSE 0)
  OBVIOUS
<1> HIDE DEF after
<1>1. IsFiniteSet(InHands(i))
  <2>1. IsFiniteSet(Workers)
    BY FS_Interval, HealthAssumption DEF Workers
  <2> QED BY <2>1, FS_Subset DEF InHands
<1>2. Workers' = Workers /\ job'[w] = new /\ \A v \in Workers : v # w => job'[v] = job[v]
  BY DEF Workers
<1>3. CASE new = i
  <2>1. after = InHands(i) \cup {w} /\ w \notin InHands(i) /\ job[w] # i
    BY <1>2, <1>3 DEF InHands, after
  <2>2. Cardinality(InHands(i) \cup {w}) = Cardinality(InHands(i)) + 1
    BY <1>1, <2>1, FS_AddElement
  <2>3. Cardinality(InHands(i)) \in Nat
    BY <1>1, FS_CardinalityType
  <2>4. Cardinality(after) = Cardinality(InHands(i)) + 1
    BY ONLY <2>1, <2>2
  <2> QED BY ONLY <1>3, <2>1, <2>3, <2>4
<1>4. CASE new # i /\ job[w] = i
  <2>1. after = InHands(i) \ {w} /\ w \in InHands(i)
    BY <1>2, <1>4 DEF InHands, after
  <2>2. Cardinality(InHands(i) \ {w}) = Cardinality(InHands(i)) - 1
    BY <1>1, <2>1, FS_RemoveElement
  <2>3. Cardinality(InHands(i)) \in Nat
    BY <1>1, FS_CardinalityType
  <2>4. Cardinality(after) = Cardinality(InHands(i)) - 1
    BY ONLY <2>1, <2>2
  <2> QED BY ONLY <1>4, <2>3, <2>4
<1>5. CASE new # i /\ job[w] # i
  <2>1. after = InHands(i)
    BY <1>2, <1>5 DEF InHands, after
  <2>2. Cardinality(InHands(i)) \in Nat
    BY <1>1, FS_CardinalityType
  <2>3. Cardinality(after) = Cardinality(InHands(i))
    BY ONLY <2>1
  <2> QED BY ONLY <1>5, <2>2, <2>3
<1> QED BY <1>3, <1>4, <1>5

UrlOnce(i) ==
  /\ Copies(i) <= 1
  /\ i > fed => Copies(i) = 0
  /\ i <= fed /\ ~interrupted => Copies(i) = 1

LEMMA OnceStep ==
  /\ TypeInv /\ TypeInv' /\ PhaseInv /\ ErrorInv /\ IdleHands
  /\ EachUrlOnce /\ [Next]_vars
  => EachUrlOnce'
<1> SUFFICES ASSUME TypeInv, TypeInv', PhaseInv, ErrorInv, IdleHands, EachUrlOnce,
                    [Next]_vars
             PROVE  EachUrlOnce'
  OBVIOUS
<1>1. n' = n /\ pool' = pool /\ n \in Nat /\ fed \in 0..n /\ fed' \in 0..n
      /\ interrupted \in BOOLEAN
  BY HealthAssumption
     DEF Next, vars, Feed, FeederStops, WorkerStep, Receive, RangeEnds, Bail,
         CallCheckUrl, StartRequest, EndRequest, Send, MainStep, WaitReturns, Drain,
         FinishRunE, Interrupt, Over, TypeInv, TypeOK
<1>2. (TypeInv => \A i \in 1..n : Places(i))'
  BY PlacesOfUrl, PTL
<1> SUFFICES ASSUME NEW i \in 1..n PROVE UrlOnce(i)'
  BY <1>1 DEF EachUrlOnce, UrlOnce
<1>3. UrlOnce(i) /\ Places(i) /\ Places(i)'
  BY <1>1, <1>2, PlacesOfUrl DEF EachUrlOnce, UrlOnce
<1> DEFINE a == Cardinality(InJobs(i))   a1 == Cardinality(InJobs(i)')
           b == Cardinality(InHands(i))  b1 == Cardinality(InHands(i)')
           c == Cardinality(InResults(i))  c1 == Cardinality(InResults(i)')
           d == Cardinality(InOutput(i))  d1 == Cardinality(InOutput(i)')
<1>4. ASSUME a1 + b1 + c1 + d1 = a + b + c + d, fed' = fed, interrupted => interrupted'
      PROVE  UrlOnce(i)'
  BY <1>3, <1>4 DEF UrlOnce, Places
<1> HIDE DEF a, b, c, d, a1, b1, c1, d1
<1> USE DEF feederVars, workerVars, channelVars, contextVars, mainVars
<1>6. CASE Feed
  <2>1. a1 = a + (IF fed + 1 = i THEN 1 ELSE 0)
    <3>1. jobs \in Seq(1..n) /\ fed + 1 \in 1..n /\ jobs' = Append(jobs, fed + 1)
      BY <1>1, <1>6 DEF Feed, TypeInv, TypeOK
    <3>2. Cardinality(Occurs(Append(jobs, fed + 1), {i})) =
            Cardinality(Occurs(jobs, {i})) + (IF fed + 1 \in {i} THEN 1 ELSE 0)
      BY <3>1, OccursSend
    <3>3. fed + 1 \in {i} <=> fed + 1 = i
      OBVIOUS
    <3> QED BY <3>1, <3>2, <3>3 DEF InJobs, a, a1
  <2>2. b1 = b /\ c1 = c /\ d1 = d
    BY <1>6 DEF Feed, InHands, InResults, InOutput, Workers, b, c, d, b1, c1, d1
  <2>3. fed' = fed + 1 /\ interrupted' = interrupted
    BY <1>6 DEF Feed
  <2>4. Copies(i) = a + b + c + d /\ Copies(i)' = a1 + b1 + c1 + d1
    BY <1>3 DEF Places, a, b, c, d, a1, b1, c1, d1
  <2>5. a \in Nat /\ b \in Nat /\ c \in Nat /\ d \in Nat
    BY <1>3 DEF Places, a, b, c, d
  <2> QED BY ONLY <1>1, <1>3, <2>1, <2>2, <2>3, <2>4, <2>5, i \in 1..n DEF UrlOnce
<1>7. ASSUME NEW w \in Workers, Receive(w) PROVE UrlOnce(i)'
  <2>1. jobs \in Seq(1..n) /\ jobs # <<>> /\ jobs' = Tail(jobs)
    BY <1>7 DEF Receive, TypeInv, TypeOK
  <2>2. Head(jobs) \in 1..n
    BY <2>1, ReceiveTyped
  <2>3. a1 = a - (IF Head(jobs) = i THEN 1 ELSE 0)
    <3>1. Cardinality(Occurs(Tail(jobs), {i})) =
            Cardinality(Occurs(jobs, {i})) - (IF Head(jobs) \in {i} THEN 1 ELSE 0)
      BY <2>1, OccursReceive
    <3> QED BY <2>1, <3>1 DEF InJobs, a, a1
  <2>4. job[w] = 0
    BY <1>7 DEF Receive, IdleHands, Holding
  <2>5. b1 = b + (IF Head(jobs) = i THEN 1 ELSE 0)
    <3>1. job' = [job EXCEPT ![w] = Head(jobs)]
      BY <1>7 DEF Receive
    <3>2. Head(jobs) \in 0..n
      BY <1>1, <2>2
    <3>3. b1 = b + (IF Head(jobs) = i THEN 1 ELSE 0) - (IF job[w] = i THEN 1 ELSE 0)
      BY <1>1, <2>4, <3>1, <3>2, HandsChange DEF b, b1
    <3>4. b \in Nat /\ job[w] # i
      BY <1>3, <2>4 DEF Places, b
    <3> QED BY <3>3, <3>4
  <2>6. c1 = c /\ d1 = d
    BY <1>7 DEF Receive, InResults, InOutput, c, d, c1, d1
  <2>7. a \in Nat /\ b \in Nat /\ c \in Nat /\ d \in Nat
    BY <1>3 DEF Places, a, b, c, d
  <2>8. a1 + b1 + c1 + d1 = a + b + c + d
    BY ONLY <2>3, <2>5, <2>6, <2>7
  <2> QED BY <1>4, <1>7, <2>8 DEF Receive
<1>8. ASSUME NEW w \in Workers, Bail(w) PROVE UrlOnce(i)'
  <2>1. interrupted /\ interrupted' = interrupted /\ fed' = fed
    BY <1>8 DEF Bail, PhaseInv, ErrorInv
  <2>2. b1 = b - (IF job[w] = i THEN 1 ELSE 0)
    <3>1. job' = [job EXCEPT ![w] = 0]
      BY <1>8 DEF Bail
    <3>2. 0 \in 0..n
      BY <1>1
    <3>3. b1 = b + (IF 0 = i THEN 1 ELSE 0) - (IF job[w] = i THEN 1 ELSE 0)
      BY <1>1, <3>1, <3>2, HandsChange DEF b, b1
    <3>4. b \in Nat /\ i # 0
      BY <1>3 DEF Places, b
    <3> QED BY <3>3, <3>4
  <2>3. a1 = a /\ c1 = c /\ d1 = d
    BY <1>8 DEF Bail, InJobs, InResults, InOutput, a, c, d, a1, c1, d1
  <2>4. Copies(i) = a + b + c + d /\ Copies(i)' = a1 + b1 + c1 + d1
    BY <1>3 DEF Places, a, b, c, d, a1, b1, c1, d1
  <2>5. a \in Nat /\ b \in Nat /\ c \in Nat /\ d \in Nat /\ b1 \in Nat
    BY <1>3 DEF Places, a, b, c, d, b1
  <2> QED BY ONLY <1>1, <1>3, <2>1, <2>2, <2>3, <2>4, <2>5, i \in 1..n DEF UrlOnce
<1>9. ASSUME NEW w \in Workers, Send(w) PROVE UrlOnce(i)'
  <2>1. /\ results' = Append(results, <<job[w], outcome[w]>>)
        /\ job' = [job EXCEPT ![w] = 0]
        /\ UNCHANGED <<fed, interrupted, jobs, out>>
    BY <1>9 DEF Send, PhaseInv
  <2>2. job[w] \in 1..n /\ outcome[w] \in AllOutcomes /\ results \in Seq(CheckResults)
    BY <1>1, <1>9 DEF Send, TypeInv, TypeOK, HoldsJob, Holding
  <2>3. c1 = c + (IF job[w] = i THEN 1 ELSE 0)
    <3>1. <<job[w], outcome[w]>> \in CheckResults
          /\ (<<job[w], outcome[w]>> \in {i} \X AllOutcomes <=> job[w] = i)
      BY <2>2 DEF CheckResults
    <3>2. Cardinality(Occurs(Append(results, <<job[w], outcome[w]>>), {i} \X AllOutcomes)) =
            Cardinality(Occurs(results, {i} \X AllOutcomes))
              + (IF <<job[w], outcome[w]>> \in {i} \X AllOutcomes THEN 1 ELSE 0)
      BY <2>2, <3>1, OccursSend
    <3>3. c = Cardinality(Occurs(results, {i} \X AllOutcomes))
          /\ c1 = Cardinality(Occurs(Append(results, <<job[w], outcome[w]>>),
                                     {i} \X AllOutcomes))
      BY <2>1 DEF InResults, c, c1
    <3> QED BY ONLY <3>1, <3>2, <3>3
  <2>4. b1 = b - (IF job[w] = i THEN 1 ELSE 0)
    <3>1. 0 \in 0..n
      BY <1>1
    <3>2. b1 = b + (IF 0 = i THEN 1 ELSE 0) - (IF job[w] = i THEN 1 ELSE 0)
      BY <1>1, <2>1, <3>1, HandsChange DEF b, b1
    <3>3. b \in Nat /\ i # 0
      BY <1>3 DEF Places, b
    <3> QED BY <3>2, <3>3
  <2>5. a1 = a /\ d1 = d
    BY <2>1 DEF InJobs, InOutput, a, d, a1, d1
  <2>6. a \in Nat /\ b \in Nat /\ c \in Nat /\ d \in Nat
    BY <1>3 DEF Places, a, b, c, d
  <2>7. a1 + b1 + c1 + d1 = a + b + c + d
    BY ONLY <2>3, <2>4, <2>5, <2>6
  <2> QED BY <1>4, <2>1, <2>7
<1>10. CASE Drain
  <2>1. UNCHANGED <<fed, interrupted, jobs, job, pool>>
    BY <1>10 DEF Drain
  <2>2. a1 = a /\ b1 = b
    BY <2>1 DEF InJobs, InHands, Workers, a, b, a1, b1
  <2>3. a \in Nat /\ b \in Nat /\ c \in Nat /\ d \in Nat
    BY <1>3 DEF Places, a, b, c, d
  <2>4. CASE UNCHANGED <<out, results>>
    <3>1. c1 = c /\ d1 = d
      BY <2>4 DEF InResults, InOutput, c, d, c1, d1
    <3> QED BY <1>4, <2>1, <2>2, <3>1
  <2>5. CASE results # <<>> /\ out' = Append(out, Head(results)) /\ results' = Tail(results)
    <3> DEFINE P == {i} \X AllOutcomes
    <3> HIDE DEF P
    <3>1. results \in Seq(CheckResults) /\ out \in Seq(CheckResults)
      BY DEF TypeInv, TypeOK
    <3>2. Head(results) \in CheckResults
      BY <2>5, <3>1, ReceiveTyped
    <3>3. c = Cardinality(Occurs(results, P))
          /\ c1 = Cardinality(Occurs(Tail(results), P))
      BY <2>5 DEF InResults, c, c1, P
    <3>4. d = Cardinality(Occurs(out, P))
          /\ d1 = Cardinality(Occurs(Append(out, Head(results)), P))
      BY <2>5 DEF InOutput, d, d1, P
    <3>5. c1 = c - (IF Head(results) \in P THEN 1 ELSE 0)
      BY <2>5, <3>1, <3>3, OccursReceive
    <3>6. d1 = d + (IF Head(results) \in P THEN 1 ELSE 0)
      BY <3>1, <3>2, <3>4, OccursSend
    <3>7. a1 + b1 + c1 + d1 = a + b + c + d
      BY ONLY <2>2, <2>3, <3>5, <3>6
    <3> QED BY <1>4, <2>1, <3>7
  <2> QED BY <1>10, <2>4, <2>5 DEF Drain
<1>11. ASSUME UNCHANGED <<pool, fed, jobs, job, results, out>>, interrupted => interrupted'
       PROVE  UrlOnce(i)'
  <2>1. a1 = a /\ b1 = b /\ c1 = c /\ d1 = d
    BY <1>11 DEF InJobs, InHands, InResults, InOutput, Workers,
                 a, b, c, d, a1, b1, c1, d1
  <2> QED BY <1>4, <1>11, <2>1
<1> QED
  BY <1>6, <1>7, <1>8, <1>9, <1>10, <1>11
     DEF Next, WorkerStep, RangeEnds, CallCheckUrl, StartRequest, EndRequest, MainStep,
         FeederStops, WaitReturns, FinishRunE, Interrupt, Over, vars

OnceInv == HealthInv /\ IdleHands /\ EachUrlOnce

LEMMA OnceInit == Init => OnceInv
<1> SUFFICES ASSUME Init PROVE OnceInv
  OBVIOUS
<1>1. HealthInv
  BY HealthInit
<1>2. IdleHands
  BY DEF Init, IdleHands
<1>3. ASSUME NEW i \in 1..n PROVE Copies(i) = 0
  <2>1. /\ {k \in DOMAIN jobs : jobs[k] = i} = {}
        /\ {k \in DOMAIN results : results[k][1] = i} = {}
        /\ {k \in DOMAIN out : out[k][1] = i} = {}
    BY DEF Init
  <2>2. {w \in Workers : job[w] = i} = {}
    BY HealthAssumption DEF Init
  <2>3. Cardinality({}) = 0
    BY FS_EmptySet
  <2>4. 0 + 0 + 0 + 0 = 0
    OBVIOUS
  <2> QED BY ONLY <2>1, <2>2, <2>3, <2>4 DEF Copies
<1>4. EachUrlOnce
  BY <1>3 DEF Init, EachUrlOnce
<1> QED BY <1>1, <1>2, <1>4 DEF OnceInv

LEMMA OnceInvStep == OnceInv /\ [Next]_vars => OnceInv'
BY HealthStep, IdleHandsStep, OnceStep DEF OnceInv, HealthInv

(* For any list of URLs, with repetitions or without, and any pool, no URL *)
(* is ever in two places, and none that was fed disappears from the        *)
(* channels, the workers' hands and the output unless the run was          *)
(* interrupted.                                                            *)
THEOREM UrlsAreHandedOnOnce == Spec => []EachUrlOnce
<1>1. OnceInv => EachUrlOnce
  BY DEF OnceInv
<1> QED BY <1>1, OnceInit, OnceInvStep, PTL DEF Spec

-----------------------------------------------------------------------------
(***************************************************************************)
(* Without an interrupt a worker leaves only when the whole list has been  *)
(* fed and jobs is closed and empty; the caller returns only when it has   *)
(* emptied results.                                                        *)
(***************************************************************************)
DrainInv ==
  /\ jobsClosed => feeder = "done"
  /\ jobsClosed /\ ~interrupted /\ pool > 0 => fed = n
  /\ ~interrupted => \A w \in Workers : worker[w] = "exited" => jobsClosed /\ jobs = <<>>
  /\ main \in {"returned", "printed", "failed"} => results = <<>>

LEMMA DrainStep == TypeInv /\ PhaseInv /\ ErrorInv /\ DrainInv /\ [Next]_vars => DrainInv'
<1> SUFFICES ASSUME TypeInv, PhaseInv, ErrorInv, DrainInv, [Next]_vars PROVE DrainInv'
  OBVIOUS
<1> USE DEF TypeInv, TypeOK, DrainInv, Workers, workerVars, feederVars, channelVars,
            contextVars, mainVars
<1>1. CASE Feed
  BY <1>1 DEF Feed
<1>2. CASE FeederStops
  <2>1. ~interrupted /\ pool > 0 => fed = n
    <3> SUFFICES ASSUME ~interrupted, pool > 0, fed # n PROVE FALSE
      OBVIOUS
    <3>1. main # "wait"
      BY <1>2 DEF FeederStops, FeederMayStop, ErrorInv
    <3>2. 1 \in Workers /\ worker[1] = "exited"
      BY <3>1, HealthAssumption DEF PhaseInv
    <3> QED BY <1>2, <3>2 DEF FeederStops
  <2> QED BY <1>2, <2>1 DEF FeederStops
<1>3. ASSUME NEW w \in Workers, Receive(w) PROVE DrainInv'
  BY <1>3 DEF Receive, PhaseInv
<1>4. ASSUME NEW w \in Workers, RangeEnds(w) PROVE DrainInv'
  BY <1>4 DEF RangeEnds
<1>5. ASSUME NEW w \in Workers, Bail(w) PROVE DrainInv'
  BY <1>5 DEF Bail, PhaseInv, ErrorInv
<1>6. ASSUME NEW w \in Workers, CallCheckUrl(w) \/ StartRequest(w) \/ EndRequest(w)
      PROVE  DrainInv'
  <2>1. UNCHANGED <<n, pool, fed, feeder, jobs, jobsClosed, results, interrupted, main>>
    BY <1>6 DEF CallCheckUrl, StartRequest, EndRequest
  <2>2. \A v \in Workers : worker'[v] = "exited" => worker[v] = "exited"
    BY <1>6 DEF CallCheckUrl, StartRequest, EndRequest, WorkerStates
  <2> QED BY <2>1, <2>2
<1>7. ASSUME NEW w \in Workers, Send(w) PROVE DrainInv'
  BY <1>7 DEF Send, PhaseInv, MainStates
<1>8. CASE WaitReturns
  BY <1>8 DEF WaitReturns
<1>9. CASE Drain
  BY <1>9 DEF Drain
<1>10. CASE FinishRunE
  BY <1>10 DEF FinishRunE
<1>11. CASE Interrupt
  BY <1>11 DEF Interrupt
<1>12. CASE UNCHANGED vars
  BY <1>12 DEF vars
<1> QED
  BY <1>1, <1>2, <1>3, <1>4, <1>5, <1>6, <1>7, <1>8, <1>9, <1>10, <1>11, <1>12
     DEF Next, WorkerStep, MainStep, Over

CompleteInv == HealthInv /\ DrainInv

LEMMA CompleteInit == Init => CompleteInv
<1>1. Init => DrainInv
  BY DEF Init, DrainInv
<1> QED BY <1>1, HealthInit DEF CompleteInv

LEMMA CompleteStep == CompleteInv /\ [Next]_vars => CompleteInv'
BY HealthStep, DrainStep DEF CompleteInv, HealthInv

(* A run that nobody interrupts, with any pool of at least one worker,     *)
(* prints a summary over the whole list, whatever the checks came to; and  *)
(* RunE fails only for an interrupt.                                       *)
THEOREM SummaryIsComplete == Spec => []CompleteUnlessInterrupted
<1>1. CompleteInv => CompleteUnlessInterrupted
  <2> SUFFICES ASSUME CompleteInv PROVE CompleteUnlessInterrupted
    OBVIOUS
  <2>1. FailsOnlyWhenInterrupted
    BY DEF CompleteInv, HealthInv, ErrorInv, FailsOnlyWhenInterrupted
  <2>2. ASSUME main = "printed", ~interrupted, pool > 0
        PROVE  Len(out) = n
    <3>1. \A w \in Workers : worker[w] = "exited"
      BY <2>2 DEF CompleteInv, HealthInv, PhaseInv
    <3>2. 1 \in Workers
      BY <2>2, HealthAssumption DEF Workers, CompleteInv, HealthInv, TypeInv, TypeOK
    <3>3. jobs = <<>> /\ results = <<>> /\ fed = n
      BY <2>2, <3>1, <3>2 DEF CompleteInv, DrainInv
    <3>4. Busy = {}
      BY <3>1 DEF Busy, Holding
    <3>5. InPipeline = fed
      BY <2>2 DEF CompleteInv, HealthInv, CountInv
    <3>6. Len(out) \in Nat /\ n \in Nat
      BY HealthAssumption DEF CompleteInv, HealthInv, TypeInv, TypeOK
    <3>7. Len(jobs) = 0 /\ Len(results) = 0 /\ Cardinality(Busy) = 0
      BY <3>3, <3>4, FS_EmptySet
    <3> QED BY ONLY <3>3, <3>5, <3>6, <3>7 DEF InPipeline
  <2>3. ComputeSummary.Total = Len(out)
    BY DEF ComputeSummary
  <2> QED BY <2>1, <2>2, <2>3 DEF CompleteUnlessInterrupted
<1> QED BY <1>1, CompleteInit, CompleteStep, PTL DEF Spec
=============================================================================
