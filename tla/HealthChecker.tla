---------------------------- MODULE HealthChecker ----------------------------
(***************************************************************************)
(* practice/parallel_url_health.go: RunChecker fans a list of URLs out to  *)
(* a pool of workers in an errgroup and fans their results in; RunE prints *)
(* a summary of them.                                                      *)
(*                                                                         *)
(* The goroutines are the feeder, the workers and the caller; they share   *)
(* two buffered channels and the context of the errgroup.  A step is one   *)
(* channel operation, one select, or one end of an HTTP request.  URLs are *)
(* positions in the list, since a list may name a URL twice; a result is a *)
(* position with what checkUrl made of it.                                 *)
(*                                                                         *)
(* Operators named Fault... are wrong versions of the operator that        *)
(* follows them, and are not part of the system.                           *)
(***************************************************************************)
EXTENDS Integers, Sequences, FiniteSets

CONSTANTS
  UrlCounts,   (* how many URLs the input file may list                      *)
  PoolSizes,   (* the values the -p flag may have                            *)
  Outcomes     (* what a check may come to, out of AllOutcomes               *)

AllOutcomes == {"healthy", "unhealthy", "error", "timeout"}

ASSUME HealthAssumption ==
  /\ UrlCounts \subseteq Nat
  /\ PoolSizes \subseteq Nat
  /\ Outcomes \subseteq AllOutcomes /\ Outcomes # {}

VARIABLES
  n, pool,        (* len(urls) and poolSize                                  *)
  fed,            (* how many URLs the feeder has sent                       *)
  feeder,         (* "feeding" or "done"                                     *)
  jobs, jobsClosed,
  worker,         (* worker[w]: where worker w is                            *)
  job,            (* job[w]: the URL in the hands of w, 0 if none            *)
  outcome,        (* outcome[w]: the result w is about to send               *)
  results, resultsClosed,
  ctxDone,        (* the errgroup's context is done                          *)
  interrupted,    (* the caller's context is done: SIGINT or SIGTERM         *)
  err,            (* the group's first error is set                          *)
  main,           (* where the caller is                                     *)
  out             (* what RunChecker has drained                             *)

feederVars == <<fed, feeder>>
workerVars == <<worker, job, outcome>>
channelVars == <<jobs, jobsClosed, results, resultsClosed>>
contextVars == <<ctxDone, interrupted, err>>
mainVars == <<main, out>>
vars == <<n, pool, feederVars, workerVars, channelVars, contextVars, mainVars>>

Workers == 1..pool

WorkerStates ==
  {"receive", "received", "check", "http", "send", "exited", "panicked"}
MainStates == {"wait", "drain", "returned", "printed", "failed"}

CheckResults == (1..n) \X AllOutcomes

TypeOK ==
  /\ n \in UrlCounts /\ pool \in PoolSizes
  /\ fed \in 0..n /\ feeder \in {"feeding", "done"}
  /\ jobs \in Seq(1..n) /\ Len(jobs) <= pool
  /\ worker \in [Workers -> WorkerStates]
  /\ job \in [Workers -> 0..n]
  /\ outcome \in [Workers -> AllOutcomes]
  /\ results \in Seq(CheckResults)
  /\ out \in Seq(CheckResults)
  /\ jobsClosed \in BOOLEAN /\ resultsClosed \in BOOLEAN
  /\ ctxDone \in BOOLEAN /\ interrupted \in BOOLEAN /\ err \in BOOLEAN
  /\ main \in MainStates

Init ==
  /\ n \in UrlCounts /\ pool \in PoolSizes
  /\ fed = 0 /\ feeder = "feeding"
  /\ worker = [w \in Workers |-> "receive"]
  /\ job = [w \in Workers |-> 0]
  /\ outcome = [w \in Workers |-> "healthy"]
  /\ jobs = <<>> /\ jobsClosed = FALSE
  /\ results = <<>> /\ resultsClosed = FALSE
  /\ ctxDone = FALSE /\ interrupted = FALSE /\ err = FALSE
  /\ main = "wait" /\ out = <<>>

-----------------------------------------------------------------------------
(* The feeder.  Both cases of its select may be ready; either is taken.    *)

RoomInJobs == Len(jobs) < pool

Feed ==
  /\ feeder = "feeding" /\ fed < n
  /\ RoomInJobs
  /\ fed' = fed + 1
  /\ jobs' = Append(jobs, fed + 1)
  /\ UNCHANGED <<n, pool, feeder, workerVars, jobsClosed, results, resultsClosed,
                 contextVars, mainVars>>

FaultNoCtxCase == fed = n
FeederMayStop == fed = n \/ ctxDone

(* defer close(jobs), on the return as at the end of the list.             *)
FaultNoClose ==
  /\ feeder = "feeding" /\ FeederMayStop
  /\ feeder' = "done"
  /\ UNCHANGED <<n, pool, fed, workerVars, channelVars, contextVars, mainVars>>

FeederStops ==
  /\ feeder = "feeding" /\ FeederMayStop
  /\ feeder' = "done"
  /\ jobsClosed' = TRUE
  /\ UNCHANGED <<n, pool, fed, workerVars, jobs, results, resultsClosed,
                 contextVars, mainVars>>

-----------------------------------------------------------------------------
(* A worker: for url := range jobs { select ... }                          *)

Receive(w) ==
  /\ worker[w] = "receive"
  /\ jobs # <<>>
  /\ jobs' = Tail(jobs)
  /\ job' = [job EXCEPT ![w] = Head(jobs)]
  /\ worker' = [worker EXCEPT ![w] = "received"]
  /\ UNCHANGED <<n, pool, feederVars, outcome, jobsClosed, results, resultsClosed,
                 contextVars, mainVars>>

RangeEnds(w) ==
  /\ worker[w] = "receive"
  /\ jobs = <<>> /\ jobsClosed
  /\ worker' = [worker EXCEPT ![w] = "exited"]
  /\ UNCHANGED <<n, pool, feederVars, job, outcome, channelVars, contextVars, mainVars>>

(* return ctx.Err(): the URL in hand is dropped; the group keeps the first *)
(* error and cancels its context.                                          *)
Bail(w) ==
  /\ worker[w] = "received"
  /\ ctxDone
  /\ worker' = [worker EXCEPT ![w] = "exited"]
  /\ job' = [job EXCEPT ![w] = 0]
  /\ err' = TRUE
  /\ UNCHANGED <<n, pool, feederVars, outcome, channelVars, ctxDone, interrupted,
                 mainVars>>

CallCheckUrl(w) ==
  /\ worker[w] = "received"
  /\ ~ctxDone
  /\ worker' = [worker EXCEPT ![w] = "check"]
  /\ UNCHANGED <<n, pool, feederVars, job, outcome, channelVars, contextVars, mainVars>>

(* A request under a done context fails before it is sent.                 *)
StartRequest(w) ==
  /\ worker[w] = "check"
  /\ IF ctxDone
     THEN /\ worker' = [worker EXCEPT ![w] = "send"]
          /\ outcome' = [outcome EXCEPT ![w] = "error"]
     ELSE /\ worker' = [worker EXCEPT ![w] = "http"]
          /\ UNCHANGED outcome
  /\ UNCHANGED <<n, pool, feederVars, job, channelVars, contextVars, mainVars>>

(* What a bug that lets a failed check fail the group would do.            *)
FaultFailureIsError(w) ==
  /\ worker[w] = "http"
  /\ \E o \in Outcomes :
       /\ outcome' = [outcome EXCEPT ![w] = o]
       /\ err' = (err \/ o \in {"error", "timeout"})
       /\ ctxDone' = (ctxDone \/ o \in {"error", "timeout"})
       /\ worker' = [worker EXCEPT ![w] =
                       IF o \in {"error", "timeout"} THEN "exited" ELSE "send"]
  /\ UNCHANGED <<n, pool, feederVars, job, channelVars, interrupted, mainVars>>

(* A response, a network error, the 5 s timeout, or an error because the   *)
(* context was cancelled under the request.                                *)
EndRequest(w) ==
  /\ worker[w] = "http"
  /\ \E o \in Outcomes \cup (IF ctxDone THEN {"error"} ELSE {}) :
       outcome' = [outcome EXCEPT ![w] = o]
  /\ worker' = [worker EXCEPT ![w] = "send"]
  /\ UNCHANGED <<n, pool, feederVars, job, channelVars, contextVars, mainVars>>

FaultPoolCapacity == pool
ResultsCapacity == n

FaultSendAgain(w) ==
  /\ worker[w] = "send"
  /\ Len(results) < ResultsCapacity
  /\ results' = Append(results, <<job[w], outcome[w]>>)
  /\ worker' = [worker EXCEPT ![w] = "received"]
  /\ UNCHANGED <<n, pool, feederVars, job, outcome, jobs, jobsClosed, resultsClosed,
                 contextVars, mainVars>>

(* results <- checkUrl(...): blocks on a full channel, panics on a closed  *)
(* one.                                                                    *)
Send(w) ==
  /\ worker[w] = "send"
  /\ IF resultsClosed
     THEN /\ worker' = [worker EXCEPT ![w] = "panicked"]
          /\ UNCHANGED <<job, results>>
     ELSE /\ Len(results) < ResultsCapacity
          /\ results' = Append(results, <<job[w], outcome[w]>>)
          /\ worker' = [worker EXCEPT ![w] = "receive"]
          /\ job' = [job EXCEPT ![w] = 0]
  /\ UNCHANGED <<n, pool, feederVars, outcome, jobs, jobsClosed, resultsClosed,
                 contextVars, mainVars>>

-----------------------------------------------------------------------------
(* The caller.                                                             *)

GroupIsDone == \A w \in Workers : worker[w] = "exited"

(* eg.Wait() returns when the workers have, and cancels the context of the *)
(* group; then results is closed.                                          *)
WaitReturns ==
  /\ main = "wait"
  /\ GroupIsDone
  /\ ctxDone' = TRUE
  /\ resultsClosed' = TRUE
  /\ main' = "drain"
  /\ UNCHANGED <<n, pool, feederVars, workerVars, jobs, jobsClosed, results,
                 interrupted, err, out>>

Drain ==
  /\ main = "drain"
  /\ \/ /\ results # <<>>
        /\ out' = Append(out, Head(results))
        /\ results' = Tail(results)
        /\ UNCHANGED main
     \/ /\ results = <<>> /\ resultsClosed
        /\ main' = "returned"
        /\ UNCHANGED <<out, results>>
  /\ UNCHANGED <<n, pool, feederVars, workerVars, jobs, jobsClosed, resultsClosed,
                 contextVars>>

(* RunE: an error of RunChecker goes to the user in place of the summary.  *)
FinishRunE ==
  /\ main = "returned"
  /\ main' = IF err THEN "failed" ELSE "printed"
  /\ UNCHANGED <<n, pool, feederVars, workerVars, channelVars, contextVars, out>>

(* ComputeSummary: the counts it makes of the results it is given.         *)
ComputeSummary ==
  LET count(S) == Cardinality({i \in DOMAIN out : out[i][2] \in S})
  IN  [Total |-> Len(out),
       Healthy |-> count({"healthy"}),
       Errors |-> count({"error", "timeout"})]

(* signal.NotifyContext; the group's context is its child.                 *)
Interrupt ==
  /\ ~interrupted
  /\ interrupted' = TRUE
  /\ ctxDone' = TRUE
  /\ UNCHANGED <<n, pool, feederVars, workerVars, channelVars, err, mainVars>>

-----------------------------------------------------------------------------
WorkerStep(w) ==
  \/ Receive(w) \/ RangeEnds(w)
  \/ Bail(w) \/ CallCheckUrl(w) \/ StartRequest(w) \/ EndRequest(w) \/ Send(w)

MainStep == WaitReturns \/ Drain \/ FinishRunE

(* The process may stop here: RunE is over and no goroutine is left.       *)
Over ==
  /\ main \in {"printed", "failed"} /\ feeder = "done"
  /\ UNCHANGED vars

Next ==
  \/ Feed \/ FeederStops
  \/ \E w \in Workers : WorkerStep(w)
  \/ MainStep
  \/ Interrupt
  \/ Over

Spec == Init /\ [][Next]_vars

(* Every goroutine that can run is run, and every HTTP request ends, with  *)
(* the timeout of checkUrl at the latest.  Nobody need ever interrupt.     *)
Fairness ==
  /\ WF_vars(Feed \/ FeederStops)
  /\ \A w \in UNION {1..p : p \in PoolSizes} :
       WF_vars(w \in Workers /\ WorkerStep(w))
  /\ WF_vars(MainStep)

FairSpec == Spec /\ Fairness

-----------------------------------------------------------------------------
(***************************************************************************)
(* No worker ever waits for room in results, and none sends on it after it *)
(* is closed: the reason given for a buffer of len(urls), and for closing  *)
(* only after eg.Wait().                                                   *)
(***************************************************************************)
SendNeverBlocks ==
  \A w \in Workers :
    /\ worker[w] = "send" => Len(results) < ResultsCapacity /\ ~resultsClosed
    /\ worker[w] # "panicked"

(* How often the URL at position i is in the pipeline or among the output. *)
Copies(i) ==
  Cardinality({k \in DOMAIN jobs : jobs[k] = i})
    + Cardinality({w \in Workers : job[w] = i})
    + Cardinality({k \in DOMAIN results : results[k][1] = i})
    + Cardinality({k \in DOMAIN out : out[k][1] = i})

(***************************************************************************)
(* The fan-out and fan-in neither lose nor duplicate a URL: what the       *)
(* feeder sent is in one place, except that a URL may be dropped once the  *)
(* run is interrupted.                                                     *)
(***************************************************************************)
EachUrlOnce ==
  \A i \in 1..n :
    /\ Copies(i) <= 1
    /\ i > fed => Copies(i) = 0
    /\ i <= fed /\ ~interrupted => Copies(i) = 1

FailsOnlyWhenInterrupted == main = "failed" => interrupted

(***************************************************************************)
(* A run that nobody interrupts, with at least one worker, prints a        *)
(* summary of every URL, however its checks came out: "a URL that fails is *)
(* a result, not an exception".  RunE fails only when interrupted.         *)
(***************************************************************************)
CompleteUnlessInterrupted ==
  /\ main = "printed" /\ ~interrupted /\ pool > 0 => ComputeSummary.Total = n
  /\ FailsOnlyWhenInterrupted

(***************************************************************************)
(* RunChecker returns and the program ends, interrupted or not, whatever   *)
(* the checks come to and even without workers.                            *)
(***************************************************************************)
RunCheckerReturns == <>(main \in {"printed", "failed"})

(***************************************************************************)
(* The feeder is outside the errgroup, and nobody waits for it; it does    *)
(* not outlive the run, even when the workers are gone and jobs is full.   *)
(***************************************************************************)
FeederExits == <>(feeder = "done")

(***************************************************************************)
(* "Should return context error when cancelled", says the test of a        *)
(* cancelled RunChecker, and so would a caller that gets fewer results     *)
(* than URLs expect.  It need not: the feeder may be the only one to       *)
(* notice, and it reports nothing.                                         *)
(***************************************************************************)
CancelledRunReportsError ==
  main = "printed" /\ interrupted => Len(out) = n
=============================================================================
