----------------------------- MODULE TokenBucket -----------------------------
(***************************************************************************)
(* rate-limiting/token-bucket: one bucket of tokens per key, behind one    *)
(* mutex, refilled when it is looked at.                                   *)
(*                                                                         *)
(* A call holds tb.mu throughout, so a call is one action; but it reads    *)
(* the clock more than once, and time passes between the readings (Delays).*)
(* Tokens are exact fractions here: a token is Window units and a tick of  *)
(* the clock earns Rate of them.  Durations are whole ticks, as they are   *)
(* whole nanoseconds in the code.                                          *)
(*                                                                         *)
(* granted, lost, log and the time of an answer (at) record what happened  *)
(* since a bucket was created; the code keeps none of them.  Operators     *)
(* named Fault... are wrong versions of the operator that follows them.    *)
(***************************************************************************)
EXTENDS Integers

CONSTANTS
  Keys,
  Rate, Window,    (* Rate tokens per Window ticks                           *)
  BurstSize,       (* the burstSize given to NewTokenBucket, 0 for default   *)
  Requests,        (* how many tokens a call may ask for                     *)
  Delays,          (* how far the clock may go between two readings          *)
  Horizon          (* no call starts after this time                         *)

ASSUME BucketAssumption ==
  /\ Rate \in Nat \ {0} /\ Window \in Nat \ {0}
  /\ BurstSize \in Nat
  /\ Requests \subseteq Nat
  /\ Delays \subseteq Nat /\ 0 \in Delays
  /\ Horizon \in Nat

VARIABLES
  now,
  known,           (* the keys of tb.buckets                                 *)
  tokens,          (* tokens[k]: bucket.tokens, in units                     *)
  lastRefill,
  answer,          (* the last Result for k, or NoAnswer                     *)
  granted,         (* tokens granted to k since its bucket was created       *)
  lost,            (* ticks that passed between a call's two readings        *)
  log              (* for each grant, its time, and both counts before it    *)

vars == <<now, known, tokens, lastRefill, answer, granted, lost, log>>

(* NewTokenBucket: the burst defaults to the rate.                         *)
Burst == IF BurstSize = 0 THEN Rate ELSE BurstSize

(* n tokens, and what t ticks earn, in units.                              *)
Units(n) == n * Window
Earned(t) == Rate * t

Full == Units(Burst)

NoAnswer == [n |-> 0, allowed |-> TRUE, retryAfter |-> 0, resetAt |-> 0, at |-> 0]

TypeOK ==
  /\ now \in Nat
  /\ known \subseteq Keys
  /\ tokens \in [Keys -> 0..Full]
  /\ lastRefill \in [Keys -> 0..now]
  /\ answer \in [Keys -> [n : Requests \cup {0}, allowed : BOOLEAN,
                          retryAfter : Nat, resetAt : Nat, at : Nat]]
  /\ granted \in [Keys -> Nat] /\ lost \in [Keys -> Nat]
  /\ \A k \in Keys : log[k] \subseteq [at : Nat, before : Nat, lost : Nat]

Init ==
  /\ now = 0
  /\ known = {}
  /\ tokens = [k \in Keys |-> 0]
  /\ lastRefill = [k \in Keys |-> 0]
  /\ answer = [k \in Keys |-> NoAnswer]
  /\ granted = [k \in Keys |-> 0] /\ lost = [k \in Keys |-> 0]
  /\ log = [k \in Keys |-> {}]

-----------------------------------------------------------------------------

FaultWholeTokens(k, t) ==
  LET level == tokens[k] + Units(Earned(t - lastRefill[k]) \div Window)
  IN  IF level < Full THEN level ELSE Full

(* What refilling the bucket of k at time t brings it to.                  *)
Refilled(k, t) ==
  LET level == tokens[k] + Earned(t - lastRefill[k])
  IN  IF level < Full THEN level ELSE Full

(* What a call does to the bucket of k: the level it finds is level, and   *)
(* the time it writes down is at.                                          *)
Take(k, n, level, at) ==
  /\ known' = known \cup {k}
  /\ tokens' = [tokens EXCEPT ![k] = level - Units(n)]
  /\ lastRefill' = [lastRefill EXCEPT ![k] = at]
  /\ granted' = [granted EXCEPT ![k] = @ + n]
  /\ log' = [log EXCEPT ![k] = @ \cup
                 {[at |-> now, before |-> granted[k], lost |-> lost[k]]}]
  /\ lost' = [lost EXCEPT ![k] = @ + at - now]

FaultKeepTime(k, level, at) ==
  /\ tokens' = [tokens EXCEPT ![k] = level]
  /\ UNCHANGED <<known, lastRefill, granted, lost, log>>

Refuse(k, level, at) ==
  /\ tokens' = [tokens EXCEPT ![k] = level]
  /\ lastRefill' = [lastRefill EXCEPT ![k] = at]
  /\ lost' = [lost EXCEPT ![k] = @ + at - now]
  /\ UNCHANGED <<known, granted, log>>

(* The body AllowN and AllowWithInfo share.                                *)
Check(k, n, allowed, at) ==
  \/ /\ k \notin known
     /\ at = now
     /\ \/ n <= Burst /\ allowed /\ Take(k, n, Full, at)
        \/ /\ n > Burst /\ ~allowed
           /\ UNCHANGED <<known, tokens, lastRefill, granted, lost, log>>
  \/ /\ k \in known
     /\ LET level == Refilled(k, now)
        IN \/ Units(n) <= level /\ allowed /\ Take(k, n, level, at)
           \/ Units(n) > level /\ ~allowed /\ Refuse(k, level, at)

AllowN(k, n) ==
  /\ now <= Horizon
  /\ \E d \in Delays, allowed \in BOOLEAN :
       /\ now' = now + d
       /\ Check(k, n, allowed, now + d)
  /\ answer' = [answer EXCEPT ![k] = NoAnswer]

(* How long until level units have become n tokens, or a full bucket; a    *)
(* conversion to time.Duration drops the fraction.                         *)
FaultRetryPerWindow(n, level) == (Units(n) - level) \div (Rate * Window)
RetryAfter(n, level) == (Units(n) - level) \div Rate

FaultFromEmpty(level) == Full \div Rate
UntilFull(level) == (Full - level) \div Rate

(* buildResult reads the clock once more.                                  *)
BuildResult(k, n, allowed) ==
  IF k \in known'
  THEN [n |-> n, allowed |-> allowed,
        retryAfter |-> IF allowed THEN 0 ELSE RetryAfter(n, tokens'[k]),
        resetAt |-> now' + UntilFull(tokens'[k]), at |-> now']
  ELSE [n |-> n, allowed |-> FALSE, retryAfter |-> 0, resetAt |-> 0, at |-> now']

AllowWithInfo(k, n) ==
  /\ now <= Horizon
  /\ \E d, e \in Delays, allowed \in BOOLEAN :
       /\ now' = now + d + e
       /\ Check(k, n, allowed, now + d)
       /\ answer' = [answer EXCEPT ![k] = BuildResult(k, n, allowed)]

(* A new bucket for k starts a new record of its grants.                   *)
Reset(k) ==
  /\ known' = known \ {k}
  /\ tokens' = [tokens EXCEPT ![k] = 0]
  /\ lastRefill' = [lastRefill EXCEPT ![k] = 0]
  /\ granted' = [granted EXCEPT ![k] = 0] /\ lost' = [lost EXCEPT ![k] = 0]
  /\ log' = [log EXCEPT ![k] = {}]
  /\ answer' = [answer EXCEPT ![k] = NoAnswer]
  /\ UNCHANGED now

Tick ==
  /\ now < Horizon
  /\ now' = now + 1
  /\ UNCHANGED <<known, tokens, lastRefill, answer, granted, lost, log>>

Next ==
  \/ \E k \in Keys : \/ \E n \in Requests : AllowN(k, n) \/ AllowWithInfo(k, n)
                     \/ Reset(k)
  \/ Tick

Spec == Init /\ [][Next]_vars

-----------------------------------------------------------------------------
(***************************************************************************)
(* "Tokens are added at a constant rate, [...] allows bursts up to bucket  *)
(* capacity": whatever the calls, refusals and delays, the tokens granted  *)
(* to a key from any grant on are at most a burst and what the time since  *)
(* then has earned.                                                        *)
(***************************************************************************)
NeverOverGrants ==
  \A k \in Keys : \A e \in log[k] :
    Units(granted[k] - e.before) <= Full + Earned(now - e.at)

(***************************************************************************)
(* The other half of "at a constant rate": refills do not lose fractions,  *)
(* and no earned token is withheld, except what the ticks that passed      *)
(* between the two readings of the clock in a call would have earned.      *)
(***************************************************************************)
ConstantRate ==
  \A k \in known :
    \/ Refilled(k, now) = Full
    \/ \E e \in log[k] :
         Refilled(k, now) >=
           Full + Earned((now - e.at) - (lost[k] - e.lost)) - Units(granted[k] - e.before)

(***************************************************************************)
(* A refused request that a full bucket could serve is told how long to    *)
(* wait, to within one unit of time.                                       *)
(***************************************************************************)
Serves(k, n, t) == Units(n) <= Refilled(k, t)

RetryAfterIsTight ==
  \A k \in known :
    LET a == answer[k]
        retryAt == lastRefill[k] + a.retryAfter
    IN  ~a.allowed /\ a.n <= Burst =>
          /\ Serves(k, a.n, retryAt + 1)
          /\ a.retryAfter > 0 => ~Serves(k, a.n, retryAt - 1)

(***************************************************************************)
(* ResetAt ("when bucket is full") is right to one unit of time, if nobody *)
(* takes from the bucket in between: one unit later the bucket is full,    *)
(* and one unit earlier it is not yet.  buildResult adds the wait to a     *)
(* later reading of the clock than the one the level is of, so ResetAt is  *)
(* late by just what passed between the two.                               *)
(***************************************************************************)
FullAtReset ==
  \A k \in known :
    LET a == answer[k]
        passed == a.at - lastRefill[k]
    IN  a # NoAnswer =>
          /\ Refilled(k, a.resetAt + 1) = Full
          /\ a.resetAt > a.at => Refilled(k, a.resetAt - 1 - passed) < Full

(***************************************************************************)
(* A request above the burst can never be served, and the answer does not  *)
(* say so: a key without a bucket is told to retry at once, and it is      *)
(* refused so for no other reason; a key with one is told a wait at whose  *)
(* end the bucket is full and the request is refused again.                *)
(***************************************************************************)
RetryAboveBurstIsVain ==
  \A k \in Keys :
    LET a == answer[k]
        retryAt == lastRefill[k] + a.retryAfter
    IN  /\ ~a.allowed /\ k \notin known => a.n > Burst /\ a.retryAfter = 0
        /\ ~a.allowed /\ k \in known /\ a.n > Burst =>
             Refilled(k, retryAt + 1) = Full /\ ~Serves(k, a.n, retryAt + 1)

(***************************************************************************)
(* What AllowWithInfo tells a caller of later: RetryAfter and ResetAt are  *)
(* right to one unit of time in both directions, ResetAt but for the time  *)
(* between two readings, and a request above the burst retries in vain.    *)
(***************************************************************************)
AnswersAreTight == RetryAfterIsTight /\ FullAtReset /\ RetryAboveBurstIsVain
=============================================================================
