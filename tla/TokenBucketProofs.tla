-------------------------- MODULE TokenBucketProofs --------------------------
(***************************************************************************)
(* For every rate, window, burst and set of requests, and however the      *)
(* clock moves between two readings: no bucket ever grants more than its   *)
(* burst and its rate allow, nor withholds what was earned, and what it    *)
(* answers of later is right to one unit of time.                          *)
(***************************************************************************)
EXTENDS TokenBucket, TLAPS

BucketType ==
  /\ now \in Nat
  /\ known \subseteq Keys
  /\ tokens \in [Keys -> 0..Full]
  /\ lastRefill \in [Keys -> Nat]
  /\ granted \in [Keys -> Nat]
  /\ lost \in [Keys -> Nat]
  /\ log \in [Keys -> SUBSET [at : Nat, before : Nat, lost : Nat]]

(* What the bucket of k still holds has not been promised to anybody: with *)
(* what was granted since e it is within the budget that starts at e.      *)
BudgetFrom(k, e) ==
  /\ e.at <= lastRefill[k]
  /\ Units(granted[k] - e.before) + tokens[k] <= Full + Earned(lastRefill[k] - e.at)

BucketInv ==
  /\ BucketType
  /\ \A k \in Keys :
       /\ lastRefill[k] <= now
       /\ k \notin known => log[k] = {} /\ granted[k] = 0
       /\ \A e \in log[k] : BudgetFrom(k, e)

(* Both conversions are additive and monotone.                             *)
LEMMA EarnedType ==
  ASSUME NEW a \in Int
  PROVE  Earned(a) \in Int /\ (a >= 0 => Earned(a) >= 0)
BY BucketAssumption DEF Earned

LEMMA EarnedAdds ==
  ASSUME NEW a \in Int, NEW b \in Int
  PROVE  Earned(a + b) = Earned(a) + Earned(b)
BY BucketAssumption DEF Earned

LEMMA EarnedGrows ==
  ASSUME NEW a \in Int, NEW b \in Int, a <= b
  PROVE  Earned(a) <= Earned(b)
BY BucketAssumption DEF Earned

LEMMA UnitsType ==
  ASSUME NEW a \in Int
  PROVE  Units(a) \in Int /\ (a >= 0 => Units(a) >= 0)
BY BucketAssumption DEF Units

LEMMA UnitsAdd ==
  ASSUME NEW a \in Int, NEW b \in Int
  PROVE  Units(a + b) = Units(a) + Units(b)
BY BucketAssumption DEF Units

LEMMA FullType == Full \in Nat /\ Burst \in Nat
BY BucketAssumption, UnitsType DEF Full, Burst

(* A refill stops at a full bucket, and credits only the time since the    *)
(* last one.                                                               *)
LEMMA RefilledBound ==
  ASSUME BucketInv, NEW k \in Keys
  PROVE  /\ Refilled(k, now) \in Nat
         /\ Refilled(k, now) <= Full
         /\ Refilled(k, now) <= tokens[k] + Earned(now - lastRefill[k])
<1>1. now - lastRefill[k] \in Nat /\ tokens[k] \in Nat
  BY DEF BucketInv, BucketType
<1>2. Earned(now - lastRefill[k]) \in Nat
  BY <1>1, EarnedType
<1> QED BY <1>1, <1>2, FullType DEF Refilled

(* A call on a bucket that exists keeps every budget of that bucket.       *)
LEMMA BudgetKept ==
  ASSUME BucketInv, NEW k \in Keys, NEW e \in log[k], NEW n \in Nat, NEW at \in Nat,
         now <= at
  PROVE  /\ e.at <= at
         /\ Units(granted[k] + n - e.before) + (Refilled(k, now) - Units(n))
              <= Full + Earned(at - e.at)
<1>1. /\ e.at \in Nat /\ e.before \in Nat /\ granted[k] \in Nat /\ tokens[k] \in Nat
      /\ lastRefill[k] \in Nat /\ now \in Nat /\ lastRefill[k] <= now
      /\ BudgetFrom(k, e)
  BY DEF BucketInv, BucketType
<1> DEFINE a == lastRefill[k] - e.at
           b == now - lastRefill[k]
           g == granted[k] - e.before
<1>2. a \in Int /\ b \in Int /\ g \in Int /\ at - e.at \in Int
  BY <1>1
<1>3. Earned(at - e.at) >= Earned(a) + Earned(b)
  <2>1. a + b \in Int /\ a + b <= at - e.at
    BY <1>1
  <2>2. Earned(a + b) <= Earned(at - e.at)
    BY <1>2, <2>1, EarnedGrows
  <2> QED BY <1>2, <2>2, EarnedAdds
<1>4. Units(granted[k] + n - e.before) = Units(g) + Units(n)
  <2>1. granted[k] + n - e.before = g + n
    BY <1>1
  <2> QED BY <1>2, <2>1, UnitsAdd
<1>5. Units(g) + tokens[k] <= Full + Earned(a)
  BY <1>1 DEF BudgetFrom
<1>6. Refilled(k, now) <= tokens[k] + Earned(b) /\ Refilled(k, now) \in Nat
  BY RefilledBound
<1>7. /\ Units(g) \in Int /\ Units(n) \in Int
      /\ Earned(a) \in Int /\ Earned(b) \in Int /\ Earned(at - e.at) \in Int
  BY <1>2, UnitsType, EarnedType
<1>8. e.at <= at
  BY <1>1 DEF BudgetFrom
<1> HIDE DEF a, b, g
<1> QED BY <1>1, <1>3, <1>4, <1>5, <1>6, <1>7, <1>8, FullType

LEMMA CheckKeeps ==
  ASSUME BucketInv, NEW k \in Keys, NEW n \in Requests, NEW allowed, NEW at \in Nat,
         now <= at, now' \in Nat, at <= now', Check(k, n, allowed, at)
  PROVE  BucketInv'
<1> n \in Nat
  BY BucketAssumption
<1>1. CASE k \notin known /\ n <= Burst /\ Take(k, n, Full, at) /\ at = now
  <2>1. Full - Units(n) \in Nat /\ Full - Units(n) + Units(n) = Full
    <3>1. Units(Burst) = Units(n) + Units(Burst - n) /\ Burst - n \in Nat
      <4>1. Burst - n \in Nat /\ Burst = n + (Burst - n)
        BY <1>1, FullType
      <4> QED BY <4>1, UnitsAdd
    <3> QED BY <3>1, UnitsType DEF Full
  <2>2. BucketType'
    <3>1. Full - Units(n) \in 0..Full
      BY <2>1, UnitsType, FullType
    <3> QED BY <1>1, <3>1 DEF Take, BucketInv, BucketType
  <2>3. \A e \in log'[k] : BudgetFrom(k, e)'
    <3> SUFFICES ASSUME NEW e \in log'[k] PROVE BudgetFrom(k, e)'
      OBVIOUS
    <3>1. e = [at |-> now, before |-> 0, lost |-> lost[k]]
      BY <1>1 DEF Take, BucketInv, BucketType
    <3>2. lastRefill'[k] = now /\ granted'[k] = n /\ tokens'[k] = Full - Units(n)
      BY <1>1 DEF Take, BucketInv, BucketType
    <3>3. Earned(now - now) \in Int /\ Earned(now - now) >= 0 /\ now \in Nat
      BY EarnedType DEF BucketInv, BucketType
    <3>4. Units(n - 0) + (Full - Units(n)) <= Full + Earned(now - now)
      BY <2>1, <3>3, UnitsType, FullType
    <3> QED BY <3>1, <3>2, <3>3, <3>4 DEF BudgetFrom
  <2>4. \A j \in Keys \ {k} :
          /\ UNCHANGED <<lastRefill[j], granted[j], log[j], tokens[j]>>
          /\ j \in known' <=> j \in known
    BY <1>1 DEF Take, BucketInv, BucketType
  <2>5. lastRefill'[k] <= now' /\ k \in known'
    BY <1>1 DEF Take, BucketInv, BucketType
  <2> QED BY <2>2, <2>3, <2>4, <2>5 DEF BucketInv, BudgetFrom, BucketType
<1>2. CASE UNCHANGED <<known, tokens, lastRefill, granted, lost, log>>
  <2>1. \A j \in Keys : lastRefill[j] <= now'
    BY DEF BucketInv, BucketType
  <2> QED BY <1>2, <2>1 DEF BucketInv, BucketType, BudgetFrom
<1>3. CASE k \in known /\ Units(n) <= Refilled(k, now) /\ Take(k, n, Refilled(k, now), at)
  <2>1. Refilled(k, now) - Units(n) \in Nat
    BY <1>3, RefilledBound, UnitsType
  <2>2. BucketType'
    <3>1. Refilled(k, now) - Units(n) \in 0..Full
      BY <2>1, RefilledBound, UnitsType, FullType
    <3> QED BY <1>3, <3>1 DEF Take, BucketInv, BucketType
  <2>3. /\ lastRefill'[k] = at /\ granted'[k] = granted[k] + n
        /\ tokens'[k] = Refilled(k, now) - Units(n)
        /\ log'[k] = log[k] \cup {[at |-> now, before |-> granted[k], lost |-> lost[k]]}
    BY <1>3 DEF Take, BucketInv, BucketType
  <2>4. ASSUME NEW e \in log[k] PROVE BudgetFrom(k, e)'
    <3>1. /\ e.at <= at
          /\ Units(granted[k] + n - e.before) + (Refilled(k, now) - Units(n))
               <= Full + Earned(at - e.at)
      BY BudgetKept
    <3>2. e.before \in Nat /\ granted[k] \in Nat /\ e.at \in Nat
      BY DEF BucketInv, BucketType
    <3> QED BY <2>1, <2>3, <3>1, <3>2 DEF BudgetFrom
  <2>5. ASSUME NEW e, e = [at |-> now, before |-> granted[k], lost |-> lost[k]] PROVE BudgetFrom(k, e)'
    <3>1. Earned(at - now) \in Int /\ Earned(at - now) >= 0
      BY EarnedType DEF BucketInv, BucketType
    <3>2. granted[k] + n - granted[k] = n
      BY DEF BucketInv, BucketType
    <3>3. Units(n) + (Refilled(k, now) - Units(n)) <= Full + Earned(at - now)
      BY <3>1, UnitsType, FullType, RefilledBound
    <3>4. granted[k] \in Nat /\ now \in Nat
      BY DEF BucketInv, BucketType
    <3>5. e.at = now /\ e.before = granted[k] /\ granted'[k] - e.before = n
      BY <2>3, <2>5, <3>2, <3>4
    <3> QED BY <2>1, <2>3, <3>3, <3>4, <3>5 DEF BudgetFrom
  <2>6. \A j \in Keys \ {k} :
          /\ lastRefill'[j] = lastRefill[j] /\ granted'[j] = granted[j]
          /\ log'[j] = log[j] /\ tokens'[j] = tokens[j]
          /\ j \in known' <=> j \in known
    BY <1>3 DEF Take, BucketInv, BucketType
  <2>7. lastRefill'[k] <= now' /\ k \in known'
    BY <1>3, <2>3 DEF Take
  <2>8. \A e \in log'[k] : BudgetFrom(k, e)'
    BY <2>3, <2>4, <2>5
  <2> QED BY <2>2, <2>6, <2>7, <2>8 DEF BucketInv, BudgetFrom, BucketType
<1>4. CASE k \in known /\ Refuse(k, Refilled(k, now), at)
  <2>1. BucketType'
    BY <1>4, RefilledBound DEF Refuse, BucketInv, BucketType
  <2>2. /\ lastRefill'[k] = at /\ granted'[k] = granted[k]
        /\ tokens'[k] = Refilled(k, now) /\ log'[k] = log[k]
    BY <1>4 DEF Refuse, BucketInv, BucketType
  <2>3. ASSUME NEW e \in log[k] PROVE BudgetFrom(k, e)'
    <3>1. /\ e.at <= at
          /\ Units(granted[k] + 0 - e.before) + (Refilled(k, now) - Units(0))
               <= Full + Earned(at - e.at)
      BY BudgetKept
    <3>2. granted[k] + 0 - e.before = granted[k] - e.before /\ Units(0) = 0
      BY BucketAssumption DEF BucketInv, BucketType, Units
    <3> QED BY <2>2, <3>1, <3>2, RefilledBound DEF BudgetFrom
  <2>4. \A j \in Keys \ {k} :
          /\ lastRefill'[j] = lastRefill[j] /\ granted'[j] = granted[j]
          /\ log'[j] = log[j] /\ tokens'[j] = tokens[j]
    BY <1>4 DEF Refuse, BucketInv, BucketType
  <2>5. known' = known /\ lastRefill'[k] <= now'
    BY <1>4, <2>2 DEF Refuse
  <2>6. \A e \in log'[k] : BudgetFrom(k, e)'
    BY <2>2, <2>3
  <2> QED BY <1>4, <2>1, <2>4, <2>5, <2>6 DEF BucketInv, BudgetFrom, BucketType
<1> QED BY <1>1, <1>2, <1>3, <1>4 DEF Check

LEMMA BucketStep == BucketInv /\ [Next]_vars => BucketInv'
<1> SUFFICES ASSUME BucketInv, [Next]_vars PROVE BucketInv'
  OBVIOUS
<1>0. now \in Nat /\ Delays \subseteq Nat
  BY BucketAssumption DEF BucketInv, BucketType
<1>1. ASSUME NEW k \in Keys, NEW n \in Requests, AllowN(k, n) PROVE BucketInv'
  <2>1. PICK d \in Delays, allowed \in BOOLEAN :
          now' = now + d /\ Check(k, n, allowed, now + d)
    BY <1>1 DEF AllowN
  <2>2. now + d \in Nat /\ now <= now + d /\ now' \in Nat /\ now + d <= now'
    BY <1>0, <2>1
  <2> QED BY <2>1, <2>2, CheckKeeps
<1>2. ASSUME NEW k \in Keys, NEW n \in Requests, AllowWithInfo(k, n) PROVE BucketInv'
  <2>1. PICK d \in Delays, f \in Delays, allowed \in BOOLEAN :
          now' = now + d + f /\ Check(k, n, allowed, now + d)
    BY <1>2 DEF AllowWithInfo
  <2>2. now + d \in Nat /\ now <= now + d /\ now' \in Nat /\ now + d <= now'
    BY <1>0, <2>1
  <2> QED BY <2>1, <2>2, CheckKeeps
<1>3. ASSUME NEW k \in Keys, Reset(k) PROVE BucketInv'
  <2>1. BucketType'
    BY <1>3, FullType DEF Reset, BucketInv, BucketType
  <2>2. log'[k] = {} /\ granted'[k] = 0 /\ lastRefill'[k] = 0 /\ now' = now
    BY <1>3 DEF Reset, BucketInv, BucketType
  <2>3. \A j \in Keys \ {k} :
          /\ lastRefill'[j] = lastRefill[j] /\ granted'[j] = granted[j]
          /\ log'[j] = log[j] /\ tokens'[j] = tokens[j]
          /\ j \in known' <=> j \in known
    BY <1>3 DEF Reset, BucketInv, BucketType
  <2> QED BY <1>0, <2>1, <2>2, <2>3 DEF BucketInv, BudgetFrom, BucketType
<1>4. CASE Tick
  BY <1>4 DEF Tick, BucketInv, BudgetFrom, BucketType
<1>5. CASE UNCHANGED vars
  BY <1>5 DEF vars, BucketInv, BudgetFrom, BucketType
<1> QED BY <1>1, <1>2, <1>3, <1>4, <1>5 DEF Next

(* From any grant on, a key is granted at most a burst and what its rate   *)
(* has earned since, for every rate, window, burst and sequence of calls.  *)
THEOREM BucketsNeverOverGrant == Spec => []NeverOverGrants
<1>1. Init => BucketInv
  BY FullType DEF Init, BucketInv, BucketType
<1>2. BucketInv => NeverOverGrants
  <2> SUFFICES ASSUME BucketInv, NEW k \in Keys, NEW e \in log[k]
               PROVE  Units(granted[k] - e.before) <= Full + Earned(now - e.at)
    BY DEF NeverOverGrants
  <2>1. /\ e.at \in Nat /\ e.before \in Nat /\ granted[k] \in Nat /\ tokens[k] \in Nat
        /\ lastRefill[k] \in Nat /\ now \in Nat /\ lastRefill[k] <= now
        /\ BudgetFrom(k, e)
    BY DEF BucketInv, BucketType
  <2>2. Earned(lastRefill[k] - e.at) <= Earned(now - e.at)
    <3>1. /\ lastRefill[k] - e.at \in Int /\ now - e.at \in Int
          /\ lastRefill[k] - e.at <= now - e.at
      BY <2>1
    <3> QED BY <3>1, EarnedGrows
  <2>3. /\ Earned(lastRefill[k] - e.at) \in Int /\ Earned(now - e.at) \in Int
        /\ Units(granted[k] - e.before) \in Int
    BY <2>1, EarnedType, UnitsType
  <2> QED BY <2>1, <2>2, <2>3, FullType DEF BudgetFrom
<1> QED BY <1>1, <1>2, BucketStep, PTL DEF Spec

-----------------------------------------------------------------------------
(* No earned token is withheld.                                            *)

(* The bucket of k holds what has been earned since e beyond what has been *)
(* granted since, but for the ticks lost between two readings.             *)
CreditFrom(k, e) ==
  tokens[k] >= Full + Earned((lastRefill[k] - e.at) - (lost[k] - e.lost))
                 - Units(granted[k] - e.before)

RateInv ==
  \A k \in Keys : k \in known => tokens[k] = Full \/ \E e \in log[k] : CreditFrom(k, e)

LEMMA FullStaysFull ==
  ASSUME BucketInv, NEW k \in Keys, tokens[k] = Full
  PROVE  Refilled(k, now) = Full
<1>1. now - lastRefill[k] \in Nat /\ tokens[k] \in Nat
  BY DEF BucketInv, BucketType
<1>2. Earned(now - lastRefill[k]) >= 0 /\ Earned(now - lastRefill[k]) \in Int
  BY <1>1, EarnedType
<1> QED BY <1>1, <1>2, FullType DEF Refilled

(* Unless the refill of a call fills the bucket, the call keeps a credit.  *)
LEMMA CreditKept ==
  ASSUME BucketInv, NEW k \in Keys, NEW e \in log[k], CreditFrom(k, e),
         NEW n \in Nat, NEW at \in Nat, Refilled(k, now) # Full
  PROVE  Refilled(k, now) - Units(n) >=
           Full + Earned((at - e.at) - (lost[k] + at - now - e.lost))
             - Units(granted[k] + n - e.before)
<1>1. /\ e.at \in Nat /\ e.before \in Nat /\ e.lost \in Nat /\ granted[k] \in Nat
      /\ tokens[k] \in Nat /\ lastRefill[k] \in Nat /\ now \in Nat /\ lost[k] \in Nat
  BY DEF BucketInv, BucketType
<1> DEFINE a == (lastRefill[k] - e.at) - (lost[k] - e.lost)
           b == now - lastRefill[k]
           g == granted[k] - e.before
<1>2. a \in Int /\ b \in Int /\ g \in Int
  BY <1>1
<1>3. (at - e.at) - (lost[k] + at - now - e.lost) = a + b
  BY <1>1
<1>4. granted[k] + n - e.before = g + n
  BY <1>1
<1>5. Refilled(k, now) = tokens[k] + Earned(b)
  BY DEF Refilled
<1>6. tokens[k] >= Full + Earned(a) - Units(g)
  BY DEF CreditFrom
<1>7. Earned(a + b) = Earned(a) + Earned(b) /\ Units(g + n) = Units(g) + Units(n)
  <2> HIDE DEF a, b, g
  <2>1. Earned(a + b) = Earned(a) + Earned(b)
    BY <1>2, EarnedAdds
  <2>2. Units(g + n) = Units(g) + Units(n)
    BY <1>2, UnitsAdd
  <2> QED BY <2>1, <2>2
<1>8. /\ Earned(a) \in Int /\ Earned(b) \in Int /\ Units(g) \in Int /\ Units(n) \in Int
      /\ Full \in Int
  BY <1>2, EarnedType, UnitsType, FullType
<1> HIDE DEF a, b, g
<1> QED BY <1>1, <1>3, <1>4, <1>5, <1>6, <1>7, <1>8

(* A grant from a full bucket opens a credit. *)
LEMMA CreditOpens ==
  ASSUME BucketInv, NEW k \in Keys, NEW n \in Nat, NEW at \in Nat, Take(k, n, Full, at)
  PROVE  \E e \in log'[k] : CreditFrom(k, e)'
<1>1. PICK e : e = [at |-> now, before |-> granted[k], lost |-> lost[k]]
  OBVIOUS
<1>2. /\ e \in log'[k] /\ tokens'[k] = Full - Units(n) /\ lastRefill'[k] = at
      /\ granted'[k] = granted[k] + n /\ lost'[k] = lost[k] + at - now
  BY <1>1 DEF Take, BucketInv, BucketType
<1>3. now \in Nat /\ granted[k] \in Nat /\ lost[k] \in Nat
  BY DEF BucketInv, BucketType
<1>4. e.at = now /\ e.before = granted[k] /\ e.lost = lost[k]
  BY <1>1
<1>5. /\ (lastRefill'[k] - e.at) - (lost'[k] - e.lost) = 0
      /\ granted'[k] - e.before = n
  BY <1>2, <1>3, <1>4
<1>6. Earned(0) = 0
  BY BucketAssumption DEF Earned
<1>7. Full \in Int /\ Units(n) \in Int
  BY FullType, UnitsType
<1>8. tokens'[k] >= Full + Earned(0) - Units(n)
  BY <1>2, <1>6, <1>7
<1>9. CreditFrom(k, e)'
  BY <1>5, <1>8 DEF CreditFrom
<1> QED BY <1>2, <1>9

LEMMA RateCheck ==
  ASSUME BucketInv, RateInv, NEW k \in Keys, NEW n \in Requests, NEW allowed,
         NEW at \in Nat, Check(k, n, allowed, at)
  PROVE  RateInv'
<1> n \in Nat
  BY BucketAssumption
<1> DEFINE level == Refilled(k, now)
<1>1. SUFFICES ASSUME k \in known'
               PROVE  tokens'[k] = Full \/ \E e \in log'[k] : CreditFrom(k, e)'
  <2>1. ASSUME NEW j \in Keys, j # k
        PROVE  /\ UNCHANGED <<tokens[j], lastRefill[j], granted[j], lost[j], log[j]>>
               /\ j \in known' <=> j \in known
    BY <2>1 DEF Check, Take, Refuse, BucketInv, BucketType
  <2>2. Full' = Full
    BY DEF Full, Burst, Units
  <2>3. ASSUME NEW j \in Keys, j # k, j \in known'
        PROVE  tokens'[j] = Full' \/ \E e \in log'[j] : CreditFrom(j, e)'
    BY <2>1, <2>2, <2>3 DEF RateInv, CreditFrom
  <2> QED BY <2>2, <2>3 DEF RateInv
<1>2. CASE Take(k, n, Full, at)
  BY <1>2, CreditOpens
<1>3. CASE UNCHANGED <<known, tokens, lastRefill, granted, lost, log>>
  <2>1. tokens[k] = Full \/ \E e \in log[k] : CreditFrom(k, e)
    BY <1>1, <1>3 DEF RateInv
  <2> QED BY <1>3, <2>1 DEF CreditFrom
<1>4. CASE k \in known /\ level # Full /\ Take(k, n, level, at)
  <2>1. PICK e \in log[k] : CreditFrom(k, e)
    BY <1>4, FullStaysFull DEF RateInv
  <2>2. level - Units(n) >= Full + Earned((at - e.at) - (lost[k] + at - now - e.lost))
                              - Units(granted[k] + n - e.before)
    BY <1>4, <2>1, CreditKept
  <2>3. /\ e \in log'[k] /\ tokens'[k] = level - Units(n) /\ lastRefill'[k] = at
        /\ granted'[k] = granted[k] + n /\ lost'[k] = lost[k] + at - now
    BY <1>4 DEF Take, BucketInv, BucketType
  <2>4. CreditFrom(k, e)'
    <3>1. /\ (lastRefill'[k] - e.at) - (lost'[k] - e.lost)
                = (at - e.at) - (lost[k] + at - now - e.lost)
          /\ granted'[k] - e.before = granted[k] + n - e.before
      <4>1. /\ e.at \in Nat /\ e.before \in Nat /\ e.lost \in Nat
            /\ granted[k] \in Nat /\ lost[k] \in Nat /\ now \in Nat
        BY DEF BucketInv, BucketType
      <4> QED BY ONLY <2>3, <4>1, n \in Nat, at \in Nat
    <3> HIDE DEF level
    <3> QED BY ONLY <2>2, <2>3, <3>1 DEF CreditFrom
  <2> QED BY <2>3, <2>4
<1>5. CASE k \in known /\ Refuse(k, level, at)
  <2>1. /\ tokens'[k] = level /\ lastRefill'[k] = at /\ log'[k] = log[k]
        /\ granted'[k] = granted[k] /\ lost'[k] = lost[k] + at - now
    BY <1>5 DEF Refuse, BucketInv, BucketType
  <2>2. CASE level # Full
    <3>1. PICK e \in log[k] : CreditFrom(k, e)
      BY <1>5, <2>2, FullStaysFull DEF RateInv
    <3>2. level - Units(0) >= Full + Earned((at - e.at) - (lost[k] + at - now - e.lost))
                                - Units(granted[k] + 0 - e.before)
      BY <2>2, <3>1, CreditKept
    <3>3. Units(0) = 0 /\ granted[k] + 0 = granted[k] /\ level - 0 = level
      BY BucketAssumption, RefilledBound DEF Units, BucketInv, BucketType
    <3>4. CreditFrom(k, e)'
      <4>1. /\ (lastRefill'[k] - e.at) - (lost'[k] - e.lost)
                  = (at - e.at) - (lost[k] + at - now - e.lost)
            /\ granted'[k] - e.before = granted[k] + 0 - e.before
            /\ tokens'[k] = level - Units(0)
        <5>1. /\ e.at \in Nat /\ e.before \in Nat /\ e.lost \in Nat
              /\ granted[k] \in Nat /\ lost[k] \in Nat /\ now \in Nat
          BY DEF BucketInv, BucketType
        <5> HIDE DEF level
        <5> QED BY ONLY <2>1, <3>3, <5>1, at \in Nat
      <4> HIDE DEF level
      <4> QED BY ONLY <3>2, <4>1 DEF CreditFrom
    <3> QED BY <2>1, <3>4
  <2> QED BY <2>1, <2>2
<1> QED BY <1>2, <1>3, <1>4, <1>5 DEF Check

LEMMA RateStep == BucketInv /\ RateInv /\ [Next]_vars => RateInv'
<1> SUFFICES ASSUME BucketInv, RateInv, [Next]_vars PROVE RateInv'
  OBVIOUS
<1>0. now \in Nat /\ Delays \subseteq Nat
  BY BucketAssumption DEF BucketInv, BucketType
<1>1. ASSUME NEW k \in Keys, NEW n \in Requests, AllowN(k, n) \/ AllowWithInfo(k, n)
      PROVE  RateInv'
  <2>1. PICK d \in Delays, allowed \in BOOLEAN : Check(k, n, allowed, now + d)
    BY <1>1 DEF AllowN, AllowWithInfo
  <2>2. now + d \in Nat
    BY <1>0
  <2> QED BY <2>1, <2>2, RateCheck
<1>2. ASSUME NEW k \in Keys, Reset(k) PROVE RateInv'
  <2>1. ASSUME NEW j \in Keys, j \in known'
        PROVE  /\ j \in known
               /\ UNCHANGED <<tokens[j], lastRefill[j], granted[j], lost[j], log[j]>>
    BY <1>2, <2>1 DEF Reset, BucketInv, BucketType
  <2> QED BY <2>1 DEF RateInv, CreditFrom
<1>3. ASSUME UNCHANGED <<known, tokens, lastRefill, granted, lost, log>> PROVE RateInv'
  BY <1>3 DEF RateInv, CreditFrom
<1> QED BY <1>1, <1>2, <1>3 DEF Next, Tick, vars

(* Refills lose no fraction and calls withhold nothing: a bucket that is   *)
(* not full holds all that was earned since some grant less what was       *)
(* granted since, but for the ticks between two readings of the clock.     *)
THEOREM RateIsConstant == Spec => []ConstantRate
<1>1. Init => RateInv
  BY DEF Init, RateInv
<1>2. BucketInv /\ RateInv => ConstantRate
  <2> SUFFICES ASSUME BucketInv, RateInv, NEW k \in known, Refilled(k, now) # Full
               PROVE  \E e \in log[k] :
                        Refilled(k, now) >=
                          Full + Earned((now - e.at) - (lost[k] - e.lost))
                            - Units(granted[k] - e.before)
    BY DEF ConstantRate
  <2>1. CASE k \in Keys
    <3>1. PICK e \in log[k] : CreditFrom(k, e)
      BY <2>1, FullStaysFull DEF RateInv
    <3>2. Refilled(k, now) - Units(0) >=
            Full + Earned((now - e.at) - (lost[k] + now - now - e.lost))
              - Units(granted[k] + 0 - e.before)
      BY <2>1, <3>1, CreditKept DEF BucketInv, BucketType
    <3>3. /\ Units(0) = 0 /\ Refilled(k, now) \in Nat /\ now \in Nat
          /\ lost[k] \in Nat /\ granted[k] \in Nat /\ e.lost \in Nat /\ e.before \in Nat
      BY <2>1, BucketAssumption, RefilledBound DEF Units, BucketInv, BucketType
    <3>4. Refilled(k, now) >= Full + Earned((now - e.at) - (lost[k] - e.lost))
                                - Units(granted[k] - e.before)
      <4>1. /\ Refilled(k, now) - Units(0) = Refilled(k, now)
            /\ lost[k] + now - now - e.lost = lost[k] - e.lost
            /\ granted[k] + 0 - e.before = granted[k] - e.before
        BY ONLY <3>3
      <4> QED BY ONLY <3>2, <4>1
    <3> QED BY <3>4
  <2> QED BY <2>1 DEF BucketInv, BucketType
<1>3. Init => BucketInv
  BY FullType DEF Init, BucketInv, BucketType
<1> QED BY <1>1, <1>2, <1>3, BucketStep, RateStep, PTL DEF Spec

-----------------------------------------------------------------------------
(* What a caller is told is right to one unit of time.                     *)

(* The whole ticks that earn a units, rounded down as a conversion to      *)
(* time.Duration does.                                                     *)
LEMMA TicksToEarn ==
  ASSUME NEW a \in Nat
  PROVE  /\ a \div Rate \in Nat
         /\ Earned(a \div Rate) <= a
         /\ a < Earned(a \div Rate + 1)
BY BucketAssumption DEF Earned

AnswerFits(k) ==
  LET a == answer[k]
  IN  /\ a.resetAt = a.at + UntilFull(tokens[k])
      /\ lastRefill[k] <= a.at
      /\ ~a.allowed => /\ Units(a.n) > tokens[k]
                       /\ a.retryAfter = RetryAfter(a.n, tokens[k])

(* Only a request above the burst is refused without making a bucket.      *)
RefusedOutright(k) ==
  ~answer[k].allowed => answer[k].n > Burst /\ answer[k].retryAfter = 0

Answers == [n : Requests \cup {0}, allowed : BOOLEAN,
            retryAfter : Nat, resetAt : Nat, at : Nat]

AnswerInv ==
  /\ answer \in [Keys -> Answers]
  /\ \A k \in Keys : IF k \in known THEN answer[k] # NoAnswer => AnswerFits(k)
                                    ELSE RefusedOutright(k)

OthersKept(k) ==
  \A j \in Keys \ {k} : /\ UNCHANGED <<tokens[j], lastRefill[j]>>
                        /\ j \in known' <=> j \in known

(* What buildResult makes of the bucket a call leaves behind.              *)
LEMMA ResultFits ==
  ASSUME BucketInv, BucketInv', NEW k \in Keys, NEW n \in Requests, NEW allowed \in BOOLEAN,
         NEW at \in Nat, at <= now', Check(k, n, allowed, at),
         answer[k]' = BuildResult(k, n, allowed)
  PROVE  /\ answer[k]' \in Answers
         /\ IF k \in known' THEN AnswerFits(k)' ELSE RefusedOutright(k)'
<1> n \in Nat
  BY BucketAssumption
<1>1. tokens'[k] \in 0..Full /\ now' \in Nat /\ lastRefill'[k] \in Nat
  BY DEF BucketInv, BucketType
<1>2. CASE k \notin known'
  <2>1. n > Burst
    BY <1>2 DEF Check, Take, Refuse
  <2>2. answer[k]' = [n |-> n, allowed |-> FALSE, retryAfter |-> 0, resetAt |-> 0, at |-> now']
    BY <1>2 DEF BuildResult
  <2> QED BY <1>1, <1>2, <2>1, <2>2 DEF Answers, RefusedOutright
<1>3. CASE k \in known'
  <2>1. lastRefill'[k] = at
    BY <1>3 DEF Check, Take, Refuse, BucketInv, BucketType
  <2>2. ~allowed => Units(n) > tokens'[k]
    BY <1>3 DEF Check, Take, Refuse, BucketInv, BucketType
  <2>3. UntilFull(tokens'[k]) \in Nat
    BY <1>1, FullType, TicksToEarn DEF UntilFull
  <2>4. ~allowed => RetryAfter(n, tokens'[k]) \in Nat
    <3>1. ~allowed => Units(n) - tokens'[k] \in Nat
      BY <1>1, <2>2, UnitsType
    <3> QED BY <3>1, TicksToEarn DEF RetryAfter
  <2>5. answer[k]' = [n |-> n, allowed |-> allowed,
                      retryAfter |-> IF allowed THEN 0 ELSE RetryAfter(n, tokens'[k]),
                      resetAt |-> now' + UntilFull(tokens'[k]), at |-> now']
    BY <1>3 DEF BuildResult
  <2>6. answer[k]' \in Answers
    BY <1>1, <2>3, <2>4, <2>5 DEF Answers
  <2>7. lastRefill'[k] <= now'
    BY <1>1, <2>1
  <2>8. AnswerFits(k)'
    BY <2>2, <2>5, <2>7 DEF AnswerFits, RetryAfter, UntilFull
  <2> QED BY <1>3, <2>6, <2>8
<1> QED BY <1>2, <1>3

LEMMA AnswerStep == BucketInv /\ BucketInv' /\ AnswerInv /\ [Next]_vars => AnswerInv'
<1> SUFFICES ASSUME BucketInv, BucketInv', AnswerInv, [Next]_vars PROVE AnswerInv'
  OBVIOUS
<1>0. now \in Nat /\ Delays \subseteq Nat /\ NoAnswer \in Answers
  BY BucketAssumption DEF BucketInv, BucketType, NoAnswer, Answers
<1>1. ASSUME NEW k \in Keys, NEW a \in Answers, answer' = [answer EXCEPT ![k] = a],
             OthersKept(k),
             IF k \in known' THEN a # NoAnswer => AnswerFits(k)' ELSE RefusedOutright(k)'
      PROVE  AnswerInv'
  <2>1. answer' \in [Keys -> Answers] /\ answer'[k] = a
    BY <1>1 DEF AnswerInv
  <2>2. ASSUME NEW j \in Keys \ {k}
        PROVE  IF j \in known' THEN answer'[j] # NoAnswer => AnswerFits(j)'
                               ELSE RefusedOutright(j)'
    <3>1. /\ answer'[j] = answer[j] /\ (j \in known' <=> j \in known)
          /\ UNCHANGED <<tokens[j], lastRefill[j]>>
      BY <1>1 DEF OthersKept, AnswerInv
    <3>2. IF j \in known THEN answer[j] # NoAnswer => AnswerFits(j) ELSE RefusedOutright(j)
      BY DEF AnswerInv
    <3> QED BY <3>1, <3>2 DEF AnswerFits, RefusedOutright
  <2> QED BY <1>1, <2>1, <2>2 DEF AnswerInv, NoAnswer
<1>2. ASSUME NEW k \in Keys, NEW n \in Requests, AllowN(k, n) PROVE AnswerInv'
  <2>1. PICK d \in Delays, allowed \in BOOLEAN : Check(k, n, allowed, now + d)
    BY <1>2 DEF AllowN
  <2>2. OthersKept(k)
    BY <2>1 DEF OthersKept, Check, Take, Refuse, BucketInv, BucketType
  <2>3. answer' = [answer EXCEPT ![k] = NoAnswer]
    BY <1>2 DEF AllowN
  <2>4. answer'[k] = NoAnswer
    BY <2>3 DEF AnswerInv
  <2>5. RefusedOutright(k)'
    BY <2>4 DEF RefusedOutright, NoAnswer
  <2> QED BY <1>0, <1>1, <2>2, <2>3, <2>5
<1>3. ASSUME NEW k \in Keys, NEW n \in Requests, AllowWithInfo(k, n) PROVE AnswerInv'
  <2>1. PICK d \in Delays, f \in Delays, allowed \in BOOLEAN :
          /\ now' = now + d + f
          /\ Check(k, n, allowed, now + d)
          /\ answer' = [answer EXCEPT ![k] = BuildResult(k, n, allowed)]
    BY <1>3 DEF AllowWithInfo
  <2>2. OthersKept(k)
    BY <2>1 DEF OthersKept, Check, Take, Refuse, BucketInv, BucketType
  <2>3. now + d \in Nat /\ now + d <= now'
    BY <1>0, <2>1
  <2>4. answer[k]' = BuildResult(k, n, allowed)
    BY <2>1 DEF AnswerInv
  <2>5. /\ answer[k]' \in Answers
        /\ IF k \in known' THEN AnswerFits(k)' ELSE RefusedOutright(k)'
    BY <2>1, <2>3, <2>4, ResultFits
  <2> QED BY <1>1, <2>1, <2>2, <2>4, <2>5
<1>4. ASSUME NEW k \in Keys, Reset(k) PROVE AnswerInv'
  <2>1. OthersKept(k)
    BY <1>4 DEF OthersKept, Reset, BucketInv, BucketType
  <2>2. answer' = [answer EXCEPT ![k] = NoAnswer]
    BY <1>4 DEF Reset
  <2>3. answer'[k] = NoAnswer
    BY <2>2 DEF AnswerInv
  <2>4. RefusedOutright(k)'
    BY <2>3 DEF RefusedOutright, NoAnswer
  <2> QED BY <1>0, <1>1, <2>1, <2>2, <2>4
<1>5. ASSUME UNCHANGED <<known, tokens, lastRefill, answer>> PROVE AnswerInv'
  BY <1>5 DEF AnswerInv, AnswerFits, RefusedOutright, NoAnswer
<1> QED BY <1>2, <1>3, <1>4, <1>5 DEF Next, Tick, vars

LEMMA BucketInit == Init => BucketInv /\ RateInv /\ AnswerInv
<1>1. NoAnswer \in Answers
  BY BucketAssumption DEF NoAnswer, Answers
<1>2. Init => BucketInv /\ RateInv
  BY FullType DEF Init, BucketInv, BucketType, RateInv
<1>3. Init => AnswerInv
  <2> SUFFICES ASSUME Init PROVE AnswerInv
    OBVIOUS
  <2>1. known = {} /\ answer = [k \in Keys |-> NoAnswer] /\ NoAnswer.allowed
    BY DEF Init, NoAnswer
  <2> QED BY <1>1, <2>1 DEF AnswerInv, RefusedOutright
<1> QED
  BY <1>2, <1>3

(* How long a bucket that holds level units takes to get to goal units.    *)
LEMMA WaitIsTight ==
  ASSUME NEW level \in Nat, NEW goal \in Nat, level <= goal,
         NEW wait, wait = (goal - level) \div Rate
  PROVE  /\ wait \in Nat
         /\ level + Earned(wait + 1) >= goal
         /\ wait > 0 => level + Earned(wait - 1) < goal
<1>1. wait \in Nat /\ Earned(wait) <= goal - level /\ goal - level < Earned(wait + 1)
  BY TicksToEarn
<1>2. /\ Earned(wait + 1) \in Int /\ Earned(wait) \in Int /\ Earned(wait - 1) \in Int
  BY <1>1, EarnedType
<1>3. Earned(wait - 1) < Earned(wait)
  <2>1. Earned(wait) = Earned(wait - 1) + Earned(1)
    BY <1>1, EarnedAdds
  <2>2. Earned(1) > 0 /\ Earned(1) \in Int
    BY BucketAssumption DEF Earned
  <2> QED BY <1>2, <2>1, <2>2
<1> QED BY <1>1, <1>2, <1>3

(* The level of the bucket of k some time after its last refill.           *)
LEMMA LevelLater ==
  ASSUME BucketInv, NEW k \in Keys, NEW wait \in Int, NEW t \in Int,
         t - lastRefill[k] = wait
  PROVE  /\ Refilled(k, t) \in Int
         /\ Refilled(k, t) = IF tokens[k] + Earned(wait) < Full
                             THEN tokens[k] + Earned(wait) ELSE Full
         /\ tokens[k] \in Nat /\ Full \in Nat /\ Earned(wait) \in Int
BY EarnedType, FullType DEF Refilled, BucketInv, BucketType

LEMMA TightRetry ==
  ASSUME BucketInv, AnswerInv, NEW k \in known, ~answer[k].allowed, answer[k].n <= Burst
  PROVE  /\ Serves(k, answer[k].n, (lastRefill[k] + answer[k].retryAfter) + 1)
         /\ answer[k].retryAfter > 0 =>
              ~Serves(k, answer[k].n, (lastRefill[k] + answer[k].retryAfter) - 1)
<1>1. k \in Keys /\ answer[k] \in Answers /\ answer[k] # NoAnswer /\ AnswerFits(k)
  BY DEF BucketInv, BucketType, AnswerInv, NoAnswer
<1>2. tokens[k] \in 0..Full /\ lastRefill[k] \in Nat /\ Full \in Nat
  BY <1>1, FullType DEF BucketInv, BucketType
<1> DEFINE a == answer[k]
           goal == Units(a.n)
           wait == a.retryAfter
<1>3. a.n \in Nat /\ wait \in Nat
  BY <1>1, BucketAssumption DEF Answers
<1>4. goal \in Nat /\ goal <= Full
  <2>1. Burst - a.n \in Nat /\ Burst = a.n + (Burst - a.n)
    BY <1>3, FullType
  <2>2. Full = Units(a.n) + Units(Burst - a.n)
    BY <1>3, <2>1, UnitsAdd DEF Full
  <2> QED BY <1>3, <2>1, <2>2, UnitsType
<1>5. tokens[k] < goal /\ wait = (goal - tokens[k]) \div Rate
  BY <1>1 DEF AnswerFits, RetryAfter
<1> HIDE DEF goal, wait
<1>6. /\ tokens[k] + Earned(wait + 1) >= goal
      /\ wait > 0 => tokens[k] + Earned(wait - 1) < goal
  <2>1. tokens[k] \in Nat /\ tokens[k] <= goal
    BY <1>2, <1>4, <1>5
  <2> QED BY <1>4, <1>5, <2>1, WaitIsTight
<1>7. /\ wait + 1 \in Int /\ ((lastRefill[k] + wait) + 1) - lastRefill[k] = wait + 1
      /\ wait - 1 \in Int /\ ((lastRefill[k] + wait) - 1) - lastRefill[k] = wait - 1
      /\ (lastRefill[k] + wait) + 1 \in Int /\ (lastRefill[k] + wait) - 1 \in Int
  BY <1>2, <1>3 DEF wait
<1>8. /\ Refilled(k, (lastRefill[k] + wait) + 1) \in Int
      /\ goal <= Refilled(k, (lastRefill[k] + wait) + 1)
  BY <1>1, <1>4, <1>6, <1>7, LevelLater
<1>9. /\ Refilled(k, (lastRefill[k] + wait) - 1) \in Int
      /\ wait > 0 => Refilled(k, (lastRefill[k] + wait) - 1) < goal
  BY <1>1, <1>4, <1>6, <1>7, LevelLater
<1> QED BY <1>4, <1>8, <1>9 DEF Serves, goal, wait

LEMMA TightReset ==
  ASSUME BucketInv, AnswerInv, NEW k \in known, answer[k] # NoAnswer
  PROVE  /\ Refilled(k, answer[k].resetAt + 1) = Full
         /\ answer[k].resetAt > answer[k].at =>
              Refilled(k, (answer[k].resetAt - 1) - (answer[k].at - lastRefill[k])) < Full
<1>1. k \in Keys /\ answer[k] \in Answers /\ AnswerFits(k)
  BY DEF BucketInv, BucketType, AnswerInv
<1>2. tokens[k] \in 0..Full /\ lastRefill[k] \in Nat /\ Full \in Nat
  BY <1>1, FullType DEF BucketInv, BucketType
<1> DEFINE a == answer[k]
           wait == UntilFull(tokens[k])
           later == (a.resetAt + 1) - lastRefill[k]
<1>3. /\ a.resetAt \in Nat /\ a.at \in Nat /\ a.resetAt = a.at + wait
      /\ lastRefill[k] <= a.at
  BY <1>1 DEF AnswerFits, Answers
<1>4. /\ wait \in Nat
      /\ tokens[k] + Earned(wait + 1) >= Full
      /\ wait > 0 => tokens[k] + Earned(wait - 1) < Full
  BY <1>2, WaitIsTight DEF UntilFull
<1> HIDE DEF wait, a
<1>5. /\ later \in Int /\ wait + 1 <= later /\ wait + 1 \in Int /\ wait - 1 \in Int
      /\ a.resetAt + 1 \in Int
      /\ (a.resetAt - 1) - (a.at - lastRefill[k]) \in Int
      /\ ((a.resetAt - 1) - (a.at - lastRefill[k])) - lastRefill[k] = wait - 1
      /\ a.resetAt > a.at => wait > 0
  BY <1>2, <1>3, <1>4
<1>6. Refilled(k, a.resetAt + 1) = Full
  <2>1. Earned(wait + 1) <= Earned(later) /\ Earned(wait + 1) \in Int
    BY <1>5, EarnedGrows, EarnedType
  <2>2. /\ Refilled(k, a.resetAt + 1) = IF tokens[k] + Earned(later) < Full
                                        THEN tokens[k] + Earned(later) ELSE Full
        /\ Earned(later) \in Int
    BY <1>1, <1>5, LevelLater
  <2> QED BY <1>2, <1>4, <2>1, <2>2
<1>7. wait > 0 => Refilled(k, (a.resetAt - 1) - (a.at - lastRefill[k])) < Full
  BY <1>1, <1>4, <1>5, LevelLater
<1> QED BY <1>5, <1>6, <1>7 DEF a

LEMMA VainRetry ==
  ASSUME BucketInv, AnswerInv, NEW k \in known, ~answer[k].allowed, answer[k].n > Burst
  PROVE  /\ Refilled(k, (lastRefill[k] + answer[k].retryAfter) + 1) = Full
         /\ ~Serves(k, answer[k].n, (lastRefill[k] + answer[k].retryAfter) + 1)
<1>1. k \in Keys /\ answer[k] \in Answers /\ AnswerFits(k)
  BY DEF BucketInv, BucketType, AnswerInv, NoAnswer
<1>2. tokens[k] \in 0..Full /\ lastRefill[k] \in Nat /\ Full \in Nat
  BY <1>1, FullType DEF BucketInv, BucketType
<1> DEFINE a == answer[k]
           goal == Units(a.n)
           wait == a.retryAfter
<1>3. a.n \in Nat /\ wait \in Nat
  BY <1>1, BucketAssumption DEF Answers
<1>4. goal \in Nat /\ Full < goal
  <2> DEFINE more == a.n - Burst
  <2>1. more \in Nat /\ more > 0 /\ a.n = Burst + more /\ Burst \in Nat
    BY <1>3, FullType
  <2> HIDE DEF more
  <2>2. Units(Burst + more) = Units(Burst) + Units(more)
    BY <2>1, UnitsAdd
  <2>3. Units(more) > 0 /\ Units(more) \in Int
    BY <2>1, BucketAssumption DEF Units
  <2>4. goal = Full + Units(more)
    BY <2>1, <2>2 DEF Full
  <2> HIDE DEF goal
  <2> QED BY <1>2, <2>3, <2>4
<1>5. wait = (goal - tokens[k]) \div Rate
  BY <1>1 DEF AnswerFits, RetryAfter
<1> HIDE DEF goal, wait
<1>6. tokens[k] + Earned(wait + 1) >= goal
  <2>1. tokens[k] \in Nat /\ tokens[k] <= goal
    BY <1>2, <1>4
  <2> QED BY <1>4, <1>5, <2>1, WaitIsTight
<1>7. /\ wait + 1 \in Int /\ ((lastRefill[k] + wait) + 1) - lastRefill[k] = wait + 1
      /\ (lastRefill[k] + wait) + 1 \in Int
  BY <1>2, <1>3 DEF wait
<1>8. Refilled(k, (lastRefill[k] + wait) + 1) = Full
  BY <1>1, <1>4, <1>6, <1>7, LevelLater
<1> QED BY <1>2, <1>4, <1>8 DEF Serves, goal, wait

LEMMA TightAnswers == BucketInv /\ AnswerInv => AnswersAreTight
<1> SUFFICES ASSUME BucketInv, AnswerInv PROVE AnswersAreTight
  OBVIOUS
<1>1. RetryAfterIsTight
  BY TightRetry DEF RetryAfterIsTight
<1>2. FullAtReset
  BY TightReset DEF FullAtReset
<1>3. RetryAboveBurstIsVain
  BY VainRetry DEF RetryAboveBurstIsVain, AnswerInv, RefusedOutright
<1> QED BY <1>1, <1>2, <1>3 DEF AnswersAreTight

(* RetryAfter and ResetAt are right to one unit of time in both directions *)
(* in every later state until the key is asked for again, ResetAt but for  *)
(* what passed between the two readings of the clock it is made of; and a  *)
(* request above the burst is told to retry in vain.                       *)
THEOREM AnswersTight == Spec => []AnswersAreTight
BY BucketInit, BucketStep, AnswerStep, TightAnswers, PTL DEF Spec

(* Every variable keeps its type; in particular no bucket ever holds less  *)
(* than nothing or more than its burst.                                    *)
THEOREM BucketTypes == Spec => []TypeOK
<1>1. BucketInv /\ AnswerInv => TypeOK
  BY DEF BucketInv, BucketType, AnswerInv, Answers, TypeOK
<1> QED BY <1>1, BucketInit, BucketStep, AnswerStep, PTL DEF Spec
=============================================================================
