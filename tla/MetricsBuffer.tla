---------------------------- MODULE MetricsBuffer ----------------------------
(***************************************************************************)
(* practice/metrics_buffer.go: MetricsBuffer and TimestampedMetricsBuffer, *)
(* ring buffers behind an RWMutex.  Both are this one buffer; the plain    *)
(* one has no use for the time of a sample.                                *)
(*                                                                         *)
(* Every operation holds the lock throughout and is one action.  GetWindow *)
(* reads the clock once per sample, so time may pass while it runs.        *)
(*                                                                         *)
(* history is every sample ever pushed; the code does not keep it.         *)
(* Operators named Fault... are wrong versions of the operator that        *)
(* follows them.                                                           *)
(***************************************************************************)
EXTENDS Integers, Sequences, Functions

CONSTANTS
  Sizes,       (* the sizes given to the constructor                         *)
  Readings,    (* the values that may be pushed                              *)
  Asks,        (* the n of GetRecent and the duration of GetWindow           *)
  MaxPushes,   (* bounds the run: how many samples are pushed                *)
  Horizon      (* bounds the run: the clock stops here                       *)

BufferAssumption ==
  /\ Sizes \subseteq Nat \ {0}
  /\ Readings \subseteq Int
  /\ Asks \subseteq Nat
  /\ MaxPushes \in Nat /\ Horizon \in Nat

VARIABLES
  now, size,
  buffer, writeIdx, count,
  reply,       (* the last call that read the buffer, and its result         *)
  history

bufferVars == <<size, buffer, writeIdx, count, history>>
ringVars == <<now, bufferVars, reply>>

Samples == [value : Readings, time : 0..Horizon]
Zero == [value |-> 0, time |-> 0]
NoReply == [call |-> "none"]

BufferTypeOK ==
  /\ now \in 0..Horizon /\ size \in Sizes
  /\ buffer \in [0..size - 1 -> Samples \cup {Zero}]
  /\ writeIdx \in 0..size - 1
  /\ count \in 0..size
  /\ history \in Seq(Samples)

RingInit ==
  /\ now = 0 /\ size \in Sizes
  /\ buffer = [i \in 0..size - 1 |-> Zero]
  /\ writeIdx = 0 /\ count = 0
  /\ reply = NoReply
  /\ history = <<>>

FaultNoWrap == IF writeIdx + 1 < size THEN writeIdx + 1 ELSE size - 1
NextIdx == (writeIdx + 1) % size

NextCount == IF count < size THEN count + 1 ELSE count

PushSample(v) ==
  /\ Len(history) < MaxPushes
  /\ LET s == [value |-> v, time |-> now]
     IN  /\ buffer' = [buffer EXCEPT ![writeIdx] = s]
         /\ history' = Append(history, s)
  /\ writeIdx' = NextIdx
  /\ count' = NextCount
  /\ reply' = NoReply
  /\ UNCHANGED <<now, size>>

-----------------------------------------------------------------------------
Smaller(i, j) == IF i < j THEN i ELSE j
Segment(i, j) == [k \in 1..j - i + 1 |-> buffer[i + k - 1]]

(* The two copies of GetRecent into n places, which begin as zero values.  *)
CopyOut(n, start, end) ==
  LET source == IF start < end THEN Segment(start, end)
                ELSE Segment(start, size - 1) \o Segment(0, end)
  IN  [k \in 1..n |-> IF k <= Len(source) THEN source[k] ELSE Zero]

GetRecent(ask) ==
  LET n == Smaller(ask, count)
      end == (writeIdx - 1 + size) % size
      start == (writeIdx - n + size) % size
  IN  /\ reply' = [call |-> "GetRecent", ask |-> ask,
                   result |-> CopyOut(n, start, end)]
      /\ UNCHANGED <<now, bufferVars>>

FaultFromWriteIdx(i) == (writeIdx + i) % size

(* Where the sample is that came i before the newest.                      *)
Back(i) ==
  LET pos == writeIdx - 1 - i
  IN  IF pos < 0 THEN size + pos ELSE pos

(* The quotient is left as its two parts.                                  *)
Average ==
  /\ reply' = [call |-> "Average",
               sum |-> SumFunction([i \in 1..count |-> buffer[Back(i - 1)].value]),
               of |-> count]
  /\ UNCHANGED <<now, bufferVars>>

Within(age, duration) == age <= duration

(* k samples are returned, newest first.  The clock is read for each and   *)
(* may move on in between: those returned were recent enough at the latest *)
(* when the call began, and the reading t that ends the loop comes last.   *)
GetWindow(duration) ==
  \E t \in now..Horizon, k \in 0..count :
    /\ \A i \in 0..k - 1 : Within(now - buffer[Back(i)].time, duration)
    /\ k < count => ~Within(t - buffer[Back(k)].time, duration)
    /\ now' = t
    /\ reply' = [call |-> "GetWindow", ask |-> duration, began |-> now,
                 result |-> [i \in 1..k |-> buffer[Back(i - 1)]]]
    /\ UNCHANGED bufferVars

Tick ==
  /\ now < Horizon
  /\ now' = now + 1
  /\ reply' = NoReply
  /\ UNCHANGED bufferVars

RingNext ==
  \/ \E v \in Readings : PushSample(v)
  \/ \E a \in Asks : GetRecent(a) \/ GetWindow(a)
  \/ Average
  \/ Tick

RingSpec == RingInit /\ [][RingNext]_ringVars

-----------------------------------------------------------------------------
LastOf(k) == SubSeq(history, Len(history) - k + 1, Len(history))
Kept == Smaller(size, Len(history))

(* The samples in the buffer, oldest first. *)
InBuffer == [i \in 1..count |-> buffer[Back(count - i)]]

(***************************************************************************)
(* However often it has wrapped, the buffer holds the last samples pushed. *)
(***************************************************************************)
Promise == INSTANCE RecentSamples WITH recent <- InBuffer
HoldsRecent == Promise!Spec

(***************************************************************************)
(* GetRecent(n) returns the last n samples, or all there are, oldest       *)
(* first, wherever they lie in the ring.                                   *)
(***************************************************************************)
RecentIsLast ==
  reply.call = "GetRecent" => reply.result = LastOf(Smaller(reply.ask, Kept))

(***************************************************************************)
(* Average is over the samples in the buffer, none missed or counted twice *)
(* and no slot that was never written.                                     *)
(***************************************************************************)
AverageIsOfLast ==
  reply.call = "Average" =>
    /\ reply.of = Kept
    /\ reply.sum = SumFunction([i \in 1..Kept |-> history[Len(history) - i + 1].value])

(***************************************************************************)
(* GetWindow returns the samples of the buffer that are in the window: its *)
(* early exit skips none that is still in the window when it returns, and  *)
(* none it returns was outside when it began.                              *)
(***************************************************************************)
WindowIsExact ==
  reply.call = "GetWindow" =>
    LET k == Len(reply.result)
    IN  /\ k <= Kept
        /\ \A i \in 1..k : /\ reply.result[i] = history[Len(history) - i + 1]
                           /\ reply.began - reply.result[i].time <= reply.ask
        /\ \A i \in k + 1..Kept : now - history[Len(history) - i + 1].time > reply.ask

(***************************************************************************)
(* Every call that reads the buffer tells of the last samples pushed and   *)
(* of nothing else, at any fill and after any number of wraps.             *)
(***************************************************************************)
ReadsAreExact == RecentIsLast /\ AverageIsOfLast /\ WindowIsExact
=============================================================================
