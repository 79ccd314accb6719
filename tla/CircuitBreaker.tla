--------------------------- MODULE CircuitBreaker ---------------------------
(***************************************************************************)
(* One circuitbreaker.CircuitBreaker of breaker.go, called concurrently.   *)
(* Call is two critical sections of cb.mu with the upstream call between   *)
(* them: allowRequest (the admission actions) and recordResult (the        *)
(* Record actions).  Any number of calls may be between the two, and a     *)
(* call may be answered long after the state that admitted it is gone.     *)
(*                                                                         *)
(* time.Now is a Tick of the two ages the code computes from it:           *)
(* sinceWindowStart and sinceFailure.  rdb is nil, as NewProxy passes it.  *)
(***************************************************************************)
EXTENDS Integers, FiniteSets, FiniteSetsExt

CONSTANTS
  Callers,          \* goroutines that may be inside Call
  BucketCount,      \* Config.BucketCount
  BucketDuration,   \* Config.WindowDuration / BucketCount, in ticks
  OpenTimeout,      \* Config.OpenTimeout, in ticks
  HalfOpenMaxReqs,  \* Config.HalfOpenMaxReqs
  ThresholdNum,     \* Config.FailureThreshold as a fraction ...
  ThresholdDen,     \* ... ThresholdNum / ThresholdDen
  MaxRecorded       \* bound: results counted in the window or on their way

ASSUME BreakerAssumption ==
  /\ IsFiniteSet(Callers)
  /\ BucketCount \in Nat \ {0}
  /\ BucketDuration \in Nat \ {0}
  /\ OpenTimeout \in Nat \ {0}
  /\ HalfOpenMaxReqs \in Nat \ {0}
  /\ ThresholdNum \in Nat /\ ThresholdDen \in Nat \ {0}
  /\ MaxRecorded \in Nat

VARIABLES
  state,             \* cb.state
  buckets,           \* cb.buckets
  sinceWindowStart,  \* age of cb.windowStart
  sinceFailure,      \* age of cb.lastFailureTime
  halfOpenReqs,      \* cb.halfOpenReqs
  running,           \* callers admitted whose fn has not returned
  probes             \* history: those of them admitted in this half-open period

vars == <<state, buckets, sinceWindowStart, sinceFailure, halfOpenReqs,
          running, probes>>

States == {"Closed", "Open", "HalfOpen"}
Buckets == 0 .. BucketCount - 1
Bucket == [failures : Nat, successes : Nat]
EmptyBucket == [failures |-> 0, successes |-> 0]
WindowDuration == BucketCount * BucketDuration

\* Ages past these bounds are not told apart.  An age is compared with
\* OpenTimeout and WindowDuration; once the window start is WindowDuration old
\* only its remainder by BucketDuration matters.
MaxAge == OpenTimeout + WindowDuration
Aged(age) == IF age < MaxAge THEN age + 1 ELSE age
WindowAged(age) ==
  IF age + 1 < WindowDuration + BucketDuration
  THEN age + 1 ELSE age + 1 - BucketDuration

\* currentBucket
CurrentBucket ==
  LET idx == sinceWindowStart \div BucketDuration
  IN  IF idx >= BucketCount THEN BucketCount - 1 ELSE idx

\* slideWindow: the buckets it clears, what it leaves and the new window age.
ToSlide == sinceWindowStart \div BucketDuration
\* (Variant with a fault: the sweep stops one bucket short.)
ClearedButOne ==
  {(CurrentBucket + 1 + i) % BucketCount :
     i \in {j \in 0 .. BucketCount - 2 : j < ToSlide}}
ClearedBuckets ==
  {(CurrentBucket + 1 + i) % BucketCount :
     i \in {j \in 0 .. BucketCount - 1 : j < ToSlide}}
SlidBuckets ==
  [b \in Buckets |-> IF b \in ClearedBuckets THEN EmptyBucket ELSE buckets[b]]
\* (Variant with a fault: the window start is advanced by a bucket too many.)
SlidAgeTooFar == sinceWindowStart - (ToSlide + 1) * BucketDuration
SlidAge == sinceWindowStart % BucketDuration

Failures(w) == MapThenSumSet(LAMBDA b : w[b].failures, Buckets)
Successes(w) == MapThenSumSet(LAMBDA b : w[b].successes, Buckets)

\* shouldTrip
ShouldTrip(w) ==
  LET total == Failures(w) + Successes(w)
  IN  total > 0 /\ Failures(w) * ThresholdDen >= ThresholdNum * total

\* The bound on results: a caller that would exceed it does not call.
Exhausted ==
  Failures(buckets) + Successes(buckets) + Cardinality(running) >= MaxRecorded

----------------------------------------------------------------------------
\* allowRequest, by state and outcome.

SlideWindow ==
  /\ buckets' = SlidBuckets
  /\ sinceWindowStart' = SlidAge

\* (Variant with a fault: the allowance used is carried over.)
TransitionToKeeping(new) ==
  /\ state' = new
  /\ probes' = {}
  /\ sinceFailure' = IF new = "Open" THEN 0 ELSE sinceFailure
  /\ UNCHANGED halfOpenReqs

\* transitionTo: the allowance restarts, and Open restarts the failure clock.
TransitionTo(new) ==
  /\ state' = new
  /\ halfOpenReqs' = 0
  /\ probes' = {}
  /\ sinceFailure' = IF new = "Open" THEN 0 ELSE sinceFailure

StartCall(c) ==
  /\ c \notin running
  /\ ~Exhausted
  /\ running' = running \union {c}

AdmitClosed(c) ==
  /\ state = "Closed"
  /\ ~ShouldTrip(SlidBuckets)
  /\ StartCall(c)
  /\ SlideWindow
  /\ UNCHANGED <<state, sinceFailure, halfOpenReqs, probes>>

\* The threshold is looked at here, before the next call, and not when a
\* failure is recorded; the call that finds it crossed is refused.
Trip ==
  /\ state = "Closed"
  /\ ShouldTrip(SlidBuckets)
  /\ SlideWindow
  /\ TransitionTo("Open")
  /\ UNCHANGED running

\* (Variants with a fault: a tick early; measured from the wrong time.)
TimeoutElapsedEarly == sinceFailure + 1 >= OpenTimeout
TimeoutElapsedInWindow == sinceWindowStart >= OpenTimeout
TimeoutElapsed == sinceFailure >= OpenTimeout

StartProbing(c) ==
  /\ state = "Open"
  /\ TimeoutElapsed
  /\ StartCall(c)
  /\ SlideWindow
  /\ state' = "HalfOpen"
  /\ halfOpenReqs' = 1
  /\ probes' = {c}
  /\ UNCHANGED sinceFailure

RejectOpen ==
  /\ state = "Open"
  /\ ~TimeoutElapsed
  /\ SlideWindow
  /\ UNCHANGED <<state, sinceFailure, halfOpenReqs, running, probes>>

\* (Variant with a fault: one probe too many.)
AllowanceLeftOffByOne == halfOpenReqs <= HalfOpenMaxReqs
AllowanceLeft == halfOpenReqs < HalfOpenMaxReqs

AdmitProbe(c) ==
  /\ state = "HalfOpen"
  /\ AllowanceLeft
  /\ StartCall(c)
  /\ SlideWindow
  /\ halfOpenReqs' = halfOpenReqs + 1
  /\ probes' = probes \union {c}
  /\ UNCHANGED <<state, sinceFailure>>

RejectHalfOpen ==
  /\ state = "HalfOpen"
  /\ ~AllowanceLeft
  /\ SlideWindow
  /\ UNCHANGED <<state, sinceFailure, halfOpenReqs, running, probes>>

----------------------------------------------------------------------------
\* recordResult.  It does not slide the window and does not ask which state
\* admitted the call it records.

EndCall(c) ==
  /\ c \in running
  /\ running' = running \ {c}

StayInState(c) ==
  /\ probes' = probes \ {c}
  /\ UNCHANGED <<state, halfOpenReqs>>

RecordFailure(c) ==
  /\ EndCall(c)
  /\ buckets' = [buckets EXCEPT ![CurrentBucket].failures = @ + 1]
  /\ \/ /\ state = "HalfOpen"
        /\ TransitionTo("Open")
     \/ /\ state # "HalfOpen"
        /\ StayInState(c)
        /\ sinceFailure' = 0
  /\ UNCHANGED sinceWindowStart

\* (Variant with a fault: the last probe allowed does not close the breaker.)
AllowanceSpentOffByOne == halfOpenReqs > HalfOpenMaxReqs
AllowanceSpent == halfOpenReqs >= HalfOpenMaxReqs

RecordSuccess(c) ==
  /\ EndCall(c)
  /\ buckets' = [buckets EXCEPT ![CurrentBucket].successes = @ + 1]
  /\ \/ /\ state = "HalfOpen" /\ AllowanceSpent
        /\ TransitionTo("Closed")
     \/ /\ ~(state = "HalfOpen" /\ AllowanceSpent)
        /\ StayInState(c)
        /\ UNCHANGED sinceFailure
  /\ UNCHANGED sinceWindowStart

Tick ==
  /\ sinceWindowStart' = WindowAged(sinceWindowStart)
  /\ sinceFailure' = Aged(sinceFailure)
  /\ UNCHANGED <<state, buckets, halfOpenReqs, running, probes>>

----------------------------------------------------------------------------
\* New: closed, empty window starting now, lastFailureTime the zero time.
Init ==
  /\ state = "Closed"
  /\ buckets = [b \in Buckets |-> EmptyBucket]
  /\ sinceWindowStart = 0
  /\ sinceFailure = MaxAge
  /\ halfOpenReqs = 0
  /\ running = {}
  /\ probes = {}

Admit(c) == AdmitClosed(c) \/ StartProbing(c) \/ AdmitProbe(c)
Refuse == Trip \/ RejectOpen \/ RejectHalfOpen
Record(c) == RecordFailure(c) \/ RecordSuccess(c)

Next ==
  \/ \E c \in Callers : Admit(c) \/ Record(c)
  \/ Refuse
  \/ Tick

Safety == Init /\ [][Next]_vars

\* Time passes, an admitted call returns (each attempt runs under
\* UpstreamTimeout, so fn is bounded) and traffic does not dry up: somebody
\* keeps calling.  Nothing is assumed of what the calls return.
Fairness ==
  /\ WF_vars(Tick)
  /\ \A c \in Callers : WF_vars(Record(c))
  /\ WF_vars(\E c \in Callers : Admit(c))

Spec == Safety /\ Fairness

----------------------------------------------------------------------------
TypeOK ==
  /\ state \in States
  /\ buckets \in [Buckets -> Bucket]
  /\ sinceWindowStart \in Nat
  /\ sinceFailure \in Nat
  /\ halfOpenReqs \in Nat
  /\ running \subseteq Callers
  /\ probes \subseteq running

\* A half-open period never has more than its allowance of probes upstream,
\* however many goroutines race for it, and the counter that enforces it means
\* nothing outside a half-open period (allowRequest, transitionTo).
ProbeBound ==
  /\ Cardinality(probes) <= halfOpenReqs
  /\ halfOpenReqs <= HalfOpenMaxReqs
  /\ state # "HalfOpen" => halfOpenReqs = 0

\* A half-open breaker that refuses everybody is waiting for a probe that is
\* really out there: if none were, no call could ever be admitted again and
\* nothing would be left to close or reopen it.
NeverWedged ==
  state = "HalfOpen" /\ halfOpenReqs >= HalfOpenMaxReqs => probes # {}

\* The half-open period is neither too generous nor stuck, whoever of its probes
\* and of the calls from before the trip answers first.
HalfOpenSound == ProbeBound /\ NeverWedged

\* Once open, and until OpenTimeout has passed since the last failure any call
\* reported, no call reaches the upstream; the failures of calls that were
\* admitted before the trip count, and push the end of the period back.
OpenShedsLoad ==
  [][state = "Open" /\ sinceFailure < OpenTimeout => running' \subseteq running]_vars

\* Whatever was counted before it, a window in which allowRequest was never
\* called forgives everything: the first call after it never trips the breaker.
QuietWindowForgives ==
  [][state = "Closed" /\ state' = "Open" => sinceWindowStart < WindowDuration]_vars

\* A breaker that opened lets a probe through again while calls keep coming,
\* no matter how late failures extend the open period.
OpenEventuallyProbes == state = "Open" ~> (state # "Open" \/ Exhausted)

\* The breaker is the abstract three-state machine.
Promise == INSTANCE BreakerSpec WITH mode <- state, used <- halfOpenReqs
ImplementsBreakerSpec == Promise!Spec

----------------------------------------------------------------------------
\* "The half-open state admits a limited number of probes; success closes it":
\* a breaker closes on the answer of a probe, not on that of a call it admitted
\* before it ever opened.  The code does not tell the two apart.
ProbesDecide ==
  [][state = "HalfOpen" /\ state' = "Closed" => ~(probes \subseteq running')]_vars

\* The failure rate is that of a sliding window of WindowDuration: a breaker
\* trips only if some failure was recorded (or it last opened) that recently.
TripNeedsRecentFailure ==
  [][state = "Closed" /\ state' = "Open" => sinceFailure <= WindowDuration]_vars
=============================================================================
