------------------------ MODULE CircuitBreakerProofs ------------------------
(***************************************************************************)
(* Theorems about one breaker, for any number of concurrent callers, any   *)
(* bucket layout and any thresholds.  TypeOK, ProbeBound and NeverWedged   *)
(* together are inductive; the refinement and OpenShedsLoad need no more   *)
(* than TypeOK.                                                            *)
(***************************************************************************)
EXTENDS CircuitBreaker, FiniteSetTheorems, TLAPS

----------------------------------------------------------------------------
(* Window arithmetic *)

\* The window is a positive number of ticks, and so are the ages' bounds.
LEMMA WindowTypes ==
  /\ WindowDuration \in Nat \ {0}
  /\ MaxAge \in Nat \ {0}
<1>1. WindowDuration \in Nat \ {0}
  BY BreakerAssumption DEF WindowDuration
<1> QED
  BY <1>1, BreakerAssumption DEF MaxAge

\* currentBucket never indexes outside the ring, however long ago the window
\* started: recordFailure and recordSuccess cannot panic.
THEOREM CurrentBucketInRing ==
  ASSUME sinceWindowStart \in Nat
  PROVE  CurrentBucket \in Buckets
<1>1. sinceWindowStart \div BucketDuration \in Nat
  BY BreakerAssumption
<1> QED
  BY <1>1, BreakerAssumption DEF CurrentBucket, Buckets

\* What slideWindow leaves of the window start's age is less than a bucket,
\* and it moved the start by whole buckets.
THEOREM SlideKeepsPhase ==
  ASSUME sinceWindowStart \in Nat
  PROVE  /\ SlidAge \in 0 .. BucketDuration - 1
         /\ sinceWindowStart = ToSlide * BucketDuration + SlidAge
<1> QED
  BY BreakerAssumption DEF SlidAge, ToSlide

\* A window nobody slid for its whole length is cleared entirely.
THEOREM StaleWindowIsCleared ==
  ASSUME sinceWindowStart \in Nat, sinceWindowStart >= WindowDuration
  PROVE  SlidBuckets = [b \in Buckets |-> EmptyBucket]
<1>1. ToSlide >= BucketCount
  BY BreakerAssumption DEF ToSlide, WindowDuration
<1>2. CurrentBucket = BucketCount - 1
  BY <1>1, BreakerAssumption DEF CurrentBucket, ToSlide
<1>3. ASSUME NEW b \in Buckets PROVE b \in ClearedBuckets
  <2>1. (CurrentBucket + 1 + b) % BucketCount = b
    BY <1>2, BreakerAssumption DEF Buckets
  <2>2. b \in {j \in 0 .. BucketCount - 1 : j < ToSlide}
    BY <1>1, BreakerAssumption DEF Buckets, ToSlide
  <2> QED
    BY <2>1, <2>2 DEF ClearedBuckets
<1> QED
  BY <1>3 DEF SlidBuckets

----------------------------------------------------------------------------
(* Sums over the ring *)

\* A function on the subsets of a finite set is z everywhere if it is z at the
\* empty one, and at each other if it is so at those with an element less.
LEMMA SameForAll ==
  ASSUME NEW S, IsFiniteSet(S), NEW g, NEW z, g[{}] = z,
         \A s \in SUBSET S : s # {} /\ (\A x \in s : g[s \ {x}] = z) => g[s] = z
  PROVE  g[S] = z
<1> DEFINE B == {s \in SUBSET S : g[s] # z}
<1>1. ASSUME B # {} PROVE FALSE
  <2>1. IsWellFoundedOn(StrictSubsetOrdering(S), FiniteSubsetsOf(S))
    BY FS_StrictSubsetOrderingWellFounded
  <2>2. B \subseteq FiniteSubsetsOf(S)
    BY FS_Subset DEF FiniteSubsetsOf
  <2>3. PICK s \in B : \A t \in B : ~(<<t, s>> \in StrictSubsetOrdering(S))
    <3> HIDE DEF B
    <3> QED
      BY <1>1, <2>1, <2>2, WFMin
  <2>4. SUFFICES ASSUME NEW x \in s PROVE g[s \ {x}] = z
    BY <2>3
  <2>5. <<s \ {x}, s>> \in StrictSubsetOrdering(S)
    BY <2>3, <2>4 DEF StrictSubsetOrdering
  <2> QED
    BY <2>3, <2>4, <2>5
<1> QED
  BY <1>1

\* What a sum takes out next is one of what is left.
LEMMA NextIsLeft == \A s : s # {} => (CHOOSE b \in s : TRUE) \in s
  OBVIOUS

\* A window without failures.
LEMMA NoFailures ==
  ASSUME NEW w, \A b \in Buckets : w[b].failures = 0
  PROVE  Failures(w) = 0
<1> DEFINE next(s) == CHOOSE b \in s : TRUE
           Sums(g) == g = [s \in SUBSET Buckets |->
                             IF s = {} THEN 0 ELSE w[next(s)].failures + g[s \ {next(s)}]]
           h == CHOOSE g : Sums(g)
<1>1. Failures(w) = h[Buckets]
  BY DEF Failures, MapThenSumSet, MapThenFoldSet
<1>2. ASSUME NEW s \in SUBSET Buckets, s # {}
      PROVE  next(s) \in s /\ next(s) \in Buckets /\ w[next(s)].failures = 0
  BY <1>2, NextIsLeft
<1>3. Sums([s \in SUBSET Buckets |-> 0])
  BY <1>2
<1>4. Sums(h)
  BY <1>3
<1>5. \A s \in SUBSET Buckets :
        h[s] = IF s = {} THEN 0 ELSE w[next(s)].failures + h[s \ {next(s)}]
  BY <1>4
<1> HIDE DEF h, next, Sums
<1>6. h[{}] = 0
  BY <1>5
<1>7. \A s \in SUBSET Buckets : s # {} /\ (\A x \in s : h[s \ {x}] = 0) => h[s] = 0
  <2> SUFFICES ASSUME NEW s \in SUBSET Buckets, s # {}, \A x \in s : h[s \ {x}] = 0
               PROVE  h[s] = 0
    OBVIOUS
  <2>1. h[s] = w[next(s)].failures + h[s \ {next(s)}]
    BY <1>5
  <2> QED
    BY <1>2, <2>1
<1>8. IsFiniteSet(Buckets)
  BY FS_Interval, BreakerAssumption DEF Buckets
<1>9. \A g : g[{}] = 0 /\ (\A s \in SUBSET Buckets : s # {} /\ (\A x \in s : g[s \ {x}] = 0) => g[s] = 0)
             => g[Buckets] = 0
  BY <1>8, SameForAll
<1>10. h[Buckets] = 0
  BY <1>6, <1>7, <1>9
<1> QED
  BY <1>1, <1>10

\* And one without successes.
LEMMA NoSuccesses ==
  ASSUME NEW w, \A b \in Buckets : w[b].successes = 0
  PROVE  Successes(w) = 0
<1> DEFINE next(s) == CHOOSE b \in s : TRUE
           Sums(g) == g = [s \in SUBSET Buckets |->
                             IF s = {} THEN 0 ELSE w[next(s)].successes + g[s \ {next(s)}]]
           h == CHOOSE g : Sums(g)
<1>1. Successes(w) = h[Buckets]
  BY DEF Successes, MapThenSumSet, MapThenFoldSet
<1>2. ASSUME NEW s \in SUBSET Buckets, s # {}
      PROVE  next(s) \in s /\ next(s) \in Buckets /\ w[next(s)].successes = 0
  BY <1>2, NextIsLeft
<1>3. Sums([s \in SUBSET Buckets |-> 0])
  BY <1>2
<1>4. Sums(h)
  BY <1>3
<1>5. \A s \in SUBSET Buckets :
        h[s] = IF s = {} THEN 0 ELSE w[next(s)].successes + h[s \ {next(s)}]
  BY <1>4
<1> HIDE DEF h, next, Sums
<1>6. h[{}] = 0
  BY <1>5
<1>7. \A s \in SUBSET Buckets : s # {} /\ (\A x \in s : h[s \ {x}] = 0) => h[s] = 0
  <2> SUFFICES ASSUME NEW s \in SUBSET Buckets, s # {}, \A x \in s : h[s \ {x}] = 0
               PROVE  h[s] = 0
    OBVIOUS
  <2>1. h[s] = w[next(s)].successes + h[s \ {next(s)}]
    BY <1>5
  <2> QED
    BY <1>2, <2>1
<1>8. IsFiniteSet(Buckets)
  BY FS_Interval, BreakerAssumption DEF Buckets
<1>9. \A g : g[{}] = 0 /\ (\A s \in SUBSET Buckets : s # {} /\ (\A x \in s : g[s \ {x}] = 0) => g[s] = 0)
             => g[Buckets] = 0
  BY <1>8, SameForAll
<1>10. h[Buckets] = 0
  BY <1>6, <1>7, <1>9
<1> QED
  BY <1>1, <1>10

\* An empty window never crosses the threshold.
LEMMA EmptyNeverTrips == ~ShouldTrip([b \in Buckets |-> EmptyBucket])
<1> DEFINE w == [b \in Buckets |-> EmptyBucket]
<1>2. \A b \in Buckets : w[b].failures = 0 /\ w[b].successes = 0
  BY DEF EmptyBucket
<1> HIDE DEF w
<1>3. Failures(w) = 0
  BY <1>2, NoFailures
<1>4. Successes(w) = 0
  BY <1>2, NoSuccesses
<1>5. ~ShouldTrip(w)
  BY <1>3, <1>4 DEF ShouldTrip
<1> QED
  BY <1>5 DEF w

----------------------------------------------------------------------------
(* Type correctness *)

\* The parts of a step that several actions share keep their types.
LEMMA SlideTypes ==
  ASSUME TypeOK, SlideWindow
  PROVE  /\ buckets' \in [Buckets -> Bucket]
         /\ sinceWindowStart' \in Nat
<1>1. SlidAge \in Nat
  BY SlideKeepsPhase, BreakerAssumption DEF TypeOK
<1>2. SlidBuckets \in [Buckets -> Bucket]
  BY DEF SlidBuckets, TypeOK, Bucket, EmptyBucket
<1> QED
  BY <1>1, <1>2 DEF SlideWindow

\* Counting a result in a bucket of the ring.
LEMMA CountTypes ==
  ASSUME buckets \in [Buckets -> Bucket], NEW i \in Buckets
  PROVE  /\ [buckets EXCEPT ![i].failures = @ + 1] \in [Buckets -> Bucket]
         /\ [buckets EXCEPT ![i].successes = @ + 1] \in [Buckets -> Bucket]
<1>1. buckets[i] \in Bucket
  OBVIOUS
<1>2. [buckets[i] EXCEPT !.failures = @ + 1] \in Bucket
  BY <1>1 DEF Bucket
<1>3. [buckets[i] EXCEPT !.successes = @ + 1] \in Bucket
  BY <1>1 DEF Bucket
<1> QED
  BY <1>2, <1>3

LEMMA TypeInit == Init => TypeOK
  BY WindowTypes DEF Init, TypeOK, States, Bucket, EmptyBucket

LEMMA TypeStep == TypeOK /\ [Next]_vars => TypeOK'
<1> SUFFICES ASSUME TypeOK, [Next]_vars
             PROVE  TypeOK'
  OBVIOUS
<1> USE DEF TypeOK
<1>1. ASSUME NEW c \in Callers, AdmitClosed(c)
      PROVE  TypeOK'
  BY <1>1, SlideTypes DEF AdmitClosed, StartCall
<1>2. ASSUME NEW c \in Callers, StartProbing(c)
      PROVE  TypeOK'
  BY <1>2, SlideTypes DEF StartProbing, StartCall, States
<1>3. ASSUME NEW c \in Callers, AdmitProbe(c)
      PROVE  TypeOK'
  BY <1>3, SlideTypes DEF AdmitProbe, StartCall
<1>4. ASSUME NEW c \in Callers, RecordFailure(c)
      PROVE  TypeOK'
  <2>1. buckets' \in [Buckets -> Bucket]
    BY <1>4, CountTypes, CurrentBucketInRing DEF RecordFailure
  <2>2. CASE state = "HalfOpen"
    BY <1>4, <2>1, <2>2 DEF RecordFailure, EndCall, TransitionTo, States
  <2>3. CASE state # "HalfOpen"
    BY <1>4, <2>1, <2>3 DEF RecordFailure, EndCall, StayInState
  <2> QED
    BY <2>2, <2>3
<1>5. ASSUME NEW c \in Callers, RecordSuccess(c)
      PROVE  TypeOK'
  <2>1. buckets' \in [Buckets -> Bucket]
    BY <1>5, CountTypes, CurrentBucketInRing DEF RecordSuccess
  <2>2. CASE state = "HalfOpen" /\ AllowanceSpent
    BY <1>5, <2>1, <2>2 DEF RecordSuccess, EndCall, TransitionTo, States
  <2>3. CASE ~(state = "HalfOpen" /\ AllowanceSpent)
    BY <1>5, <2>1, <2>3 DEF RecordSuccess, EndCall, StayInState
  <2> QED
    BY <2>2, <2>3
<1>6. CASE Trip
  BY <1>6, SlideTypes DEF Trip, TransitionTo, States
<1>7. CASE RejectOpen
  BY <1>7, SlideTypes DEF RejectOpen
<1>8. CASE RejectHalfOpen
  BY <1>8, SlideTypes DEF RejectHalfOpen
<1>9. CASE Tick
  BY <1>9, WindowTypes, BreakerAssumption DEF Tick, Aged, WindowAged
<1>10. CASE UNCHANGED vars
  BY <1>10 DEF vars
<1> QED
  BY <1>1, <1>2, <1>3, <1>4, <1>5, <1>6, <1>7, <1>8, <1>9, <1>10
     DEF Next, Admit, Record, Refuse

\* Every reachable state is well typed: in particular the counters stay
\* natural numbers and the probes are calls in progress.
THEOREM TypeCorrect == Safety => []TypeOK
<1> QED
  BY TypeInit, TypeStep, PTL DEF Safety

----------------------------------------------------------------------------
(* The half-open allowance *)

\* Probes are finitely many, so counting them means something.
LEMMA ProbesFinite ==
  ASSUME TypeOK
  PROVE  IsFiniteSet(probes) /\ Cardinality(probes) \in Nat
<1>1. probes \in SUBSET Callers
  BY DEF TypeOK
<1>2. IsFiniteSet(probes)
  BY <1>1, BreakerAssumption, FS_Subset
<1> QED
  BY <1>2, FS_CardinalityType

\* A transition empties the half-open period it ends.
LEMMA TransitionResets ==
  ASSUME NEW new \in {"Open", "Closed"}, TransitionTo(new)
  PROVE  ProbeBound' /\ NeverWedged'
<1>1. Cardinality({}) = 0
  BY FS_EmptySet
<1>2. /\ probes' = {} /\ halfOpenReqs' = 0
      /\ state' # "HalfOpen"
  BY DEF TransitionTo
<1>3. Cardinality(probes') = 0
  BY <1>1, <1>2
<1> QED
  BY <1>2, <1>3, BreakerAssumption DEF ProbeBound, NeverWedged

\* A recorded result that does not end the period takes its probe away.
LEMMA RecordKeepsAllowance ==
  ASSUME TypeOK, ProbeBound, NEW c \in Callers, StayInState(c),
         state = "HalfOpen" => halfOpenReqs < HalfOpenMaxReqs
  PROVE  ProbeBound' /\ NeverWedged'
<1>1. Cardinality(probes \ {c}) <= Cardinality(probes)
  BY ProbesFinite, FS_RemoveElement
<1>2. Cardinality(probes') \in Nat /\ Cardinality(probes') <= Cardinality(probes)
  BY <1>1, ProbesFinite, FS_RemoveElement, FS_CardinalityType DEF StayInState
<1>3. ProbeBound'
  BY <1>2, ProbesFinite, BreakerAssumption DEF ProbeBound, StayInState, TypeOK
<1>4. NeverWedged'
  BY BreakerAssumption DEF NeverWedged, StayInState, TypeOK
<1> QED
  BY <1>3, <1>4

LEMMA AllowanceInit == Init => ProbeBound /\ NeverWedged
  BY FS_EmptySet, BreakerAssumption DEF Init, ProbeBound, NeverWedged

LEMMA AllowanceStep ==
  TypeOK /\ ProbeBound /\ NeverWedged /\ [Next]_vars => ProbeBound' /\ NeverWedged'
<1> SUFFICES ASSUME TypeOK, ProbeBound, NeverWedged, [Next]_vars
             PROVE  ProbeBound' /\ NeverWedged'
  OBVIOUS
<1>1. ASSUME UNCHANGED <<state, halfOpenReqs, probes>>
      PROVE  ProbeBound' /\ NeverWedged'
  BY <1>1 DEF ProbeBound, NeverWedged
<1>2. ASSUME NEW c \in Callers, AdmitClosed(c)
      PROVE  ProbeBound' /\ NeverWedged'
  BY <1>1, <1>2 DEF AdmitClosed
<1>3. ASSUME NEW c \in Callers, StartProbing(c)
      PROVE  ProbeBound' /\ NeverWedged'
  <2>1. /\ state' = "HalfOpen" /\ halfOpenReqs' = 1
        /\ probes' = {c} /\ Cardinality(probes') = 1
    BY <1>3, FS_Singleton DEF StartProbing
  <2> QED
    BY <2>1, BreakerAssumption DEF ProbeBound, NeverWedged
<1>4. ASSUME NEW c \in Callers, AdmitProbe(c)
      PROVE  ProbeBound' /\ NeverWedged'
  <2>1. /\ state' = "HalfOpen" /\ halfOpenReqs' = halfOpenReqs + 1
        /\ probes' = probes \union {c} /\ halfOpenReqs < HalfOpenMaxReqs
    BY <1>4 DEF AdmitProbe, AllowanceLeft
  <2>2. /\ Cardinality(probes') \in Nat
        /\ Cardinality(probes') <= Cardinality(probes) + 1
    <3>1. /\ IsFiniteSet(probes \union {c})
          /\ Cardinality(probes \union {c}) <= Cardinality(probes) + 1
      BY ProbesFinite, FS_AddElement
    <3> QED
      BY <2>1, <3>1, FS_CardinalityType
  <2>3. ProbeBound'
    BY <2>1, <2>2, ProbesFinite, BreakerAssumption DEF ProbeBound, TypeOK
  <2>4. NeverWedged'
    BY <2>1 DEF NeverWedged
  <2> QED
    BY <2>3, <2>4
<1>5. ASSUME NEW c \in Callers, RecordFailure(c)
      PROVE  ProbeBound' /\ NeverWedged'
  <2>1. CASE state = "HalfOpen"
    BY <1>5, <2>1, TransitionResets DEF RecordFailure
  <2>2. CASE state # "HalfOpen"
    BY <1>5, <2>2, RecordKeepsAllowance DEF RecordFailure
  <2> QED
    BY <2>1, <2>2
<1>6. ASSUME NEW c \in Callers, RecordSuccess(c)
      PROVE  ProbeBound' /\ NeverWedged'
  <2>1. CASE state = "HalfOpen" /\ AllowanceSpent
    BY <1>6, <2>1, TransitionResets DEF RecordSuccess
  <2>2. CASE ~(state = "HalfOpen" /\ AllowanceSpent)
    <3>1. state = "HalfOpen" => halfOpenReqs < HalfOpenMaxReqs
      BY <2>2, BreakerAssumption DEF AllowanceSpent, TypeOK
    <3> QED
      BY <1>6, <2>2, <3>1, RecordKeepsAllowance DEF RecordSuccess
  <2> QED
    BY <2>1, <2>2
<1>7. CASE Trip
  BY <1>7, TransitionResets DEF Trip
<1>8. CASE RejectOpen \/ RejectHalfOpen \/ Tick \/ UNCHANGED vars
  BY <1>1, <1>8 DEF RejectOpen, RejectHalfOpen, Tick, vars
<1> QED
  BY <1>2, <1>3, <1>4, <1>5, <1>6, <1>7, <1>8 DEF Next, Admit, Record, Refuse

\* However many goroutines race for a half-open breaker, no more than
\* HalfOpenMaxReqs of their calls are upstream, and the counter that sees to it
\* is zero outside a half-open period.
THEOREM AllowanceRespected == Safety => []ProbeBound
<1> QED
  BY TypeInit, TypeStep, AllowanceInit, AllowanceStep, PTL DEF Safety

\* A half-open breaker that turns everybody away has a probe out, whose result
\* will decide: it cannot stay half-open with nobody left to report.
THEOREM ProbeOutWhileRefusing == Safety => []NeverWedged
<1> QED
  BY TypeInit, TypeStep, AllowanceInit, AllowanceStep, PTL DEF Safety

\* Both together, for every allowance and any number of goroutines.
THEOREM HalfOpenIsSound == Safety => []HalfOpenSound
<1> QED
  BY AllowanceRespected, ProbeOutWhileRefusing, PTL DEF HalfOpenSound

----------------------------------------------------------------------------
(* Action properties and refinement *)

LEMMA ShedStep ==
  TypeOK /\ [Next]_vars =>
    [state = "Open" /\ sinceFailure < OpenTimeout => running' \subseteq running]_vars
<1> SUFFICES ASSUME TypeOK, Next, state = "Open", sinceFailure < OpenTimeout
             PROVE  running' \subseteq running
  OBVIOUS
<1>1. ~TimeoutElapsed
  BY BreakerAssumption DEF TimeoutElapsed, TypeOK
<1>2. ASSUME NEW c \in Callers, Admit(c)
      PROVE  FALSE
  BY <1>1, <1>2 DEF Admit, AdmitClosed, StartProbing, AdmitProbe
<1>3. ASSUME NEW c \in Callers, Record(c)
      PROVE  running' \subseteq running
  BY <1>3 DEF Record, RecordFailure, RecordSuccess, EndCall
<1>4. CASE Refuse \/ Tick
  BY <1>4 DEF Refuse, Trip, RejectOpen, RejectHalfOpen, Tick
<1> QED
  BY <1>2, <1>3, <1>4 DEF Next

\* An open breaker whose timeout has not run out admits nobody: the calls in
\* progress only become fewer (allowRequest's StateOpen case).
THEOREM OpenAdmitsNobody == Safety => OpenShedsLoad
<1> QED
  BY TypeInit, TypeStep, ShedStep, PTL DEF Safety, OpenShedsLoad

\* A trip finds the threshold crossed in what is left of the window.
LEMMA ForgivingStep ==
  TypeOK /\ [Next]_vars =>
    (state = "Closed" /\ state' = "Open" => sinceWindowStart < WindowDuration)
<1> SUFFICES ASSUME TypeOK, [Next]_vars, state = "Closed", state' = "Open",
                    ~(sinceWindowStart < WindowDuration)
             PROVE  FALSE
  OBVIOUS
<1>1. sinceWindowStart \in Nat /\ sinceWindowStart >= WindowDuration
  BY WindowTypes DEF TypeOK
<1>2. ~ShouldTrip(SlidBuckets)
  BY <1>1, StaleWindowIsCleared, EmptyNeverTrips
<1>3. Trip
  BY DEF Next, Admit, AdmitClosed, StartProbing, AdmitProbe, Record, RecordFailure, RecordSuccess,
         StayInState, TransitionTo, Refuse, RejectOpen, RejectHalfOpen, Tick, vars
<1> QED
  BY <1>2, <1>3 DEF Trip

\* Whatever was counted before it, a window in which nobody called forgives
\* everything: the first call after it never trips the breaker (allowRequest
\* slides the window before it looks at the threshold).
THEOREM QuietForgives == Safety => QuietWindowForgives
<1> QED
  BY TypeInit, TypeStep, ForgivingStep, PTL DEF Safety, QuietWindowForgives

LEMMA PromiseInit == Init => Promise!Init
  BY DEF Init, Promise!Init

\* Each action is a step of the abstract machine or leaves it alone.
LEMMA PromiseStep == TypeOK /\ [Next]_vars => [Promise!Next]_(Promise!vars)
<1> SUFFICES ASSUME TypeOK, [Next]_vars
             PROVE  Promise!Next \/ UNCHANGED <<state, halfOpenReqs>>
  BY DEF Promise!vars
<1>1. ASSUME NEW c \in Callers, Admit(c)
      PROVE  Promise!Next \/ UNCHANGED <<state, halfOpenReqs>>
  <2>1. CASE AdmitClosed(c)
    BY <2>1 DEF AdmitClosed
  <2>2. CASE StartProbing(c)
    BY <2>2 DEF StartProbing, Promise!Next, Promise!StartProbing
  <2>3. CASE AdmitProbe(c)
    BY <2>3 DEF AdmitProbe, AllowanceLeft, Promise!Next, Promise!AdmitProbe
  <2> QED
    BY <1>1, <2>1, <2>2, <2>3 DEF Admit
<1>2. ASSUME NEW c \in Callers, RecordFailure(c)
      PROVE  Promise!Next \/ UNCHANGED <<state, halfOpenReqs>>
  BY <1>2 DEF RecordFailure, TransitionTo, StayInState, Promise!Next, Promise!Reopen
<1>3. ASSUME NEW c \in Callers, RecordSuccess(c)
      PROVE  Promise!Next \/ UNCHANGED <<state, halfOpenReqs>>
  BY <1>3 DEF RecordSuccess, AllowanceSpent, TransitionTo, StayInState,
              Promise!Next, Promise!Close
<1>4. CASE Trip
  BY <1>4 DEF Trip, TransitionTo, Promise!Next, Promise!Trip
<1>5. CASE RejectOpen \/ RejectHalfOpen \/ Tick \/ UNCHANGED vars
  BY <1>5 DEF RejectOpen, RejectHalfOpen, Tick, vars
<1> QED
  BY <1>1, <1>2, <1>3, <1>4, <1>5 DEF Next, Record, Refuse

\* The breaker with its ring of buckets, its clock and its racing callers is a
\* BreakerSpec: Proxy is entitled to use that machine in its place.
THEOREM RefinesBreakerSpec == Safety => Promise!Safety
<1> QED
  BY TypeInit, TypeStep, PromiseInit, PromiseStep, PTL
     DEF Safety, Promise!Safety
=============================================================================
