----------------------------- MODULE ProxyProofs -----------------------------
(***************************************************************************)
(* Theorems about the gateway for any set of requests and providers, any   *)
(* capacity and any retry limit.  TypeOK and Progress, what a request's    *)
(* phase says of its other fields, are inductive together; the slot count, *)
(* the breakers and the cache are related to the phases on top of them.    *)
(***************************************************************************)
EXTENDS Proxy, FiniteSetTheorems, TLAPS

ErrorPages == {"400", "403", "429", "503"}

\* What a request's phase says of its other fields.
Progress ==
  \A r \in Requests :
    /\ pc[r] \in Calling \union {"routed"} => provider[r] \in Providers
    /\ pc[r] \in {"idle", "limited", "reading", "handling", "replaying", "review",
                  "routed"} => attempts[r] = 0
    /\ pc[r] \in {"upstream", "streaming"} => attempts[r] > 0
    /\ status[r] # "none" => pc[r] \in {"replaying", "streaming", "logging", "done"}
    /\ status[r] \in ErrorPages => pc[r] = "done" /\ logs[r] = 0
    /\ pc[r] # "done" => logs[r] = 0
    /\ pc[r] = "done" /\ attempts[r] > 0 => logs[r] = 1
    /\ logs[r] <= 1
    /\ r \in failed => pc[r] \in {"logging", "done"} /\ provider[r] \in Providers

\* The actions grouped by the part of the state they touch.
FrontDoor(r) ==
  \/ Arrive(r) \/ EnterBulkhead(r) \/ BulkheadFull(r) \/ LeaveBeforeSlot(r)
Parsing(r) ==
  \/ ReadBody(r) \/ TurnAway(r) \/ ServeFromCache(r) \/ FinishReplay(r)
  \/ StartReview(r) \/ FinishReview(r)
Upstream(r) ==
  \/ StartAttempt(r) \/ GiveUp(r) \/ AttemptFails(r)
  \/ ClientError(r) \/ StartStream(r) \/ BreakStream(r) \/ FinishStream(r)
Elsewhere ==
  \/ \E r \in Requests : Disconnect(r) \/ Stall(r)
  \/ SetDebugProvider \/ ClearCache \/ UNCHANGED vars

LEMMA Cases ==
  ASSUME [Next]_vars
  PROVE  \/ \E r \in Requests :
              \/ FrontDoor(r) \/ Parsing(r) \/ Route(r) \/ AskBreaker(r)
              \/ Upstream(r) \/ LogAndReturn(r)
         \/ Elsewhere
  BY DEF Next, Handle, FrontDoor, Parsing, Upstream, Elsewhere

----------------------------------------------------------------------------
(* Type correctness *)

LEMMA TypeInit == Init => TypeOK /\ Progress
  BY ProxyAssumption
     DEF Init, TypeOK, Progress, Phases, Holding, Calling, Statuses, ErrorPages

LEMMA TypeStep == TypeOK /\ Progress /\ [Next]_vars => TypeOK'
<1> SUFFICES ASSUME TypeOK, Progress, [Next]_vars
             PROVE  TypeOK'
  OBVIOUS
<1> USE DEF TypeOK, Phases, Holding, Calling, Statuses, Goto, WriteHeader,
            breakerVars, requestVars, clientVars
<1>1. ASSUME NEW r \in Requests, FrontDoor(r)
      PROVE  TypeOK'
  BY <1>1, ProxyAssumption
     DEF FrontDoor, Arrive, PassLimiter, RateLimited, Allowed, EnterBulkhead,
         BulkheadFull, LeaveBeforeSlot
<1>2. ASSUME NEW r \in Requests, Parsing(r)
      PROVE  TypeOK'
  BY <1>2 DEF Parsing, ReadBody, TurnAway, Return, ServeFromCache, FinishReplay,
              StartReview, FinishReview
<1>3. ASSUME NEW r \in Requests, Route(r)
      PROVE  TypeOK'
  BY <1>3 DEF Route
<1>4. ASSUME NEW r \in Requests, AskBreaker(r)
      PROVE  TypeOK'
  <2>1. provider[r] \in Providers
    BY <1>4 DEF AskBreaker, Progress
  <2> QED
    BY <1>4, <2>1 DEF AskBreaker, Admit, Refuse
<1>5. ASSUME NEW r \in Requests, Upstream(r)
      PROVE  TypeOK'
  <2>1. provider[r] \in Providers /\ PromptOf[r] \in Prompts
    BY <1>5, ProxyAssumption
       DEF Upstream, Progress, StartAttempt, GiveUp, AttemptFails, ClientError,
           StartStream, BreakStream, FinishStream
  <2>2. CASE StartAttempt(r) \/ StartStream(r)
    BY <2>2 DEF StartAttempt, StartStream
  <2>3. CASE GiveUp(r) \/ AttemptFails(r) \/ ClientError(r) \/ BreakStream(r)
    BY <2>1, <2>3 DEF GiveUp, AttemptFails, ClientError, BreakStream,
                      CallFails, RecordFailure
  <2>4. CASE FinishStream(r)
    BY <2>1, <2>4 DEF FinishStream, StoreAnswer, RecordSuccess
  <2> QED
    BY <1>5, <2>2, <2>3, <2>4 DEF Upstream
<1>6. ASSUME NEW r \in Requests, LogAndReturn(r)
      PROVE  TypeOK'
  BY <1>6 DEF LogAndReturn, Return
<1>7. CASE Elsewhere
  BY <1>7 DEF Elsewhere, Disconnect, Stall, SetDebugProvider, ClearCache, vars
<1> QED
  BY <1>1, <1>2, <1>3, <1>4, <1>5, <1>6, <1>7, Cases

LEMMA ProgressStep == TypeOK /\ Progress /\ [Next]_vars => Progress'
<1> SUFFICES ASSUME TypeOK, Progress, [Next]_vars
             PROVE  Progress'
  OBVIOUS
<1> USE DEF TypeOK, Progress, Phases, Holding, Calling, Goto, WriteHeader,
            ErrorPages, breakerVars, requestVars, clientVars
<1>1. ASSUME NEW r \in Requests, FrontDoor(r)
      PROVE  Progress'
  BY <1>1 DEF FrontDoor, Arrive, PassLimiter, RateLimited, EnterBulkhead,
              BulkheadFull, LeaveBeforeSlot
<1>2. ASSUME NEW r \in Requests, Parsing(r)
      PROVE  Progress'
  BY <1>2 DEF Parsing, ReadBody, TurnAway, Return, ServeFromCache, FinishReplay,
              StartReview, FinishReview
<1>3. ASSUME NEW r \in Requests, Route(r)
      PROVE  Progress'
  BY <1>3 DEF Route
<1>4. ASSUME NEW r \in Requests, AskBreaker(r)
      PROVE  Progress'
  BY <1>4 DEF AskBreaker, Admit, Refuse
<1>5. ASSUME NEW r \in Requests, Upstream(r)
      PROVE  Progress'
  <2>1. CASE StartAttempt(r) \/ StartStream(r)
    BY <2>1 DEF StartAttempt, StartStream
  <2>2. CASE GiveUp(r) \/ AttemptFails(r) \/ ClientError(r) \/ BreakStream(r)
    BY <2>2 DEF GiveUp, AttemptFails, ClientError, BreakStream, CallFails
  <2>3. CASE FinishStream(r)
    BY <2>3 DEF FinishStream
  <2> QED
    BY <1>5, <2>1, <2>2, <2>3 DEF Upstream
<1>6. ASSUME NEW r \in Requests, LogAndReturn(r)
      PROVE  Progress'
  BY <1>6 DEF LogAndReturn, Return
<1>7. CASE Elsewhere
  BY <1>7 DEF Elsewhere, Disconnect, Stall, SetDebugProvider, ClearCache, vars
<1> QED
  BY <1>1, <1>2, <1>3, <1>4, <1>5, <1>6, <1>7, Cases

\* Every reachable state is well typed; the token count in particular never
\* goes below zero or above the burst (TokenBucket.Allow).
THEOREM TypeCorrect == Safety => []TypeOK
<1> QED
  BY TypeInit, TypeStep, ProgressStep, PTL DEF Safety

\* The lemmas above as one fact, for the theorems below.
LEMMA Reachable == Safety => [](TypeOK /\ Progress)
<1> QED
  BY TypeInit, TypeStep, ProgressStep, PTL DEF Safety

----------------------------------------------------------------------------
(* Accounting and the streaming commit point *)

\* Usage is accounted for exactly once per request that went upstream, on all
\* of handleRequest's ways out, and not at all for an error page.
THEOREM LogsExact == Safety => []LoggedOnce
<1>1. Progress => LoggedOnce
  BY DEF Progress, LoggedOnce, ErrorPages
<1> QED
  BY <1>1, Reachable, PTL

LEMMA StreamStep ==
  TypeOK /\ Progress /\ [Next]_vars =>
    [\A r \in Requests : status[r] # "none" =>
       status'[r] = status[r] /\ attempts'[r] = attempts[r]]_vars
<1> SUFFICES ASSUME TypeOK, Progress, [Next]_vars,
                    NEW q \in Requests, status[q] # "none"
             PROVE  status'[q] = status[q] /\ attempts'[q] = attempts[q]
  OBVIOUS
<1>1. pc[q] \in {"replaying", "streaming", "logging", "done"}
  BY DEF Progress
<1> USE DEF TypeOK, WriteHeader, requestVars
<1>2. ASSUME NEW r \in Requests, FrontDoor(r) \/ Parsing(r)
      PROVE  status'[q] = status[q] /\ attempts'[q] = attempts[q]
  BY <1>1, <1>2
     DEF FrontDoor, Parsing, Arrive, PassLimiter, RateLimited, EnterBulkhead,
         BulkheadFull, LeaveBeforeSlot, ReadBody, TurnAway, ServeFromCache,
         FinishReplay, StartReview,
         FinishReview
<1>3. ASSUME NEW r \in Requests, Upstream(r)
      PROVE  status'[q] = status[q] /\ attempts'[q] = attempts[q]
  BY <1>1, <1>3
     DEF Upstream, StartAttempt, GiveUp, AttemptFails, ClientError, StartStream,
         BreakStream, FinishStream
<1>4. ASSUME NEW r \in Requests, Route(r) \/ AskBreaker(r) \/ LogAndReturn(r)
      PROVE  status'[q] = status[q] /\ attempts'[q] = attempts[q]
  BY <1>4 DEF Route, AskBreaker, LogAndReturn
<1>5. CASE Elsewhere
  BY <1>5 DEF Elsewhere, Disconnect, Stall, SetDebugProvider, ClearCache, vars
<1> QED
  BY <1>2, <1>3, <1>4, <1>5, Cases

\* WriteHeader is the point of no return: whatever breaks afterwards, the
\* request is not sent again and its headers are not rewritten.
THEOREM StreamsAreFinal == Safety => NoRetryAfterStream
<1> QED
  BY Reachable, StreamStep, PTL DEF Safety, NoRetryAfterStream

----------------------------------------------------------------------------
(* The bulkhead *)

Inside == {r \in Requests : pc[r] \in Holding}

LEMMA InsideFinite == IsFiniteSet(Inside) /\ Cardinality(Inside) \in Nat
<1>1. IsFiniteSet(Inside)
  BY ProxyAssumption, FS_Subset DEF Inside
<1> QED
  BY <1>1, FS_CardinalityType

LEMMA SlotsInit == Init => SlotsBalance
<1> SUFFICES ASSUME Init PROVE SlotsBalance
  OBVIOUS
<1>1. Inside = {}
  BY DEF Init, Inside, Holding, Calling
<1> QED
  BY <1>1, FS_EmptySet, ProxyAssumption DEF Init, SlotsBalance, Inside

\* A request that returns takes itself out of the set and one off the count.
LEMMA ReturnBalances ==
  ASSUME TypeOK, SlotsBalance, NEW r \in Requests, pc[r] \in Holding, Return(r)
  PROVE  SlotsBalance'
<1>1. Inside' = Inside \ {r}
  BY DEF TypeOK, Return, Goto, Inside, Holding, Calling
<1>2. Cardinality(Inside') = Cardinality(Inside) - 1
  BY <1>1, InsideFinite, FS_RemoveElement DEF Inside
<1> QED
  BY <1>2, InsideFinite, ProxyAssumption DEF SlotsBalance, Inside, Return

LEMMA SlotsStep == TypeOK /\ SlotsBalance /\ [Next]_vars => SlotsBalance'
<1> SUFFICES ASSUME TypeOK, SlotsBalance, [Next]_vars
             PROVE  SlotsBalance'
  OBVIOUS
<1>1. ASSUME Inside' = Inside, UNCHANGED inUse
      PROVE  SlotsBalance'
  BY <1>1 DEF SlotsBalance, Inside
<1> USE DEF TypeOK, Goto, Holding, Calling
<1>2. ASSUME NEW r \in Requests, FrontDoor(r)
      PROVE  SlotsBalance'
  <2>1. CASE EnterBulkhead(r)
    <3>1. Inside' = Inside \union {r} /\ r \notin Inside
      BY <2>1 DEF EnterBulkhead, Inside
    <3>2. Cardinality(Inside') = Cardinality(Inside) + 1
      BY <3>1, InsideFinite, FS_AddElement
    <3> QED
      BY <2>1, <3>2, InsideFinite, ProxyAssumption
         DEF EnterBulkhead, SlotFree, SlotsBalance, Inside
  <2>2. CASE Arrive(r) \/ BulkheadFull(r) \/ LeaveBeforeSlot(r)
    BY <1>1, <2>2 DEF Arrive, PassLimiter, RateLimited, BulkheadFull,
                      LeaveBeforeSlot, Inside
  <2> QED
    BY <1>2, <2>1, <2>2 DEF FrontDoor
<1>3. ASSUME NEW r \in Requests, Parsing(r)
      PROVE  SlotsBalance'
  <2>1. CASE TurnAway(r)
    BY <2>1, ReturnBalances DEF TurnAway
  <2>2. CASE \/ ReadBody(r) \/ ServeFromCache(r) \/ FinishReplay(r)
             \/ StartReview(r) \/ FinishReview(r)
    BY <1>1, <2>2 DEF ReadBody, ServeFromCache, FinishReplay, StartReview,
                      FinishReview, Inside
  <2> QED
    BY <1>3, <2>1, <2>2 DEF Parsing
<1>4. ASSUME NEW r \in Requests, Route(r) \/ AskBreaker(r) \/ Upstream(r)
      PROVE  SlotsBalance'
  BY <1>1, <1>4
     DEF Route, AskBreaker, Admit, Refuse, Upstream, StartAttempt, GiveUp,
         AttemptFails, ClientError, StartStream, BreakStream, FinishStream,
         CallFails, Inside
<1>5. ASSUME NEW r \in Requests, LogAndReturn(r)
      PROVE  SlotsBalance'
  BY <1>5, ReturnBalances DEF LogAndReturn
<1>6. CASE Elsewhere
  BY <1>1, <1>6
     DEF Elsewhere, Disconnect, Stall, SetDebugProvider, ClearCache, vars, Inside
<1> QED
  BY <1>2, <1>3, <1>4, <1>5, <1>6, Cases

\* The bulkhead neither leaks a slot nor lets one request too many in, for any
\* capacity, whichever way requests end.
THEOREM SlotsNeverLeak == Safety => []SlotsBalance
<1> QED
  BY Reachable, SlotsInit, SlotsStep, PTL DEF Safety

----------------------------------------------------------------------------
(* Breakers and cache *)

\* A breaker that has seen a failure, or has left Closed, has a failed request.
Blamed ==
  \A p \in Providers : p \in faulty \/ mode[p] # "Closed" =>
    \E r \in failed : provider[r] = p

LEMMA BlamedStep == TypeOK /\ Progress /\ Blamed /\ [Next]_vars => Blamed'
<1> SUFFICES ASSUME TypeOK, Progress, Blamed, [Next]_vars
             PROVE  Blamed'
  OBVIOUS
<1>1. ASSUME UNCHANGED <<mode, faulty, failed, provider>>
      PROVE  Blamed'
  BY <1>1 DEF Blamed
<1>2. ASSUME NEW r \in Requests, FrontDoor(r) \/ Parsing(r) \/ LogAndReturn(r)
      PROVE  Blamed'
  BY <1>1, <1>2
     DEF FrontDoor, Parsing, Arrive, PassLimiter, RateLimited, EnterBulkhead,
         BulkheadFull, LeaveBeforeSlot, ReadBody, TurnAway, ServeFromCache,
         FinishReplay, StartReview,
         FinishReview, LogAndReturn, breakerVars, requestVars, clientVars
<1>3. ASSUME NEW r \in Requests, Route(r)
      PROVE  Blamed'
  <2>1. r \notin failed
    BY <1>3 DEF Route, Progress
  <2>2. \A s \in failed : provider'[s] = provider[s]
    BY <1>3, <2>1 DEF Route, TypeOK
  <2> QED
    BY <1>3, <2>2 DEF Route, Blamed, breakerVars
<1>4. ASSUME NEW r \in Requests, AskBreaker(r)
      PROVE  Blamed'
  <2>1. provider[r] \in Providers
    BY <1>4 DEF AskBreaker, Progress
  <2> QED
    BY <1>4, <2>1 DEF AskBreaker, Admit, Refuse, Blamed, TypeOK, requestVars
<1>5. ASSUME NEW r \in Requests, Upstream(r)
      PROVE  Blamed'
  <2>1. provider[r] \in Providers
    BY <1>5 DEF Upstream, Progress, Calling, StartAttempt, GiveUp, AttemptFails,
                ClientError, StartStream, BreakStream, FinishStream
  <2>2. ASSUME CallFails(r), UNCHANGED provider
        PROVE  Blamed'
    BY <2>1, <2>2 DEF CallFails, RecordFailure, Blamed, TypeOK
  <2>3. CASE GiveUp(r) \/ ClientError(r) \/ BreakStream(r)
    BY <2>2, <2>3 DEF GiveUp, ClientError, BreakStream, requestVars
  <2>4. CASE AttemptFails(r)
    BY <1>1, <2>2, <2>4 DEF AttemptFails, breakerVars
  <2>5. CASE StartAttempt(r) \/ StartStream(r)
    BY <1>1, <2>5 DEF StartAttempt, StartStream, breakerVars
  <2>6. CASE FinishStream(r)
    BY <2>1, <2>6 DEF FinishStream, RecordSuccess, Blamed, TypeOK, requestVars
  <2> QED
    BY <1>5, <2>3, <2>4, <2>5, <2>6 DEF Upstream
<1>6. CASE Elsewhere
  BY <1>1, <1>6 DEF Elsewhere, Disconnect, Stall,
                     SetDebugProvider, ClearCache, vars, breakerVars, requestVars, clientVars
<1> QED
  BY <1>2, <1>3, <1>4, <1>5, <1>6, Cases

\* One provider's failures never take another provider's breaker out of Closed,
\* however the debug lock is moved while calls are in progress.
THEOREM ProvidersIsolated == Safety => []FaultIsolation
<1>1. Init => Blamed
  BY DEF Init, Blamed
<1>2. Blamed => FaultIsolation
  BY DEF Blamed, FaultIsolation
<1> QED
  BY <1>1, <1>2, BlamedStep, Reachable, PTL DEF Safety

LEMMA WedgeStep == TypeOK /\ Progress /\ NeverWedged /\ [Next]_vars => NeverWedged'
<1> SUFFICES ASSUME TypeOK, Progress, NeverWedged, [Next]_vars
             PROVE  NeverWedged'
  OBVIOUS
<1> USE DEF TypeOK, Goto, Calling
<1>1. ASSUME UNCHANGED <<mode, used>>,
             \A s \in Requests : pc[s] \in Calling =>
               pc'[s] \in Calling /\ provider'[s] = provider[s]
      PROVE  NeverWedged'
  BY <1>1 DEF NeverWedged
<1>2. ASSUME NEW r \in Requests, FrontDoor(r) \/ Parsing(r) \/ LogAndReturn(r)
      PROVE  NeverWedged'
  BY <1>1, <1>2
     DEF FrontDoor, Parsing, Arrive, PassLimiter, RateLimited, EnterBulkhead,
         BulkheadFull, LeaveBeforeSlot, ReadBody, TurnAway, ServeFromCache,
         FinishReplay, StartReview,
         FinishReview, LogAndReturn, Return, breakerVars, requestVars, clientVars
<1>3. ASSUME NEW r \in Requests, Route(r)
      PROVE  NeverWedged'
  BY <1>1, <1>3 DEF Route, breakerVars
<1>4. ASSUME NEW r \in Requests, AskBreaker(r)
      PROVE  NeverWedged'
  <2>1. provider[r] \in Providers
    BY <1>4 DEF AskBreaker, Progress
  <2>2. CASE Admit(r, provider[r])
    BY <1>4, <2>1, <2>2, ProxyAssumption
       DEF AskBreaker, Admit, NeverWedged, requestVars
  <2>3. CASE Refuse(r, provider[r])
    BY <1>4, <2>1, <2>3 DEF AskBreaker, Refuse, NeverWedged, requestVars
  <2> QED
    BY <1>4, <2>2, <2>3 DEF AskBreaker
<1>5. ASSUME NEW r \in Requests, Upstream(r)
      PROVE  NeverWedged'
  <2>1. provider[r] \in Providers /\ pc[r] \in Calling
    BY <1>5 DEF Upstream, Progress, StartAttempt, GiveUp, AttemptFails,
                ClientError, StartStream, BreakStream, FinishStream
  <2>2. ASSUME CallFails(r), UNCHANGED provider
        PROVE  NeverWedged'
    BY <2>1, <2>2, ProxyAssumption DEF CallFails, RecordFailure, NeverWedged
  <2>3. CASE GiveUp(r) \/ ClientError(r) \/ BreakStream(r)
    BY <2>2, <2>3 DEF GiveUp, ClientError, BreakStream, requestVars
  <2>4. CASE AttemptFails(r)
    BY <1>1, <2>2, <2>4 DEF AttemptFails, breakerVars
  <2>5. CASE StartAttempt(r) \/ StartStream(r)
    BY <1>1, <2>5 DEF StartAttempt, StartStream, breakerVars
  <2>6. CASE FinishStream(r)
    BY <2>1, <2>6, ProxyAssumption
       DEF FinishStream, RecordSuccess, NeverWedged, requestVars
  <2> QED
    BY <1>5, <2>3, <2>4, <2>5, <2>6 DEF Upstream
<1>6. CASE Elsewhere
  BY <1>1, <1>6 DEF Elsewhere, Disconnect, Stall,
                     SetDebugProvider, ClearCache, vars, breakerVars, requestVars, clientVars
<1> QED
  BY <1>2, <1>3, <1>4, <1>5, <1>6, Cases

\* No provider is shut out for good: a half-open breaker that refuses everybody
\* has a request inside Call, and all of Call's ways out decide.
THEOREM ProvidersNeverWedged == Safety => []NeverWedged
<1>1. Init => NeverWedged
  BY DEF Init, NeverWedged
<1> QED
  BY <1>1, WedgeStep, Reachable, PTL DEF Safety

LEMMA CacheStep ==
  TypeOK /\ Progress /\ CacheHoldsFullAnswers /\ [Next]_vars => CacheHoldsFullAnswers'
<1> SUFFICES ASSUME TypeOK, Progress, CacheHoldsFullAnswers, [Next]_vars
             PROVE  CacheHoldsFullAnswers'
  OBVIOUS
<1> DEFINE Answered(s) ==
             s \notin failed /\ attempts[s] > 0 /\ pc[s] \in {"logging", "done"}
<1> USE DEF TypeOK, Goto
<1>1. ASSUME cache' \subseteq cache, \A s \in Requests : Answered(s) => Answered(s)'
      PROVE  CacheHoldsFullAnswers'
  BY <1>1 DEF CacheHoldsFullAnswers
<1>2. ASSUME NEW r \in Requests, FrontDoor(r) \/ Parsing(r) \/ LogAndReturn(r)
      PROVE  CacheHoldsFullAnswers'
  BY <1>1, <1>2
     DEF FrontDoor, Parsing, Arrive, PassLimiter, RateLimited, EnterBulkhead,
         BulkheadFull, LeaveBeforeSlot, ReadBody, TurnAway, ServeFromCache,
         FinishReplay, StartReview,
         FinishReview, LogAndReturn, Return, requestVars
<1>3. ASSUME NEW r \in Requests, Route(r) \/ AskBreaker(r)
      PROVE  CacheHoldsFullAnswers'
  BY <1>1, <1>3 DEF Route, AskBreaker, Admit, Refuse, requestVars
<1>4. ASSUME NEW r \in Requests, Upstream(r)
      PROVE  CacheHoldsFullAnswers'
  <2>1. CASE FinishStream(r)
    <3>1. Answered(r)'
      BY <2>1 DEF FinishStream, Progress, requestVars
    <3>2. \A s \in Requests : Answered(s) => Answered(s)'
      BY <2>1, <3>1 DEF FinishStream, requestVars
    <3>3. cache' \subseteq cache \union {PromptOf[r]}
      BY <2>1 DEF FinishStream, StoreAnswer
    <3> QED
      BY <3>1, <3>2, <3>3 DEF CacheHoldsFullAnswers
  <2>2. CASE StartAttempt(r) \/ StartStream(r)
    BY <1>1, <2>2 DEF StartAttempt, StartStream
  <2>3. CASE GiveUp(r) \/ AttemptFails(r) \/ ClientError(r) \/ BreakStream(r)
    BY <1>1, <2>3 DEF GiveUp, AttemptFails, ClientError, BreakStream,
                      CallFails, requestVars
  <2> QED
    BY <1>4, <2>1, <2>2, <2>3 DEF Upstream
<1>5. CASE Elsewhere
  BY <1>1, <1>5 DEF Elsewhere, Disconnect, Stall, SetDebugProvider, ClearCache, vars,
                    requestVars
<1> QED
  BY <1>2, <1>3, <1>4, <1>5, Cases

\* What the cache replays to other clients is always a complete answer.
THEOREM CacheIsComplete == Safety => []CacheHoldsFullAnswers
<1>1. Init => CacheHoldsFullAnswers
  BY DEF Init, CacheHoldsFullAnswers
<1> QED
  BY <1>1, CacheStep, Reachable, PTL DEF Safety

LEMMA BreakerStep ==
  ASSUME NEW p \in Providers
  PROVE  TypeOK /\ Progress /\ [Next]_vars =>
           [Breaker(p)!Next]_<<mode[p], used[p]>>
<1> SUFFICES ASSUME TypeOK, Progress, [Next]_vars
             PROVE  Breaker(p)!Next \/ UNCHANGED <<mode[p], used[p]>>
  OBVIOUS
<1>1. ASSUME UNCHANGED <<mode, used>>
      PROVE  UNCHANGED <<mode[p], used[p]>>
  BY <1>1
<1> USE DEF TypeOK
<1>2. ASSUME NEW r \in Requests,
             FrontDoor(r) \/ Parsing(r) \/ LogAndReturn(r) \/ Route(r)
      PROVE  UNCHANGED <<mode[p], used[p]>>
  BY <1>1, <1>2
     DEF FrontDoor, Parsing, Arrive, PassLimiter, RateLimited, EnterBulkhead,
         BulkheadFull, LeaveBeforeSlot, ReadBody, TurnAway, ServeFromCache,
         FinishReplay, StartReview,
         FinishReview, LogAndReturn, Route, breakerVars
<1>3. ASSUME NEW r \in Requests, AskBreaker(r)
      PROVE  Breaker(p)!Next \/ UNCHANGED <<mode[p], used[p]>>
  <2>1. provider[r] \in Providers
    BY <1>3 DEF AskBreaker, Progress
  <2>2. CASE Admit(r, provider[r])
    BY <2>1, <2>2 DEF Admit, Breaker!Next, Breaker!StartProbing, Breaker!AdmitProbe
  <2>3. CASE Refuse(r, provider[r])
    BY <2>1, <2>3 DEF Refuse, Breaker!Next, Breaker!Trip
  <2> QED
    BY <1>3, <2>2, <2>3 DEF AskBreaker
<1>4. ASSUME NEW r \in Requests, Upstream(r)
      PROVE  Breaker(p)!Next \/ UNCHANGED <<mode[p], used[p]>>
  <2>1. provider[r] \in Providers
    BY <1>4 DEF Upstream, Progress, Calling, StartAttempt, GiveUp, AttemptFails,
                ClientError, StartStream, BreakStream, FinishStream
  <2>2. ASSUME CallFails(r)
        PROVE  Breaker(p)!Next \/ UNCHANGED <<mode[p], used[p]>>
    BY <2>1, <2>2 DEF CallFails, RecordFailure, Breaker!Next, Breaker!Reopen
  <2>3. CASE GiveUp(r) \/ ClientError(r) \/ BreakStream(r)
    BY <2>2, <2>3 DEF GiveUp, ClientError, BreakStream
  <2>4. CASE AttemptFails(r)
    BY <1>1, <2>2, <2>4 DEF AttemptFails, breakerVars
  <2>5. CASE StartAttempt(r) \/ StartStream(r)
    BY <1>1, <2>5 DEF StartAttempt, StartStream, breakerVars
  <2>6. CASE FinishStream(r)
    BY <2>1, <2>6 DEF FinishStream, RecordSuccess, Breaker!Next, Breaker!Close
  <2> QED
    BY <1>4, <2>3, <2>4, <2>5, <2>6 DEF Upstream
<1>5. CASE Elsewhere
  BY <1>1, <1>5 DEF Elsewhere, Disconnect, Stall, SetDebugProvider, ClearCache, vars,
                    breakerVars
<1> QED
  BY <1>2, <1>3, <1>4, <1>5, Cases

\* With requests racing for it, retrying, disconnecting and being rerouted,
\* each provider's breaker keeps to the machine CircuitBreaker implements.
THEOREM BreakersKeepPromise ==
  Safety => /\ \A p \in Providers : Breaker(p)!Init
            /\ [][\A p \in Providers :
                    [Breaker(p)!Next]_<<mode[p], used[p]>>]_<<mode, used>>
<1>1. Init => \A p \in Providers : Breaker(p)!Init
  BY DEF Init, Breaker!Init
<1>2. TypeOK /\ Progress /\ [Next]_vars =>
        [\A p \in Providers : [Breaker(p)!Next]_<<mode[p], used[p]>>]_<<mode, used>>
  BY BreakerStep
<1> QED
  BY <1>1, <1>2, Reachable, PTL DEF Safety
=============================================================================
