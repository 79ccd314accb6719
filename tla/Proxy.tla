------------------------------- MODULE Proxy -------------------------------
(***************************************************************************)
(* The life of POST /v1/messages requests in the data plane, Proxy of      *)
(* handler.go: global limiter, bulkhead, parsing, cache, pipeline, review  *)
(* mode, routing, the provider's breaker, the retry loop, the SSE stream   *)
(* and the request log, interleaved between requests at every point where  *)
(* a handler gives up a lock or waits for the network.                     *)
(*                                                                         *)
(* Each provider's breaker is the machine BreakerSpec, which               *)
(* CircuitBreaker implements: when its window trips and when OpenTimeout   *)
(* is over is a choice here.  The provider table is fixed, as NewProxy     *)
(* builds it.                                                              *)
(***************************************************************************)
EXTENDS Integers, FiniteSets

CONSTANTS
  Requests,         \* HTTP requests, each with its own handler goroutine
  Providers,        \* keys of p.providers, every one enabled
  None,             \* no provider
  Prompts,          \* prompts the cache tells apart
  PromptOf,         \* Requests -> Prompts
  Capacity,         \* bulkhead slots
  LimiterCapacity,  \* burst of the global token bucket
  MaxRetries,       \* resilience.MaxRetries, after NewExponentialBackoff
  HalfOpenMaxReqs,
  UpstreamTimeout,  \* resilience.UpstreamTimeout, in seconds
  RequestTimeout    \* resilience.RequestTimeout, in seconds

ASSUME ProxyAssumption ==
  /\ IsFiniteSet(Requests)
  /\ Providers # {} /\ None \notin Providers
  /\ PromptOf \in [Requests -> Prompts]
  /\ Capacity \in Nat \ {0}
  /\ LimiterCapacity \in Nat \ {0}
  /\ MaxRetries \in Nat \ {0}
  /\ HalfOpenMaxReqs \in Nat \ {0}
  /\ UpstreamTimeout \in Nat /\ RequestTimeout \in Nat

VARIABLES
  pc,             \* where each request is
  tokens,         \* p.limiter.tokens
  inUse,          \* len(p.bulkhead.sem)
  mode, used,     \* each provider's breaker
  faulty,         \* providers whose breaker has recorded a failure
  debugProvider,  \* p.debugProvider, None when unlocked
  provider,       \* the provider a request was routed to
  attempts,       \* upstream requests sent for it
  status,         \* the status its WriteHeader sent, "none" before
  logs,           \* request-log entries written for it
  gone,           \* requests whose client has disconnected
  stalled,        \* requests whose handler waits for a silent client
  failed,         \* history: requests whose Call recorded a failure
  cache           \* prompts with a semantic-cache entry

breakerVars == <<mode, used, faulty>>
requestVars == <<provider, attempts, status, logs>>
clientVars == <<gone, stalled>>
vars == <<pc, tokens, inUse, breakerVars, debugProvider, requestVars, clientVars,
          failed, cache>>

\* Phases in which a request holds a bulkhead slot, and those inside Call.
Calling == {"trying", "upstream", "streaming"}
Holding == Calling \union {"reading", "handling", "replaying", "review", "routed",
                                "logging"}
Phases == Holding \union {"idle", "limited", "done"}
Statuses == {"none", "200", "400", "403", "429", "503"}

Goto(r, phase) == pc' = [pc EXCEPT ![r] = phase]
WriteHeader(r, code) == status' = [status EXCEPT ![r] = code]

----------------------------------------------------------------------------
\* ServeHTTP: limiter, then bulkhead.Execute.

\* TokenBucket.Allow: a token there is taken; an empty bucket is refilled by
\* the whole intervals elapsed, any number of them here, and one is taken.
\* (Variant with a fault: the bucket is decremented without being looked at.)
AllowedUnchecked == tokens' = tokens - 1

Allowed == \/ tokens > 0 /\ tokens' = tokens - 1
           \/ tokens = 0 /\ tokens' \in 0 .. LimiterCapacity - 1

PassLimiter(r) ==
  /\ pc[r] = "idle"
  /\ Allowed
  /\ Goto(r, "limited")
  /\ UNCHANGED <<inUse, breakerVars, debugProvider, requestVars, clientVars, failed,
                 cache>>

RateLimited(r) ==
  /\ pc[r] = "idle"
  /\ tokens = 0
  /\ Goto(r, "done")
  /\ WriteHeader(r, "429")
  /\ UNCHANGED <<tokens, inUse, breakerVars, debugProvider, provider, attempts,
                 logs, clientVars, failed, cache>>

\* (Variant with a fault: one slot too many.)
SlotFreeOffByOne == inUse <= Capacity

SlotFree == inUse < Capacity

EnterBulkhead(r) ==
  /\ pc[r] = "limited"
  /\ SlotFree
  /\ inUse' = inUse + 1
  /\ Goto(r, "reading")
  /\ UNCHANGED <<tokens, breakerVars, debugProvider, requestVars, clientVars,
                 failed, cache>>

\* Execute's default case, taken only if no other case of the select is ready.
BulkheadFull(r) ==
  /\ pc[r] = "limited"
  /\ ~SlotFree
  /\ r \notin gone
  /\ Goto(r, "done")
  /\ WriteHeader(r, "503")
  /\ UNCHANGED <<tokens, inUse, breakerVars, debugProvider, provider, attempts,
                 logs, clientVars, failed, cache>>

\* Its ctx.Done case: the error is returned and ServeHTTP writes nothing.
LeaveBeforeSlot(r) ==
  /\ pc[r] = "limited"
  /\ r \in gone
  /\ Goto(r, "done")
  /\ UNCHANGED <<tokens, inUse, breakerVars, debugProvider, requestVars, clientVars,
                 failed, cache>>

\* Return from handleRequest: the deferred receive frees the slot.
Return(r) ==
  /\ Goto(r, "done")
  /\ inUse' = inUse - 1

----------------------------------------------------------------------------
\* handleRequest up to the breaker.

\* io.ReadAll(r.Body), which takes as long as the client does.
ReadBody(r) ==
  /\ pc[r] = "reading"
  /\ Goto(r, "handling")
  /\ UNCHANGED <<tokens, inUse, breakerVars, debugProvider, requestVars,
                 clientVars, failed, cache>>

\* An unreadable or non-JSON body (400), or a pipeline stage that blocks (403).
TurnAway(r) ==
  /\ \/ pc[r] = "reading" /\ WriteHeader(r, "400")
     \/ pc[r] = "handling" /\ \E code \in {"400", "403"} : WriteHeader(r, code)
  /\ Return(r)
  /\ UNCHANGED <<tokens, breakerVars, debugProvider, provider, attempts,
                 logs, clientVars, failed, cache>>

ServeFromCache(r) ==
  /\ pc[r] = "handling"
  /\ PromptOf[r] \in cache
  /\ WriteHeader(r, "200")
  /\ Goto(r, "replaying")
  /\ UNCHANGED <<tokens, inUse, breakerVars, debugProvider, provider, attempts,
                 logs, clientVars, failed, cache>>

\* The cached body is written and flushed, whether or not the client takes it.
FinishReplay(r) ==
  /\ pc[r] = "replaying"
  /\ Goto(r, "logging")
  /\ UNCHANGED <<tokens, inUse, breakerVars, debugProvider, requestVars,
                 clientVars, failed, cache>>

\* X-Ragent-Orchestrate: review.  Orchestrator.Execute talks to two providers
\* past their breakers; it sends 200 before the first of them answers, or
\* nothing if a provider is unknown, and its outcome is logged either way.
StartReview(r) ==
  /\ pc[r] = "handling"
  /\ Goto(r, "review")
  /\ UNCHANGED <<tokens, inUse, breakerVars, debugProvider, requestVars, clientVars,
                 failed, cache>>

FinishReview(r) ==
  /\ pc[r] = "review"
  /\ Goto(r, "logging")
  /\ \E code \in {"200", "none"} : WriteHeader(r, code)
  /\ UNCHANGED <<tokens, inUse, breakerVars, debugProvider, provider, attempts,
                 logs, clientVars, failed, cache>>

\* Debug lock first, else the matcher's choice or any provider of the table.
Route(r) ==
  /\ pc[r] = "handling"
  /\ \E p \in Providers :
       /\ debugProvider # None => p = debugProvider
       /\ provider' = [provider EXCEPT ![r] = p]
  /\ Goto(r, "routed")
  /\ UNCHANGED <<tokens, inUse, breakerVars, debugProvider, attempts,
                 status, logs, clientVars, failed, cache>>

----------------------------------------------------------------------------
\* breaker.Call: allowRequest of the breaker of the request's provider.

\* (Variant with a fault: the call that starts probing is not counted.)
AdmitUncounted(r, p) ==
  /\ \/ mode[p] = "Closed" /\ UNCHANGED <<mode, used>>
     \/ /\ mode[p] = "Open"
        /\ mode' = [mode EXCEPT ![p] = "HalfOpen"]
        /\ used' = [used EXCEPT ![p] = 0]
     \/ /\ mode[p] = "HalfOpen" /\ used[p] < HalfOpenMaxReqs
        /\ used' = [used EXCEPT ![p] = @ + 1]
        /\ UNCHANGED mode
  /\ Goto(r, "trying")

Admit(r, p) ==
  /\ \/ mode[p] = "Closed" /\ UNCHANGED <<mode, used>>
     \/ /\ mode[p] = "Open"
        /\ mode' = [mode EXCEPT ![p] = "HalfOpen"]
        /\ used' = [used EXCEPT ![p] = 1]
     \/ /\ mode[p] = "HalfOpen" /\ used[p] < HalfOpenMaxReqs
        /\ used' = [used EXCEPT ![p] = @ + 1]
        /\ UNCHANGED mode
  /\ Goto(r, "trying")

Refuse(r, p) ==
  /\ \/ /\ mode[p] = "Closed" /\ p \in faulty
        /\ mode' = [mode EXCEPT ![p] = "Open"]
        /\ used' = [used EXCEPT ![p] = 0]
     \/ /\ mode[p] = "Open" \/ (mode[p] = "HalfOpen" /\ used[p] >= HalfOpenMaxReqs)
        /\ UNCHANGED <<mode, used>>
  /\ Goto(r, "logging")

AskBreaker(r) ==
  /\ pc[r] = "routed"
  /\ Admit(r, provider[r]) \/ Refuse(r, provider[r])
  /\ UNCHANGED <<tokens, inUse, faulty, debugProvider, requestVars, clientVars,
                 failed, cache>>

\* recordResult on the breaker handleRequest took when it routed the request.
RecordFailure(p) ==
  /\ faulty' = faulty \union {p}
  /\ IF mode[p] = "HalfOpen"
     THEN /\ mode' = [mode EXCEPT ![p] = "Open"]
          /\ used' = [used EXCEPT ![p] = 0]
     ELSE UNCHANGED <<mode, used>>

\* (Variant with a fault: the last probe allowed does not close the breaker.)
RecordSuccessOffByOne(p) ==
  /\ IF mode[p] = "HalfOpen" /\ used[p] > HalfOpenMaxReqs
     THEN /\ mode' = [mode EXCEPT ![p] = "Closed"]
          /\ used' = [used EXCEPT ![p] = 0]
     ELSE UNCHANGED <<mode, used>>
  /\ UNCHANGED faulty

RecordSuccess(p) ==
  /\ IF mode[p] = "HalfOpen" /\ used[p] >= HalfOpenMaxReqs
     THEN /\ mode' = [mode EXCEPT ![p] = "Closed"]
          /\ used' = [used EXCEPT ![p] = 0]
     ELSE UNCHANGED <<mode, used>>
  /\ UNCHANGED faulty

\* (Variant with a fault: the breaker is looked up again after the call.)
CallFailsWhereLocked(r) ==
  /\ RecordFailure(IF debugProvider # None THEN debugProvider ELSE provider[r])
  /\ failed' = failed \union {r}
  /\ Goto(r, "logging")

CallFails(r) ==
  /\ RecordFailure(provider[r])
  /\ failed' = failed \union {r}
  /\ Goto(r, "logging")

----------------------------------------------------------------------------
\* doUpstreamRequest: retry.Do around the connection phase, then the stream.

\* Do looks at the request's context before every attempt and while it waits.
\* (Variant with a fault: the attempt counter is not advanced.)
StartAttemptUncounted(r) ==
  /\ pc[r] = "trying"
  /\ r \notin gone
  /\ Goto(r, "upstream")
  /\ UNCHANGED <<tokens, inUse, breakerVars, debugProvider, requestVars, clientVars,
                 failed, cache>>

StartAttempt(r) ==
  /\ pc[r] = "trying"
  /\ r \notin gone
  /\ attempts' = [attempts EXCEPT ![r] = @ + 1]
  /\ Goto(r, "upstream")
  /\ UNCHANGED <<tokens, inUse, breakerVars, debugProvider, provider,
                 status, logs, clientVars, failed, cache>>

GiveUp(r) ==
  /\ pc[r] = "trying"
  /\ r \in gone
  /\ CallFails(r)
  /\ UNCHANGED <<tokens, inUse, debugProvider, requestVars, clientVars, cache>>

RetriesLeft(r) == attempts[r] <= MaxRetries

\* A connection error, a 5xx, or UpstreamTimeout expiring.
AttemptFails(r) ==
  /\ pc[r] = "upstream"
  /\ \/ RetriesLeft(r) /\ Goto(r, "trying") /\ UNCHANGED <<breakerVars, failed>>
     \/ ~RetriesLeft(r) /\ CallFails(r)
  /\ UNCHANGED <<tokens, inUse, debugProvider, provider, attempts, status, logs,
                 clientVars, cache>>

\* A 4xx ends the loop, and Call, with an error; nothing is written.
ClientError(r) ==
  /\ pc[r] = "upstream"
  /\ CallFails(r)
  /\ UNCHANGED <<tokens, inUse, debugProvider, requestVars, clientVars, cache>>

StartStream(r) ==
  /\ pc[r] = "upstream"
  /\ WriteHeader(r, "200")
  /\ Goto(r, "streaming")
  /\ UNCHANGED <<tokens, inUse, breakerVars, debugProvider, provider, attempts,
                 logs, clientVars, failed, cache>>

\* Cache.Store: the answer is inserted and the oldest entries beyond maxEntries
\* go in the same transaction, or nothing happens (no cache, no embedding).
StoreAnswer(q) ==
  \/ \E kept \in SUBSET cache : cache' = kept \union {q}
  \/ UNCHANGED cache

\* (Variants with a fault: a broken stream is retried; what arrived is cached.)
BreakStreamRetried(r) ==
  /\ pc[r] = "streaming"
  /\ \/ RetriesLeft(r) /\ Goto(r, "trying") /\ UNCHANGED <<breakerVars, failed>>
     \/ ~RetriesLeft(r) /\ CallFails(r)
  /\ UNCHANGED <<tokens, inUse, debugProvider, requestVars, clientVars, cache>>

BreakStreamCached(r) ==
  /\ pc[r] = "streaming"
  /\ StoreAnswer(PromptOf[r])
  /\ CallFails(r)
  /\ UNCHANGED <<tokens, inUse, debugProvider, requestVars, clientVars>>

\* io.Copy failed: upstream lost, client lost, or the attempt's context, which
\* its deferred cancel ended before the body was read.
BreakStream(r) ==
  /\ pc[r] = "streaming"
  /\ CallFails(r)
  /\ UNCHANGED <<tokens, inUse, debugProvider, requestVars, clientVars, cache>>

FinishStream(r) ==
  /\ pc[r] = "streaming"
  /\ StoreAnswer(PromptOf[r])
  /\ RecordSuccess(provider[r])
  /\ Goto(r, "logging")
  /\ UNCHANGED <<tokens, inUse, debugProvider, requestVars, clientVars, failed>>

\* (Variant with a fault: a request whose client has left is not logged.)
LogAndReturnIfPresent(r) ==
  /\ pc[r] = "logging"
  /\ logs' = IF r \in gone THEN logs ELSE [logs EXCEPT ![r] = @ + 1]
  /\ Return(r)
  /\ UNCHANGED <<tokens, breakerVars, debugProvider, provider, attempts,
                 status, clientVars, failed, cache>>

\* OnRequestLog, and the handler returns.
LogAndReturn(r) ==
  /\ pc[r] = "logging"
  /\ logs' = [logs EXCEPT ![r] = @ + 1]
  /\ Return(r)
  /\ UNCHANGED <<tokens, breakerVars, debugProvider, provider, attempts,
                 status, clientVars, failed, cache>>

----------------------------------------------------------------------------
\* The client's connection drops (r.Context is cancelled) or falls silent, which
\* nothing in the code notices; the dashboard locks a provider or unlocks it, or
\* clears the semantic cache.

Disconnect(r) ==
  /\ pc[r] \notin {"idle", "done"} /\ r \notin gone
  /\ gone' = gone \union {r}
  /\ stalled' = stalled \ {r}
  /\ UNCHANGED <<pc, tokens, inUse, breakerVars, debugProvider, requestVars,
                 failed, cache>>

\* Phases that read from the client or write to it, without any deadline.
FacingClient == {"reading", "replaying", "review", "streaming"}

\* A client that neither sends nor takes any more but stays connected: the call
\* its handler is in does not return until it disconnects.
Stall(r) ==
  /\ pc[r] \in FacingClient /\ r \notin stalled \union gone
  /\ stalled' = stalled \union {r}
  /\ UNCHANGED <<pc, tokens, inUse, breakerVars, debugProvider, requestVars,
                 gone, failed, cache>>

SetDebugProvider ==
  /\ debugProvider' \in Providers \union {None}
  /\ UNCHANGED <<pc, tokens, inUse, breakerVars, requestVars, clientVars, failed,
                 cache>>

ClearCache ==
  /\ cache # {}
  /\ cache' = {}
  /\ UNCHANGED <<pc, tokens, inUse, breakerVars, debugProvider, requestVars,
                 clientVars, failed>>

----------------------------------------------------------------------------
Init ==
  /\ pc = [r \in Requests |-> "idle"]
  /\ tokens = LimiterCapacity
  /\ inUse = 0
  /\ mode = [p \in Providers |-> "Closed"]
  /\ used = [p \in Providers |-> 0]
  /\ faulty = {}
  /\ debugProvider = None
  /\ provider = [r \in Requests |-> None]
  /\ attempts = [r \in Requests |-> 0]
  /\ status = [r \in Requests |-> "none"]
  /\ logs = [r \in Requests |-> 0]
  /\ gone = {} /\ stalled = {}
  /\ failed = {}
  /\ cache = {}

Arrive(r) == PassLimiter(r) \/ RateLimited(r)

\* What a handler goroutine does once its request was let in.
Handle(r) ==
  /\ r \notin stalled
  /\ \/ EnterBulkhead(r) \/ BulkheadFull(r) \/ LeaveBeforeSlot(r)
     \/ ReadBody(r) \/ TurnAway(r)
     \/ ServeFromCache(r) \/ FinishReplay(r) \/ StartReview(r) \/ FinishReview(r)
     \/ Route(r) \/ AskBreaker(r)
     \/ StartAttempt(r) \/ GiveUp(r) \/ AttemptFails(r)
     \/ ClientError(r) \/ StartStream(r) \/ BreakStream(r) \/ FinishStream(r)
     \/ LogAndReturn(r)

Next ==
  \/ \E r \in Requests : Arrive(r) \/ Handle(r) \/ Disconnect(r) \/ Stall(r)
  \/ SetDebugProvider
  \/ ClearCache

\* Handlers run on, as every wait of theirs is bounded by a timeout, except for
\* a silent client.  Clients and the dashboard owe nothing.
Safety == Init /\ [][Next]_vars
Spec == Safety /\ \A r \in Requests : WF_vars(Handle(r))

----------------------------------------------------------------------------
TypeOK ==
  /\ pc \in [Requests -> Phases]
  /\ tokens \in 0 .. LimiterCapacity
  /\ inUse \in Int
  /\ mode \in [Providers -> {"Closed", "Open", "HalfOpen"}]
  /\ used \in [Providers -> Nat]
  /\ faulty \subseteq Providers
  /\ debugProvider \in Providers \union {None}
  /\ provider \in [Requests -> Providers \union {None}]
  /\ attempts \in [Requests -> Nat]
  /\ status \in [Requests -> Statuses]
  /\ logs \in [Requests -> Nat]
  /\ gone \subseteq Requests /\ stalled \subseteq Requests
  /\ failed \subseteq Requests
  /\ cache \subseteq Prompts

\* Whichever way a request ends, its bulkhead slot comes back exactly once, so
\* the slots in use are those of the requests inside and never exceed the
\* capacity (Execute's send and deferred receive).
SlotsBalance ==
  /\ inUse = Cardinality({r \in Requests : pc[r] \in Holding})
  /\ inUse <= Capacity

\* Usage accounting: a request that reached an upstream is logged exactly once
\* when it is over, one that got an error page from the gateway never.
LoggedOnce ==
  \A r \in Requests :
    /\ logs[r] <= 1
    /\ pc[r] = "done" /\ attempts[r] > 0 => logs[r] = 1
    /\ status[r] \in {"400", "403", "429", "503"} => logs[r] = 0

\* Once response headers are out the request is never sent upstream again and
\* its headers are never rewritten (ErrStreamStarted).
NoRetryAfterStream ==
  [][\A r \in Requests : status[r] # "none" =>
       status'[r] = status[r] /\ attempts'[r] = attempts[r]]_vars

\* Isolation: a breaker leaves Closed only after a call routed to that very
\* provider failed, wherever the debug lock pointed in the meantime.
FaultIsolation ==
  \A p \in Providers : mode[p] # "Closed" => \E r \in failed : provider[r] = p

\* A half-open breaker that refuses everybody waits for a request that is
\* still inside its Call: whatever makes that request end also decides.
NeverWedged ==
  \A p \in Providers : mode[p] = "HalfOpen" /\ used[p] >= HalfOpenMaxReqs =>
    \E r \in Requests : provider[r] = p /\ pc[r] \in Calling

\* What the cache will serve was streamed to its end by a call that succeeded,
\* never the beginning of an answer that broke off.
CacheHoldsFullAnswers ==
  \A q \in cache : \E r \in Requests \ failed :
    PromptOf[r] = q /\ attempts[r] > 0 /\ pc[r] \in {"logging", "done"}

\* Every request let in is answered or given up, and its handler returns and
\* frees its slot, unless it waits for a client that is silent and connected.
Ends(r) == pc[r] \notin {"idle", "done"} ~> pc[r] = "done" \/ r \in stalled
RequestsEnd == \A r \in Requests : Ends(r)

\* In the composition each breaker still is the abstract machine, its liveness
\* included: the probes it waits for do come back, unless a silent client holds
\* one of the provider's streams.
Breaker(p) == INSTANCE BreakerSpec WITH mode <- mode[p], used <- used[p]
HeldUp(p) == \E r \in stalled : provider[r] = p /\ pc[r] = "streaming"
ImplementsBreakerSpec ==
  /\ \A p \in Providers : Breaker(p)!Init
  /\ [][\A p \in Providers : [Breaker(p)!Next]_<<mode[p], used[p]>>]_<<mode, used>>
  /\ \A p \in Providers :
       mode[p] = "HalfOpen" /\ used[p] >= HalfOpenMaxReqs ~>
         mode[p] # "HalfOpen" \/ HeldUp(p)

\* "RequestTimeout: request-level timeout", "three retries together take no
\* longer than the parent budget": the time granted to the attempts of one
\* request stays within RequestTimeout.  handleRequest hands them r.Context,
\* which has no deadline, so each gets the whole of UpstreamTimeout.
WithinRequestTimeout ==
  \A r \in Requests : attempts[r] * UpstreamTimeout <= RequestTimeout
=============================================================================
