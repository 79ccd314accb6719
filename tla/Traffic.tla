------------------------------ MODULE Traffic ------------------------------
(***************************************************************************)
(* What a request meets on its way besides the gateway's own pipeline: the *)
(* services' limiters and calls (Messages), and the library's parsers,     *)
(* upstream calls, adapters, retries, shared views, limiters and caches.   *)
(* The parts share no state, so a behaviour is one of one of them.         *)
(***************************************************************************)
EXTENDS Messages, Sequences

CONSTANTS
  Lines, Streams, Absent,                     \* TokenTracker
  Names, Exactly, Containing, Length,         \* Upstream
  Kinds, Bodies, Words,                       \* Adapters
  Configs, Defaults, Deadlines, Timeouts,     \* Backoff
  Instances, MaxChanges,                      \* BreakerSync
  Replicas, MaxStarts, MaxFaults,             \* Discovery
  Window, Second, MaxRate, Random, WindowTime, MaxRequests,   \* SlidingWindow
  Similarity(_, _), Threshold, MaxEntries, Ttl, Handlers, MaxStores, MaxLookups,
  CacheTime                                   \* SemanticCache

ASSUME PartsAssumption ==
  /\ Length \in Nat
  /\ Exactly \in [Names -> SUBSET Providers] /\ Containing \in [Names -> SUBSET Providers]
  /\ MaxChanges \in Nat
  /\ IsFiniteSet(Replicas) /\ MaxStarts \in Nat /\ MaxFaults \in Nat
  /\ None \notin Int

ASSUME BackoffAssumption ==
  /\ Configs \subseteq [base : Int, max : Int, attempts : Int]
  /\ Defaults \in [base : Nat \ {0}, max : Nat \ {0}, attempts : Nat \ {0}]
  /\ Deadlines \subseteq Nat \union {None} /\ Timeouts \subseteq Nat

\* Streams are made of the three pieces of lines and of line ends; a data line that is
\* parsed has numbers, but perhaps no total.
ASSUME TrackerAssumption ==
  /\ Streams \subseteq
       Seq([line : Lines, part : 1..3] \union {[line |-> None, part |-> 0]})
  /\ \A l \in Lines :
       /\ l.kind \in {"event", "data"}
       /\ l.kind = "data" =>
            l.input \in Int /\ l.output \in Int /\ (l.total # Absent => l.total \in Int)

\* Anthropic's Messages: text has no blocks without text.
ASSUME AdapterAssumption ==
  /\ None \notin Words
  /\ \A b \in Bodies :
       /\ b \in [system : Words \union {None},
                 messages : Seq([role : {"user", "assistant"}, blocks : BOOLEAN,
                                 content : Seq(Words \union {None})])]
       /\ \A i \in 1..Len(b.messages) :
            ~b.messages[i].blocks => b.messages[i].content \in Seq(Words)

ASSUME WindowAssumption ==
  /\ Window \in Nat \ {0} /\ Second \in Nat \ {0} /\ MaxRate \in Nat
  /\ WindowTime \in Nat /\ Skew <= WindowTime

ASSUME CacheAssumption ==
  /\ MaxEntries \in Nat /\ Ttl \in Nat
  /\ MaxStores \in Nat /\ MaxLookups \in Nat /\ CacheTime \in Nat

VARIABLES
  part,
  stream, sent, tracker, flushes, copyPhase,
  caller, at, provider, phase, attempt, readable, copied, events, gone, broken,
  kind, body, request,
  config, jitter, deadline, timeout, clock, try, tryUntil, tryAt,
  mode, sending, log, next, changes, missed, unsent,
  process, leases, key, watching, keyEvents, seen, starts, faults, changed, stale,
  windowScript, redisClock, zset, until, windowPassed, merged,
  day, rows, handler, stores, hits, misses, kept

usage     == <<stream, sent, tracker, flushes, copyPhase>>
upstream  == <<caller, at, provider, phase, attempt, readable, copied, events, gone, broken>>
adapter   == <<kind, body, request>>
backoff   == <<config, jitter, deadline, timeout, clock, try, tryUntil, tryAt>>
breaker   == <<mode, sending, log, next, changes, missed, unsent>>
discovery == <<process, leases, key, watching, keyEvents, seen, starts, faults, changed, stale>>
window    == <<windowScript, redisClock, zset, until, windowPassed, merged>>
cache     == <<day, rows, handler, stores, hits, misses, kept>>

T == INSTANCE TokenTracker WITH phase <- copyPhase

U == INSTANCE Upstream

F == INSTANCE Adapters

B == INSTANCE Backoff WITH now <- clock, attempt <- try, until <- tryUntil, at <- tryAt

S == INSTANCE BreakerSync

D == INSTANCE Discovery WITH Instances <- Replicas, events <- keyEvents

W == INSTANCE SlidingWindow WITH
  MaxTime <- WindowTime, script <- windowScript, now <- redisClock, passed <- windowPassed

C == INSTANCE SemanticCache WITH MaxTime <- CacheTime, now <- day

-----------------------------------------------------------------------------
\* The parts that do not run have one initial state.
AnyOf(set) == CHOOSE x \in set : TRUE

\* The script of client.go, if it is one of them.
ForwardLogicScript == IF "allow" \in Scripts THEN "allow" ELSE AnyOf(Scripts)

TrafficInit ==
  /\ part \in {"messages", "limiter", "usage", "upstream", "adapter", "backoff", "breaker",
               "discovery", "window", "cache"}
  /\ Init /\ (part # "limiter" => script = ForwardLogicScript)
  /\ T!Init /\ (part # "usage" => flushes /\ stream = AnyOf(Streams))
  /\ U!Init /\ (part # "upstream" => caller = "review")
  /\ F!Init /\ (part # "adapter" => kind = AnyOf(Kinds) /\ body = AnyOf(Bodies))
  /\ B!Init
  /\ (part # "backoff" => /\ config = B!NewExponentialBackoff(AnyOf(Configs)) /\ jitter = "full"
                          /\ deadline = AnyOf(Deadlines) /\ timeout = AnyOf(Timeouts))
  /\ S!Init /\ D!Init /\ C!Init
  /\ W!Init /\ (part # "window" => windowScript = "allow")

TrafficNext ==
  \/ /\ \/ part = "messages" /\ Next
        \/ part = "limiter" /\ LimiterNext
     /\ UNCHANGED <<part, usage, upstream, adapter, backoff, breaker, discovery, window, cache>>
  \/ /\ part = "usage" /\ T!Next
     /\ UNCHANGED <<part, vars, upstream, adapter, backoff, breaker, discovery, window, cache>>
  \/ /\ part = "upstream" /\ U!Next
     /\ UNCHANGED <<part, vars, usage, adapter, backoff, breaker, discovery, window, cache>>
  \/ /\ part = "adapter" /\ F!Next
     /\ UNCHANGED <<part, vars, usage, upstream, backoff, breaker, discovery, window, cache>>
  \/ /\ part = "backoff" /\ B!Next
     /\ UNCHANGED <<part, vars, usage, upstream, adapter, breaker, discovery, window, cache>>
  \/ /\ part = "breaker" /\ S!Next
     /\ UNCHANGED <<part, vars, usage, upstream, adapter, backoff, discovery, window, cache>>
  \/ /\ part = "discovery" /\ D!Next
     /\ UNCHANGED <<part, vars, usage, upstream, adapter, backoff, breaker, window, cache>>
  \/ /\ part = "window" /\ W!Next
     /\ UNCHANGED <<part, vars, usage, upstream, adapter, backoff, breaker, discovery, cache>>
  \/ /\ part = "cache" /\ C!Next
     /\ UNCHANGED <<part, vars, usage, upstream, adapter, backoff, breaker, discovery, window>>

\* The fairness of Discovery.
TrafficSpec ==
  /\ TrafficInit
  /\ [][TrafficNext]_<<part, vars, usage, upstream, adapter, backoff, breaker, discovery, window, cache>>
  /\ WF_discovery(part = "discovery" /\ D!Watch)
  /\ \A lease \in D!Leases : WF_discovery(part = "discovery" /\ D!Expire(lease))

-----------------------------------------------------------------------------
\* The type invariant of the part that runs.
TypesOK ==
  /\ part \in {"messages", "limiter"} => TypeOK
  /\ part = "usage" => T!TypeOK
  /\ part = "upstream" => U!TypeOK
  /\ part = "breaker" => S!TypeOK
  /\ part = "discovery" => D!TypeOK
  /\ part = "window" => W!TypeOK
  /\ part = "cache" => C!TypeOK

\* The properties of the parts (those of Messages apart), as their modules state
\* them.
UsageAnyChunking == part = "usage" => T!UsageAnyChunking
WholeOrError == part = "upstream" => U!WholeOrError
ConversationIsKept == part = "adapter" => F!ConversationIsKept
WithinBudget == part = "backoff" => B!WithinBudget
AgreeWhenQuiet == part = "breaker" => S!AgreeWhenQuiet
ListFollowsInstances == part = "discovery" => D!ListFollowsInstances
WindowBound == part = "window" => W!WindowBound
EvictionUnseen == part = "cache" => C!EvictionUnseen
=============================================================================
