# A verification project for ragent-router

ragent-router is an AI gateway in Go: it accepts Anthropic-style
`POST /v1/messages` requests, chooses a provider (debug lock, semantic routing,
rules), and streams the provider's answer back through a stack of resilience
patterns. These modules model its control flow in TLA+, check it with TLC on
small instances, and prove the invariants that matter with TLAPS.

    tlasany M.tla                      parse
    tlc -workers 2 -config X.cfg M     model-check (the pairs are listed under "Runs")
    tlapm M.tla                        check the proofs of a *Proofs module
                                       (TrafficProofs: about 20 minutes)

## The system

| part | state it keeps | operations | talks to | module |
|---|---|---|---|---|
| gateway `services/proxy/proxy/handler.go` | provider table, one breaker per provider, debug lock, limiter, bulkhead | `ServeHTTP`, `handleRequest`, `doUpstreamRequest`, `SetDebugProvider` | all the parts below; dashboard | `Proxy`, `Upstream` |
| review and its bridge `shared/orchestrator`, `orchestrator_bridge.go` | per request | two upstream calls into one answer | gateway | `Upstream` |
| circuit breaker `shared/resilience/circuitbreaker` | state, ring of counters, window start, last failure, half-open allowance | `Call` (`allowRequest`, `fn`, `recordResult`), `listenStateSync` | Redis pub/sub when given a client | `CircuitBreaker`, `BreakerSpec`, `BreakerSync` |
| bulkhead, retry, timeout `shared/resilience/*` | a semaphore; nothing; nothing | `Execute`, `Do`, `Cascading` | gateway, forward service | `Proxy`, `Backoff` |
| token bucket and sharded store `ratelimit/` | tokens and last refill; 2048 shards of key -> bucket and last access | `Allow`, `Load`, `Store`, eviction loop | a library, the services do not call the store yet | `RateLimit` |
| Redis limiters `shared/redis/ratelimit.go`, `ratelimit/redis_store.go` | hashes and sorted sets in Redis | Lua scripts, fail open | forward service | `Messages`, `SlidingWindow` |
| router RPC service `routing/classifylogic.go` | a route cache in Redis | `Classify` | Redis | `Messages` |
| forward RPC service `proxy/forwardlogic.go` | a bucket per provider and a global one | `Forward` | Redis, upstreams, log stream | `Messages` |
| protocol adapters, token tracker | per request | rewriting of requests; usage scan of streams | gateway | `Adapters`, `TokenTracker` |
| semantic cache `shared/store/semantic_cache.go`, `semcache` | SQLite table of embedded prompts and answers | `Lookup`, `Store`, `Clear`, `EvictExpired` | gateway, dashboard | `SemanticCache`, `Proxy` |
| hybrid router `services/router/routing` | two lists of intents (with embeddings, for the classifier), the embedding cache | `Init`, `Match`, `Classify`, `ReloadIntents` | embedding and LLM services; the dashboard calls it through an interface, nothing in the repository constructs it | `HybridRouter` |
| request-log stream `shared/redis/streams.go`, `services/worker` | Redis stream, consumer group, pending list; MySQL | `PublishRequestLog`, consumer loop, `ClaimPendingMessages` | forward service, database | `LogStream`, `LogSpec` |
| distributed lock `shared/redis/lock.go` | a Redis key, a local flag, a watchdog goroutine | `Acquire`, `TryAcquire`, `Release`, `WithLock` | Redis | `RedisLock` |
| intents `shared/store/intent_store.go`, `api/dashboard/router.go` | SQLite table of a tree | CRUD, subtree deletion, seeding, reload of the router | hybrid router | `Dashboard` |
| reports `shared/store/{sqlite,mysql}.go`, `shared/model/log.go` | the request log | overview, distribution, trend, monitor | database | `Reports` |
| channels `shared/model/channel.go`, `services/provider/channel` | database rows, ability rows, in-memory snapshot | CRUD, `RefreshChannelCache`, `GetChannelForModel` | database | `Channels` |
| channel health check `healthchecklogic.go` | counters and status in Redis | `checkAll`, `checkOne` on a ticker | Redis, upstreams | `HealthCheck` |
| users and keys `shared/model/{user,token}.go`, `services/api/user` | database rows, sessions | registration, login, CRUD | database | `Accounts` |
| discovery `shared/discovery/etcd.go` | leases and keys in etcd, the watcher's list | `Register`, `Deregister`, `Discover`, `Watch` | etcd | `Discovery` |
| event bus, RocketMQ client, metrics, frontend, generated RPC code | - | see "Not modelled" | - | - |

What is hard in it: every request is a goroutine that drops locks and waits for
the network between looking at shared state and using it; breakers are told of
results long after they admitted the call; streams cannot be retried; clients
leave at any moment; several Redis protocols have no exactly-once step. The
full list, line by line, is `hazards` in PROJECT.json; what makes each
part correct is in the sections below.

## Modules

### BreakerSpec, CircuitBreaker

`BreakerSpec` is what a breaker promises: Closed, Open, HalfOpen, and how much
of the half-open allowance is used. It says nothing of windows, thresholds or
clocks. Its liveness (`WF(Verdict)`) says that a half-open period whose
allowance is used up ends.

`CircuitBreaker` is `breaker.go`. `Call` is two critical sections around the
upstream call, so each admission outcome of `allowRequest` is an action
(`AdmitClosed`, `Trip`, `StartProbing`, `RejectOpen`, `AdmitProbe`,
`RejectHalfOpen`) and so is each outcome of `recordResult` (`RecordFailure`,
`RecordSuccess`). Between them a call is in `running`, for as long as it likes.
`time.Now` appears only in the ages of `windowStart` and `lastFailureTime`,
hence in two counters that `Tick` advances. `slideWindow`, `currentBucket` and
`shouldTrip` are operators, translated as written. `probes` is a history
variable: the calls admitted in the half-open period that is going on.

### Proxy

The gateway. One request is one `pc`; a phase ends where the handler takes or
leaves a lock, or waits for the network:

    idle -> limited -> reading -> handling -> routed -> trying <-> upstream -> streaming -> logging -> done
                                     |  \-> review ------------------------------------------/
                                     \-> replaying (cache hit) ------------------------------/

The breakers are `BreakerSpec` machines, one per provider, restated inside the
module as `Admit`, `Refuse`, `RecordFailure` and `RecordSuccess`, and
`ImplementsBreakerSpec` says that they are that machine.
The conditions that are out of the gateway's hands (when a window's rate
crosses the threshold, when OpenTimeout is over, what the upstream answers,
which provider the router prefers, whether the cache recognises a prompt) are
choices. `Disconnect`, `SetDebugProvider` and `ClearCache` may happen between
any two steps. `Stall` is a client that stays connected but neither sends nor
takes any more: reading the body and writing an answer have no deadline, so its
handler is where it is until the client disconnects.

### RedisLock

`WithLock`: one lock instance per caller, one key. A Lua script is one step at
Redis (`Grant`, `Deny`, `Extend`, `Release`); learning of it is another (`Enter`,
`LoseGrant`) or may fail (`StopWatching`, `ReleaseFails`). The clock moves by
`Tick`, which ages the key, the watchdogs' tickers and the replies on their way;
it does not move past `MaxDelay` for a ticker or `ReplyTimeout` for a reply
(after go-redis's ReadTimeout the reply is an error). `Expiry` and `Interval` are
the code's roundings: whole seconds, and a third of the ttl.

### LogSpec, LogStream

`LogStream` follows a request-log entry from `PublishRequestLog` to its row.
Each worker is two goroutines over one handler (`<<w, "read">>`,
`<<w, "recover">>`); `work` is the slice its loop ranges over and `stage` what it
does with the first of it. Idle time is one bit per pending entry (`stale`).
The row's primary key is the entry's stream ID, so a second insert fails.
`List` takes the `ListCount` oldest idle entries, as XPENDING does (100 in the code).
`LogSpec` is the log as its reader sees it: entries are added, stored once each,
and stored some day unless trimmed. `ImplementsLogSpec` promises the last to an entry
with fewer than `ListCount` stuck ones before it; without that condition
(`AllAreStored`) it fails, see Findings.

### RateLimit

`tokenbucket.go` inside `sharded_store.go`. A caller loads its key's bucket and
asks it once; `Load` is `LoadHit` under the read lock, or `LoadMiss` (the builder
runs outside the locks) and then `Insert` under the write lock. `Allow` is one
critical section with three outcomes, `FastPath`, `SlowPath` and `Limit`, and the
arithmetic of the code. `Store` overwrites a bucket; the evictor takes a tick
(`ReceiveTick`, whose time may be behind) and visits the shards one by one
(`Evict`). Buckets are objects: callers keep one they loaded after it left the
store. `born`, `passed`, `burst` and `retired` are history variables.

### HybridRouter

`Match` and `Classify` are one `stage` per stretch of code between two looks at
shared state:

    look -> get -> [drop ->] embed -> rank -> classify -> asked -> done
                                       \-> panicked

Each stage may end the call or pass it on to the next layer. Match reads
`intents` twice (`Look`, `Rank`), Classify once; both read `classifyIntents`
before the classifier's call (`AskClassifier`) and search that copy after it. A
list of intents is a function from codes to provider names, which need not be
registered. `RuleProviders`, `NamedProviders` and `Score` stand for the texts of
rules and the vectors. `ReloadIntents` is `StartReload`, `Install` under the
lock, and the exchange of the caches, which holds none: `ReadCache`,
`SwapCache`, `StopOld`. `current` and `seen` are history: the list installed
last, and the lists that were so during a call.

### Messages

A request through the RPC services: the API's handler asks `ClassifyLogic` for a
provider and `ForwardLogic` limits, sends, retries and logs.

    classify [-> rules] -> provider -> global -> config -> call -> publish -> done

The route is looked up or chosen, the two buckets are asked one after the other,
the provider's address is read, and `call` repeats for each retry.

Every Redis command is a step, `RPCFails` and `LimitFailsOpen` are its failures.
The three versions of the token-bucket script (`Scripts`) differ in what they
keep: fractions, whole seconds, whose clock. Buckets count drops so that the
fractions stay integers; `Slack` is the rounding of the keys' EXPIRE. `now` is the
clock of the foremost caller, and any caller's may be up to `Skew` behind it at any
moment; nothing relates `Skew` to a second or to a bucket. `DatedBack` is
the time that such a caller gives a bucket twice, and `back` adds it up.
`LimiterSpec` is a limiter by itself, asked any number of times. The cached route
is keyed by `Key(p)`: in the code, the length of the prompt. `PublishLog` may
lose the log (`lost`), as XADD's failure is only reported.

### TokenTracker, Upstream, Adapters, Backoff

`TokenTracker` cuts a stream anywhere and compares the usage the tracker
ends up with to that of the same stream in one piece; its symbols are pieces of
lines, as the scanner looks for line ends and prefixes only; a data line that parses
has its numbers, perhaps without a total (`TrackerAssumption`).

`Upstream` follows one call's answer piece by piece: sent by the provider,
received by the transport (`readable`), copied to the client, for the gateway's
`doUpstreamRequest` and for the two phases of a review. The attempt's context
ends when the retried function returns; what was not readable by then is lost.

`Adapters` rewrites a conversation for the four kinds of provider; a block without
text has `None` for one (`AdapterAssumption`). `Backoff` is
`retry.Do` over a clock with the three jitters, under a caller's deadline and
`Cascading`'s deadline for each attempt.

### BreakerSync, Discovery

Several instances of a shared view. `BreakerSync` is the broadcast of breaker
states: a goroutine per change publishes it, a subscriber applies what it
reads, its own changes included. The channel is a log and each subscriber's place
in it (`next`), so delays and gaps are places and skipped messages. `Discovery` is
an instance's lease and key in etcd, kept alive until the process crashes or
the client loses it, and a watcher, which is started at any time, queries nothing
then, and queries all keys after each event. What it lists is one string
for each key, and always the same (`ExtractAddr`); `ListFollowsInstances` therefore
counts the list.

### SlidingWindow, SemanticCache

`SlidingWindow` has the two sorted-set scripts, with members that collide when
clock and random number agree, scores from clocks that are behind, and keys
that expire. `SemanticCache` has the table's rows; `Store` stamps its row before
the transaction that inserts and evicts, so rows may be inserted out of order.

### Dashboard, Reports

`Dashboard`: a handler creates, updates or deletes an intent and reloads the
router. Deleting collects a subtree round by round (`CollectChildren`) and then
deletes it in one statement; other handlers write in between. A reading that
breaks off is taken for a whole one (`CollectBreaksOff`). `CountRows` and
`SeedRow` seed an empty table row by row, and `Crash` may stop that.

The subtree under a row is the least set of codes that contains it and the
children of its members (`Under`).

`Reports`: a report is a sequence of statements (`Reports`, one entry per
function) without a transaction; rows are inserted and midnight passes between
them. `Lenient` is a report that ignores errors, the others stop at one.

### Accounts, Channels, HealthCheck

Three services whose handlers read rows and later write whole rows, commands or
snapshots back. `Accounts` keeps gorm's rules: soft deletion, and `Save` that
inserts when it updates nothing; a count of keys that fails is a 0, and the history
`uncounted` counts these. `Channels` is a table, the abilities derived from it and the
in-memory cache, without a transaction around the three. A channel's models are a
list in which a name may be repeated: abilities and cache have it as often.
Statements on the abilities may fail unseen (`FailUnseen`), those on the rows end
the operation (`Fail`).
`HealthCheck` is one channel with overlapping probes; its counters are compared
by the length of their decimal text, as in the code.

### Traffic, Console and the MC modules

`Traffic` (data plane) and `Console` (management plane) put small modules that
share no state into one specification each: `part` says which of them
runs, the others stay in one initial state, so that the state space is the sum
of the parts'. Their properties say `part = ...` and the module's own property,
and their `ASSUME`s collect what the parts ask of the constants. The `MC` modules
give constants their values. `CHECK_DEADLOCK FALSE` is there because each part
stops at its bounds.

## Runs

| run | instance | shows |
|---|---|---|
| `breaker` | 3 callers, 3 buckets of 1 tick, OpenTimeout 4, allowance 2, threshold 1/2, 5 results | a half-open period is neither too generous nor stuck (`HalfOpenSound`), forgiveness after a quiet window, recovery, refinement of `BreakerSpec` with liveness |
| `breaker_window` | the same, allowance 1 | `TripNeedsRecentFailure` fails: see Findings |
| `gateway` | 3 requests with one prompt, 1 provider, 2 slots, limiter burst 1, 1 retry | slots, logs, cache contents, finality of streams; every request ends unless a silent client holds its handler; the breaker implements `BreakerSpec`, through a trip and a probe, and decides unless a silent client holds a stream |
| `redislock` | 2 callers, ttl of 3.5 s rounded to 3 s, ticker period 2 of 6 ticks, delays of 1, 2 retries | a watched lock is held; orphans expire; Acquire returns |
| `logstream` | 2 workers, 2 entries, stream of 1, batches of 2, listings of 1, 2 faults | nothing acknowledged is missing; refinement of `LogSpec`, with liveness for entries that are not behind a listing full of stuck ones |
| `logstream_stuck` | 1 worker | `PendingIsDrained` fails: see Findings |
| `ratelimit` | 1 key, 2 callers, 3 bucket objects, capacity 2, a token every 2 ticks, TTL 2, 6 ticks | rate and burst are bounded (`FlowBound`); callers share one bucket per key, not evicted within TTL (`BucketsKept`) |
| `router` | 1 client, 2 reloaders and reloads, 3 lists (one empty), 4 prompts, cache of 1 entry; with all layers and with keywords only | Match answers unless the list was empty meanwhile; answers come from lists current during the call; the cache in use runs and keeps its limit |
| `router_empty` | the same | `MatchAlwaysAnswers` fails: see Findings |
| `traffic` | see below | limits hold over Redis, whatever the clocks (`LimiterBound`, `UpstreamBound`, `WindowBound`); usage does not depend on the cutting of a stream; an answer is whole or an error; turns survive translation; retries keep to their budget; breakers agree when all is quiet, and a watcher lists as many as there are; evicted answers are not missed |
| `stream_cut` | a call of 2 pieces, no retry | `CutOnlyByPeers` fails: see Findings |
| `console` | see below | a subtree that nobody touched and whose readings were whole goes as a whole, and deletion ends unless the tree is cyclic; no intent is hidden outside cycles; roles were granted; the limit on keys, and by how much races and failed counts may pass it; after a change alone, none of whose statements failed, rows, abilities and cache agree; a channel's status follows its upstream; the parts of a report fit into its wholes |

The parts of `traffic`: *messages* 2 requests, 2 prompts of one length, 2 providers,
a bucket of 3 drops, a request that costs 2, clocks 2 behind with a second of 1, 1
retry, 2 ticks, the script the service runs; *limiter* each of the 3 scripts, the same
bucket and clocks, 15 ticks, asked any number of times until it was dated back by more
than 6; *usage* every sequence of three of five texts, cut anywhere; *upstream*
2 pieces, 1 retry, both callers, a name found exactly, in part, not at all;
*adapter* 4 kinds, every conversation of one or three turns of four shapes;
*backoff* a configuration of its own and the defaults, 3 deadlines, 2 timeouts;
*breaker* 3 instances, 3 changes; *discovery* 2 instances, 3 starts, 2 faults;
*window* a window of 4, a rate of 2, 5 requests, clocks 2 behind, 5 ticks; *cache* 2 rows, 4
stores, 2 handlers. The parts of `console`: *dashboard* 3 intents in a chain, 2
writes, 1 crash; *accounts* 2 users, 3 keys, limit 1, 3 requests; *channels* 1
channel, 1 model named up to twice, 3 operations; *health* thresholds of 2 digits in base 2, 1
fault; *reports* 3 days, the last of which begins a month, 2 rows. Handlers come
in twos.

Bounds. `MaxRecorded` stops the breaker's callers once five results are counted or
on their way: enough for a trip, a half-open period with its whole allowance, a
recovery and a late answer from before. Three buckets are the smallest ring
in which "the next bucket" and "the previous one" differ. Ages stop where no
comparison tells them apart (`Aged`, `WindowAged`). In the gateway two slots
for three requests fill the bulkhead and a burst of one empties the limiter; one
provider makes all requests meet in one breaker, and isolation between
providers is proved. The requests are alike, so that `AnyRequestEnds`, about one
of them, is about all.

The lock's ttl is not a whole number of seconds and not a multiple of the
ticker's period, so both roundings show; two callers are an owner and a
competitor, whose parts may change after an expiry. Two entries and a stream
trimmed to one make an entry vanish before, during and after its handling; two
faults are a lost row reply after a crash, or the other way round.

Keys of the limiter store share nothing but the evictor's round, so one key is
enough; three buckets are one per caller and one in the store. In six ticks an
entry is inserted, expires and is made again, and a pause is long enough to
pay for more than the capacity. The run's view leaves out the fields of
buckets nobody can reach, which nothing reads any more.

Clients of the router share only the lists, which they do not write, and the
cache, each access to which is a locked section; one client with expiry and
eviction at any moment meets what another would do to it, and the
proofs are for any number. Two reloads are what a race for the exchange of the
caches needs, and three caches are all that two reloads can make. The lists
contain an intent whose provider moves to a disabled one and an intent with a
provider nobody registered; the default provider is disabled, so the fallback
has to look further.

In the part *limiter* a key lives 4, 6 or 13 ticks after its last use, depending on
the script, so within 15 it is spent, refills, expires and is made again with
each; a caller that is behind sets the bucket back and the next one is
paid the same time again, several times in a row. The requests of *messages* need no
such length, since what they meet of a limiter is a grant or a refusal. Three of the five texts put usage before, after and beside each other and a
message's end between them; a review's two calls can both be cut; three
instances of a breaker are a sender, a receiver and one that missed a
message; three starts are an instance, its successor and the same instance
again, while the keys of the first live on; four stores overfill two rows twice.
In `console`, a chain of three is the smallest tree whose deletion takes two
rounds, with a writer between them; two handlers are a reader and a writer of
the same row; three keys over a limit of one show that the excess is bounded by
the handlers, not by the keys.

Fairness. Breaker: time passes, an admitted call returns (every attempt has
`UpstreamTimeout`), and calls keep coming; nothing is assumed about what they
return. Gateway: a handler goroutine that can go on does (`WF(Handle(r))`):
its upstream calls have `UpstreamTimeout`, embedding and routing calls their
client's. `io.ReadAll(r.Body)` (handler.go:252) and the writes to the client have
nothing of the kind (`RequestTimeout` bounds the wait for a slot only), so `Handle` is
disabled while the client is silent, and `AnyRequestEnds` promises no more than
that every handler ends or waits for such a client. Clients and the dashboard owe
nothing, and the limiter may refuse for ever. Lock:
time passes, and goroutines and the client library answer in the end; `fn` may
stay inside for ever. Log stream: workers run on and idle time passes; faults are
bounded by `MaxFaults`, which is what makes "the database answers some day" true.
Dashboard: a handler's next statement and the seeding run; requests need not
come. Health check: the ticker fires and a probe's next command runs, as
both have timeouts. Discovery: leases that nobody renews run out and etcd's
events reach the watcher; instances owe nothing.

## Findings

Each of these is a run of its own:

* `breaker_window`. `slideWindow` computes the bucket to clear from the old
  `windowStart`. With a call in every bucket it always clears the same index and
  never the one with the old failures, so a trip can follow failures older
  than the window; README.md:145 promises a sliding window.
* `logstream_stuck`. A redelivered entry whose row is already there fails on the
  primary key every time and is never acknowledged; README.md:238 promises
  idempotent consumption and dead letters.
* `router_empty`. Match asks under one lock whether there are intents and reads
  them under another after the embedding call. If the last intent is deleted in
  between, `matches[0]` (hybrid_engine.go:556) panics, where lines 15 and 18 of
  that file promise an answer in all cases. `MatchAnswers` in `router` shows
  that this is the only way to lose the answer.
* `stream_cut`. The retried function derives the attempt's context and cancels
  it by `defer` when it returns, before the body is copied (handler.go:472 and
  527; orchestrator_bridge.go:56-58). A body that had not arrived by then is cut,
  though client and provider are there; handler.go:436 promises the copying of
  the stream. `WholeOrError` in `traffic` is what does hold: a cut answer is
  not taken for a whole one.

Definitions without a run (to see the trace, check them instead of the run's
properties):

* `AllAreStored` (LogStream): `ClaimPendingMessages` lists the 100 oldest idle entries
  (streams.go:194-201). Those of `logstream_stuck` never leave the list, so with 100 of
  them whatever became pending later is never taken over.
* `ProbesDecide` (CircuitBreaker): `recordResult` does not know which state
  admitted the call it records. A success from before the trip closes a
  half-open breaker whose probe is still out.
* `WithinRequestTimeout` (Proxy): attempts take their deadline from
  `r.Context()` and not from the request's; 3 x 120 s against 300 s.
* `RoutedByRule` (Messages): the cached route is keyed by the length of the
  prompt, so a prompt gets the route of another of that length
  (classifylogic.go:117-123).
* `RouterFollowsTable` (Dashboard): reloads after two changes race; the one that
  read first may install last (dashboard/router.go:540, 565, 572).
* `AddressesAreRegistered` (Discovery): `extractAddr` (etcd.go:173) compares seven
  bytes with the eight of `"addr":"`, never finds them and returns what is before
  the first quotation mark: every entry of the list is `{`.

Seen while modelling, without a definition:

* `collectSubtreeCodes` does not ask `rows.Err()` (intent_store.go:273-282): if the reading
  of a level breaks off, the part of the subtree found so far is deleted, the rest
  stays as orphans, and the client is told of a success. `UntouchedSubtreeGoes` excepts
  what was below such a reading.
* `CreateToken` ignores the error of its count (token.go:75-77), so each failed count lets one
  more key pass the limit; `TokenLimit` has a term for them.
* A model named twice in a channel's list (channel.go:118-131, 155-158) gets two
  abilities and the channel twice its weight in the cache. The DELETE of the old
  abilities may fail unseen (105, 112), which leaves them beside the new ones or
  without a channel.
* An answered request's log is lost if XADD fails or takes more than 100 ms
  (forwardlogic.go:203-217).
* A watcher that is started after the instances lists none of them until one of their
  keys changes (etcd.go:155-171).
* A user's row saved late brings back a role taken away meanwhile (user.go:166, 223);
  `RolesWereGranted` says only that somebody once granted it.
* Two reloads of the router may read the same `oldCache`, and the second `Stop`
  panics on the closed channel; `CacheSound` is what holds of that race.
* `BurstBound` is tight: a bucket that has been full for long passes twice its
  capacity at one instant, because the fast path leaves `lastRefill` behind;
  tokenbucket.go:54 calls the capacity the largest burst.
* An entry of the limiter store in constant use is evicted all the same after
  TTL, since `Load` does not renew `lastAccess`; sharded_store.go:104 speaks of
  entries not accessed for TTL.
* `ValidateToken` (model/token.go:85-97) hashes the key's first segment without
  its "sk-", `CreateToken` (67-75) stored the hash of the whole key: no key
  validates. Hence `TokenAuth` is left out of `Accounts`.
* `EvictExpired` (semantic_cache.go) has no callers, though semcache/service.go:20
  speaks of a TTL of 24 hours: only `maxEntries` limits an answer's age.
* `checkOne` compares counters by the length of their text, so a threshold of 3
  is reached at 100; and failures do not reset the count of recoveries.
* The decorrelated jitter is drawn from [0, 3 prev], not from [prev, 3 cap] as its
  comment says, and prev is computed, not remembered (backoff.go:155-162). The review's prompt (review.go:54) does not contain the generated
  code. The Gemini adapter drops the system prompt and Baidu's sends no key.
* A forward that fails is not logged; without a Redis client there is no limit
  (client.go:31-34); a fallback after a failed read of the rules is cached
  (classifylogic.go:79).
* `today_requests` of the monitor page may exceed `total_requests`, as two
  functions compute them, and the shares of the API's distribution 100 % (log.go:131).
  `PartsWithinWholes` is about the pairs whose order makes them safe.
* Members of the first sliding-window script are equal if clock and random number are:
  two requests then count as one. `WindowBound` allows for it.

## Proofs

The modules named `*Proofs` prove, for any sets of callers, requests, providers
and workers and any parameters the assumptions allow, type correctness and the
invariants and action properties of breaker, gateway, lock, log stream, limiter
and router, of all parts of the console and of the traffic.
What the runs check as one property is often proved in parts, which are theorems of their own: `HalfOpenSound` (`HalfOpenIsSound`) is
`ProbeBound` and `NeverWedged`; `FlowBound` (`FlowIsBounded`) is
`RateBound` and `BurstBound`; `BucketsKept` (`BucketsAreKept`) is `HeldIsShared` and
`SurvivesTTL`; `CacheSound` (`CacheIsSound`) is `CacheBound` and `CacheInUseRuns`.
`OpenShedsLoad`, `FaultIsolation`, `OnlyOwnerReleases`, `WatchdogEndsWithFn` and
`LoggedIfAnswered` are theorems only.

*Breaker.* `TypeOK /\ ProbeBound /\ NeverWedged` is inductive. `ProbeBound`
carries the proof: the history `probes` is counted by `halfOpenReqs`, so the
allowance cannot be overrun; `NeverWedged` needs it in the step where the last
probe reports, because a closing or reopening transition empties the history
together with the counter. The refinement is then a case split: each action is
one abstract action or a stutter. `StaleWindowIsCleared` is the arithmetic at
the heart of `QuietWindowForgives`: modulo the ring size, the indices cleared
by a slide of a whole window are all of them. The rest is that sums over a cleared
ring are 0: what a fold yields for a set when it yields it for the set less an
element, it yields for every finite set (`SameForAll`, over the well-founded
inclusion of finite sets).

*Gateway.* The common strengthening is `Progress`: it ties a request's phase to
its fields (an attempt was counted iff it went upstream, a status was sent iff
it is streaming or past it, nothing is logged before the end). `SlotsBalance`
adds the set of requests inside, whose cardinality each step changes by at most
one; `FaultIsolation` adds that `faulty` providers have a failed request.

*Lock.* The invariant is a lease: for a caller whose ticker runs,
`ttl + timer[c] + ReplyTimeout >= Expiry`, so the key cannot run out before the
ticker's deadline as long as `Interval + MaxDelay + ReplyTimeout < Expiry`
(`TimelyAssumption`). `WatchedAlone` is the mutual exclusion that follows. It
says nothing of a caller that lost its watchdog: `fn` is not told.

*Log stream.* What a goroutine holds was delivered (`Handed`), and what it is
about to acknowledge has its row (`Acking`); the lemma `ReadsWithoutGaps` says
that a batch passes over no entry the stream still has. From them follow
`AckedIsStored` and the safety part of the refinement.

*Rate limiting.* `Paid` is the ledger: what a bucket let through and still holds,
less its capacity, is paid for by whole intervals up to `lastRefill`; the lemmas
`Quotient`, `Pay` and `Cheaper` are the arithmetic of a refill, and `WithinRate`
follows as `lastRefill` never overtakes the clock. `Bursting` says that a bucket
refilled at this instant owes less than an interval, so it cannot be refilled
again before time passes. `Private` says that a bucket being inserted is its
builder's alone; with it `HeldIsShared` is inductive.

*Router.* `ClientInv` says of a running call that it has seen the current list
and a list that contains all it has read; since `MakeCurrent` adds the new list
to every running call, a step of one client or one reload keeps it, and both
`MatchAnswers` and `AnsweredByLiveList` are its last conjuncts. A warm-up that
failed leaves part of the first list, hence `Part` and not equality; that no
call runs before it is `BeforeReady`. `CacheInv` says that what a reload is
about to stop has been replaced already. `KeptFacts` counts what `Set` leaves.

*Services.* `LimitersBound`: a request's spending is paid by what a bucket
held and what flowed in since. The ledger relates a bucket's drops, the time of its
record and the drops let through; what a caller that is behind dates back goes to
`back`, however far that is. A key that expires has not been used for at least the
time that fills a bucket (`LongLife`), so the bucket that replaces it adds
nothing. Every script keeps the ledger, in the service (`Spec`) and in a limiter by
itself (`LimiterSpec`). `AnsweredAreLogged` follows a request's stage: an answered one
is in front of its log or past it, and past it the log was published once or lost.

*Broadcast.* The yardstick is a breaker that only listens, as a function `q` of the
length of the log; the invariant says that there is such a `q`, which avoids
a recursive definition. An instance that missed nothing is where `q` is at its
place in the log, unless something it has to send or to receive will decide, or
it is half-open on its own account where `q` is open and the message about it
is on its way (`Follows`). At rest nothing is on its way, hence `AgreeWhenQuiet`.

*Upstream's bound* (`Messages`). `Through(l)` are the requests that have passed limiter
l and may be sent or were, `Attempts(l)` their attempts one by one, as pairs. No
sum is needed: a step adds at most one element to either set, `passed` and `open`
pay for the first and `calls` counts the second, and the pairs lie in the product
of the first with `1..(MaxRetries + 1)`.

*Answers of a review.* What the client was sent is, event by event, the beginning of
`Whole` that the phase and the copied pieces say (`Begins`), and at the end all of
it or a beginning and an error (`BreaksOff`).

*Backoff.* The time spent is at most a timeout for each attempt that has failed and the
largest delay for each retry (`Budget`); each of the three jitters draws a delay of
at most the largest, whatever the exponent.

*Window.* Requests let through within `Window - Skew` have members of their own in
the set, scored no earlier than `Skew` before; `merged` others do not (`Represented`).
The scripts remove no member of these, and the key outlives them, so as a
request passes, the room in the set is room in the window.

*Cache.* Either nothing was evicted, or `MaxEntries` rows of the table are as
new as every row that is gone (`Newer`); those are the rows that a lookup selects
from.

*Discovery.* Its type invariant only; its property is liveness.

*Adapters.* `Keeps(a, s)` says that s is the sequence of all of a's members but None, by
place and number; it holds of an empty conversation, of one more member
(`KeptOn`) and of two conversations put together (`KeptJoined`). The three folds, over
blocks, over messages and over turns, are followed member by member. Induction
comes as the lemmas `AllNumbers` and `AllUpTo`, from the inclusion of the sets `1..k`;
`Recursion` and `FoldExists` give the function that a fold chooses, so that its
equation holds. `FormatsTranslate` shows that each of the four formats is the
conversation's turns, perhaps after one for the system prompt.

*Tracker.* What the parser is after some chunks, it is after their concatenation as one
chunk (`ScanTwice`: the rest of the line that was kept is read again, with what
follows), so until the end it is what one scan of all that was passed on
leaves (`TrackerInv`), and the end adds one or two lines to it (`UsageOfRead`). Line by
line, `TrackerSound` relates the parser to the text read so far as the property reads
it: the data kept back is the text of the event under way, the type is that of its last
event line, and the usage is the largest of what the events that ended say. `SoundNext`
has a case for each kind of line. Lines and symbols are followed with the induction of
the adapters; `TrackerAssumption` says what streams are made of.

*Console.* `TokenLimit`: the keys a user has or a handler is about to write back, and
the handlers about to insert one, are together no more than the limit, all
handlers but one, and the user's failed counts (`KeysCounted`). `RolesWereGranted`: a role in a row that
was read earlier was granted too (`RolesHeld`). `UntouchedSubtreeGoes`: all that is
due is collected or under the queue (`Searching`; `UnderRound` is one round of the
search, and `UnderUnion` separates what a broken reading leaves out). `HiddenOnlyInCycles` is a fact about every table, for a finite set of
codes: of the hidden rows above a row take the one with the largest
subtree (`LargestSubtree`); its parent is hidden, too, and has no larger one, so it
is under its own children. `SequentialAgreement`: `Progress` says what an operation that
runs alone has brought together at each of its stages: while it fills, the
abilities are the list less what is left of it. `PartsWithinWholes`: rows are only added, so an
answer read earlier is at most what its statement would select now
(`AnswersBounded`); the table of reports is shown to ask for parts before their
wholes, with one reading of the clock (`Orderly`).

Assumed: the `ASSUME`s of the modules. Most are ranges of parameters: positive
capacities and durations, as the constructors' defaults and the callers' literals make
them (the code checks few of them), and markers such as `None` that are no ordinary values. `Cost <= Full` says that a bucket
has room for a request. The bounds of the model (`MaxTime`, `MaxOps` and so on,
and `Skew <= WindowTime`, which lets the clock start at `Skew`) are numbers and may be
any. Two are about the environment, and no code enforces them: for the lock that
delays are short against its ttl (`TimelyAssumption`), and for the tracker and
the adapters what streams and conversations are made of. How far clocks differ is
not assumed.

Model-checked only: liveness (`OpenEventuallyProbes`, `AnyRequestEnds`,
`OrphanExpires`, `AcquireReturns`, `StatusFollowsUpstream`, `ListFollowsInstances`,
`DeleteEndsUnlessCyclic`, and the liveness parts of the refinements), which is out
of the prover's reach.

## Not modelled

Gateway: a panic inside `fn` (Call has no defer, so a half-open
allowance would be lost), `AddProvider` / `RemoveProvider` (no callers; they
write the provider map without a lock), the method check, the 502 of an empty
table, failures to build an `http.Request`, a `ResponseWriter` that cannot
flush. In `Proxy` whether a stream survives its cancelled context is a choice
(`BreakStream`); `Upstream` has the mechanism. No caller gives the breaker the Redis
client that `BreakerSync` needs.

Log stream: a worker built without a database (`w.mysql == nil`,
logconsumer.go:141-145), which acknowledges every entry and stores none; the workers
of `LogStream` have one.

Router: hit counters, `AddRule` / `RemoveRule` (no callers). Limiters:
`MultiDimensionRateLimiter`, which only names keys, `Load` and `Store` of `RedisStore`,
which keep nothing in Redis, `Close` and the statistics. Adapters: `CustomAdapter`
and `Register` (no callers), URLs, headers and parameters. Accounts: `TokenAuth`
(see above), quotas, which nothing consumes, listing. Channels: the weighted choice
is any choice. Reports: `RecentRoutes` and model performance, single statements
whose result nothing compares. API: the Distributor, which is not mounted on a
route.

Whole parts: the event bus (nobody subscribes; a handler registered for a channel
twice runs twice), the RocketMQ client (no callers; what it promises is the
broker's), Elasticsearch (a copy under the same document ID, never waited for),
metrics and tracing (written, not read), generated code, the frontend and
deployment. Text processing (prompts, matching scores) and rendering are left
out throughout, as is the database's own concurrency: a statement is one step.

## Plan

Done: breaker and gateway, lock, log stream, limiter store, hybrid router and RPC
services with their proofs; health check, channels, accounts, intents and reports;
broadcast breakers, discovery, semantic cache, Redis windows, tracker, adapters,
backoff and the copying of answers.
