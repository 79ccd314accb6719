----------------------------- MODULE RateLimit -----------------------------
(***************************************************************************)
(* Per-key rate limiting inside one process: token buckets                 *)
(* (tokenbucket.go) kept in a ShardedStore (sharded_store.go).  A caller   *)
(* loads the bucket of its key, which Load creates on a miss between two   *)
(* locked sections, and asks it for a token.  Meanwhile Store replaces     *)
(* buckets and the evictor scans shard by shard for old entries, by the    *)
(* time of a tick that may be behind.                                      *)
(*                                                                         *)
(* A shard is locked for one key at a time, so each key is a shard of its  *)
(* own.  A bucket nobody can reach any more may be the next one created.   *)
(* Close only stops the evictor, which is never obliged to run.            *)
(***************************************************************************)
EXTENDS Integers

CONSTANTS
  Keys,          \* what is limited
  Callers,       \* goroutines
  Buckets,       \* TokenBucket objects
  NoKey, NoBucket,
  Capacity,      \* TokenBucket.capacity
  FillInterval,  \* TokenBucket.fillInterval
  TTL,           \* ttl of NewShardedStore
  MaxTime        \* bound: the clock

ASSUME RateLimitAssumption ==
  /\ Capacity \in Nat \ {0}
  /\ FillInterval \in Nat \ {0}
  /\ TTL \in Nat \ {0, 1}
  /\ MaxTime \in Nat
  /\ NoKey \notin Keys
  /\ NoBucket \notin Buckets

VARIABLES
  now,         \* the monotonic clock
  data,        \* the shards' data: the bucket of a key
  lastAccess,  \* the shards' lastAccess
  tokens,      \* TokenBucket.tokens
  lastRefill,  \* TokenBucket.lastRefill
  stage,       \* what a caller does next: nothing, insert its bucket, Allow
  key,         \* the key it was called with
  mine,        \* newVal, then the bucket Load returned
  nextTick,    \* the tick in the ticker's channel, or the next to come
  tickTime,    \* now of evictLoop
  scan,        \* the shards its loop has still to visit
  born,        \* history: when a bucket was created
  passed,      \* history: requests it has let through
  burst,       \* history: those of them at the present instant
  retired      \* history: buckets evicted from the store or replaced in it

storeVars == <<data, lastAccess, retired>>
bucketVars == <<tokens, lastRefill, born, passed, burst>>
callerVars == <<stage, key, mine>>
evictVars == <<nextTick, tickTime, scan>>
vars == <<now, storeVars, bucketVars, callerVars, evictVars>>

----------------------------------------------------------------------------
\* TokenBucket

Unreachable(b) == (\A k \in Keys : data[k] # b) /\ (\A c \in Callers : mine[c] # b)

\* The builder: NewTokenBucket makes a full bucket.
Build(b) ==
  /\ Unreachable(b)
  /\ tokens' = [tokens EXCEPT ![b] = Capacity]
  /\ lastRefill' = [lastRefill EXCEPT ![b] = now]
  /\ born' = [born EXCEPT ![b] = now]
  /\ passed' = [passed EXCEPT ![b] = 0]
  /\ burst' = [burst EXCEPT ![b] = 0]

\* (Variant with a fault: part of a FillInterval counts as a whole one.)
TokensToAddRoundedUp(b) == (now - lastRefill[b] + FillInterval - 1) \div FillInterval
TokensToAdd(b) == (now - lastRefill[b]) \div FillInterval
Capped(n) == IF n > Capacity THEN Capacity ELSE n

Pass(b) ==
  /\ passed' = [passed EXCEPT ![b] = @ + 1]
  /\ burst' = [burst EXCEPT ![b] = @ + 1]
  /\ UNCHANGED born

FastPath(b) ==
  /\ tokens[b] > 0
  /\ tokens' = [tokens EXCEPT ![b] = @ - 1]
  /\ Pass(b)
  /\ UNCHANGED lastRefill

\* (Variant with a fault: the time stamp is moved after the cap.)
SlowPathCappedFirst(b) ==
  /\ tokens[b] = 0
  /\ TokensToAdd(b) # 0
  /\ lastRefill' =
       [lastRefill EXCEPT ![b] = @ + Capped(TokensToAdd(b)) * FillInterval]
  /\ tokens' = [tokens EXCEPT ![b] = Capped(TokensToAdd(b)) - 1]
  /\ Pass(b)

\* (Variant with a fault: the request is let through for nothing.)
SlowPathForFree(b) ==
  /\ tokens[b] = 0
  /\ TokensToAdd(b) # 0
  /\ lastRefill' = [lastRefill EXCEPT ![b] = @ + TokensToAdd(b) * FillInterval]
  /\ tokens' = [tokens EXCEPT ![b] = Capped(TokensToAdd(b))]
  /\ Pass(b)

SlowPath(b) ==
  /\ tokens[b] = 0
  /\ TokensToAdd(b) # 0
  /\ lastRefill' = [lastRefill EXCEPT ![b] = @ + TokensToAdd(b) * FillInterval]
  /\ tokens' = [tokens EXCEPT ![b] = Capped(TokensToAdd(b)) - 1]
  /\ Pass(b)

Limit(b) ==
  /\ tokens[b] = 0
  /\ TokensToAdd(b) = 0
  /\ UNCHANGED bucketVars

----------------------------------------------------------------------------
\* ShardedStore

Put(k, b) ==
  /\ data' = [data EXCEPT ![k] = b]
  /\ lastAccess' = [lastAccess EXCEPT ![k] = now]

Hand(c, to, k, b) ==
  /\ stage' = [stage EXCEPT ![c] = to]
  /\ key' = [key EXCEPT ![c] = k]
  /\ mine' = [mine EXCEPT ![c] = b]

\* Load's first look, under the read lock.
LoadHit(c, k) ==
  /\ stage[c] = "idle"
  /\ data[k] # NoBucket
  /\ Hand(c, "allow", k, data[k])
  /\ UNCHANGED <<now, storeVars, bucketVars, evictVars>>

\* Nothing there: a bucket is built outside the lock.
LoadMiss(c, k) ==
  /\ stage[c] = "idle"
  /\ data[k] = NoBucket
  /\ \E b \in Buckets :
       /\ Build(b)
       /\ Hand(c, "insert", k, b)
       /\ retired' = retired \ {b}
  /\ UNCHANGED <<now, data, lastAccess, evictVars>>

\* Load's second look, under the write lock.
\* (Variant with a fault: there is no second look.)
InsertUnchecked(c) ==
  /\ stage[c] = "insert"
  /\ Put(key[c], mine[c])
  /\ Hand(c, "allow", key[c], mine[c])
  /\ UNCHANGED <<now, retired, bucketVars, evictVars>>

Insert(c) ==
  LET k == key[c]
  IN  /\ stage[c] = "insert"
      /\ \/ /\ data[k] # NoBucket
            /\ Hand(c, "allow", k, data[k])
            /\ UNCHANGED storeVars
         \/ /\ data[k] = NoBucket
            /\ Put(k, mine[c])
            /\ Hand(c, "allow", k, mine[c])
            /\ UNCHANGED retired
      /\ UNCHANGED <<now, bucketVars, evictVars>>

Allow(c) ==
  /\ stage[c] = "allow"
  /\ FastPath(mine[c]) \/ SlowPath(mine[c]) \/ Limit(mine[c])
  /\ Hand(c, "idle", NoKey, NoBucket)
  /\ UNCHANGED <<now, storeVars, evictVars>>

\* Store with a new bucket, as when a limit is changed.
\* (Variant with a fault: the entry keeps its age.)
StoreKeepsAge(k) ==
  /\ \E b \in Buckets :
       /\ Build(b)
       /\ data' = [data EXCEPT ![k] = b]
       /\ retired' = (retired \union {data[k]}) \ {b, NoBucket}
  /\ UNCHANGED <<now, lastAccess, callerVars, evictVars>>

Store(k) ==
  /\ \E b \in Buckets :
       /\ Build(b)
       /\ Put(k, b)
       /\ retired' = (retired \union {data[k]}) \ {b, NoBucket}
  /\ UNCHANGED <<now, callerVars, evictVars>>

----------------------------------------------------------------------------
\* evictLoop, with a ticker of TTL / 2 that drops ticks nobody receives.

Period == TTL \div 2

ReceiveTick ==
  /\ scan = {}
  /\ nextTick <= now
  /\ tickTime' = nextTick
  /\ nextTick' = (now \div Period + 1) * Period
  /\ scan' = Keys
  /\ UNCHANGED <<now, storeVars, bucketVars, callerVars>>

Expired(k) == data[k] # NoBucket /\ tickTime - lastAccess[k] > TTL

Evict(k) ==
  /\ k \in scan
  /\ scan' = scan \ {k}
  /\ \/ /\ Expired(k)
        /\ data' = [data EXCEPT ![k] = NoBucket]
        /\ retired' = retired \union {data[k]}
        /\ UNCHANGED lastAccess
     \/ ~Expired(k) /\ UNCHANGED storeVars
  /\ UNCHANGED <<now, bucketVars, callerVars, nextTick, tickTime>>

Tick ==
  /\ now < MaxTime
  /\ now' = now + 1
  /\ burst' = [b \in Buckets |-> 0]
  /\ UNCHANGED <<storeVars, tokens, lastRefill, born, passed, callerVars, evictVars>>

----------------------------------------------------------------------------
Init ==
  /\ now = 0
  /\ data = [k \in Keys |-> NoBucket]
  /\ lastAccess = [k \in Keys |-> 0]
  /\ tokens = [b \in Buckets |-> Capacity]
  /\ lastRefill = [b \in Buckets |-> 0]
  /\ stage = [c \in Callers |-> "idle"]
  /\ key = [c \in Callers |-> NoKey]
  /\ mine = [c \in Callers |-> NoBucket]
  /\ nextTick = Period
  /\ tickTime = 0
  /\ scan = {}
  /\ born = [b \in Buckets |-> 0]
  /\ passed = [b \in Buckets |-> 0]
  /\ burst = [b \in Buckets |-> 0]
  /\ retired = {}

Load(c) == Insert(c) \/ \E k \in Keys : LoadHit(c, k) \/ LoadMiss(c, k)

Next ==
  \/ \E c \in Callers : Load(c) \/ Allow(c)
  \/ \E k \in Keys : Store(k) \/ Evict(k)
  \/ ReceiveTick
  \/ Tick

Spec == Init /\ [][Next]_vars

----------------------------------------------------------------------------
\* Properties

TypeOK ==
  /\ now \in 0 .. MaxTime
  /\ data \in [Keys -> Buckets \union {NoBucket}]
  /\ lastAccess \in [Keys -> 0 .. now]
  /\ tokens \in [Buckets -> 0 .. Capacity]
  /\ lastRefill \in [Buckets -> 0 .. now]
  /\ stage \in [Callers -> {"idle", "insert", "allow"}]
  /\ key \in [Callers -> Keys \union {NoKey}]
  /\ mine \in [Callers -> Buckets \union {NoBucket}]
  /\ nextTick \in Nat
  /\ tickTime \in 0 .. now
  /\ scan \in SUBSET Keys
  /\ born \in [Buckets -> 0 .. now]
  /\ passed \in [Buckets -> Nat]
  /\ burst \in [Buckets -> Nat]
  /\ retired \in SUBSET Buckets

\* Over its life a bucket lets through its capacity and one request per
\* FillInterval, however its requests are spread (tokenbucket.go:111-114).
RateBound ==
  \A b \in Buckets : (passed[b] - Capacity) * FillInterval <= now - born[b]

\* A burst is at most twice the capacity.  It can be more than the capacity,
\* which tokenbucket.go:54 gives as the limit: taking the tokens of a full
\* bucket leaves lastRefill behind, so that the time before them pays for as
\* many again.
BurstBound == \A b \in Buckets : burst[b] <= 2 * Capacity

\* What a bucket lets through, over its life and at once.
FlowBound == RateBound /\ BurstBound

\* What a caller is about to be counted by is the bucket of its key in the
\* store, so the same for all callers of the key, unless it was evicted or
\* replaced in the meantime (Load, sharded_store.go:138 and 160).
HeldIsShared ==
  \A c \in Callers :
    stage[c] = "allow" => mine[c] = data[key[c]] \/ mine[c] \in retired

\* A bucket is evicted no sooner than TTL after it was made, however late the
\* evictor runs (sharded_store.go:218).  Use does not make it last longer:
\* Load leaves lastAccess as it is.
EvictedLate ==
  \A k \in Keys : data[k] # NoBucket /\ data'[k] = NoBucket => now - born[data[k]] > TTL

SurvivesTTL == [][EvictedLate]_vars

\* Callers of a key share its bucket, and go on sharing it for as long as TTL says,
\* through racing Loads, Stores and late evictions.
BucketsKept == [][HeldIsShared' /\ EvictedLate]_vars
=============================================================================
