------------------------------ MODULE Messages ------------------------------
(***************************************************************************)
(* A /v1/messages request on its way through the services: the API's       *)
(* handler asks the router's ClassifyLogic for a provider, and the proxy's *)
(* ForwardLogic limits, sends, retries and logs the request.  Redis keeps  *)
(* the cached routes, the buckets and the providers' addresses, and any    *)
(* call to it may fail.                                                    *)
(*                                                                         *)
(* Buckets count drops: one drop flows in per tick, a bucket holds Full of *)
(* them (capacity / rate seconds' worth) and a request costs Cost, so that *)
(* the fractional tokens of the Lua scripts stay integers.                 *)
(***************************************************************************)
EXTENDS Integers, FiniteSets

CONSTANTS
  Requests,
  Prompts,
  PromptOf,     \* request -> its prompt
  Key(_),       \* prompt -> key of its cached route
  Providers,
  Matches,      \* prompt -> providers with a keyword in it
  Default,      \* provider for prompts without a match
  Builtin,      \* provider when not even the default can be read
  Configured,   \* providers whose address is in Redis
  Global,       \* the limiter shared by all providers
  None,
  Scripts,      \* which limiter scripts are checked (see script)
  Full, Cost,   \* a bucket's and a request's drops
  Skew,         \* how far a caller's clock may be behind the foremost one
  Slack,        \* ticks in a second
  MaxRetries,
  Faulty,       \* requests whose calls to Redis and RPCs may fail
  MaxTime,      \* bound on the clock
  LimiterTime, MaxBack   \* bounds on the clock and on back of a limiter by itself

Limiters == Providers \union {Global}

\* A limiter's hash: drops left, when they were refilled, when the key expires.
Hashes == [drops : Int, refill : Nat, until : Nat]

ASSUME MessagesAssumption ==
  /\ Full \in Nat \ {0} /\ Cost \in Nat \ {0} /\ Cost <= Full
  /\ Slack \in Nat /\ Skew \in Nat
  /\ MaxRetries \in Nat /\ Faulty \subseteq Requests /\ MaxTime \in Nat
  /\ LimiterTime \in Nat /\ MaxBack \in Nat
  /\ Global \notin Providers /\ None \notin Limiters \union Hashes
  /\ Scripts \subseteq {"allow", "bucket", "store"}
  /\ {Default, Builtin} \union Configured \subseteq Providers
  /\ PromptOf \in [Requests -> Prompts]
  /\ Matches \in [Prompts -> SUBSET Providers]

VARIABLES
  script,    \* "allow" is what ForwardLogic runs (shared/redis/client.go);
             \* "bucket" (ratelimit.go) and "store" (redis_store.go) are the
             \* library's other two, tried in its place
  now,       \* the foremost caller's clock; Redis counts the ticks of a key's life
  bucket,    \* limiter -> its hash in Redis, or None
  route,     \* key -> cached provider, or None
  req,       \* request -> how far it is
  passed,    \* history: limiter -> requests its script let through
  back,      \* history: limiter -> how far its buckets were dated back
  open,      \* history: limiter -> requests let through because Redis failed
  calls      \* history: limiter -> upstream calls of its requests

vars == <<script, now, bucket, route, req, passed, back, open, calls>>

-----------------------------------------------------------------------------
(* The limiters *)

Lesser(a, b) == IF a < b THEN a ELSE b

\* (Variant with a fault: a bucket is forgotten before it is full again.)
LifeOfASecond == Slack

\* How long a bucket outlives its last use.
Life ==
  CASE script = "allow"  -> Full + Slack
    [] script = "bucket" -> 2 * Full
    [] script = "store"  -> Full + 10 * Slack

\* What the script finds at the caller's time t.
Found(l, t) ==
  IF bucket[l] = None THEN [drops |-> Full, refill |-> t, until |-> 0] ELSE bucket[l]

\* Whole requests' worth of drops that have come in since the last refill.
WholeCosts(elapsed) == IF elapsed > 0 THEN elapsed - (elapsed % Cost) ELSE 0

\* allow never refills by a negative time, bucket does, and store refills by
\* whole tokens and moves last_refill by as much.
Inflow(b, t) ==
  CASE script = "allow"  -> IF t > b.refill THEN t - b.refill ELSE 0
    [] script = "bucket" -> t - b.refill
    [] script = "store"  -> WholeCosts(t - b.refill)

RefilledAt(b, t) == IF script = "store" THEN b.refill + Inflow(b, t) ELSE t

Level(b, t) == Lesser(Full, b.drops + Inflow(b, t))

Grants(l, t) == Level(Found(l, t), t) >= Cost

\* How far the script dates the bucket back: a new one to the caller's time, and
\* allow any to it.
DatedBack(l, t) ==
  CASE bucket[l] = None -> now - t
    [] bucket[l] # None /\ script = "allow" /\ t < bucket[l].refill -> bucket[l].refill - t
    [] OTHER -> 0

\* The script: both branches write the hash back and renew its expiry.
RunScript(l, t) ==
  LET b == Found(l, t)
      left == IF Grants(l, t) THEN Level(b, t) - Cost ELSE Level(b, t)
  IN  /\ bucket' = [bucket EXCEPT ![l] =
                      [drops |-> left, refill |-> RefilledAt(b, t), until |-> now + Life]]
      /\ back' = [back EXCEPT ![l] = @ + DatedBack(l, t)]
      /\ passed' = [passed EXCEPT ![l] = IF Grants(l, t) THEN @ + 1 ELSE @]

-----------------------------------------------------------------------------
(* A request *)

\* lost is a history: logs whose publication failed.
New == [at |-> "classify", provider |-> None, attempts |-> 0, status |-> None,
        log |-> 0, lost |-> 0]

Move(r, x) == req' = [req EXCEPT ![r] = x]
End(r, code) == Move(r, [req[r] EXCEPT !.at = "done", !.status = code])

limiter == <<bucket, passed, back, open>>

Cached(r) == route[Key(PromptOf[r])]

\* The cached route is taken whichever prompt it was stored for.
CacheHit(r) ==
  /\ req[r].at = "classify"
  /\ Cached(r) # None
  /\ Move(r, [req[r] EXCEPT !.at = "provider", !.provider = Cached(r)])
  /\ UNCHANGED <<script, now, route, limiter, calls>>

CacheMiss(r) ==
  /\ req[r].at = "classify"
  /\ Cached(r) = None \/ r \in Faulty
  /\ Move(r, [req[r] EXCEPT !.at = "rules"])
  /\ UNCHANGED <<script, now, route, limiter, calls>>

\* Any provider with a keyword in the prompt, in the order of a Go map; without
\* one, or without the rules, the default; without that, the built-in name.
Answers(r) ==
  LET found == Matches[PromptOf[r]]
  IN  IF r \in Faulty THEN found \union {Default, Builtin}
      ELSE IF found = {} THEN {Default} ELSE found

\* The answer, right or not, is cached.
Classify(r) ==
  /\ req[r].at = "rules"
  /\ \E p \in Answers(r) :
       /\ Move(r, [req[r] EXCEPT !.at = "provider", !.provider = p])
       /\ \/ route' = [route EXCEPT ![Key(PromptOf[r])] = p]
          \/ r \in Faulty /\ UNCHANGED route
  /\ UNCHANGED <<script, now, limiter, calls>>

\* One of the two RPCs fails; the proxy's work for it ends with its context.
RPCFails(r) ==
  /\ r \in Faulty
  /\ req[r].at \in {"classify", "provider"}
  /\ End(r, IF req[r].at = "classify" THEN 500 ELSE 502)
  /\ UNCHANGED <<script, now, route, limiter, calls>>

\* The provider's limiter is asked first, then the global one.
LimiterOf(r) == IF req[r].at = "provider" THEN req[r].provider ELSE Global
AfterLimiter(r) == IF req[r].at = "provider" THEN "global" ELSE "config"

Limit(r) ==
  /\ req[r].at \in {"provider", "global"}
  /\ \E t \in (now - Skew) .. now :
       /\ RunScript(LimiterOf(r), t)
       /\ IF Grants(LimiterOf(r), t)
          THEN Move(r, [req[r] EXCEPT !.at = AfterLimiter(r)])
          ELSE End(r, 429)
  /\ UNCHANGED <<script, now, route, open, calls>>

\* Redis does not answer: the request passes.
LimitFailsOpen(r) ==
  /\ r \in Faulty
  /\ req[r].at \in {"provider", "global"}
  /\ open' = [open EXCEPT ![LimiterOf(r)] = @ + 1]
  /\ Move(r, [req[r] EXCEPT !.at = AfterLimiter(r)])
  /\ UNCHANGED <<script, now, route, bucket, passed, back, calls>>

GetProviderInfo(r) ==
  /\ req[r].at = "config"
  /\ \/ /\ req[r].provider \in Configured
        /\ Move(r, [req[r] EXCEPT !.at = "call"])
     \/ /\ req[r].provider \notin Configured \/ r \in Faulty
        /\ End(r, 502)
  /\ UNCHANGED <<script, now, route, limiter, calls>>

\* client.Do: an answer below 500 ends the loop; another one, or an error, is
\* tried again as long as attempts are left.
Called(r) ==
  calls' = [l \in Limiters |->
              IF l \in {req[r].provider, Global} THEN calls[l] + 1 ELSE calls[l]]

Answered(r) ==
  /\ req[r].at = "call"
  /\ Called(r)
  /\ Move(r, [req[r] EXCEPT !.at = "publish", !.attempts = @ + 1, !.status = 200])
  /\ UNCHANGED <<script, now, route, limiter>>

\* (Variant with a fault: one attempt too many.)
LastAttemptOffByOne(r) == req[r].attempts > MaxRetries

LastAttempt(r) == req[r].attempts = MaxRetries

CallFails(r) ==
  /\ req[r].at = "call"
  /\ Called(r)
  /\ \/ /\ ~LastAttempt(r)
        /\ Move(r, [req[r] EXCEPT !.attempts = @ + 1])
     \/ /\ LastAttempt(r)
        /\ \/ Move(r, [req[r] EXCEPT !.at = "publish", !.attempts = @ + 1, !.status = 503])
           \/ Move(r, [req[r] EXCEPT !.at = "done", !.attempts = @ + 1, !.status = 502])
  /\ UNCHANGED <<script, now, route, limiter>>

\* The context ends during the backoff.
Cancelled(r) ==
  /\ req[r].at = "call"
  /\ req[r].attempts > 0
  /\ End(r, 502)
  /\ UNCHANGED <<script, now, route, limiter, calls>>

\* publishLog: XADD has 100 ms; a failure is reported and not made good.
PublishLog(r) ==
  /\ req[r].at = "publish"
  /\ \/ Move(r, [req[r] EXCEPT !.at = "done", !.log = @ + 1])
     \/ r \in Faulty /\ Move(r, [req[r] EXCEPT !.at = "done", !.lost = @ + 1])
  /\ UNCHANGED <<script, now, route, limiter, calls>>

-----------------------------------------------------------------------------
(* Redis *)

\* A tick passes.  Keys that have lived their time are gone.
TickUntil(bound) ==
  /\ now < bound
  /\ now' = now + 1
  /\ bucket' = [l \in Limiters |->
                  IF bucket[l] # None /\ bucket[l].until <= now' THEN None ELSE bucket[l]]
  /\ UNCHANGED <<script, route, req, passed, back, open, calls>>

Tick == TickUntil(MaxTime)

\* A cached route reaches its TTL.
ExpireRoute(k) ==
  /\ route[k] # None
  /\ route' = [route EXCEPT ![k] = None]
  /\ UNCHANGED <<script, now, req, limiter, calls>>

-----------------------------------------------------------------------------
Zero == [l \in Limiters |-> 0]
Keys == {Key(p) : p \in Prompts}

Init ==
  /\ script \in Scripts
  /\ now = Skew
  /\ bucket = [l \in Limiters |-> None]
  /\ route = [k \in Keys |-> None]
  /\ req = [r \in Requests |-> New]
  /\ passed = Zero /\ back = Zero /\ open = Zero /\ calls = Zero

Step(r) ==
  \/ CacheHit(r) \/ CacheMiss(r) \/ Classify(r) \/ RPCFails(r)
  \/ Limit(r) \/ LimitFailsOpen(r)
  \/ GetProviderInfo(r) \/ Answered(r) \/ CallFails(r) \/ Cancelled(r)
  \/ PublishLog(r)

Next == Tick \/ (\E k \in Keys : ExpireRoute(k)) \/ (\E r \in Requests : Step(r))

Spec == Init /\ [][Next]_vars

\* A limiter by itself, one for all since they share nothing but the clock, asked
\* any number of times.
Ask(l) ==
  /\ back[l] <= MaxBack
  /\ \E t \in (now - Skew) .. now : RunScript(l, t)
  /\ UNCHANGED <<script, now, route, req, open, calls>>

LimiterNext == Ask(Global) \/ TickUntil(LimiterTime)

LimiterSpec == Init /\ [][LimiterNext]_vars

-----------------------------------------------------------------------------
(* Properties *)

\* Buckets, routes and requests are well formed.
TypeOK ==
  /\ script \in Scripts /\ now \in Nat
  /\ bucket \in [Limiters -> Hashes \union {None}]
  /\ route \in [Keys -> Providers \union {None}]
  /\ req \in [Requests -> [at : {"classify", "rules", "provider", "global", "config", "call",
                                 "publish", "done"},
                           provider : Providers \union {None},
                           attempts : Nat, status : {None, 200, 429, 500, 502, 503},
                           log : Nat, lost : Nat]]
  /\ passed \in [Limiters -> Nat] /\ back \in [Limiters -> Nat]
  /\ open \in [Limiters -> Nat] /\ calls \in [Limiters -> Nat]

\* Since the start.
Elapsed == now - Skew

\* The scripts: however callers' clocks differ and keys expire, a limiter lets
\* through one full bucket and one request per Cost ticks, plus the time by
\* which callers that are behind have dated its buckets back: in client.go any
\* time they ask, in the others as the first to ask after the key has expired.
LimiterBound ==
  \A l \in Limiters : Cost * passed[l] <= Full + Elapsed + back[l]

\* ForwardLogic: the limiters count requests.  What a provider, and all of them
\* together, see is bounded by the requests a limiter or a failing Redis let
\* through, each sent MaxRetries + 1 times.
UpstreamBound ==
  \A l \in Limiters :
    Cost * calls[l] <= (MaxRetries + 1) * (Full + Elapsed + back[l] + Cost * open[l])

\* Every request that got an answer of the upstream, the last 5xx included, is
\* logged once or its log is lost, which takes a failing Redis; one that was
\* refused or never answered is not logged.
LoggedIfAnswered ==
  \A r \in Requests :
    /\ req[r].at = "done" =>
         req[r].log + req[r].lost = (IF req[r].status \in {200, 503} THEN 1 ELSE 0)
    /\ req[r].lost > 0 => r \in Faulty

\* classifylogic.go: a prompt with a keyword of some provider goes to such a
\* provider.  (Not so once a route was cached for another prompt of the length.)
RoutedByRule ==
  \A r \in Requests :
    req[r].provider # None /\ Matches[PromptOf[r]] # {}
      => req[r].provider \in Matches[PromptOf[r]]
=============================================================================
