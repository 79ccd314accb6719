--------------------------- MODULE SlidingWindow ---------------------------
(***************************************************************************)
(* The two sliding-window limiters over Redis: a sorted set per key, one   *)
(* member per request let through, scored with the caller's clock, which   *)
(* may be behind Redis's.  "allow" is RedisRateLimiter.Allow, "store" is   *)
(* RedisStore.AllowSlidingWindow.  Both let a request pass when Redis does *)
(* not answer.                                                             *)
(***************************************************************************)
EXTENDS Integers, FiniteSets

CONSTANTS
  Window,       \* ticks
  Second,       \* ticks in a second, the unit of EXPIRE
  MaxRate,      \* requests per window
  Skew,         \* how far a caller's clock may be behind Redis's
  Random,       \* values of math.random
  MaxTime,      \* bound on the clock
  MaxRequests   \* bound on the requests let through

VARIABLES
  script,    \* "allow" or "store"
  now,       \* Redis's clock
  zset,      \* the key's members
  until,     \* when the key expires
  passed,    \* history: requests the script let through: [at, number], Redis's time
             \* and how many there were before
  merged     \* history: requests whose member was there already

vars == <<script, now, zset, until, passed, merged>>

\* A window in whole seconds, rounded up; "store" adds one.
Life ==
  LET seconds == (Window + Second - 1) \div Second
  IN  Second * (IF script = "store" THEN seconds + 1 ELSE seconds)

\* (Variant with a fault: the window is one tick shorter.)
RemainingButOldest(t) == {m \in zset : m.score > t - Window + 1}

\* What ZREMRANGEBYSCORE leaves at the caller's time t.
Remaining(t) == {m \in zset : m.score > t - Window}

\* (Variant with a fault: one request too many.)
HasRoomOffByOne(t) == Cardinality(Remaining(t)) <= MaxRate

HasRoom(t) == Cardinality(Remaining(t)) < MaxRate

\* Requests let through at the times of T.
Passed(T) == Cardinality({p \in passed : p.at \in T})

\* "allow" names a member after its clock and a random number, "store" after two
\* readings of its clock, the second in nanoseconds, which no two requests share.
Named(t, random) ==
  [score |-> t, id |-> IF script = "allow" THEN random ELSE Cardinality(passed)]

\* The script lets the request pass, ...
Pass(t, random) ==
  LET m == Named(t, random)
  IN  /\ Cardinality(passed) < MaxRequests
      /\ HasRoom(t)
      /\ zset' = Remaining(t) \union {m}
      /\ until' = now + Life
      /\ passed' = passed \union {[at |-> now, number |-> Cardinality(passed)]}
      /\ merged' = IF m \in Remaining(t) THEN merged + 1 ELSE merged
      /\ UNCHANGED <<script, now>>

\* ... or refuses it, and "allow" renews the expiry all the same.
Refuse(t) ==
  /\ ~HasRoom(t)
  /\ zset' = Remaining(t)
  /\ until' = IF script = "allow" THEN now + Life ELSE until
  /\ UNCHANGED <<script, now, passed, merged>>

Allow ==
  \E t \in (now - Skew) .. now, random \in Random : Pass(t, random) \/ Refuse(t)

Tick ==
  /\ now < MaxTime
  /\ now' = now + 1
  /\ zset' = IF until <= now' THEN {} ELSE zset
  /\ UNCHANGED <<script, until, passed, merged>>

Init ==
  /\ script \in {"allow", "store"}
  /\ now = Skew
  /\ zset = {}
  /\ until = 0
  /\ passed = {}
  /\ merged = 0

Next == Allow \/ Tick

Spec == Init /\ [][Next]_vars

-----------------------------------------------------------------------------
(* Properties *)

\* The set never holds more members than it may, each with a clock reading.
TypeOK ==
  /\ script \in {"allow", "store"}
  /\ now \in 0..MaxTime /\ until \in 0..(MaxTime + Life)
  /\ Cardinality(zset) <= MaxRate
  /\ \A m \in zset : m.score \in 0..now
  /\ passed \subseteq [at : 0..MaxTime, number : Nat] /\ merged \in Nat

\* Both scripts: whatever the callers' clocks say and whenever the key expires,
\* any Window - Skew ticks of Redis's time see at most MaxRate requests pass, and
\* those "allow" has taken for another one.
WindowBound ==
  \A t \in 0..now :
    Passed({u \in t..now : u < t + Window - Skew}) <= MaxRate + merged
=============================================================================
