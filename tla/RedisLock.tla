----------------------------- MODULE RedisLock -----------------------------
(***************************************************************************)
(* RedisLock of shared/redis/lock.go, used through WithLock: several       *)
(* callers, each with a lock value of its own, compete for one key.        *)
(*                                                                         *)
(* A Lua script runs atomically at Redis; what its caller learns, and when,*)
(* is another step.  A reply may be lost, and the client library then      *)
(* gives up or sends the script again.  The watchdog is a goroutine with a *)
(* ticker; every timer counts ticks of one clock, and the key expires by   *)
(* it.  A caller's context may be cancelled and its process may crash.     *)
(***************************************************************************)
EXTENDS Integers

CONSTANTS
  Callers,       \* instances made by NewRedisLock, one WithLock call each
  None,          \* no such key
  Ttl,           \* l.ttl, in ticks
  Second,        \* ticks in a second
  MaxDelay,      \* bound: a watchdog's tick reaches Redis within this time
  ReplyTimeout,  \* bound: Options.ReadTimeout, a later reply is an error
  MaxRetries     \* Acquire's maxRetries, 30 in WithLock

\* int(l.ttl.Seconds()), the expiry Redis is given; and the ticker's period.
Expiry == (Ttl \div Second) * Second
Interval == Ttl \div 3

ASSUME LockAssumption ==
  /\ None \notin Callers
  /\ Ttl \in Nat /\ Second \in Nat \ {0}
  /\ Interval > 0
  /\ MaxDelay \in Nat /\ ReplyTimeout \in Nat
  /\ MaxRetries \in Nat \ {0}

\* What the watchdog needs to be in time.
ASSUME TimelyAssumption == Interval + MaxDelay + ReplyTimeout < Expiry

VARIABLES
  key,        \* the value stored at l.key, by the caller that owns it
  ttl,        \* its remaining life, 0 when there is no key
  pc,         \* where each WithLock call is
  tries,      \* Acquire's loop counter i
  watching,   \* callers whose watchdog goroutine runs
  timer,      \* age of its ticker's oldest unserved period, or of a reply
  cancelled   \* callers whose context is done

vars == <<key, ttl, pc, tries, watching, timer, cancelled>>

Phases == {"asking", "granted", "waiting", "inside", "releasing", "done",
           "crashed"}

Goto(c, phase) == pc' = [pc EXCEPT ![c] = phase]
DeleteKey == key' = None /\ ttl' = 0

----------------------------------------------------------------------------
\* Acquire.

\* acquireScript finds no key: SET NX EX.
\* (Variant with a fault: a key that is never given its expiry.)
SetKeyForever(c) == key' = c /\ ttl' = Expiry + 1 + Interval
SetKey(c) == key' = c /\ ttl' = Expiry

Grant(c) ==
  /\ pc[c] = "asking" /\ c \notin cancelled
  /\ key = None
  /\ SetKey(c)
  /\ timer' = [timer EXCEPT ![c] = 0]
  /\ Goto(c, "granted")
  /\ UNCHANGED <<tries, watching, cancelled>>

\* (Variant with a fault: the loop counter is not advanced.)
TurnedDownUncounted(c) == Goto(c, "waiting") /\ UNCHANGED tries

\* The answer 0, which the caller's own key may cause as well.
TurnedDown(c) ==
  /\ tries' = [tries EXCEPT ![c] = @ + 1]
  /\ Goto(c, "waiting")

Deny(c) ==
  /\ pc[c] = "asking" /\ c \notin cancelled
  /\ key # None
  /\ TurnedDown(c)
  /\ UNCHANGED <<key, ttl, watching, timer, cancelled>>

\* The script never ran: Acquire returns the error.
AcquireFails(c) ==
  /\ pc[c] = "asking"
  /\ Goto(c, "done")
  /\ UNCHANGED <<key, ttl, tries, watching, timer, cancelled>>

\* The reply to Grant arrives: fn starts, and with it the watchdog, unless
\* the context it is derived from is already done.
Enter(c) ==
  /\ pc[c] = "granted"
  /\ watching' = watching \union ({c} \ cancelled)
  /\ timer' = [timer EXCEPT ![c] = 0]
  /\ Goto(c, "inside")
  /\ UNCHANGED <<key, ttl, tries, cancelled>>

\* The reply is lost or late, or the context ends the wait for it: an error,
\* or the library sends the script again and is denied.  The key stays.
LoseGrant(c) ==
  /\ pc[c] = "granted"
  /\ \/ Goto(c, "done") /\ UNCHANGED tries
     \/ c \notin cancelled /\ key # None /\ TurnedDown(c)
  /\ UNCHANGED <<key, ttl, watching, timer, cancelled>>

\* After retryInterval, or at the end of the context, or of the retries.
Retry(c) ==
  /\ pc[c] = "waiting"
  /\ IF tries[c] < MaxRetries /\ c \notin cancelled
     THEN Goto(c, "asking") ELSE Goto(c, "done")
  /\ UNCHANGED <<key, ttl, tries, watching, timer, cancelled>>

----------------------------------------------------------------------------
\* The watchdog.

Due(c) == c \in watching /\ timer[c] >= Interval

\* (Variant with a fault: the key's life is not renewed.)
ExtendWithoutExpire(c) ==
  /\ Due(c)
  /\ key = c
  /\ timer' = [timer EXCEPT ![c] = @ - Interval]
  /\ UNCHANGED <<key, ttl, pc, tries, watching, cancelled>>

\* extendScript finds the caller's value.  The ticker keeps its own pace,
\* however late the goroutine serves it.
Extend(c) ==
  /\ Due(c)
  /\ key = c
  /\ ttl' = Expiry
  /\ timer' = [timer EXCEPT ![c] = @ - Interval]
  /\ UNCHANGED <<key, pc, tries, watching, cancelled>>

\* An error, before or after the script ran, or the answer 0: the goroutine
\* ends, and nobody is told.
StopWatching(c) ==
  /\ Due(c)
  /\ ttl' \in IF key = c THEN {ttl, Expiry} ELSE {ttl}
  /\ watching' = watching \ {c}
  /\ UNCHANGED <<key, pc, tries, timer, cancelled>>

----------------------------------------------------------------------------
\* fn returns; the deferred Release stops the watchdog and runs releaseScript.

\* (Variant with a fault: the watchdog is stopped only after the script.)
FnReturnsStillWatching(c) ==
  /\ pc[c] = "inside"
  /\ Goto(c, "releasing")
  /\ UNCHANGED <<key, ttl, tries, watching, timer, cancelled>>

FnReturns(c) ==
  /\ pc[c] = "inside"
  /\ watching' = watching \ {c}
  /\ Goto(c, "releasing")
  /\ UNCHANGED <<key, ttl, tries, timer, cancelled>>

\* (Variant with a fault: a plain DEL, whoever owns the key.)
ReleaseAnybody(c) ==
  /\ pc[c] = "releasing" /\ c \notin cancelled
  /\ DeleteKey
  /\ Goto(c, "done")
  /\ UNCHANGED <<tries, watching, timer, cancelled>>

\* The script runs; WithLock ignores what Release makes of the reply.
Release(c) ==
  /\ pc[c] = "releasing" /\ c \notin cancelled
  /\ IF key = c THEN DeleteKey ELSE UNCHANGED <<key, ttl>>
  /\ Goto(c, "done")
  /\ UNCHANGED <<tries, watching, timer, cancelled>>

\* The script does not run, with a context that is done never.
ReleaseFails(c) ==
  /\ pc[c] = "releasing"
  /\ Goto(c, "done")
  /\ UNCHANGED <<key, ttl, tries, watching, timer, cancelled>>

----------------------------------------------------------------------------
\* The surroundings.

\* The watchdog's context derives from the caller's.
Cancel(c) ==
  /\ pc[c] \notin {"done", "crashed"} /\ c \notin cancelled
  /\ cancelled' = cancelled \union {c}
  /\ watching' = watching \ {c}
  /\ UNCHANGED <<key, ttl, pc, tries, timer>>

Crash(c) ==
  /\ pc[c] \notin {"done", "crashed"}
  /\ watching' = watching \ {c}
  /\ Goto(c, "crashed")
  /\ UNCHANGED <<key, ttl, tries, timer, cancelled>>

\* Time passes: the key ages, and so do the tickers and the awaited replies.
\* It does not pass a watchdog's MaxDelay or a reply's timeout.
Timed == watching \union {c \in Callers : pc[c] = "granted"}
Limit(c) == IF pc[c] = "granted" THEN ReplyTimeout ELSE Interval + MaxDelay

Tick ==
  /\ \A c \in Timed : timer[c] < Limit(c)
  /\ timer' = [c \in Callers |-> IF c \in Timed THEN timer[c] + 1 ELSE timer[c]]
  /\ IF ttl > 1 THEN ttl' = ttl - 1 /\ UNCHANGED key ELSE DeleteKey
  /\ UNCHANGED <<pc, tries, watching, cancelled>>

----------------------------------------------------------------------------
Init ==
  /\ key = None
  /\ ttl = 0
  /\ pc = [c \in Callers |-> "asking"]
  /\ tries = [c \in Callers |-> 0]
  /\ watching = {}
  /\ timer = [c \in Callers |-> 0]
  /\ cancelled = {}

Acquire(c) ==
  \/ Grant(c) \/ Deny(c) \/ AcquireFails(c)
  \/ Enter(c) \/ LoseGrant(c) \/ Retry(c)
Watchdog(c) == Extend(c) \/ StopWatching(c)
Finish(c) == Release(c) \/ ReleaseFails(c)

Next ==
  \/ \E c \in Callers :
       \/ Acquire(c) \/ Watchdog(c) \/ FnReturns(c) \/ Finish(c)
       \/ Cancel(c) \/ Crash(c)
  \/ Tick

Safety == Init /\ [][Next]_vars

\* Time passes and goroutines run on.  fn may stay inside for ever, and
\* callers are neither cancelled nor crash by necessity.
Fairness ==
  /\ WF_vars(Tick)
  /\ \A c \in Callers : /\ WF_vars(Acquire(c))
                        /\ WF_vars(Watchdog(c))
                        /\ WF_vars(Finish(c))

Spec == Safety /\ Fairness

----------------------------------------------------------------------------
TypeOK ==
  /\ key \in Callers \union {None}
  /\ ttl \in 0 .. Expiry
  /\ pc \in [Callers -> Phases]
  /\ tries \in [Callers -> 0 .. MaxRetries]
  /\ watching \subseteq Callers
  /\ timer \in [Callers -> Nat]
  /\ cancelled \subseteq Callers

\* "Keeps the lock from being released early when the work takes longer than
\* the TTL": while its watchdog lives, a caller owns the key, so of two callers
\* inside fn at once at least one has lost its watchdog.  (Nothing tells it.)
WatchedLockIsHeld == \A c \in watching : key = c /\ ttl > 0

\* Nobody deletes a key of somebody else, however late its release comes: a
\* key that goes has run out or is released by its owner.
OnlyOwnerReleases ==
  [][\A c \in Callers : key = c /\ key' # c =>
       ttl = 1 \/ (pc[c] = "releasing" /\ pc'[c] = "done")]_vars

\* No goroutine keeps a lock alive for a caller that is no longer inside.
WatchdogEndsWithFn == \A c \in watching : pc[c] = "inside"

\* A lock whose caller crashed, lost the reply, or released in vain is free
\* again some day.
OrphanExpires ==
  \A c \in Callers : (key = c /\ pc[c] \in {"done", "crashed"}) ~> key # c

\* With a bound on its retries, Acquire returns even if the lock never does.
AcquireReturns ==
  \A c \in Callers :
    pc[c] = "waiting" ~> pc[c] \in {"inside", "done", "crashed"}
=============================================================================
