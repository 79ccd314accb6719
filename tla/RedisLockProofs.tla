-------------------------- MODULE RedisLockProofs --------------------------
(***************************************************************************)
(* Proofs about RedisLock for any callers and any timing within its        *)
(* assumptions.  The argument is a lease: a caller whose clock runs owns   *)
(* the key, and the key's remaining life makes up for the time since the   *)
(* last script that set it.                                                *)
(***************************************************************************)
EXTENDS RedisLock, TLAPS

\* There is a key as long as it has time to live.
KeyLives == key # None <=> ttl > 0

\* Nobody asks once too often.
Trying == \A c \in Callers : pc[c] \in {"asking", "granted"} => tries[c] < MaxRetries

\* A reply on its way: the key was set at most timer[c] ago.
GrantedLease ==
  \A c \in Callers : pc[c] = "granted" =>
    key = c /\ timer[c] <= ReplyTimeout /\ ttl + timer[c] >= Expiry

\* A watchdog: the key was set at most timer[c], and a reply's time, ago.
WatchedLease ==
  \A c \in watching :
    /\ key = c
    /\ timer[c] <= Interval + MaxDelay
    /\ ttl + timer[c] + ReplyTimeout >= Expiry

IInv == TypeOK /\ KeyLives /\ Trying /\ WatchdogEndsWithFn
        /\ GrantedLease /\ WatchedLease

\* The expiry Redis is given and the ticker's period are times.
LEMMA Times == Expiry \in Nat /\ Interval \in Nat /\ Interval > 0
BY LockAssumption, SMT DEF LockAssumption, Expiry, Interval

LEMMA InitIInv == Init => IInv
BY LockAssumption, Times
   DEF LockAssumption, Init, IInv, TypeOK, KeyLives, Trying, WatchdogEndsWithFn,
       GrantedLease, WatchedLease, Phases

\* One step of a caller, its watchdog or the clock keeps the invariant.
LEMMA NextIInv == IInv /\ [Next]_vars => IInv'
<1> SUFFICES ASSUME IInv, [Next]_vars PROVE IInv'
  OBVIOUS
<1> USE LockAssumption, TimelyAssumption, Times
    DEF LockAssumption, TimelyAssumption, IInv, TypeOK, KeyLives, Trying,
        WatchdogEndsWithFn, GrantedLease, WatchedLease, Phases, Goto
<1>1. ASSUME NEW c \in Callers, Grant(c) PROVE IInv'
  BY <1>1 DEF Grant, SetKey
<1>2. ASSUME NEW c \in Callers, Deny(c) PROVE IInv'
  BY <1>2 DEF Deny, TurnedDown
<1>3. ASSUME NEW c \in Callers, AcquireFails(c) PROVE IInv'
  BY <1>3 DEF AcquireFails
<1>4. ASSUME NEW c \in Callers, Enter(c) PROVE IInv'
  BY <1>4 DEF Enter
<1>5. ASSUME NEW c \in Callers, LoseGrant(c) PROVE IInv'
  BY <1>5 DEF LoseGrant, TurnedDown
<1>6. ASSUME NEW c \in Callers, Retry(c) PROVE IInv'
  BY <1>6 DEF Retry
<1>7. ASSUME NEW c \in Callers, Extend(c) PROVE IInv'
  BY <1>7 DEF Extend, Due
<1>8. ASSUME NEW c \in Callers, StopWatching(c) PROVE IInv'
  BY <1>8 DEF StopWatching, Due
<1>9. ASSUME NEW c \in Callers, FnReturns(c) PROVE IInv'
  BY <1>9 DEF FnReturns
<1>10. ASSUME NEW c \in Callers, Release(c) PROVE IInv'
  BY <1>10 DEF Release, DeleteKey
<1>11. ASSUME NEW c \in Callers, ReleaseFails(c) PROVE IInv'
  BY <1>11 DEF ReleaseFails
<1>12. ASSUME NEW c \in Callers, Cancel(c) \/ Crash(c) PROVE IInv'
  BY <1>12 DEF Cancel, Crash
<1>13. CASE Tick
  BY <1>13 DEF Tick, Timed, Limit, DeleteKey
<1>14. CASE UNCHANGED vars
  BY <1>14 DEF vars
<1> QED
  BY <1>1, <1>2, <1>3, <1>4, <1>5, <1>6, <1>7, <1>8, <1>9, <1>10, <1>11,
     <1>12, <1>13, <1>14 DEF Next, Acquire, Watchdog, Finish

LEMMA Inductive == Safety => []IInv
BY InitIInv, NextIInv, PTL DEF Safety

\* Every reachable state is well typed; the retries stay within their bound.
THEOREM TypeCorrect == Safety => []TypeOK
BY Inductive, PTL DEF IInv

\* A caller whose watchdog lives owns the key, for any number of callers and
\* any Ttl whose third, the delays added, stays below the expiry.
THEOREM LeaseHolds == Safety => []WatchedLockIsHeld
<1>1. IInv => WatchedLockIsHeld
  BY LockAssumption, TimelyAssumption, Times
     DEF LockAssumption, TimelyAssumption, IInv, TypeOK, WatchedLease,
         WatchedLockIsHeld
<1> QED
  BY <1>1, Inductive, PTL

\* Mutual exclusion among the callers that still have their watchdog.
THEOREM WatchedAlone == Safety => [](\A c, d \in watching : c = d)
<1>1. WatchedLockIsHeld => \A c, d \in watching : c = d
  BY DEF WatchedLockIsHeld
<1> QED
  BY <1>1, LeaseHolds, PTL

\* A watchdog never outlives its caller's stay inside fn.
THEOREM WatchdogsEnd == Safety => []WatchdogEndsWithFn
BY Inductive, PTL DEF IInv

\* A key goes by running out or by its owner's release.
THEOREM OwnersRelease == Safety => OnlyOwnerReleases
<1>1. IInv /\ [Next]_vars =>
        [\A c \in Callers : key = c /\ key' # c =>
           ttl = 1 \/ (pc[c] = "releasing" /\ pc'[c] = "done")]_vars
  <2> SUFFICES ASSUME IInv, Next, NEW c \in Callers, key = c, key' # c
               PROVE  ttl = 1 \/ (pc[c] = "releasing" /\ pc'[c] = "done")
    BY DEF vars
  <2> USE LockAssumption DEF LockAssumption, IInv, TypeOK, KeyLives
  <2>1. CASE Tick
    BY <2>1 DEF Tick
  <2>2. CASE \E d \in Callers : Release(d)
    BY <2>2 DEF Release, Goto
  <2> QED
    BY <2>1, <2>2 DEF Next, Acquire, Watchdog, Finish, Grant, Deny, AcquireFails,
       Enter, LoseGrant, Retry, Extend, StopWatching, FnReturns, ReleaseFails,
       Cancel, Crash
<1> QED
  BY <1>1, Inductive, PTL DEF Safety, OnlyOwnerReleases
=============================================================================
