---------------------------- MODULE TrafficProofs ----------------------------
(***************************************************************************)
(* Proofs about Traffic.  Messages: for any requests, providers, bucket    *)
(* sizes, clock skew and length of time, what a limiter let through and    *)
(* what is left in its bucket is paid for by the time up to last_refill    *)
(* and that by which it was dated back; a bucket that expires is forgotten *)
(* only after it would have been full again.                               *)
(***************************************************************************)
EXTENDS Traffic, FiniteSetTheorems, SequenceTheorems, TLAPS

\* The clock starts late enough for callers that are behind.
Clock == now >= Skew

\* A bucket in Redis: it never overflows, and it expires late enough.
Kept ==
  \A l \in Limiters : bucket[l] # None =>
    /\ bucket[l].drops <= Full
    /\ bucket[l].refill <= now
    /\ bucket[l].refill <= now + bucket[l].drops
    /\ Full + bucket[l].refill - bucket[l].drops <= bucket[l].until

\* Drops, spent or not, came in by last_refill, counted from the start.
Paid ==
  \A l \in Limiters : bucket[l] # None =>
    Cost * passed[l] + bucket[l].drops + Skew <= Full + bucket[l].refill + back[l]

\* Without a bucket, a full one dated now is affordable.
Affordable ==
  \A l \in Limiters : bucket[l] = None => Cost * passed[l] + Skew <= now + back[l]

\* What a request of the model looks like.
Records ==
  [at : {"classify", "rules", "provider", "global", "config", "call", "publish", "done"},
   provider : Providers \union {None},
   attempts : Nat, status : {None, 200, 429, 500, 502, 503},
   log : Nat, lost : Nat]

\* A request is routed before it is limited, and its log published as it ends, if
\* it was answered; a log is lost with Redis only.
Sound(r, x) ==
  /\ x.at \notin {"classify", "rules", "done"} => x.provider \in Providers
  /\ x.at # "done" => x.log = 0 /\ x.lost = 0
  /\ x.at = "publish" => x.status \in {200, 503}
  /\ x.at = "done" => x.log + x.lost = (IF x.status \in {200, 503} THEN 1 ELSE 0)
  /\ x.lost > 0 => r \in Faulty

AllSound == \A r \in Requests : Sound(r, req[r])

IInv == TypeOK /\ Clock /\ Kept /\ Paid /\ Affordable /\ AllSound

-----------------------------------------------------------------------------
\* One more request costs Cost more.
LEMMA OneMore ==
  ASSUME NEW n \in Nat
  PROVE  /\ Cost * n \in Nat
         /\ Cost * (n + 1) = Cost * n + Cost
<1>1. Cost \in Nat
  BY MessagesAssumption DEF MessagesAssumption
<1>2. Cost * n \in Nat
  BY <1>1
<1>3. Cost * (n + 1) = Cost * n + Cost
  BY <1>1
<1> QED
  BY <1>2, <1>3

\* A remainder is no more than what is divided.
LEMMA Remainder ==
  ASSUME NEW n \in Nat
  PROVE  n % Cost \in 0..n
BY MessagesAssumption, SMTT(30) DEF MessagesAssumption

\* store's inflow is at most the time elapsed.
LEMMA WholeCostsBound ==
  ASSUME NEW e \in Int
  PROVE  /\ WholeCosts(e) \in Nat
         /\ e > 0 => WholeCosts(e) <= e
         /\ e <= 0 => WholeCosts(e) = 0
<1>1. CASE e > 0
  <2>1. e % Cost \in 0..e
    BY <1>1, Remainder
  <2> QED
    BY <1>1, <2>1 DEF WholeCosts
<1>2. CASE ~(e > 0)
  BY <1>2 DEF WholeCosts
<1> QED
  BY <1>1, <1>2

\* How far a bucket that is not there is dated back.
DatedAnew(l, t) == IF bucket[l] = None THEN now - t ELSE 0

\* What a script finds is what it left, or a full bucket refilled at the caller's time.
LEMMA FoundBucket ==
  ASSUME IInv, NEW l \in Limiters, NEW t \in (now - Skew) .. now
  PROVE  LET b == Found(l, t)
         IN  /\ t \in Nat /\ now \in Nat /\ DatedAnew(l, t) \in Nat
             /\ b.drops \in Int /\ b.refill \in Nat
             /\ b.drops <= Full /\ b.refill <= now /\ b.refill <= now + b.drops
             /\ Cost * passed[l] + b.drops + Skew
                   <= Full + b.refill + back[l] + DatedAnew(l, t)
             /\ bucket[l] = None => b.refill = t
             /\ bucket[l] # None => b = bucket[l]
<1>1. t \in Nat /\ now \in Nat /\ t <= now /\ t >= now - Skew /\ Full \in Nat /\ Skew \in Nat
  BY MessagesAssumption DEF MessagesAssumption, IInv, TypeOK, Clock
<1>2. passed[l] \in Nat /\ back[l] \in Nat /\ Cost * passed[l] \in Nat
  BY OneMore DEF IInv, TypeOK
<1>3. CASE bucket[l] = None
  <2>1. Found(l, t) = [drops |-> Full, refill |-> t, until |-> 0]
    BY <1>3 DEF Found
  <2>2. Cost * passed[l] + Skew <= now + back[l]
    BY <1>3 DEF IInv, Affordable
  <2>3. Found(l, t).drops = Full /\ Found(l, t).refill = t
    BY <2>1
  <2>4. DatedAnew(l, t) = now - t
    BY <1>3 DEF DatedAnew
  <2> QED
    BY <1>1, <1>2, <1>3, <2>2, <2>3, <2>4
<1>4. CASE bucket[l] # None
  <2>1. Found(l, t) = bucket[l] /\ bucket[l] \in Hashes
    BY <1>4 DEF Found, IInv, TypeOK
  <2>2. DatedAnew(l, t) = 0
    BY <1>4 DEF DatedAnew
  <2> QED
    BY <1>1, <1>2, <1>4, <2>1, <2>2 DEF IInv, Kept, Paid, Hashes
<1> QED
  BY <1>3, <1>4

\* The level a script computes, whichever it is: it is paid for up to the
\* refill time it stores, which is no later than the clock.
LEMMA Refilled ==
  ASSUME IInv, NEW l \in Limiters, NEW t \in (now - Skew) .. now
  PROVE  LET b == Found(l, t)
             lost == IF script = "allow" /\ t < b.refill THEN b.refill - t ELSE 0
         IN  /\ Level(b, t) \in Int /\ Level(b, t) <= Full
             /\ RefilledAt(b, t) \in Nat /\ RefilledAt(b, t) <= now
             /\ RefilledAt(b, t) <= now + Level(b, t)
             /\ Level(b, t) <= b.drops + RefilledAt(b, t) - b.refill + lost
<1> DEFINE b == Found(l, t)
           e == t - b.refill
<1>1. /\ t \in Nat /\ now \in Nat /\ b.drops \in Int /\ b.refill \in Nat
      /\ b.drops <= Full /\ b.refill <= now /\ b.refill <= now + b.drops
  BY FoundBucket
<1>2. Full \in Nat /\ Full > 0 /\ t <= now
  BY MessagesAssumption DEF MessagesAssumption, IInv, TypeOK, Clock
<1>3. script \in {"allow", "bucket", "store"}
  BY MessagesAssumption DEF MessagesAssumption, IInv, TypeOK
<1> HIDE DEF b
<1>4. CASE script = "allow"
  <2>1. Inflow(b, t) = IF t > b.refill THEN t - b.refill ELSE 0
    BY <1>4 DEF Inflow
  <2>2. RefilledAt(b, t) = t
    BY <1>4 DEF RefilledAt
  <2>3. /\ Level(b, t) \in Int /\ Level(b, t) <= Full
        /\ RefilledAt(b, t) \in Nat /\ RefilledAt(b, t) <= now
        /\ RefilledAt(b, t) <= now + Level(b, t)
        /\ Level(b, t) <= b.drops + RefilledAt(b, t) - b.refill
                          + (IF t < b.refill THEN b.refill - t ELSE 0)
    BY <1>1, <1>2, <2>1, <2>2 DEF Level, Lesser
  <2> QED
    BY <1>4, <2>3 DEF b
<1>5. CASE script = "bucket"
  <2>1. Inflow(b, t) = t - b.refill
    BY <1>5 DEF Inflow
  <2>2. RefilledAt(b, t) = t
    BY <1>5 DEF RefilledAt
  <2>3. /\ Level(b, t) \in Int /\ Level(b, t) <= Full
        /\ RefilledAt(b, t) \in Nat /\ RefilledAt(b, t) <= now
        /\ RefilledAt(b, t) <= now + Level(b, t)
        /\ Level(b, t) <= b.drops + RefilledAt(b, t) - b.refill + 0
    BY <1>1, <1>2, <2>1, <2>2 DEF Level, Lesser
  <2> QED
    BY <1>5, <2>3 DEF b
<1>6. CASE script = "store"
  <2>1. Inflow(b, t) = WholeCosts(e)
    BY <1>6 DEF Inflow
  <2>2. RefilledAt(b, t) = b.refill + WholeCosts(e)
    BY <1>6, <2>1 DEF RefilledAt
  <2>3. e \in Int
    BY <1>1
  <2>4. /\ WholeCosts(e) \in Nat
        /\ e > 0 => WholeCosts(e) <= e
        /\ e <= 0 => WholeCosts(e) = 0
    BY <2>3, WholeCostsBound
  <2>5. b.refill + WholeCosts(e) \in Nat /\ b.refill + WholeCosts(e) <= now
    BY <1>1, <1>2, <2>4
  <2>6. /\ Level(b, t) \in Int /\ Level(b, t) <= Full
        /\ RefilledAt(b, t) \in Nat /\ RefilledAt(b, t) <= now
        /\ RefilledAt(b, t) <= now + Level(b, t)
        /\ Level(b, t) <= b.drops + RefilledAt(b, t) - b.refill + 0
    BY <1>1, <1>2, <2>1, <2>2, <2>4, <2>5 DEF Level, Lesser
  <2> QED
    BY <1>6, <2>6 DEF b
<1> QED
  BY <1>3, <1>4, <1>5, <1>6

-----------------------------------------------------------------------------
\* A key lives long enough, whichever the script.
LEMMA LongLife == ASSUME IInv PROVE Life \in Nat /\ Life >= Full
<1>1. /\ script \in {"allow", "bucket", "store"}
      /\ Full \in Nat /\ Slack \in Nat
  BY MessagesAssumption DEF MessagesAssumption, IInv, TypeOK
<1>2. CASE script = "allow"
  <2>1. Life = Full + Slack
    BY <1>2 DEF Life
  <2> QED
    BY <1>1, <2>1
<1>3. CASE script = "bucket"
  <2>1. Life = 2 * Full
    BY <1>3 DEF Life
  <2> QED
    BY <1>1, <2>1
<1>4. CASE script = "store"
  <2>1. Life = Full + 10 * Slack
    BY <1>4 DEF Life
  <2> QED
    BY <1>1, <2>1
<1> QED
  BY <1>1, <1>2, <1>3, <1>4

\* Running a script keeps the limiters' part of the invariant.
LEMMA RunScriptKeeps ==
  ASSUME IInv, NEW l \in Limiters, NEW t \in (now - Skew) .. now,
         RunScript(l, t), now' = now, script' = script
  PROVE  /\ bucket' \in [Limiters -> Hashes \union {None}]
         /\ passed' \in [Limiters -> Nat] /\ back' \in [Limiters -> Nat]
         /\ Clock' /\ Kept' /\ Paid' /\ Affordable'
<1> DEFINE b == Found(l, t)
           lost == IF script = "allow" /\ t < b.refill THEN b.refill - t ELSE 0
           anew == DatedAnew(l, t)
           left == IF Grants(l, t) THEN Level(b, t) - Cost ELSE Level(b, t)
           after == [drops |-> left, refill |-> RefilledAt(b, t), until |-> now + Life]
<1>1. /\ t \in Nat /\ now \in Nat /\ b.drops \in Int /\ b.refill \in Nat /\ anew \in Nat
      /\ Cost * passed[l] + b.drops + Skew <= Full + b.refill + back[l] + anew
      /\ bucket[l] = None => b.refill = t
      /\ bucket[l] # None => b = bucket[l]
  BY FoundBucket
<1>2. /\ Level(b, t) \in Int /\ Level(b, t) <= Full
      /\ RefilledAt(b, t) \in Nat /\ RefilledAt(b, t) <= now
      /\ RefilledAt(b, t) <= now + Level(b, t)
      /\ Level(b, t) <= b.drops + RefilledAt(b, t) - b.refill + lost
  BY Refilled
<1>3. Full \in Nat /\ Cost \in Nat /\ Cost > 0 /\ Skew \in Nat
  BY MessagesAssumption DEF MessagesAssumption
<1>4. Life \in Nat /\ Life >= Full
  BY LongLife
<1>5. /\ bucket' = [bucket EXCEPT ![l] = after]
      /\ back' = [back EXCEPT ![l] = @ + DatedBack(l, t)]
      /\ passed' = [passed EXCEPT ![l] = IF Grants(l, t) THEN @ + 1 ELSE @]
  BY DEF RunScript
<1>6. /\ bucket \in [Limiters -> Hashes \union {None}]
      /\ passed \in [Limiters -> Nat] /\ back \in [Limiters -> Nat]
  BY DEF IInv, TypeOK
<1>7. Grants(l, t) <=> Level(b, t) >= Cost
  BY DEF Grants
<1> HIDE DEF b
<1>8. lost \in Nat /\ DatedBack(l, t) = anew + lost
  <2>1. lost \in Nat
    BY <1>1
  <2>2. CASE bucket[l] = None
    <3>1. b.refill = t /\ lost = 0
      BY <1>1, <2>2
    <3>2. DatedBack(l, t) = now - t /\ anew = now - t
      BY <2>2 DEF DatedBack, DatedAnew
    <3> QED
      BY <1>1, <2>1, <3>1, <3>2
  <2>3. CASE bucket[l] # None
    <3>1. b = bucket[l] /\ anew = 0
      BY <1>1, <2>3 DEF DatedAnew
    <3>2. DatedBack(l, t) = lost
      BY <2>3, <3>1 DEF DatedBack
    <3> QED
      BY <2>1, <3>1, <3>2
  <2> QED
    BY <2>1, <2>2, <2>3
<1> HIDE DEF lost, anew
<1>9. /\ left \in Int /\ left <= Full /\ RefilledAt(b, t) <= now + left
      /\ Full + RefilledAt(b, t) - left <= now + Life
  BY <1>1, <1>2, <1>3, <1>4, <1>7
<1>10. Cost * passed'[l] + left + Skew <= Full + RefilledAt(b, t) + back'[l]
  <2>1. back'[l] = back[l] + anew + lost /\ back[l] \in Nat
    <3>1. back'[l] = back[l] + DatedBack(l, t) /\ back[l] \in Nat
      BY <1>5, <1>6
    <3> QED
      BY <1>1, <1>8, <3>1
  <2>2. Cost * passed[l] \in Nat /\ Cost * (passed[l] + 1) = Cost * passed[l] + Cost
    BY <1>6, OneMore
  <2>3. CASE Grants(l, t)
    <3>1. passed'[l] = passed[l] + 1 /\ left = Level(b, t) - Cost
      BY <2>3, <1>5, <1>6
    <3>2. Cost * passed'[l] = Cost * passed[l] + Cost
      BY <2>2, <3>1
    <3> QED
      BY <3>1, <3>2, <2>1, <2>2, <1>1, <1>2, <1>3, <1>8
  <2>4. CASE ~Grants(l, t)
    <3>1. passed'[l] = passed[l] /\ left = Level(b, t)
      BY <2>4, <1>5, <1>6
    <3>2. Cost * passed'[l] = Cost * passed[l]
      BY <3>1
    <3> QED
      BY <3>1, <3>2, <2>1, <2>2, <1>1, <1>2, <1>3, <1>8
  <2> QED
    BY <2>3, <2>4
<1> HIDE DEF left
<1>11. after \in Hashes
  BY <1>1, <1>2, <1>4, <1>9 DEF Hashes
<1>12. /\ bucket'[l] = after /\ after # None
       /\ after.drops = left /\ after.refill = RefilledAt(b, t) /\ after.until = now + Life
  BY <1>5, <1>6, <1>11, MessagesAssumption DEF MessagesAssumption
<1>13. bucket' \in [Limiters -> Hashes \union {None}]
  <2> HIDE DEF after
  <2> QED
    BY <1>5, <1>6, <1>11
<1>14. passed' \in [Limiters -> Nat]
  BY <1>5, <1>6
<1>15. back' \in [Limiters -> Nat]
  <2>1. DatedBack(l, t) \in Nat
    BY <1>1, <1>8
  <2> QED
    BY <1>5, <1>6, <2>1
<1>16. \A k \in Limiters \ {l} :
          bucket'[k] = bucket[k] /\ passed'[k] = passed[k] /\ back'[k] = back[k]
  <2> HIDE DEF after
  <2> QED
    BY <1>5, <1>6
<1> HIDE DEF after
<1>17. Clock'
  BY DEF IInv, Clock
<1>18. Kept'
  <2>1. SUFFICES ASSUME NEW k \in Limiters, bucket'[k] # None
                 PROVE  /\ bucket'[k].drops <= Full
                        /\ bucket'[k].refill <= now
                        /\ bucket'[k].refill <= now + bucket'[k].drops
                        /\ Full + bucket'[k].refill - bucket'[k].drops <= bucket'[k].until
    BY DEF Kept
  <2>2. CASE k = l
    BY <2>2, <1>2, <1>9, <1>12
  <2>3. CASE k # l
    BY <2>1, <2>3, <1>16 DEF IInv, Kept
  <2> QED
    BY <2>2, <2>3
<1>19. Paid'
  <2>1. SUFFICES ASSUME NEW k \in Limiters, bucket'[k] # None
                 PROVE  Cost * passed'[k] + bucket'[k].drops + Skew
                          <= Full + bucket'[k].refill + back'[k]
    BY DEF Paid
  <2>2. CASE k = l
    BY <2>2, <1>10, <1>12
  <2>3. CASE k # l
    BY <2>1, <2>3, <1>16 DEF IInv, Paid
  <2> QED
    BY <2>2, <2>3
<1>20. Affordable'
  <2>1. SUFFICES ASSUME NEW k \in Limiters, bucket'[k] = None
                 PROVE  Cost * passed'[k] + Skew <= now + back'[k]
    BY DEF Affordable
  <2>2. k # l
    BY <2>1, <1>12
  <2> QED
    BY <2>1, <2>2, <1>16 DEF IInv, Affordable
<1> QED
  BY <1>13, <1>14, <1>15, <1>17, <1>18, <1>19, <1>20

-----------------------------------------------------------------------------
\* Nothing the limiters' part speaks of changes.
LEMMA OthersKeep ==
  ASSUME IInv, UNCHANGED <<now, bucket, passed, back>>
  PROVE  Clock' /\ Kept' /\ Paid' /\ Affordable'
BY DEF IInv, Clock, Kept, Paid, Affordable

\* A tick: the keys that go have outlived a full refill.
LEMMA TickKeeps ==
  ASSUME IInv, NEW bound, TickUntil(bound)
  PROVE  /\ now' \in Nat /\ bucket' \in [Limiters -> Hashes \union {None}]
         /\ Clock' /\ Kept' /\ Paid' /\ Affordable'
<1>1. /\ now \in Nat /\ now' = now + 1 /\ Skew \in Nat
      /\ bucket' = [l \in Limiters |->
                      IF bucket[l] # None /\ bucket[l].until <= now' THEN None ELSE bucket[l]]
      /\ passed' = passed /\ back' = back
      /\ bucket \in [Limiters -> Hashes \union {None}]
      /\ passed \in [Limiters -> Nat] /\ back \in [Limiters -> Nat]
      /\ Full \in Nat
  BY MessagesAssumption DEF MessagesAssumption, IInv, TypeOK, TickUntil
<1>2. bucket' \in [Limiters -> Hashes \union {None}]
  BY <1>1
<1>3. \A l \in Limiters : bucket'[l] # None => bucket'[l] = bucket[l] /\ bucket[l] \in Hashes
  BY <1>1
<1>4. Clock'
  BY <1>1 DEF IInv, Clock
<1>5. Kept'
  <2>1. SUFFICES ASSUME NEW l \in Limiters, bucket'[l] # None
                 PROVE  /\ bucket'[l].drops <= Full
                        /\ bucket'[l].refill <= now'
                        /\ bucket'[l].refill <= now' + bucket'[l].drops
                        /\ Full + bucket'[l].refill - bucket'[l].drops <= bucket'[l].until
    BY DEF Kept
  <2>2. bucket'[l] = bucket[l] /\ bucket[l] \in Hashes
    BY <2>1, <1>3
  <2> QED
    BY <2>1, <2>2, <1>1 DEF IInv, Kept, Hashes
<1>6. Paid'
  BY <1>1, <1>3 DEF IInv, Paid
<1>7. Affordable'
  <2>1. SUFFICES ASSUME NEW l \in Limiters, bucket'[l] = None
                 PROVE  Cost * passed[l] + Skew <= now + 1 + back[l]
    BY <1>1 DEF Affordable
  <2>2. Cost * passed[l] \in Nat /\ back[l] \in Nat
    BY <1>1, OneMore
  <2>3. CASE bucket[l] = None
    BY <2>2, <2>3, <1>1 DEF IInv, Affordable
  <2>4. CASE bucket[l] # None
    <3>1. bucket[l] \in Hashes /\ bucket[l].until <= now + 1
      BY <2>1, <2>4, <1>1
    <3>2. Full + bucket[l].refill - bucket[l].drops <= bucket[l].until
      BY <2>4 DEF IInv, Kept
    <3>3. Cost * passed[l] + bucket[l].drops + Skew <= Full + bucket[l].refill + back[l]
      BY <2>4 DEF IInv, Paid
    <3> QED
      BY <3>1, <3>2, <3>3, <2>2, <1>1 DEF Hashes
  <2> QED
    BY <2>3, <2>4
<1> QED
  BY <1>1, <1>2, <1>4, <1>5, <1>6, <1>7

\* A request that stays well formed and sound keeps all requests so.
LEMMA MoveKeeps ==
  ASSUME IInv, NEW r \in Requests, NEW x \in Records, Sound(r, x), Move(r, x)
  PROVE  req' \in [Requests -> Records] /\ AllSound'
<1>1. req \in [Requests -> Records]
  BY DEF IInv, TypeOK, Records
<1>2. req' = [req EXCEPT ![r] = x]
  BY DEF Move
<1>3. req' \in [Requests -> Records]
  BY <1>1, <1>2
<1>4. \A q \in Requests : (q = r /\ req'[q] = x) \/ req'[q] = req[q]
  BY <1>1, <1>2
<1>5. ASSUME NEW q \in Requests PROVE Sound(q, req'[q])
  <2>1. Sound(q, req[q])
    BY DEF IInv, AllSound
  <2>2. CASE q = r /\ req'[q] = x
    BY <2>2
  <2>3. CASE req'[q] = req[q]
    BY <2>1, <2>3
  <2> QED
    BY <1>4, <2>2, <2>3
<1> QED
  BY <1>3, <1>5 DEF AllSound

\* Every step of a request moves it to a sound record.
LEMMA StepMoves ==
  ASSUME IInv, NEW r \in Requests, Step(r)
  PROVE  \E x \in Records : Sound(r, x) /\ Move(r, x)
<1>1. req[r] \in Records /\ Sound(r, req[r])
  BY DEF IInv, TypeOK, AllSound, Records
<1>2. Default \in Providers /\ Builtin \in Providers /\ PromptOf[r] \in Prompts
      /\ Matches[PromptOf[r]] \subseteq Providers
  BY MessagesAssumption DEF MessagesAssumption
<1>3. CASE CacheHit(r)
  <2>1. Cached(r) \in Providers
    BY <1>2, <1>3 DEF CacheHit, Cached, Keys, IInv, TypeOK
  <2>2. Move(r, [req[r] EXCEPT !.at = "provider", !.provider = Cached(r)])
        /\ req[r].at = "classify"
    BY <1>3 DEF CacheHit
  <2>3. /\ [req[r] EXCEPT !.at = "provider", !.provider = Cached(r)] \in Records
        /\ Sound(r, [req[r] EXCEPT !.at = "provider", !.provider = Cached(r)])
    <3> DEFINE y == [req[r] EXCEPT !.at = "provider"]
               x == [y EXCEPT !.provider = Cached(r)]
    <3>1. x \in Records
      <4>1. y \in Records
        BY <1>1, <2>1, <2>2 DEF Records
      <4> HIDE DEF y
      <4> QED
        BY <1>1, <2>1, <2>2, <4>1 DEF Records
    <3>2. x.at = "provider" /\ x.provider = Cached(r) /\ x.log = req[r].log /\ x.lost = req[r].lost
      BY <1>1, <2>1, <2>2 DEF Records
    <3> QED
      BY <1>1, <2>1, <2>2, <3>1, <3>2 DEF Sound
  <2> QED
    BY <2>2, <2>3
<1>4. CASE CacheMiss(r)
  <2>1. Move(r, [req[r] EXCEPT !.at = "rules"]) /\ req[r].at = "classify"
    BY <1>4 DEF CacheMiss
  <2>2. /\ [req[r] EXCEPT !.at = "rules"] \in Records
        /\ Sound(r, [req[r] EXCEPT !.at = "rules"])
    BY <1>1, <2>1 DEF Records, Sound
  <2> QED
    BY <2>1, <2>2
<1>5. CASE Classify(r)
  <2>1. PICK p \in Answers(r) :
          Move(r, [req[r] EXCEPT !.at = "provider", !.provider = p]) /\ req[r].at = "rules"
    BY <1>5 DEF Classify
  <2>2. p \in Providers
    BY <1>2 DEF Answers
  <2>3. /\ [req[r] EXCEPT !.at = "provider", !.provider = p] \in Records
        /\ Sound(r, [req[r] EXCEPT !.at = "provider", !.provider = p])
    <3> DEFINE y == [req[r] EXCEPT !.at = "provider"]
               x == [y EXCEPT !.provider = p]
    <3>1. x \in Records
      <4>1. y \in Records
        BY <1>1, <2>1, <2>2 DEF Records
      <4> HIDE DEF y
      <4> QED
        BY <1>1, <2>1, <2>2, <4>1 DEF Records
    <3>2. x.at = "provider" /\ x.provider = p /\ x.log = req[r].log /\ x.lost = req[r].lost
      BY <1>1, <2>1, <2>2 DEF Records
    <3> QED
      BY <1>1, <2>1, <2>2, <3>1, <3>2 DEF Sound
  <2> QED
    BY <2>1, <2>3
<1>6. ASSUME NEW code \in {429, 500, 502}, End(r, code), req[r].at \notin {"publish", "done"}
      PROVE  \E x \in Records : Sound(r, x) /\ Move(r, x)
  <2>1. /\ [req[r] EXCEPT !.at = "done", !.status = code] \in Records
        /\ Sound(r, [req[r] EXCEPT !.at = "done", !.status = code])
    <3> DEFINE y == [req[r] EXCEPT !.at = "done"]
               x == [y EXCEPT !.status = code]
    <3>1. x \in Records
      <4>1. y \in Records
        BY <1>1, <1>6 DEF Records
      <4> HIDE DEF y
      <4> QED
        BY <1>1, <1>6, <4>1 DEF Records
    <3>2. x.at = "done" /\ x.status = code /\ x.log = req[r].log /\ x.lost = req[r].lost
      BY <1>1, <1>6 DEF Records
    <3> QED
      BY <1>1, <1>6, <3>1, <3>2 DEF Sound
  <2> QED
    BY <1>6, <2>1 DEF End
<1>7. CASE RPCFails(r)
  BY <1>6, <1>7 DEF RPCFails
<1>8. ASSUME NEW to \in {"global", "config"}, Move(r, [req[r] EXCEPT !.at = to]),
             req[r].at \in {"provider", "global"}
      PROVE  \E x \in Records : Sound(r, x) /\ Move(r, x)
  <2>1. [req[r] EXCEPT !.at = to] \in Records /\ Sound(r, [req[r] EXCEPT !.at = to])
    BY <1>1, <1>8 DEF Records, Sound
  <2> QED
    BY <1>8, <2>1
<1>9. CASE Limit(r)
  BY <1>6, <1>8, <1>9 DEF Limit, AfterLimiter
<1>10. CASE LimitFailsOpen(r)
  BY <1>8, <1>10 DEF LimitFailsOpen, AfterLimiter
<1>11. CASE GetProviderInfo(r)
  <2>1. /\ req[r].at = "config"
        /\ Move(r, [req[r] EXCEPT !.at = "call"]) \/ End(r, 502)
    BY <1>11 DEF GetProviderInfo
  <2>2. CASE Move(r, [req[r] EXCEPT !.at = "call"])
    <3>1. [req[r] EXCEPT !.at = "call"] \in Records /\ Sound(r, [req[r] EXCEPT !.at = "call"])
      BY <1>1, <2>1 DEF Records, Sound
    <3> QED
      BY <2>2, <3>1
  <2> QED
    BY <1>6, <2>1, <2>2
<1>12. ASSUME NEW to \in {"call", "publish"}, NEW code \in {None, 200, 503, 429, 500, 502},
              req[r].at = "call", to = "publish" => code \in {200, 503},
              Move(r, [req[r] EXCEPT !.at = to, !.attempts = @ + 1, !.status = code])
       PROVE  \E x \in Records : Sound(r, x) /\ Move(r, x)
  <2>1. /\ [req[r] EXCEPT !.at = to, !.attempts = @ + 1, !.status = code] \in Records
        /\ Sound(r, [req[r] EXCEPT !.at = to, !.attempts = @ + 1, !.status = code])
    <3> DEFINE y == [req[r] EXCEPT !.at = to]
               z == [y EXCEPT !.attempts = y.attempts + 1]
               x == [z EXCEPT !.status = code]
    <3>1. x \in Records
      <4>1. y \in Records
        BY <1>1, <1>12 DEF Records
      <4> HIDE DEF y
      <4>2. z \in Records
        BY <1>1, <1>12, <4>1 DEF Records
      <4> HIDE DEF z
      <4> QED
        BY <1>1, <1>12, <4>2 DEF Records
    <3>2. /\ x.at = to /\ x.status = code
             /\ x.provider = req[r].provider /\ x.log = req[r].log /\ x.lost = req[r].lost
      BY <1>1, <1>12 DEF Records
    <3> QED
      BY <1>1, <1>12, <3>1, <3>2 DEF Sound
  <2> QED
    BY <1>12, <2>1
<1>13. CASE Answered(r)
  BY <1>12, <1>13 DEF Answered
<1>14. CASE CallFails(r)
  <2>1. req[r].at = "call"
    BY <1>14 DEF CallFails
  <2>2. CASE Move(r, [req[r] EXCEPT !.attempts = @ + 1])
    <3>1. [req[r] EXCEPT !.attempts = @ + 1] \in Records
          /\ Sound(r, [req[r] EXCEPT !.attempts = @ + 1])
      BY <1>1, <2>1 DEF Records, Sound
    <3> QED
      BY <2>2, <3>1
  <2>3. CASE Move(r, [req[r] EXCEPT !.at = "publish", !.attempts = @ + 1, !.status = 503])
    BY <1>12, <2>1, <2>3
  <2>4. CASE Move(r, [req[r] EXCEPT !.at = "done", !.attempts = @ + 1, !.status = 502])
    <3>1. /\ [req[r] EXCEPT !.at = "done", !.attempts = @ + 1, !.status = 502] \in Records
          /\ Sound(r, [req[r] EXCEPT !.at = "done", !.attempts = @ + 1, !.status = 502])
      <4> DEFINE y == [req[r] EXCEPT !.at = "done"]
                 z == [y EXCEPT !.attempts = y.attempts + 1]
                 x == [z EXCEPT !.status = 502]
      <4>1. x \in Records
        <5>1. y \in Records
          BY <1>1, <2>1 DEF Records
        <5> HIDE DEF y
        <5>2. z \in Records
          BY <1>1, <2>1, <5>1 DEF Records
        <5> HIDE DEF z
        <5> QED
          BY <1>1, <2>1, <5>2 DEF Records
      <4>2. x.at = "done" /\ x.status = 502 /\ x.log = req[r].log /\ x.lost = req[r].lost
        BY <1>1, <2>1 DEF Records
      <4> QED
        BY <1>1, <2>1, <4>1, <4>2 DEF Sound
    <3> QED
      BY <2>4, <3>1
  <2> QED
    BY <1>14, <2>2, <2>3, <2>4 DEF CallFails
<1>15. CASE Cancelled(r)
  BY <1>6, <1>15 DEF Cancelled
<1>16. CASE PublishLog(r)
  <2>1. /\ req[r].at = "publish"
        /\ \/ Move(r, [req[r] EXCEPT !.at = "done", !.log = @ + 1])
           \/ r \in Faulty /\ Move(r, [req[r] EXCEPT !.at = "done", !.lost = @ + 1])
    BY <1>16 DEF PublishLog
  <2> DEFINE y == [req[r] EXCEPT !.at = "done"]
             x == [y EXCEPT !.log = y.log + 1]
             z == [y EXCEPT !.lost = y.lost + 1]
  <2>2. y \in Records
    BY <1>1, <2>1 DEF Records
  <2>3. x \in Records /\ z \in Records
    <3> HIDE DEF y
    <3> QED
      BY <2>2 DEF Records
  <2>4. /\ x.at = "done" /\ x.status = req[r].status
        /\ x.log = req[r].log + 1 /\ x.lost = req[r].lost
    BY <1>1, <2>1 DEF Records
  <2>5. /\ z.at = "done" /\ z.status = req[r].status
        /\ z.log = req[r].log /\ z.lost = req[r].lost + 1
    BY <1>1, <2>1 DEF Records
  <2>6. /\ req[r].log = 0 /\ req[r].lost = 0 /\ req[r].status \in {200, 503}
    BY <1>1, <2>1 DEF Sound
  <2>7. CASE Move(r, [req[r] EXCEPT !.at = "done", !.log = @ + 1])
    <3>1. Move(r, x)
      BY <2>7
    <3>2. Sound(r, x)
      <4> HIDE DEF x
      <4> QED
        BY <2>4, <2>6 DEF Sound
    <3> QED
      BY <2>3, <3>1, <3>2
  <2>8. CASE r \in Faulty /\ Move(r, [req[r] EXCEPT !.at = "done", !.lost = @ + 1])
    <3>1. Move(r, z)
      BY <2>8
    <3>2. Sound(r, z)
      <4> HIDE DEF z
      <4> QED
        BY <2>5, <2>6, <2>8 DEF Sound
    <3> QED
      BY <2>3, <3>1, <3>2
  <2> QED
    BY <2>1, <2>7, <2>8
<1> QED
  BY <1>3, <1>4, <1>5, <1>7, <1>9, <1>10, <1>11, <1>13, <1>14, <1>15, <1>16 DEF Step

-----------------------------------------------------------------------------
\* The invariant holds at first.
LEMMA InitIInv == Init => IInv
<1> SUFFICES ASSUME Init PROVE IInv
  OBVIOUS
<1>1. /\ Skew \in Nat /\ Cost \in Nat /\ Cost * 0 = 0
      /\ New \in Records /\ \A r \in Requests : Sound(r, New)
  BY MessagesAssumption DEF MessagesAssumption, New, Records, Sound
<1>2. TypeOK
  BY <1>1 DEF Init, TypeOK, Zero, Records
<1>3. Clock /\ Kept /\ Paid /\ Affordable
  BY <1>1 DEF Init, Clock, Kept, Paid, Affordable, Zero
<1>4. AllSound
  BY <1>1 DEF Init, AllSound
<1> QED
  BY <1>2, <1>3, <1>4 DEF IInv

\* What the steps do to the routes and the other counters.
LEMMA RestTyped ==
  ASSUME IInv, Next
  PROVE  /\ script' \in Scripts
         /\ route' \in [Keys -> Providers \union {None}]
         /\ open' \in [Limiters -> Nat] /\ calls' \in [Limiters -> Nat]
<1>1. /\ script \in Scripts /\ route \in [Keys -> Providers \union {None}]
      /\ open \in [Limiters -> Nat] /\ calls \in [Limiters -> Nat]
  BY DEF IInv, TypeOK
<1>2. CASE Tick
  BY <1>1, <1>2 DEF Tick, TickUntil
<1>3. ASSUME NEW k \in Keys, ExpireRoute(k)
      PROVE  /\ script' = script /\ open' = open /\ calls' = calls
             /\ route' \in [Keys -> Providers \union {None}]
  BY <1>1, <1>3 DEF ExpireRoute, limiter
<1>4. ASSUME NEW r \in Requests, Step(r)
      PROVE  /\ script' = script
             /\ route' \in [Keys -> Providers \union {None}]
             /\ open' \in [Limiters -> Nat] /\ calls' \in [Limiters -> Nat]
  <2>1. CASE Classify(r)
    <3>1. Answers(r) \subseteq Providers
      BY MessagesAssumption DEF MessagesAssumption, Answers
    <3>2. UNCHANGED <<script, open, calls>>
      BY <2>1 DEF Classify, limiter
    <3>3. PICK p \in Answers(r) :
            route' = [route EXCEPT ![Key(PromptOf[r])] = p] \/ route' = route
      BY <2>1 DEF Classify
    <3> QED
      BY <1>1, <3>1, <3>2, <3>3
  <2>2. CASE LimitFailsOpen(r)
    <3>1. LimiterOf(r) \in Limiters
      BY <2>2 DEF LimitFailsOpen, LimiterOf, Limiters, IInv, AllSound, Sound
    <3> QED
      BY <1>1, <2>2, <3>1 DEF LimitFailsOpen
  <2>3. CASE Answered(r) \/ CallFails(r)
    <3>1. Called(r) /\ UNCHANGED <<script, route, open>>
      BY <2>3 DEF Answered, CallFails, limiter
    <3> QED
      BY <1>1, <3>1 DEF Called
  <2>4. CASE CacheHit(r) \/ CacheMiss(r) \/ RPCFails(r) \/ Limit(r) \/ GetProviderInfo(r)
             \/ Cancelled(r) \/ PublishLog(r)
    BY <1>1, <2>4 DEF CacheHit, CacheMiss, RPCFails, Limit, GetProviderInfo, Cancelled,
                     PublishLog, limiter
  <2> QED
    BY <1>4, <2>1, <2>2, <2>3, <2>4 DEF Step
<1> QED
  BY <1>1, <1>2, <1>3, <1>4 DEF Next

\* A step of a request keeps the limiters' part.
LEMMA StepKeepsLimiters ==
  ASSUME IInv, NEW r \in Requests, Step(r)
  PROVE  /\ now' \in Nat /\ bucket' \in [Limiters -> Hashes \union {None}]
         /\ passed' \in [Limiters -> Nat] /\ back' \in [Limiters -> Nat]
         /\ Clock' /\ Kept' /\ Paid' /\ Affordable'
<1>1. /\ now \in Nat /\ bucket \in [Limiters -> Hashes \union {None}]
      /\ passed \in [Limiters -> Nat] /\ back \in [Limiters -> Nat]
  BY DEF IInv, TypeOK
<1>2. CASE Limit(r)
  <2>1. PICK t \in (now - Skew) .. now : RunScript(LimiterOf(r), t)
    BY <1>2 DEF Limit
  <2>2. now' = now /\ script' = script
    BY <1>2 DEF Limit
  <2>3. LimiterOf(r) \in Limiters
    BY <1>2 DEF Limit, LimiterOf, Limiters, IInv, AllSound, Sound
  <2> QED
    BY <1>1, <2>1, <2>2, <2>3, RunScriptKeeps
<1>3. CASE ~Limit(r)
  <2>1. UNCHANGED <<now, bucket, passed, back>>
    BY <1>3 DEF Step, CacheHit, CacheMiss, Classify, RPCFails, LimitFailsOpen,
                GetProviderInfo, Answered, CallFails, Cancelled, PublishLog, limiter
  <2> QED
    BY <1>1, <2>1, OthersKeep
<1> QED
  BY <1>2, <1>3

\* Every step keeps the invariant.
LEMMA NextIInv == IInv /\ [Next]_vars => IInv'
<1> SUFFICES ASSUME IInv, [Next]_vars PROVE IInv'
  OBVIOUS
<1>1. CASE Tick
  <2>1. /\ now' \in Nat /\ bucket' \in [Limiters -> Hashes \union {None}]
        /\ Clock' /\ Kept' /\ Paid' /\ Affordable'
    BY <1>1, TickKeeps DEF Tick
  <2>2. UNCHANGED <<script, route, req, passed, back, open, calls>>
    BY <1>1 DEF Tick, TickUntil
  <2>3. TypeOK'
    BY <2>1, <2>2 DEF IInv, TypeOK, Keys
  <2>4. AllSound'
    BY <2>2 DEF IInv, AllSound
  <2> QED
    BY <2>1, <2>3, <2>4 DEF IInv
<1>2. CASE \E k \in Keys : ExpireRoute(k)
  <2>1. UNCHANGED <<script, now, req, bucket, passed, back, open, calls>>
    BY <1>2 DEF ExpireRoute, limiter
  <2>2. route' \in [Keys -> Providers \union {None}]
    BY <1>2, RestTyped DEF Next
  <2>3. Clock' /\ Kept' /\ Paid' /\ Affordable'
    BY <2>1, OthersKeep
  <2>4. TypeOK'
    BY <2>1, <2>2 DEF IInv, TypeOK, Keys
  <2>5. AllSound'
    BY <2>1 DEF IInv, AllSound
  <2> QED
    BY <2>3, <2>4, <2>5 DEF IInv
<1>3. ASSUME NEW r \in Requests, Step(r) PROVE IInv'
  <2>1. PICK x \in Records : Sound(r, x) /\ Move(r, x)
    BY <1>3, StepMoves
  <2>2. req' \in [Requests -> Records] /\ AllSound'
    BY <2>1, MoveKeeps
  <2>3. /\ now' \in Nat /\ bucket' \in [Limiters -> Hashes \union {None}]
        /\ passed' \in [Limiters -> Nat] /\ back' \in [Limiters -> Nat]
        /\ Clock' /\ Kept' /\ Paid' /\ Affordable'
    BY <1>3, StepKeepsLimiters
  <2>4. /\ script' \in Scripts
        /\ route' \in [Keys -> Providers \union {None}]
        /\ open' \in [Limiters -> Nat] /\ calls' \in [Limiters -> Nat]
    BY <1>3, RestTyped DEF Next
  <2>5. TypeOK'
    BY <2>2, <2>3, <2>4 DEF TypeOK, Records, Keys
  <2> QED
    BY <2>2, <2>3, <2>5 DEF IInv
<1>4. CASE UNCHANGED vars
  <2>1. UNCHANGED <<now, bucket, passed, back>>
    BY <1>4 DEF vars
  <2>2. Clock' /\ Kept' /\ Paid' /\ Affordable'
    BY <2>1, OthersKeep
  <2>3. TypeOK' /\ AllSound'
    BY <1>4 DEF vars, IInv, TypeOK, AllSound, Keys
  <2> QED
    BY <2>2, <2>3 DEF IInv
<1> QED
  BY <1>1, <1>2, <1>3, <1>4 DEF Next

\* What it is there for.
LEMMA IInvBound == IInv => LimiterBound
<1> SUFFICES ASSUME IInv, NEW l \in Limiters
             PROVE  Cost * passed[l] <= Full + Elapsed + back[l]
  BY DEF LimiterBound
<1>1. /\ Cost * passed[l] \in Nat /\ back[l] \in Nat /\ now \in Nat
      /\ Full \in Nat /\ Skew \in Nat
  BY OneMore, MessagesAssumption DEF MessagesAssumption, IInv, TypeOK
<1>2. CASE bucket[l] = None
  BY <1>1, <1>2 DEF IInv, Affordable, Elapsed
<1>3. CASE bucket[l] # None
  <2>1. bucket[l] \in Hashes
    BY <1>3 DEF IInv, TypeOK
  <2> QED
    BY <1>1, <1>3, <2>1 DEF IInv, Kept, Paid, Hashes, Elapsed
<1> QED
  BY <1>2, <1>3

\* So does every step of a limiter by itself.
LEMMA AskedIInv == IInv /\ [LimiterNext]_vars => IInv'
<1> SUFFICES ASSUME IInv, [LimiterNext]_vars PROVE IInv'
  OBVIOUS
<1>1. CASE Ask(Global)
  <2>1. PICK t \in (now - Skew) .. now : RunScript(Global, t)
    BY <1>1 DEF Ask
  <2>2. UNCHANGED <<script, now, route, req, open, calls>>
    BY <1>1 DEF Ask
  <2>3. Global \in Limiters
    BY DEF Limiters
  <2>4. /\ bucket' \in [Limiters -> Hashes \union {None}]
        /\ passed' \in [Limiters -> Nat] /\ back' \in [Limiters -> Nat]
        /\ Clock' /\ Kept' /\ Paid' /\ Affordable'
    BY <2>1, <2>2, <2>3, RunScriptKeeps
  <2>5. TypeOK'
    BY <2>2, <2>4 DEF IInv, TypeOK, Keys
  <2>6. AllSound'
    BY <2>2 DEF IInv, AllSound
  <2> QED
    BY <2>4, <2>5, <2>6 DEF IInv
<1>2. CASE TickUntil(LimiterTime)
  <2>1. /\ now' \in Nat /\ bucket' \in [Limiters -> Hashes \union {None}]
        /\ Clock' /\ Kept' /\ Paid' /\ Affordable'
    BY <1>2, TickKeeps
  <2>2. UNCHANGED <<script, route, req, passed, back, open, calls>>
    BY <1>2 DEF TickUntil
  <2>3. TypeOK'
    BY <2>1, <2>2 DEF IInv, TypeOK, Keys
  <2>4. AllSound'
    BY <2>2 DEF IInv, AllSound
  <2> QED
    BY <2>1, <2>3, <2>4 DEF IInv
<1>3. CASE UNCHANGED vars
  BY <1>3, NextIInv
<1> QED
  BY <1>1, <1>2, <1>3 DEF LimiterNext

\* Buckets, routes and requests stay well formed.
THEOREM MessagesTypeCorrect == Spec => []TypeOK
<1>1. IInv => TypeOK
  BY DEF IInv
<1> QED
  BY <1>1, InitIInv, NextIInv, PTL DEF Spec

\* However far callers' clocks are apart and whenever keys expire, the limiters
\* let through no more than a full bucket, the rate, and what the time is worth by
\* which callers that are behind have dated buckets back; asked by requests, or
\* one by itself.
THEOREM LimitersBound == (Spec => []LimiterBound) /\ (LimiterSpec => []LimiterBound)
<1>1. Spec => []LimiterBound
  BY IInvBound, InitIInv, NextIInv, PTL DEF Spec
<1>2. LimiterSpec => []LimiterBound
  BY IInvBound, InitIInv, AskedIInv, PTL DEF LimiterSpec
<1> QED
  BY <1>1, <1>2

\* The log of a request that an upstream answered is published once, and lost only
\* with Redis; that of any other request never.
THEOREM AnsweredAreLogged == Spec => []LoggedIfAnswered
<1>1. IInv => LoggedIfAnswered
  BY DEF IInv, AllSound, Sound, LoggedIfAnswered
<1> QED
  BY <1>1, InitIInv, NextIInv, PTL DEF Spec

-----------------------------------------------------------------------------
(* What the upstreams see: the requests that have passed a limiter, counted *)
(* by what it or a failing Redis let through, and the attempts of each.     *)

\* A request that has passed limiter l and may be sent, or was.
Owes(x, l) ==
  /\ l = Global \/ x.provider = l
  /\ \/ x.at \in {"config", "call", "publish"}
     \/ x.attempts > 0
     \/ x.at = "global" /\ l # Global

Through(l) == {r \in Requests : Owes(req[r], l)}

\* The attempts of the requests of limiter l, one by one.
Attempts(l) ==
  {p \in Requests \X (1..(MaxRetries + 1)) :
     /\ l = Global \/ req[p[1]].provider = l
     /\ p[2] <= req[p[1]].attempts}

\* A request is sent after its limiters, and not too often.
Counted(x) ==
  /\ x.attempts <= MaxRetries + 1
  /\ x.at = "call" => x.attempts <= MaxRetries
  /\ x.at \in {"classify", "rules", "provider", "global", "config"} => x.attempts = 0

AllCounted == \A r \in Requests : Counted(req[r])

Ledger ==
  \A l \in Limiters :
    /\ IsFiniteSet(Through(l)) /\ Cardinality(Through(l)) <= passed[l] + open[l]
    /\ IsFiniteSet(Attempts(l)) /\ Cardinality(Attempts(l)) = calls[l]

CallsInv == IInv /\ AllCounted /\ Ledger

\* A move sets a request's record and no other's.
LEMMA Moved ==
  ASSUME IInv, NEW r \in Requests, NEW x, Move(r, x)
  PROVE  req'[r] = x /\ \A q \in Requests : q # r => req'[q] = req[q]
BY DEF IInv, TypeOK, Move

\* What a step of request r does to its account: it passes a limiter that counts
\* it, or it is sent and the call counted, or neither.
Accounted(r) ==
  LET x == req[r]
      y == req'[r]
  IN  /\ Counted(y)
      /\ \A q \in Requests : q # r => req'[q] = req[q]
      /\ \A l \in Limiters :
           /\ passed[l] + open[l] <= passed'[l] + open'[l]
           /\ Owes(y, l) /\ ~Owes(x, l) => passed[l] + open[l] + 1 <= passed'[l] + open'[l]
      /\ \/ /\ y.attempts = x.attempts /\ calls' = calls
            /\ x.attempts > 0 => y.provider = x.provider
         \/ /\ y.attempts = x.attempts + 1 /\ y.provider = x.provider
            /\ Called(r) /\ x.attempts <= MaxRetries

\* Nothing is let through nor sent.
LEMMA NothingSent ==
  ASSUME CallsInv, NEW r \in Requests,
         \A q \in Requests : q # r => req'[q] = req[q],
         Counted(req'[r]), req'[r].attempts = req[r].attempts,
         req[r].attempts > 0 => req'[r].provider = req[r].provider,
         \A l \in Limiters : Owes(req'[r], l) => Owes(req[r], l),
         UNCHANGED <<passed, open, calls>>
  PROVE  Accounted(r)
<1>1. \A l \in Limiters : passed[l] \in Nat /\ open[l] \in Nat
  BY DEF CallsInv, IInv, TypeOK
<1>2. \A l \in Limiters : passed[l] + open[l] <= passed'[l] + open'[l]
  BY <1>1
<1> QED
  BY <1>2 DEF Accounted

\* One limiter lets the request through; the others have seen it, or never will.
LEMMA LetThrough ==
  ASSUME CallsInv, NEW r \in Requests, NEW l \in Limiters,
         req[r].at \in {"provider", "global"}, l = LimiterOf(r),
         Move(r, [req[r] EXCEPT !.at = AfterLimiter(r)]),
         \/ passed' = [passed EXCEPT ![l] = @ + 1] /\ open' = open
         \/ open' = [open EXCEPT ![l] = @ + 1] /\ passed' = passed,
         UNCHANGED calls
  PROVE  Accounted(r)
<1> DEFINE x == req[r]
           y == req'[r]
<1>1. /\ passed \in [Limiters -> Nat] /\ open \in [Limiters -> Nat]
      /\ x \in Records /\ MaxRetries \in Nat
  BY MessagesAssumption DEF MessagesAssumption, CallsInv, IInv, TypeOK, Records
<1>2. /\ y = [x EXCEPT !.at = AfterLimiter(r)]
      /\ \A q \in Requests : q # r => req'[q] = req[q]
  BY Moved DEF CallsInv
<1>3. /\ y.at = AfterLimiter(r) /\ y.provider = x.provider /\ y.attempts = x.attempts
      /\ x.attempts = 0
  BY <1>1, <1>2 DEF Records, CallsInv, AllCounted, Counted
<1>4. /\ x.at = "provider" => y.at = "global" /\ l = x.provider
      /\ x.at = "global" => y.at = "config" /\ l = Global
  BY <1>3 DEF AfterLimiter, LimiterOf
<1>5. /\ passed[l] + open[l] + 1 = passed'[l] + open'[l]
      /\ \A m \in Limiters : m # l => passed[m] + open[m] = passed'[m] + open'[m]
      /\ \A m \in Limiters : passed[m] + open[m] \in Nat
  BY <1>1
<1>6. Counted(y)
  BY <1>1, <1>3, <1>4 DEF Counted
<1>7. ASSUME NEW m \in Limiters, Owes(y, m), ~Owes(x, m) PROVE m = l
  BY <1>3, <1>4, <1>7 DEF Owes
<1> HIDE DEF x, y
<1>8. \A m \in Limiters :
        /\ passed[m] + open[m] <= passed'[m] + open'[m]
        /\ Owes(y, m) /\ ~Owes(x, m) => passed[m] + open[m] + 1 <= passed'[m] + open'[m]
  <2> SUFFICES ASSUME NEW m \in Limiters
               PROVE  /\ passed[m] + open[m] <= passed'[m] + open'[m]
                      /\ m = l => passed[m] + open[m] + 1 <= passed'[m] + open'[m]
    BY <1>7
  <2>1. CASE m = l
    BY <1>1, <1>5, <2>1
  <2>2. CASE m # l
    BY <1>1, <1>5, <2>2
  <2> QED
    BY <2>1, <2>2
<1> QED
  BY <1>2, <1>3, <1>6, <1>8 DEF Accounted, x, y

\* A request that ends in the midst of it is sent no more.
LEMMA Ends ==
  ASSUME CallsInv, NEW r \in Requests, NEW code, End(r, code),
         passed' = passed, open' = open, calls' = calls
  PROVE  Accounted(r)
<1>1. req[r] \in Records /\ MaxRetries \in Nat /\ Counted(req[r])
  BY MessagesAssumption
     DEF MessagesAssumption, CallsInv, IInv, TypeOK, Records, AllCounted
<1>2. /\ req'[r] = [req[r] EXCEPT !.at = "done", !.status = code]
      /\ \A q \in Requests : q # r => req'[q] = req[q]
  BY Moved DEF CallsInv, End
<1>3. /\ req'[r].at = "done" /\ req'[r].provider = req[r].provider
      /\ req'[r].attempts = req[r].attempts
  BY <1>1, <1>2 DEF Records
<1>4. Counted(req'[r]) /\ \A l \in Limiters : Owes(req'[r], l) => Owes(req[r], l)
  BY <1>1, <1>3 DEF Counted, Owes
<1> QED
  BY <1>2, <1>3, <1>4, NothingSent

\* Every step of a request is accounted for.
LEMMA StepAccounted ==
  ASSUME CallsInv, NEW r \in Requests, Step(r)
  PROVE  Accounted(r)
<1> DEFINE x == req[r]
           y == req'[r]
<1>1. x \in Records /\ MaxRetries \in Nat /\ Counted(x) /\ Sound(r, x)
  BY MessagesAssumption
     DEF MessagesAssumption, CallsInv, IInv, TypeOK, Records, AllCounted, AllSound
<1>2. ASSUME NEW a \in {"rules", "call"}, Move(r, [req[r] EXCEPT !.at = a]),
             a = "rules" => x.at = "classify", a = "call" => x.at = "config",
             UNCHANGED <<passed, open, calls>>
      PROVE  Accounted(r)
  <2>1. /\ y = [x EXCEPT !.at = a]
        /\ \A q \in Requests : q # r => req'[q] = req[q]
    BY <1>2, Moved DEF CallsInv
  <2>2. y.at = a /\ y.provider = x.provider /\ y.attempts = x.attempts
    BY <1>1, <2>1 DEF Records
  <2>3. Counted(y) /\ \A l \in Limiters : Owes(y, l) => Owes(x, l)
    BY <1>1, <1>2, <2>2 DEF Counted, Owes
  <2> QED
    BY <1>2, <2>1, <2>2, <2>3, NothingSent
<1>3. ASSUME NEW p, Move(r, [req[r] EXCEPT !.at = "provider", !.provider = p]),
             x.at \in {"classify", "rules"}, UNCHANGED <<passed, open, calls>>
      PROVE  Accounted(r)
  <2>1. /\ y = [x EXCEPT !.at = "provider", !.provider = p]
        /\ \A q \in Requests : q # r => req'[q] = req[q]
    BY <1>3, Moved DEF CallsInv
  <2>2. y.at = "provider" /\ y.attempts = x.attempts
    BY <1>1, <2>1 DEF Records
  <2>3. /\ Counted(y) /\ x.attempts = 0
        /\ \A l \in Limiters : ~Owes(y, l)
    BY <1>1, <1>3, <2>2 DEF Counted, Owes
  <2>4. x.attempts > 0 => y.provider = x.provider
    BY <2>3
  <2>5. \A l \in Limiters : Owes(y, l) => Owes(x, l)
    BY <2>3
  <2> QED
    BY <1>3, <2>1, <2>2, <2>3, <2>4, <2>5, NothingSent
<1>4. CASE CacheHit(r)
  BY <1>3, <1>4 DEF CacheHit, limiter
<1>5. CASE CacheMiss(r)
  BY <1>2, <1>5 DEF CacheMiss, limiter
<1>6. CASE Classify(r)
  BY <1>3, <1>6 DEF Classify, limiter
<1>7. CASE RPCFails(r)
  BY <1>7, Ends DEF RPCFails, limiter
<1>8. LimiterOf(r) \in Limiters \/ x.at \notin {"provider", "global"}
  BY <1>1 DEF LimiterOf, Limiters, Sound
<1>9. CASE Limit(r)
  <2>1. PICK t \in (now - Skew) .. now :
          /\ RunScript(LimiterOf(r), t)
          /\ IF Grants(LimiterOf(r), t)
             THEN Move(r, [req[r] EXCEPT !.at = AfterLimiter(r)])
             ELSE End(r, 429)
    BY <1>9 DEF Limit
  <2>2. open' = open /\ calls' = calls /\ x.at \in {"provider", "global"}
    BY <1>9 DEF Limit
  <2>3. passed \in [Limiters -> Nat]
    BY DEF CallsInv, IInv, TypeOK
  <2>4. CASE Grants(LimiterOf(r), t)
    <3>1. passed' = [passed EXCEPT ![LimiterOf(r)] = @ + 1]
      BY <2>1, <2>4 DEF RunScript
    <3> QED
      BY <1>8, <2>1, <2>2, <2>4, <3>1, LetThrough
  <2>5. CASE ~Grants(LimiterOf(r), t)
    <3>1. passed' = passed
      BY <2>1, <2>3, <2>5 DEF RunScript
    <3> QED
      BY <2>1, <2>2, <2>5, <3>1, Ends
  <2> QED
    BY <2>4, <2>5
<1>10. CASE LimitFailsOpen(r)
  BY <1>8, <1>10, LetThrough DEF LimitFailsOpen
<1>11. CASE GetProviderInfo(r)
  <2>1. UNCHANGED <<passed, open, calls>> /\ x.at = "config"
    BY <1>11 DEF GetProviderInfo, limiter
  <2>2. Move(r, [req[r] EXCEPT !.at = "call"]) \/ End(r, 502)
    BY <1>11 DEF GetProviderInfo
  <2> QED
    BY <1>2, <2>1, <2>2, Ends
<1>12. CASE Answered(r) \/ CallFails(r)
  <2>1. UNCHANGED <<passed, open>> /\ x.at = "call" /\ Called(r)
    BY <1>12 DEF Answered, CallFails, limiter
  <2>2. /\ y.attempts = x.attempts + 1 /\ y.provider = x.provider
        /\ y.at \in {"call", "publish", "done"}
        /\ y.at = "call" => x.attempts # MaxRetries
        /\ \A q \in Requests : q # r => req'[q] = req[q]
    <3>1. CASE Answered(r)
      <4>1. Move(r, [req[r] EXCEPT !.at = "publish", !.attempts = @ + 1, !.status = 200])
        BY <3>1 DEF Answered
      <4>2. /\ y = [x EXCEPT !.at = "publish", !.attempts = @ + 1, !.status = 200]
            /\ \A q \in Requests : q # r => req'[q] = req[q]
        BY <4>1, Moved DEF CallsInv
      <4> HIDE DEF x, y
      <4> QED
        BY <1>1, <4>2 DEF Records
    <3>2. CASE ~LastAttempt(r) /\ Move(r, [req[r] EXCEPT !.attempts = @ + 1])
      <4>1. /\ y = [x EXCEPT !.attempts = @ + 1] /\ x.attempts # MaxRetries
            /\ \A q \in Requests : q # r => req'[q] = req[q]
        BY <3>2, Moved DEF CallsInv, LastAttempt
      <4>2. x.at = "call"
        BY <2>1
      <4> HIDE DEF x, y
      <4> QED
        BY <1>1, <4>1, <4>2 DEF Records
    <3>3. CASE Move(r, [req[r] EXCEPT !.at = "publish", !.attempts = @ + 1, !.status = 503])
      <4>1. /\ y = [x EXCEPT !.at = "publish", !.attempts = @ + 1, !.status = 503]
            /\ \A q \in Requests : q # r => req'[q] = req[q]
        BY <3>3, Moved DEF CallsInv
      <4> HIDE DEF x, y
      <4> QED
        BY <1>1, <4>1 DEF Records
    <3>4. CASE Move(r, [req[r] EXCEPT !.at = "done", !.attempts = @ + 1, !.status = 502])
      <4>1. /\ y = [x EXCEPT !.at = "done", !.attempts = @ + 1, !.status = 502]
            /\ \A q \in Requests : q # r => req'[q] = req[q]
        BY <3>4, Moved DEF CallsInv
      <4> HIDE DEF x, y
      <4> QED
        BY <1>1, <4>1 DEF Records
    <3>5. CASE CallFails(r)
      BY <3>5, <3>2, <3>3, <3>4 DEF CallFails
    <3> QED
      BY <1>12, <3>1, <3>5
  <2>3. x.attempts \in Nat /\ x.attempts <= MaxRetries
    BY <1>1, <2>1 DEF Records, Counted
  <2>4. Counted(y)
    BY <1>1, <2>2, <2>3 DEF Counted
  <2>5. \A l \in Limiters : Owes(y, l) => Owes(x, l)
    BY <2>1, <2>2 DEF Owes
  <2>6. \A l \in Limiters : passed[l] + open[l] <= passed'[l] + open'[l]
    <3>1. \A l \in Limiters : passed[l] \in Nat /\ open[l] \in Nat
      BY DEF CallsInv, IInv, TypeOK
    <3> QED
      BY <2>1, <3>1
  <2> QED
    BY <2>1, <2>2, <2>3, <2>4, <2>5, <2>6 DEF Accounted
<1>13. CASE Cancelled(r)
  BY <1>13, Ends DEF Cancelled, limiter
<1>14. CASE PublishLog(r)
  <2>1. /\ UNCHANGED <<passed, open, calls>> /\ x.at = "publish"
        /\ \/ Move(r, [req[r] EXCEPT !.at = "done", !.log = @ + 1])
           \/ Move(r, [req[r] EXCEPT !.at = "done", !.lost = @ + 1])
    BY <1>14 DEF PublishLog, limiter
  <2>2. /\ \/ y = [x EXCEPT !.at = "done", !.log = @ + 1]
           \/ y = [x EXCEPT !.at = "done", !.lost = @ + 1]
        /\ \A q \in Requests : q # r => req'[q] = req[q]
    BY <2>1, Moved DEF CallsInv
  <2>3. y.at = "done" /\ y.provider = x.provider /\ y.attempts = x.attempts
    <3> HIDE DEF x, y
    <3>1. CASE y = [x EXCEPT !.at = "done", !.log = @ + 1]
      BY <1>1, <3>1 DEF Records
    <3>2. CASE y = [x EXCEPT !.at = "done", !.lost = @ + 1]
      BY <1>1, <3>2 DEF Records
    <3> QED
      BY <2>2, <3>1, <3>2
  <2>4. Counted(y) /\ \A l \in Limiters : Owes(y, l) => Owes(x, l)
    BY <1>1, <2>1, <2>3 DEF Counted, Owes
  <2> QED
    BY <2>1, <2>2, <2>3, <2>4, NothingSent
<1> QED
  BY <1>4, <1>5, <1>6, <1>7, <1>9, <1>10, <1>11, <1>12, <1>13, <1>14 DEF Step

\* The requests that owe: no more than one joins them, and it is counted.
LEMMA ThroughKept ==
  ASSUME CallsInv, IInv', NEW r \in Requests, Accounted(r), NEW l \in Limiters
  PROVE  /\ IsFiniteSet(Through(l)')
         /\ Cardinality(Through(l)') <= passed'[l] + open'[l]
<1> DEFINE P == Through(l)
           Q == Through(l)'
           n == passed[l] + open[l]
           m == passed'[l] + open'[l]
<1>1. /\ IsFiniteSet(P) /\ Cardinality(P) <= n /\ n \in Nat /\ m \in Nat
  BY DEF CallsInv, Ledger, IInv, TypeOK
<1>2. /\ n <= m
      /\ Owes(req'[r], l) /\ ~Owes(req[r], l) => n + 1 <= m
      /\ \A q \in Requests : q # r => req'[q] = req[q]
  BY DEF Accounted
<1>3. Q \subseteq P \union {r}
  BY <1>2 DEF Through
<1>4. r \in Q /\ r \notin P => n + 1 <= m
  BY <1>2 DEF Through
<1> HIDE DEF P, Q, n, m
<1>5. CASE r \in Q /\ r \notin P
  <2>1. /\ IsFiniteSet(P \union {r})
        /\ Cardinality(P \union {r}) = Cardinality(P) + 1
    BY <1>1, <1>5, FS_AddElement
  <2>2. IsFiniteSet(Q) /\ Cardinality(Q) <= Cardinality(P \union {r})
    BY <1>3, <2>1, FS_Subset
  <2>3. Cardinality(P) \in Nat /\ Cardinality(Q) \in Nat
    BY <1>1, <2>2, FS_CardinalityType
  <2>4. IsFiniteSet(Q) /\ Cardinality(Q) <= m
    BY <1>1, <1>4, <1>5, <2>1, <2>2, <2>3
  <2> QED
    BY <2>4 DEF Q, m
<1>6. CASE ~(r \in Q /\ r \notin P)
  <2>1. Q \subseteq P
    BY <1>3, <1>6
  <2>2. IsFiniteSet(Q) /\ Cardinality(Q) <= Cardinality(P)
    BY <1>1, <2>1, FS_Subset
  <2>3. Cardinality(P) \in Nat /\ Cardinality(Q) \in Nat
    BY <1>1, <2>2, FS_CardinalityType
  <2>4. IsFiniteSet(Q) /\ Cardinality(Q) <= m
    BY <1>1, <1>2, <2>2, <2>3 DEF n, m
  <2> QED
    BY <2>4 DEF Q, m
<1> QED
  BY <1>5, <1>6

\* The attempts of a limiter's requests: a call is one more.
LEMMA AttemptsKept ==
  ASSUME CallsInv, IInv', NEW r \in Requests, Accounted(r), NEW l \in Limiters
  PROVE  /\ IsFiniteSet(Attempts(l)')
         /\ Cardinality(Attempts(l)') = calls'[l]
<1> DEFINE P == Attempts(l)
           Q == Attempts(l)'
           x == req[r]
           y == req'[r]
<1>1. /\ IsFiniteSet(P) /\ Cardinality(P) = calls[l] /\ calls \in [Limiters -> Nat]
      /\ MaxRetries \in Nat /\ x.attempts \in Nat
      /\ \A q \in Requests : req[q].attempts \in Nat
  BY MessagesAssumption DEF MessagesAssumption, CallsInv, Ledger, IInv, TypeOK
<1>2. \A q \in Requests : q # r => req'[q] = req[q]
  BY DEF Accounted
<1>3. CASE y.attempts = x.attempts /\ calls' = calls /\ (x.attempts > 0 => y.provider = x.provider)
  <2>1. ASSUME NEW q \in Requests, NEW k \in 1..(MaxRetries + 1)
        PROVE  <<q, k>> \in Q <=> <<q, k>> \in P
    <3>1. CASE q = r
      <4>1. k <= x.attempts => y.provider = x.provider
        BY <1>1, <1>3
      <4> QED
        BY <1>3, <3>1, <4>1 DEF Attempts
    <3>2. CASE q # r
      BY <1>2, <3>2 DEF Attempts
    <3> QED
      BY <3>1, <3>2
  <2>2. Q = P
    <3>1. P \subseteq Requests \X (1..(MaxRetries + 1)) /\ Q \subseteq Requests \X (1..(MaxRetries + 1))
      BY DEF Attempts
    <3> HIDE DEF P, Q
    <3> QED
      BY <2>1, <3>1
  <2> QED
    BY <1>1, <1>3, <2>2
<1>4. CASE /\ y.attempts = x.attempts + 1 /\ y.provider = x.provider
           /\ Called(r) /\ x.attempts <= MaxRetries
  <2> DEFINE new == <<r, x.attempts + 1>>
  <2>1. x.attempts + 1 \in 1..(MaxRetries + 1)
    BY <1>1, <1>4
  <2>2. calls'[l] = IF l = Global \/ l = x.provider THEN calls[l] + 1 ELSE calls[l]
    BY <1>4 DEF Called
  <2>3. ASSUME NEW q \in Requests, NEW k \in 1..(MaxRetries + 1)
        PROVE  <<q, k>> \in Q <=>
                 \/ <<q, k>> \in P
                 \/ q = r /\ k = x.attempts + 1 /\ (l = Global \/ l = x.provider)
    <3>1. CASE q = r
      <4>1. k <= y.attempts <=> (k <= x.attempts \/ k = x.attempts + 1)
        BY <1>1, <1>4
      <4> QED
        BY <1>4, <3>1, <4>1 DEF Attempts
    <3>2. CASE q # r
      BY <1>2, <3>2 DEF Attempts
    <3> QED
      BY <3>1, <3>2
  <2>4. new \notin P
    <3>1. ~(x.attempts + 1 <= x.attempts)
      BY <1>1
    <3> QED
      BY <3>1 DEF Attempts
  <2>5. /\ P \subseteq Requests \X (1..(MaxRetries + 1))
        /\ Q \subseteq Requests \X (1..(MaxRetries + 1))
        /\ new \in Requests \X (1..(MaxRetries + 1))
    BY <2>1 DEF Attempts
  <2>6. CASE l = Global \/ l = x.provider
    <3>1. ASSUME NEW p \in Requests \X (1..(MaxRetries + 1))
          PROVE  p \in Q <=> p \in P \union {new}
      <4>1. PICK q \in Requests, k \in 1..(MaxRetries + 1) : p = <<q, k>>
        BY <3>1
      <4>2. p = new <=> q = r /\ k = x.attempts + 1
        BY <4>1
      <4> HIDE DEF P, Q, new
      <4> QED
        BY <2>3, <2>6, <4>1, <4>2
    <3>2. Q = P \union {new}
      <4> HIDE DEF P, Q, new
      <4> QED
        BY <2>5, <3>1
    <3> HIDE DEF P, Q, new
    <3>3. IsFiniteSet(Q) /\ Cardinality(Q) = Cardinality(P) + 1
      BY <1>1, <2>4, <3>2, FS_AddElement
    <3>4. IsFiniteSet(Q) /\ Cardinality(Q) = calls'[l]
      BY <1>1, <2>2, <2>6, <3>3
    <3> QED
      BY <3>4 DEF Q
  <2>7. CASE ~(l = Global \/ l = x.provider)
    <3>1. ASSUME NEW p \in Requests \X (1..(MaxRetries + 1))
          PROVE  p \in Q <=> p \in P
      <4>1. PICK q \in Requests, k \in 1..(MaxRetries + 1) : p = <<q, k>>
        BY <3>1
      <4> HIDE DEF P, Q
      <4> QED
        BY <2>3, <2>7, <4>1
    <3>2. Q = P
      <4> HIDE DEF P, Q
      <4> QED
        BY <2>5, <3>1
    <3> QED
      BY <1>1, <2>2, <2>7, <3>2
  <2> QED
    BY <2>6, <2>7
<1> QED
  BY <1>3, <1>4 DEF Accounted

\* The account of the calls goes on.
LEMMA CallsGoOn == CallsInv /\ [Next]_vars => CallsInv'
<1> SUFFICES ASSUME CallsInv, [Next]_vars PROVE CallsInv'
  OBVIOUS
<1>1. IInv'
  BY NextIInv DEF CallsInv
<1>2. CASE UNCHANGED <<req, passed, open, calls>>
  <2>1. AllCounted'
    BY <1>2 DEF CallsInv, AllCounted
  <2>2. \A l \in Limiters : Through(l)' = Through(l) /\ Attempts(l)' = Attempts(l)
    BY <1>2 DEF Through, Attempts
  <2>3. Ledger'
    BY <1>2, <2>2 DEF CallsInv, Ledger
  <2> QED
    BY <1>1, <2>1, <2>3 DEF CallsInv
<1>3. ASSUME NEW r \in Requests, Step(r) PROVE CallsInv'
  <2>1. Accounted(r)
    BY <1>3, StepAccounted
  <2>2. AllCounted'
    BY <2>1 DEF Accounted, CallsInv, AllCounted
  <2>3. Ledger'
    BY <1>1, <2>1, ThroughKept, AttemptsKept DEF Ledger
  <2> QED
    BY <1>1, <2>2, <2>3 DEF CallsInv
<1>4. CASE Tick \/ (\E k \in Keys : ExpireRoute(k)) \/ UNCHANGED vars
  BY <1>2, <1>4 DEF Tick, TickUntil, ExpireRoute, limiter, vars
<1> QED
  BY <1>3, <1>4 DEF Next

\* At first nobody owes and nothing was sent.
LEMMA CallsInitially == Init => CallsInv
<1> SUFFICES ASSUME Init PROVE CallsInv
  OBVIOUS
<1>1. IInv
  BY InitIInv
<1>2. /\ \A r \in Requests : req[r] = New
      /\ \A l \in Limiters : passed[l] = 0 /\ open[l] = 0 /\ calls[l] = 0
  BY DEF Init, Zero
<1>3. /\ New.at = "classify" /\ New.attempts = 0 /\ 0 <= MaxRetries + 1 /\ MaxRetries \in Nat
  BY MessagesAssumption DEF MessagesAssumption, New
<1>4. AllCounted
  BY <1>2, <1>3 DEF AllCounted, Counted
<1>5. \A l \in Limiters : Through(l) = {} /\ Attempts(l) = {}
  BY <1>2, <1>3 DEF Through, Attempts, Owes
<1>6. Ledger
  BY <1>2, <1>5, FS_EmptySet DEF Ledger
<1> QED
  BY <1>1, <1>4, <1>6 DEF CallsInv

\* A limiter's attempts are made by its requests, at most MaxRetries + 1 by each.
LEMMA CallsBounded ==
  ASSUME CallsInv, NEW l \in Limiters
  PROVE  calls[l] <= (MaxRetries + 1) * (passed[l] + open[l])
<1> DEFINE P == Through(l)
           A == Attempts(l)
           tries == 1..(MaxRetries + 1)
<1>1. /\ IsFiniteSet(P) /\ Cardinality(P) <= passed[l] + open[l]
      /\ IsFiniteSet(A) /\ Cardinality(A) = calls[l]
      /\ MaxRetries + 1 \in Nat /\ passed[l] + open[l] \in Nat
      /\ \A r \in Requests : req[r].attempts \in Nat
  BY MessagesAssumption DEF MessagesAssumption, CallsInv, Ledger, IInv, TypeOK
<1>2. A \subseteq P \X tries
  <2> SUFFICES ASSUME NEW p \in A PROVE p \in P \X tries
    OBVIOUS
  <2>1. PICK r \in Requests, k \in tries : p = <<r, k>>
    BY DEF Attempts
  <2>2. (l = Global \/ req[r].provider = l) /\ k <= req[r].attempts
    BY <2>1 DEF Attempts
  <2>3. req[r].attempts > 0
    BY <1>1, <2>2
  <2>4. r \in P
    BY <2>2, <2>3 DEF Through, Owes
  <2> QED
    BY <2>1, <2>4
<1>3. IsFiniteSet(tries) /\ Cardinality(tries) = MaxRetries + 1
  <2>1. 1 <= MaxRetries + 1 /\ 1 \in Int /\ MaxRetries + 1 \in Int
    BY MessagesAssumption DEF MessagesAssumption
  <2>2. /\ IsFiniteSet(tries)
        /\ Cardinality(tries) = IF 1 > MaxRetries + 1 THEN 0 ELSE (MaxRetries + 1) - 1 + 1
    BY <2>1, FS_Interval
  <2> QED
    BY <2>1, <2>2
<1> HIDE DEF P, A, tries
<1>4. IsFiniteSet(P \X tries) /\ Cardinality(P \X tries) = Cardinality(P) * Cardinality(tries)
  BY <1>1, <1>3, FS_Product
<1>5. Cardinality(A) <= Cardinality(P \X tries)
  BY <1>2, <1>4, FS_Subset
<1>6. Cardinality(P) \in Nat /\ Cardinality(A) \in Nat
  BY <1>1, FS_CardinalityType
<1>7. Cardinality(P) * (MaxRetries + 1) <= (passed[l] + open[l]) * (MaxRetries + 1)
  <2>1. \A a, b, c \in Nat : a <= b => a * c <= b * c
    BY SMTT(30)
  <2> HIDE DEF P
  <2> QED
    BY <1>1, <1>6, <2>1
<1>8. (passed[l] + open[l]) * (MaxRetries + 1) = (MaxRetries + 1) * (passed[l] + open[l])
  BY <1>1
<1> QED
  BY <1>1, <1>3, <1>4, <1>5, <1>6, <1>7, <1>8

\* A limiter by itself sends nothing.
LEMMA AskingGoesOn == CallsInv /\ [LimiterNext]_vars => CallsInv'
<1> SUFFICES ASSUME CallsInv, [LimiterNext]_vars PROVE CallsInv'
  OBVIOUS
<1>1. IInv'
  BY AskedIInv DEF CallsInv
<1>2. UNCHANGED <<req, open, calls>>
  BY DEF LimiterNext, Ask, TickUntil, vars
<1>3. ASSUME NEW l \in Limiters PROVE passed[l] \in Nat /\ passed'[l] \in Nat /\ passed[l] <= passed'[l]
  <2>1. passed \in [Limiters -> Nat] /\ passed' \in [Limiters -> Nat]
    BY <1>1 DEF CallsInv, IInv, TypeOK
  <2>2. CASE Ask(Global)
    <3>1. PICK t \in (now - Skew) .. now : RunScript(Global, t)
      BY <2>2 DEF Ask
    <3>2. passed' = [passed EXCEPT ![Global] = IF Grants(Global, t) THEN @ + 1 ELSE @]
      BY <3>1 DEF RunScript
    <3> QED
      BY <2>1, <3>2
  <2>3. CASE UNCHANGED passed
    BY <2>1, <2>3
  <2> QED
    BY <2>2, <2>3 DEF LimiterNext, TickUntil, vars
<1>4. AllCounted'
  BY <1>2 DEF CallsInv, AllCounted
<1>5. \A l \in Limiters : Through(l)' = Through(l) /\ Attempts(l)' = Attempts(l)
  BY <1>2 DEF Through, Attempts
<1>6. Ledger'
  <2> SUFFICES ASSUME NEW l \in Limiters
               PROVE  /\ IsFiniteSet(Through(l)') /\ Cardinality(Through(l)') <= passed'[l] + open'[l]
                      /\ IsFiniteSet(Attempts(l)') /\ Cardinality(Attempts(l)') = calls'[l]
    BY DEF Ledger
  <2>1. /\ IsFiniteSet(Through(l)) /\ Cardinality(Through(l)) <= passed[l] + open[l]
        /\ IsFiniteSet(Attempts(l)) /\ Cardinality(Attempts(l)) = calls[l]
        /\ open[l] \in Nat
    BY DEF CallsInv, Ledger, IInv, TypeOK
  <2>2. Cardinality(Through(l)) \in Nat
    BY <2>1, FS_CardinalityType
  <2> QED
    BY <1>2, <1>3, <1>5, <2>1, <2>2
<1> QED
  BY <1>1, <1>4, <1>6 DEF CallsInv

\* The bound on the limiter's requests is one on the upstreams' calls.
LEMMA CallsBound == CallsInv => UpstreamBound
<1> SUFFICES ASSUME CallsInv, NEW l \in Limiters
             PROVE  Cost * calls[l]
                      <= (MaxRetries + 1) * (Full + Elapsed + back[l] + Cost * open[l])
  BY DEF UpstreamBound
<1> DEFINE n == passed[l]
           m == open[l]
           k == MaxRetries + 1
           c == calls[l]
           bound == Full + Elapsed + back[l]
<1>0. Elapsed \in Nat
  BY MessagesAssumption DEF MessagesAssumption, CallsInv, IInv, TypeOK, Clock, Elapsed
<1>1. n \in Nat /\ m \in Nat /\ k \in Nat /\ c \in Nat /\ bound \in Nat /\ Cost \in Nat
  BY <1>0, MessagesAssumption DEF MessagesAssumption, CallsInv, IInv, TypeOK
<1>2. Cost * n <= bound
  BY IInvBound DEF CallsInv, LimiterBound
<1>3. c <= k * (n + m)
  BY CallsBounded
<1> HIDE DEF n, m, k, c, bound
<1>4. \A x, y, z \in Nat : x <= y => z * x <= z * y
  BY SMTT(30)
<1>5. n + m \in Nat /\ k * (n + m) \in Nat
  BY <1>1
<1>6. Cost * c <= Cost * (k * (n + m))
  BY <1>1, <1>3, <1>4, <1>5
<1>7. Cost * (k * (n + m)) = k * (Cost * n + Cost * m)
  BY <1>1
<1>8. Cost * n + Cost * m \in Nat /\ bound + Cost * m \in Nat
      /\ Cost * n + Cost * m <= bound + Cost * m
  <2>1. Cost * n \in Nat /\ Cost * m \in Nat
    BY <1>1
  <2> QED
    BY <1>1, <1>2, <2>1
<1>9. k * (Cost * n + Cost * m) <= k * (bound + Cost * m)
  BY <1>1, <1>4, <1>8
<1>10. Cost * c <= k * (bound + Cost * m)
  <2>1. Cost * c \in Int /\ k * (Cost * n + Cost * m) \in Int /\ k * (bound + Cost * m) \in Int
    BY <1>1
  <2> QED
    BY <1>6, <1>7, <1>9, <2>1
<1> QED
  BY <1>10 DEF n, m, k, c, bound

\* What the upstreams see: each request let through, by a limiter or by a failing
\* Redis, is sent MaxRetries + 1 times at most, whatever the limiters' clocks and keys.
THEOREM UpstreamsBound == Spec => []UpstreamBound
BY CallsInitially, CallsGoOn, CallsBound, PTL DEF Spec

-----------------------------------------------------------------------------

\* An "open" or a "closed", which brings every breaker into the same state.
Decides(m) == m # "halfOpen"

\* The modes of a breaker that received l from the beginning on.
Listens(q, l) ==
  /\ q \in [0..Len(l) -> S!Modes]
  /\ \A n \in 1..Len(l) : q[n] = S!Applied(l[n], q[n-1])

ToSend(i, m) == \E n \in 1..Len(sending[i]) : sending[i][n] = m
ToReceive(i, m) == \E n \in next[i]..Len(log) : log[n] = m

\* Something on its way will decide.
Undecided(i) == \E m \in S!Modes : Decides(m) /\ (ToSend(i, m) \/ ToReceive(i, m))

\* Instance i follows the listener q, but for what it has to send or receive.
Follows(i, q) ==
  \/ Undecided(i)
  \/ mode[i] = q[next[i] - 1]
  \/ /\ mode[i] = "halfOpen" /\ q[next[i] - 1] = "open"
     /\ ToSend(i, "halfOpen") \/ ToReceive(i, "halfOpen")

AllFollow(q) == unsent \/ \A i \in Instances \ missed : Follows(i, q)

SyncTyped ==
  /\ mode \in [Instances -> S!Modes]
  /\ sending \in [Instances -> Seq(S!Modes)]
  /\ log \in Seq(S!Modes)
  /\ next \in [Instances -> Nat \ {0}]
  /\ \A i \in Instances : next[i] <= Len(log) + 1
  /\ missed \subseteq Instances
  /\ unsent \in BOOLEAN

SyncInv == SyncTyped /\ \E q : Listens(q, log) /\ AllFollow(q)

-----------------------------------------------------------------------------
(* Sequences *)

\* What is left of a sequence without its n-th element: the others.
LEMMA WithoutKeeps ==
  ASSUME NEW E, NEW s \in Seq(E), NEW n \in 1..Len(s)
  PROVE  /\ S!Without(s, n) \in Seq(E)
         /\ \A k \in 1..Len(s) : k # n =>
              \E j \in 1..Len(S!Without(s, n)) : S!Without(s, n)[j] = s[k]
<1> DEFINE a == SubSeq(s, 1, n - 1)
           b == SubSeq(s, n + 1, Len(s))
<1>1. /\ a \in Seq(E) /\ Len(a) = n - 1
      /\ \A k \in 1..(n - 1) : a[k] = s[k]
  <2>1. 1 \in Int /\ n - 1 \in Int /\ \A k \in 1..(n - 1) : s[k] \in E
    OBVIOUS
  <2>2. /\ a \in Seq(E) /\ Len(a) = IF 1 <= n - 1 THEN (n - 1) - 1 + 1 ELSE 0
        /\ \A k \in 1..((n - 1) - 1 + 1) : a[k] = s[1 + k - 1]
    BY <2>1, SubSeqProperties
  <2> HIDE DEF a
  <2> QED
    BY <2>2
<1>2. /\ b \in Seq(E) /\ Len(b) = Len(s) - n
      /\ \A k \in 1..(Len(s) - n) : b[k] = s[n + k]
  <2>1. n + 1 \in Int /\ Len(s) \in Int /\ \A k \in (n + 1)..Len(s) : s[k] \in E
    OBVIOUS
  <2>2. /\ b \in Seq(E) /\ Len(b) = IF n + 1 <= Len(s) THEN Len(s) - (n + 1) + 1 ELSE 0
        /\ \A k \in 1..(Len(s) - (n + 1) + 1) : b[k] = s[(n + 1) + k - 1]
    BY <2>1, SubSeqProperties
  <2> HIDE DEF b
  <2> QED
    BY <2>2
<1> HIDE DEF a, b
<1> DEFINE w == a \o b
<1>3. /\ w \in Seq(E) /\ Len(w) = Len(s) - 1
      /\ \A k \in 1..(Len(s) - 1) : w[k] = IF k <= n - 1 THEN a[k] ELSE b[k - (n - 1)]
  <2>1. /\ w \in Seq(E) /\ Len(w) = Len(a) + Len(b)
        /\ \A k \in 1..(Len(a) + Len(b)) : w[k] = IF k <= Len(a) THEN a[k] ELSE b[k - Len(a)]
    BY <1>1, <1>2, ConcatProperties
  <2> HIDE DEF w
  <2> QED
    BY <2>1, <1>1, <1>2
<1>4. S!Without(s, n) = w
  BY DEF S!Without, a, b
<1> HIDE DEF w
<1>5. \A k \in 1..(n - 1) : k \in 1..(Len(s) - 1) /\ w[k] = s[k]
  BY <1>1, <1>3
<1>6. ASSUME NEW k \in (n + 1)..Len(s)
      PROVE  k - 1 \in 1..(Len(s) - 1) /\ w[k - 1] = s[k]
  <2>1. k - 1 \in 1..(Len(s) - 1) /\ k - n \in 1..(Len(s) - n) /\ ~(k - 1 <= n - 1)
    OBVIOUS
  <2>2. (k - 1) - (n - 1) = k - n /\ n + (k - n) = k
    OBVIOUS
  <2>3. w[k - 1] = b[k - n]
    BY <1>3, <2>1, <2>2
  <2> QED
    BY <1>2, <2>1, <2>2, <2>3
<1>7. \A k \in 1..Len(s) : k # n => k \in 1..(n - 1) \/ k \in (n + 1)..Len(s)
  OBVIOUS
<1> QED
  BY <1>3, <1>4, <1>5, <1>6, <1>7

\* Applying a message to a mode gives a mode; one that decides gives itself.
LEMMA AppliedMode ==
  ASSUME NEW m \in S!Modes, NEW old \in S!Modes
  PROVE  S!Applied(m, old) \in S!Modes /\ (Decides(m) => S!Applied(m, old) = m)
  BY DEF S!Applied, Decides, S!Modes

\* A listener goes on listening.
LEMMA ListensOn ==
  ASSUME NEW l \in Seq(S!Modes), NEW m \in S!Modes, NEW q, Listens(q, l)
  PROVE  \E p : /\ Listens(p, Append(l, m))
                /\ \A n \in 0..Len(l) : p[n] = q[n]
<1> DEFINE p == [n \in 0..(Len(l) + 1) |-> IF n <= Len(l) THEN q[n] ELSE S!Applied(m, q[Len(l)])]
<1>1. q[Len(l)] \in S!Modes
  BY DEF Listens
<1>2. p \in [0..(Len(l) + 1) -> S!Modes]
  BY <1>1, AppliedMode DEF Listens
<1>3. \A n \in 0..Len(l) : p[n] = q[n]
  OBVIOUS
<1>4. p[Len(l) + 1] = S!Applied(m, q[Len(l)])
  OBVIOUS
<1>5. ASSUME NEW n \in 1..(Len(l) + 1)
      PROVE  p[n] = S!Applied(Append(l, m)[n], p[n-1])
  <2>1. CASE n <= Len(l)
    BY <2>1, <1>3 DEF Listens
  <2>2. CASE n = Len(l) + 1
    BY <2>2, <1>3, <1>4
  <2> QED
    BY <2>1, <2>2
<1> HIDE DEF p
<1> QED
  BY <1>2, <1>3, <1>5 DEF Listens

-----------------------------------------------------------------------------
(* The invariant *)

\* At the beginning everybody is closed, as is who listens.
LEMMA SyncInitially == S!Init => SyncInv
<1> SUFFICES ASSUME S!Init PROVE SyncInv
  OBVIOUS
<1> DEFINE q == [n \in 0..0 |-> "closed"]
<1>1. SyncTyped
  <2>1. << >> \in Seq(S!Modes) /\ Len(<< >>) = 0
    OBVIOUS
  <2>2. log \in Seq(S!Modes) /\ Len(log) = 0 /\ sending \in [Instances -> Seq(S!Modes)]
    BY <2>1 DEF S!Init
  <2>3. \A i \in Instances : next[i] = 1
    BY DEF S!Init
  <2>4. \A i \in Instances : next[i] <= Len(log) + 1
    <3>1. 1 <= Len(log) + 1
      BY <2>2
    <3> QED
      BY <3>1, <2>3
  <2>5. mode \in [Instances -> S!Modes] /\ next \in [Instances -> Nat \ {0}]
    BY DEF S!Init, S!Modes
  <2> QED
    BY <2>2, <2>4, <2>5 DEF S!Init, SyncTyped
<1>2. Listens(q, log)
  BY DEF S!Init, Listens, S!Modes
<1>3. AllFollow(q)
  BY DEF S!Init, AllFollow, Follows
<1> QED
  BY <1>1, <1>2, <1>3 DEF SyncInv

\* Each step keeps the types.
LEMMA SyncStaysTyped == SyncTyped /\ [S!Next]_(S!vars) => SyncTyped'
<1> SUFFICES ASSUME SyncTyped, [S!Next]_(S!vars) PROVE SyncTyped'
  OBVIOUS
<1> USE DEF SyncTyped
<1>1. ASSUME NEW i \in Instances, S!Transition(i) PROVE SyncTyped'
  <2>1. PICK from \in S!Modes, to \in S!Modes : S!TransitionTo(i, from, to)
    BY <1>1 DEF S!Transition, S!Modes
  <2>2. Append(sending[i], to) \in Seq(S!Modes)
    OBVIOUS
  <2> QED
    BY <2>1, <2>2 DEF S!TransitionTo
<1>2. ASSUME NEW i \in Instances, NEW n \in 1..Len(sending[i]),
             sending' = [sending EXCEPT ![i] = S!Without(@, n)],
             \/ log' = log \/ log' = Append(log, sending[i][n]),
             UNCHANGED <<mode, next, missed>>, unsent' \in BOOLEAN
      PROVE  SyncTyped'
  <2>1. sending[i] \in Seq(S!Modes) /\ sending[i][n] \in S!Modes
    BY <1>2
  <2>2. S!Without(sending[i], n) \in Seq(S!Modes)
    BY <2>1, WithoutKeeps
  <2>3. sending' \in [Instances -> Seq(S!Modes)]
    BY <1>2, <2>2
  <2>4. log' \in Seq(S!Modes) /\ Len(log') >= Len(log)
    <3>1. /\ Append(log, sending[i][n]) \in Seq(S!Modes)
          /\ Len(Append(log, sending[i][n])) = Len(log) + 1
      BY <2>1, AppendProperties
    <3>2. log \in Seq(S!Modes) /\ Len(log) \in Nat
      OBVIOUS
    <3>3. CASE log' = log
      BY <3>2, <3>3
    <3>4. CASE log' = Append(log, sending[i][n])
      <4>1. log' \in Seq(S!Modes) /\ Len(log') = Len(log) + 1
        BY <3>1, <3>4
      <4> QED
        BY <3>2, <4>1
    <3> QED
      BY <1>2, <3>3, <3>4
  <2> QED
    BY <1>2, <2>3, <2>4
<1>3. ASSUME NEW i \in Instances, S!Publish(i) \/ S!PublishFails(i) PROVE SyncTyped'
  BY <1>2, <1>3 DEF S!Publish, S!PublishFails
<1>4. ASSUME NEW i \in Instances, S!Receive(i) PROVE SyncTyped'
  <2>1. log[next[i]] \in S!Modes /\ mode[i] \in S!Modes
    BY <1>4 DEF S!Receive
  <2>2. S!Applied(log[next[i]], mode[i]) \in S!Modes
    BY <2>1, AppliedMode
  <2> QED
    BY <1>4, <2>2 DEF S!Receive
<1>5. ASSUME NEW i \in Instances, S!Miss(i) PROVE SyncTyped'
  BY <1>5 DEF S!Miss
<1>6. CASE UNCHANGED S!vars
  BY <1>6 DEF S!vars
<1> QED
  BY <1>1, <1>3, <1>4, <1>5, <1>6 DEF S!Next

\* A change of its own is something to send: a deciding one, or a "halfOpen" where
\* the listener is open.
LEMMA TransitionFollows ==
  ASSUME SyncTyped, SyncTyped', NEW q, Listens(q, log), AllFollow(q),
         NEW i \in Instances, S!Transition(i)
  PROVE  AllFollow(q)'
<1> SUFFICES ASSUME ~unsent, NEW j \in Instances \ missed PROVE Follows(j, q)'
  BY DEF AllFollow, S!Transition, S!TransitionTo
<1> USE DEF SyncTyped
<1>1. PICK from \in S!Modes, to \in S!Modes :
        S!TransitionTo(i, from, to) /\ (to = "halfOpen" => from = "open")
  BY DEF S!Transition, S!Modes
<1>2. Follows(j, q)
  BY <1>1 DEF AllFollow, S!TransitionTo
<1>3. CASE j # i
  BY <1>1, <1>2, <1>3 DEF S!TransitionTo, Follows, Undecided, ToSend, ToReceive
<1>4. CASE j = i
  <2>1. /\ Len(sending'[i]) = Len(sending[i]) + 1
        /\ sending'[i][Len(sending[i]) + 1] = to
        /\ \A n \in 1..Len(sending[i]) : sending'[i][n] = sending[i][n]
    BY <1>1 DEF S!TransitionTo
  <2>2. /\ ToSend(i, to)'
        /\ \A m : ToSend(i, m) => ToSend(i, m)'
        /\ \A m : ToReceive(i, m) => ToReceive(i, m)'
    BY <1>1, <2>1 DEF S!TransitionTo, ToSend, ToReceive
  <2>3. CASE Decides(to) \/ Undecided(i)
    BY <1>4, <2>2, <2>3 DEF Follows, Undecided
  <2>4. CASE ~Decides(to) /\ ~Undecided(i)
    <3>1. to = "halfOpen" /\ mode[i] = "open" /\ mode'[i] = "halfOpen" /\ next' = next
      BY <1>1, <2>4 DEF S!TransitionTo, Decides
    <3>2. q[next[i] - 1] = "open"
      BY <1>2, <1>4, <2>4, <3>1 DEF Follows
    <3> QED
      BY <1>4, <2>2, <3>1, <3>2 DEF Follows
  <2> QED
    BY <2>3, <2>4
<1> QED
  BY <1>3, <1>4

\* What is published was to be sent, and is to be received by all.
LEMMA PublishFollows ==
  ASSUME SyncTyped, SyncTyped', NEW q, Listens(q, log), AllFollow(q),
         NEW i \in Instances, S!Publish(i)
  PROVE  \E p : Listens(p, log') /\ AllFollow(p)'
<1> USE DEF SyncTyped
<1>1. PICK k \in 1..Len(sending[i]) :
        /\ log' = Append(log, sending[i][k])
        /\ sending' = [sending EXCEPT ![i] = S!Without(@, k)]
        /\ unsent' = (unsent /\ sending[i][k] = "halfOpen")
        /\ UNCHANGED <<mode, next, changes, missed>>
  BY DEF S!Publish
<1>2. PICK m \in S!Modes : m = sending[i][k]
  OBVIOUS
<1>3. PICK p : Listens(p, log') /\ \A n \in 0..Len(log) : p[n] = q[n]
  BY <1>1, <1>2, ListensOn
<1>4. /\ Len(log') = Len(log) + 1 /\ log'[Len(log) + 1] = m
      /\ \A n \in 1..Len(log) : log'[n] = log[n]
  BY <1>1, <1>2
<1> SUFFICES ASSUME ~unsent', NEW j \in Instances \ missed PROVE Follows(j, p)'
  BY <1>1, <1>3 DEF AllFollow
<1>5. ToReceive(j, m)' /\ \A x : ToReceive(j, x) => ToReceive(j, x)'
  <2>1. next' = next /\ next[j] \in 1..(Len(log) + 1) /\ Len(log) \in Nat
    BY <1>1
  <2>2. ToReceive(j, m)'
    <3>1. Len(log) + 1 \in next'[j]..Len(log')
      BY <1>4, <2>1
    <3> QED
      BY <1>4, <3>1 DEF ToReceive
  <2>3. ASSUME NEW x, ToReceive(j, x) PROVE ToReceive(j, x)'
    <3>1. PICK n \in next[j]..Len(log) : log[n] = x
      BY <2>3 DEF ToReceive
    <3>2. n \in 1..Len(log) /\ n \in next'[j]..Len(log')
      BY <1>4, <2>1
    <3> QED
      BY <1>4, <3>1, <3>2 DEF ToReceive
  <2> QED
    BY <2>2, <2>3
<1>6. ASSUME NEW x, ToSend(j, x) PROVE ToSend(j, x)' \/ x = m
  <2>1. PICK n \in 1..Len(sending[j]) : sending[j][n] = x
    BY <1>6 DEF ToSend
  <2>2. CASE j # i
    BY <1>1, <2>1, <2>2 DEF ToSend
  <2>3. CASE j = i /\ n # k
    <3>1. \E l \in 1..Len(S!Without(sending[i], k)) : S!Without(sending[i], k)[l] = sending[i][n]
      <4>1. sending[i] \in Seq(S!Modes) /\ n \in 1..Len(sending[i])
        BY <2>1, <2>3
      <4> QED
        BY <4>1, <2>3, WithoutKeeps
    <3> QED
      BY <1>1, <2>1, <2>3, <3>1 DEF ToSend
  <2> QED
    BY <1>2, <1>6, <2>1, <2>2, <2>3
<1>7. CASE Decides(m)
  BY <1>2, <1>5, <1>7 DEF Follows, Undecided
<1>8. CASE ~Decides(m)
  <2>1. Follows(j, q)
    BY <1>1, <1>2, <1>8 DEF AllFollow, Decides
  <2>2. p[next[j] - 1] = q[next[j] - 1] /\ next' = next /\ mode' = mode
    BY <1>1, <1>3
  <2>3. CASE Undecided(j)
    BY <1>5, <1>6, <1>8, <2>3 DEF Follows, Undecided
  <2>4. CASE ~Undecided(j)
    BY <1>5, <1>6, <1>8, <2>1, <2>2, <2>4 DEF Follows, Decides
  <2> QED
    BY <2>3, <2>4
<1> QED
  BY <1>7, <1>8

\* What decides is received the way the listener receives it, and a "halfOpen" too,
\* whether the instance is like the listener or half-open already.
LEMMA ReceiveFollows ==
  ASSUME SyncTyped, SyncTyped', NEW q, Listens(q, log), AllFollow(q),
         NEW i \in Instances, S!Receive(i)
  PROVE  AllFollow(q)'
<1> USE DEF SyncTyped
<1> SUFFICES ASSUME ~unsent, NEW j \in Instances \ missed' PROVE Follows(j, q)'
  BY DEF AllFollow, S!Receive
<1>1. /\ next[i] \in 1..Len(log) /\ log[next[i]] \in S!Modes
      /\ next'[i] = next[i] + 1 /\ log' = log /\ sending' = sending
      /\ mode'[i] = S!Applied(log[next[i]], mode[i])
  BY DEF S!Receive
<1>2. CASE j # i
  <2>1. j \notin missed /\ next'[j] = next[j] /\ mode'[j] = mode[j]
    BY <1>2 DEF S!Receive
  <2>2. Follows(j, q)
    BY <2>1 DEF AllFollow
  <2> QED
    BY <1>1, <2>1, <2>2 DEF Follows, Undecided, ToSend, ToReceive
<1>3. CASE j = i
  <2>1. /\ q[next[i]] = S!Applied(log[next[i]], q[next[i] - 1])
        /\ q[next[i] - 1] \in S!Modes /\ next'[i] - 1 = next[i]
    BY <1>1 DEF Listens
  <2>2. CASE Decides(log[next[i]])
    <3>1. mode'[i] = log[next[i]] /\ q[next[i]] = log[next[i]]
      BY <1>1, <2>1, <2>2, AppliedMode
    <3> QED
      BY <1>3, <2>1, <3>1 DEF Follows
  <2>3. CASE ~Decides(log[next[i]])
    <3>1. log[next[i]] = "halfOpen" /\ i \notin missed
      BY <1>3, <2>3 DEF Decides, S!Receive
    <3>2. Follows(i, q)
      BY <3>1 DEF AllFollow
    <3>3. CASE Undecided(i)
      <4>1. PICK m \in S!Modes : Decides(m) /\ (ToSend(i, m) \/ ToReceive(i, m))
        BY <3>3 DEF Undecided
      <4>2. ToSend(i, m) => ToSend(i, m)'
        BY <1>1 DEF ToSend
      <4>3. ASSUME ToReceive(i, m) PROVE ToReceive(i, m)'
        <5>1. PICK n \in next[i]..Len(log) : log[n] = m
          BY <4>3 DEF ToReceive
        <5>2. n # next[i]
          BY <4>1, <5>1, <2>3
        <5>3. n \in next'[i]..Len(log')
          BY <1>1, <5>2
        <5> QED
          BY <1>1, <5>1, <5>3 DEF ToReceive
      <4> QED
        BY <1>3, <4>1, <4>2, <4>3 DEF Follows, Undecided
    <3>4. CASE mode[i] = q[next[i] - 1]
      BY <1>1, <1>3, <2>1, <3>4 DEF Follows
    <3>5. CASE mode[i] = "halfOpen" /\ q[next[i] - 1] = "open"
      BY <1>1, <1>3, <2>1, <3>1, <3>5 DEF Follows, S!Applied
    <3> QED
      BY <3>2, <3>3, <3>4, <3>5 DEF Follows
  <2> QED
    BY <2>2, <2>3
<1> QED
  BY <1>2, <1>3

\* An instance that misses a message is left out, until something decides.
LEMMA MissFollows ==
  ASSUME SyncTyped, SyncTyped', NEW q, Listens(q, log), AllFollow(q),
         NEW i \in Instances, S!Miss(i)
  PROVE  AllFollow(q)'
<1> USE DEF SyncTyped
<1> SUFFICES ASSUME ~unsent, NEW j \in Instances \ missed' PROVE Follows(j, q)'
  BY DEF AllFollow, S!Miss
<1>1. j \notin missed /\ j # i
  BY DEF S!Miss
<1>2. Follows(j, q)
  BY <1>1 DEF AllFollow
<1> QED
  BY <1>1, <1>2 DEF S!Miss, Follows, Undecided, ToSend, ToReceive

\* Every step of the broadcast.
LEMMA SyncGoesOn == SyncInv /\ [S!Next]_(S!vars) => SyncInv'
<1> SUFFICES ASSUME SyncInv, [S!Next]_(S!vars) PROVE SyncInv'
  OBVIOUS
<1>1. SyncTyped /\ SyncTyped'
  BY SyncStaysTyped DEF SyncInv
<1>2. PICK q : Listens(q, log) /\ AllFollow(q)
  BY DEF SyncInv
<1>3. ASSUME NEW i \in Instances, S!Transition(i) PROVE SyncInv'
  <2>1. log' = log
    BY <1>3 DEF S!Transition, S!TransitionTo
  <2> QED
    BY <1>1, <1>2, <1>3, <2>1, TransitionFollows DEF SyncInv
<1>4. ASSUME NEW i \in Instances, S!Publish(i) PROVE SyncInv'
  BY <1>1, <1>2, <1>4, PublishFollows DEF SyncInv
<1>5. ASSUME NEW i \in Instances, S!PublishFails(i) PROVE SyncInv'
  <2>1. log' = log /\ unsent'
    BY <1>5 DEF S!PublishFails
  <2> QED
    BY <1>1, <1>2, <2>1 DEF SyncInv, AllFollow
<1>6. ASSUME NEW i \in Instances, S!Receive(i) PROVE SyncInv'
  <2>1. log' = log
    BY <1>6 DEF S!Receive
  <2> QED
    BY <1>1, <1>2, <1>6, <2>1, ReceiveFollows DEF SyncInv
<1>7. ASSUME NEW i \in Instances, S!Miss(i) PROVE SyncInv'
  <2>1. log' = log
    BY <1>7 DEF S!Miss
  <2> QED
    BY <1>1, <1>2, <1>7, <2>1, MissFollows DEF SyncInv
<1>8. CASE UNCHANGED S!vars
  BY <1>1, <1>2, <1>8
     DEF SyncInv, S!vars, AllFollow, Follows, Undecided, ToSend, ToReceive
<1> QED
  BY <1>3, <1>4, <1>5, <1>6, <1>7, <1>8 DEF S!Next

\* At rest nothing is to be sent or received, so who follows the listener is where
\* it is after the last message.
LEMMA SyncAgrees == SyncInv => S!AgreeWhenQuiet
<1> SUFFICES ASSUME SyncInv, S!Quiet, ~unsent, NEW i \in Instances \ missed
             PROVE  \A q : Listens(q, log) /\ AllFollow(q) => mode[i] = q[Len(log)]
  BY DEF S!AgreeWhenQuiet, SyncInv
<1> SUFFICES ASSUME NEW q, AllFollow(q) PROVE mode[i] = q[Len(log)]
  OBVIOUS
<1>1. Len(log) \in Nat /\ next[i] = Len(log) + 1 /\ Len(sending[i]) = 0
  BY DEF SyncInv, SyncTyped, S!Quiet
<1>2. \A m : ~ToSend(i, m) /\ ~ToReceive(i, m)
  BY <1>1 DEF ToSend, ToReceive
<1> QED
  BY <1>1, <1>2 DEF AllFollow, Follows, Undecided

-----------------------------------------------------------------------------
\* Changes, messages and places, and the bound on the changes.
LEMMA SyncTypes ==
  /\ S!Init => S!TypeOK
  /\ S!TypeOK /\ [S!Next]_(S!vars) => S!TypeOK'
<1>1. S!Init => S!TypeOK
  <2>1. 0 \in 0..MaxChanges
    BY PartsAssumption DEF PartsAssumption
  <2> QED
    BY <2>1, SyncInitially DEF S!Init, SyncInv, SyncTyped, S!TypeOK
<1>2. S!TypeOK /\ [S!Next]_(S!vars) => S!TypeOK'
  <2> SUFFICES ASSUME S!TypeOK, [S!Next]_(S!vars) PROVE S!TypeOK'
    OBVIOUS
  <2>1. SyncTyped'
    BY SyncStaysTyped DEF S!TypeOK, SyncTyped
  <2>2. changes' \in 0..MaxChanges
    BY PartsAssumption
    DEF S!TypeOK, S!Next, S!Transition, S!TransitionTo, S!Publish, S!PublishFails, S!Receive,
        S!Miss, S!vars, PartsAssumption
  <2> QED
    BY <2>1, <2>2 DEF SyncTyped, S!TypeOK
<1> QED
  BY <1>1, <1>2

\* Changes, messages and places are well formed, for any bound on the changes.
THEOREM SyncTypeCorrect == S!Spec => []S!TypeOK
BY SyncTypes, PTL DEF S!Spec

\* The broadcast of breaker states, for any number of instances and changes: when
\* all is sent and received, instances that missed nothing agree.
THEOREM InstancesAgree == S!Spec => []S!AgreeWhenQuiet
BY SyncInitially, SyncGoesOn, SyncAgrees, PTL DEF S!Spec

-----------------------------------------------------------------------------
(* Retries: what is left of the budget at each point of an attempt. *)

\* Twice itself n times: as many as there are sets of n numbers.
LEMMA PowersOfTwo == \A n \in Nat : 2 ^ n \in Nat
<1> SUFFICES ASSUME NEW n \in Nat PROVE 2 ^ n \in Nat
  OBVIOUS
<1>1. IsFiniteSet(1..n) /\ Cardinality(1..n) = n
  <2>1. 1 \in Int /\ n \in Int
    OBVIOUS
  <2>2. IsFiniteSet(1..n) /\ Cardinality(1..n) = IF 1 > n THEN 0 ELSE n - 1 + 1
    BY <2>1, FS_Interval
  <2>3. CASE 1 > n
    <3>1. n = 0
      BY <2>3
    <3> QED
      BY <2>2, <2>3, <3>1
  <2>4. CASE ~(1 > n)
    <3>1. n - 1 + 1 = n
      OBVIOUS
    <3> QED
      BY <2>2, <2>4, <3>1
  <2> QED
    BY <2>3, <2>4
<1>2. /\ IsFiniteSet(SUBSET (1..n))
      /\ Cardinality(SUBSET (1..n)) = 2 ^ Cardinality(1..n)
  BY <1>1, FS_SUBSET
<1>3. Cardinality(SUBSET (1..n)) \in Nat
  BY <1>2, FS_CardinalityType
<1> QED
  BY <1>1, <1>2, <1>3

\* Settings are positive, whether configured or not, and times are numbers.
BackoffTyped ==
  /\ config \in [base : Nat \ {0}, max : Nat \ {0}, attempts : Nat \ {0}]
  /\ jitter \in B!Jitters
  /\ deadline \in Nat \union {None} /\ timeout \in Nat
  /\ clock \in Nat /\ try \in Nat /\ try <= config.attempts
  /\ tryUntil \in Nat /\ tryAt \in {"check", "wait", "run", "done"}

\* Each attempt has paid for its timeout as it fails, and each retry for its delay
\* as it begins.
Budget ==
  /\ tryAt = "check" /\ try = 0 => clock = 0
  /\ tryAt = "wait" => try > 0
  /\ tryAt \in {"check", "wait"} /\ try > 0 =>
       clock + config.max <= try * timeout + try * config.max
  /\ tryAt = "run" => /\ clock <= tryUntil
                      /\ tryUntil <= (try + 1) * timeout + try * config.max
                      /\ deadline # None => tryUntil <= deadline
  /\ clock <= (try + 1) * timeout + try * config.max
  /\ deadline # None => clock <= deadline

BackoffInv == BackoffTyped /\ Budget

\* No delay is longer than the largest one configured, whatever the jitter draws.
LEMMA DelaysBounded ==
  ASSUME BackoffTyped, NEW n \in Nat, NEW delay \in B!Delays(n)
  PROVE  delay \in Nat /\ delay <= config.max
<1>1. config.base \in Nat /\ config.max \in Nat /\ 2 ^ n \in Nat
  BY PowersOfTwo DEF BackoffTyped
<1>2. config.base * 2 ^ n \in Nat
  BY <1>1
<1>3. B!Ceiling(n) \in Nat /\ B!Ceiling(n) <= config.max
  BY <1>1, <1>2 DEF B!Ceiling, B!Lesser
<1>4. CASE jitter = "full"
  <2>1. delay \in 0..B!Ceiling(n)
    BY <1>4 DEF B!Delays
  <2> QED
    BY <1>1, <1>3, <2>1
<1>5. CASE jitter = "equal"
  <2>1. delay \in (B!Ceiling(n) \div 2)..B!Ceiling(n)
    BY <1>5 DEF B!Delays
  <2> QED
    BY <1>1, <1>3, <2>1
<1>6. CASE jitter = "decorrelated"
  <2> DEFINE prev == config.base * (IF n = 0 THEN 1 ELSE 2 ^ (n - 1))
  <2>1. prev \in Nat
    <3>1. (IF n = 0 THEN 1 ELSE 2 ^ (n - 1)) \in Nat
      BY PowersOfTwo
    <3> QED
      BY <1>1, <3>1
  <2>2. delay \in 0..B!Lesser(B!Ceiling(n), 3 * prev)
    BY <1>6 DEF B!Delays
  <2> HIDE DEF prev
  <2>3. B!Lesser(B!Ceiling(n), 3 * prev) \in Nat /\ B!Lesser(B!Ceiling(n), 3 * prev) <= B!Ceiling(n)
    BY <1>3, <2>1 DEF B!Lesser
  <2> QED
    BY <1>1, <1>3, <2>2, <2>3
<1> QED
  BY <1>4, <1>5, <1>6 DEF BackoffTyped, B!Jitters

\* An attempt's deadline: not after its timeout nor the caller's own, nor before now.
LEMMA CascadingBounded ==
  ASSUME BackoffTyped, NEW t \in Nat, deadline # None => t <= deadline
  PROVE  /\ B!Cascading(t) \in Nat /\ t <= B!Cascading(t)
         /\ B!Cascading(t) <= t + timeout
         /\ deadline # None => B!Cascading(t) <= deadline
BY DEF BackoffTyped, B!Cascading

\* A retry costs another timeout and another delay.
LEMMA OneMoreTry ==
  ASSUME NEW a \in Nat, NEW t \in Nat, NEW m \in Nat
  PROVE  /\ a * t \in Nat /\ a * m \in Nat
         /\ (a + 1) * t = a * t + t /\ (a + 1) * m = a * m + m
         /\ ((a + 1) + 1) * t = (a + 1) * t + t
         /\ (a + 1) * t \in Nat /\ (a + 1) * m \in Nat
OBVIOUS

\* NewExponentialBackoff leaves no setting at zero or below.
LEMMA BackoffInitially == B!Init => BackoffInv
<1> SUFFICES ASSUME B!Init PROVE BackoffInv
  OBVIOUS
<1>1. PICK c \in Configs : config = B!NewExponentialBackoff(c)
  BY DEF B!Init
<1>2. c \in [base : Int, max : Int, attempts : Int]
      /\ Defaults \in [base : Nat \ {0}, max : Nat \ {0}, attempts : Nat \ {0}]
  BY BackoffAssumption DEF BackoffAssumption
<1>3. config \in [base : Nat \ {0}, max : Nat \ {0}, attempts : Nat \ {0}]
  BY <1>1, <1>2 DEF B!NewExponentialBackoff, B!Positive
<1>4. BackoffTyped
  BY <1>3, BackoffAssumption DEF BackoffAssumption, B!Init, BackoffTyped
<1>5. (try + 1) * timeout \in Nat /\ try * config.max \in Nat
  BY <1>4 DEF BackoffTyped
<1>6. Budget
  BY <1>4, <1>5, PartsAssumption DEF PartsAssumption, B!Init, BackoffTyped, Budget
<1> QED
  BY <1>4, <1>6 DEF BackoffInv

\* Every step of Do keeps within the budget.
LEMMA BackoffGoesOn == BackoffInv /\ [B!Next]_(B!vars) => BackoffInv'
<1> SUFFICES ASSUME BackoffInv, [B!Next]_(B!vars) PROVE BackoffInv'
  OBVIOUS
<1> DEFINE m == config.max
           spent == try * timeout + try * m
<1>1. /\ timeout \in Nat /\ m \in Nat /\ try \in Nat /\ clock \in Nat /\ spent \in Nat
      /\ (try + 1) * timeout + try * m = spent + timeout
      /\ (try + 1) * timeout + (try + 1) * m = spent + timeout + m
      /\ deadline \in Nat \union {None}
  <2>1. timeout \in Nat /\ m \in Nat /\ try \in Nat /\ clock \in Nat
        /\ deadline \in Nat \union {None}
    BY DEF BackoffInv, BackoffTyped
  <2> HIDE DEF m
  <2> QED
    BY <2>1, OneMoreTry
<1>2. /\ tryAt = "check" /\ try = 0 => clock = 0
      /\ tryAt = "wait" => try > 0
      /\ tryAt \in {"check", "wait"} /\ try > 0 => clock + m <= spent
      /\ tryAt = "run" => /\ clock <= tryUntil /\ tryUntil <= spent + timeout
                          /\ deadline # None => tryUntil <= deadline
      /\ clock <= spent + timeout
      /\ deadline # None => clock <= deadline
  BY <1>1 DEF BackoffInv, Budget
<1>3. CASE B!Check
  <2>1. /\ UNCHANGED <<config, jitter, deadline, timeout, clock, try>>
        /\ tryAt = "check" /\ tryAt' \in {"done", "run", "wait"}
        /\ tryAt' = "run" => try = 0 /\ tryUntil' = B!Cascading(clock)
        /\ tryAt' # "run" => tryUntil' = tryUntil
        /\ tryAt' = "wait" => try # 0
    BY <1>3 DEF B!Check, B!constant
  <2>2. /\ B!Cascading(clock) \in Nat /\ clock <= B!Cascading(clock)
        /\ B!Cascading(clock) <= clock + timeout
        /\ deadline # None => B!Cascading(clock) <= deadline
    BY <1>1, <1>2, CascadingBounded DEF BackoffInv
  <2>3. BackoffTyped'
    BY <2>1, <2>2 DEF BackoffInv, BackoffTyped
  <2>4. tryAt' = "run" => B!Cascading(clock) <= spent + timeout
    BY <1>1, <1>2, <2>1, <2>2
  <2>5. Budget'
    <3>1. m' = m /\ spent' = spent /\ (spent + timeout)' = spent + timeout
      BY <2>1
    <3>2. ((try + 1) * timeout + try * m)' = spent + timeout
      BY <1>1, <2>1
    <3> HIDE DEF spent, m
    <3>3. /\ tryAt' = "wait" => try > 0
          /\ tryAt' \in {"check", "wait"} /\ try > 0 => clock + m <= spent
          /\ tryAt' = "run" => /\ clock <= tryUntil' /\ tryUntil' <= spent + timeout
                               /\ deadline # None => tryUntil' <= deadline
      BY <1>1, <1>2, <2>1, <2>2, <2>4
    <3> QED
      BY <1>1, <1>2, <2>1, <3>1, <3>2, <3>3 DEF Budget, spent, m
  <2> QED
    BY <2>3, <2>5 DEF BackoffInv
<1>4. CASE B!Wait
  <2>1. UNCHANGED <<config, jitter, deadline, timeout, try>> /\ tryAt = "wait" /\ try > 0
    BY <1>2, <1>4 DEF B!Wait, B!constant
  <2>2. PICK delay \in B!Delays(try - 1) :
          \/ /\ deadline # None /\ clock + delay >= deadline
             /\ clock' = deadline /\ tryAt' = "done" /\ UNCHANGED tryUntil
          \/ /\ (deadline # None => clock + delay <= deadline)
             /\ clock' = clock + delay /\ tryAt' = "run" /\ tryUntil' = B!Cascading(clock')
    BY <1>4 DEF B!Wait
  <2>3. delay \in Nat /\ delay <= m
    <3>1. try - 1 \in Nat
      BY <1>1, <2>1
    <3> QED
      BY <2>2, <3>1, DelaysBounded DEF BackoffInv
  <2>4. clock + delay <= spent
    <3> HIDE DEF spent, m
    <3> QED
      BY <1>1, <1>2, <2>1, <2>3
  <2>5. /\ clock' \in Nat /\ clock' <= spent
        /\ deadline # None => clock' <= deadline
    <3> HIDE DEF spent, m
    <3> QED
      BY <1>1, <2>2, <2>3, <2>4
  <2>6. tryAt' = "run" =>
          /\ tryUntil' \in Nat /\ clock' <= tryUntil' /\ tryUntil' <= spent + timeout
          /\ deadline # None => tryUntil' <= deadline
    <3>1. /\ B!Cascading(clock') \in Nat /\ clock' <= B!Cascading(clock')
          /\ B!Cascading(clock') <= clock' + timeout
          /\ deadline # None => B!Cascading(clock') <= deadline
      BY <2>5, CascadingBounded DEF BackoffInv
    <3> HIDE DEF spent, m
    <3> QED
      BY <1>1, <2>2, <2>5, <3>1
  <2>7. tryAt' \in {"done", "run"} /\ tryUntil' \in Nat
    BY <2>2, <2>6 DEF BackoffInv, BackoffTyped
  <2>8. BackoffTyped'
    BY <2>1, <2>5, <2>7 DEF BackoffInv, BackoffTyped
  <2>9. Budget'
    <3>1. ((try + 1) * timeout + try * m)' = spent + timeout
      BY <1>1, <2>1
    <3>2. clock' <= spent + timeout
      <4> HIDE DEF spent, m
      <4> QED
        BY <1>1, <2>5
    <3>3. deadline' = deadline /\ m' = m
      BY <2>1
    <3> HIDE DEF spent
    <3> QED
      BY <2>5, <2>6, <2>7, <3>1, <3>2, <3>3 DEF Budget
  <2> QED
    BY <2>8, <2>9 DEF BackoffInv
<1>5. CASE B!Succeed \/ B!Fail
  <2>1. UNCHANGED <<config, jitter, deadline, timeout, tryUntil>> /\ tryAt = "run"
        /\ clock' \in clock..tryUntil
    BY <1>5 DEF B!Succeed, B!Fail, B!constant
  <2>2. \/ tryAt' = "done" /\ try' = try
        \/ tryAt' = "check" /\ try' = try + 1 /\ try # config.attempts
    BY <1>5 DEF B!Succeed, B!Fail
  <2>3. tryUntil \in Nat
    BY DEF BackoffInv, BackoffTyped
  <2>4. /\ clock' \in Nat /\ clock' <= spent + timeout
        /\ deadline # None => clock' <= deadline
    <3> HIDE DEF spent, m
    <3> QED
      BY <1>1, <1>2, <2>1, <2>3
  <2>5. BackoffTyped'
    <3>1. try' \in Nat /\ try' <= config.attempts
      <4>1. config.attempts \in Nat /\ try \in Nat /\ try <= config.attempts
        BY DEF BackoffInv, BackoffTyped
      <4> QED
        BY <2>2, <4>1
    <3>2. tryAt' \in {"check", "wait", "run", "done"}
      BY <2>2
    <3> QED
      BY <2>1, <2>4, <3>1, <3>2 DEF BackoffInv, BackoffTyped
  <2>6. CASE tryAt' = "done" /\ try' = try
    <3>1. ((try + 1) * timeout + try * m)' = spent + timeout
      BY <1>1, <2>1, <2>6
    <3>2. deadline' = deadline
      BY <2>1
    <3> HIDE DEF spent
    <3>3. Budget'
      BY <2>4, <2>6, <3>1, <3>2 DEF Budget
    <3> QED
      BY <2>5, <3>3 DEF BackoffInv
  <2>7. CASE tryAt' = "check" /\ try' = try + 1
    <3>1. (try * timeout + try * m)' = spent + timeout + m
      BY <1>1, <2>1, <2>7
    <3>2. ((try + 1) * timeout + try * m)' = spent + timeout + m + timeout
      <4>1. ((try + 1) + 1) * timeout = (try + 1) * timeout + timeout
        BY <1>1, OneMoreTry
      <4>2. (try + 1) * timeout \in Nat /\ (try + 1) * m \in Nat
        BY <1>1, OneMoreTry
      <4>3. ((try + 1) * timeout + try * m)' = ((try + 1) + 1) * timeout + (try + 1) * m
        BY <2>1, <2>7
      <4> HIDE DEF m, spent
      <4> QED
        BY <1>1, <4>1, <4>2, <4>3
    <3>3. deadline' = deadline /\ m' = m /\ timeout' = timeout
      BY <2>1
    <3>4. try' # 0
      BY <1>1, <2>7
    <3> HIDE DEF spent
    <3>5. clock' + m <= spent + timeout + m /\ clock' <= spent + timeout + m + timeout
      <4>1. timeout \in Nat /\ m \in Nat /\ spent \in Nat
        BY <1>1
      <4>2. clock' \in Nat /\ clock' <= spent + timeout
        BY <2>4
      <4>3. \A a, b, c, d \in Nat : a <= b + c => a + d <= b + c + d /\ a <= b + c + d + c
        OBVIOUS
      <4> HIDE DEF m
      <4> QED
        BY <4>1, <4>2, <4>3
    <3>6. Budget'
      BY <2>4, <2>7, <3>1, <3>2, <3>3, <3>4, <3>5 DEF Budget
    <3> QED
      BY <2>5, <3>6 DEF BackoffInv
  <2> QED
    BY <2>2, <2>6, <2>7
<1>6. CASE UNCHANGED B!vars
  BY <1>6 DEF B!vars, BackoffInv, BackoffTyped, Budget
<1> QED
  BY <1>3, <1>4, <1>5, <1>6 DEF B!Next

-----------------------------------------------------------------------------
(* A review's client: what it was sent is the beginning of the whole answer. *)

Sayings == {"generation", "review", "answer", "piece", "summary", "error"}

\* The whole answer, event by event.
Saying(i) ==
  IF i = 1 THEN "generation"
  ELSE IF i = Length + 2 THEN "review"
  ELSE IF i = 2 * Length + 3 THEN "summary" ELSE "piece"

Begins(s, n) == Len(s) = n /\ \A i \in 1..n : s[i] = Saying(i)

\* So much of it, then an error.
BreaksOff(s, n) ==
  Len(s) = n + 1 /\ s[n + 1] = "error" /\ \A i \in 1..n : s[i] = Saying(i)

\* Events sent by now: a phase's name and the pieces of its answer.
Said == (IF phase = 1 THEN 1 ELSE Length + 2) + copied

ReviewSaid ==
  /\ at = "lookup" => events = <<>>
  /\ at \in {"attempt", "copy"} => Begins(events, Said)
  /\ at = "done" => \/ events = <<>>
                    \/ Begins(events, 2 * Length + 3)
                    \/ \E n \in 0..(2 * Length + 3) : BreaksOff(events, n)

UpstreamInv ==
  /\ U!TypeOK /\ events \in Seq(Sayings) /\ copied <= Length
  /\ at = "lookup" => caller = "review" /\ phase = 1 /\ attempt = 0
  /\ at \in {"lookup", "attempt"} => copied = 0
  /\ caller = "review" => ReviewSaid

\* A review has two phases, a call of the gateway one.
LEMMA PhasesOfCallers ==
  /\ U!Callers = {"gateway", "review"}
  /\ U!Phases["gateway"] = <<"answer">> /\ U!Phases["review"] = <<"generation", "review">>
  /\ caller = "gateway" => U!Final = 1
  /\ caller = "review" => U!Final = 2
BY DEF U!Callers, U!Phases, U!Final

\* One more event.
LEMMA SaysMore ==
  ASSUME NEW s \in Seq(Sayings), NEW e \in Sayings
  PROVE  /\ Append(s, e) \in Seq(Sayings) /\ Append(s, e) # <<>>
         /\ \A n \in Nat : Begins(s, n) /\ e = Saying(n + 1) => Begins(Append(s, e), n + 1)
         /\ \A n \in Nat : Begins(s, n) /\ e = "error" => BreaksOff(Append(s, e), n)
<1>1. /\ Append(s, e) \in Seq(Sayings) /\ Append(s, e) # <<>>
      /\ Len(Append(s, e)) = Len(s) + 1
      /\ \A i \in 1..Len(s) : Append(s, e)[i] = s[i]
      /\ Append(s, e)[Len(s) + 1] = e
  BY AppendProperties
<1> DEFINE t == Append(s, e)
<1> HIDE DEF t
<1>2. ASSUME NEW n \in Nat, Begins(s, n), e = Saying(n + 1) PROVE Begins(t, n + 1)
  <2>1. ASSUME NEW i \in 1..(n + 1) PROVE t[i] = Saying(i)
    <3>1. CASE i = n + 1
      BY <1>1, <1>2, <3>1 DEF Begins, t
    <3>2. CASE i \in 1..n
      BY <1>1, <1>2, <3>2 DEF Begins, t
    <3> QED
      BY <3>1, <3>2
  <2> QED
    BY <1>1, <1>2, <2>1 DEF Begins, t
<1>3. ASSUME NEW n \in Nat, Begins(s, n), e = "error" PROVE BreaksOff(t, n)
  BY <1>1, <1>3 DEF Begins, BreaksOff, t
<1> QED
  BY <1>1, <1>2, <1>3 DEF t

\* Whole, event by event.
LEMMA WholeIs ==
  /\ U!Whole \in Seq(Sayings) /\ Len(U!Whole) = 2 * Length + 3
  /\ \A i \in 1..(2 * Length + 3) : U!Whole[i] = Saying(i)
<1> DEFINE p == U!Pieces
           a == <<"generation">>
           b == a \o p
           c == b \o <<"review">>
           d == c \o p
           w == d \o <<"summary">>
<1>1. Length \in Nat
  BY PartsAssumption DEF PartsAssumption
<1>2. p \in Seq(Sayings) /\ Len(p) = Length /\ \A i \in 1..Length : p[i] = "piece"
  BY <1>1 DEF U!Pieces, Sayings
<1>3. /\ a \in Seq(Sayings) /\ Len(a) = 1 /\ a[1] = "generation"
      /\ <<"review">> \in Seq(Sayings) /\ Len(<<"review">>) = 1 /\ <<"review">>[1] = "review"
      /\ <<"summary">> \in Seq(Sayings) /\ Len(<<"summary">>) = 1 /\ <<"summary">>[1] = "summary"
  BY DEF Sayings
<1> HIDE DEF p, a
<1>4. /\ b \in Seq(Sayings) /\ Len(b) = Length + 1
      /\ b[1] = "generation" /\ \A i \in 2..(Length + 1) : b[i] = "piece"
  <2>1. /\ b \in Seq(Sayings) /\ Len(b) = Len(a) + Len(p)
        /\ \A i \in 1..(Len(a) + Len(p)) : b[i] = IF i <= Len(a) THEN a[i] ELSE p[i - Len(a)]
    BY <1>2, <1>3, ConcatProperties
  <2> HIDE DEF b
  <2>2. \A i \in 1..(1 + Length) : b[i] = IF i <= 1 THEN a[i] ELSE p[i - 1]
    BY <1>2, <1>3, <2>1
  <2>3. \A i \in 2..(Length + 1) : i \in 1..(1 + Length) /\ ~(i <= 1) /\ i - 1 \in 1..Length
    BY <1>1
  <2>4. 1 \in 1..(1 + Length)
    BY <1>1
  <2> QED
    BY <1>1, <1>2, <1>3, <2>1, <2>2, <2>3, <2>4
<1> HIDE DEF b
<1>5. /\ c \in Seq(Sayings) /\ Len(c) = Length + 2
      /\ \A i \in 1..(Length + 1) : c[i] = b[i]
      /\ c[Length + 2] = "review"
  <2>1. /\ c \in Seq(Sayings) /\ Len(c) = Len(b) + Len(<<"review">>)
        /\ \A i \in 1..(Len(b) + Len(<<"review">>)) :
             c[i] = IF i <= Len(b) THEN b[i] ELSE <<"review">>[i - Len(b)]
    BY <1>3, <1>4, ConcatProperties
  <2> HIDE DEF c
  <2>2. \A i \in 1..(Length + 2) :
          c[i] = IF i <= Length + 1 THEN b[i] ELSE <<"review">>[i - (Length + 1)]
    BY <1>1, <1>3, <1>4, <2>1
  <2>3. /\ \A i \in 1..(Length + 1) : i \in 1..(Length + 2) /\ i <= Length + 1
        /\ Length + 2 \in 1..(Length + 2) /\ ~(Length + 2 <= Length + 1)
        /\ (Length + 2) - (Length + 1) = 1
    BY <1>1
  <2> QED
    BY <1>1, <1>3, <1>4, <2>1, <2>2, <2>3
<1> HIDE DEF c
<1>6. /\ d \in Seq(Sayings) /\ Len(d) = 2 * Length + 2
      /\ \A i \in 1..(Length + 2) : d[i] = c[i]
      /\ \A i \in (Length + 3)..(2 * Length + 2) : d[i] = "piece"
  <2>1. /\ d \in Seq(Sayings) /\ Len(d) = Len(c) + Len(p)
        /\ \A i \in 1..(Len(c) + Len(p)) : d[i] = IF i <= Len(c) THEN c[i] ELSE p[i - Len(c)]
    BY <1>2, <1>5, ConcatProperties
  <2> HIDE DEF d
  <2>2. \A i \in 1..(2 * Length + 2) :
          d[i] = IF i <= Length + 2 THEN c[i] ELSE p[i - (Length + 2)]
    BY <1>1, <1>2, <1>5, <2>1
  <2>3. /\ \A i \in 1..(Length + 2) : i \in 1..(2 * Length + 2) /\ i <= Length + 2
        /\ \A i \in (Length + 3)..(2 * Length + 2) :
             i \in 1..(2 * Length + 2) /\ ~(i <= Length + 2) /\ i - (Length + 2) \in 1..Length
    BY <1>1
  <2> QED
    BY <1>1, <1>2, <1>5, <2>1, <2>2, <2>3
<1> HIDE DEF d
<1>7. /\ w \in Seq(Sayings) /\ Len(w) = 2 * Length + 3
      /\ \A i \in 1..(2 * Length + 2) : w[i] = d[i]
      /\ w[2 * Length + 3] = "summary"
  <2>1. /\ w \in Seq(Sayings) /\ Len(w) = Len(d) + Len(<<"summary">>)
        /\ \A i \in 1..(Len(d) + Len(<<"summary">>)) :
             w[i] = IF i <= Len(d) THEN d[i] ELSE <<"summary">>[i - Len(d)]
    BY <1>3, <1>6, ConcatProperties
  <2> HIDE DEF w
  <2>2. \A i \in 1..(2 * Length + 3) :
          w[i] = IF i <= 2 * Length + 2 THEN d[i] ELSE <<"summary">>[i - (2 * Length + 2)]
    BY <1>1, <1>3, <1>6, <2>1
  <2>3. /\ \A i \in 1..(2 * Length + 2) : i \in 1..(2 * Length + 3) /\ i <= 2 * Length + 2
        /\ 2 * Length + 3 \in 1..(2 * Length + 3) /\ ~(2 * Length + 3 <= 2 * Length + 2)
        /\ (2 * Length + 3) - (2 * Length + 2) = 1
    BY <1>1
  <2> QED
    BY <1>1, <1>3, <1>6, <2>1, <2>2, <2>3
<1>8. U!Whole = w
  BY DEF U!Whole, a, b, c, d, p
<1> HIDE DEF w
<1>9. ASSUME NEW i \in 1..(2 * Length + 3) PROVE w[i] = Saying(i)
  <2>1. CASE i = 1
    BY <1>1, <1>4, <1>5, <1>6, <1>7, <2>1 DEF Saying
  <2>2. CASE i \in 2..(Length + 1)
    <3>1. i # 1 /\ i # Length + 2 /\ i # 2 * Length + 3
          /\ i \in 1..(Length + 1) /\ i \in 1..(Length + 2) /\ i \in 1..(2 * Length + 2)
      BY <1>1, <2>2
    <3> QED
      BY <1>4, <1>5, <1>6, <1>7, <2>2, <3>1 DEF Saying
  <2>3. CASE i = Length + 2
    <3>1. i # 1 /\ i \in 1..(Length + 2) /\ i \in 1..(2 * Length + 2)
      BY <1>1, <2>3
    <3> QED
      BY <1>5, <1>6, <1>7, <2>3, <3>1 DEF Saying
  <2>4. CASE i \in (Length + 3)..(2 * Length + 2)
    <3>1. i # 1 /\ i # Length + 2 /\ i # 2 * Length + 3 /\ i \in 1..(2 * Length + 2)
      BY <1>1, <2>4
    <3> QED
      BY <1>6, <1>7, <2>4, <3>1 DEF Saying
  <2>5. CASE i = 2 * Length + 3
    <3>1. i # 1 /\ i # Length + 2
      BY <1>1, <2>5
    <3> QED
      BY <1>7, <2>5, <3>1 DEF Saying
  <2>6. i = 1 \/ i \in 2..(Length + 1) \/ i = Length + 2
        \/ i \in (Length + 3)..(2 * Length + 2) \/ i = 2 * Length + 3
    BY <1>1
  <2> QED
    BY <2>1, <2>2, <2>3, <2>4, <2>5, <2>6
<1> QED
  BY <1>7, <1>8, <1>9

\* Nothing was sent before the first step of a review.
LEMMA UpstreamInitially == U!Init => UpstreamInv
<1> SUFFICES ASSUME U!Init PROVE UpstreamInv
  OBVIOUS
<1>1. /\ caller \in {"gateway", "review"} /\ phase = 1 /\ attempt = 0
      /\ readable = 0 /\ copied = 0 /\ events = <<>> /\ gone = FALSE /\ broken = FALSE
      /\ at = (IF caller = "review" THEN "lookup" ELSE "attempt")
      /\ provider \in IF caller = "review" THEN {<<>>} ELSE {<<p>> : p \in Providers}
  BY PhasesOfCallers DEF U!Init
<1>2. U!Final \in {1, 2} /\ (caller = "gateway" => U!Final = 1)
  BY <1>1, PhasesOfCallers
<1>3. provider \in Seq(Providers) /\ Len(provider) \in {0, U!Final}
  <2>1. CASE caller = "review"
    BY <1>1, <2>1
  <2>2. CASE caller = "gateway"
    <3>1. PICK p \in Providers : provider = <<p>>
      BY <1>1, <2>2
    <3>2. provider \in Seq(Providers) /\ Len(provider) = 1
      BY <3>1
    <3> QED
      BY <1>2, <2>2, <3>2
  <2> QED
    BY <1>1, <2>1, <2>2
<1>4. MaxRetries \in Nat /\ Length \in Nat
  BY MessagesAssumption, PartsAssumption DEF MessagesAssumption, PartsAssumption
<1>5. U!TypeOK
  <2>1. caller \in U!Callers /\ at \in {"lookup", "attempt", "copy", "done"}
    BY <1>1, PhasesOfCallers
  <2>2. /\ phase \in 1..U!Final /\ attempt \in 0..MaxRetries
        /\ readable \in 0..(Length + 1) /\ copied \in 0..readable
    BY <1>1, <1>2, <1>4
  <2>3. gone \in BOOLEAN /\ broken \in BOOLEAN
    BY <1>1
  <2> QED
    BY <1>3, <2>1, <2>2, <2>3 DEF U!TypeOK
<1>6. events \in Seq(Sayings)
  BY <1>1
<1> QED
  BY <1>1, <1>4, <1>5, <1>6 DEF UpstreamInv, ReviewSaid


\* What has been sent of a review while it runs is not all of it.
LEMMA NotAllSaid ==
  ASSUME UpstreamInv
  PROVE  /\ Length \in Nat /\ copied \in Nat /\ MaxRetries \in Nat
         /\ Said \in 1..(2 * Length + 2)
         /\ caller \in {"gateway", "review"} /\ phase \in {1, 2}
         /\ caller = "gateway" => phase = 1
<1>1. Length \in Nat /\ MaxRetries \in Nat
  BY MessagesAssumption, PartsAssumption DEF MessagesAssumption, PartsAssumption
<1>2. readable \in Nat /\ copied \in 0..readable /\ copied <= Length
  BY <1>1 DEF UpstreamInv, U!TypeOK
<1>3. caller \in {"gateway", "review"} /\ phase \in 1..U!Final
  BY PhasesOfCallers DEF UpstreamInv, U!TypeOK
<1>4. phase \in {1, 2} /\ (caller = "gateway" => phase = 1)
  BY <1>3, PhasesOfCallers
<1> QED
  BY <1>1, <1>2, <1>3, <1>4 DEF Said

\* A phase that fails ends with an error, after what was sent.
LEMMA FailsSaid ==
  ASSUME UpstreamInv, U!Fail, at \in {"attempt", "copy"}
  PROVE  /\ at' = "done" /\ events' \in Seq(Sayings)
         /\ caller = "review" => \E n \in 0..(2 * Length + 3) : BreaksOff(events', n)
<1>1. at' = "done" /\ events \in Seq(Sayings) /\ caller \in {"gateway", "review"}
  BY NotAllSaid DEF U!Fail, UpstreamInv
<1>2. CASE caller = "gateway"
  BY <1>1, <1>2 DEF U!Fail
<1>3. CASE caller = "review"
  <2>1. events' = Append(events, "error")
    BY <1>3 DEF U!Fail, U!Send
  <2>2. Begins(events, Said)
    BY <1>3 DEF UpstreamInv, ReviewSaid
  <2>3. Said \in Nat /\ Said \in 0..(2 * Length + 3)
    BY NotAllSaid
  <2>4. "error" \in Sayings
    BY DEF Sayings
  <2>5. events' \in Seq(Sayings) /\ BreaksOff(events', Said)
    BY <1>1, <2>1, <2>2, <2>3, <2>4, SaysMore
  <2> QED
    BY <1>1, <2>3, <2>5
<1> QED
  BY <1>1, <1>2, <1>3

\* The parts of a call that no event concerns.
LEMMA CallTyped ==
  ASSUME UpstreamInv, UNCHANGED <<caller, provider, phase>>,
         at' \in {"lookup", "attempt", "copy", "done"},
         attempt' \in 0..MaxRetries, readable' \in 0..(Length + 1),
         copied' \in 0..readable', gone' \in BOOLEAN, broken' \in BOOLEAN
  PROVE  U!TypeOK'
BY DEF UpstreamInv, U!TypeOK, U!Final

\* Every step of a call keeps what the client was sent in order.
LEMMA UpstreamGoesOn == UpstreamInv /\ [U!Next]_(U!vars) => UpstreamInv'
<1> SUFFICES ASSUME UpstreamInv, [U!Next]_(U!vars) PROVE UpstreamInv'
  OBVIOUS
<1>1. /\ Length \in Nat /\ copied \in Nat /\ MaxRetries \in Nat
      /\ Said \in 1..(2 * Length + 2)
      /\ caller \in {"gateway", "review"} /\ phase \in {1, 2}
      /\ caller = "gateway" => phase = 1
  BY NotAllSaid
<1>2. /\ events \in Seq(Sayings) /\ copied <= Length
      /\ at \in {"lookup", "attempt", "copy", "done"} /\ attempt \in 0..MaxRetries
      /\ readable \in 0..(Length + 1) /\ copied \in 0..readable
      /\ gone \in BOOLEAN /\ broken \in BOOLEAN
      /\ at = "lookup" => caller = "review" /\ phase = 1 /\ attempt = 0
      /\ at \in {"lookup", "attempt"} => copied = 0
  BY DEF UpstreamInv, U!TypeOK
<1>3. ASSUME U!Fail, at \in {"attempt", "copy"},
             UNCHANGED <<caller, provider, phase, attempt, readable, copied, gone, broken>>
      PROVE  UpstreamInv'
  <2>1. /\ at' = "done" /\ events' \in Seq(Sayings)
        /\ caller = "review" => \E n \in 0..(2 * Length + 3) : BreaksOff(events', n)
    BY <1>3, FailsSaid
  <2>2. U!TypeOK'
    BY <1>2, <1>3, <2>1, CallTyped
  <2>3. caller' = "review" => ReviewSaid'
    BY <1>3, <2>1 DEF ReviewSaid, BreaksOff
  <2> QED
    BY <1>2, <1>3, <2>1, <2>2, <2>3 DEF UpstreamInv
<1>4. CASE U!Lookup
  <2>1. at = "lookup" /\ caller = "review" /\ phase = 1 /\ copied = 0 /\ attempt = 0
        /\ UNCHANGED <<caller, phase, attempt, readable, copied, gone, broken>>
    BY <1>2, <1>4 DEF U!Lookup
  <2>2. events = <<>>
    BY <2>1 DEF UpstreamInv, ReviewSaid
  <2>3. \/ \E p, q \in Providers :
             provider' = <<p, q>> /\ at' = "attempt" /\ events' = Append(events, "generation")
        \/ at' = "done" /\ provider' = provider /\ events' = events
    <3>1. \A n \in Names : U!Found(n) \subseteq Providers
      BY PartsAssumption DEF PartsAssumption, U!Found
    <3> QED
      BY <1>4, <3>1 DEF U!Lookup, U!Send
  <2>4. CASE at' = "done" /\ provider' = provider /\ events' = events
    <3>1. U!TypeOK'
      BY <1>2, <2>1, <2>4, CallTyped
    <3>2. ReviewSaid'
      BY <2>2, <2>4 DEF ReviewSaid
    <3> QED
      BY <1>2, <2>1, <2>4, <3>1, <3>2 DEF UpstreamInv
  <2>5. ASSUME NEW p \in Providers, NEW q \in Providers, provider' = <<p, q>>,
               at' = "attempt", events' = Append(events, "generation")
        PROVE  UpstreamInv'
    <3>1. provider' \in Seq(Providers) /\ Len(provider') = 2
      BY <2>5
    <3>2. U!Final = 2 /\ U!Final' = 2 /\ caller \in U!Callers
      BY <2>1, PhasesOfCallers DEF U!Final
    <3>3. U!TypeOK'
      <4>1. phase' \in 1..2 /\ attempt' \in 0..MaxRetries
            /\ readable' \in 0..(Length + 1) /\ copied' \in 0..readable'
        BY <1>2, <2>1
      <4>2. gone' \in BOOLEAN /\ broken' \in BOOLEAN /\ caller' \in U!Callers'
        BY <1>2, <2>1, <3>2 DEF U!Callers, U!Phases
      <4>3. Len(provider') \in {0, U!Final'}
        BY <3>1, <3>2
      <4> QED
        BY <2>5, <3>1, <3>2, <4>1, <4>2, <4>3 DEF U!TypeOK
    <3>4. Begins(events, 0) /\ "generation" \in Sayings /\ "generation" = Saying(0 + 1)
      BY <2>2 DEF Begins, Sayings, Saying
    <3>5. events' \in Seq(Sayings) /\ Begins(events', 0 + 1)
      BY <1>2, <2>5, <3>4, SaysMore
    <3>6. Said' = 0 + 1
      BY <2>1 DEF Said
    <3>7. ReviewSaid'
      BY <2>5, <3>5, <3>6 DEF ReviewSaid, Begins
    <3> QED
      BY <1>2, <2>1, <2>5, <3>3, <3>5, <3>7 DEF UpstreamInv
  <2> QED
    BY <2>3, <2>4, <2>5
<1>5. CASE U!AttemptFails
  <2>1. CASE U!Fail /\ UNCHANGED attempt
    BY <1>3, <1>5, <2>1 DEF U!AttemptFails
  <2>2. CASE attempt < MaxRetries /\ attempt' = attempt + 1 /\ UNCHANGED <<at, events>>
    <3>1. UNCHANGED <<caller, provider, phase, readable, copied, gone, broken>> /\ at = "attempt"
      BY <1>5 DEF U!AttemptFails
    <3>2. attempt' \in 0..MaxRetries
      BY <1>1, <1>2, <2>2
    <3>3. U!TypeOK'
      BY <1>2, <2>2, <3>1, <3>2, CallTyped
    <3>4. caller' = "review" => ReviewSaid'
      BY <2>2, <3>1 DEF UpstreamInv, ReviewSaid, Said, Begins
    <3> QED
      BY <1>2, <2>2, <3>1, <3>3, <3>4 DEF UpstreamInv
  <2> QED
    BY <1>5, <2>1, <2>2 DEF U!AttemptFails
<1>6. CASE U!ClientError \/ U!CopyFails \/ U!WriteFails
  BY <1>3, <1>6 DEF U!ClientError, U!CopyFails, U!WriteFails
<1>7. CASE U!AttemptSucceeds \/ U!UpstreamBreaks \/ U!Disconnect
  <2>1. /\ UNCHANGED <<caller, provider, phase, attempt, copied, events>>
        /\ readable' \in 0..(Length + 1) /\ copied' \in 0..readable'
        /\ gone' \in BOOLEAN /\ broken' \in BOOLEAN
        /\ at' = at \/ (at = "attempt" /\ at' = "copy")
    <3>1. CASE U!AttemptSucceeds
      <4>1. copied = 0
        BY <1>2, <3>1 DEF U!AttemptSucceeds
      <4> QED
        BY <1>1, <1>2, <3>1, <4>1 DEF U!AttemptSucceeds
    <3>2. CASE U!UpstreamBreaks
      BY <1>1, <1>2, <3>2 DEF U!UpstreamBreaks
    <3>3. CASE U!Disconnect
      BY <1>1, <1>2, <3>3 DEF U!Disconnect
    <3> QED
      BY <1>7, <3>1, <3>2, <3>3
  <2>2. U!TypeOK'
    BY <1>2, <2>1, CallTyped
  <2>3. caller' = "review" => ReviewSaid'
    BY <2>1 DEF UpstreamInv, ReviewSaid, Said, Begins, BreaksOff
  <2> QED
    BY <1>2, <2>1, <2>2, <2>3 DEF UpstreamInv
<1>8. CASE U!CopyPiece
  <2>1. /\ UNCHANGED <<caller, at, provider, phase, attempt, readable, gone, broken>>
        /\ at = "copy" /\ copied < readable /\ copied < Length /\ copied' = copied + 1
        /\ events' = Append(events, "piece")
    BY <1>8 DEF U!CopyPiece, U!Send
  <2>2. copied' \in 0..readable' /\ copied' <= Length /\ readable' \in 0..(Length + 1)
    BY <1>1, <1>2, <2>1
  <2>3. U!TypeOK'
    BY <1>2, <2>1, <2>2, CallTyped
  <2>4. "piece" \in Sayings /\ events' \in Seq(Sayings)
    BY <1>2, <2>1, SaysMore DEF Sayings
  <2>5. CASE caller = "review"
    <3>1. Begins(events, Said)
      BY <2>1, <2>5 DEF UpstreamInv, ReviewSaid
    <3>2. Said' = Said + 1 /\ Said \in Nat
      BY <1>1, <2>1 DEF Said
    <3>3. "piece" = Saying(Said + 1)
      <4>1. Said + 1 # 1 /\ Said + 1 # Length + 2 /\ Said + 1 # 2 * Length + 3
        BY <1>1, <2>1 DEF Said
      <4> HIDE DEF Said
      <4> QED
        BY <4>1 DEF Saying
    <3>4. Begins(events', Said + 1)
      BY <1>2, <2>1, <2>4, <3>1, <3>2, <3>3, SaysMore
    <3>5. ReviewSaid'
      BY <2>1, <3>2, <3>4 DEF ReviewSaid, Begins
    <3> QED
      BY <1>2, <2>1, <2>2, <2>3, <2>4, <3>5 DEF UpstreamInv
  <2>6. CASE caller # "review"
    BY <1>2, <2>1, <2>2, <2>3, <2>4, <2>6 DEF UpstreamInv
  <2> QED
    BY <2>5, <2>6
<1>9. CASE U!CopyEnds
  <2>1. /\ at = "copy" /\ copied = Length /\ readable = Length + 1
        /\ UNCHANGED <<caller, provider, gone, broken>>
    BY <1>9 DEF U!CopyEnds
  <2>2. CASE phase < U!Final
    <3>1. caller = "review" /\ phase = 1
      BY <1>1, <2>2, PhasesOfCallers
    <3>2. /\ phase' = 2 /\ at' = "attempt" /\ attempt' = 0 /\ readable' = 0 /\ copied' = 0
          /\ events' = Append(events, "review")
      BY <2>2, <1>9, <3>1, PhasesOfCallers DEF U!CopyEnds, U!Send
    <3>3. U!Final = 2 /\ U!Final' = 2 /\ caller \in U!Callers
      BY <2>1, <3>1, PhasesOfCallers DEF U!Final
    <3>4. U!TypeOK'
      <4>1. phase' \in 1..2 /\ attempt' \in 0..MaxRetries
            /\ readable' \in 0..(Length + 1) /\ copied' \in 0..readable'
        BY <1>1, <3>2
      <4>2. gone' \in BOOLEAN /\ broken' \in BOOLEAN /\ caller' \in U!Callers'
        BY <1>2, <2>1, <3>3 DEF U!Callers, U!Phases
      <4>3. provider' \in Seq(Providers) /\ Len(provider') \in {0, U!Final'}
        BY <2>1, <3>3 DEF UpstreamInv, U!TypeOK
      <4> QED
        BY <3>2, <3>3, <4>1, <4>2, <4>3 DEF U!TypeOK
    <3>5. Begins(events, Length + 1)
      <4>1. Said = Length + 1
        BY <1>1, <2>1, <3>1 DEF Said
      <4>2. Begins(events, Said)
        BY <2>1, <3>1 DEF UpstreamInv, ReviewSaid
      <4> QED
        BY <4>1, <4>2
    <3>6. "review" \in Sayings /\ "review" = Saying((Length + 1) + 1)
      BY <1>1 DEF Sayings, Saying
    <3>7. events' \in Seq(Sayings) /\ Begins(events', (Length + 1) + 1)
      BY <1>1, <1>2, <3>2, <3>5, <3>6, SaysMore
    <3>8. Said' = (Length + 1) + 1
      BY <1>1, <3>2 DEF Said
    <3>9. ReviewSaid'
      BY <3>2, <3>7, <3>8 DEF ReviewSaid, Begins
    <3> QED
      BY <1>1, <3>2, <3>4, <3>7, <3>9 DEF UpstreamInv
  <2>3. CASE ~(phase < U!Final)
    <3>1. /\ at' = "done" /\ UNCHANGED <<phase, attempt, readable, copied>>
          /\ IF caller = "review" THEN events' = Append(events, "summary") ELSE events' = events
      BY <1>9, <2>3 DEF U!CopyEnds, U!Send
    <3>2. U!TypeOK'
      BY <1>2, <2>1, <3>1, CallTyped
    <3>3. CASE caller = "review"
      <4>1. phase = 2
        BY <1>1, <2>3, <3>3, PhasesOfCallers
      <4>2. Said = 2 * Length + 2
        BY <1>1, <2>1, <4>1 DEF Said
      <4>3. Begins(events, 2 * Length + 2)
        BY <2>1, <3>3, <4>2 DEF UpstreamInv, ReviewSaid
      <4>4. "summary" \in Sayings /\ "summary" = Saying((2 * Length + 2) + 1)
            /\ 2 * Length + 2 \in Nat /\ (2 * Length + 2) + 1 = 2 * Length + 3
        <5>1. /\ (2 * Length + 2) + 1 = 2 * Length + 3
              /\ 2 * Length + 3 # 1 /\ 2 * Length + 3 # Length + 2 /\ 2 * Length + 2 \in Nat
          BY <1>1
        <5> QED
          BY <5>1 DEF Sayings, Saying
      <4>5. events' \in Seq(Sayings) /\ Begins(events', (2 * Length + 2) + 1)
        BY <1>2, <3>1, <3>3, <4>3, <4>4, SaysMore
      <4>6. Begins(events', 2 * Length + 3)
        BY <4>4, <4>5
      <4>7. ReviewSaid'
        BY <3>1, <4>6 DEF ReviewSaid, Begins
      <4> QED
        BY <1>2, <2>1, <3>1, <3>2, <4>5, <4>7 DEF UpstreamInv
    <3>4. CASE caller # "review"
      BY <1>2, <2>1, <3>1, <3>2, <3>4 DEF UpstreamInv
    <3> QED
      BY <3>3, <3>4
  <2> QED
    BY <2>2, <2>3
<1>10. CASE UNCHANGED U!vars
  <2>1. UNCHANGED <<caller, at, provider, phase, attempt, readable, copied, events, gone, broken>>
    BY <1>10 DEF U!vars
  <2>2. U!TypeOK'
    BY <1>2, <2>1, CallTyped
  <2>3. caller' = "review" => ReviewSaid'
    BY <2>1 DEF UpstreamInv, ReviewSaid, Said, Begins, BreaksOff
  <2> QED
    BY <1>2, <2>1, <2>2, <2>3 DEF UpstreamInv
<1> QED
  BY <1>4, <1>5, <1>6, <1>7, <1>8, <1>9, <1>10 DEF U!Next, U!Call

\* When a review is done its client has all of the answer, nothing, or its beginning
\* and an error.
LEMMA UpstreamWhole == UpstreamInv => U!WholeOrError
<1> SUFFICES ASSUME UpstreamInv, caller = "review", at = "done", events # <<>>
             PROVE  \/ events = U!Whole
                    \/ /\ U!Last(events) = "error"
                       /\ U!IsPrefix(U!Front(events), U!Whole)
  BY DEF U!WholeOrError
<1>1. Length \in Nat /\ events \in Seq(Sayings)
  BY NotAllSaid DEF UpstreamInv
<1>2. /\ U!Whole \in Seq(Sayings) /\ Len(U!Whole) = 2 * Length + 3
      /\ \A i \in 1..(2 * Length + 3) : U!Whole[i] = Saying(i)
  BY WholeIs
<1>3. CASE Begins(events, 2 * Length + 3)
  <2>1. Len(events) = Len(U!Whole) /\ \A i \in 1..Len(events) : events[i] = U!Whole[i]
    BY <1>2, <1>3 DEF Begins
  <2>2. events = U!Whole
    BY <1>1, <1>2, <2>1, SeqEqual
  <2> QED
    BY <2>2
<1>4. ASSUME NEW n \in 0..(2 * Length + 3), BreaksOff(events, n)
      PROVE  U!Last(events) = "error" /\ U!IsPrefix(U!Front(events), U!Whole)
  <2>1. n \in Nat /\ n <= 2 * Length + 3 /\ 1 \in Int /\ n \in Int
    BY <1>1
  <2>2. U!Last(events) = "error"
    BY <1>4, <2>1 DEF U!Last, BreaksOff
  <2> DEFINE f == SubSeq(events, 1, n)
             g == SubSeq(U!Whole, 1, n)
             h == SubSeq(f, 1, n)
  <2>3. \A i \in 1..n : events[i] \in Sayings /\ U!Whole[i] \in Sayings /\ events[i] = U!Whole[i]
    <3>1. \A i \in 1..n : i \in 1..(2 * Length + 3) /\ i \in 1..Len(events) /\ i \in 1..Len(U!Whole)
      BY <1>1, <1>2, <1>4, <2>1 DEF BreaksOff
    <3> QED
      BY <1>1, <1>2, <1>4, <3>1 DEF BreaksOff
  <2>4. /\ f \in Seq(Sayings) /\ Len(f) = IF 1 <= n THEN n - 1 + 1 ELSE 0
        /\ \A i \in 1..(n - 1 + 1) : f[i] = events[1 + i - 1]
    BY <2>1, <2>3, SubSeqProperties
  <2>5. /\ g \in Seq(Sayings) /\ Len(g) = IF 1 <= n THEN n - 1 + 1 ELSE 0
        /\ \A i \in 1..(n - 1 + 1) : g[i] = U!Whole[1 + i - 1]
    BY <2>1, <2>3, SubSeqProperties
  <2>6. U!Front(events) = f
    <3>1. Len(events) - 1 = n
      BY <1>4, <2>1 DEF BreaksOff
    <3> QED
      BY <3>1 DEF U!Front
  <2> HIDE DEF f, g
  <2>7. Len(f) = n /\ Len(g) = n /\ \A i \in 1..n : f[i] = g[i] /\ f[i] \in Sayings
    <3>1. n - 1 + 1 = n /\ \A i \in 1..n : 1 + i - 1 = i
      BY <2>1
    <3>2. (IF 1 <= n THEN n - 1 + 1 ELSE 0) = n
      BY <2>1
    <3> QED
      BY <2>3, <2>4, <2>5, <3>1, <3>2
  <2>8. /\ h \in Seq(Sayings) /\ Len(h) = IF 1 <= n THEN n - 1 + 1 ELSE 0
        /\ \A i \in 1..(n - 1 + 1) : h[i] = f[1 + i - 1]
    BY <2>1, <2>7, SubSeqProperties
  <2> HIDE DEF h
  <2>9. Len(h) = n /\ \A i \in 1..n : h[i] = f[i]
    <3>1. n - 1 + 1 = n /\ \A i \in 1..n : 1 + i - 1 = i
      BY <2>1
    <3>2. (IF 1 <= n THEN n - 1 + 1 ELSE 0) = n
      BY <2>1
    <3> QED
      BY <2>8, <3>1, <3>2
  <2>10. h = g
    <3>1. Len(h) = Len(g) /\ \A i \in 1..Len(h) : h[i] = g[i]
      BY <2>7, <2>9
    <3> QED
      BY <2>5, <2>8, <3>1, SeqEqual
  <2>11. U!IsPrefix(f, U!Whole)
    BY <1>2, <2>1, <2>7, <2>10 DEF U!IsPrefix, h, g
  <2> QED
    BY <2>2, <2>6, <2>11
<1> QED
  BY <1>3, <1>4 DEF UpstreamInv, ReviewSaid

-----------------------------------------------------------------------------
(* The semantic cache: as long as enough rows are as new as every row that  *)
(* is missing, nobody can tell that one is.                                 *)

\* SemanticCache counts as FiniteSets does.
LEMMA CacheCounts == \A X : C!Cardinality(X) = Cardinality(X)
  BY DEF C!Cardinality, Cardinality

\* The smaller of two numbers.
LEMMA SmallerOfTwo ==
  ASSUME NEW a \in Nat, NEW b \in Nat
  PROVE  C!Min({a, b}) = IF a <= b THEN a ELSE b
<1>1. \E x \in {a, b} : \A y \in {a, b} : x <= y
  OBVIOUS
<1>2. C!Min({a, b}) \in {a, b} /\ \A y \in {a, b} : C!Min({a, b}) <= y
  BY <1>1 DEF C!Min
<1> QED
  BY <1>2

Aged(X) == \A r \in X : r.at \in Int

\* n rows of X as new as every row of L.
Newer(X, L, n) ==
  \E N \in SUBSET X : /\ IsFiniteSet(N) /\ Cardinality(N) = n
                      /\ \A t \in N, r \in L : r.at <= t.at

CacheInv ==
  /\ C!TypeOK /\ hits \in Nat /\ misses \in Nat
  /\ IsFiniteSet(kept)
  /\ rows = kept \/ Newer(rows, kept \ rows, MaxEntries)

\* What a LIMIT may select of a finite set.
LEMMA NewestOf ==
  ASSUME NEW X, IsFiniteSet(X), NEW n \in Nat, NEW M
  PROVE  M \in C!Newest(X, n) <=>
           /\ M \in SUBSET X
           /\ Cardinality(M) = (IF n <= Cardinality(X) THEN n ELSE Cardinality(X))
           /\ \A t \in M, r \in X \ M : r.at <= t.at
<1>1. Cardinality(X) \in Nat
  BY FS_CardinalityType
<1>2. C!Min({n, Cardinality(X)}) = IF n <= Cardinality(X) THEN n ELSE Cardinality(X)
  BY <1>1, SmallerOfTwo
<1> QED
  BY <1>2, CacheCounts DEF C!Newest

\* If n rows of X are as new as row r, so are the n newest rows of X.
LEMMA NewestAreNewer ==
  ASSUME NEW X, IsFiniteSet(X), Aged(X), NEW r, r.at \in Int,
         NEW N \in SUBSET X, NEW Y \in SUBSET X, Cardinality(N) = Cardinality(Y),
         \A t \in N : r.at <= t.at,
         \A y \in Y, s \in X \ Y : s.at <= y.at,
         NEW y \in Y
  PROVE  r.at <= y.at
<1>1. CASE y \in N
  BY <1>1
<1>2. CASE y \notin N
  <2>1. IsFiniteSet(Y)
    BY FS_Subset
  <2>2. ~(N \subseteq Y)
    <3>1. SUFFICES ASSUME N \subseteq Y PROVE FALSE
      OBVIOUS
    <3>2. Y = N
      BY <2>1, <3>1, FS_Subset
    <3> QED
      BY <1>2, <3>2
  <2>3. PICK t \in N : t \notin Y
    BY <2>2
  <2>4. t \in X \ Y /\ t.at \in Int /\ y.at \in Int
    BY <2>3 DEF Aged
  <2>5. r.at <= t.at /\ t.at <= y.at
    BY <2>3, <2>4
  <2> QED
    BY <2>4, <2>5
<1> QED
  BY <1>1, <1>2

\* The newest rows of the table are the newest of all.
LEMMA NewestUnseen ==
  ASSUME NEW X, NEW Y, X \subseteq Y, IsFiniteSet(Y), Aged(Y), NEW n \in Nat,
         X = Y \/ Newer(X, Y \ X, n)
  PROVE  C!Newest(X, n) \subseteq C!Newest(Y, n)
<1> SUFFICES ASSUME X # Y, NEW M \in C!Newest(X, n) PROVE M \in C!Newest(Y, n)
  OBVIOUS
<1>1. PICK N \in SUBSET X : /\ IsFiniteSet(N) /\ Cardinality(N) = n
                            /\ \A t \in N, r \in Y \ X : r.at <= t.at
  BY DEF Newer
<1>2. IsFiniteSet(X) /\ Cardinality(X) <= Cardinality(Y)
  BY FS_Subset
<1>3. Cardinality(N) <= Cardinality(X)
  BY <1>2, FS_Subset
<1>4. Cardinality(X) \in Nat /\ Cardinality(Y) \in Nat
  BY <1>2, FS_CardinalityType
<1>5. n <= Cardinality(X) /\ n <= Cardinality(Y)
  BY <1>1, <1>2, <1>3, <1>4
<1>6. /\ M \in SUBSET X /\ Cardinality(M) = n
      /\ \A t \in M, r \in X \ M : r.at <= t.at
  BY <1>2, <1>5, NewestOf
<1>7. ASSUME NEW t \in M, NEW r \in Y \ M PROVE r.at <= t.at
  <2>1. CASE r \in X
    BY <1>6, <1>7, <2>1
  <2>2. CASE r \notin X
    <3>1. r.at \in Int /\ Aged(X)
      BY <1>7 DEF Aged
    <3>2. \A u \in N : r.at <= u.at
      BY <1>1, <1>7, <2>2
    <3> QED
      BY <1>1, <1>2, <1>6, <1>7, <3>1, <3>2, NewestAreNewer
  <2> QED
    BY <2>1, <2>2
<1> QED
  BY <1>5, <1>6, <1>7, NewestOf

\* A row is inserted, and the transaction evicts, or fails to.
LEMMA InsertKeepsNewest ==
  ASSUME NEW X, NEW Y, NEW x, X \subseteq Y, IsFiniteSet(Y), Aged(Y), x.at \in Int,
         NEW n \in Nat, X = Y \/ Newer(X, Y \ X, n),
         NEW Z, Z \in C!Newest(X \union {x}, n) \/ Z = X \union {x}
  PROVE  /\ Z \subseteq Y \union {x}
         /\ Z = Y \union {x} \/ Newer(Z, (Y \union {x}) \ Z, n)
<1> DEFINE all == X \union {x}
<1>1. CASE Z = all
  <2>1. CASE X = Y
    BY <1>1, <2>1
  <2>2. CASE Newer(X, Y \ X, n)
    BY <1>1, <2>2 DEF Newer
  <2> QED
    BY <1>1, <2>1, <2>2
<1>2. IsFiniteSet(X)
  BY FS_Subset
<1>3. IsFiniteSet(all)
  BY <1>2, FS_AddElement
<1>4. Cardinality(all) \in Nat
  BY <1>3, FS_CardinalityType
<1>5. CASE Z \in C!Newest(all, n)
  <2> HIDE DEF all
  <2>1. /\ Z \in SUBSET all
        /\ Cardinality(Z) = (IF n <= Cardinality(all) THEN n ELSE Cardinality(all))
        /\ \A t \in Z, r \in all \ Z : r.at <= t.at
    BY <1>3, <1>5, NewestOf
  <2>2. IsFiniteSet(Z)
    BY <1>3, <2>1, FS_Subset
  <2>3. CASE ~(n <= Cardinality(all))
    <3>1. Z = all
      BY <1>3, <2>1, <2>3, FS_Subset
    <3> QED
      BY <1>1, <3>1
  <2>4. CASE n <= Cardinality(all)
    <3>1. ASSUME NEW t \in Z, NEW r \in (Y \union {x}) \ Z PROVE r.at <= t.at
      <4>1. CASE r \in all
        BY <2>1, <3>1, <4>1
      <4>2. CASE r \notin all
        <5>1. r \in Y \ X /\ r.at \in Int
          BY <3>1, <4>2 DEF all, Aged
        <5>2. PICK N \in SUBSET X : /\ IsFiniteSet(N) /\ Cardinality(N) = n
                                    /\ \A u \in N, q \in Y \ X : q.at <= u.at
          BY <5>1 DEF Newer
        <5>3. N \in SUBSET all /\ Aged(all)
          BY DEF Aged, all
        <5>4. \A u \in N : r.at <= u.at
          BY <5>1, <5>2
        <5>5. Cardinality(N) = Cardinality(Z)
          BY <2>1, <2>4, <5>2
        <5> QED
          BY <1>3, <2>1, <3>1, <5>1, <5>3, <5>4, <5>5, NewestAreNewer
      <4> QED
        BY <4>1, <4>2
    <3>2. Newer(Z, (Y \union {x}) \ Z, n)
      BY <2>1, <2>2, <2>4, <3>1 DEF Newer
    <3> QED
      BY <2>1, <3>2 DEF all
  <2> QED
    BY <2>3, <2>4
<1> QED
  BY <1>1, <1>5

\* Rows expire: the missing ones before those that are as new.
LEMMA ExpiryKeepsNewest ==
  ASSUME NEW X, NEW Y, X \subseteq Y, Aged(Y), NEW n \in Nat,
         X = Y \/ Newer(X, Y \ X, n), NEW limit \in Int
  PROVE  LET P == {r \in X : r.at >= limit}
             Q == {r \in Y : r.at >= limit}
         IN  P \subseteq Q /\ (P = Q \/ Newer(P, Q \ P, n))
<1> DEFINE P == {r \in X : r.at >= limit}
           Q == {r \in Y : r.at >= limit}
<1>1. P \subseteq Q
  OBVIOUS
<1>2. CASE X = Y
  BY <1>2
<1>3. CASE Newer(X, Y \ X, n)
  <2>1. PICK N \in SUBSET X : /\ IsFiniteSet(N) /\ Cardinality(N) = n
                              /\ \A t \in N, r \in Y \ X : r.at <= t.at
    BY <1>3 DEF Newer
  <2>2. CASE N \subseteq P
    BY <1>1, <2>1, <2>2 DEF Newer
  <2>3. ASSUME NEW t \in N, t \notin P PROVE P = Q
    <3>1. t.at \in Int /\ ~(t.at >= limit)
      BY <2>3 DEF Aged
    <3>2. ASSUME NEW r \in Q, r \notin P PROVE FALSE
      <4>1. r \in Y \ X /\ r.at \in Int /\ r.at >= limit
        BY <3>2 DEF Aged
      <4>2. r.at <= t.at
        BY <2>1, <2>3, <4>1
      <4> QED
        BY <3>1, <4>1, <4>2
    <3> QED
      BY <1>1, <3>2
  <2> QED
    BY <1>1, <2>2, <2>3
<1> QED
  BY <1>2, <1>3

\* An empty table has all of no rows.
LEMMA CacheInitially == C!Init => CacheInv
<1> SUFFICES ASSUME C!Init PROVE CacheInv
  OBVIOUS
<1>1. C!TypeOK
  BY CacheAssumption DEF CacheAssumption, C!Init, C!TypeOK
<1>2. hits \in Nat /\ misses \in Nat /\ IsFiniteSet(kept) /\ rows = kept
  BY FS_EmptySet DEF C!Init
<1> QED
  BY <1>1, <1>2 DEF CacheInv

\* Every step of the handlers, the clock and the evictions keeps enough new rows.
LEMMA CacheGoesOn == CacheInv /\ [C!Next]_(C!vars) => CacheInv'
<1> SUFFICES ASSUME CacheInv, [C!Next]_(C!vars) PROVE CacheInv'
  OBVIOUS
<1> DEFINE Table == /\ rows \subseteq kept /\ kept \subseteq C!Entries /\ IsFiniteSet(kept)
                    /\ rows = kept \/ Newer(rows, kept \ rows, MaxEntries)
           Counters == /\ hits \in Nat /\ misses \in Nat /\ hits + misses \in 0..MaxLookups
           Others == /\ day \in 0..CacheTime /\ stores \in 0..MaxStores
                     /\ handler \in [Handlers -> C!Entries \union {None}]
<1>1. /\ MaxEntries \in Nat /\ Ttl \in Nat
      /\ MaxStores \in Nat /\ MaxLookups \in Nat /\ CacheTime \in Nat
  BY CacheAssumption DEF CacheAssumption
<1>2. Table /\ Counters /\ Others
  BY DEF CacheInv, C!TypeOK
<1>3. Aged(kept)
  BY <1>2 DEF Aged, C!Entries
<1>4. Table' /\ Counters' /\ Others' => CacheInv'
  BY DEF CacheInv, C!TypeOK
<1>5. UNCHANGED <<rows, kept>> => Table'
  BY <1>2
<1>6. UNCHANGED <<hits, misses>> => Counters'
  BY <1>2
<1>7. UNCHANGED <<day, stores, handler>> => Others'
  BY <1>2
<1> HIDE DEF Table, Counters, Others
<1>8. ASSUME NEW h \in Handlers, NEW p \in Prompts, C!Stamp(h, p) PROVE CacheInv'
  <2>1. /\ UNCHANGED <<day, rows, hits, misses, kept>> /\ stores' = stores + 1
        /\ stores < MaxStores
        /\ handler' = [handler EXCEPT ![h] = [id |-> stores', prompt |-> p, at |-> day]]
    BY <1>8 DEF C!Stamp
  <2>2. Others'
    <3>1. stores' \in 1..MaxStores /\ day \in 0..CacheTime
      BY <1>1, <1>2, <2>1 DEF Others
    <3>2. [id |-> stores', prompt |-> p, at |-> day] \in C!Entries
      BY <3>1 DEF C!Entries
    <3>3. handler' \in [Handlers -> C!Entries \union {None}]
      BY <1>2, <2>1, <3>2 DEF Others
    <3>4. stores' \in 0..MaxStores /\ day' \in 0..CacheTime
      BY <1>1, <2>1, <3>1
    <3> QED
      BY <3>3, <3>4 DEF Others, C!Entries
  <2> QED
    BY <1>4, <1>5, <1>6, <2>1, <2>2
<1>9. ASSUME NEW h \in Handlers, C!Insert(h) \/ C!InsertFails(h) PROVE Others' /\ Counters'
  <2>1. UNCHANGED <<day, stores, hits, misses>> /\ handler' = [handler EXCEPT ![h] = None]
    BY <1>9 DEF C!Insert, C!InsertFails
  <2>2. handler' \in [Handlers -> C!Entries \union {None}]
    BY <1>2, <2>1 DEF Others
  <2> QED
    BY <1>2, <1>6, <2>1, <2>2 DEF Others, C!Entries
<1>10. ASSUME NEW h \in Handlers, C!Insert(h) PROVE CacheInv'
  <2> DEFINE x == handler[h]
  <2>1. x \in C!Entries
    BY <1>2, <1>10 DEF Others, C!Insert
  <2>2. x.at \in Int
    BY <2>1 DEF C!Entries
  <2> HIDE DEF x
  <2>3. /\ kept' = kept \union {x}
        /\ rows' \in C!Newest(rows \union {x}, MaxEntries) \/ rows' = rows \union {x}
    BY <1>10 DEF C!Insert, C!Remaining, x
  <2>4. /\ rows' \subseteq kept'
        /\ rows' = kept' \/ Newer(rows', kept' \ rows', MaxEntries)
    <3>1. /\ rows \subseteq kept /\ IsFiniteSet(kept)
          /\ rows = kept \/ Newer(rows, kept \ rows, MaxEntries)
      BY <1>2 DEF Table
    <3>2. \A Z : Z \in C!Newest(rows \union {x}, MaxEntries) \/ Z = rows \union {x} =>
                  /\ Z \subseteq kept \union {x}
                  /\ \/ Z = kept \union {x}
                     \/ Newer(Z, (kept \union {x}) \ Z, MaxEntries)
      BY <1>1, <1>3, <2>2, <3>1, InsertKeepsNewest
    <3> QED
      BY <2>3, <3>2
  <2>5. IsFiniteSet(kept')
    BY <1>2, <2>3, FS_AddElement DEF Table
  <2>6. kept' \subseteq C!Entries
    BY <1>2, <2>1, <2>3 DEF Table
  <2>7. Table'
    BY <2>4, <2>5, <2>6 DEF Table, C!Entries, Newer
  <2> QED
    BY <1>4, <1>9, <1>10, <2>7
<1>11. ASSUME NEW h \in Handlers, C!InsertFails(h) PROVE CacheInv'
  BY <1>4, <1>5, <1>9, <1>11 DEF C!InsertFails
<1>12. ASSUME NEW p \in Prompts, C!Lookup(p) PROVE CacheInv'
  <2>1. /\ UNCHANGED <<day, rows, handler, stores, kept>> /\ hits + misses < MaxLookups
        /\ \/ hits' = hits + 1 /\ misses' = misses
           \/ misses' = misses + 1 /\ hits' = hits
    BY <1>12 DEF C!Lookup
  <2>2. Counters'
    BY <1>1, <1>2, <2>1 DEF Counters
  <2> QED
    BY <1>4, <1>5, <1>7, <2>1, <2>2
<1>13. CASE C!EvictExpired
  <2> DEFINE limit == day - Ttl
  <2>1. /\ rows' = {r \in rows : r.at >= limit} /\ kept' = {r \in kept : r.at >= limit}
        /\ UNCHANGED <<day, handler, stores, hits, misses>>
    BY <1>13 DEF C!EvictExpired
  <2>2. limit \in Int
    BY <1>1, <1>2 DEF Others
  <2> HIDE DEF limit
  <2>3. /\ rows' \subseteq kept'
        /\ rows' = kept' \/ Newer(rows', kept' \ rows', MaxEntries)
    BY <1>1, <1>2, <1>3, <2>1, <2>2, ExpiryKeepsNewest DEF Table
  <2>4. IsFiniteSet(kept')
    <3>1. kept' \in SUBSET kept
      BY <2>1
    <3> QED
      BY <1>2, <3>1, FS_Subset DEF Table
  <2>5. kept' \subseteq C!Entries
    BY <1>2, <2>1 DEF Table
  <2>6. Table'
    BY <2>3, <2>4, <2>5 DEF Table, C!Entries, Newer
  <2> QED
    BY <1>4, <1>6, <1>7, <2>1, <2>6
<1>14. CASE C!Clear
  <2>1. rows' = {} /\ kept' = {} /\ UNCHANGED <<day, handler, stores, hits, misses>>
    BY <1>14 DEF C!Clear
  <2>2. Table'
    BY <2>1, FS_EmptySet DEF Table
  <2> QED
    BY <1>4, <1>6, <1>7, <2>1, <2>2
<1>15. CASE C!Tick
  <2>1. day < CacheTime /\ day' = day + 1 /\ UNCHANGED <<rows, handler, stores, hits, misses, kept>>
    BY <1>15 DEF C!Tick
  <2>2. Others'
    BY <1>1, <1>2, <2>1 DEF Others, C!Entries
  <2> QED
    BY <1>4, <1>5, <1>6, <2>1, <2>2
<1>16. CASE UNCHANGED C!vars
  BY <1>4, <1>5, <1>6, <1>7, <1>16 DEF C!vars
<1> QED
  BY <1>8, <1>10, <1>11, <1>12, <1>13, <1>14, <1>15, <1>16 DEF C!Next

\* A lookup of the table finds what one of all rows would.
LEMMA CacheUnseen == CacheInv => C!EvictionUnseen
<1> SUFFICES ASSUME CacheInv, NEW p \in Prompts
             PROVE  C!Answers(rows, p) \subseteq C!Answers(kept, p)
  BY DEF C!EvictionUnseen
<1>1. Aged(kept) /\ rows \subseteq kept /\ IsFiniteSet(kept) /\ MaxEntries \in Nat
  BY CacheAssumption DEF CacheAssumption, CacheInv, C!TypeOK, Aged, C!Entries
<1>2. C!Newest(rows, MaxEntries) \subseteq C!Newest(kept, MaxEntries)
  BY <1>1, NewestUnseen DEF CacheInv
<1> QED
  BY <1>2 DEF C!Answers

-----------------------------------------------------------------------------
(* The sliding window: requests let through lately have members of their    *)
(* own in the set, those apart whose member was there already.              *)

\* SlidingWindow counts as FiniteSets does.
LEMMA WindowCounts == \A X : W!Cardinality(X) = Cardinality(X)
  BY DEF W!Cardinality, Cardinality

\* The requests that a caller whose clock is right, or behind, still counts.
Recent == {p \in windowPassed : p.at > redisClock - Window + Skew}

\* The requests M, n of all, are taken for others; f are the members of the other
\* recent ones.
Stands(M, f, all, recent, members, n) ==
  /\ M \subseteq all /\ Cardinality(M) = n
  /\ \A p \in recent \ M : f[p] \in members /\ f[p].score >= p.at - Skew
  /\ \A p, q \in recent \ M : f[p] = f[q] => p = q

Represented == \E M, f : Stands(M, f, windowPassed, Recent, zset, merged)

WindowTyped ==
  /\ windowScript \in {"allow", "store"}
  /\ redisClock \in Nat /\ Skew <= redisClock /\ redisClock <= WindowTime
  /\ until \in Nat /\ until <= WindowTime + W!Life
  /\ IsFiniteSet(zset) /\ Cardinality(zset) <= MaxRate
  /\ \A m \in zset : m.score \in 0..redisClock
  /\ IsFiniteSet(windowPassed) /\ merged \in Nat
  /\ \A p \in windowPassed :
       /\ p \in [at : 0..redisClock, number : Nat]
       /\ p.number < Cardinality(windowPassed)
       /\ p.at + Window <= until

\* The requests let through in the ticks from t on that the bound is about.
LetIn(t) == {p \in windowPassed : t <= p.at /\ p.at < t + Window - Skew}

WindowsBounded == \A t \in Nat : Cardinality(LetIn(t)) <= MaxRate + merged

WindowInv == WindowTyped /\ Represented /\ WindowsBounded

\* A key lives at least as long as the window.
LEMMA LongEnough ==
  ASSUME windowScript \in {"allow", "store"}
  PROVE  W!Life \in Nat /\ Window <= W!Life
<1>1. Window \in Nat /\ Second \in Nat /\ Second > 0
  BY WindowAssumption DEF WindowAssumption
<1> DEFINE n == (Window + Second - 1) \div Second
<1>2. n \in Nat /\ Window <= Second * n
  <2>1. \A w, s \in Nat : s > 0 => /\ (w + s - 1) \div s \in Nat
                                   /\ w <= s * ((w + s - 1) \div s)
    BY SMTT(60)
  <2> QED
    BY <1>1, <2>1
<1> HIDE DEF n
<1>3. W!Life = Second * (IF windowScript = "store" THEN n + 1 ELSE n)
  BY DEF W!Life, n
<1>4. Second * n \in Nat /\ Second * (n + 1) = Second * n + Second
  BY <1>1, <1>2
<1> QED
  BY <1>1, <1>2, <1>3, <1>4

\* The constants.
LEMMA WindowConstants ==
  /\ Window \in Nat /\ MaxRate \in Nat /\ WindowTime \in Nat /\ Skew \in Nat
  /\ Skew <= WindowTime
BY WindowAssumption, MessagesAssumption DEF WindowAssumption, MessagesAssumption

\* At most MaxRate recent requests have members, and the others are counted.
LEMMA RecentBounded ==
  ASSUME NEW all, NEW recent \in SUBSET all, NEW members, NEW n,
         IsFiniteSet(all), IsFiniteSet(members), Cardinality(members) <= MaxRate,
         NEW M, NEW f, Stands(M, f, all, recent, members, n), NEW X \in SUBSET recent
  PROVE  Cardinality(X) <= MaxRate + n
<1> DEFINE A == X \intersect M
           O == X \ M
           g == [p \in O |-> f[p]]
<1>1. X \in SUBSET all /\ M \in SUBSET all
  BY DEF Stands
<1>2. IsFiniteSet(X) /\ IsFiniteSet(M)
  BY <1>1, FS_Subset
<1>3. IsFiniteSet(A) /\ Cardinality(A) <= Cardinality(M)
  BY <1>2, FS_Subset
<1>4. g \in Injection(O, members)
  <2>1. \A p \in O : p \in recent \ M
    OBVIOUS
  <2>2. g \in [O -> members]
    BY <2>1 DEF Stands
  <2>3. \A p, q \in O : g[p] = g[q] => p = q
    BY <2>1 DEF Stands
  <2> HIDE DEF g
  <2> QED
    BY <2>2, <2>3 DEF Injection, IsInjective
<1> HIDE DEF g
<1>5. IsFiniteSet(O) /\ Cardinality(O) <= Cardinality(members)
  BY <1>4, FS_Injection
<1>6. Cardinality(A \union O) = Cardinality(A) + Cardinality(O) - Cardinality(A \intersect O)
  BY <1>3, <1>5, FS_Union
<1>7. A \union O = X /\ A \intersect O = {}
  OBVIOUS
<1>8. Cardinality(M) = n
  BY DEF Stands
<1> HIDE DEF A, O
<1>9. Cardinality(A) \in Nat /\ Cardinality(O) \in Nat /\ n \in Nat /\ Cardinality(members) \in Nat
  BY <1>2, <1>3, <1>5, <1>8, FS_CardinalityType
<1>10. Cardinality(X) = Cardinality(A) + Cardinality(O)
  <2>1. Cardinality(A \intersect O) = 0
    BY <1>7, FS_EmptySet
  <2>2. Cardinality(A \union O) = Cardinality(X)
    BY <1>7
  <2>3. \A a, o \in Nat : a + o - 0 = a + o
    OBVIOUS
  <2> QED
    BY <1>6, <1>9, <2>1, <2>2, <2>3
<1>11. \A a, o, c, r, k \in Nat : a <= k /\ o <= c /\ c <= r => a + o <= r + k
  OBVIOUS
<1> QED
  BY <1>3, <1>5, <1>8, <1>9, <1>10, <1>11, WindowConstants

\* What ZREMRANGEBYSCORE leaves, whichever caller's clock it goes by: the members of
\* all recent requests.
LEMMA RemainingKeeps ==
  ASSUME WindowTyped, NEW t \in (redisClock - Skew) .. redisClock
  PROVE  /\ t \in Nat /\ IsFiniteSet(W!Remaining(t)) /\ W!Remaining(t) \subseteq zset
         /\ Cardinality(W!Remaining(t)) \in Nat /\ Cardinality(W!Remaining(t)) <= MaxRate
         /\ \A m \in zset, p \in Recent : m.score >= p.at - Skew => m \in W!Remaining(t)
<1>1. redisClock \in Nat /\ Skew <= redisClock /\ IsFiniteSet(zset) /\ Cardinality(zset) <= MaxRate
  BY DEF WindowTyped
<1>2. t \in Nat
  BY <1>1, WindowConstants
<1>3. W!Remaining(t) \in SUBSET zset
  BY DEF W!Remaining
<1>4. IsFiniteSet(W!Remaining(t)) /\ Cardinality(W!Remaining(t)) <= Cardinality(zset)
  BY <1>1, <1>3, FS_Subset
<1>5. Cardinality(W!Remaining(t)) \in Nat /\ Cardinality(zset) \in Nat
  BY <1>1, <1>4, FS_CardinalityType
<1>6. ASSUME NEW m \in zset, NEW p \in Recent, m.score >= p.at - Skew
      PROVE  m \in W!Remaining(t)
  <2>1. m.score \in Nat /\ p.at \in Nat /\ p.at > redisClock - Window + Skew
    BY <1>1 DEF WindowTyped, Recent
  <2>2. m.score > t - Window
    BY <1>1, <1>2, <1>6, <2>1, WindowConstants
  <2> QED
    BY <2>2 DEF W!Remaining
<1> QED
  BY <1>1, <1>2, <1>3, <1>4, <1>5, <1>6, WindowConstants

\* An empty set of members, and nobody let through.
LEMMA WindowInitially == W!Init => WindowInv
<1> SUFFICES ASSUME W!Init PROVE WindowInv
  OBVIOUS
<1>1. /\ windowScript \in {"allow", "store"} /\ redisClock = Skew /\ zset = {}
      /\ until = 0 /\ windowPassed = {} /\ merged = 0
  BY DEF W!Init
<1>2. IsFiniteSet({}) /\ Cardinality({}) = 0
  BY FS_EmptySet
<1>3. W!Life \in Nat
  BY <1>1, LongEnough
<1>4. WindowTyped
  BY <1>1, <1>2, <1>3, WindowConstants DEF WindowTyped
<1>5. Represented
  <2>1. Stands({}, {}, windowPassed, Recent, zset, merged)
    BY <1>1, <1>2 DEF Stands, Recent
  <2> QED
    BY <2>1 DEF Represented
<1>6. WindowsBounded
  <2>1. \A t \in Nat : LetIn(t) = {}
    BY <1>1 DEF LetIn
  <2> QED
    BY <1>1, <1>2, <2>1, WindowConstants DEF WindowsBounded
<1> QED
  BY <1>4, <1>5, <1>6 DEF WindowInv

\* A request is refused, or let through as the member that stands for it.
LEMMA PassKeeps ==
  ASSUME WindowInv, NEW t \in (redisClock - Skew) .. redisClock, NEW random,
         W!Pass(t, random)
  PROVE  WindowInv'
<1> DEFINE m == W!Named(t, random)
           R == W!Remaining(t)
           n == Cardinality(windowPassed)
           new == [at |-> redisClock, number |-> n]
<1>1. /\ Cardinality(R) < MaxRate /\ zset' = R \union {m} /\ until' = redisClock + W!Life
      /\ windowPassed' = windowPassed \union {new}
      /\ merged' = (IF m \in R THEN merged + 1 ELSE merged)
      /\ UNCHANGED <<windowScript, redisClock>>
  BY WindowCounts DEF W!Pass, W!HasRoom
<1>2. /\ windowScript \in {"allow", "store"} /\ redisClock \in Nat /\ Skew <= redisClock
      /\ redisClock <= WindowTime /\ until \in Nat /\ merged \in Nat
      /\ IsFiniteSet(windowPassed) /\ n \in Nat
      /\ \A p \in windowPassed : /\ p \in [at : 0..redisClock, number : Nat]
                                 /\ p.number < n /\ p.at + Window <= until
  BY FS_CardinalityType DEF WindowInv, WindowTyped
<1>3. /\ t \in Nat /\ t <= redisClock /\ IsFiniteSet(R) /\ R \subseteq zset
      /\ Cardinality(R) \in Nat
      /\ \A x \in zset, p \in Recent : x.score >= p.at - Skew => x \in R
  BY RemainingKeeps DEF WindowInv
<1>4. m.score = t
  BY DEF W!Named
<1>5. W!Life \in Nat /\ Window <= W!Life /\ W!Life' = W!Life
  BY <1>1, <1>2, LongEnough DEF W!Life
<1>6. new \notin windowPassed /\ new.at = redisClock /\ new.number = n
  <2>1. new.at = redisClock /\ new.number = n
    OBVIOUS
  <2>2. ~(n < n)
    BY <1>2
  <2> QED
    BY <1>2, <2>1, <2>2
<1>7. new \in [at : 0..redisClock, number : Nat]
  BY <1>2
<1> HIDE DEF m, R, new
<1>8. IsFiniteSet(windowPassed') /\ Cardinality(windowPassed') = n + 1
  BY <1>1, <1>2, <1>6, FS_AddElement
<1>9. IsFiniteSet(zset') /\ Cardinality(zset') <= MaxRate
  <2>1. /\ IsFiniteSet(R \union {m})
        /\ Cardinality(R \union {m}) = IF m \in R THEN Cardinality(R) ELSE Cardinality(R) + 1
    BY <1>3, FS_AddElement
  <2> QED
    BY <1>1, <1>3, <2>1, WindowConstants
<1>10. WindowTyped'
  <2>1. merged' \in Nat
    BY <1>1, <1>2
  <2>2. \A x \in zset' : x.score \in 0..redisClock
    BY <1>1, <1>3, <1>4 DEF WindowInv, WindowTyped
  <2>3. until' \in Nat /\ until' <= WindowTime + W!Life
    BY <1>1, <1>2, <1>5, WindowConstants
  <2>4. ASSUME NEW p \in windowPassed'
        PROVE  /\ p \in [at : 0..redisClock, number : Nat]
               /\ p.number < n + 1 /\ p.at + Window <= until'
    <3>1. p \in [at : 0..redisClock, number : Nat] /\ (p.number < n \/ p.number = n)
      BY <1>1, <1>2, <1>6, <1>7
    <3>2. p.number \in Nat /\ p.at \in Nat /\ p.at <= redisClock
      BY <1>2, <3>1
    <3> QED
      BY <1>1, <1>2, <1>5, <3>1, <3>2, WindowConstants
  <2> HIDE DEF n
  <2> QED
    BY <1>1, <1>2, <1>5, <1>8, <1>9, <2>1, <2>2, <2>3, <2>4 DEF WindowTyped
<1>11. PICK M, f : Stands(M, f, windowPassed, Recent, zset, merged)
  BY DEF WindowInv, Represented
<1> DEFINE L == IF m \in R THEN M \union {new} ELSE M
           g == [p \in windowPassed' |-> IF p = new THEN m ELSE f[p]]
<1>12. Stands(L, g, windowPassed', Recent', zset', merged')
  <2>1. M \subseteq windowPassed /\ Cardinality(M) = merged /\ IsFiniteSet(M)
    <3>1. M \in SUBSET windowPassed /\ Cardinality(M) = merged
      BY <1>11 DEF Stands
    <3> QED
      BY <1>2, <3>1, FS_Subset
  <2>2. L \subseteq windowPassed' /\ Cardinality(L) = merged'
    <3>1. CASE m \in R
      <4>1. new \notin M
        BY <1>6, <2>1
      <4>2. Cardinality(M \union {new}) = Cardinality(M) + 1
        BY <2>1, <4>1, FS_AddElement
      <4> QED
        BY <1>1, <2>1, <3>1, <4>2
    <3>2. CASE m \notin R
      BY <1>1, <2>1, <3>2
    <3> QED
      BY <3>1, <3>2
  <2>3. ASSUME NEW p \in Recent' \ L, p # new
        PROVE  /\ p \in Recent \ M /\ g[p] = f[p] /\ f[p] \in R
               /\ f[p] \in zset' /\ f[p].score >= p.at - Skew
    <3>1. p \in windowPassed' /\ p \in windowPassed /\ p \notin M
      BY <1>1, <2>3 DEF Recent
    <3>2. p \in Recent \ M
      BY <1>1, <2>3, <3>1 DEF Recent
    <3>3. f[p] \in zset /\ f[p].score >= p.at - Skew
      BY <1>11, <3>2 DEF Stands
    <3>4. f[p] \in R
      BY <1>3, <3>2, <3>3
    <3>5. g[p] = f[p]
      BY <2>3, <3>1
    <3> QED
      BY <1>1, <3>2, <3>3, <3>4, <3>5
  <2>4. ASSUME new \in Recent' \ L
        PROVE  g[new] = m /\ m \notin R /\ m \in zset' /\ m.score >= new.at - Skew
    <3>1. new \in windowPassed' /\ m \notin R
      BY <1>1, <2>4
    <3>2. m.score >= new.at - Skew
      BY <1>2, <1>4, <1>6, WindowConstants
    <3> QED
      BY <1>1, <3>1, <3>2
  <2> HIDE DEF g, L
  <2>5. \A p \in Recent' \ L : g[p] \in zset' /\ g[p].score >= p.at - Skew
    BY <2>3, <2>4
  <2>6. ASSUME NEW p \in Recent' \ L, NEW q \in Recent' \ L, g[p] = g[q] PROVE p = q
    <3>1. CASE p = new /\ q # new
      BY <2>3, <2>4, <2>6, <3>1
    <3>2. CASE p # new /\ q = new
      BY <2>3, <2>4, <2>6, <3>2
    <3>3. CASE p # new /\ q # new
      <4>1. p \in Recent \ M /\ q \in Recent \ M /\ f[p] = f[q]
        BY <2>3, <2>6, <3>3
      <4> QED
        BY <1>11, <4>1 DEF Stands
    <3> QED
      BY <3>1, <3>2, <3>3
  <2> QED
    BY <2>2, <2>5, <2>6 DEF Stands
<1> HIDE DEF L, g
<1>13. WindowsBounded'
  <2> SUFFICES ASSUME NEW s \in Nat PROVE Cardinality(LetIn(s)') <= MaxRate + merged'
    BY DEF WindowsBounded
  <2>1. CASE s <= redisClock /\ redisClock < s + Window - Skew
    <3>1. LetIn(s)' \in SUBSET Recent'
      <4> SUFFICES ASSUME NEW p \in windowPassed', s <= p.at
                   PROVE  p.at > redisClock' - Window + Skew
        BY DEF LetIn, Recent
      <4>1. p.at \in Nat
        BY <1>1, <1>2, <1>6
      <4> QED
        BY <1>1, <1>2, <2>1, <4>1, WindowConstants
    <3>2. Recent' \in SUBSET windowPassed'
      BY DEF Recent
    <3> QED
      BY <1>8, <1>9, <1>12, <3>1, <3>2, RecentBounded
  <2>2. CASE ~(s <= redisClock /\ redisClock < s + Window - Skew)
    <3>1. LetIn(s)' = LetIn(s)
      BY <1>1, <1>6, <2>2 DEF LetIn
    <3>2. Cardinality(LetIn(s)) <= MaxRate + merged
      BY DEF WindowInv, WindowsBounded
    <3>3. Cardinality(LetIn(s)) \in Nat
      <4>1. LetIn(s) \in SUBSET windowPassed
        BY DEF LetIn
      <4>2. IsFiniteSet(LetIn(s))
        BY <1>2, <4>1, FS_Subset
      <4> QED
        BY <4>2, FS_CardinalityType
    <3> QED
      BY <1>1, <1>2, <3>1, <3>2, <3>3, WindowConstants
  <2> QED
    BY <2>1, <2>2
<1>14. Represented'
  BY <1>12 DEF Represented
<1> QED
  BY <1>10, <1>13, <1>14 DEF WindowInv

\* A refusal leaves the set of members smaller; "allow" renews the expiry.
LEMMA RefuseKeeps ==
  ASSUME WindowInv, NEW t \in (redisClock - Skew) .. redisClock, W!Refuse(t)
  PROVE  WindowInv'
<1>1. /\ zset' = W!Remaining(t)
      /\ until' = (IF windowScript = "allow" THEN redisClock + W!Life ELSE until)
      /\ windowScript' = windowScript /\ redisClock' = redisClock
      /\ windowPassed' = windowPassed /\ merged' = merged
  BY DEF W!Refuse
<1>2. WindowTyped
  BY DEF WindowInv
<1>3. /\ windowScript \in {"allow", "store"} /\ redisClock \in Nat /\ redisClock <= WindowTime
      /\ until \in Nat /\ until <= WindowTime + W!Life
      /\ \A m \in zset : m.score \in 0..redisClock
      /\ \A p \in windowPassed : p \in [at : 0..redisClock, number : Nat] /\ p.at + Window <= until
  BY <1>2 DEF WindowTyped
<1>4. W!Life \in Nat /\ Window <= W!Life /\ W!Life' = W!Life
  BY <1>1, <1>3, LongEnough DEF W!Life
<1>5. /\ IsFiniteSet(zset') /\ zset' \subseteq zset
      /\ Cardinality(zset') <= MaxRate
      /\ \A m \in zset, p \in Recent : m.score >= p.at - Skew => m \in zset'
  BY <1>1, <1>2, RemainingKeeps
<1>6. until' \in Nat /\ until' <= WindowTime + W!Life
  BY <1>1, <1>3, <1>4, WindowConstants
<1>7. \A p \in windowPassed : p.at + Window <= until'
  <2> SUFFICES ASSUME NEW p \in windowPassed PROVE p.at + Window <= until'
    OBVIOUS
  <2>1. p.at \in Nat /\ p.at <= redisClock /\ p.at + Window <= until
    BY <1>3
  <2> QED
    BY <1>1, <1>3, <1>4, <2>1, WindowConstants
<1>8. WindowTyped'
  BY <1>1, <1>2, <1>4, <1>5, <1>6, <1>7 DEF WindowTyped
<1>9. PICK M, f : Stands(M, f, windowPassed, Recent, zset, merged)
  BY DEF WindowInv, Represented
<1>10. Stands(M, f, windowPassed', Recent', zset', merged')
  <2>1. Recent' = Recent
    BY <1>1 DEF Recent
  <2> QED
    BY <1>1, <1>5, <1>9, <2>1 DEF Stands
<1>11. WindowsBounded'
  <2>1. \A s : LetIn(s)' = LetIn(s)
    BY <1>1 DEF LetIn
  <2> QED
    BY <1>1, <2>1 DEF WindowInv, WindowsBounded
<1> QED
  BY <1>8, <1>10, <1>11 DEF WindowInv, Represented

\* When the key expires nobody let through is recent any more.
LEMMA ExpiryKeeps ==
  ASSUME WindowInv, W!Tick
  PROVE  WindowInv'
<1>1. /\ redisClock < WindowTime /\ redisClock' = redisClock + 1
      /\ zset' = (IF until <= redisClock' THEN {} ELSE zset)
      /\ windowScript' = windowScript /\ until' = until
      /\ windowPassed' = windowPassed /\ merged' = merged
  BY DEF W!Tick
<1>2. /\ windowScript \in {"allow", "store"} /\ redisClock \in Nat /\ Skew <= redisClock
      /\ until \in Nat /\ IsFiniteSet(zset) /\ Cardinality(zset) <= MaxRate
      /\ \A m \in zset : m.score \in 0..redisClock
      /\ \A p \in windowPassed : p \in [at : 0..redisClock, number : Nat] /\ p.at + Window <= until
  BY DEF WindowInv, WindowTyped
<1>3. W!Life' = W!Life
  BY <1>1 DEF W!Life
<1>4. IsFiniteSet(zset') /\ Cardinality(zset') <= MaxRate /\ zset' \subseteq zset
  BY <1>1, <1>2, FS_EmptySet, WindowConstants
<1>5. WindowTyped'
  <2>1. \A k \in 0..redisClock : k \in 0..redisClock'
    BY <1>1, <1>2
  <2>2. redisClock' \in Nat /\ Skew <= redisClock' /\ redisClock' <= WindowTime
    BY <1>1, <1>2, WindowConstants
  <2>3. \A m \in zset' : m.score \in 0..redisClock'
    BY <1>2, <1>4, <2>1
  <2>4. \A p \in windowPassed : p \in [at : 0..redisClock', number : Nat]
    BY <1>2, <2>1
  <2>5. /\ until' <= WindowTime + W!Life /\ merged' \in Nat /\ until' \in Nat
        /\ IsFiniteSet(windowPassed')
        /\ \A p \in windowPassed' : p.number < Cardinality(windowPassed') /\ p.at + Window <= until'
    BY <1>1 DEF WindowInv, WindowTyped
  <2> QED
    BY <1>1, <1>2, <1>3, <1>4, <2>2, <2>3, <2>4, <2>5 DEF WindowTyped
<1>6. PICK M, f : Stands(M, f, windowPassed, Recent, zset, merged)
  BY DEF WindowInv, Represented
<1>7. Recent' \subseteq Recent /\ (until <= redisClock' => Recent' = {})
  <2>1. ASSUME NEW p \in Recent' PROVE p \in Recent /\ ~(until <= redisClock')
    <3>1. /\ p \in windowPassed /\ p.at \in Nat /\ p.at > redisClock' - Window + Skew
          /\ p.at + Window <= until
      BY <1>1, <1>2 DEF Recent
    <3>2. p.at > redisClock - Window + Skew /\ ~(until <= redisClock')
      BY <1>1, <1>2, <3>1, WindowConstants
    <3> QED
      BY <3>1, <3>2 DEF Recent
  <2> QED
    BY <2>1
<1>8. Stands(M, f, windowPassed', Recent', zset', merged')
  <2>1. CASE until <= redisClock'
    BY <1>1, <1>6, <1>7, <2>1 DEF Stands
  <2>2. CASE ~(until <= redisClock')
    BY <1>1, <1>6, <1>7, <2>2 DEF Stands
  <2> QED
    BY <2>1, <2>2
<1>9. WindowsBounded'
  <2>1. \A s : LetIn(s)' = LetIn(s)
    BY <1>1 DEF LetIn
  <2> QED
    BY <1>1, <2>1 DEF WindowInv, WindowsBounded
<1> QED
  BY <1>5, <1>8, <1>9 DEF WindowInv, Represented

\* Every step of the scripts and of the clock.
LEMMA WindowGoesOn == WindowInv /\ [W!Next]_(W!vars) => WindowInv'
<1> SUFFICES ASSUME WindowInv, [W!Next]_(W!vars) PROVE WindowInv'
  OBVIOUS
<1>1. CASE W!Allow
  <2>1. PICK t \in (redisClock - Skew) .. redisClock, random \in Random :
          W!Pass(t, random) \/ W!Refuse(t)
    BY <1>1 DEF W!Allow
  <2>2. CASE W!Pass(t, random)
    BY <2>2, PassKeeps
  <2>3. CASE W!Refuse(t)
    BY <2>3, RefuseKeeps
  <2> QED
    BY <2>1, <2>2, <2>3
<1>2. CASE W!Tick
  BY <1>2, ExpiryKeeps
<1>3. CASE UNCHANGED W!vars
  BY <1>3 DEF W!vars, W!Life, WindowInv, WindowTyped, Represented, Recent, WindowsBounded, LetIn
<1> QED
  BY <1>1, <1>2, <1>3 DEF W!Next

\* The bound, and the types of the part.
LEMMA WindowIsBounded == WindowInv => W!WindowBound /\ W!TypeOK
<1> SUFFICES ASSUME WindowInv PROVE W!WindowBound /\ W!TypeOK
  OBVIOUS
<1>1. WindowTyped /\ WindowsBounded
  BY DEF WindowInv
<1>2. /\ redisClock \in Nat /\ redisClock <= WindowTime
      /\ until \in Nat /\ until <= WindowTime + W!Life
      /\ \A p \in windowPassed : p \in [at : 0..redisClock, number : Nat]
  BY <1>1 DEF WindowTyped
<1>3. W!WindowBound
  <2> SUFFICES ASSUME NEW t \in 0..redisClock
               PROVE  W!Passed({u \in t..redisClock : u < t + Window - Skew}) <= MaxRate + merged
    BY DEF W!WindowBound
  <2>1. \A p \in windowPassed : p.at \in {u \in t..redisClock : u < t + Window - Skew}
                                  <=> t <= p.at /\ p.at < t + Window - Skew
    BY <1>2, WindowConstants
  <2>2. {p \in windowPassed : p.at \in {u \in t..redisClock : u < t + Window - Skew}} = LetIn(t)
    BY <2>1 DEF LetIn
  <2>3. W!Passed({u \in t..redisClock : u < t + Window - Skew}) = Cardinality(LetIn(t))
    BY <2>2, WindowCounts DEF W!Passed
  <2> QED
    BY <1>1, <1>2, <2>3 DEF WindowsBounded
<1>4. W!TypeOK
  <2>1. redisClock \in 0..WindowTime
    BY <1>2, WindowConstants
  <2>2. W!Life \in Nat
    BY <1>1, LongEnough DEF WindowTyped
  <2>3. until \in 0..(WindowTime + W!Life)
    BY <1>2, <2>2, WindowConstants
  <2>4. windowPassed \subseteq [at : 0..WindowTime, number : Nat]
    <3>1. \A k \in 0..redisClock : k \in 0..WindowTime
      BY <1>2, WindowConstants
    <3> QED
      BY <1>2, <3>1
  <2> QED
    BY <1>1, <2>1, <2>3, <2>4, WindowCounts DEF W!TypeOK, WindowTyped
<1> QED
  BY <1>3, <1>4

-----------------------------------------------------------------------------
(* Discovery: keys are bound to leases that live.                           *)

\* Discovery counts as FiniteSets does.
LEMMA DiscoveryCounts == \A X : D!Cardinality(X) = Cardinality(X)
  BY DEF D!Cardinality, Cardinality

\* A process and its lease.
Processes == [at : {"off", "put", "up", "unkept"}, lease : D!Leases \union {None}]

DiscoveryInv ==
  /\ process \in [Replicas -> Processes]
  /\ key \in [Replicas -> leases \union {None}]
  /\ leases \subseteq D!Leases
  /\ watching \in BOOLEAN /\ seen \in Seq({D!ExtractAddr})
  /\ keyEvents \in Nat /\ starts \in 0..MaxStarts /\ faults \in 0..MaxFaults
  /\ changed \in BOOLEAN /\ stale \in BOOLEAN

\* Nothing is registered.
LEMMA DiscoveryInitially == D!Init => DiscoveryInv
<1> SUFFICES ASSUME D!Init PROVE DiscoveryInv
  OBVIOUS
<1>1. D!Off \in Processes
  BY DEF D!Off, Processes
<1>2. << >> \in Seq({D!ExtractAddr})
  OBVIOUS
<1>3. 0 \in 0..MaxStarts /\ 0 \in 0..MaxFaults
  BY PartsAssumption DEF PartsAssumption
<1> QED
  BY <1>1, <1>2, <1>3 DEF D!Init, DiscoveryInv

\* A process goes to another step, or ends.
LEMMA ProcessGoes ==
  ASSUME DiscoveryInv, NEW i \in Replicas
  PROVE  /\ \A pc \in {"off", "put", "up", "unkept"} : D!Goto(i, pc) => process' \in [Replicas -> Processes]
         /\ D!End(i) => process' \in [Replicas -> Processes]
<1>1. process \in [Replicas -> Processes]
  BY DEF DiscoveryInv
<1>2. ASSUME NEW pc \in {"off", "put", "up", "unkept"}, D!Goto(i, pc)
      PROVE  process' \in [Replicas -> Processes]
  <2>1. process[i] \in Processes
    BY <1>1
  <2>2. [process[i] EXCEPT !.at = pc] \in Processes
    BY <2>1 DEF Processes
  <2>3. process' = [process EXCEPT ![i] = [process[i] EXCEPT !.at = pc]]
    BY <1>2 DEF D!Goto
  <2> QED
    BY <1>1, <2>2, <2>3
<1>3. D!Off \in Processes
  BY DEF D!Off, Processes
<1>4. D!End(i) => process' \in [Replicas -> Processes]
  BY <1>1, <1>3 DEF D!End
<1> QED
  BY <1>2, <1>4

\* What the watcher is told of.
LEMMA WatcherTold ==
  ASSUME DiscoveryInv, NEW n \in Nat, D!Tell(n)
  PROVE  keyEvents' \in Nat /\ changed' \in BOOLEAN
<1>1. keyEvents \in Nat /\ changed \in BOOLEAN
  BY DEF DiscoveryInv
<1>2. CASE watching /\ n > 0
  <2>1. keyEvents' = keyEvents + n /\ changed' = TRUE
    BY <1>2 DEF D!Tell
  <2> QED
    BY <1>1, <2>1
<1>3. CASE ~(watching /\ n > 0)
  <2>1. keyEvents' = keyEvents /\ changed' = changed
    BY <1>3 DEF D!Tell, D!told
  <2> QED
    BY <1>1, <2>1
<1> QED
  BY <1>2, <1>3

\* A lease that is gone binds no key.
LEMMA DropKeeps ==
  ASSUME DiscoveryInv, NEW lease, D!Drop(lease)
  PROVE  /\ leases' \subseteq D!Leases /\ key' \in [Replicas -> leases' \union {None}]
         /\ keyEvents' \in Nat /\ changed' \in BOOLEAN
<1> DEFINE bound == {i \in Replicas : key[i] = lease}
<1>1. /\ leases' = leases \ {lease}
      /\ key' = [i \in Replicas |-> IF i \in bound THEN None ELSE key[i]]
      /\ D!Tell(D!Cardinality(bound)) /\ D!Cardinality(bound) = Cardinality(bound)
  BY DiscoveryCounts DEF D!Drop
<1>2. Cardinality(bound) \in Nat
  <2>1. IsFiniteSet(Replicas) /\ bound \in SUBSET Replicas
    BY PartsAssumption DEF PartsAssumption
  <2>2. IsFiniteSet(bound)
    BY <2>1, FS_Subset
  <2> QED
    BY <2>2, FS_CardinalityType
<1>3. key' \in [Replicas -> leases' \union {None}]
  <2>1. \A i \in Replicas : i \in bound \/ key[i] \in leases' \union {None}
    BY <1>1 DEF DiscoveryInv
  <2> HIDE DEF bound
  <2> QED
    BY <1>1, <2>1
<1> HIDE DEF bound
<1>4. keyEvents' \in Nat /\ changed' \in BOOLEAN
  BY <1>1, <1>2, WatcherTold
<1> QED
  BY <1>1, <1>3, <1>4 DEF DiscoveryInv

\* Every step of the instances, of etcd and of the watcher.
LEMMA DiscoveryGoesOn == DiscoveryInv /\ [D!Next]_(D!vars) => DiscoveryInv'
<1> SUFFICES ASSUME DiscoveryInv, [D!Next]_(D!vars) PROVE DiscoveryInv'
  OBVIOUS
<1> USE PartsAssumption DEF PartsAssumption
<1>f. /\ D!Fault => faults' \in 0..MaxFaults
      /\ UNCHANGED faults => faults' \in 0..MaxFaults
  BY DEF D!Fault, DiscoveryInv
<1>1. ASSUME NEW i \in Replicas, D!Start(i) PROVE DiscoveryInv'
  <2>1. /\ starts < MaxStarts /\ starts' = starts + 1 /\ leases' = leases \union {starts'}
        /\ process' = [process EXCEPT ![i] = [at |-> "put", lease |-> starts']]
        /\ UNCHANGED <<key, watching, keyEvents, changed, seen, stale, faults>>
    BY <1>1 DEF D!Start, D!watcher, D!told
  <2>2. starts' \in 0..MaxStarts /\ starts' \in D!Leases
    BY <2>1 DEF DiscoveryInv, D!Leases
  <2>3. [at |-> "put", lease |-> starts'] \in Processes
    BY <2>2 DEF Processes
  <2>4. process' \in [Replicas -> Processes]
    BY <2>1, <2>3 DEF DiscoveryInv
  <2>5. key' \in [Replicas -> leases' \union {None}]
    BY <2>1 DEF DiscoveryInv
  <2> QED
    BY <2>1, <2>2, <2>4, <2>5 DEF DiscoveryInv
<1>2. ASSUME NEW i \in Replicas, D!Put(i) PROVE DiscoveryInv'
  <2>1. /\ process[i].lease \in leases /\ key' = [key EXCEPT ![i] = process[i].lease]
        /\ D!Tell(1) /\ D!Goto(i, "up")
        /\ UNCHANGED <<leases, watching, seen, starts, faults, stale>>
    BY <1>2 DEF D!Put
  <2>0. keyEvents' \in Nat /\ changed' \in BOOLEAN
    BY <2>1, WatcherTold
  <2>2. process' \in [Replicas -> Processes]
    BY <2>1, ProcessGoes
  <2>3. key' \in [Replicas -> leases' \union {None}]
    BY <2>1 DEF DiscoveryInv
  <2> QED
    BY <2>0, <2>1, <2>2, <2>3 DEF DiscoveryInv
<1>3. ASSUME NEW i \in Replicas, D!PutFails(i) \/ D!KeepAliveStops(i) \/ D!Crash(i)
      PROVE  DiscoveryInv'
  <2>1. /\ D!End(i) \/ D!Goto(i, "unkept")
        /\ D!Fault \/ UNCHANGED faults
        /\ UNCHANGED <<leases, key, watching, keyEvents, changed, seen, stale, starts>>
    BY <1>3 DEF D!PutFails, D!KeepAliveStops, D!Crash, D!watcher, D!told
  <2>2. process' \in [Replicas -> Processes]
    BY <2>1, ProcessGoes
  <2>3. faults' \in 0..MaxFaults
    BY <1>f, <2>1
  <2> QED
    BY <2>1, <2>2, <2>3 DEF DiscoveryInv
<1>4. ASSUME NEW i \in Replicas, D!Deregister(i) PROVE DiscoveryInv'
  <2>1. /\ D!End(i)
        /\ \/ D!Drop(process[i].lease) /\ UNCHANGED faults
           \/ D!Fault /\ UNCHANGED <<leases, key, keyEvents, changed>>
        /\ UNCHANGED <<watching, seen, starts, stale>>
    BY <1>4 DEF D!Deregister, D!told
  <2>2. process' \in [Replicas -> Processes]
    BY <2>1, ProcessGoes
  <2>3. faults' \in 0..MaxFaults
    BY <1>f, <2>1
  <2>4. /\ leases' \subseteq D!Leases /\ key' \in [Replicas -> leases' \union {None}]
        /\ keyEvents' \in Nat /\ changed' \in BOOLEAN
    <3>1. CASE D!Drop(process[i].lease)
      BY <3>1, DropKeeps
    <3>2. CASE UNCHANGED <<leases, key, keyEvents, changed>>
      BY <3>2 DEF DiscoveryInv
    <3> QED
      BY <2>1, <3>1, <3>2
  <2> QED
    BY <2>1, <2>2, <2>3, <2>4 DEF DiscoveryInv
<1>5. ASSUME NEW lease \in D!Leases, D!Expire(lease) PROVE DiscoveryInv'
  <2>1. D!Drop(lease) /\ UNCHANGED <<process, watching, seen, starts, faults, stale>>
    BY <1>5 DEF D!Expire
  <2>2. /\ leases' \subseteq D!Leases /\ key' \in [Replicas -> leases' \union {None}]
        /\ keyEvents' \in Nat /\ changed' \in BOOLEAN
    BY <2>1, DropKeeps
  <2> QED
    BY <2>1, <2>2 DEF DiscoveryInv
<1>6. CASE D!Watch
  <2>1. D!Discovered \in Seq({D!ExtractAddr})
    <3>1. D!Keys \in SUBSET Replicas
      BY DEF D!Keys
    <3>2. D!Cardinality(D!Keys) \in Nat
      BY <3>1, DiscoveryCounts, FS_Subset, FS_CardinalityType
    <3>3. \A n \in Nat : [k \in 1..n |-> D!ExtractAddr] \in Seq({D!ExtractAddr})
      OBVIOUS
    <3> QED
      BY <3>2, <3>3 DEF D!Discovered
  <2>2. /\ keyEvents > 0 /\ keyEvents' = keyEvents - 1 /\ seen' = D!Discovered /\ stale' = FALSE
        /\ UNCHANGED <<process, leases, key, watching, starts, faults, changed>>
    BY <1>6 DEF D!Watch
  <2>3. keyEvents' \in Nat
    BY <2>2 DEF DiscoveryInv
  <2>4. stale' \in BOOLEAN
    BY <2>2
  <2> HIDE DEF D!Discovered
  <2> QED
    BY <2>1, <2>2, <2>3, <2>4 DEF DiscoveryInv
<1>7. CASE D!WatchFails
  <2>1. faults' \in 0..MaxFaults
    BY <1>7, <1>f DEF D!WatchFails
  <2>2. /\ keyEvents > 0 /\ keyEvents' = keyEvents - 1 /\ stale' = TRUE
        /\ UNCHANGED <<process, leases, key, watching, seen, starts, changed>>
    BY <1>7 DEF D!WatchFails
  <2> QED
    BY <2>1, <2>2 DEF DiscoveryInv
<1>8. CASE D!StartWatch
  BY <1>8 DEF D!StartWatch, D!told, DiscoveryInv
<1>9. CASE UNCHANGED D!vars
  BY <1>9 DEF D!vars, DiscoveryInv
<1> QED
  BY <1>1, <1>2, <1>3, <1>4, <1>5, <1>6, <1>7, <1>8, <1>9 DEF D!Next, D!Register

\* The types of the part.
LEMMA DiscoveryIsTyped == DiscoveryInv => D!TypeOK
<1> SUFFICES ASSUME DiscoveryInv PROVE D!TypeOK
  OBVIOUS
<1>1. \A i \in Replicas :
        /\ process[i].at \in {"off", "put", "up", "unkept"}
        /\ process[i].lease \in D!Leases \union {None}
        /\ key[i] \in leases \union {None}
  BY DEF DiscoveryInv, Processes
<1> QED
  BY <1>1 DEF DiscoveryInv, D!TypeOK

-----------------------------------------------------------------------------
(* Induction.  A set of numbers is followed along the prefixes of the       *)
(* numbers, whose inclusion is well founded.                                *)

\* A set that has 0 and goes on has all numbers.
LEMMA AllNumbers ==
  ASSUME NEW X \in SUBSET Nat, 0 \in X, \A n \in X : n + 1 \in X
  PROVE  X = Nat
<1> DEFINE Y == {1..k : k \in Nat \ X}
<1>1. SUFFICES ASSUME Nat \ X # {} PROVE FALSE
  OBVIOUS
<1>2. IsWellFoundedOn(StrictSubsetOrdering(Nat), FiniteSubsetsOf(Nat))
  BY FS_StrictSubsetOrderingWellFounded
<1>3. Y \subseteq FiniteSubsetsOf(Nat) /\ Y # {}
  <2>1. \A k \in Nat : IsFiniteSet(1..k) /\ 1..k \in SUBSET Nat
    BY FS_Interval
  <2> QED
    BY <1>1, <2>1 DEF FiniteSubsetsOf
<1>4. PICK x \in Y : \A y \in Y : ~(<<y, x>> \in StrictSubsetOrdering(Nat))
  <2> HIDE DEF Y
  <2> QED
    BY <1>2, <1>3, WFMin
<1>5. PICK k \in Nat \ X : x = 1..k
  BY <1>4
<1>6. k # 0 /\ k - 1 \in Nat /\ k - 1 + 1 = k
  BY <1>5
<1>7. k - 1 \in Nat \ X
  BY <1>5, <1>6
<1>8. 1..(k - 1) \in Y
  BY <1>7
<1>9. 1..(k - 1) \subseteq 1..k /\ k \in 1..k /\ k \notin 1..(k - 1)
  BY <1>6
<1>10. <<1..(k - 1), x>> \in StrictSubsetOrdering(Nat)
  BY <1>5, <1>6, <1>9 DEF StrictSubsetOrdering
<1> QED
  BY <1>4, <1>8, <1>10

\* What holds at 0 and goes on from step to step holds up to n.
LEMMA AllUpTo ==
  ASSUME NEW n \in Nat, NEW X, 0 \in X, \A k \in 1..n : k - 1 \in X => k \in X
  PROVE  \A k \in 0..n : k \in X
<1> DEFINE Z == {k \in Nat : k <= n => k \in X}
<1>1. 0 \in Z
  OBVIOUS
<1>2. ASSUME NEW k \in Z PROVE k + 1 \in Z
  <2>1. CASE k + 1 <= n
    <3>1. k \in X /\ k + 1 \in 1..n /\ (k + 1) - 1 = k
      BY <1>2, <2>1
    <3> QED
      BY <1>2, <3>1
  <2>2. CASE ~(k + 1 <= n)
    BY <1>2, <2>2
  <2> QED
    BY <2>1, <2>2
<1>3. Z \in SUBSET Nat
  OBVIOUS
<1> HIDE DEF Z
<1>4. Z = Nat
  BY <1>1, <1>2, <1>3, AllNumbers
<1> QED
  BY <1>4 DEF Z

\* f is defined along the numbers up to n, from base.
Along(f, n, base, G) == f[0] = base /\ \A i \in 1..n : f[i] = G[i][f[i - 1]]

\* There is such a function.
LEMMA Recursion ==
  ASSUME NEW n \in Nat, NEW V, NEW base \in V, NEW G \in [1..n -> [V -> V]]
  PROVE  \E f \in [0..n -> V] : Along(f, n, base, G)
<1> DEFINE Is(f, k) == f[0] = base /\ \A i \in 1..k : f[i] = G[i][f[i - 1]]
           X == {k \in 0..n : \E f \in [0..k -> V] : Is(f, k)}
<1>1. 0 \in X
  <2> DEFINE f == [i \in 0..0 |-> base]
  <2>1. f \in [0..0 -> V] /\ Is(f, 0)
    OBVIOUS
  <2>2. 0 \in 0..n
    OBVIOUS
  <2> HIDE DEF f, Is
  <2> QED
    BY <2>1, <2>2
<1>2. ASSUME NEW k \in 1..n, k - 1 \in X PROVE k \in X
  <2>1. PICK f \in [0..(k - 1) -> V] : Is(f, k - 1)
    BY <1>2
  <2> DEFINE g == [i \in 0..k |-> IF i = k THEN G[k][f[k - 1]] ELSE f[i]]
  <2>2. G[k] \in [V -> V] /\ f[k - 1] \in V /\ k - 1 \in Nat /\ k # 0
    BY <1>2, <2>1
  <2>3. G[k][f[k - 1]] \in V
    BY <2>2
  <2>4. \A i \in 0..k : i = k \/ i \in 0..(k - 1)
    BY <2>2
  <2>5. g \in [0..k -> V]
    BY <2>1, <2>3, <2>4
  <2>6. g[0] = base
    BY <2>1, <2>2
  <2>7. ASSUME NEW i \in 1..k PROVE g[i] = G[i][g[i - 1]]
    <3>1. i \in 0..k /\ i - 1 \in 0..k /\ i - 1 # k /\ g[i - 1] = f[i - 1]
      BY <2>2
    <3>2. CASE i = k
      BY <3>1, <3>2
    <3>3. CASE i # k
      <4>1. i \in 1..(k - 1) /\ g[i] = f[i]
        BY <3>1, <3>3
      <4> QED
        BY <2>1, <3>1, <4>1
    <3> QED
      BY <3>2, <3>3
  <2> HIDE DEF g
  <2>8. Is(g, k)
    BY <2>6, <2>7
  <2> HIDE DEF Is
  <2> QED
    BY <2>5, <2>8
<1>3. \A k \in 0..n : k \in X
  <2> HIDE DEF X
  <2> QED
    BY <1>1, <1>2, AllUpTo
<1>4. n \in 0..n
  OBVIOUS
<1> HIDE DEF Is
<1>5. \E f \in [0..n -> V] : Is(f, n)
  BY <1>3, <1>4
<1> QED
  BY <1>5 DEF Is, Along

\* The largest of some numbers.
Top(t) == CHOOSE x \in t : \A y \in t : x >= y

\* There is one, and the others are below it.
LEMMA TopOf ==
  ASSUME NEW n \in Nat, NEW t \in SUBSET (1..n), t # {}
  PROVE  /\ Top(t) \in t /\ \A y \in t : Top(t) >= y
         /\ t \ {Top(t)} \subseteq 1..(Top(t) - 1)
<1> DEFINE X == {k \in 0..n : \A u \in SUBSET (1..k) : u # {} => \E x \in u : \A y \in u : x >= y}
<1>1. 0 \in X
  <2>1. 0 \in 0..n /\ 1..0 = {}
    OBVIOUS
  <2> QED
    BY <2>1
<1>2. ASSUME NEW k \in 1..n, k - 1 \in X PROVE k \in X
  <2> SUFFICES ASSUME NEW u \in SUBSET (1..k), u # {} PROVE \E x \in u : \A y \in u : x >= y
    OBVIOUS
  <2>1. CASE k \in u
    BY <2>1
  <2>2. CASE k \notin u
    <3>1. u \in SUBSET (1..(k - 1))
      BY <2>2
    <3> QED
      BY <1>2, <3>1
  <2> QED
    BY <2>1, <2>2
<1> HIDE DEF X
<1>3. n \in X
  <2>1. \A k \in 0..n : k \in X
    BY <1>1, <1>2, AllUpTo
  <2> QED
    BY <2>1
<1>4. \E x \in t : \A y \in t : x >= y
  BY <1>3 DEF X
<1>5. Top(t) \in t /\ \A y \in t : Top(t) >= y
  BY <1>4 DEF Top
<1> HIDE DEF Top
<1>6. ASSUME NEW y \in t \ {Top(t)} PROVE y \in 1..(Top(t) - 1)
  <2>1. y \in 1..n /\ Top(t) \in 1..n /\ Top(t) >= y /\ y # Top(t)
    BY <1>5
  <2> HIDE DEF Top
  <2> QED
    BY <2>1
<1> QED
  BY <1>5, <1>6

\* The numbers up to k.
LEMMA TopOfFirst ==
  ASSUME NEW k \in Nat, k # 0
  PROVE  1..k # {} /\ Top(1..k) = k /\ (1..k) \ {k} = 1..(k - 1)
<1>1. 1..k # {} /\ k \in 1..k
  OBVIOUS
<1>2. Top(1..k) \in 1..k /\ Top(1..k) >= k
  BY <1>1, TopOf
<1> QED
  BY <1>1, <1>2

\* h is defined on sets of numbers up to n, of each from the set without its largest.
Folded(h, n, base, G) ==
  \A t \in SUBSET (1..n) : h[t] = IF t = {} THEN base ELSE G[Top(t)][h[t \ {Top(t)}]]

\* There is such a function.
LEMMA FoldExists ==
  ASSUME NEW n \in Nat, NEW V, NEW base \in V, NEW G \in [1..n -> [V -> V]]
  PROVE  \E h \in [SUBSET (1..n) -> V] : Folded(h, n, base, G)
<1> DEFINE Is(h, k) == \A t \in SUBSET (1..k) :
                         h[t] = IF t = {} THEN base ELSE G[Top(t)][h[t \ {Top(t)}]]
           X == {k \in 0..n : \E h \in [SUBSET (1..k) -> V] : Is(h, k)}
<1>1. 0 \in X
  <2> DEFINE h == [t \in SUBSET (1..0) |-> base]
  <2>1. h \in [SUBSET (1..0) -> V] /\ Is(h, 0)
    OBVIOUS
  <2>2. 0 \in 0..n
    OBVIOUS
  <2> HIDE DEF h, Is
  <2> QED
    BY <2>1, <2>2
<1>2. ASSUME NEW k \in 1..n, k - 1 \in X PROVE k \in X
  <2>1. PICK h \in [SUBSET (1..(k - 1)) -> V] : Is(h, k - 1)
    BY <1>2
  <2> DEFINE g == [t \in SUBSET (1..k) |-> IF k \in t THEN G[k][h[t \ {k}]] ELSE h[t]]
  <2>2. G[k] \in [V -> V] /\ k \in Nat
    OBVIOUS
  <2>3. ASSUME NEW t \in SUBSET (1..k)
        PROVE  /\ t \ {k} \in SUBSET (1..(k - 1))
               /\ k \notin t => t \in SUBSET (1..(k - 1))
    BY <2>2
  <2>4. g \in [SUBSET (1..k) -> V]
    <3>1. ASSUME NEW t \in SUBSET (1..k)
          PROVE  (IF k \in t THEN G[k][h[t \ {k}]] ELSE h[t]) \in V
      BY <2>1, <2>2, <2>3
    <3> QED
      BY <3>1
  <2>5. ASSUME NEW t \in SUBSET (1..k)
        PROVE  g[t] = IF t = {} THEN base ELSE G[Top(t)][g[t \ {Top(t)}]]
    <3>1. CASE k \in t
      <4>1. Top(t) = k
        <5>1. Top(t) \in t /\ Top(t) >= k
          BY <2>2, <3>1, TopOf
        <5>2. Top(t) \in 1..k
          BY <5>1
        <5> QED
          BY <2>2, <5>1, <5>2
      <4>2. g[t] = G[k][h[t \ {k}]]
        BY <3>1
      <4>3. g[t \ {k}] = h[t \ {k}]
        <5>1. t \ {k} \in SUBSET (1..k) /\ k \notin t \ {k}
          OBVIOUS
        <5> QED
          BY <5>1
      <4> HIDE DEF g
      <4> QED
        BY <3>1, <4>1, <4>2, <4>3
    <3>2. CASE k \notin t
      <4>1. t \in SUBSET (1..(k - 1)) /\ g[t] = h[t]
        BY <2>3, <3>2
      <4>2. \A u \in SUBSET (1..k) : k \notin u => g[u] = h[u]
        OBVIOUS
      <4>3. t \ {Top(t)} \in SUBSET (1..k) /\ k \notin t \ {Top(t)}
        BY <3>2
      <4> HIDE DEF g
      <4>4. g[t \ {Top(t)}] = h[t \ {Top(t)}]
        BY <4>2, <4>3
      <4> QED
        BY <2>1, <4>1, <4>4
    <3> QED
      BY <3>1, <3>2
  <2> HIDE DEF g
  <2>6. Is(g, k)
    BY <2>5
  <2> HIDE DEF Is
  <2> QED
    BY <2>4, <2>6
<1>3. \A k \in 0..n : k \in X
  <2> HIDE DEF X
  <2> QED
    BY <1>1, <1>2, AllUpTo
<1>4. n \in 0..n
  OBVIOUS
<1> HIDE DEF Is
<1>5. \E h \in [SUBSET (1..n) -> V] : Is(h, n)
  BY <1>3, <1>4
<1> QED
  BY <1>5 DEF Is, Folded
-----------------------------------------------------------------------------
(* Adapters: the texts of a conversation, one after the other.              *)

\* Putting sequences together, and the empty one.
LEMMA Joined ==
  ASSUME NEW E, NEW a \in Seq(E), NEW b \in Seq(E)
  PROVE  << >> \in Seq(E) /\ a \o b \in Seq(E) /\ << >> \o a = a /\ a \o << >> = a
BY ConcatProperties, ConcatEmptySeq, EmptySeq

\* One after the other.
Cat(a, b) == a \o b

\* In whichever order.
LEMMA JoinedTwice ==
  ASSUME NEW E, NEW a \in Seq(E), NEW b \in Seq(E), NEW c \in Seq(E)
  PROVE  Cat(Cat(a, b), c) = Cat(a, Cat(b, c))
<1> DEFINE k == Len(a)
           m == Len(b)
           n == Len(c)
           u == a \o b
           v == b \o c
<1>1. k \in Nat /\ m \in Nat /\ n \in Nat
  OBVIOUS
<1>2. /\ u \in Seq(E) /\ Len(u) = k + m
      /\ \A i \in 1..(k + m) : u[i] = IF i <= k THEN a[i] ELSE b[i - k]
  BY ConcatProperties
<1>3. /\ v \in Seq(E) /\ Len(v) = m + n
      /\ \A i \in 1..(m + n) : v[i] = IF i <= m THEN b[i] ELSE c[i - m]
  BY ConcatProperties
<1> HIDE DEF u, v
<1> DEFINE p == u \o c
           q == a \o v
<1>4. /\ p \in Seq(E) /\ Len(p) = Len(u) + n
      /\ \A i \in 1..(Len(u) + n) : p[i] = IF i <= Len(u) THEN u[i] ELSE c[i - Len(u)]
  <2>1. u \in Seq(E)
    BY <1>2
  <2> QED
    BY <2>1, ConcatProperties
<1>5. /\ q \in Seq(E) /\ Len(q) = k + Len(v)
      /\ \A i \in 1..(k + Len(v)) : q[i] = IF i <= k THEN a[i] ELSE v[i - k]
  <2>1. v \in Seq(E)
    BY <1>3
  <2> QED
    BY <2>1, ConcatProperties
<1> HIDE DEF p, q, k, m, n
<1>6. Len(p) = (k + m) + n /\ Len(q) = (k + m) + n
  BY <1>1, <1>2, <1>3, <1>4, <1>5
<1>7. ASSUME NEW i \in 1..((k + m) + n) PROVE p[i] = q[i]
  <2>1. CASE i <= k
    <3>1. /\ i \in 1..(k + m) /\ i <= k + m
          /\ i \in 1..(Len(u) + n) /\ i <= Len(u) /\ i \in 1..(k + Len(v))
      BY <1>1, <1>2, <1>3, <2>1
    <3>2. p[i] = u[i] /\ u[i] = a[i] /\ q[i] = a[i]
      BY <1>2, <1>4, <1>5, <2>1, <3>1
    <3> QED
      BY <3>2
  <2>2. CASE i > k /\ i <= k + m
    <3>1. i - k \in 1..m /\ i - k \in 1..(m + n) /\ i \in 1..(k + m)
      BY <1>1, <2>2
    <3>2. p[i] = b[i - k] /\ q[i] = v[i - k] /\ v[i - k] = b[i - k]
      BY <1>1, <1>2, <1>3, <1>4, <1>5, <2>2, <3>1
    <3> QED
      BY <3>2
  <2>3. CASE i > k + m
    <3>1. i - k \in 1..(m + n) /\ ~(i - k <= m) /\ (i - k) - m = i - (k + m) /\ i > k
      BY <1>1, <2>3
    <3>2. p[i] = c[i - (k + m)] /\ q[i] = v[i - k]
      BY <1>1, <1>2, <1>3, <1>4, <1>5, <2>3, <3>1
    <3>3. v[i - k] = c[i - (k + m)]
      BY <1>3, <3>1
    <3> QED
      BY <3>2, <3>3
  <2> QED
    BY <1>1, <2>1, <2>2, <2>3
<1>8. p = q
  BY <1>4, <1>5, <1>6, <1>7
<1> QED
  BY <1>8 DEF p, q, u, v, Cat

\* The texts of s one after the other, as any function g that puts them so has them.
LEMMA FlattenIs ==
  ASSUME NEW E, NEW s \in Seq(Seq(E)), NEW g \in [0..Len(s) -> Seq(E)], g[0] = << >>,
         \A i \in 1..Len(s) : g[i] = g[i - 1] \o s[i]
  PROVE  F!FlattenSeq(s) = g[Len(s)]
<1> DEFINE n == Len(s)
           Is(f) == f = [i \in 1..n |-> IF i = 1 THEN s[i] ELSE f[i - 1] \o s[i]]
<1>1. n \in Nat /\ \A i \in 1..n : s[i] \in Seq(E)
  OBVIOUS
<1>2. \A i \in 1..n : g[i] = g[i - 1] \o s[i]
  OBVIOUS
<1>3. n = 0 => F!FlattenSeq(s) = << >>
  BY DEF F!FlattenSeq
<1>4. n # 0 => F!FlattenSeq(s) = (CHOOSE f : Is(f))[n]
  BY DEF F!FlattenSeq
<1> HIDE DEF n
<1>6. ASSUME n # 0 PROVE F!FlattenSeq(s) = g[n]
  <2> DEFINE h == [i \in 1..n |-> g[i]]
             f == CHOOSE x : Is(x)
  <2>0. 1 \in 1..n /\ g[1] = s[1]
    <3>1. 1 \in 1..n /\ s[1] \in Seq(E)
      BY <1>1, <1>6
    <3>2. g[1] = g[0] \o s[1]
      <4>1. \A i \in 1..n : \A j \in Int : j = i - 1 => g[i] = g[j] \o s[i]
        BY <1>2
      <4>2. 0 \in Int /\ 0 = 1 - 1
        OBVIOUS
      <4> QED
        BY <3>1, <4>1, <4>2, Zenon
    <3>3. << >> \o s[1] = s[1]
      BY <3>1, Joined
    <3> QED
      BY <3>1, <3>2, <3>3
  <2>1. Is(h)
    <3>1. ASSUME NEW i \in 1..n PROVE g[i] = IF i = 1 THEN s[i] ELSE h[i - 1] \o s[i]
      <4>1. CASE i = 1
        BY <2>0, <4>1
      <4>2. CASE i # 1
        <5>1. i - 1 \in 1..n
          BY <1>1, <4>2
        <5>2. h[i - 1] = g[i - 1]
          BY <5>1
        <5> HIDE DEF h
        <5> QED
          BY <1>2, <4>2, <5>2
      <4> QED
        BY <4>1, <4>2
    <3>2. h = [i \in 1..n |-> IF i = 1 THEN s[i] ELSE h[i - 1] \o s[i]]
      BY <3>1
    <3> QED
      BY <3>2
  <2>2. Is(f)
    <3> HIDE DEF h, Is
    <3> QED
      BY <2>1
  <2> HIDE DEF f
  <2>3. \A i \in 1..n : f[i] = IF i = 1 THEN s[i] ELSE f[i - 1] \o s[i]
    BY <2>2
  <2> DEFINE X == {j \in 0..n : j > 0 => f[j] = g[j]}
  <2>4. 0 \in X
    BY <1>1
  <2>5. ASSUME NEW k \in 1..n, k - 1 \in X PROVE k \in X
    <3>1. k \in 0..n
      BY <1>1
    <3>2. CASE k = 1
      <4>1. f[1] = s[1]
        BY <2>0, <2>3
      <4> QED
        BY <2>0, <3>1, <3>2, <4>1
    <3>3. CASE k # 1
      <4>1. f[k - 1] = g[k - 1]
        BY <1>1, <2>5, <3>3
      <4>2. f[k] = g[k]
        BY <1>2, <2>3, <3>3, <4>1
      <4> QED
        BY <3>1, <4>2
    <3> QED
      BY <3>2, <3>3
  <2> HIDE DEF X
  <2>6. \A k \in 0..n : k \in X
    BY <1>1, <2>4, <2>5, AllUpTo
  <2>7. n \in 0..n /\ n > 0
    BY <1>1, <1>6
  <2>8. f[n] = g[n]
    BY <2>6, <2>7 DEF X
  <2>9. F!FlattenSeq(s) = f[n]
    BY <1>4, <1>6 DEF f
  <2> QED
    BY <2>8, <2>9
<1>7. F!FlattenSeq(s) = g[n]
  BY <1>3, <1>6
<1> QED
  BY <1>7 DEF n

\* Sequences are put together one by one.
LEMMA FlattenAlong ==
  ASSUME NEW E, NEW s \in Seq(Seq(E))
  PROVE  \E g \in [0..Len(s) -> Seq(E)] :
           g[0] = << >> /\ \A i \in 1..Len(s) : g[i] = g[i - 1] \o s[i]
<1> DEFINE n == Len(s)
           G == [i \in 1..n |-> [v \in Seq(E) |-> v \o s[i]]]
<1>1. n \in Nat /\ \A i \in 1..n : s[i] \in Seq(E)
  OBVIOUS
<1> HIDE DEF n
<1>2. \A i \in 1..n : [v \in Seq(E) |-> v \o s[i]] \in [Seq(E) -> Seq(E)]
  BY <1>1, Joined
<1>3. G \in [1..n -> [Seq(E) -> Seq(E)]]
  BY <1>2
<1>4. \A i \in 1..n, v \in Seq(E) : G[i][v] = v \o s[i]
  OBVIOUS
<1> HIDE DEF G
<1>5. << >> \in Seq(E)
  BY EmptySeq
<1>6. \E g \in [0..n -> Seq(E)] : g[0] = << >> /\ \A i \in 1..n : g[i] = G[i][g[i - 1]]
  <2> DEFINE V == Seq(E)
             z == << >>
  <2>1. n \in Nat /\ z \in V /\ G \in [1..n -> [V -> V]]
    BY <1>1, <1>3, <1>5
  <2> HIDE DEF V, z
  <2>2. \E g \in [0..n -> V] : Along(g, n, z, G)
    BY <2>1, Recursion
  <2> QED
    BY <2>2 DEF V, z, Along
<1>61. PICK g \in [0..n -> Seq(E)] : g[0] = << >> /\ \A i \in 1..n : g[i] = G[i][g[i - 1]]
  BY <1>6
<1>7. \A i \in 1..n : g[i - 1] \in Seq(E)
  BY <1>1
<1>8. \A i \in 1..n : g[i] = g[i - 1] \o s[i]
  BY <1>4, <1>61, <1>7
<1> QED
  BY <1>61, <1>8 DEF n

\* The texts of a conversation, and where they are in what is sent: a is without
\* loss in s, which has nothing else.
Told(a, n) == {i \in 1..n : a[i] # None}

Keeps(a, s) ==
  /\ Len(s) = Cardinality(Told(a, Len(a)))
  /\ \A i \in Told(a, Len(a)) : s[Cardinality(Told(a, i))] = a[i]

\* What is told is counted.
LEMMA ToldCounted ==
  ASSUME NEW a, NEW n \in Nat
  PROVE  /\ IsFiniteSet(Told(a, n)) /\ Cardinality(Told(a, n)) \in 0..n
         /\ \A i \in Told(a, n) : Cardinality(Told(a, i)) \in 1..Cardinality(Told(a, n))
<1>1. ASSUME NEW k \in Nat PROVE IsFiniteSet(Told(a, k)) /\ Cardinality(Told(a, k)) \in 0..k
  <2>1. IsFiniteSet(1..k) /\ Cardinality(1..k) = k
    BY FS_Interval
  <2>2. Told(a, k) \subseteq 1..k
    BY DEF Told
  <2>3. IsFiniteSet(Told(a, k)) /\ Cardinality(Told(a, k)) <= k
    BY <2>1, <2>2, FS_Subset
  <2> QED
    BY <2>3, FS_CardinalityType
<1>2. ASSUME NEW i \in Told(a, n)
      PROVE  Cardinality(Told(a, i)) \in 1..Cardinality(Told(a, n))
  <2>1. i \in Nat /\ i \in Told(a, i) /\ Told(a, i) \subseteq Told(a, n)
    BY DEF Told
  <2>2. Cardinality(Told(a, i)) <= Cardinality(Told(a, n))
    BY <1>1, <2>1, FS_Subset
  <2>3. Cardinality(Told(a, i)) # 0
    BY <1>1, <2>1, FS_EmptySet
  <2> QED
    BY <1>1, <2>1, <2>2, <2>3
<1> QED
  BY <1>1, <1>2

\* Nothing is in nothing.
LEMMA KeptEmpty == Keeps(<< >>, << >>)
<1>1. Told(<< >>, 0) = {}
  BY DEF Told
<1> QED
  BY <1>1, FS_EmptySet DEF Keeps

\* A text more, or a block without.
LEMMA KeptOn ==
  ASSUME NEW E, NEW a \in Seq(E), NEW s \in Seq(E), NEW x \in E, Keeps(a, s)
  PROVE  Keeps(Append(a, x), IF x = None THEN s ELSE Append(s, x))
<1> DEFINE n == Len(a)
           b == Append(a, x)
           t == IF x = None THEN s ELSE Append(s, x)
<1>1. n \in Nat /\ Len(b) = n + 1 /\ b[n + 1] = x /\ \A i \in 1..n : b[i] = a[i]
  OBVIOUS
<1>2. ASSUME NEW i \in 0..n PROVE Told(b, i) = Told(a, i)
  BY <1>1 DEF Told
<1>3. Told(b, n + 1) = IF x = None THEN Told(a, n) ELSE Told(a, n) \union {n + 1}
  <2> HIDE DEF b
  <2>1. 1..(n + 1) = (1..n) \union {n + 1}
    BY <1>1
  <2> QED
    BY <1>1, <2>1 DEF Told
<1>4. IsFiniteSet(Told(a, n)) /\ Cardinality(Told(a, n)) \in Nat /\ n + 1 \notin Told(a, n)
  <2>1. n + 1 \notin Told(a, n)
    BY <1>1 DEF Told
  <2>2. IsFiniteSet(Told(a, n)) /\ Cardinality(Told(a, n)) \in 0..n
    BY <1>1, ToldCounted
  <2> HIDE DEF n
  <2> QED
    BY <1>1, <2>1, <2>2
<1>5. Cardinality(Told(b, n + 1)) = Cardinality(Told(a, n)) + (IF x = None THEN 0 ELSE 1)
  <2> HIDE DEF b, n
  <2>1. CASE x = None
    BY <1>3, <1>4, <2>1
  <2>2. CASE x # None
    <3>1. Cardinality(Told(a, n) \union {n + 1}) = Cardinality(Told(a, n)) + 1
      BY <1>4, FS_AddElement
    <3> QED
      BY <1>3, <2>2, <3>1
  <2> QED
    BY <2>1, <2>2
<1>6. Len(s) = Cardinality(Told(a, n)) /\ \A i \in Told(a, n) : s[Cardinality(Told(a, i))] = a[i]
  BY DEF Keeps
<1>7. /\ Len(t) = Cardinality(Told(b, n + 1))
      /\ \A j \in 1..Len(s) : t[j] = s[j]
      /\ x # None => t[Len(s) + 1] = x
  BY <1>5, <1>6
<1>8. ASSUME NEW i \in Told(b, n + 1) PROVE t[Cardinality(Told(b, i))] = b[i]
  <2>1. CASE i \in Told(a, n)
    <3>1. i \in 1..n /\ b[i] = a[i] /\ Told(b, i) = Told(a, i)
      BY <1>1, <1>2, <2>1 DEF Told
    <3>2. Cardinality(Told(a, i)) \in 1..Len(s)
      BY <1>1, <1>6, <2>1, ToldCounted
    <3> QED
      BY <1>6, <1>7, <2>1, <3>1, <3>2
  <2>2. CASE i \notin Told(a, n)
    <3>1. i = n + 1 /\ x # None
      BY <1>3, <2>2
    <3> QED
      BY <1>1, <1>5, <1>6, <1>7, <3>1
  <2> QED
    BY <2>1, <2>2
<1> HIDE DEF b, t, n
<1>9. Keeps(b, t)
  BY <1>1, <1>7, <1>8 DEF Keeps
<1> QED
  BY <1>9 DEF b, t

\* A conversation of texts is all told.
LEMMA KeptWhole ==
  ASSUME NEW a \in Seq(Words)
  PROVE  Keeps(a, a)
<1>1. Len(a) \in Nat /\ \A i \in 1..Len(a) : a[i] # None
  BY AdapterAssumption
<1>2. ASSUME NEW i \in 0..Len(a) PROVE Cardinality(Told(a, i)) = i
  <2>1. Told(a, i) = 1..i
    BY <1>1 DEF Told
  <2>2. Cardinality(1..i) = i
    BY FS_Interval
  <2> QED
    BY <2>1, <2>2
<1> QED
  BY <1>1, <1>2 DEF Keeps, Told

\* extractTextFromBlocks: the texts among the blocks are kept.
LEMMA TextsKept ==
  ASSUME NEW c \in Seq(Words \union {None})
  PROVE  F!TextOfBlocks(c) \in Seq(Words) /\ Keeps(c, F!TextOfBlocks(c))
<1> DEFINE n == Len(c)
           V == Seq(Words)
           z == << >>
           G == [i \in 1..n |-> [v \in V |-> IF c[i] = None THEN v ELSE Append(v, c[i])]]
           Is(f) == f = [t \in SUBSET (1..n) |->
                           IF t = {} THEN z
                           ELSE IF c[Top(t)] = None THEN f[t \ {Top(t)}]
                                ELSE Append(f[t \ {Top(t)}], c[Top(t)])]
           f == CHOOSE x : Is(x)
<1>1. F!TextOfBlocks(c) = f[1..n]
  <2>1. DOMAIN c = 1..n
    OBVIOUS
  <2> QED
    BY <2>1 DEF F!TextOfBlocks, F!FoldLeft, F!MapThenFoldSet, F!Max, Top
<1>2. n \in Nat /\ z \in V /\ \A i \in 1..n : c[i] \in Words \union {None}
  OBVIOUS
<1> HIDE DEF n, z
<1>3. G \in [1..n -> [V -> V]]
  <2>1. ASSUME NEW i \in 1..n, NEW v \in V
        PROVE  (IF c[i] = None THEN v ELSE Append(v, c[i])) \in V
    BY <1>2
  <2> QED
    BY <2>1
<1>4. \A i \in 1..n, v \in V : G[i][v] = IF c[i] = None THEN v ELSE Append(v, c[i])
  OBVIOUS
<1> HIDE DEF G, V
<1>5. PICK g \in [0..n -> V] : Along(g, n, z, G)
  BY <1>2, <1>3, Recursion
<1>6. PICK h \in [SUBSET (1..n) -> V] : Folded(h, n, z, G)
  BY <1>2, <1>3, FoldExists
<1>7. Is(h)
  <2>1. ASSUME NEW t \in SUBSET (1..n), t # {}
        PROVE  h[t] = IF c[Top(t)] = None THEN h[t \ {Top(t)}] ELSE Append(h[t \ {Top(t)}], c[Top(t)])
    <3>1. Top(t) \in 1..n /\ t \ {Top(t)} \in SUBSET (1..n)
      BY <1>2, <2>1, TopOf
    <3>2. h[t] = G[Top(t)][h[t \ {Top(t)}]] /\ h[t \ {Top(t)}] \in V
      BY <1>6, <2>1, <3>1 DEF Folded
    <3> QED
      BY <1>4, <3>1, <3>2
  <2>2. h[{}] = z
    BY <1>6 DEF Folded
  <2> QED
    BY <2>1, <2>2
<1>8. Is(f)
  <2> HIDE DEF Is
  <2> QED
    BY <1>7
<1>9. f[{}] = z
  BY <1>8
<1>10. ASSUME NEW t \in SUBSET (1..n), t # {}
       PROVE  f[t] = IF c[Top(t)] = None THEN f[t \ {Top(t)}]
                     ELSE Append(f[t \ {Top(t)}], c[Top(t)])
  BY <1>8, <1>10
<1> HIDE DEF f
<1>11. g[0] = z /\ \A k \in 1..n : /\ g[k - 1] \in V
                                  /\ g[k] = IF c[k] = None THEN g[k - 1] ELSE Append(g[k - 1], c[k])
  <2>1. g[0] = z /\ \A k \in 1..n : g[k] = G[k][g[k - 1]]
    BY <1>5 DEF Along
  <2>2. \A k \in 1..n : g[k - 1] \in V
    BY <1>2, <1>5
  <2> QED
    BY <1>4, <2>1, <2>2
<1>12. ASSUME NEW k \in 1..n, f[1..(k - 1)] = g[k - 1] PROVE f[1..k] = g[k]
  <2>1. k \in Nat /\ k # 0 /\ 1..k \in SUBSET (1..n)
    BY <1>2
  <2>2. 1..k # {} /\ Top(1..k) = k /\ (1..k) \ {k} = 1..(k - 1)
    BY <2>1, TopOfFirst
  <2>3. f[1..k] = IF c[k] = None THEN f[1..(k - 1)] ELSE Append(f[1..(k - 1)], c[k])
    BY <1>10, <2>1, <2>2
  <2> QED
    BY <1>11, <1>12, <2>3
<1>13. f[1..n] = g[n]
  <2> DEFINE Y == {k \in 0..n : f[1..k] = g[k]}
  <2>1. 0 \in Y
    <3>1. 1..0 = {} /\ 0 \in 0..n
      BY <1>2
    <3> QED
      BY <1>9, <1>11, <3>1
  <2>2. \A k \in 1..n : k - 1 \in Y => k \in Y
    BY <1>2, <1>12
  <2>3. n \in 0..n
    BY <1>2
  <2> HIDE DEF Y
  <2>4. n \in Y
    BY <1>2, <2>1, <2>2, <2>3, AllUpTo
  <2> QED
    BY <2>4 DEF Y
<1> DEFINE X == {k \in 0..n : Keeps(SubSeq(c, 1, k), g[k])}
<1>14. 0 \in X
  <2>1. SubSeq(c, 1, 0) = << >> /\ 0 \in 0..n
    BY <1>2
  <2> QED
    BY <1>11, <2>1, KeptEmpty DEF z
<1>15. ASSUME NEW k \in 1..n, k - 1 \in X PROVE k \in X
  <2> DEFINE a == SubSeq(c, 1, k - 1)
  <2>1. SubSeq(c, 1, k) = Append(a, c[k]) /\ a \in Seq(Words \union {None}) /\ k \in 0..n
    BY <1>2 DEF n
  <2>2. g[k - 1] \in Seq(Words \union {None})
    BY <1>11 DEF V
  <2>3. Keeps(a, g[k - 1]) /\ c[k] \in Words \union {None}
    BY <1>2, <1>15
  <2> HIDE DEF a
  <2>4. Keeps(Append(a, c[k]), IF c[k] = None THEN g[k - 1] ELSE Append(g[k - 1], c[k]))
    BY <2>1, <2>2, <2>3, KeptOn
  <2> QED
    BY <1>11, <2>1, <2>4
<1>16. Keeps(SubSeq(c, 1, n), g[n])
  <2> HIDE DEF X
  <2>1. \A k \in 0..n : k \in X
    BY <1>2, <1>14, <1>15, AllUpTo
  <2> QED
    BY <1>2, <2>1 DEF X
<1>17. SubSeq(c, 1, n) = c /\ g[n] \in V
  <2>1. SubSeq(c, 1, n) = c
    BY DEF n
  <2> QED
    BY <1>2, <2>1
<1> QED
  BY <1>1, <1>13, <1>16, <1>17 DEF V

\* One place further.
LEMMA ToldNext ==
  ASSUME NEW a, NEW n \in Nat
  PROVE  Cardinality(Told(a, n + 1)) = Cardinality(Told(a, n)) + (IF a[n + 1] = None THEN 0 ELSE 1)
<1>1. 1..(n + 1) = (1..n) \union {n + 1} /\ n + 1 \notin 1..n
  OBVIOUS
<1>2. /\ Told(a, n + 1) = IF a[n + 1] = None THEN Told(a, n) ELSE Told(a, n) \union {n + 1}
      /\ n + 1 \notin Told(a, n)
  BY <1>1 DEF Told
<1>3. IsFiniteSet(Told(a, n)) /\ Cardinality(Told(a, n)) \in 0..n
  BY ToldCounted
<1>4. CASE a[n + 1] = None
  BY <1>2, <1>3, <1>4
<1>5. CASE a[n + 1] # None
  <2>1. Cardinality(Told(a, n) \union {n + 1}) = Cardinality(Told(a, n)) + 1
    BY <1>2, <1>3, FS_AddElement
  <2> QED
    BY <1>2, <1>5, <2>1
<1> QED
  BY <1>4, <1>5

\* Two conversations.
LEMMA KeptJoined ==
  ASSUME NEW E, NEW a \in Seq(E), NEW s \in Seq(E), Keeps(a, s),
         NEW b \in Seq(E), NEW t \in Seq(E), Keeps(b, t)
  PROVE  Keeps(a \o b, s \o t)
<1> DEFINE m == Len(a)
           n == Len(b)
           w == a \o b
           v == s \o t
           Count(x, i) == Cardinality(Told(x, i))
<1>1. /\ m \in Nat /\ n \in Nat /\ Len(w) = m + n
      /\ \A i \in 1..m : w[i] = a[i]
      /\ \A j \in 1..n : w[m + j] = b[j]
  OBVIOUS
<1>2. /\ Len(s) = Count(a, m) /\ Len(t) = Count(b, n) /\ Len(v) = Len(s) + Len(t)
      /\ \A i \in 1..Len(s) : v[i] = s[i]
      /\ \A j \in 1..Len(t) : v[Len(s) + j] = t[j]
  <2>1. /\ Len(v) = Len(s) + Len(t)
        /\ \A i \in 1..Len(s) : v[i] = s[i]
        /\ \A j \in 1..Len(t) : v[Len(s) + j] = t[j]
    OBVIOUS
  <2> HIDE DEF v
  <2> QED
    BY <2>1 DEF Keeps
<1>3. /\ \A i \in Told(a, m) : s[Count(a, i)] = a[i]
      /\ \A j \in Told(b, n) : t[Count(b, j)] = b[j]
  BY DEF Keeps
<1> HIDE DEF m, n, w, v
<1>4. ASSUME NEW x, NEW i \in Nat
      PROVE  Count(x, i) \in Nat /\ \A j \in Told(x, i) : Count(x, j) \in 1..Count(x, i)
  BY <1>4, ToldCounted
<1>5. \A i \in 0..m : Told(w, i) = Told(a, i)
  BY <1>1 DEF Told
<1>6. \A k \in 0..n : Count(w, m + k) = Count(a, m) + Count(b, k)
  <2> DEFINE X == {k \in 0..n : Count(w, m + k) = Count(a, m) + Count(b, k)}
  <2>1. 0 \in X
    <3>1. Told(b, 0) = {} /\ m + 0 = m /\ m \in 0..m /\ 0 \in 0..n
      BY <1>1 DEF Told
    <3>2. Cardinality({}) = 0
      BY FS_EmptySet
    <3>3. Count(a, m) \in Nat
      BY <1>1, <1>4
    <3> HIDE DEF Count
    <3>4. Count(w, m) = Count(a, m) /\ Count(b, 0) = 0
      BY <1>5, <3>1, <3>2 DEF Count
    <3> QED
      BY <3>1, <3>3, <3>4
  <2>2. ASSUME NEW k \in 1..n, k - 1 \in X PROVE k \in X
    <3>1. /\ k - 1 \in Nat /\ (k - 1) + 1 = k /\ m + (k - 1) \in Nat
          /\ (m + (k - 1)) + 1 = m + k /\ k \in 0..n
      BY <1>1
    <3>2. w[m + k] = b[k]
      BY <1>1
    <3>3. Count(w, m + k) = Count(w, m + (k - 1)) + (IF b[k] = None THEN 0 ELSE 1)
      BY <3>1, <3>2, ToldNext
    <3>4. Count(b, k) = Count(b, k - 1) + (IF b[k] = None THEN 0 ELSE 1)
      BY <3>1, ToldNext
    <3>5. Count(a, m) \in Nat /\ Count(b, k - 1) \in Nat
      BY <1>1, <1>4, <3>1
    <3> HIDE DEF Count
    <3> QED
      BY <2>2, <3>1, <3>3, <3>4, <3>5
  <2> HIDE DEF X
  <2>3. \A k \in 0..n : k \in X
    BY <1>1, <2>1, <2>2, AllUpTo
  <2> QED
    BY <2>3 DEF X
<1> HIDE DEF Count
<1>7. Len(v) = Count(w, m + n)
  BY <1>1, <1>2, <1>6
<1>8. ASSUME NEW i \in Told(w, m + n) PROVE v[Count(w, i)] = w[i]
  <2>0. i \in 1..(m + n) /\ w[i] # None
    BY DEF Told
  <2>1. CASE i <= m
    <3>1. i \in 1..m /\ i \in 0..m /\ w[i] = a[i]
      BY <1>1, <2>0, <2>1
    <3>2. i \in Told(a, m) /\ Told(w, i) = Told(a, i)
      BY <1>5, <2>0, <3>1 DEF Told
    <3>3. Count(a, i) \in 1..Len(s)
      BY <1>1, <1>2, <1>4, <3>2
    <3> QED
      BY <1>2, <1>3, <3>1, <3>2, <3>3 DEF Count
  <2>2. CASE ~(i <= m)
    <3>1. PICK j \in 1..n : i = m + j
      <4>1. i - m \in 1..n /\ i = m + (i - m)
        BY <1>1, <2>0, <2>2
      <4> QED
        BY <4>1
    <3>2. w[i] = b[j] /\ j \in Told(b, n) /\ j \in 0..n
      BY <1>1, <2>0, <3>1 DEF Told
    <3>3. Count(b, j) \in 1..Len(t)
      BY <1>1, <1>2, <1>4, <3>2
    <3>4. Count(w, i) = Len(s) + Count(b, j)
      BY <1>2, <1>6, <3>1, <3>2
    <3> QED
      BY <1>2, <1>3, <3>2, <3>3, <3>4
  <2> QED
    BY <2>1, <2>2
<1>9. Keeps(w, v)
  BY <1>1, <1>7, <1>8 DEF Keeps, Count
<1> QED
  BY <1>9 DEF w, v

\* All conversations of a list.
LEMMA KeptFlat ==
  ASSUME NEW E, NEW A \in Seq(Seq(E)), NEW Z \in Seq(Seq(E)), Len(Z) = Len(A),
         \A i \in 1..Len(A) : Keeps(A[i], Z[i])
  PROVE  /\ F!FlattenSeq(A) \in Seq(E) /\ F!FlattenSeq(Z) \in Seq(E)
         /\ Keeps(F!FlattenSeq(A), F!FlattenSeq(Z))
<1> DEFINE n == Len(A)
<1>1. n \in Nat /\ \A i \in 1..n : A[i] \in Seq(E) /\ Z[i] \in Seq(E)
  OBVIOUS
<1>2. PICK g \in [0..n -> Seq(E)] : g[0] = << >> /\ \A i \in 1..n : g[i] = g[i - 1] \o A[i]
  BY FlattenAlong
<1>3. PICK h \in [0..n -> Seq(E)] : h[0] = << >> /\ \A i \in 1..n : h[i] = h[i - 1] \o Z[i]
  BY FlattenAlong
<1>4. F!FlattenSeq(A) = g[n]
  BY <1>2, FlattenIs
<1>5. F!FlattenSeq(Z) = h[n]
  BY <1>3, FlattenIs
<1>6. \A i \in 1..n : Keeps(A[i], Z[i])
  OBVIOUS
<1> HIDE DEF n
<1> DEFINE X == {k \in 0..n : Keeps(g[k], h[k])}
<1>7. 0 \in X
  BY <1>1, <1>2, <1>3, KeptEmpty
<1>8. ASSUME NEW k \in 1..n, k - 1 \in X PROVE k \in X
  <2>1. k - 1 \in 0..n /\ k \in 0..n /\ g[k - 1] \in Seq(E) /\ h[k - 1] \in Seq(E)
    BY <1>1
  <2>2. g[k] = g[k - 1] \o A[k] /\ h[k] = h[k - 1] \o Z[k]
    BY <1>2, <1>3
  <2>3. Keeps(g[k - 1], h[k - 1]) /\ Keeps(A[k], Z[k])
    BY <1>6, <1>8
  <2>4. Keeps(g[k - 1] \o A[k], h[k - 1] \o Z[k])
    BY <1>1, <2>1, <2>3, KeptJoined
  <2> QED
    BY <2>1, <2>2, <2>4
<1> HIDE DEF X
<1>9. n \in X
  <2>1. n \in 0..n
    BY <1>1
  <2> QED
    BY <1>1, <1>7, <1>8, <2>1, AllUpTo
<1> QED
  BY <1>1, <1>4, <1>5, <1>9 DEF X

\* One sequence in front of others.
LEMMA FlattenLed ==
  ASSUME NEW E, NEW Z \in Seq(Seq(E)), NEW L \in Seq(Seq(E)), NEW x \in Seq(E),
         Len(L) = Len(Z) + 1, L[1] = x, \A i \in 1..Len(Z) : L[i + 1] = Z[i]
  PROVE  F!FlattenSeq(L) = x \o F!FlattenSeq(Z)
<1> DEFINE n == Len(Z)
<1>1. n \in Nat /\ \A i \in 1..n : Z[i] \in Seq(E)
  OBVIOUS
<1>2. PICK g \in [0..n -> Seq(E)] : g[0] = << >> /\ \A i \in 1..n : g[i] = g[i - 1] \o Z[i]
  BY FlattenAlong
<1>3. F!FlattenSeq(Z) = g[n]
  BY <1>2, FlattenIs
<1>4. Len(L) = n + 1 /\ L[1] = x /\ \A i \in 1..n : L[i + 1] = Z[i]
  OBVIOUS
<1> HIDE DEF n
<1> DEFINE h == [i \in 0..(n + 1) |-> IF i = 0 THEN << >> ELSE x \o g[i - 1]]
<1>5. \A i \in 0..n : g[i] \in Seq(E) /\ x \o g[i] \in Seq(E)
  BY <1>1, Joined
<1>6. h \in [0..(n + 1) -> Seq(E)]
  <2>1. ASSUME NEW i \in 0..(n + 1) PROVE (IF i = 0 THEN << >> ELSE x \o g[i - 1]) \in Seq(E)
    <3>1. i # 0 => i - 1 \in 0..n
      BY <1>1
    <3> QED
      BY <1>5, <3>1, Joined
  <2> QED
    BY <2>1
<1>7. h[0] = << >> /\ \A i \in 0..n : h[i + 1] = x \o g[i]
  BY <1>1
<1> HIDE DEF h
<1>8. ASSUME NEW i \in 1..(n + 1) PROVE h[i] = h[i - 1] \o L[i]
  <2>1. CASE i = 1
    <3>1. h[1] = x \o g[0]
      <4>1. 0 \in 0..n /\ 0 + 1 = 1
        BY <1>1
      <4> QED
        BY <1>7, <4>1
    <3>2. h[1] = x
      BY <1>2, <3>1, Joined
    <3>3. i - 1 = 0 /\ << >> \o x = x
      BY <2>1, Joined
    <3> QED
      BY <1>4, <1>7, <2>1, <3>2, <3>3
  <2>2. CASE i # 1
    <3>1. PICK j \in 1..n : i = j + 1
      <4>1. i - 1 \in 1..n /\ i = (i - 1) + 1
        BY <1>1, <2>2
      <4> QED
        BY <4>1
    <3>2. j \in 0..n /\ j - 1 \in 0..n /\ (j - 1) + 1 = j /\ i - 1 = j
      BY <1>1, <3>1
    <3>3. h[i] = x \o g[j] /\ h[i - 1] = x \o g[j - 1] /\ L[i] = Z[j]
      BY <1>4, <1>7, <3>1, <3>2
    <3>4. g[j] = g[j - 1] \o Z[j]
      BY <1>2
    <3>5. x \o (g[j - 1] \o Z[j]) = (x \o g[j - 1]) \o Z[j]
      <4>1. x \in Seq(E) /\ g[j - 1] \in Seq(E) /\ Z[j] \in Seq(E)
        BY <1>1, <1>5, <3>2
      <4>2. Cat(x, Cat(g[j - 1], Z[j])) = Cat(Cat(x, g[j - 1]), Z[j])
        BY <4>1, JoinedTwice
      <4> QED
        BY <4>2 DEF Cat
    <3> QED
      BY <3>3, <3>4, <3>5
  <2> QED
    BY <2>1, <2>2
<1>9. F!FlattenSeq(L) = h[n + 1]
  <2> DEFINE l == Len(L)
  <2>1. l = n + 1 /\ h \in [0..l -> Seq(E)] /\ h[0] = << >> /\ \A i \in 1..l : h[i] = h[i - 1] \o L[i]
    BY <1>4, <1>6, <1>7, <1>8
  <2>2. F!FlattenSeq(L) = h[l]
    BY <2>1, FlattenIs
  <2> HIDE DEF l
  <2> QED
    BY <2>1, <2>2
<1>10. h[n + 1] = x \o g[n]
  <2>1. n \in 0..n
    BY <1>1
  <2> QED
    BY <1>7, <2>1
<1> QED
  BY <1>3, <1>9, <1>10

\* A request as every format has it: perhaps a turn for the system prompt, then the
\* turns of the conversation with their texts, each on its side.
Translated(b, turns, lead) ==
  /\ lead \in {0, 1} /\ Len(turns) = lead + Len(b.messages)
  /\ lead = 1 => b.system # None /\ turns[1].texts = <<b.system>>
  /\ \A i \in 1..Len(b.messages) :
       /\ turns[lead + i].texts = F!Texts(b.messages[i])
       /\ F!Side(turns[lead + i].role) = b.messages[i].role

\* A function of the numbers up to n is a sequence.
LEMMA Listed ==
  ASSUME NEW E, NEW n \in Nat, NEW f \in [1..n -> E]
  PROVE  f \in Seq(E) /\ Len(f) = n
OBVIOUS

\* A client's request.
LEMMA BodyTypes ==
  ASSUME body \in Bodies
  PROVE  /\ Len(body.messages) \in Nat /\ body.system \in Words \union {None}
         /\ \A i \in 1..Len(body.messages) :
              /\ body.messages[i].role \in {"user", "assistant"}
              /\ body.messages[i].content \in Seq(Words \union {None})
              /\ body.messages[i].blocks \in BOOLEAN
              /\ ~body.messages[i].blocks => body.messages[i].content \in Seq(Words)
<1> DEFINE E == Words \union {None}
           n == Len(body.messages)
           R == [role : {"user", "assistant"}, blocks : BOOLEAN, content : Seq(E)]
<1>1. /\ body \in [system : E, messages : Seq(R)]
      /\ \A i \in 1..n : ~body.messages[i].blocks => body.messages[i].content \in Seq(Words)
  BY AdapterAssumption
<1>2. body.system \in E /\ body.messages \in Seq(R)
  <2> HIDE DEF R, E
  <2> QED
    BY <1>1
<1>3. n \in Nat /\ \A i \in 1..n : body.messages[i] \in R
  <2> HIDE DEF R
  <2> QED
    BY <1>2
<1>4. \A r \in R : r.role \in {"user", "assistant"} /\ r.content \in Seq(E) /\ r.blocks \in BOOLEAN
  <2> HIDE DEF E
  <2> QED
    OBVIOUS
<1>5. \A i \in 1..n : /\ body.messages[i].role \in {"user", "assistant"}
                      /\ body.messages[i].content \in Seq(E)
                      /\ body.messages[i].blocks \in BOOLEAN
                      /\ ~body.messages[i].blocks => body.messages[i].content \in Seq(Words)
  <2> HIDE DEF R, n, E
  <2> QED
    BY <1>1, <1>3, <1>4
<1> QED
  BY <1>2, <1>3, <1>5

\* Such a request keeps the conversation.
LEMMA TranslatedKeeps ==
  ASSUME body \in Bodies, NEW lead, Translated(body, request.turns, lead)
  PROVE  F!ConversationIsKept
<1> DEFINE E == Words \union {None}
           n == Len(body.messages)
           A == [i \in 1..n |-> body.messages[i].content]
           Z == [i \in 1..n |-> F!Texts(body.messages[i])]
           L == [i \in 1..Len(request.turns) |-> request.turns[i].texts]
           all == F!FlattenSeq(A)
           said == F!FlattenSeq(L)
<1>1. /\ n \in Nat /\ body.system \in E
      /\ \A i \in 1..n : /\ body.messages[i].content \in Seq(E)
                         /\ body.messages[i].blocks \in BOOLEAN
                         /\ ~body.messages[i].blocks => body.messages[i].content \in Seq(Words)
  BY BodyTypes
<1>2. A \in Seq(Seq(E)) /\ Len(A) = n
  <2> HIDE DEF n
  <2>1. \A i \in 1..n : body.messages[i].content \in Seq(E)
    <3> HIDE DEF E
    <3> QED
      BY <1>1, Zenon
  <2> HIDE DEF E
  <2>2. A \in [1..n -> Seq(E)]
    BY <2>1
  <2> HIDE DEF A
  <2> QED
    BY <1>1, <2>2, Listed
<1>3. ASSUME NEW i \in 1..n
      PROVE  F!Texts(body.messages[i]) \in Seq(E) /\ Keeps(A[i], F!Texts(body.messages[i]))
  <2>1. \A w \in Seq(Words) : w \in Seq(E)
    OBVIOUS
  <2> DEFINE m == body.messages[i]
             c == m.content
  <2>0. A[i] = c
    OBVIOUS
  <2>2. /\ c \in Seq(E) /\ m.blocks \in BOOLEAN
        /\ ~m.blocks => c \in Seq(Words)
    <3> HIDE DEF n, E
    <3> QED
      BY <1>1, Zenon
  <2> HIDE DEF A, m
  <2>3. CASE m.blocks
    <3>1. F!TextOfBlocks(c) \in Seq(Words) /\ Keeps(c, F!TextOfBlocks(c))
      BY <2>2, TextsKept
    <3>2. F!Texts(m) = F!TextOfBlocks(c)
      BY <2>3 DEF F!Texts
    <3> HIDE DEF c
    <3> QED
      BY <2>0, <2>1, <2>2, <3>1, <3>2 DEF m
  <2>4. CASE ~m.blocks
    <3>1. F!Texts(m) = c
      BY <2>4 DEF F!Texts
    <3>2. Keeps(c, c)
      BY <2>2, <2>4, KeptWhole
    <3> HIDE DEF c
    <3> QED
      BY <2>0, <2>2, <3>1, <3>2 DEF m
  <2> QED
    BY <2>3, <2>4
<1>4. Z \in Seq(Seq(E)) /\ Len(Z) = n /\ \A i \in 1..n : Keeps(A[i], Z[i])
  <2> HIDE DEF n, A
  <2>1. Z \in [1..n -> Seq(E)] /\ \A i \in 1..n : Keeps(A[i], Z[i])
    BY <1>3
  <2> HIDE DEF Z, E
  <2> QED
    BY <1>1, <2>1, Listed
<1>5. /\ lead \in {0, 1} /\ Len(request.turns) = lead + n /\ Len(L) = lead + n
      /\ \A i \in 1..n : L[lead + i] = Z[i]
      /\ lead = 1 => L[1] = <<body.system>>
  <2>1. lead \in {0, 1} /\ Len(request.turns) = lead + n
    BY DEF Translated
  <2>2. \A i \in 1..n : request.turns[lead + i].texts = Z[i] /\ lead + i \in 1..(lead + n)
    BY <1>1, <2>1 DEF Translated
  <2>3. lead = 1 => request.turns[1].texts = <<body.system>> /\ 1 \in 1..(lead + n)
    BY <1>1, <2>1 DEF Translated
  <2> HIDE DEF n, Z
  <2>4. Len(L) = lead + n
    BY <1>1, <2>1
  <2> QED
    BY <2>1, <2>2, <2>3, <2>4
<1>6. all \in Seq(E) /\ F!FlattenSeq(Z) \in Seq(E) /\ Keeps(all, F!FlattenSeq(Z))
  <2> HIDE DEF A, Z, n, E
  <2> QED
    BY <1>2, <1>4, KeptFlat
<1>7. /\ Len(said) = lead + Cardinality(Told(all, Len(all)))
      /\ \A i \in Told(all, Len(all)) : said[lead + Cardinality(Told(all, i))] = all[i]
      /\ lead = 1 => Head(said) = body.system
  <2> DEFINE z == F!FlattenSeq(Z)
  <2>0. /\ Len(z) = Cardinality(Told(all, Len(all))) /\ z \in Seq(E) /\ Len(z) \in Nat
        /\ \A i \in Told(all, Len(all)) : z[Cardinality(Told(all, i))] = all[i]
    <3> HIDE DEF all, Z, E
    <3> QED
      BY <1>6 DEF Keeps
  <2>1. CASE lead = 0
    <3>1. L = Z
      <4>1. Z = [i \in 1..n |-> Z[i]]
        OBVIOUS
      <4>2. L = [i \in 1..Len(request.turns) |-> L[i]]
        OBVIOUS
      <4> HIDE DEF L, Z, n
      <4>3. Len(request.turns) = n /\ \A i \in 1..n : L[i] = Z[i]
        BY <1>1, <1>5, <2>1
      <4> QED
        BY <4>1, <4>2, <4>3
    <3>2. said = z
      BY <3>1
    <3>3. \A i \in Told(all, Len(all)) : Cardinality(Told(all, i)) \in Nat
      <4> HIDE DEF all
      <4>1. \A i \in Told(all, Len(all)) : i \in Nat
        BY DEF Told
      <4> QED
        BY <4>1, ToldCounted
    <3> HIDE DEF said, z, all
    <3> QED
      BY <2>0, <2>1, <3>2, <3>3
  <2>2. CASE lead = 1
    <3> DEFINE x == <<body.system>>
    <3>1. x \in Seq(E) /\ Len(x) = 1 /\ x[1] = body.system
      BY <1>1
    <3>2. L \in Seq(Seq(E)) /\ Len(L) = n + 1
      <4>1. \A i \in 1..Len(request.turns) : L[i] \in Seq(E)
        <5> SUFFICES ASSUME NEW i \in 1..Len(request.turns) PROVE L[i] \in Seq(E)
          OBVIOUS
        <5> HIDE DEF L, Z, n, E, x
        <5>1. CASE i = 1
          BY <1>5, <2>2, <3>1, <5>1 DEF x
        <5>2. CASE i # 1
          <6>1. i - 1 \in 1..n /\ lead + (i - 1) = i
            BY <1>1, <1>5, <2>2, <5>2
          <6>2. L[i] = Z[i - 1]
            BY <1>5, <6>1
          <6> QED
            BY <1>4, <6>1, <6>2
        <5> QED
          BY <5>1, <5>2
      <4>2. L \in [1..Len(request.turns) -> Seq(E)]
        <5> HIDE DEF E
        <5> QED
          BY <4>1
      <4> HIDE DEF L, n, E
      <4>3. Len(request.turns) = n + 1 /\ n + 1 \in Nat
        BY <1>1, <1>5, <2>2
      <4> QED
        BY <4>2, <4>3, Listed
    <3>3. said = x \o z
      <4> HIDE DEF L, Z, n, E
      <4>1. /\ L[1] = x /\ Len(L) = Len(Z) + 1
            /\ \A i \in 1..Len(Z) : L[i + 1] = Z[i]
        BY <1>1, <1>4, <1>5, <2>2, <3>2
      <4> HIDE DEF x
      <4> QED
        BY <1>4, <3>1, <3>2, <4>1, FlattenLed
    <3>4. \A i \in Told(all, Len(all)) : Cardinality(Told(all, i)) \in 1..Len(z)
      <4> HIDE DEF all, E, z
      <4>1. Len(all) \in Nat
        BY <1>6
      <4> QED
        BY <2>0, <4>1, ToldCounted
    <3> HIDE DEF said, z, all, x, E
    <3>5. /\ Len(x \o z) = 1 + Len(z) /\ Head(x \o z) = x[1]
          /\ \A j \in 1..Len(z) : (x \o z)[1 + j] = z[j]
      <4> DEFINE y == x \o z
      <4>1. /\ y \in Seq(E) /\ Len(y) = Len(x) + Len(z)
            /\ \A i \in 1..Len(x) + Len(z) : y[i] = IF i <= Len(x) THEN x[i] ELSE z[i - Len(x)]
        BY <2>0, <3>1, ConcatProperties
      <4> HIDE DEF y
      <4>2. ASSUME NEW j \in 1..Len(z) PROVE y[1 + j] = z[j]
        <5>1. 1 + j \in 1..Len(x) + Len(z) /\ ~(1 + j <= Len(x)) /\ (1 + j) - Len(x) = j
          BY <2>0, <3>1
        <5> QED
          BY <4>1, <5>1
      <4>3. Len(y) = 1 + Len(z) /\ y[1] = x[1] /\ Head(y) = y[1]
        BY <2>0, <3>1, <4>1
      <4> QED
        BY <4>2, <4>3 DEF y
    <3> QED
      BY <2>0, <2>2, <3>1, <3>3, <3>4, <3>5
  <2> QED
    BY <1>5, <2>1, <2>2
<1>8. \A i \in 1..n : F!Side(request.turns[lead + i].role) = body.messages[i].role
  BY DEF Translated
<1>9. lead = Len(request.turns) - n
  <2> HIDE DEF n
  <2> QED
    BY <1>1, <1>5
<1>10. \A X : F!Cardinality(X) = Cardinality(X)
  BY DEF F!Cardinality, Cardinality
<1>11. /\ all = F!FlattenSeq([i \in 1..Len(body.messages) |-> body.messages[i].content])
       /\ said = F!FlattenSeq([i \in 1..Len(request.turns) |-> request.turns[i].texts])
       /\ n = Len(body.messages)
  OBVIOUS
<1> HIDE DEF all, said, n
<1>12. /\ Len(said) = lead + F!Cardinality({i \in 1..Len(all) : all[i] # None})
       /\ \A i \in {j \in 1..Len(all) : all[j] # None} :
            said[lead + F!Cardinality({j \in 1..i : all[j] # None})] = all[i]
  BY <1>7, <1>10 DEF Told
<1> QED
  BY <1>5, <1>7, <1>8, <1>9, <1>11, <1>12 DEF F!ConversationIsKept, F!Flat

\* The turns of each format are those of the conversation.
LEMMA FormatsTranslate ==
  ASSUME body \in Bodies,
         NEW q \in {F!Anthropic(body), F!OpenAI(body), F!Gemini(body), F!Baidu(body)}
  PROVE  \E lead : Translated(body, q.turns, lead)
<1> DEFINE n == Len(body.messages)
           M == F!TranslateMessages(body)
           Good(w, lead) ==
             /\ lead \in {0, 1} /\ Len(w) = lead + n
             /\ lead = 1 => body.system # None /\ w[1].texts = <<body.system>>
             /\ \A i \in 1..n : /\ w[lead + i].texts = F!Texts(body.messages[i])
                                /\ F!Side(w[lead + i].role) = body.messages[i].role
<1>1. n \in Nat /\ \A i \in 1..n : body.messages[i].role \in {"user", "assistant"}
  BY BodyTypes
<1>2. /\ M = [i \in 1..n |-> M[i]]
      /\ \A i \in 1..n : /\ M[i].texts = F!Texts(body.messages[i])
                         /\ M[i].role = body.messages[i].role
  BY DEF F!TranslateMessages
<1>3. \A i \in 1..n : F!Side(body.messages[i].role) = body.messages[i].role
  BY <1>1 DEF F!Side
<1>4. F!Anthropic(body).turns = M
  BY DEF F!Anthropic
<1>5. F!Gemini(body).turns = F!TranslateToGeminiContents(body)
  BY DEF F!Gemini
<1>6. F!OpenAI(body).turns = F!SystemTurn(body, "system") \o M
  BY DEF F!OpenAI
<1>7. F!Baidu(body).turns = F!SystemTurn(body, "user") \o M
  BY DEF F!Baidu
<1> HIDE DEF M, n
<1>8. Good(M, 0)
  <2>1. Len(M) = n
    BY <1>1, <1>2
  <2> QED
    BY <1>1, <1>2, <1>3, <2>1
<1>9. Good(F!TranslateToGeminiContents(body), 0)
  <2> DEFINE w == F!TranslateToGeminiContents(body)
  <2>1. /\ w = [i \in 1..n |-> w[i]]
        /\ \A i \in 1..n : /\ w[i].texts = F!Texts(body.messages[i])
                           /\ w[i].role = IF body.messages[i].role = "assistant" THEN "model"
                                          ELSE body.messages[i].role
    BY DEF F!TranslateToGeminiContents, n
  <2> HIDE DEF w
  <2>2. \A i \in 1..n : F!Side(w[i].role) = body.messages[i].role
    BY <1>1, <2>1 DEF F!Side
  <2>3. Len(w) = n
    BY <1>1, <2>1
  <2>4. Good(w, 0)
    BY <1>1, <2>1, <2>2, <2>3
  <2> QED
    BY <2>4 DEF w
<1>10. ASSUME NEW role PROVE \E lead : Good(F!SystemTurn(body, role) \o M, lead)
  <2> DEFINE turn == [role |-> role, texts |-> <<body.system>>]
             K == {M[i] : i \in 1..n} \union {turn}
  <2>1. M \in Seq(K) /\ Len(M) = n
    <3>1. M \in [1..n -> K]
      <4> HIDE DEF turn
      <4> QED
        BY <1>2
    <3> HIDE DEF K
    <3> QED
      BY <1>1, <3>1, Listed
  <2>2. turn \in K
    OBVIOUS
  <2>3. turn.texts = <<body.system>>
    OBVIOUS
  <2>4. F!SystemTurn(body, role) = IF body.system = None THEN << >> ELSE <<turn>>
    BY DEF F!SystemTurn
  <2> HIDE DEF K, turn
  <2>5. CASE body.system = None
    <3>1. F!SystemTurn(body, role) \o M = M
      BY <2>1, <2>4, <2>5, Joined
    <3> HIDE DEF Good
    <3> QED
      BY <1>8, <3>1
  <2>6. CASE body.system # None
    <3> DEFINE y == <<turn>>
               w == y \o M
    <3>1. y \in Seq(K) /\ Len(y) = 1 /\ y[1] = turn
      BY <2>2
    <3> HIDE DEF y
    <3>2. /\ Len(w) = 1 + n
          /\ \A i \in 1..(1 + n) : w[i] = IF i <= 1 THEN y[i] ELSE M[i - 1]
      <4>1. /\ Len(w) = Len(y) + Len(M)
            /\ \A i \in 1..Len(y) + Len(M) : w[i] = IF i <= Len(y) THEN y[i] ELSE M[i - Len(y)]
        <5>1. y \in Seq(K) /\ M \in Seq(K)
          BY <2>1, <3>1
        <5> HIDE DEF y, K, M
        <5> QED
          BY <5>1, ConcatProperties
      <4> HIDE DEF w
      <4> QED
        BY <2>1, <3>1, <4>1
    <3> HIDE DEF w
    <3>3. w[1] = turn /\ \A i \in 1..n : w[1 + i] = M[i]
      BY <1>1, <3>1, <3>2
    <3>4. Good(w, 1)
      BY <1>2, <1>3, <2>3, <2>6, <3>2, <3>3
    <3>5. F!SystemTurn(body, role) \o M = w
      BY <2>4, <2>6 DEF w, y
    <3> HIDE DEF Good
    <3> QED
      BY <3>4, <3>5
  <2> QED
    BY <2>5, <2>6
<1> HIDE DEF Good
<1>11. \E lead : Good(q.turns, lead)
  BY <1>4, <1>5, <1>6, <1>7, <1>8, <1>9, <1>10
<1> QED
  BY <1>11 DEF Good, Translated, n

\* A request is the body in one of the formats.
AdapterInv ==
  /\ body \in Bodies
  /\ \/ request = None
     \/ request \in {F!Anthropic(body), F!OpenAI(body), F!Gemini(body), F!Baidu(body)}

\* It keeps the conversation.
LEMMA AdapterKeeps == AdapterInv => F!ConversationIsKept
<1> SUFFICES ASSUME AdapterInv PROVE F!ConversationIsKept
  OBVIOUS
<1>1. CASE request = None
  BY <1>1 DEF F!ConversationIsKept
<1>2. CASE request # None
  <2>1. PICK lead : Translated(body, request.turns, lead)
    BY <1>2, FormatsTranslate DEF AdapterInv
  <2> QED
    BY <2>1, TranslatedKeeps DEF AdapterInv
<1> QED
  BY <1>1, <1>2

\* No request is built at first.
LEMMA AdapterInitially == F!Init => AdapterInv
  BY DEF F!Init, AdapterInv

\* The formats are the only ones.
LEMMA AdapterGoesOn == AdapterInv /\ [F!Next]_(F!vars) => AdapterInv'
<1> SUFFICES ASSUME AdapterInv, [F!Next]_(F!vars) PROVE AdapterInv'
  OBVIOUS
<1>1. CASE F!BuildRequest
  <2>1. body' = body /\ body \in Bodies
    BY <1>1 DEF AdapterInv, F!BuildRequest
  <2>2. request' \in {F!Anthropic(body), F!OpenAI(body), F!Gemini(body), F!Baidu(body)}
    <3>1. F!AdapterFor \in {"anthropic", "gemini", "baidu", "openai"}
      BY DEF F!AdapterFor
    <3> QED
      BY <1>1, <3>1 DEF F!BuildRequest
  <2>3. /\ F!Anthropic(body)' = F!Anthropic(body) /\ F!OpenAI(body)' = F!OpenAI(body)
        /\ F!Gemini(body)' = F!Gemini(body) /\ F!Baidu(body)' = F!Baidu(body)
    BY <2>1 DEF F!Anthropic, F!OpenAI, F!Gemini, F!Baidu, F!TranslateMessages,
                F!TranslateToGeminiContents, F!SystemTurn
  <2> QED
    BY <2>1, <2>2, <2>3 DEF AdapterInv
<1>2. CASE UNCHANGED F!vars
  BY <1>2 DEF AdapterInv, F!vars, F!Anthropic, F!OpenAI, F!Gemini, F!Baidu,
              F!TranslateMessages, F!TranslateToGeminiContents, F!SystemTurn
<1> QED
  BY <1>1, <1>2 DEF F!Next
-----------------------------------------------------------------------------
(* TokenTracker: the usage of a stream, read chunk by chunk.                *)

\* f is a fold along the numbers up to n, as far as it is in V.
Stepwise(f, n, V, G) == \A k \in 1..n : f[1..(k - 1)] \in V => f[1..k] = G[k][f[1..(k - 1)]]

\* g is defined along the numbers up to n, as the fold f is.
Alongside(f, g, n, z, V, G) ==
  /\ n \in Nat /\ g \in [0..n -> V] /\ Along(g, n, z, G)
  /\ f[{}] = z /\ Stepwise(f, n, V, G)

\* The fold ends as g does.
SameAtLast(f, g, n) == f[1..n] = g[n]

\* What a fold over a sequence is, if it is defined along it.
LEMMA FoldIs ==
  ASSUME NEW f, NEW g, NEW n, NEW z, NEW V, NEW G, Alongside(f, g, n, z, V, G)
  PROVE  SameAtLast(f, g, n)
<1>0. /\ n \in Nat /\ g \in [0..n -> V] /\ Along(g, n, z, G)
      /\ f[{}] = z /\ Stepwise(f, n, V, G)
  BY DEF Alongside
<1> DEFINE Y == {k \in 0..n : f[1..k] = g[k]}
<1>1. g[0] = z /\ \A k \in 1..n : g[k] = G[k][g[k - 1]]
  BY <1>0 DEF Along
<1>2. 0 \in Y
  <2>1. 1..0 = {} /\ 0 \in 0..n
    BY <1>0
  <2>2. f[1..0] = g[0]
    BY <1>0, <1>1, <2>1
  <2> QED
    BY <2>1, <2>2
<1>3. ASSUME NEW k \in 1..n, k - 1 \in Y PROVE k \in Y
  <2>1. f[1..(k - 1)] = g[k - 1] /\ g[k - 1] \in V /\ k \in 0..n
    BY <1>0, <1>3
  <2> QED
    BY <1>0, <1>1, <2>1 DEF Stepwise
<1> HIDE DEF Y
<1>4. n \in 0..n
  BY <1>0
<1>5. n \in Y
  BY <1>0, <1>2, <1>3, <1>4, AllUpTo
<1> QED
  BY <1>5 DEF Y, SameAtLast

\* Pieces of lines, symbols, and the states of the parser.
Marks == [line : Lines, part : 1..3]
Symbols == Marks \union {T!NL}
Rows == Seq(Marks)
Usages == [input : Nat, output : Nat, total : Nat, deltas : Nat]
EventTypes == {None} \union {l.type : l \in Lines}
Trackers == [acc : Rows, event : EventTypes, data : Seq(Rows), usage : Usages]

\* Lines are scanned one by one; a symbol goes into the last line or begins another.
ScanAll(t, ls) == T!FoldLeft(T!ScanLine, t, ls)
Put(ls, x) == IF x = T!NL THEN Append(ls, << >>) ELSE [ls EXCEPT ![Len(ls)] = Append(@, x)]

\* An event that ends leaves a state of the parser.
LEMMA EndTyped ==
  ASSUME NEW t \in Trackers
  PROVE  T!EndEvent(t) \in Trackers
<1>1. t.usage \in Usages /\ t.event \in EventTypes
  BY DEF Trackers
<1>2. ASSUME NEW e, NEW w PROVE T!ProcessEvent(t.usage, e, w) \in Usages
  <2> DEFINE u == t.usage
  <2>1. [u EXCEPT !.deltas = @ + 1] \in Usages /\ u \in Usages
    BY <1>1 DEF Usages
  <2>2. ASSUME NEW v \in Usages, NEW l \in Lines, l.kind = "data"
        PROVE  T!ExtractUsage(v, l) \in Usages
    <3>1. l.input \in Int /\ l.output \in Int /\ (l.total # Absent => l.total \in Int)
      BY <2>2, TrackerAssumption
    <3>2. \A a \in Nat, b \in Int : T!Larger(a, b) \in Nat
      BY DEF T!Larger
    <3>3. v.input \in Nat /\ v.output \in Nat /\ v.total \in Nat
      BY DEF Usages
    <3> DEFINE a == T!Larger(v.input, l.input)
               b == T!Larger(v.output, l.output)
               c == IF l.total = Absent THEN a + b ELSE T!Larger(v.total, l.total)
    <3>4. a \in Nat /\ b \in Nat
      BY <3>1, <3>2, <3>3
    <3>5. c \in Nat
      <4>1. CASE l.total = Absent
        BY <3>4, <4>1
      <4>2. CASE l.total # Absent
        BY <3>1, <3>2, <3>3, <4>2
      <4> QED
        BY <4>1, <4>2
    <3>6. T!ExtractUsage(v, l) = [v EXCEPT !.input = a, !.output = b, !.total = c]
      BY DEF T!ExtractUsage
    <3> HIDE DEF a, b, c
    <3> QED
      BY <3>4, <3>5, <3>6 DEF Usages
  <2>3. T!Parsed(w) # {} =>
          (CHOOSE l \in T!Parsed(w) : TRUE) \in {l \in Lines : l.kind = "data"}
    BY DEF T!Parsed
  <2> HIDE DEF u
  <2> QED
    BY <2>1, <2>2, <2>3 DEF T!ProcessEvent, u
<1>3. None \in EventTypes /\ << >> \in Seq(Rows)
  BY DEF EventTypes
<1> QED
  BY <1>2, <1>3 DEF T!EndEvent, Trackers

\* So does a line.
LEMMA LineTyped ==
  ASSUME NEW t \in Trackers, NEW l \in Rows
  PROVE  T!ScanLine(t, l) \in Trackers
<1>1. CASE T!HasPrefix(l, "event")
  <2>1. l # << >> /\ Head(l) \in Marks
    BY <1>1 DEF T!HasPrefix, Rows
  <2>2. Head(l).line \in Lines
    BY <2>1 DEF Marks
  <2>3. Head(l).line.type \in EventTypes
    BY <2>2 DEF EventTypes
  <2> QED
    BY <1>1, <2>3 DEF T!ScanLine, Trackers
<1>2. CASE ~T!HasPrefix(l, "event") /\ T!HasPrefix(l, "data")
  <2>1. l # << >> /\ Tail(l) \in Rows
    BY <1>2 DEF T!HasPrefix, Rows
  <2>2. t.data \in Seq(Rows)
    BY DEF Trackers
  <2>3. Append(t.data, Tail(l)) \in Seq(Rows)
    BY <2>1, <2>2
  <2> QED
    BY <1>2, <2>3 DEF T!ScanLine, Trackers
<1>3. CASE ~T!HasPrefix(l, "event") /\ ~T!HasPrefix(l, "data")
  BY <1>3, EndTyped DEF T!ScanLine
<1> QED
  BY <1>1, <1>2, <1>3

\* And a symbol leaves lines.
LEMMA PutTyped ==
  ASSUME NEW ls \in Seq(Rows) \ {<< >>}, NEW x \in Symbols
  PROVE  Put(ls, x) \in Seq(Rows) \ {<< >>}
<1>1. Len(ls) \in 1..Len(ls) /\ \A i \in 1..Len(ls) : ls[i] \in Rows
  OBVIOUS
<1>2. CASE x = T!NL
  <2>1. << >> \in Rows
    BY DEF Rows
  <2>2. Append(ls, << >>) \in Seq(Rows) /\ Append(ls, << >>) # << >>
    BY <2>1
  <2> QED
    BY <1>2, <2>2 DEF Put
<1>3. CASE x # T!NL
  <2>1. x \in Marks
    BY <1>3 DEF Symbols
  <2>2. Append(ls[Len(ls)], x) \in Rows
    BY <1>1, <2>1 DEF Rows
  <2> DEFINE v == [ls EXCEPT ![Len(ls)] = Append(@, x)]
  <2>3. v \in Seq(Rows) /\ Len(v) = Len(ls)
    BY <1>1, <2>2
  <2>4. v # << >>
    BY <1>1, <2>3
  <2> QED
    BY <1>3, <2>3, <2>4 DEF Put
<1> QED
  BY <1>2, <1>3

\* The fold that scans lines.
LEMMA ScanAllIs ==
  ASSUME NEW ls \in Seq(Rows), NEW t \in Trackers,
         NEW g \in [0..Len(ls) -> Trackers], g[0] = t,
         \A i \in 1..Len(ls) : g[i] = T!ScanLine(g[i - 1], ls[i])
  PROVE  ScanAll(t, ls) = g[Len(ls)]
<1> DEFINE n == Len(ls)
           G == [i \in 1..n |-> [v \in Trackers |-> T!ScanLine(v, ls[i])]]
           Is(f) == f = [s \in SUBSET (1..n) |->
                           IF s = {} THEN t
                           ELSE T!ScanLine(f[s \ {Top(s)}], ls[Top(s)])]
           f == CHOOSE x : Is(x)
<1>1. ScanAll(t, ls) = f[1..n]
  <2>1. DOMAIN ls = 1..n
    OBVIOUS
  <2> QED
    BY <2>1 DEF ScanAll, T!FoldLeft, T!MapThenFoldSet, T!Max, Top
<1>2. n \in Nat /\ \A i \in 1..n : ls[i] \in Rows
  OBVIOUS
<1>21. g[0] = t /\ g \in [0..n -> Trackers] /\ \A i \in 1..n : g[i] = T!ScanLine(g[i - 1], ls[i])
  OBVIOUS
<1> HIDE DEF n
<1>3. G \in [1..n -> [Trackers -> Trackers]]
  <2>1. ASSUME NEW i \in 1..n, NEW v \in Trackers PROVE T!ScanLine(v, ls[i]) \in Trackers
    BY <1>2, LineTyped
  <2> QED
    BY <2>1
<1>4. \A i \in 1..n, v \in Trackers : G[i][v] = T!ScanLine(v, ls[i])
  OBVIOUS
<1> HIDE DEF G
<1>5. Along(g, n, t, G)
  <2>1. \A i \in 1..n : g[i - 1] \in Trackers
    BY <1>2, <1>21
  <2> QED
    BY <1>21, <1>4, <2>1 DEF Along
<1>6. PICK h \in [SUBSET (1..n) -> Trackers] : Folded(h, n, t, G)
  BY <1>2, <1>3, FoldExists
<1>7. Is(h)
  <2>1. ASSUME NEW s \in SUBSET (1..n), s # {}
        PROVE  h[s] = T!ScanLine(h[s \ {Top(s)}], ls[Top(s)])
    <3>1. Top(s) \in 1..n /\ s \ {Top(s)} \in SUBSET (1..n)
      BY <1>2, <2>1, TopOf
    <3>2. h[s] = G[Top(s)][h[s \ {Top(s)}]] /\ h[s \ {Top(s)}] \in Trackers
      BY <1>6, <2>1, <3>1 DEF Folded
    <3> QED
      BY <1>4, <3>1, <3>2
  <2>2. h[{}] = t
    BY <1>6 DEF Folded
  <2> QED
    BY <2>1, <2>2
<1>8. Is(f)
  <2> HIDE DEF Is
  <2> QED
    BY <1>7
<1>9. f[{}] = t
  BY <1>8
<1>10. ASSUME NEW k \in 1..n, f[1..(k - 1)] \in Trackers
       PROVE  f[1..k] = G[k][f[1..(k - 1)]]
  <2>1. k \in Nat /\ k # 0 /\ 1..k \in SUBSET (1..n)
    BY <1>2
  <2>2. 1..k # {} /\ Top(1..k) = k /\ (1..k) \ {k} = 1..(k - 1)
    BY <2>1, TopOfFirst
  <2>3. \A s \in SUBSET (1..n) :
          s # {} => f[s] = T!ScanLine(f[s \ {Top(s)}], ls[Top(s)])
    BY <1>8
  <2> HIDE DEF f
  <2>4. f[1..k] = T!ScanLine(f[1..(k - 1)], ls[k])
    BY <2>1, <2>2, <2>3
  <2> QED
    BY <1>4, <1>10, <2>4
<1> HIDE DEF f
<1>11. f[1..n] = g[n]
  <2> DEFINE V == Trackers
  <2>1. n \in Nat /\ g \in [0..n -> V] /\ f[{}] = t
    BY <1>2, <1>21, <1>9
  <2>2. Stepwise(f, n, V, G)
    BY <1>10 DEF Stepwise
  <2> HIDE DEF V
  <2>3. Alongside(f, g, n, t, V, G)
    BY <1>5, <2>1, <2>2 DEF Alongside
  <2>4. SameAtLast(f, g, n)
    BY <2>3, FoldIs
  <2> QED
    BY <2>4 DEF SameAtLast
<1> QED
  BY <1>1, <1>11 DEF n

\* Lines are scanned one after the other.
LEMMA ScanAllAlong ==
  ASSUME NEW ls \in Seq(Rows), NEW t \in Trackers
  PROVE  \E g \in [0..Len(ls) -> Trackers] :
           g[0] = t /\ \A i \in 1..Len(ls) : g[i] = T!ScanLine(g[i - 1], ls[i])
<1> DEFINE n == Len(ls)
           G == [i \in 1..n |-> [v \in Trackers |-> T!ScanLine(v, ls[i])]]
<1>1. n \in Nat /\ \A i \in 1..n : ls[i] \in Rows
  OBVIOUS
<1> HIDE DEF n
<1>2. ASSUME NEW i \in 1..n, NEW v \in Trackers PROVE T!ScanLine(v, ls[i]) \in Trackers
  BY <1>1, LineTyped
<1>3. G \in [1..n -> [Trackers -> Trackers]]
  BY <1>2
<1>4. \A i \in 1..n, v \in Trackers : G[i][v] = T!ScanLine(v, ls[i])
  OBVIOUS
<1> HIDE DEF G
<1>5. PICK g \in [0..n -> Trackers] : Along(g, n, t, G)
  BY <1>1, <1>3, Recursion
<1>6. g[0] = t /\ \A i \in 1..n : g[i] = T!ScanLine(g[i - 1], ls[i])
  <2>1. \A i \in 1..n : g[i - 1] \in Trackers
    BY <1>1
  <2> QED
    BY <1>4, <1>5, <2>1 DEF Along
<1> QED
  BY <1>6 DEF n

\* One line more.
LEMMA ScanAllNext ==
  ASSUME NEW ls \in Seq(Rows), NEW l \in Rows, NEW t \in Trackers
  PROVE  /\ ScanAll(t, Append(ls, l)) = T!ScanLine(ScanAll(t, ls), l)
         /\ ScanAll(t, ls) \in Trackers
         /\ ScanAll(t, << >>) = t
<1> DEFINE n == Len(ls)
           a == Append(ls, l)
<1>1. /\ n \in Nat /\ a \in Seq(Rows) /\ Len(a) = n + 1 /\ a[n + 1] = l
      /\ \A i \in 1..n : a[i] = ls[i]
  OBVIOUS
<1> HIDE DEF a, n
<1>2. PICK g \in [0..Len(a) -> Trackers] :
        g[0] = t /\ \A i \in 1..Len(a) : g[i] = T!ScanLine(g[i - 1], a[i])
  BY <1>1, ScanAllAlong
<1>3. ScanAll(t, a) = g[n + 1]
  <2>1. ScanAll(t, a) = g[Len(a)]
    BY <1>1, <1>2, ScanAllIs
  <2> QED
    BY <1>1, <2>1
<1> DEFINE h == [i \in 0..n |-> g[i]]
<1>4. /\ h \in [0..n -> Trackers] /\ h[0] = t
      /\ \A i \in 1..n : h[i] = T!ScanLine(h[i - 1], ls[i])
  <2>0. n \in Nat /\ Len(a) = n + 1
    BY <1>1
  <2>1. \A i \in 0..n : i \in 0..Len(a) /\ g[i] \in Trackers
    BY <1>2, <2>0
  <2>2. h \in [0..n -> Trackers] /\ h[0] = t
    BY <1>1, <1>2, <2>1
  <2>3. ASSUME NEW i \in 1..n PROVE h[i] = T!ScanLine(h[i - 1], ls[i])
    <3>0. a[i] = ls[i]
      BY <1>1
    <3>1. i \in 1..Len(a) /\ i - 1 \in 0..n /\ i \in 0..n
      BY <2>0
    <3>2. h[i] = g[i] /\ h[i - 1] = g[i - 1]
      BY <3>1
    <3> HIDE DEF h
    <3> QED
      BY <1>2, <3>0, <3>1, <3>2
  <2> QED
    BY <2>2, <2>3
<1>5. h[n] = g[n] /\ n \in 0..n
  BY <1>1
<1> HIDE DEF h
<1>6. ScanAll(t, ls) = g[n]
  <2>1. ScanAll(t, ls) = h[Len(ls)]
    BY <1>4, ScanAllIs DEF n
  <2> QED
    BY <1>5, <2>1 DEF n
<1>7. g[n + 1] = T!ScanLine(g[n], l) /\ g[n] \in Trackers
  <2>1. n + 1 \in 1..Len(a) /\ (n + 1) - 1 = n /\ n \in 0..Len(a)
    BY <1>1
  <2> QED
    BY <1>1, <1>2, <2>1
<1>8. ScanAll(t, << >>) = t
  <2> DEFINE e == << >>
             v == [i \in 0..0 |-> t]
  <2>1. e \in Seq(Rows) /\ Len(e) = 0 /\ v \in [0..0 -> Trackers] /\ v[0] = t
    OBVIOUS
  <2> HIDE DEF e, v
  <2>2. v \in [0..Len(e) -> Trackers] /\ \A i \in 1..Len(e) : v[i] = T!ScanLine(v[i - 1], e[i])
    BY <2>1
  <2>3. ScanAll(t, e) = v[Len(e)]
    BY <2>1, <2>2, ScanAllIs
  <2> QED
    BY <2>1, <2>3 DEF e
<1> QED
  BY <1>3, <1>6, <1>7, <1>8 DEF a

\* The lines a text is split into: never none.
Lists == Seq(Rows) \ {<< >>}

\* The fold that splits a text.
LEMMA SplitIs ==
  ASSUME NEW w \in Seq(Symbols), NEW g \in [0..Len(w) -> Lists], g[0] = << << >> >>,
         \A i \in 1..Len(w) : g[i] = Put(g[i - 1], w[i])
  PROVE  T!Split(w) = g[Len(w)]
<1> DEFINE n == Len(w)
           z == << << >> >>
           G == [i \in 1..n |-> [v \in Lists |-> Put(v, w[i])]]
           Is(f) == f = [s \in SUBSET (1..n) |->
                           IF s = {} THEN z
                           ELSE IF w[Top(s)] = T!NL THEN Append(f[s \ {Top(s)}], << >>)
                                ELSE [f[s \ {Top(s)}] EXCEPT
                                        ![Len(f[s \ {Top(s)}])] = Append(@, w[Top(s)])]]
           f == CHOOSE x : Is(x)
<1>1. T!Split(w) = f[1..n]
  <2>1. DOMAIN w = 1..n
    OBVIOUS
  <2> QED
    BY <2>1 DEF T!Split, T!FoldLeft, T!MapThenFoldSet, T!Max, Top
<1>2. n \in Nat /\ \A i \in 1..n : w[i] \in Symbols
  OBVIOUS
<1>21. g[0] = z /\ g \in [0..n -> Lists] /\ \A i \in 1..n : g[i] = Put(g[i - 1], w[i])
  OBVIOUS
<1>22. z \in Lists
  <2>1. << >> \in Rows
    BY DEF Rows
  <2> QED
    BY <2>1 DEF Lists
<1> HIDE DEF n, z
<1>3. G \in [1..n -> [Lists -> Lists]]
  <2>1. ASSUME NEW i \in 1..n, NEW v \in Lists PROVE Put(v, w[i]) \in Lists
    BY <1>2, PutTyped DEF Lists
  <2> QED
    BY <2>1
<1>4. \A i \in 1..n, v \in Lists : G[i][v] = Put(v, w[i])
  OBVIOUS
<1> HIDE DEF G
<1>5. Along(g, n, z, G)
  <2>1. \A i \in 1..n : g[i - 1] \in Lists
    BY <1>2, <1>21
  <2> QED
    BY <1>21, <1>4, <2>1 DEF Along
<1>6. PICK h \in [SUBSET (1..n) -> Lists] : Folded(h, n, z, G)
  BY <1>2, <1>22, <1>3, FoldExists
<1>7. Is(h)
  <2>1. ASSUME NEW s \in SUBSET (1..n), s # {}
        PROVE  h[s] = Put(h[s \ {Top(s)}], w[Top(s)])
    <3>1. Top(s) \in 1..n /\ s \ {Top(s)} \in SUBSET (1..n)
      BY <1>2, <2>1, TopOf
    <3>2. h[s] = G[Top(s)][h[s \ {Top(s)}]] /\ h[s \ {Top(s)}] \in Lists
      BY <1>6, <2>1, <3>1 DEF Folded
    <3> QED
      BY <1>4, <3>1, <3>2
  <2>2. h[{}] = z
    BY <1>6 DEF Folded
  <2>3. h = [s \in SUBSET (1..n) |-> IF s = {} THEN z ELSE Put(h[s \ {Top(s)}], w[Top(s)])]
    BY <2>1, <2>2
  <2> QED
    BY <2>3 DEF Put
<1>8. Is(f)
  <2> HIDE DEF Is
  <2> QED
    BY <1>7
<1>9. f[{}] = z
  BY <1>8
<1>10. ASSUME NEW k \in 1..n, f[1..(k - 1)] \in Lists
       PROVE  f[1..k] = G[k][f[1..(k - 1)]]
  <2>1. k \in Nat /\ k # 0 /\ 1..k \in SUBSET (1..n)
    BY <1>2
  <2>2. 1..k # {} /\ Top(1..k) = k /\ (1..k) \ {k} = 1..(k - 1)
    BY <2>1, TopOfFirst
  <2>3. \A s \in SUBSET (1..n) : s # {} => f[s] = Put(f[s \ {Top(s)}], w[Top(s)])
    BY <1>8 DEF Put
  <2> HIDE DEF f
  <2>4. f[1..k] = Put(f[1..(k - 1)], w[k])
    BY <2>1, <2>2, <2>3
  <2> QED
    BY <1>4, <1>10, <2>4
<1> HIDE DEF f
<1>11. f[1..n] = g[n]
  <2> DEFINE V == Lists
  <2>1. n \in Nat /\ g \in [0..n -> V] /\ f[{}] = z
    BY <1>2, <1>21, <1>9
  <2>2. Stepwise(f, n, V, G)
    BY <1>10 DEF Stepwise
  <2> HIDE DEF V
  <2>3. Alongside(f, g, n, z, V, G)
    BY <1>5, <2>1, <2>2 DEF Alongside
  <2>4. SameAtLast(f, g, n)
    BY <2>3, FoldIs
  <2> QED
    BY <2>4 DEF SameAtLast
<1> QED
  BY <1>1, <1>11 DEF n

\* A text is split symbol by symbol.
LEMMA SplitAlong ==
  ASSUME NEW w \in Seq(Symbols)
  PROVE  \E g \in [0..Len(w) -> Lists] :
           g[0] = << << >> >> /\ \A i \in 1..Len(w) : g[i] = Put(g[i - 1], w[i])
<1> DEFINE n == Len(w)
           z == << << >> >>
           G == [i \in 1..n |-> [v \in Lists |-> Put(v, w[i])]]
<1>1. n \in Nat /\ \A i \in 1..n : w[i] \in Symbols
  OBVIOUS
<1>2. z \in Lists
  <2>1. << >> \in Rows
    BY DEF Rows
  <2> QED
    BY <2>1 DEF Lists
<1> HIDE DEF n, z
<1>3. ASSUME NEW i \in 1..n, NEW v \in Lists PROVE Put(v, w[i]) \in Lists
  BY <1>1, PutTyped DEF Lists
<1>4. G \in [1..n -> [Lists -> Lists]]
  BY <1>3
<1>5. \A i \in 1..n, v \in Lists : G[i][v] = Put(v, w[i])
  OBVIOUS
<1> HIDE DEF G
<1>6. PICK g \in [0..n -> Lists] : Along(g, n, z, G)
  BY <1>1, <1>2, <1>4, Recursion
<1>7. g[0] = z /\ \A i \in 1..n : g[i] = Put(g[i - 1], w[i])
  <2>1. \A i \in 1..n : g[i - 1] \in Lists
    BY <1>1
  <2> QED
    BY <1>5, <1>6, <2>1 DEF Along
<1> QED
  BY <1>7 DEF n, z

\* One symbol more.
LEMMA SplitNext ==
  ASSUME NEW w \in Seq(Symbols), NEW x \in Symbols
  PROVE  /\ T!Split(Append(w, x)) = Put(T!Split(w), x)
         /\ T!Split(w) \in Lists
         /\ T!Split(<< >>) = << << >> >>
<1> DEFINE n == Len(w)
           a == Append(w, x)
           z == << << >> >>
<1>1. /\ n \in Nat /\ a \in Seq(Symbols) /\ Len(a) = n + 1 /\ a[n + 1] = x
      /\ \A i \in 1..n : a[i] = w[i]
  OBVIOUS
<1> HIDE DEF a, n, z
<1>2. PICK g \in [0..Len(a) -> Lists] :
        g[0] = z /\ \A i \in 1..Len(a) : g[i] = Put(g[i - 1], a[i])
  BY <1>1, SplitAlong DEF z
<1>3. T!Split(a) = g[n + 1]
  <2>1. T!Split(a) = g[Len(a)]
    BY <1>1, <1>2, SplitIs DEF z
  <2> QED
    BY <1>1, <2>1
<1> DEFINE h == [i \in 0..n |-> g[i]]
<1>4. /\ h \in [0..n -> Lists] /\ h[0] = z
      /\ \A i \in 1..n : h[i] = Put(h[i - 1], w[i])
  <2>1. \A i \in 0..n : i \in 0..Len(a) /\ g[i] \in Lists
    BY <1>1, <1>2
  <2>2. h \in [0..n -> Lists] /\ h[0] = z
    BY <1>1, <1>2, <2>1
  <2>3. ASSUME NEW i \in 1..n PROVE h[i] = Put(h[i - 1], w[i])
    <3>1. i \in 1..Len(a) /\ i - 1 \in 0..n /\ i \in 0..n /\ a[i] = w[i]
      BY <1>1
    <3>2. h[i] = g[i] /\ h[i - 1] = g[i - 1]
      BY <3>1
    <3> HIDE DEF h
    <3> QED
      BY <1>2, <3>1, <3>2
  <2> QED
    BY <2>2, <2>3
<1>5. h[n] = g[n] /\ n \in 0..n
  BY <1>1
<1> HIDE DEF h
<1>6. T!Split(w) = g[n]
  <2>1. T!Split(w) = h[Len(w)]
    BY <1>4, SplitIs DEF n, z
  <2> QED
    BY <1>5, <2>1 DEF n
<1>7. g[n + 1] = Put(g[n], x) /\ g[n] \in Lists
  <2>1. n + 1 \in 1..Len(a) /\ (n + 1) - 1 = n /\ n \in 0..Len(a)
    BY <1>1
  <2> QED
    BY <1>1, <1>2, <2>1
<1>8. T!Split(<< >>) = z
  <2> DEFINE e == << >>
             v == [i \in 0..0 |-> z]
  <2>0. z \in Lists
    BY <1>1, <1>2
  <2>1. e \in Seq(Symbols) /\ Len(e) = 0 /\ v \in [0..0 -> Lists] /\ v[0] = z
    BY <2>0
  <2> HIDE DEF e, v
  <2>2. v \in [0..Len(e) -> Lists] /\ \A i \in 1..Len(e) : v[i] = Put(v[i - 1], e[i])
    BY <2>1
  <2>3. T!Split(e) = v[Len(e)]
    BY <2>1, <2>2, SplitIs DEF z
  <2> QED
    BY <2>1, <2>3 DEF e
<1> QED
  BY <1>3, <1>6, <1>7, <1>8 DEF a, z

\* The last of ls is e instead.
Ending(ls, e) == [ls EXCEPT ![Len(ls)] = e]

\* Sequences: what is in front of the last, the last, and one more.
LEMMA FrontAndLast ==
  ASSUME NEW E, NEW s \in Seq(E) \ {<< >>}
  PROVE  /\ T!Front(s) \in Seq(E) /\ T!Last(s) \in E /\ s = Append(T!Front(s), T!Last(s))
         /\ \A e \in E : /\ T!Front(Append(s, e)) = s /\ T!Last(Append(s, e)) = e
                         /\ T!Front(Ending(s, e)) = T!Front(s)
                         /\ T!Last(Ending(s, e)) = e
<1> DEFINE n == Len(s)
           f == SubSeq(s, 1, n - 1)
<1>1. n \in Nat /\ n # 0 /\ n - 1 \in Nat /\ n \in 1..n
  BY EmptySeq
<1>2. T!Front(s) = f /\ T!Last(s) = s[n]
  BY DEF T!Front, T!Last
<1>3. f \in Seq(E) /\ Len(f) = n - 1 /\ s[n] \in E /\ \A i \in 1..(n - 1) : f[i] = s[i]
  <2>1. s \in Seq(E) /\ Len(s) = n
    OBVIOUS
  <2> HIDE DEF n
  <2>2. s[n] \in E /\ n - 1 \in 0..Len(s)
    BY <1>1, <2>1
  <2>3. f \in Seq(E) /\ Len(f) = n - 1
    BY <1>1, <2>1, <2>2
  <2>4. \A i \in 1..(n - 1) : f[i] = s[i]
    BY <1>1, <2>1, <2>2
  <2> QED
    BY <2>2, <2>3, <2>4
<1>4. s = Append(f, s[n])
  <2> DEFINE g == Append(f, s[n])
  <2>1. Len(g) = n /\ g \in Seq(E) /\ g[n] = s[n] /\ \A i \in 1..(n - 1) : g[i] = s[i]
    BY <1>1, <1>3
  <2> HIDE DEF g, f
  <2>2. \A i \in 1..n : g[i] = s[i]
    BY <1>1, <2>1
  <2>3. g = s
    BY <2>1, <2>2
  <2> QED
    BY <2>3 DEF g
<1>5. ASSUME NEW e \in E
      PROVE  /\ T!Front(Append(s, e)) = s /\ T!Last(Append(s, e)) = e
             /\ T!Front(Ending(s, e)) = T!Front(s)
             /\ T!Last(Ending(s, e)) = e
  <2>1. T!Front(Append(s, e)) = s /\ T!Last(Append(s, e)) = e
    <3> DEFINE a == Append(s, e)
    <3>1. Len(a) = n + 1 /\ a[n + 1] = e /\ SubSeq(a, 1, n) = s
      BY <1>1
    <3> HIDE DEF a
    <3>2. (n + 1) - 1 = n
      BY <1>1
    <3> QED
      BY <3>1, <3>2 DEF T!Front, T!Last, a
  <2>2. T!Front([s EXCEPT ![n] = e]) = f /\ T!Last([s EXCEPT ![n] = e]) = e
    <3> DEFINE a == [s EXCEPT ![n] = e]
    <3>1. Len(a) = n /\ a[n] = e /\ a \in Seq(E) /\ \A i \in 1..(n - 1) : a[i] = s[i]
      BY <1>1
    <3> DEFINE g == SubSeq(a, 1, n - 1)
    <3> HIDE DEF a
    <3>2. g \in Seq(E) /\ Len(g) = n - 1 /\ \A i \in 1..(n - 1) : g[i] = a[i]
      BY <1>1, <3>1
    <3> HIDE DEF g, f
    <3>3. g = f
      BY <1>3, <3>1, <3>2
    <3> QED
      BY <3>1, <3>3 DEF T!Front, T!Last, a, g
  <2> QED
    BY <1>2, <2>1, <2>2 DEF Ending
<1> QED
  BY <1>2, <1>3, <1>4, <1>5

\* A text without line ends is one line.
LEMMA SplitRow ==
  ASSUME NEW r \in Rows
  PROVE  T!Split(r) = <<r>>
<1> DEFINE n == Len(r)
           X == {k \in 0..n : T!Split(SubSeq(r, 1, k)) = <<SubSeq(r, 1, k)>>}
<1>1. n \in Nat /\ \A i \in 1..n : r[i] \in Marks
  BY DEF Rows
<1>2. T!NL \notin Marks /\ \A w \in Rows : w \in Seq(Symbols)
  <2>1. T!NL \notin Marks
    BY DEF T!NL, Marks
  <2>2. \A w \in Rows : w \in Seq(Symbols)
    BY DEF Rows, Symbols
  <2> QED
    BY <2>1, <2>2
<1>3. \A k \in 0..n : SubSeq(r, 1, k) \in Rows
  BY DEF Rows
<1>4. SubSeq(r, 1, 0) = << >> /\ SubSeq(r, 1, n) = r
  BY DEF Rows
<1>5. \A k \in 1..n : SubSeq(r, 1, k) = Append(SubSeq(r, 1, k - 1), r[k])
  BY DEF Rows
<1> HIDE DEF n
<1>6. 0 \in X
  <2>1. T!Split(<< >>) = << << >> >>
    <3>1. << >> \in Seq(Symbols) /\ T!NL \in Symbols
      BY DEF Symbols
    <3> QED
      BY <3>1, SplitNext
  <2>2. 0 \in 0..n
    BY <1>1
  <2> QED
    BY <1>4, <2>1, <2>2
<1>7. ASSUME NEW k \in 1..n, k - 1 \in X PROVE k \in X
  <2> DEFINE a == SubSeq(r, 1, k - 1)
  <2>1. a \in Seq(Symbols) /\ r[k] \in Symbols /\ r[k] # T!NL
    <3>1. k - 1 \in 0..n
      BY <1>1
    <3> QED
      BY <1>1, <1>2, <1>3, <3>1 DEF Symbols
  <2>2. T!Split(a) = <<a>> /\ SubSeq(r, 1, k) = Append(a, r[k]) /\ k \in 0..n
    BY <1>1, <1>5, <1>7
  <2> HIDE DEF a
  <2>3. T!Split(Append(a, r[k])) = Put(<<a>>, r[k])
    BY <2>1, <2>2, SplitNext
  <2>4. Put(<<a>>, r[k]) = <<Append(a, r[k])>>
    BY <2>1 DEF Put
  <2> QED
    BY <2>2, <2>3, <2>4
<1> HIDE DEF X
<1>8. n \in X
  <2>1. n \in 0..n
    BY <1>1
  <2> QED
    BY <1>1, <1>6, <1>7, <2>1, AllUpTo
<1> QED
  BY <1>4, <1>8 DEF X

\* The rest of a line is v.
With(t, v) == [t EXCEPT !.acc = v]

\* The rest is not looked at when a line is scanned.
LEMMA LineLeavesRest ==
  ASSUME NEW t \in Trackers, NEW v, NEW l \in Rows
  PROVE  /\ T!ScanLine(With(t, v), l) = With(T!ScanLine(t, l), v)
         /\ \A u : With(With(t, v), u) = With(t, u)
         /\ With(t, t.acc) = t /\ With(t, v).acc = v
<1>1. /\ \A u : With(With(t, v), u) = With(t, u)
      /\ With(t, t.acc) = t /\ With(t, v).acc = v
  BY DEF Trackers, With
<1>2. T!EndEvent(With(t, v)) = With(T!EndEvent(t), v)
  BY DEF T!EndEvent, Trackers, With
<1>3. T!ScanLine(With(t, v), l) = With(T!ScanLine(t, l), v)
  BY <1>2 DEF T!ScanLine, Trackers, With
<1> QED
  BY <1>1, <1>3

\* What a symbol does to the parser.
Take(t, x) ==
  IF x = T!NL THEN With(T!ScanLine(t, t.acc), << >>)
  ELSE With(t, Append(t.acc, x))

\* A chunk more by one symbol.
LEMMA ScanNext ==
  ASSUME NEW t \in Trackers, NEW w \in Seq(Symbols), NEW x \in Symbols
  PROVE  /\ T!ScanForUsage(t, Append(w, x)) = Take(T!ScanForUsage(t, w), x)
         /\ T!ScanForUsage(t, w) \in Trackers
<1> DEFINE text == t.acc \o w
           ls == T!Split(text)
           u == ScanAll(t, T!Front(ls))
           last == T!Last(ls)
<1>1. t.acc \in Seq(Symbols) /\ text \in Seq(Symbols) /\ t.acc \o Append(w, x) = Append(text, x)
  <2>1. t.acc \in Seq(Symbols)
    BY DEF Trackers, Rows, Symbols
  <2> DEFINE r == t.acc
  <2> HIDE DEF r
  <2>2. r \in Seq(Symbols) => r \o w \in Seq(Symbols) /\ r \o Append(w, x) = Append(r \o w, x)
    OBVIOUS
  <2> QED
    BY <2>1, <2>2 DEF r
<1>2. ls \in Seq(Rows) \ {<< >>}
  <2> HIDE DEF text
  <2> QED
    BY <1>1, SplitNext DEF Lists
<1>3. T!Split(Append(text, x)) = Put(ls, x)
  <2> HIDE DEF text
  <2> QED
    BY <1>1, SplitNext
<1>4. T!ScanForUsage(t, w) = With(u, last)
  BY DEF T!ScanForUsage, ScanAll, With
<1>5. T!ScanForUsage(t, Append(w, x)) =
        With(ScanAll(t, T!Front(Put(ls, x))), T!Last(Put(ls, x)))
  <2> HIDE DEF ls, text
  <2> QED
    BY <1>1, <1>3 DEF T!ScanForUsage, ScanAll, With
<1> HIDE DEF ls, text
<1>6. /\ T!Front(ls) \in Seq(Rows) /\ last \in Rows /\ ls = Append(T!Front(ls), last)
      /\ \A e \in Rows : /\ T!Front(Append(ls, e)) = ls /\ T!Last(Append(ls, e)) = e
                         /\ T!Front(Ending(ls, e)) = T!Front(ls)
                         /\ T!Last(Ending(ls, e)) = e
  <2> DEFINE E == Rows
  <2> HIDE DEF E
  <2>1. ls \in Seq(E) \ {<< >>}
    BY <1>2 DEF E
  <2>2. /\ T!Front(ls) \in Seq(E) /\ T!Last(ls) \in E /\ ls = Append(T!Front(ls), T!Last(ls))
        /\ \A e \in E : /\ T!Front(Append(ls, e)) = ls /\ T!Last(Append(ls, e)) = e
                        /\ T!Front(Ending(ls, e)) = T!Front(ls)
                        /\ T!Last(Ending(ls, e)) = e
    BY <2>1, FrontAndLast
  <2> QED
    BY <2>2 DEF E
<1>7. last = ls[Len(ls)]
  BY DEF T!Last
<1> HIDE DEF last
<1>8. u \in Trackers /\ ScanAll(t, ls) = T!ScanLine(u, last)
  <2>1. ScanAll(t, Append(T!Front(ls), last)) = T!ScanLine(u, last) /\ u \in Trackers
    BY <1>6, ScanAllNext
  <2> QED
    BY <1>6, <2>1
<1> HIDE DEF u
<1>9. T!ScanForUsage(t, w) \in Trackers
  BY <1>4, <1>6, <1>8 DEF Trackers, With
<1>10. CASE x = T!NL
  <2>1. << >> \in Rows /\ Put(ls, x) = Append(ls, << >>)
    BY <1>10 DEF Put, Rows
  <2>2. T!ScanForUsage(t, Append(w, x)) = With(T!ScanLine(u, last), << >>)
    BY <1>5, <1>6, <1>8, <2>1
  <2> DEFINE v == With(u, last)
  <2>3. T!ScanLine(v, last) = With(T!ScanLine(u, last), last) /\ v.acc = last
    BY <1>6, <1>8, LineLeavesRest
  <2>4. T!ScanLine(u, last) \in Trackers
    BY <1>6, <1>8, LineTyped
  <2>5. With(T!ScanLine(v, last), << >>) = With(T!ScanLine(u, last), << >>)
    <3>1. \A q : With(With(T!ScanLine(u, last), last), q) = With(T!ScanLine(u, last), q)
      BY <1>6, <2>4, LineLeavesRest
    <3> HIDE DEF v
    <3> QED
      BY <2>3, <3>1
  <2> HIDE DEF v
  <2>6. Take(v, x) = With(T!ScanLine(v, last), << >>)
    BY <1>10, <2>3 DEF Take
  <2> QED
    BY <1>4, <1>9, <2>2, <2>5, <2>6 DEF v
<1>11. CASE x # T!NL
  <2> DEFINE e == Append(last, x)
  <2>1. e \in Rows /\ Put(ls, x) = Ending(ls, e)
    <3>1. x \in Marks
      BY <1>11 DEF Symbols
    <3>2. e \in Rows
      BY <1>6, <3>1 DEF Rows
    <3> QED
      BY <1>7, <1>11, <3>2 DEF Put, Ending
  <2> HIDE DEF e
  <2>2. T!ScanForUsage(t, Append(w, x)) = With(u, e)
    <3>1. T!Front(Put(ls, x)) = T!Front(ls) /\ T!Last(Put(ls, x)) = e
      BY <1>6, <2>1
    <3> QED
      BY <1>5, <3>1 DEF u
  <2>3. With(With(u, last), e) = With(u, e)
        /\ With(u, last).acc = last
    BY <1>6, <1>8, LineLeavesRest
  <2> QED
    BY <1>4, <1>9, <1>11, <2>2, <2>3 DEF Take, e
<1> QED
  BY <1>10, <1>11

\* No symbol.
LEMMA ScanNone ==
  ASSUME NEW t \in Trackers
  PROVE  T!ScanForUsage(t, << >>) = t
<1>1. t.acc \in Rows /\ t.acc \o << >> = t.acc
  <2>1. t.acc \in Rows
    BY DEF Trackers
  <2> QED
    BY <2>1, Joined DEF Rows
<1>2. T!Split(t.acc \o << >>) = <<t.acc>>
  BY <1>1, SplitRow
<1>3. T!Front(<<t.acc>>) = << >> /\ T!Last(<<t.acc>>) = t.acc
  BY DEF T!Front, T!Last
<1>4. ScanAll(t, << >>) = t
  <2>1. << >> \in Seq(Rows)
    OBVIOUS
  <2> QED
    BY <1>1, <2>1, ScanAllNext
<1>5. T!ScanForUsage(t, << >>) = With(t, t.acc)
  BY <1>2, <1>3, <1>4 DEF T!ScanForUsage, ScanAll, With
<1> QED
  BY <1>1, <1>5, LineLeavesRest

\* Two chunks are read like one.
LEMMA ScanTwice ==
  ASSUME NEW t \in Trackers, NEW a \in Seq(Symbols), NEW b \in Seq(Symbols)
  PROVE  T!ScanForUsage(T!ScanForUsage(t, a), b) = T!ScanForUsage(t, a \o b)
<1> DEFINE n == Len(b)
           u == T!ScanForUsage(t, a)
           c(k) == SubSeq(b, 1, k)
           X == {k \in 0..n : T!ScanForUsage(u, c(k)) = T!ScanForUsage(t, a \o c(k))}
<1>1. /\ n \in Nat /\ c(0) = << >> /\ c(n) = b
      /\ \A k \in 1..n : c(k) = Append(c(k - 1), b[k]) /\ b[k] \in Symbols
      /\ \A k \in 0..n : c(k) \in Seq(Symbols)
  OBVIOUS
<1>2. u \in Trackers
  <2>1. T!NL \in Symbols
    BY DEF Symbols
  <2> QED
    BY <2>1, ScanNext
<1>3. T!ScanForUsage(u, << >>) = u
  BY <1>2, ScanNone
<1> HIDE DEF n, u, c
<1>4. 0 \in X
  <2>1. a \o << >> = a
    BY Joined
  <2>2. u = T!ScanForUsage(t, a) /\ 0 \in 0..n /\ c(0) = << >>
    BY <1>1 DEF u
  <2>3. T!ScanForUsage(u, c(0)) = T!ScanForUsage(t, a \o c(0))
    BY <1>3, <2>1, <2>2
  <2> QED
    BY <2>2, <2>3
<1>5. ASSUME NEW k \in 1..n, k - 1 \in X PROVE k \in X
  <2> DEFINE d == c(k - 1)
  <2>1. d \in Seq(Symbols) /\ c(k) = Append(d, b[k]) /\ b[k] \in Symbols /\ k \in 0..n
    <3>1. k - 1 \in 0..n /\ k \in 0..n
      BY <1>1
    <3> QED
      BY <1>1, <3>1
  <2>2. T!ScanForUsage(u, d) = T!ScanForUsage(t, a \o d)
    BY <1>5
  <2> HIDE DEF d
  <2>3. a \o d \in Seq(Symbols) /\ a \o Append(d, b[k]) = Append(a \o d, b[k])
    BY <2>1
  <2>4. T!ScanForUsage(u, Append(d, b[k])) = Take(T!ScanForUsage(u, d), b[k])
    BY <1>2, <2>1, ScanNext
  <2>5. T!ScanForUsage(t, Append(a \o d, b[k])) = Take(T!ScanForUsage(t, a \o d), b[k])
    BY <2>1, <2>3, ScanNext
  <2> QED
    BY <2>1, <2>2, <2>3, <2>4, <2>5
<1> HIDE DEF X
<1>6. n \in X
  <2>1. n \in 0..n
    BY <1>1
  <2> QED
    BY <1>1, <1>4, <1>5, <2>1, AllUpTo
<1> QED
  BY <1>1, <1>6 DEF X, u

\* What the parser has read, and what it has made of it: chunks do not matter.
Begun == T!ScanForUsage(T!New, SubSeq(stream, 1, sent))

TrackerInv ==
  /\ stream \in Seq(Symbols) /\ sent \in 0..Len(stream)
  /\ flushes \in BOOLEAN /\ copyPhase \in {"copy", "flush", "done"}
  /\ copyPhase = "flush" => flushes
  /\ tracker = IF copyPhase = "done" /\ flushes THEN T!Flushed(Begun) ELSE Begun

\* A new parser.
LEMMA NewTyped == T!New \in Trackers
<1>1. << >> \in Rows /\ << >> \in Seq(Rows) /\ None \in EventTypes
  BY DEF Rows, EventTypes
<1>2. T!Nothing \in Usages
  BY DEF T!Nothing, Usages
<1> QED
  BY <1>1, <1>2 DEF T!New, Trackers

\* It has read nothing.
LEMMA TrackerInitially == T!Init => TrackerInv
<1> SUFFICES ASSUME T!Init PROVE TrackerInv
  OBVIOUS
<1>1. stream \in Seq(Symbols)
  BY TrackerAssumption DEF T!Init, Symbols, Marks, T!NL
<1>2. sent = 0 /\ SubSeq(stream, 1, 0) = << >> /\ 0 \in 0..Len(stream)
  BY <1>1 DEF T!Init
<1>3. Begun = T!New
  BY <1>2, NewTyped, ScanNone DEF Begun
<1> QED
  BY <1>1, <1>2, <1>3 DEF T!Init, TrackerInv

\* Each chunk is read, and the rest at the end.
LEMMA TrackerGoesOn == TrackerInv /\ [T!Next]_(T!vars) => TrackerInv'
<1> SUFFICES ASSUME TrackerInv, [T!Next]_(T!vars) PROVE TrackerInv'
  OBVIOUS
<1>1. CASE T!Write
  <2>1. PICK to \in (sent + 1)..Len(stream) :
          sent' = to /\ tracker' = T!ScanForUsage(tracker, SubSeq(stream, sent + 1, to))
    BY <1>1 DEF T!Write
  <2>2. /\ copyPhase = "copy" /\ copyPhase' = copyPhase /\ stream' = stream
        /\ flushes' = flushes /\ stream \in Seq(Symbols) /\ sent \in 0..Len(stream)
        /\ tracker = Begun
    BY <1>1 DEF T!Write, TrackerInv
  <2> DEFINE a == SubSeq(stream, 1, sent)
             b == SubSeq(stream, sent + 1, to)
  <2>3. /\ a \in Seq(Symbols) /\ b \in Seq(Symbols) /\ a \o b = SubSeq(stream, 1, to)
        /\ to \in 0..Len(stream)
    <3>1. to \in 0..Len(stream) /\ sent \in 0..to
      BY <2>1, <2>2
    <3>2. a \in Seq(Symbols) /\ Len(a) = sent /\ \A i \in 1..sent : a[i] = stream[i]
      BY <2>2, <3>1
    <3>3. /\ b \in Seq(Symbols) /\ Len(b) = to - sent
          /\ \A i \in 1..(to - sent) : b[i] = stream[sent + i]
      BY <2>2, <2>1
    <3> DEFINE c == SubSeq(stream, 1, to)
    <3>4. c \in Seq(Symbols) /\ Len(c) = to /\ \A i \in 1..to : c[i] = stream[i]
      BY <2>2, <3>1
    <3> HIDE DEF a, b, c
    <3> DEFINE d == a \o b
    <3>5. /\ d \in Seq(Symbols) /\ Len(d) = Len(a) + Len(b)
          /\ \A i \in 1..Len(a) + Len(b) : d[i] = IF i <= Len(a) THEN a[i] ELSE b[i - Len(a)]
      <4>1. a \in Seq(Symbols) /\ b \in Seq(Symbols)
        BY <3>2, <3>3
      <4> QED
        BY <4>1, ConcatProperties
    <3> HIDE DEF d
    <3>6. ASSUME NEW i \in 1..to PROVE d[i] = c[i]
      <4>0. sent \in Nat /\ to \in Nat /\ Len(a) + Len(b) = to /\ Len(a) = sent
        BY <3>1, <3>2, <3>3
      <4>1. CASE i <= sent
        <5>1. i \in 1..sent /\ i \in 1..Len(a) + Len(b)
          BY <4>0, <4>1
        <5>2. d[i] = a[i]
          BY <3>5, <4>0, <4>1, <5>1
        <5> QED
          BY <3>2, <3>4, <5>1, <5>2
      <4>2. CASE ~(i <= sent)
        <5>1. i - sent \in 1..(to - sent) /\ sent + (i - sent) = i /\ i \in 1..Len(a) + Len(b)
          BY <4>0, <4>2
        <5>2. d[i] = b[i - sent]
          BY <3>5, <4>0, <4>2, <5>1
        <5>3. b[i - sent] = stream[i]
          BY <3>3, <5>1
        <5> QED
          BY <3>4, <5>2, <5>3
      <4> QED
        BY <4>1, <4>2
    <3>7. d = c
      BY <3>1, <3>2, <3>3, <3>4, <3>5, <3>6
    <3> QED
      BY <3>1, <3>2, <3>3, <3>7 DEF c, d
  <2> HIDE DEF a, b
  <2>4. tracker' = T!ScanForUsage(T!New, a \o b)
    <3>1. tracker = T!ScanForUsage(T!New, a) /\ tracker' = T!ScanForUsage(tracker, b)
      BY <2>1, <2>2 DEF Begun, a, b
    <3> QED
      BY <2>3, <3>1, NewTyped, ScanTwice
  <2>5. Begun' = T!ScanForUsage(T!New, SubSeq(stream, 1, to))
    BY <2>1, <2>2 DEF Begun, T!ScanForUsage
  <2> QED
    BY <2>1, <2>2, <2>3, <2>4, <2>5 DEF TrackerInv
<1>2. CASE T!EndCopy
  <2>1. Begun' = Begun
    BY <1>2 DEF T!EndCopy, Begun, T!ScanForUsage
  <2> QED
    BY <1>2, <2>1 DEF T!EndCopy, TrackerInv
<1>3. CASE T!Flush
  <2>1. Begun' = Begun
    BY <1>3 DEF T!Flush, Begun, T!ScanForUsage
  <2>2. T!Flushed(Begun)' = T!Flushed(Begun')
    OBVIOUS
  <2> QED
    BY <1>3, <2>1, <2>2 DEF T!Flush, TrackerInv
<1>4. CASE UNCHANGED T!vars
  <2>1. Begun' = Begun
    BY <1>4 DEF T!vars, Begun, T!ScanForUsage
  <2> QED
    BY <1>4, <2>1 DEF T!vars, TrackerInv
<1> QED
  BY <1>1, <1>2, <1>3, <1>4 DEF T!Next

\* The end of the stream ends the last line if it is data, and the event.
LEMMA FlushedIs ==
  ASSUME NEW t \in Trackers
  PROVE  /\ T!Flushed(t) = With(T!ScanLine(IF T!HasPrefix(t.acc, "data") THEN T!ScanLine(t, t.acc)
                                           ELSE t, << >>), << >>)
         /\ T!Flushed(t) \in Trackers
<1> DEFINE u == IF T!HasPrefix(t.acc, "data") THEN T!ScanLine(t, t.acc) ELSE t
<1>1. t.acc \in Rows /\ << >> \in Rows
  BY DEF Trackers, Rows
<1>2. u \in Trackers
  BY <1>1, LineTyped
<1>3. T!Flushed(t) = T!EndEvent(With(u, << >>))
  <2>1. CASE T!HasPrefix(t.acc, "data")
    <3>1. ~T!HasPrefix(t.acc, "event")
      BY <2>1 DEF T!HasPrefix
    <3>2. u = [t EXCEPT !.data = Append(@, Tail(t.acc))]
      BY <2>1, <3>1 DEF T!ScanLine
    <3>3. With(u, << >>) = [t EXCEPT !.data = Append(@, Tail(t.acc)), !.acc = << >>]
      BY <3>2 DEF With, Trackers
    <3> HIDE DEF u
    <3> QED
      BY <2>1, <3>3 DEF T!Flushed
  <2>2. CASE ~T!HasPrefix(t.acc, "data")
    BY <2>2 DEF T!Flushed, With
  <2> QED
    BY <2>1, <2>2
<1> HIDE DEF u
<1>4. T!EndEvent(With(u, << >>)) = T!ScanLine(With(u, << >>), << >>)
  BY DEF T!ScanLine, T!HasPrefix
<1>5. T!ScanLine(With(u, << >>), << >>) = With(T!ScanLine(u, << >>), << >>)
  BY <1>1, <1>2, LineLeavesRest
<1>6. T!ScanLine(u, << >>) \in Trackers
  BY <1>1, <1>2, LineTyped
<1>7. With(T!ScanLine(u, << >>), << >>) \in Trackers
  BY <1>1, <1>6 DEF With, Trackers
<1> QED
  BY <1>3, <1>4, <1>5, <1>7 DEF u

\* The parser's state is well formed.
LEMMA TrackerTyped == TrackerInv => T!TypeOK
<1> SUFFICES ASSUME TrackerInv PROVE T!TypeOK
  OBVIOUS
<1>1. Begun \in Trackers
  <2>1. SubSeq(stream, 1, sent) \in Seq(Symbols) /\ T!NL \in Symbols
    BY DEF TrackerInv, Symbols
  <2> QED
    BY <2>1, NewTyped, ScanNext DEF Begun
<1>2. tracker \in Trackers
  BY <1>1, FlushedIs DEF TrackerInv
<1>3. tracker.acc \in Seq(Marks) /\ tracker.usage \in Usages
  BY <1>2 DEF Trackers, Rows
<1>4. \A i \in 1..Len(tracker.acc) : tracker.acc[i] # T!NL
  <2>1. \A x \in Marks : x # T!NL
    BY DEF Marks, T!NL
  <2> QED
    BY <1>3, <2>1
<1> QED
  BY <1>3, <1>4 DEF TrackerInv, Usages, T!TypeOK

\* At the end, the usage is that of all lines that count.
LEMMA UsageOfRead ==
  ASSUME TrackerInv, copyPhase = "done"
  PROVE  T!Read \in Seq(Rows) /\ tracker.usage = ScanAll(T!New, T!Read).usage
<1> DEFINE text == SubSeq(stream, 1, sent)
           ls == T!Split(text)
           u == ScanAll(T!New, T!Front(ls))
           last == T!Last(ls)
<1>1. text \in Seq(Symbols) /\ T!New.acc \o text = text
  <2>1. text \in Seq(Symbols)
    BY DEF TrackerInv
  <2> HIDE DEF text
  <2> QED
    BY <2>1, Joined DEF T!New
<1>2. Begun = With(u, last)
  <2> HIDE DEF ls
  <2>1. T!Split(T!New.acc \o text) = ls
    BY <1>1 DEF ls
  <2> QED
    BY <2>1 DEF Begun, T!ScanForUsage, ScanAll, With
<1>3. ls \in Seq(Rows) \ {<< >>}
  <2>1. T!NL \in Symbols
    BY DEF Symbols
  <2> HIDE DEF text
  <2> QED
    BY <1>1, <2>1, SplitNext DEF Lists
<1>4. T!Read = IF ~flushes THEN T!Front(ls)
               ELSE (IF T!HasPrefix(last, "data") THEN ls ELSE T!Front(ls)) \o << << >> >>
  BY DEF T!Read
<1> HIDE DEF ls, text
<1>5. T!Front(ls) \in Seq(Rows) /\ last \in Rows /\ ls = Append(T!Front(ls), last)
  <2> DEFINE E == Rows
  <2> HIDE DEF E
  <2>1. ls \in Seq(E) \ {<< >>}
    BY <1>3 DEF E
  <2>2. T!Front(ls) \in Seq(E) /\ T!Last(ls) \in E /\ ls = Append(T!Front(ls), T!Last(ls))
    BY <2>1, FrontAndLast
  <2> QED
    BY <2>2 DEF E
<1> HIDE DEF last
<1>6. u \in Trackers /\ ScanAll(T!New, ls) = T!ScanLine(u, last)
  <2>1. /\ ScanAll(T!New, Append(T!Front(ls), last)) = T!ScanLine(u, last)
        /\ ScanAll(T!New, T!Front(ls)) \in Trackers
    BY <1>5, NewTyped, ScanAllNext
  <2> QED
    BY <1>5, <2>1
<1>7. \A v \in Trackers : \A q : With(v, q).usage = v.usage
  BY DEF With, Trackers
<1>8. CASE ~flushes
  <2>1. tracker = With(u, last)
    BY <1>2, <1>8 DEF TrackerInv
  <2> QED
    BY <1>4, <1>5, <1>6, <1>7, <1>8, <2>1
<1>9. CASE flushes
  <2> DEFINE v == IF T!HasPrefix(last, "data") THEN T!ScanLine(u, last) ELSE u
             rs == IF T!HasPrefix(last, "data") THEN ls ELSE T!Front(ls)
  <2>1. rs \in Seq(Rows) /\ ScanAll(T!New, rs) = v /\ v \in Trackers /\ << >> \in Rows
    BY <1>3, <1>5, <1>6, LineTyped DEF Rows, u
  <2> HIDE DEF u
  <2>2. With(u, last) \in Trackers /\ With(u, last).acc = last
    BY <1>5, <1>6 DEF With, Trackers
  <2>3. tracker = T!Flushed(With(u, last))
    BY <1>2, <1>9 DEF TrackerInv, u
  <2> DEFINE y == IF T!HasPrefix(last, "data") THEN T!ScanLine(With(u, last), last)
                  ELSE With(u, last)
  <2>4. tracker = With(T!ScanLine(y, << >>), << >>)
    BY <2>2, <2>3, FlushedIs
  <2>5. y = With(v, last)
    BY <1>5, <1>6, LineLeavesRest
  <2> HIDE DEF v, rs, y
  <2>6. T!ScanLine(y, << >>) = With(T!ScanLine(v, << >>), last)
    BY <2>1, <2>5, LineLeavesRest
  <2>7. T!ScanLine(v, << >>) \in Trackers
    BY <2>1, LineTyped
  <2>8. tracker.usage = T!ScanLine(v, << >>).usage
    <3>1. With(T!ScanLine(v, << >>), last) \in Trackers
      BY <1>5, <2>7 DEF With, Trackers
    <3> QED
      BY <1>7, <2>4, <2>6, <2>7, <3>1
  <2>9. T!Read = Append(rs, << >>) /\ Append(rs, << >>) \in Seq(Rows)
    <3>1. T!Read = rs \o << << >> >>
      BY <1>4, <1>9 DEF rs
    <3> QED
      BY <2>1, <3>1
  <2>10. ScanAll(T!New, Append(rs, << >>)) = T!ScanLine(v, << >>)
    BY <2>1, NewTyped, ScanAllNext
  <2> QED
    BY <2>8, <2>9, <2>10
<1> QED
  BY <1>8, <1>9

\* The texts of one message more, one after the other.
LEMMA FlattenNext ==
  ASSUME NEW E, NEW s \in Seq(Seq(E)), NEW x \in Seq(E)
  PROVE  /\ F!FlattenSeq(Append(s, x)) = F!FlattenSeq(s) \o x
         /\ F!FlattenSeq(s) \in Seq(E)
<1> DEFINE n == Len(s)
           a == Append(s, x)
<1>1. /\ n \in Nat /\ a \in Seq(Seq(E)) /\ Len(a) = n + 1 /\ a[n + 1] = x
      /\ \A i \in 1..n : a[i] = s[i]
  OBVIOUS
<1> HIDE DEF a, n
<1>2. PICK g \in [0..Len(a) -> Seq(E)] : g[0] = << >> /\ \A i \in 1..Len(a) : g[i] = g[i - 1] \o a[i]
  BY <1>1, FlattenAlong
<1>3. F!FlattenSeq(a) = g[n + 1]
  <2>1. F!FlattenSeq(a) = g[Len(a)]
    BY <1>1, <1>2, FlattenIs
  <2> QED
    BY <1>1, <2>1
<1> DEFINE h == [i \in 0..n |-> g[i]]
<1>4. /\ h \in [0..n -> Seq(E)] /\ h[0] = << >>
      /\ \A i \in 1..n : h[i] = h[i - 1] \o s[i]
  <2>0. n \in Nat /\ Len(a) = n + 1
    BY <1>1
  <2>1. \A i \in 0..n : i \in 0..Len(a) /\ g[i] \in Seq(E)
    BY <1>2, <2>0
  <2>2. h \in [0..n -> Seq(E)] /\ h[0] = << >>
    BY <1>2, <2>0, <2>1
  <2>3. ASSUME NEW i \in 1..n PROVE h[i] = h[i - 1] \o s[i]
    <3>0. a[i] = s[i]
      BY <1>1
    <3>1. i \in 1..Len(a) /\ i - 1 \in 0..n /\ i \in 0..n
      BY <2>0
    <3>2. h[i] = g[i] /\ h[i - 1] = g[i - 1]
      BY <3>1
    <3> HIDE DEF h
    <3> QED
      BY <1>2, <3>0, <3>1, <3>2
  <2> QED
    BY <2>2, <2>3
<1>5. h[n] = g[n] /\ n \in 0..n
  BY <1>1
<1> HIDE DEF h
<1>6. F!FlattenSeq(s) = g[n]
  <2>1. F!FlattenSeq(s) = h[Len(s)]
    BY <1>4, FlattenIs DEF n
  <2> QED
    BY <1>5, <2>1 DEF n
<1>7. g[n + 1] = g[n] \o x /\ g[n] \in Seq(E)
  <2>0. n \in Nat /\ Len(a) = n + 1
    BY <1>1
  <2>1. n + 1 \in 1..Len(a) /\ (n + 1) - 1 = n /\ n \in 0..Len(a)
    BY <2>0
  <2> QED
    BY <1>1, <1>2, <2>1
<1> QED
  BY <1>3, <1>6, <1>7 DEF a

\* Nothing but empty texts.
LEMMA FlattenNothing ==
  ASSUME NEW s \in Seq(Rows), \A i \in 1..Len(s) : s[i] = << >>
  PROVE  F!FlattenSeq(s) = << >>
<1> DEFINE g == [i \in 0..Len(s) |-> << >>]
           n == Len(s)
<1>1. n \in Nat /\ << >> \in Seq(Marks) /\ << >> \o << >> = << >>
  <2>1. << >> \in Seq(Marks)
    OBVIOUS
  <2> QED
    BY <2>1, Joined
<1>2. s \in Seq(Seq(Marks)) /\ g \in [0..n -> Seq(Marks)] /\ g[0] = << >> /\ g[n] = << >>
  BY <1>1 DEF Rows
<1>3. ASSUME NEW i \in 1..n PROVE g[i] = g[i - 1] \o s[i]
  <2>1. s[i] = << >>
    OBVIOUS
  <2>2. i \in 0..n /\ i - 1 \in 0..n
    <3> HIDE DEF n
    <3> QED
      BY <1>1
  <2>3. g[i] = << >> /\ g[i - 1] = << >>
    BY <2>2
  <2> HIDE DEF g
  <2> QED
    BY <1>1, <2>1, <2>3
<1> HIDE DEF g
<1>4. F!FlattenSeq(s) = g[Len(s)]
  BY <1>2, <1>3, FlattenIs
<1> QED
  BY <1>2, <1>4

\* The tracker puts texts together as the adapters do.
LEMMA TrackerFlattens == \A s : T!FlattenSeq(s) = F!FlattenSeq(s)
  BY DEF T!FlattenSeq, F!FlattenSeq

\* Before the first line there is no event.
LEMMA NoEventYet ==
  ASSUME NEW ls
  PROVE  /\ T!Block(ls, 1) = {} /\ T!Text(ls, 1) = << >> /\ T!Event(ls, 1) = None
<1>1. T!Block(ls, 1) = {} /\ T!EventLines(ls, 1) = {}
  BY DEF T!Block, T!EventLines
<1>2. T!Text(ls, 1) = << >>
  <2> DEFINE s == [n \in 1..(1 - 1) |-> IF n \in T!Block(ls, 1) THEN Tail(ls[n]) ELSE << >>]
  <2>1. s = << >>
    OBVIOUS
  <2>2. T!FlattenSeq(<< >>) = << >>
    BY DEF T!FlattenSeq
  <2> HIDE DEF s
  <2>3. T!FlattenSeq(s) = << >>
    BY <2>1, <2>2
  <2> QED
    BY <2>3 DEF T!Text, s
<1>3. T!Event(ls, 1) = None
  BY <1>1 DEF T!Event
<1> QED
  BY <1>1, <1>2, <1>3

\* The data lines that count, a line further.
LEMMA BlockNext ==
  ASSUME NEW ls \in Seq(Rows), NEW i \in 1..Len(ls)
  PROVE  /\ ls[i] = << >> => T!Block(ls, i + 1) = {}
         /\ ls[i] # << >> =>
              T!Block(ls, i + 1) = T!Block(ls, i) \union (IF T!IsData(ls, i) THEN {i} ELSE {})
         /\ i \notin T!Block(ls, i) /\ T!Block(ls, i) \subseteq 1..(i - 1)
<1>1. i \in Nat /\ i # 0 /\ (i + 1) - 1 = i
  OBVIOUS
<1>2. T!Block(ls, i) \subseteq 1..(i - 1) /\ i \notin 1..(i - 1)
  BY <1>1 DEF T!Block
<1>3. ASSUME ls[i] = << >> PROVE T!Block(ls, i + 1) = {}
  <2>1. ASSUME NEW j \in T!Block(ls, i + 1) PROVE FALSE
    <3>1. j \in 1..i /\ i \in j..i /\ \A k \in j..i : ls[k] # << >>
      BY <1>1, <2>1 DEF T!Block
    <3> QED
      BY <1>3, <3>1
  <2> QED
    BY <2>1
<1>4. ASSUME ls[i] # << >>
      PROVE  T!Block(ls, i + 1) = T!Block(ls, i) \union (IF T!IsData(ls, i) THEN {i} ELSE {})
  <2>1. ASSUME NEW j \in 1..(i - 1)
        PROVE  (\A k \in j..i : ls[k] # << >>) <=> (\A k \in j..(i - 1) : ls[k] # << >>)
    <3>1. \A k : k \in j..i <=> k \in j..(i - 1) \/ k = i
      BY <1>1
    <3> QED
      BY <1>4, <3>1
  <2>2. \A j : j \in 1..i <=> j \in 1..(i - 1) \/ j = i
    BY <1>1
  <2>3. \A k \in i..i : ls[k] # << >>
    BY <1>1, <1>4
  <2>4. T!Block(ls, i + 1) = {j \in 1..i : T!IsData(ls, j) /\ \A k \in j..i : ls[k] # << >>}
    BY <1>1 DEF T!Block
  <2> QED
    BY <2>1, <2>2, <2>3, <2>4 DEF T!Block
<1> QED
  BY <1>2, <1>3, <1>4

\* Their text.
LEMMA TextNext ==
  ASSUME NEW ls \in Seq(Rows), NEW i \in 1..Len(ls)
  PROVE  T!Text(ls, i + 1) =
           IF ls[i] = << >> THEN << >>
           ELSE IF T!IsData(ls, i) THEN T!Text(ls, i) \o Tail(ls[i]) ELSE T!Text(ls, i)
<1> DEFINE s(m) == [n \in 1..(m - 1) |-> IF n \in T!Block(ls, m) THEN Tail(ls[n]) ELSE << >>]
<1>1. i \in Nat /\ i # 0 /\ (i + 1) - 1 = i
  OBVIOUS
<1>2. T!Text(ls, i) = F!FlattenSeq(s(i)) /\ T!Text(ls, i + 1) = F!FlattenSeq(s(i + 1))
  BY TrackerFlattens DEF T!Text
<1>3. << >> \in Rows /\ \A j \in 1..Len(ls) : T!IsData(ls, j) => ls[j] # << >> /\ Tail(ls[j]) \in Rows
  BY DEF T!IsData, T!HasPrefix, Rows
<1>4. ASSUME NEW m \in 1..(Len(ls) + 1) PROVE s(m) \in Seq(Rows) /\ Len(s(m)) = m - 1
  <2>1. \A n \in T!Block(ls, m) : n \in 1..Len(ls) /\ T!IsData(ls, n)
    BY <1>1 DEF T!Block
  <2>2. \A n \in 1..(m - 1) : (IF n \in T!Block(ls, m) THEN Tail(ls[n]) ELSE << >>) \in Rows
    BY <1>3, <2>1
  <2>3. s(m) \in [1..(m - 1) -> Rows] /\ m - 1 \in Nat
    BY <2>2
  <2> HIDE DEF s
  <2> QED
    BY <2>3, Listed
<1>5. CASE ls[i] = << >>
  <2>1. T!Block(ls, i + 1) = {}
    BY <1>5, BlockNext
  <2>2. \A j \in 1..i : s(i + 1)[j] = << >>
    BY <1>1, <2>1
  <2>3. i + 1 \in 1..(Len(ls) + 1)
    BY <1>1
  <2>4. s(i + 1) \in Seq(Rows) /\ Len(s(i + 1)) = i
    BY <1>1, <1>4, <2>3
  <2> HIDE DEF s
  <2>5. F!FlattenSeq(s(i + 1)) = << >>
    BY <2>2, <2>4, FlattenNothing
  <2> QED
    BY <1>2, <1>5, <2>5
<1>6. CASE ls[i] # << >>
  <2> DEFINE x == IF T!IsData(ls, i) THEN Tail(ls[i]) ELSE << >>
  <2>1. /\ T!Block(ls, i + 1) = T!Block(ls, i) \union (IF T!IsData(ls, i) THEN {i} ELSE {})
        /\ i \notin T!Block(ls, i)
    BY <1>6, BlockNext
  <2>2. x \in Rows
    BY <1>3
  <2>3. s(i + 1)[i] = x
    BY <1>1, <2>1
  <2>4. \A j \in 1..(i - 1) : s(i + 1)[j] = s(i)[j]
    BY <1>1, <2>1
  <2>5. i + 1 \in 1..(Len(ls) + 1) /\ i \in 1..(Len(ls) + 1)
    BY <1>1
  <2>6. s(i) \in Seq(Rows) /\ Len(s(i)) = i - 1 /\ s(i + 1) \in Seq(Rows) /\ Len(s(i + 1)) = i
    BY <1>1, <1>4, <2>5
  <2> DEFINE p == s(i)
             q == s(i + 1)
  <2> HIDE DEF s, x
  <2>7. q = Append(p, x)
    <3> DEFINE r == Append(p, x)
    <3>1. p \in Seq(Rows) /\ Len(p) = i - 1 /\ q \in Seq(Rows) /\ Len(q) = i
      BY <2>6
    <3>2. q[i] = x /\ \A j \in 1..(i - 1) : q[j] = p[j]
      BY <2>3, <2>4
    <3> HIDE DEF p, q
    <3>3. r \in Seq(Rows) /\ Len(r) = i /\ r[i] = x /\ \A j \in 1..(i - 1) : r[j] = p[j]
      BY <1>1, <2>2, <3>1
    <3> HIDE DEF r
    <3>4. \A j \in 1..i : q[j] = r[j]
      BY <1>1, <3>2, <3>3
    <3>5. q = r
      BY <3>1, <3>3, <3>4
    <3> QED
      BY <3>5 DEF r
  <2>8. p \in Seq(Seq(Marks)) /\ x \in Seq(Marks)
    BY <2>2, <2>6 DEF Rows
  <2>9. F!FlattenSeq(p) \in Seq(Marks) /\ F!FlattenSeq(q) = F!FlattenSeq(p) \o x
    <3> HIDE DEF p, q
    <3> QED
      BY <2>7, <2>8, FlattenNext
  <2>10. ~T!IsData(ls, i) => F!FlattenSeq(p) \o x = F!FlattenSeq(p)
    <3> DEFINE y == F!FlattenSeq(p)
    <3> HIDE DEF y, p, q
    <3>1. y \in Seq(Marks) => y \o << >> = y
      BY Joined
    <3> QED
      BY <2>9, <3>1 DEF x, y
  <2> QED
    BY <1>2, <1>6, <2>9, <2>10 DEF x
<1> QED
  BY <1>5, <1>6

\* The type the last of some lines of a text gives.
EventAmong(ls, s) ==
  IF s = {} THEN None ELSE Head(ls[CHOOSE j \in s : \A k \in s : k <= j]).line.type

\* Event lines that count, a line further.
LEMMA EventNext ==
  ASSUME NEW ls \in Seq(Rows), NEW i \in 1..Len(ls)
  PROVE  T!Event(ls, i + 1) =
           IF i \in T!Ends(ls) THEN None
           ELSE IF T!HasPrefix(ls[i], "event") THEN Head(ls[i]).line.type
           ELSE T!Event(ls, i)
<1> DEFINE K == T!EventLines(ls, i)
           M == T!EventLines(ls, i + 1)
<1>1. /\ i \in Nat /\ i # 0 /\ (i + 1) - 1 = i
      /\ \A k : k \in T!Ends(ls) => k \in Nat /\ ls[k] = << >>
  BY DEF T!Ends
<1>2. CASE i \in T!Ends(ls)
  <2>1. ASSUME NEW j \in M PROVE FALSE
    <3>1. j \in 1..i /\ (i < j \/ i >= i + 1)
      BY <1>1, <1>2, <2>1 DEF T!EventLines
    <3> QED
      BY <1>1, <3>1
  <2>2. M = {}
    BY <2>1
  <2> QED
    BY <1>2, <2>2 DEF T!Event
<1>3. CASE i \notin T!Ends(ls)
  <2>1. ASSUME NEW k \in T!Ends(ls) PROVE k >= i + 1 <=> k >= i
    BY <1>1, <1>3
  <2>2. \A j : j \in 1..i <=> j \in 1..(i - 1) \/ j = i
    BY <1>1
  <2>3. \A k \in T!Ends(ls) : k < i \/ k >= i + 1
    BY <1>1, <1>3
  <2>4. M = {j \in 1..i : T!HasPrefix(ls[j], "event") /\ \A k \in T!Ends(ls) : k < j \/ k >= i + 1}
    BY <1>1 DEF T!EventLines
  <2>5. K = {j \in 1..(i - 1) : T!HasPrefix(ls[j], "event") /\ \A k \in T!Ends(ls) : k < j \/ k >= i}
    BY DEF T!EventLines
  <2> HIDE DEF K, M
  <2>6. M = K \union (IF T!HasPrefix(ls[i], "event") THEN {i} ELSE {})
    BY <2>1, <2>2, <2>3, <2>4, <2>5
  <2>7. CASE ~T!HasPrefix(ls[i], "event")
    <3>1. M = K
      BY <2>6, <2>7
    <3>2. T!Event(ls, i + 1) = EventAmong(ls, M) /\ T!Event(ls, i) = EventAmong(ls, K)
      BY DEF T!Event, K, M, EventAmong
    <3>3. EventAmong(ls, M) = EventAmong(ls, K)
      BY <3>1
    <3> QED
      BY <1>3, <2>7, <3>2, <3>3
  <2>8. CASE T!HasPrefix(ls[i], "event")
    <3>1. i \in M /\ \A k \in M : k <= i
      BY <1>1, <2>4, <2>6, <2>8
    <3> DEFINE top == CHOOSE j \in M : \A k \in M : k <= j
    <3>2. top \in M /\ \A k \in M : k <= top
      BY <3>1
    <3> HIDE DEF top
    <3>3. top = i
      <4>1. top \in 1..i
        BY <2>4, <3>2
      <4> QED
        BY <1>1, <3>1, <3>2, <4>1
    <3>4. T!Event(ls, i + 1) = Head(ls[top]).line.type
      BY <3>1 DEF T!Event, top, M
    <3> QED
      BY <1>3, <2>8, <3>3, <3>4
  <2> QED
    BY <2>7, <2>8
<1> QED
  BY <1>2, <1>3

\* The payloads of the events up to a line, and the deltas among them.
FoundTo(ls, k) == UNION {T!Payloads(ls, i) : i \in {e \in T!Ends(ls) : e <= k}}

DeltasTo(ls, k) ==
  {i \in T!Ends(ls) : i <= k /\ T!Event(ls, i) = "message_delta" /\ T!Payloads(ls, i) # {}}

\* Where no event ends, or the one that ends says something or not.
LEMMA FoundNext ==
  ASSUME NEW ls \in Seq(Rows), NEW i \in 1..Len(ls)
  PROVE  /\ FoundTo(ls, i) = FoundTo(ls, i - 1) \union
                             (IF i \in T!Ends(ls) THEN T!Payloads(ls, i) ELSE {})
         /\ DeltasTo(ls, i) = DeltasTo(ls, i - 1) \union
              (IF i \in T!Ends(ls) /\ T!Event(ls, i) = "message_delta" /\ T!Payloads(ls, i) # {}
               THEN {i} ELSE {})
         /\ i \notin DeltasTo(ls, i - 1) /\ IsFiniteSet(DeltasTo(ls, i - 1))
<1>1. i \in Nat /\ T!Ends(ls) \subseteq 1..Len(ls)
  BY DEF T!Ends
<1>2. \A e \in T!Ends(ls) : e <= i <=> e <= i - 1 \/ e = i
  BY <1>1
<1>3. {e \in T!Ends(ls) : e <= i} =
        {e \in T!Ends(ls) : e <= i - 1} \union (IF i \in T!Ends(ls) THEN {i} ELSE {})
  BY <1>1, <1>2
<1>4. FoundTo(ls, i) = FoundTo(ls, i - 1) \union
                         (IF i \in T!Ends(ls) THEN T!Payloads(ls, i) ELSE {})
  <2> DEFINE K == {e \in T!Ends(ls) : e <= i - 1}
             M == {e \in T!Ends(ls) : e <= i}
  <2>1. FoundTo(ls, i) = UNION {T!Payloads(ls, e) : e \in M}
    BY DEF FoundTo
  <2>2. FoundTo(ls, i - 1) = UNION {T!Payloads(ls, e) : e \in K}
    BY DEF FoundTo
  <2>3. M = K \union (IF i \in T!Ends(ls) THEN {i} ELSE {})
    BY <1>3
  <2> HIDE DEF K, M
  <2>4. CASE i \in T!Ends(ls)
    BY <2>1, <2>2, <2>3, <2>4, Zenon
  <2>5. CASE i \notin T!Ends(ls)
    BY <2>1, <2>2, <2>3, <2>5
  <2> QED
    BY <2>4, <2>5
<1>5. DeltasTo(ls, i) = DeltasTo(ls, i - 1) \union
        (IF i \in T!Ends(ls) /\ T!Event(ls, i) = "message_delta" /\ T!Payloads(ls, i) # {}
         THEN {i} ELSE {})
  BY <1>1, <1>2 DEF DeltasTo
<1>6. i \notin DeltasTo(ls, i - 1) /\ DeltasTo(ls, i - 1) \subseteq 1..Len(ls)
  BY <1>1 DEF DeltasTo
<1>7. IsFiniteSet(DeltasTo(ls, i - 1))
  <2>1. IsFiniteSet(1..Len(ls))
    <3>1. Len(ls) \in Nat
      OBVIOUS
    <3> QED
      BY <3>1, FS_Interval
  <2> QED
    BY <1>6, <2>1, FS_Subset
<1> QED
  BY <1>4, <1>5, <1>6, <1>7

\* The largest of some numbers, what data lines say of the input and of the output.
IsTop(m, s) == m \in s /\ \A y \in s : m >= y
DataLines == {l \in Lines : l.kind = "data"}
Inputs(s) == {0} \union {l.input : l \in s}
Outputs(s) == {0} \union {l.output : l \in s}

\* It is the one that is chosen.
LEMMA TopIs ==
  ASSUME NEW s \in SUBSET Int, NEW m, IsTop(m, s)
  PROVE  T!Max(s) = m
<1> DEFINE top == CHOOSE x \in s : \A y \in s : x >= y
<1>1. top \in s /\ \A y \in s : top >= y
  BY DEF IsTop
<1>2. T!Max(s) = top
  BY DEF T!Max
<1> HIDE DEF top
<1>3. m \in Int /\ top \in Int /\ m >= top /\ top >= m
  BY <1>1 DEF IsTop
<1> QED
  BY <1>2, <1>3

\* A number more.
LEMMA LargerTop ==
  ASSUME NEW s \in SUBSET Int, NEW m, IsTop(m, s), NEW x \in Int
  PROVE  IsTop(T!Larger(m, x), s \union {x})
<1>1. m \in Int /\ m \in s /\ \A y \in s : y \in Int /\ m >= y
  BY DEF IsTop
<1>2. CASE m > x
  <2>1. T!Larger(m, x) = m
    BY <1>2 DEF T!Larger
  <2>2. m >= x
    BY <1>1, <1>2
  <2> QED
    BY <1>1, <2>1, <2>2 DEF IsTop
<1>3. CASE ~(m > x)
  <2>1. T!Larger(m, x) = x
    BY <1>3 DEF T!Larger
  <2>2. x >= m /\ x >= x /\ \A y \in s : x >= y
    BY <1>1, <1>3
  <2> QED
    BY <2>1, <2>2 DEF IsTop
<1> QED
  BY <1>2, <1>3

\* A text is the body of one line at most.
LEMMA ParsedOne ==
  ASSUME NEW w
  PROVE  T!Parsed(w) \subseteq DataLines /\ \A a, b \in T!Parsed(w) : a = b
<1>1. ASSUME NEW a \in T!Parsed(w), NEW b \in T!Parsed(w) PROVE a = b
  <2>1. <<[line |-> a, part |-> 2], [line |-> a, part |-> 3]>> =
          <<[line |-> b, part |-> 2], [line |-> b, part |-> 3]>>
    BY DEF T!Parsed
  <2>2. [line |-> a, part |-> 2] = [line |-> b, part |-> 2]
    BY <2>1
  <2>3. [line |-> a, part |-> 2].line = [line |-> b, part |-> 2].line
    BY <2>2
  <2> QED
    BY <2>3
<1> QED
  BY <1>1 DEF T!Parsed, DataLines

\* Numbers of data lines.
LEMMA DataNumbers ==
  ASSUME NEW s \in SUBSET DataLines
  PROVE  /\ Inputs(s) \in SUBSET Int /\ Outputs(s) \in SUBSET Int
         /\ \A l \in DataLines : l.input \in Int /\ l.output \in Int
<1>1. \A l \in DataLines : l.input \in Int /\ l.output \in Int
  BY TrackerAssumption DEF DataLines
<1> QED
  BY <1>1 DEF Inputs, Outputs

\* An event raises the usage to what its payload says, and counts if it is a delta.
LEMMA EventCounts ==
  ASSUME NEW u \in Usages, NEW e, NEW w, NEW s \in SUBSET DataLines,
         NEW new, new = (IF e \in T!Ignored THEN {} ELSE T!Parsed(w)),
         IsTop(u.input, Inputs(s)), IsTop(u.output, Outputs(s))
  PROVE  /\ IsTop(T!ProcessEvent(u, e, w).input, Inputs(s \union new))
         /\ IsTop(T!ProcessEvent(u, e, w).output, Outputs(s \union new))
         /\ T!ProcessEvent(u, e, w).deltas =
              u.deltas + (IF e = "message_delta" /\ new # {} THEN 1 ELSE 0)
<1>0. u.deltas \in Nat /\ u.deltas + 0 = u.deltas
  BY DEF Usages
<1>1. CASE new = {}
  <2>1. T!ProcessEvent(u, e, w) = u
    BY <1>1 DEF T!ProcessEvent
  <2>2. s \union new = s
    BY <1>1
  <2> QED
    BY <1>0, <1>1, <2>1, <2>2
<1>2. CASE new # {}
  <2> DEFINE p == CHOOSE l \in T!Parsed(w) : TRUE
             v == IF e = "message_delta" THEN [u EXCEPT !.deltas = @ + 1] ELSE u
  <2>1. e \notin T!Ignored /\ new = T!Parsed(w)
    BY <1>2
  <2>2. p \in new /\ p \in DataLines /\ new = {p}
    <3>1. p \in T!Parsed(w)
      BY <1>2, <2>1
    <3> HIDE DEF p
    <3> QED
      BY <2>1, <3>1, ParsedOne
  <2>3. T!ProcessEvent(u, e, w) = T!ExtractUsage(v, p)
    BY <1>2, <2>1 DEF T!ProcessEvent
  <2> HIDE DEF p
  <2>4. /\ v \in Usages /\ v.input = u.input /\ v.output = u.output
        /\ v.deltas = u.deltas + (IF e = "message_delta" THEN 1 ELSE 0)
    BY <1>0 DEF Usages
  <2> HIDE DEF v
  <2>5. /\ T!ExtractUsage(v, p).input = T!Larger(u.input, p.input)
        /\ T!ExtractUsage(v, p).output = T!Larger(u.output, p.output)
        /\ T!ExtractUsage(v, p).deltas = v.deltas
    BY <2>4 DEF T!ExtractUsage, Usages
  <2>6. Inputs(s \union new) = Inputs(s) \union {p.input}
    BY <2>2 DEF Inputs
  <2>7. Outputs(s \union new) = Outputs(s) \union {p.output}
    BY <2>2 DEF Outputs
  <2>8. p.input \in Int /\ p.output \in Int
    BY <2>2, DataNumbers
  <2>9. Inputs(s) \in SUBSET Int /\ Outputs(s) \in SUBSET Int
    BY DataNumbers
  <2>10. IsTop(T!Larger(u.input, p.input), Inputs(s) \union {p.input})
    BY <2>8, <2>9, LargerTop
  <2>11. IsTop(T!Larger(u.output, p.output), Outputs(s) \union {p.output})
    BY <2>8, <2>9, LargerTop
  <2> QED
    BY <1>2, <2>3, <2>4, <2>5, <2>6, <2>7, <2>10, <2>11
<1> QED
  BY <1>1, <1>2

\* The parser's state after k lines of a text says what the text says.
TrackerSound(ls, t, k) ==
  /\ t.data = << >> <=> T!Block(ls, k + 1) = {}
  /\ T!FlattenSeq(t.data) = T!Text(ls, k + 1)
  /\ t.event = T!Event(ls, k + 1)
  /\ IsTop(t.usage.input, Inputs(FoundTo(ls, k)))
  /\ IsTop(t.usage.output, Outputs(FoundTo(ls, k)))
  /\ t.usage.deltas = Cardinality(DeltasTo(ls, k))

\* Before the first line it does.
LEMMA SoundAtFirst ==
  ASSUME NEW ls \in Seq(Rows)
  PROVE  TrackerSound(ls, T!New, 0)
<1>1. T!Ends(ls) \subseteq 1..Len(ls) /\ Len(ls) \in Nat
  BY DEF T!Ends
<1>2. \A e \in T!Ends(ls) : ~(e <= 0)
  BY <1>1
<1>3. FoundTo(ls, 0) = {} /\ DeltasTo(ls, 0) = {}
  BY <1>2 DEF FoundTo, DeltasTo
<1>4. IsTop(0, Inputs({})) /\ IsTop(0, Outputs({}))
  BY DEF IsTop, Inputs, Outputs
<1>5. Cardinality({}) = 0
  BY FS_EmptySet
<1>6. T!FlattenSeq(<< >>) = << >>
  BY DEF T!FlattenSeq
<1>7. T!Block(ls, 1) = {} /\ T!Text(ls, 1) = << >> /\ T!Event(ls, 1) = None
  BY NoEventYet
<1>8. /\ T!New.data = << >> /\ T!New.event = None /\ T!New.usage.input = 0
      /\ T!New.usage.output = 0 /\ T!New.usage.deltas = 0
  BY DEF T!New, T!Nothing
<1>9. 0 + 1 = 1
  OBVIOUS
<1> QED
  BY <1>3, <1>4, <1>5, <1>6, <1>7, <1>8, <1>9 DEF TrackerSound

\* A line keeps that so: what the code does about the line is what it says.
LEMMA SoundNext ==
  ASSUME NEW ls \in Seq(Rows), NEW i \in 1..Len(ls), NEW t \in Trackers,
         TrackerSound(ls, t, i - 1)
  PROVE  TrackerSound(ls, T!ScanLine(t, ls[i]), i)
<1> DEFINE l == ls[i]
           d == T!ScanLine(t, l)
<1>1. i \in Nat /\ (i - 1) + 1 = i /\ l \in Rows
  OBVIOUS
<1>2. /\ t.data = << >> <=> T!Block(ls, i) = {}
      /\ T!FlattenSeq(t.data) = T!Text(ls, i)
      /\ t.event = T!Event(ls, i)
      /\ IsTop(t.usage.input, Inputs(FoundTo(ls, i - 1)))
      /\ IsTop(t.usage.output, Outputs(FoundTo(ls, i - 1)))
      /\ t.usage.deltas = Cardinality(DeltasTo(ls, i - 1))
  BY <1>1 DEF TrackerSound
<1>3. i \in T!Ends(ls) <=> l = << >> /\ T!Block(ls, i) # {}
  BY DEF T!Ends
<1>4. /\ l = << >> => ~T!HasPrefix(l, "event") /\ ~T!HasPrefix(l, "data")
      /\ T!HasPrefix(l, "event") => ~T!HasPrefix(l, "data")
      /\ T!IsData(ls, i) <=> T!HasPrefix(l, "data")
  BY DEF T!HasPrefix, T!IsData
<1>5. T!Event(ls, i + 1) = IF i \in T!Ends(ls) THEN None
                           ELSE IF T!HasPrefix(l, "event") THEN Head(l).line.type
                           ELSE T!Event(ls, i)
  BY EventNext
<1>6. T!Text(ls, i + 1) = IF l = << >> THEN << >>
                          ELSE IF T!IsData(ls, i) THEN T!Text(ls, i) \o Tail(l)
                          ELSE T!Text(ls, i)
  BY TextNext
<1>7. /\ l = << >> => T!Block(ls, i + 1) = {}
      /\ l # << >> =>
           T!Block(ls, i + 1) = T!Block(ls, i) \union (IF T!IsData(ls, i) THEN {i} ELSE {})
  BY BlockNext
<1>8. i \notin T!Ends(ls) =>
        FoundTo(ls, i) = FoundTo(ls, i - 1) /\ DeltasTo(ls, i) = DeltasTo(ls, i - 1)
  <2> DEFINE a == FoundTo(ls, i)
             b == FoundTo(ls, i - 1)
             c == DeltasTo(ls, i)
             e == DeltasTo(ls, i - 1)
  <2>1. /\ a = b \union (IF i \in T!Ends(ls) THEN T!Payloads(ls, i) ELSE {})
        /\ c = e \union (IF i \in T!Ends(ls) /\ T!Event(ls, i) = "message_delta"
                              /\ T!Payloads(ls, i) # {} THEN {i} ELSE {})
    BY FoundNext
  <2> HIDE DEF a, b, c, e
  <2>2. i \notin T!Ends(ls) => a = b \union {} /\ c = e \union {}
    BY <2>1
  <2>3. i \notin T!Ends(ls) => a = b /\ c = e
    BY <2>2
  <2> QED
    BY <2>3 DEF a, b, c, e
<1>9. t.data \in Seq(Rows) /\ t.usage \in Usages
  BY DEF Trackers
<1> HIDE DEF l, d
<1>10. CASE T!HasPrefix(l, "event")
  <2>1. l # << >> /\ ~T!IsData(ls, i) /\ i \notin T!Ends(ls)
    BY <1>3, <1>4, <1>10
  <2>2. d.event = Head(l).line.type /\ d.data = t.data /\ d.usage = t.usage
    BY <1>10 DEF T!ScanLine, Trackers, d
  <2>3. T!Block(ls, i + 1) = T!Block(ls, i) /\ T!Text(ls, i + 1) = T!Text(ls, i)
    BY <1>6, <1>7, <2>1
  <2>4. T!Event(ls, i + 1) = Head(l).line.type
    BY <1>5, <1>10, <2>1
  <2>5. TrackerSound(ls, d, i)
    BY <1>2, <1>8, <2>1, <2>2, <2>3, <2>4 DEF TrackerSound
  <2> QED
    BY <2>5 DEF d, l
<1>11. CASE T!HasPrefix(l, "data")
  <2>1. l # << >> /\ T!IsData(ls, i) /\ i \notin T!Ends(ls) /\ ~T!HasPrefix(l, "event")
    BY <1>3, <1>4, <1>11
  <2>2. d.event = t.event /\ d.data = Append(t.data, Tail(l)) /\ d.usage = t.usage
    BY <1>11, <2>1 DEF T!ScanLine, Trackers, d
  <2>3. T!Block(ls, i + 1) # {} /\ T!Text(ls, i + 1) = T!Text(ls, i) \o Tail(l)
    BY <1>6, <1>7, <2>1
  <2>4. T!Event(ls, i + 1) = T!Event(ls, i)
    BY <1>5, <2>1
  <2>5. T!FlattenSeq(d.data) = T!Text(ls, i) \o Tail(l) /\ d.data # << >>
    <3> DEFINE s == t.data
               x == Tail(l)
    <3>1. s \in Seq(Seq(Marks)) /\ x \in Seq(Marks)
      BY <1>1, <1>9, <2>1 DEF Rows
    <3>2. F!FlattenSeq(s) = T!Text(ls, i) /\ d.data = Append(s, x)
      BY <1>2, <2>2, TrackerFlattens
    <3> HIDE DEF s, x
    <3>3. F!FlattenSeq(Append(s, x)) = F!FlattenSeq(s) \o x
      BY <3>1, FlattenNext
    <3>4. Append(s, x) # << >>
      <4>1. Len(Append(s, x)) = Len(s) + 1 /\ Len(s) \in Nat
        BY <3>1
      <4>2. Len(Append(s, x)) # 0 /\ Len(<< >>) = 0
        BY <4>1
      <4> QED
        BY <4>2
    <3>5. T!FlattenSeq(d.data) = F!FlattenSeq(d.data)
      BY TrackerFlattens
    <3> QED
      BY <3>2, <3>3, <3>4, <3>5 DEF x
  <2>6. TrackerSound(ls, d, i)
    BY <1>2, <1>8, <2>1, <2>2, <2>3, <2>4, <2>5 DEF TrackerSound
  <2> QED
    BY <2>6 DEF d, l
<1>12. CASE l # << >> /\ ~T!HasPrefix(l, "event") /\ ~T!HasPrefix(l, "data")
  <2>1. d = t /\ i \notin T!Ends(ls) /\ ~T!IsData(ls, i)
    BY <1>3, <1>4, <1>12 DEF T!ScanLine, d
  <2>2. /\ T!Block(ls, i + 1) = T!Block(ls, i) /\ T!Text(ls, i + 1) = T!Text(ls, i)
        /\ T!Event(ls, i + 1) = T!Event(ls, i)
    BY <1>5, <1>6, <1>7, <1>12, <2>1
  <2>3. TrackerSound(ls, d, i)
    BY <1>2, <1>8, <2>1, <2>2 DEF TrackerSound
  <2> QED
    BY <2>3 DEF d, l
<1>13. CASE l = << >> /\ T!Block(ls, i) = {}
  <2>1. d = t /\ i \notin T!Ends(ls) /\ t.data = << >>
    BY <1>2, <1>3, <1>4, <1>13 DEF T!ScanLine, T!EndEvent, d
  <2>2. T!FlattenSeq(<< >>) = << >>
    BY DEF T!FlattenSeq
  <2>3. /\ T!Block(ls, i + 1) = {} /\ T!Text(ls, i + 1) = << >>
        /\ T!Event(ls, i + 1) = T!Event(ls, i)
    BY <1>4, <1>5, <1>6, <1>7, <1>13, <2>1
  <2>4. TrackerSound(ls, d, i)
    BY <1>2, <1>8, <2>1, <2>2, <2>3 DEF TrackerSound
  <2> QED
    BY <2>4 DEF d, l
<1>14. CASE l = << >> /\ T!Block(ls, i) # {}
  <2> DEFINE w == T!FlattenSeq(t.data)
             e == t.event
             new == T!Payloads(ls, i)
             p == T!ProcessEvent(t.usage, e, w)
             s == FoundTo(ls, i - 1)
             ds == DeltasTo(ls, i - 1)
  <2>1. i \in T!Ends(ls) /\ t.data # << >>
    BY <1>2, <1>3, <1>14
  <2>2. d.usage = p /\ d.event = None /\ d.data = << >>
    BY <1>4, <1>14, <2>1 DEF T!ScanLine, T!EndEvent, Trackers, d
  <2>3. T!FlattenSeq(<< >>) = << >>
    BY DEF T!FlattenSeq
  <2>4. T!Block(ls, i + 1) = {} /\ T!Text(ls, i + 1) = << >> /\ T!Event(ls, i + 1) = None
    BY <1>5, <1>6, <1>7, <1>14, <2>1
  <2>5. new = (IF e \in T!Ignored THEN {} ELSE T!Parsed(w))
    BY <1>2 DEF T!Payloads
  <2>6. s \in SUBSET DataLines
    <3>1. \A k : T!Payloads(ls, k) \subseteq DataLines
      BY ParsedOne DEF T!Payloads
    <3> QED
      BY <3>1 DEF FoundTo
  <2>7. /\ FoundTo(ls, i) = s \union new
        /\ DeltasTo(ls, i) = ds \union (IF e = "message_delta" /\ new # {} THEN {i} ELSE {})
        /\ i \notin ds /\ IsFiniteSet(ds)
    BY <1>2, <2>1, FoundNext
  <2>8. IsTop(t.usage.input, Inputs(s)) /\ IsTop(t.usage.output, Outputs(s))
    BY <1>2
  <2>9. t.usage.deltas = Cardinality(ds) /\ t.usage \in Usages
    BY <1>2, <1>9
  <2> HIDE DEF s, ds, new, e, w
  <2>10. /\ IsTop(p.input, Inputs(s \union new)) /\ IsTop(p.output, Outputs(s \union new))
         /\ p.deltas = t.usage.deltas + (IF e = "message_delta" /\ new # {} THEN 1 ELSE 0)
    BY <2>5, <2>6, <2>8, <2>9, EventCounts
  <2> HIDE DEF p
  <2>11. p.deltas = Cardinality(DeltasTo(ls, i))
    <3>1. CASE e = "message_delta" /\ new # {}
      <4>1. DeltasTo(ls, i) = ds \union {i}
        BY <2>7, <3>1
      <4>2. Cardinality(ds \union {i}) = Cardinality(ds) + 1
        BY <2>7, FS_AddElement
      <4> QED
        BY <2>9, <2>10, <3>1, <4>1, <4>2
    <3>2. CASE ~(e = "message_delta" /\ new # {})
      <4>1. DeltasTo(ls, i) = ds
        BY <2>7, <3>2
      <4>2. t.usage.deltas + 0 = t.usage.deltas
        BY <2>9 DEF Usages
      <4> QED
        BY <2>9, <2>10, <3>2, <4>1, <4>2
    <3> QED
      BY <3>1, <3>2
  <2>12. TrackerSound(ls, d, i)
    BY <2>2, <2>3, <2>4, <2>7, <2>10, <2>11 DEF TrackerSound
  <2> QED
    BY <2>12 DEF d, l
<1> QED
  BY <1>10, <1>11, <1>12, <1>13, <1>14

\* After all lines, the usage is what the text's events say.
LEMMA SoundAtLast ==
  ASSUME NEW ls \in Seq(Rows)
  PROVE  TrackerSound(ls, ScanAll(T!New, ls), Len(ls))
<1> DEFINE n == Len(ls)
<1>1. n \in Nat
  OBVIOUS
<1>2. PICK g \in [0..n -> Trackers] :
        g[0] = T!New /\ \A i \in 1..n : g[i] = T!ScanLine(g[i - 1], ls[i])
  BY NewTyped, ScanAllAlong
<1>3. ScanAll(T!New, ls) = g[n]
  BY <1>2, NewTyped, ScanAllIs
<1> DEFINE X == {k \in 0..n : TrackerSound(ls, g[k], k)}
<1>4. 0 \in X
  <2>1. 0 \in 0..n
    BY <1>1
  <2> QED
    BY <1>2, <2>1, SoundAtFirst
<1>5. ASSUME NEW k \in 1..n, k - 1 \in X PROVE k \in X
  <2>1. g[k - 1] \in Trackers /\ TrackerSound(ls, g[k - 1], k - 1) /\ k \in 0..n
    BY <1>1, <1>2, <1>5
  <2>2. TrackerSound(ls, T!ScanLine(g[k - 1], ls[k]), k)
    BY <2>1, SoundNext
  <2> QED
    BY <1>2, <2>1, <2>2
<1>6. n \in X
  <2> HIDE DEF X
  <2>1. \A k \in 0..n : k \in X
    BY <1>1, <1>4, <1>5, AllUpTo
  <2> QED
    BY <1>1, <2>1
<1> QED
  BY <1>3, <1>6

\* At the end, the usage is that of the events of what was passed on.
LEMMA TrackerCounts == TrackerInv => T!UsageAnyChunking
<1> SUFFICES ASSUME TrackerInv, copyPhase = "done" PROVE T!UsageAnyChunking
  BY DEF T!UsageAnyChunking
<1> DEFINE ls == T!Read
           n == Len(ls)
           u == ScanAll(T!New, ls)
           found == UNION {T!Payloads(ls, i) : i \in T!Ends(ls)}
           deltas == {i \in T!Ends(ls) : T!Event(ls, i) = "message_delta" /\ T!Payloads(ls, i) # {}}
<1>1. ls \in Seq(Rows) /\ tracker.usage = u.usage
  BY UsageOfRead
<1> HIDE DEF ls
<1>2. TrackerSound(ls, u, n)
  BY <1>1, SoundAtLast
<1>3. \A e \in T!Ends(ls) : e <= n
  BY <1>1 DEF T!Ends
<1>4. {e \in T!Ends(ls) : e <= n} = T!Ends(ls)
  BY <1>3
<1>5. FoundTo(ls, n) = found
  BY <1>4 DEF FoundTo
<1>6. DeltasTo(ls, n) = deltas
  BY <1>3 DEF DeltasTo
<1>7. found \in SUBSET DataLines
  <2>1. \A k : T!Payloads(ls, k) \subseteq DataLines
    BY ParsedOne DEF T!Payloads
  <2> QED
    BY <2>1
<1> HIDE DEF found, deltas, u, n
<1>8. /\ IsTop(tracker.usage.input, Inputs(found)) /\ IsTop(tracker.usage.output, Outputs(found))
      /\ tracker.usage.deltas = Cardinality(deltas)
  BY <1>1, <1>2, <1>5, <1>6 DEF TrackerSound
<1>9. Inputs(found) \in SUBSET Int /\ Outputs(found) \in SUBSET Int
  BY <1>7, DataNumbers
<1>10. tracker.usage.input = T!Max(Inputs(found)) /\ tracker.usage.output = T!Max(Outputs(found))
  BY <1>8, <1>9, TopIs
<1>11. T!Cardinality(deltas) = Cardinality(deltas)
  BY DEF T!Cardinality, Cardinality
<1> QED
  BY <1>8, <1>10, <1>11 DEF T!UsageAnyChunking, Inputs, Outputs, found, deltas, ls
-----------------------------------------------------------------------------
(* The parts together: a step of the traffic is a step of one of them, and  *)
(* none of the others.                                                       *)

\* A step of any part is a step of each, or leaves it alone.
LEMMA StepsOfParts ==
  ASSUME [TrafficNext]_<<part, vars, usage, upstream, adapter, backoff, breaker, discovery,
                         window, cache>>
  PROVE  /\ [Next \/ LimiterNext]_vars /\ [U!Next]_(U!vars) /\ [B!Next]_(B!vars) /\ [S!Next]_(S!vars)
         /\ [D!Next]_(D!vars) /\ [W!Next]_(W!vars) /\ [C!Next]_(C!vars)
         /\ [F!Next]_(F!vars) /\ [T!Next]_(T!vars)
         /\ UNCHANGED part
<1>1. /\ UNCHANGED upstream => UNCHANGED U!vars
      /\ UNCHANGED backoff => UNCHANGED B!vars
      /\ UNCHANGED breaker => UNCHANGED S!vars
      /\ UNCHANGED discovery => UNCHANGED D!vars
      /\ UNCHANGED window => UNCHANGED W!vars
      /\ UNCHANGED cache => UNCHANGED C!vars
      /\ UNCHANGED adapter => UNCHANGED F!vars
      /\ UNCHANGED usage => UNCHANGED T!vars
  BY DEF upstream, backoff, breaker, discovery, window, cache, adapter, usage,
         U!vars, B!vars, S!vars, D!vars, W!vars, C!vars, F!vars, T!vars
<1>2. CASE TrafficNext
  <2>1. /\ Next \/ LimiterNext \/ UNCHANGED vars
        /\ U!Next \/ UNCHANGED upstream
        /\ B!Next \/ UNCHANGED backoff
        /\ S!Next \/ UNCHANGED breaker
        /\ D!Next \/ UNCHANGED discovery
        /\ W!Next \/ UNCHANGED window
        /\ C!Next \/ UNCHANGED cache
        /\ F!Next \/ UNCHANGED adapter
        /\ T!Next \/ UNCHANGED usage
        /\ UNCHANGED part
    BY <1>2 DEF TrafficNext
  <2> QED
    BY <1>1, <2>1
<1>3. CASE UNCHANGED <<part, vars, usage, upstream, adapter, backoff, breaker, discovery,
                       window, cache>>
  BY <1>1, <1>3
<1> QED
  BY <1>2, <1>3

\* What the parts' invariants say of a behaviour, whichever part runs.
TrafficInv ==
  CallsInv /\ UpstreamInv /\ BackoffInv /\ SyncInv /\ S!TypeOK /\ DiscoveryInv /\ WindowInv
  /\ CacheInv /\ AdapterInv /\ TrackerInv

\* Each part begins in its own initial state.
LEMMA TrafficInitially == TrafficInit => TrafficInv
<1>1. TrafficInit => Init /\ U!Init /\ B!Init /\ S!Init /\ D!Init /\ W!Init /\ C!Init
                    /\ F!Init /\ T!Init
  BY DEF TrafficInit
<1> QED
  BY <1>1, CallsInitially, UpstreamInitially, BackoffInitially, SyncInitially,
     SyncTypes, DiscoveryInitially, WindowInitially, CacheInitially, AdapterInitially,
     TrackerInitially DEF TrafficInv

\* Each part's steps keep its invariant.
LEMMA TrafficGoesOn ==
  TrafficInv /\ [TrafficNext]_<<part, vars, usage, upstream, adapter, backoff, breaker,
                                discovery, window, cache>> => TrafficInv'
BY StepsOfParts, CallsGoOn, AskingGoesOn, UpstreamGoesOn, BackoffGoesOn, SyncGoesOn, SyncTypes,
   DiscoveryGoesOn, WindowGoesOn, CacheGoesOn, AdapterGoesOn, TrackerGoesOn DEF TrafficInv

\* The delays and the calls fit into the budget.
LEMMA BackoffWithin == BackoffInv => B!WithinBudget
  BY DEF BackoffInv, Budget, BackoffTyped, B!WithinBudget

\* Whatever the invariant implies of every state holds in every state.
THEOREM TrafficInvariant == TrafficSpec => []TrafficInv
  BY TrafficInitially, TrafficGoesOn, PTL DEF TrafficSpec

\* The review's or the gateway's client is told the whole answer or of an error, at
\* any number of providers and retries, wherever the upstream breaks off.
THEOREM AnswersAreWhole == TrafficSpec => []WholeOrError
<1>1. TrafficInv => WholeOrError
  BY UpstreamWhole DEF TrafficInv, WholeOrError
<1> QED
  BY <1>1, TrafficInvariant, PTL

\* Retries end within the attempts, their timeouts and the delays configured, for any
\* configuration and whatever the jitter draws.
THEOREM RetriesStayWithin == TrafficSpec => []WithinBudget
<1>1. TrafficInv => WithinBudget
  BY BackoffWithin DEF TrafficInv, WithinBudget
<1> QED
  BY <1>1, TrafficInvariant, PTL

\* Any number of instances agree on a breaker once all changes were heard.
THEOREM PartsAgree == TrafficSpec => []AgreeWhenQuiet
<1>1. TrafficInv => AgreeWhenQuiet
  BY SyncAgrees DEF TrafficInv, AgreeWhenQuiet
<1> QED
  BY <1>1, TrafficInvariant, PTL

\* No window of the limiters lets more through than its rate and those whose member
\* was there already, for any window, rate and clock skew.
THEOREM WindowsHold == TrafficSpec => []WindowBound
<1>1. TrafficInv => WindowBound
  BY WindowIsBounded DEF TrafficInv, WindowBound
<1> QED
  BY <1>1, TrafficInvariant, PTL

\* Lookups cannot tell that rows were evicted, for any table size and similarity.
THEOREM EvictionsAreUnseen == TrafficSpec => []EvictionUnseen
<1>1. TrafficInv => EvictionUnseen
  BY CacheUnseen DEF TrafficInv, EvictionUnseen
<1> QED
  BY <1>1, TrafficInvariant, PTL

\* The texts of any conversation come through each adapter in order, none lost or
\* repeated, and each turn on its side.
THEOREM ConversationsAreKept == TrafficSpec => []ConversationIsKept
<1>1. TrafficInv => ConversationIsKept
  BY AdapterKeeps DEF TrafficInv, ConversationIsKept
<1> QED
  BY <1>1, TrafficInvariant, PTL

\* However a stream is cut into chunks and wherever it ends, the usage recorded is what
\* the events that came through whole say, and each delta was counted once.
THEOREM UsageIsTheEvents == TrafficSpec => []UsageAnyChunking
<1>1. TrafficInv => UsageAnyChunking
  BY TrackerCounts DEF TrafficInv, UsageAnyChunking
<1> QED
  BY <1>1, TrafficInvariant, PTL

\* Each part's state has its type, for any number of requests, replicas, rows and chunks.
THEOREM TrafficTypes == TrafficSpec => []TypesOK
<1>1. TrafficInv =>
        TypeOK /\ T!TypeOK /\ U!TypeOK /\ S!TypeOK /\ D!TypeOK /\ W!TypeOK /\ C!TypeOK
  BY DiscoveryIsTyped, WindowIsBounded, TrackerTyped
     DEF TrafficInv, CallsInv, IInv, UpstreamInv, CacheInv
<1>2. TrafficInv => TypesOK
  BY <1>1 DEF TypesOK
<1> QED
  BY <1>2, TrafficInvariant, PTL
=============================================================================
