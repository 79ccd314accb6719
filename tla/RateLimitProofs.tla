-------------------------- MODULE RateLimitProofs --------------------------
(***************************************************************************)
(* Proofs about RateLimit for any keys, callers, rate, capacity, ttl and   *)
(* any length of time.  A bucket's tokens and what it let through are paid *)
(* for by the time up to lastRefill; within one instant it is refilled     *)
(* once; and the bucket a caller is about to insert is nobody else's.      *)
(***************************************************************************)
EXTENDS RateLimit, TLAPS

\* Callers at work have a key and a bucket.
Busy ==
  \A c \in Callers : stage[c] # "idle" => key[c] \in Keys /\ mine[c] \in Buckets

\* A new bucket is its builder's alone until it is inserted.
Private ==
  \A c \in Callers :
    stage[c] = "insert" =>
      /\ \A k \in Keys : data[k] # mine[c]
      /\ \A d \in Callers \ {c} : mine[d] # mine[c]
      /\ mine[c] \notin retired

\* Tokens, spent or not, are paid for by the time up to lastRefill.
Paid ==
  \A b \in Buckets :
    (passed[b] + tokens[b] - Capacity) * FillInterval <= lastRefill[b] - born[b]

\* A bucket refilled at this instant owes less than a FillInterval.
Bursting ==
  \A b \in Buckets :
    \/ burst[b] + tokens[b] <= Capacity
    \/ /\ burst[b] + tokens[b] <= 2 * Capacity
       /\ now - lastRefill[b] < FillInterval

\* An entry is no older than its bucket.
Aging ==
  \A k \in Keys : data[k] # NoBucket => born[data[k]] <= lastAccess[k]

IInv == TypeOK /\ Busy /\ Private /\ HeldIsShared /\ Paid /\ Bursting /\ Aging

\* A quotient and what remains.
LEMMA Quotient ==
  ASSUME NEW n \in Nat
  PROVE  /\ n \div FillInterval \in Nat
         /\ (n \div FillInterval) * FillInterval <= n
         /\ n - (n \div FillInterval) * FillInterval < FillInterval
BY RateLimitAssumption DEF RateLimitAssumption

\* With n tokens paid for, m more cost m intervals.
LEMMA Pay ==
  ASSUME NEW n \in Int, NEW m \in Nat, NEW r \in Int, n * FillInterval <= r
  PROVE  (n + m) * FillInterval <= r + m * FillInterval
<1>1. FillInterval \in Nat
  BY RateLimitAssumption DEF RateLimitAssumption
<1>2. (n + m) * FillInterval = n * FillInterval + m * FillInterval
  BY <1>1
<1>3. n * FillInterval \in Int /\ m * FillInterval \in Int
  BY <1>1
<1> QED
  BY <1>2, <1>3

\* Fewer tokens cost less.
LEMMA Cheaper ==
  ASSUME NEW n \in Int, NEW m \in Int, m <= n
  PROVE  m * FillInterval <= n * FillInterval
<1>1. FillInterval \in Nat
  BY RateLimitAssumption DEF RateLimitAssumption
<1>2. PICK d \in Nat : n = m + d
  BY n - m \in Nat
<1>3. n * FillInterval = m * FillInterval + d * FillInterval
  BY <1>1, <1>2
<1>4. d * FillInterval \in Nat /\ m * FillInterval \in Int
  BY <1>1
<1> QED
  BY <1>3, <1>4

LEMMA PeriodType == Period \in Nat \ {0}
BY RateLimitAssumption DEF RateLimitAssumption, Period

LEMMA InitIInv == Init => IInv
<1> SUFFICES ASSUME Init PROVE IInv
  OBVIOUS
<1> USE RateLimitAssumption DEF RateLimitAssumption, Init
<1>1. TypeOK
  BY PeriodType DEF TypeOK
<1>2. Busy /\ Private /\ HeldIsShared
  BY DEF Busy, Private, HeldIsShared
<1>3. Paid
  BY DEF Paid
<1>4. Bursting /\ Aging
  BY DEF Bursting, Aging
<1> QED
  BY <1>1, <1>2, <1>3, <1>4 DEF IInv

\* A new bucket is full, and nobody's before.
LEMMA BuildIInv ==
  ASSUME IInv, NEW b \in Buckets, Build(b), UNCHANGED now
  PROVE  /\ Unreachable(b)
         /\ tokens' \in [Buckets -> 0 .. Capacity]
         /\ lastRefill' \in [Buckets -> 0 .. now]
         /\ born' \in [Buckets -> 0 .. now]
         /\ passed' \in [Buckets -> Nat] /\ burst' \in [Buckets -> Nat]
         /\ born'[b] = now /\ \A d \in Buckets \ {b} : born'[d] = born[d]
         /\ Paid' /\ Bursting'
<1> USE RateLimitAssumption DEF RateLimitAssumption, IInv, TypeOK, Build
<1>1. /\ tokens'[b] = Capacity /\ lastRefill'[b] = now /\ born'[b] = now
      /\ passed'[b] = 0 /\ burst'[b] = 0
  OBVIOUS
<1>2. \A d \in Buckets \ {b} :
        /\ tokens'[d] = tokens[d] /\ lastRefill'[d] = lastRefill[d]
        /\ born'[d] = born[d] /\ passed'[d] = passed[d] /\ burst'[d] = burst[d]
  OBVIOUS
<1>3. Paid'
  <2>1. (passed'[b] + tokens'[b] - Capacity) * FillInterval <= lastRefill'[b] - born'[b]
    <3>1. passed'[b] + tokens'[b] - Capacity = 0 /\ lastRefill'[b] - born'[b] = 0
      BY <1>1
    <3> QED
      BY <3>1
  <2> QED
    BY <1>2, <2>1 DEF Paid
<1>4. Bursting'
  <2>1. burst'[b] + tokens'[b] <= Capacity
    BY <1>1
  <2> QED
    BY <1>2, <2>1 DEF Bursting
<1>5. /\ tokens' \in [Buckets -> 0 .. Capacity]
      /\ lastRefill' \in [Buckets -> 0 .. now]
      /\ born' \in [Buckets -> 0 .. now]
      /\ passed' \in [Buckets -> Nat] /\ burst' \in [Buckets -> Nat]
  OBVIOUS
<1> QED
  BY <1>1, <1>2, <1>3, <1>4, <1>5

LEMMA LoadHitIInv ==
  ASSUME IInv, NEW c \in Callers, NEW k \in Keys, LoadHit(c, k)
  PROVE  IInv'
<1> USE RateLimitAssumption DEF RateLimitAssumption, IInv, LoadHit, Hand
<1>1. TypeOK' /\ Busy'
  BY DEF TypeOK, Busy, storeVars, bucketVars, evictVars
<1>2. Private' /\ HeldIsShared'
  BY DEF TypeOK, Busy, Private, HeldIsShared, storeVars
<1>3. Paid' /\ Bursting' /\ Aging'
  BY DEF Paid, Bursting, Aging, storeVars, bucketVars
<1> QED
  BY <1>1, <1>2, <1>3

LEMMA LoadMissIInv ==
  ASSUME IInv, NEW c \in Callers, NEW k \in Keys, LoadMiss(c, k)
  PROVE  IInv'
<1> USE DEF IInv
<1>1. PICK b \in Buckets :
        Build(b) /\ Hand(c, "insert", k, b) /\ retired' = retired \ {b}
  BY DEF LoadMiss
<1>2. UNCHANGED <<now, data, lastAccess, evictVars>>
  BY DEF LoadMiss
<1>3. /\ Unreachable(b)
      /\ tokens' \in [Buckets -> 0 .. Capacity]
      /\ lastRefill' \in [Buckets -> 0 .. now]
      /\ born' \in [Buckets -> 0 .. now]
      /\ passed' \in [Buckets -> Nat] /\ burst' \in [Buckets -> Nat]
      /\ \A d \in Buckets \ {b} : born'[d] = born[d]
      /\ Paid' /\ Bursting'
  BY <1>1, <1>2, BuildIInv
<1>4. TypeOK' /\ Busy'
  BY <1>1, <1>2, <1>3 DEF TypeOK, Busy, Hand, evictVars
<1>5. Private'
  BY <1>1, <1>2, <1>3 DEF TypeOK, Private, Hand, Unreachable
<1>6. HeldIsShared'
  BY <1>1, <1>2, <1>3 DEF TypeOK, HeldIsShared, Hand, Unreachable
<1>7. Aging'
  BY <1>1, <1>2, <1>3 DEF TypeOK, Aging, Unreachable
<1> QED
  BY <1>3, <1>4, <1>5, <1>6, <1>7

LEMMA InsertIInv ==
  ASSUME IInv, NEW c \in Callers, Insert(c)
  PROVE  IInv'
<1> USE RateLimitAssumption DEF RateLimitAssumption, IInv
<1>1. /\ stage[c] = "insert" /\ key[c] \in Keys /\ mine[c] \in Buckets
      /\ UNCHANGED <<now, bucketVars, evictVars, retired>>
  BY DEF Insert, Busy, storeVars
<1>2. Paid' /\ Bursting'
  BY <1>1 DEF Paid, Bursting, bucketVars
<1>3. CASE /\ data[key[c]] # NoBucket
           /\ Hand(c, "allow", key[c], data[key[c]])
           /\ UNCHANGED storeVars
  <2>1. TypeOK' /\ Busy'
    BY <1>1, <1>3 DEF TypeOK, Busy, Hand, storeVars, bucketVars, evictVars
  <2>2. Private' /\ HeldIsShared'
    BY <1>1, <1>3 DEF TypeOK, Busy, Private, HeldIsShared, Hand, storeVars
  <2>3. Aging'
    BY <1>1, <1>3 DEF Aging, storeVars, bucketVars
  <2> QED
    BY <1>2, <2>1, <2>2, <2>3
<1>4. CASE /\ data[key[c]] = NoBucket
           /\ Put(key[c], mine[c])
           /\ Hand(c, "allow", key[c], mine[c])
  <2>1. TypeOK' /\ Busy'
    BY <1>1, <1>4 DEF TypeOK, Busy, Hand, Put, bucketVars, evictVars
  <2>2. Private'
    BY <1>1, <1>4 DEF TypeOK, Private, Hand, Put
  <2>3. HeldIsShared'
    BY <1>1, <1>4 DEF TypeOK, Busy, HeldIsShared, Hand, Put
  <2>4. Aging'
    BY <1>1, <1>4 DEF TypeOK, Aging, Put, bucketVars
  <2> QED
    BY <1>2, <2>1, <2>2, <2>3, <2>4
<1> QED
  BY <1>3, <1>4 DEF Insert

\* A request is let through on a token, or on tokens just paid for, or not.
LEMMA AllowBucket ==
  ASSUME IInv, NEW b \in Buckets, UNCHANGED now,
         FastPath(b) \/ SlowPath(b) \/ Limit(b)
  PROVE  /\ tokens' \in [Buckets -> 0 .. Capacity]
         /\ lastRefill' \in [Buckets -> 0 .. now]
         /\ passed' \in [Buckets -> Nat] /\ burst' \in [Buckets -> Nat]
         /\ UNCHANGED born
         /\ Paid' /\ Bursting'
<1> USE RateLimitAssumption DEF RateLimitAssumption, IInv, TypeOK
<1>1. CASE FastPath(b)
  <2> USE <1>1 DEF FastPath, Pass
  <2>1. Paid'
    <3> SUFFICES ASSUME NEW d \in Buckets
                 PROVE  (passed'[d] + tokens'[d] - Capacity) * FillInterval
                          <= lastRefill'[d] - born'[d]
      BY DEF Paid
    <3>1. passed'[d] + tokens'[d] - Capacity = passed[d] + tokens[d] - Capacity
      OBVIOUS
    <3> QED
      BY <3>1 DEF Paid
  <2>2. Bursting'
    BY DEF Bursting
  <2> QED
    BY <2>1, <2>2
<1>2. CASE SlowPath(b)
  <2> DEFINE n == TokensToAdd(b)
             e == now - lastRefill[b]
  <2>1. n \in Nat \ {0} /\ n * FillInterval <= e /\ e - n * FillInterval < FillInterval
        /\ n * FillInterval \in Nat
    <3>1. e \in Nat
      OBVIOUS
    <3>2. n = e \div FillInterval
      BY DEF TokensToAdd
    <3>3. n \in Nat /\ n * FillInterval <= e /\ e - n * FillInterval < FillInterval
      BY <3>1, <3>2, Quotient
    <3> HIDE DEF n, e
    <3>4. n * FillInterval \in Nat
      BY <3>3
    <3>5. n # 0
      BY <1>2 DEF SlowPath, n
    <3> QED
      BY <3>3, <3>4, <3>5
  <2>2. /\ tokens[b] = 0
        /\ lastRefill' = [lastRefill EXCEPT ![b] = @ + n * FillInterval]
        /\ tokens' = [tokens EXCEPT ![b] = Capped(n) - 1]
        /\ passed' = [passed EXCEPT ![b] = @ + 1]
        /\ burst' = [burst EXCEPT ![b] = @ + 1]
        /\ UNCHANGED born
    BY <1>2 DEF SlowPath, Pass
  <2> HIDE DEF n
  <2>3. Capped(n) \in 1 .. Capacity /\ Capped(n) <= n
    BY <2>1 DEF Capped
  <2>4. Paid'
    <3>1. (passed'[b] + tokens'[b] - Capacity) * FillInterval
             <= lastRefill'[b] - born'[b]
      <4> DEFINE p == passed[b] + tokens[b] - Capacity
                 q == passed'[b] + tokens'[b] - Capacity
                 r == lastRefill[b] - born[b]
      <4>1. p * FillInterval <= r /\ p \in Int /\ r \in Int
        BY DEF Paid
      <4>2. q \in Int /\ q <= p + n
        BY <2>1, <2>2, <2>3
      <4>3. lastRefill'[b] - born'[b] = r + n * FillInterval
        BY <2>1, <2>2
      <4> HIDE DEF p, q, r
      <4>4. (p + n) * FillInterval <= r + n * FillInterval
        BY <2>1, <4>1, Pay
      <4>5. q * FillInterval <= (p + n) * FillInterval
        BY <2>1, <4>1, <4>2, Cheaper
      <4>6. q * FillInterval \in Int /\ (p + n) * FillInterval \in Int
        BY <2>1, <4>1, <4>2
      <4>7. q * FillInterval <= r + n * FillInterval
        BY <2>1, <4>1, <4>4, <4>5, <4>6
      <4> QED
        BY <4>3, <4>7 DEF q
    <3>2. \A d \in Buckets \ {b} :
            passed'[d] + tokens'[d] - Capacity = passed[d] + tokens[d] - Capacity
            /\ lastRefill'[d] - born'[d] = lastRefill[d] - born[d]
      BY <2>2
    <3> QED
      BY <3>1, <3>2 DEF Paid
  <2>5. Bursting'
    <3>1. burst[b] <= Capacity
      <4>1. 1 * FillInterval <= n * FillInterval
        BY <2>1, Cheaper
      <4>2. FillInterval <= e
        BY <2>1, <4>1
      <4> QED
        BY <2>2, <4>2 DEF Bursting
    <3>2. burst'[b] + tokens'[b] <= 2 * Capacity
          /\ now - lastRefill'[b] < FillInterval
      BY <2>1, <2>2, <2>3, <3>1
    <3> QED
      BY <2>2, <3>2 DEF Bursting
  <2>6. lastRefill' \in [Buckets -> 0 .. now]
    BY <2>1, <2>2
  <2>7. tokens' \in [Buckets -> 0 .. Capacity]
    BY <2>2, <2>3
  <2> QED
    BY <2>2, <2>4, <2>5, <2>6, <2>7
<1>3. CASE Limit(b)
  BY <1>3 DEF Limit, bucketVars, Paid, Bursting
<1> QED
  BY <1>1, <1>2, <1>3

LEMMA AllowIInv ==
  ASSUME IInv, NEW c \in Callers, Allow(c)
  PROVE  IInv'
<1> USE DEF IInv
<1>1. /\ mine[c] \in Buckets
      /\ FastPath(mine[c]) \/ SlowPath(mine[c]) \/ Limit(mine[c])
      /\ Hand(c, "idle", NoKey, NoBucket)
      /\ UNCHANGED <<now, storeVars, evictVars>>
  BY DEF Allow, Busy
<1>2. /\ tokens' \in [Buckets -> 0 .. Capacity]
      /\ lastRefill' \in [Buckets -> 0 .. now]
      /\ passed' \in [Buckets -> Nat] /\ burst' \in [Buckets -> Nat]
      /\ UNCHANGED born
      /\ Paid' /\ Bursting'
  BY <1>1, AllowBucket
<1>3. TypeOK' /\ Busy'
  BY <1>1, <1>2 DEF TypeOK, Busy, Hand, storeVars, evictVars
<1>4. Private'
  BY <1>1, RateLimitAssumption DEF RateLimitAssumption, TypeOK, Busy, Private, Hand, storeVars
<1>5. HeldIsShared' /\ Aging'
  BY <1>1, <1>2 DEF TypeOK, HeldIsShared, Aging, Hand, storeVars
<1> QED
  BY <1>2, <1>3, <1>4, <1>5

LEMMA StoreIInv ==
  ASSUME IInv, NEW k \in Keys, Store(k)
  PROVE  IInv'
<1> USE DEF IInv
<1>1. PICK b \in Buckets :
        /\ Build(b) /\ Put(k, b)
        /\ retired' = (retired \union {data[k]}) \ {b, NoBucket}
  BY DEF Store
<1>2. UNCHANGED <<now, callerVars, evictVars>>
  BY DEF Store
<1>3. /\ Unreachable(b)
      /\ tokens' \in [Buckets -> 0 .. Capacity]
      /\ lastRefill' \in [Buckets -> 0 .. now]
      /\ born' \in [Buckets -> 0 .. now]
      /\ passed' \in [Buckets -> Nat] /\ burst' \in [Buckets -> Nat]
      /\ born'[b] = now /\ \A d \in Buckets \ {b} : born'[d] = born[d]
      /\ Paid' /\ Bursting'
  BY <1>1, <1>2, BuildIInv
<1>4. TypeOK' /\ Busy'
  BY <1>1, <1>2, <1>3 DEF TypeOK, Busy, Put, callerVars, evictVars
<1>5. Private'
  BY <1>1, <1>2, <1>3 DEF TypeOK, Private, Put, Unreachable, callerVars
<1>6. HeldIsShared'
  BY <1>1, <1>2, <1>3, RateLimitAssumption
     DEF RateLimitAssumption, TypeOK, Busy, HeldIsShared, Put, Unreachable, callerVars
<1>7. Aging'
  BY <1>1, <1>2, <1>3 DEF TypeOK, Aging, Put, Unreachable
<1> QED
  BY <1>3, <1>4, <1>5, <1>6, <1>7

LEMMA EvictorIInv ==
  ASSUME IInv, ReceiveTick \/ \E k \in Keys : Evict(k)
  PROVE  IInv'
<1> USE DEF IInv
<1>1. CASE ReceiveTick
  <2>1. TypeOK'
    <3>1. nextTick' \in Nat
      <4>1. now \div Period + 1 \in Nat
        BY PeriodType DEF TypeOK
      <4> QED
        BY <1>1, <4>1, PeriodType DEF ReceiveTick
    <3> QED
      BY <1>1, <3>1 DEF ReceiveTick, TypeOK, storeVars, bucketVars, callerVars
  <2>2. Busy' /\ Private' /\ HeldIsShared' /\ Paid' /\ Bursting' /\ Aging'
    BY <1>1 DEF ReceiveTick, storeVars, bucketVars, callerVars,
                Busy, Private, HeldIsShared, Paid, Bursting, Aging
  <2> QED
    BY <2>1, <2>2
<1>2. ASSUME NEW k \in Keys, Evict(k) PROVE IInv'
  <2>1. /\ scan' = scan \ {k}
        /\ UNCHANGED <<now, lastAccess, bucketVars, callerVars, nextTick, tickTime>>
        /\ \/ /\ data[k] # NoBucket
              /\ data' = [data EXCEPT ![k] = NoBucket]
              /\ retired' = retired \union {data[k]}
           \/ UNCHANGED <<data, retired>>
    BY <1>2 DEF Evict, Expired, storeVars
  <2>2. TypeOK' /\ Busy'
    BY <2>1 DEF TypeOK, Busy, bucketVars, callerVars
  <2>3. Private'
    BY <2>1, RateLimitAssumption
       DEF RateLimitAssumption, TypeOK, Busy, Private, callerVars
  <2>4. HeldIsShared'
    BY <2>1 DEF TypeOK, Busy, HeldIsShared, callerVars
  <2>5. Paid' /\ Bursting' /\ Aging'
    BY <2>1 DEF TypeOK, Paid, Bursting, Aging, bucketVars
  <2> QED
    BY <2>2, <2>3, <2>4, <2>5
<1> QED
  BY <1>1, <1>2

LEMMA TickIInv == IInv /\ Tick => IInv'
<1> SUFFICES ASSUME IInv, Tick PROVE IInv'
  OBVIOUS
<1> USE DEF IInv, Tick
<1>1. TypeOK'
  BY RateLimitAssumption
     DEF RateLimitAssumption, TypeOK, storeVars, callerVars, evictVars
<1>2. Busy' /\ Private' /\ HeldIsShared' /\ Paid' /\ Aging'
  BY DEF Busy, Private, HeldIsShared, Paid, Aging, storeVars, callerVars
<1>3. Bursting'
  BY RateLimitAssumption DEF RateLimitAssumption, TypeOK, Bursting
<1> QED
  BY <1>1, <1>2, <1>3

LEMMA NextIInv == IInv /\ [Next]_vars => IInv'
<1> SUFFICES ASSUME IInv, [Next]_vars PROVE IInv'
  OBVIOUS
<1>1. ASSUME NEW c \in Callers, Load(c) \/ Allow(c) PROVE IInv'
  BY <1>1, LoadHitIInv, LoadMissIInv, InsertIInv, AllowIInv DEF Load
<1>2. ASSUME NEW k \in Keys, Store(k) \/ Evict(k) PROVE IInv'
  BY <1>2, StoreIInv, EvictorIInv
<1>3. CASE ReceiveTick \/ Tick
  BY <1>3, EvictorIInv, TickIInv
<1>4. CASE UNCHANGED vars
  BY <1>4 DEF vars, storeVars, bucketVars, callerVars, evictVars, IInv, TypeOK,
              Busy, Private, HeldIsShared, Paid, Bursting, Aging
<1> QED
  BY <1>1, <1>2, <1>3, <1>4 DEF Next

THEOREM Invariance == Spec => []IInv
BY InitIInv, NextIInv, PTL DEF Spec

\* Types: tokens never exceed the capacity, and lastRefill, which moves by
\* whole intervals, never overtakes the clock.
THEOREM Types == Spec => []TypeOK
BY Invariance, PTL DEF IInv

\* Whatever the capacity, the rate and the pattern of requests, a bucket lets
\* through no more than its capacity and one request per FillInterval.
THEOREM WithinRate == Spec => []RateBound
<1>1. IInv => RateBound
  <2> SUFFICES ASSUME IInv, NEW b \in Buckets
               PROVE  (passed[b] - Capacity) * FillInterval <= now - born[b]
    BY DEF RateBound
  <2> USE RateLimitAssumption DEF RateLimitAssumption, IInv, TypeOK
  <2> DEFINE p == passed[b] - Capacity
             q == passed[b] + tokens[b] - Capacity
  <2>1. p \in Int /\ q \in Int /\ p <= q
    OBVIOUS
  <2>2. q * FillInterval <= lastRefill[b] - born[b]
    BY DEF Paid
  <2> HIDE DEF p, q
  <2>3. p * FillInterval <= q * FillInterval
    BY <2>1, Cheaper
  <2>4. p * FillInterval \in Int /\ q * FillInterval \in Int
    BY <2>1
  <2>5. lastRefill[b] - born[b] <= now - born[b]
        /\ lastRefill[b] - born[b] \in Int /\ now - born[b] \in Int
    OBVIOUS
  <2>6. p * FillInterval <= now - born[b]
    BY <2>2, <2>3, <2>4, <2>5
  <2> QED
    BY <2>6 DEF p
<1> QED
  BY <1>1, Invariance, PTL

\* At one instant a bucket never lets through more than twice its capacity.
THEOREM WithinTwiceCapacity == Spec => []BurstBound
<1>1. IInv => BurstBound
  BY RateLimitAssumption DEF RateLimitAssumption, IInv, TypeOK, Bursting, BurstBound
<1> QED
  BY <1>1, Invariance, PTL

\* Rate and burst together, for every capacity and interval.
THEOREM FlowIsBounded == Spec => []FlowBound
BY WithinRate, WithinTwiceCapacity, PTL DEF FlowBound

\* However Loads of a key interleave, their callers share one bucket, as long
\* as it is neither evicted nor replaced.
THEOREM Sharing == Spec => []HeldIsShared
BY Invariance, PTL DEF IInv

\* An eviction is later than TTL after the making of the bucket.
LEMMA EvictsLate == ASSUME IInv, [Next]_vars PROVE EvictedLate
<1> SUFFICES ASSUME NEW k \in Keys, data[k] # NoBucket, data'[k] = NoBucket
             PROVE  now - born[data[k]] > TTL
  BY DEF EvictedLate
<1> USE RateLimitAssumption DEF RateLimitAssumption, IInv, TypeOK
<1>1. PICK j \in Keys : Evict(j) /\ j = k
  <2>1. \A c \in Callers : ~Load(c) /\ ~Allow(c)
    BY DEF Load, LoadHit, LoadMiss, Insert, Put, Allow, Busy, storeVars
  <2>2. \A j \in Keys : ~Store(j)
    BY DEF Store, Put
  <2>3. ~ReceiveTick /\ ~Tick /\ ~UNCHANGED vars
    BY DEF ReceiveTick, Tick, vars, storeVars
  <2>4. PICK j \in Keys : Evict(j)
    BY <2>1, <2>2, <2>3 DEF Next
  <2> QED
    BY <2>4 DEF Evict, storeVars
<1>2. tickTime - lastAccess[k] > TTL
  BY <1>1 DEF Evict, Expired, storeVars
<1>3. born[data[k]] <= lastAccess[k] /\ data[k] \in Buckets
  BY DEF Aging
<1> QED
  BY <1>2, <1>3

\* However late and stale the tick, no bucket is evicted within TTL of its
\* creation.
THEOREM Survival == Spec => SurvivesTTL
BY EvictsLate, Invariance, PTL DEF Spec, SurvivesTTL

\* Sharing and survival together.
THEOREM BucketsAreKept == Spec => BucketsKept
<1>1. IInv /\ IInv' /\ [Next]_vars => HeldIsShared' /\ EvictedLate
  BY EvictsLate DEF IInv
<1> QED
  BY <1>1, Invariance, PTL DEF Spec, BucketsKept
=============================================================================
