----------------------------- MODULE LogStream -----------------------------
(***************************************************************************)
(* The request log on its way from the forward service to the database:    *)
(* XADD to a trimmed Redis stream (streams.go), a consumer group with its  *)
(* pending list, and log workers (logconsumer.go).  A worker runs two      *)
(* goroutines over the same handler: the read loop of Start, and           *)
(* recoverPending, which claims what has been pending too long, its own    *)
(* entries included.  Database, acknowledgements and replies may fail, and *)
(* a worker may stop between any two steps and be started again.           *)
(*                                                                         *)
(* Entries are numbered in the order of their stream IDs.  Time is only    *)
(* whether a pending entry has been idle for longer than minIdleTime.      *)
(***************************************************************************)
EXTENDS Integers, FiniteSets

CONSTANTS
  Workers,     \* worker processes, each with its ConsumerName
  MaxEntries,  \* bound: entries published
  MaxLen,      \* XAddArgs.MaxLen
  Count,       \* XReadGroupArgs.Count
  ListCount,   \* XPendingExtArgs.Count
  MaxFaults    \* bound: crashes, errors and lost replies

ASSUME StreamAssumption ==
  /\ MaxEntries \in Nat \ {0}
  /\ MaxLen \in Nat \ {0}
  /\ Count \in Nat \ {0} /\ ListCount \in Nat \ {0}
  /\ MaxFaults \in Nat

Threads == Workers \X {"read", "recover"}
Entries == 1 .. MaxEntries

VARIABLES
  published,  \* entries added to the stream so far
  first,      \* the oldest entry the stream still has
  delivered,  \* the group's last-delivered-id
  pending,    \* its pending entries list
  stale,      \* those of them idle for longer than minIdleTime
  rows,       \* rows of request_logs with each entry's ID
  work,       \* entries in a goroutine's hands: msgs or pending of its loop
  stage,      \* what it does next: claim, handle or acknowledge one of them
  faults      \* crashes, errors and lost replies so far

groupVars == <<delivered, pending, stale>>
vars == <<published, first, groupVars, rows, work, stage, faults>>

Fault == faults < MaxFaults /\ faults' = faults + 1

\* Loops range over their slice in the order of the IDs.
Current(t, i) == i \in work[t] /\ \A j \in work[t] : i <= j

\* A read loop goes on to handle its next message, a recover loop to claim it.
Start(t) == IF t[2] = "read" THEN "handle" ELSE "claim"

Proceed(t, to) == stage' = [stage EXCEPT ![t] = to] /\ UNCHANGED work
Finish(t, i) ==
  /\ work' = [work EXCEPT ![t] = @ \ {i}]
  /\ stage' = [stage EXCEPT ![t] = Start(t)]
Collect(t, ids) == work' = [work EXCEPT ![t] = ids] /\ UNCHANGED stage

----------------------------------------------------------------------------
\* PublishRequestLog.  MAXLEN ~ trims old entries, consumed or not, but keeps
\* MaxLen at least.

Trimmed(n) ==
  {f \in first .. MaxEntries : f = first \/ n - f + 1 >= MaxLen}

Publish ==
  /\ published < MaxEntries
  /\ published' = published + 1
  /\ first' \in Trimmed(published + 1)
  /\ UNCHANGED <<groupVars, rows, work, stage, faults>>

----------------------------------------------------------------------------
\* XREADGROUP with ">": the next Count entries of the stream become pending.

NextEntries ==
  {i \in delivered + 1 .. published :
     i >= first /\ Cardinality({j \in delivered + 1 .. i : j >= first}) <= Count}

Deliver ==
  /\ NextEntries # {}
  /\ pending' = pending \union NextEntries
  /\ delivered' \in NextEntries /\ \A i \in NextEntries : i <= delivered'
  /\ UNCHANGED <<published, first, stale, rows>>

Read(w) ==
  /\ work[<<w, "read">>] = {}
  /\ Deliver
  /\ Collect(<<w, "read">>, NextEntries)
  /\ UNCHANGED faults

\* The reply is lost: the entries are pending and nobody handles them.
ReadFails(w) ==
  /\ work[<<w, "read">>] = {}
  /\ Deliver
  /\ Fault
  /\ UNCHANGED <<work, stage>>

----------------------------------------------------------------------------
\* ClaimPendingMessages: XPENDING, which lists the ListCount oldest of the idle
\* entries, then XCLAIM entry by entry.

\* (Variant with a fault: the end of the range is exclusive.)
IdleEntriesButLast ==
  {i \in stale : i < delivered /\ Cardinality({j \in stale : j <= i}) <= ListCount}

IdleEntries == {i \in stale : Cardinality({j \in stale : j <= i}) <= ListCount}

List(w) ==
  LET t == <<w, "recover">>
  IN  /\ work[t] = {} /\ IdleEntries # {}
      /\ Collect(t, IdleEntries)
      /\ UNCHANGED <<published, first, groupVars, rows, faults>>

\* Claiming an entry makes it fresh.
Claim(t, i) ==
  /\ stage[t] = "claim" /\ Current(t, i)
  /\ i \in stale /\ i >= first
  /\ stale' = stale \ {i}
  /\ Proceed(t, "handle")
  /\ UNCHANGED <<published, first, delivered, pending, rows, faults>>

\* Somebody else acknowledged or claimed it, or the stream has lost it; newer
\* servers then drop it from the list.
ClaimNothing(t, i) ==
  /\ stage[t] = "claim" /\ Current(t, i)
  /\ i \notin stale \/ i < first
  /\ \/ UNCHANGED <<pending, stale>>
     \/ i < first /\ pending' = pending \ {i} /\ stale' = stale \ {i}
  /\ Finish(t, i)
  /\ UNCHANGED <<published, first, delivered, rows, faults>>

\* An error, before the script ran or after.
ClaimFails(t, i) ==
  /\ stage[t] = "claim" /\ Current(t, i)
  /\ Fault
  /\ stale' \in {stale, stale \ {i}}
  /\ Finish(t, i)
  /\ UNCHANGED <<published, first, delivered, pending, rows>>

----------------------------------------------------------------------------
\* handleMessage: the row's primary key is the entry's ID.

\* (Variant with a fault: rows get keys of their own.)
StoreWithOwnKey(t, i) ==
  /\ stage[t] = "handle" /\ Current(t, i)
  /\ rows' = [rows EXCEPT ![i] = @ + 1]
  /\ Proceed(t, "ack")
  /\ UNCHANGED <<published, first, groupVars, faults>>

Store(t, i) ==
  /\ stage[t] = "handle" /\ Current(t, i)
  /\ rows[i] = 0
  /\ rows' = [rows EXCEPT ![i] = 1]
  /\ Proceed(t, "ack")
  /\ UNCHANGED <<published, first, groupVars, faults>>

\* The row is there: an error like any other.  No ACK, the entry stays pending.
StoreTwice(t, i) ==
  /\ stage[t] = "handle" /\ Current(t, i)
  /\ rows[i] = 1
  /\ Finish(t, i)
  /\ UNCHANGED <<published, first, groupVars, rows, faults>>

\* (Variant with a fault: a message that failed is acknowledged.)
StoreFailsAcked(t, i) ==
  /\ stage[t] = "handle" /\ Current(t, i)
  /\ Fault
  /\ rows' \in {rows, [rows EXCEPT ![i] = 1]}
  /\ Proceed(t, "ack")
  /\ UNCHANGED <<published, first, groupVars>>

\* The database is down, or it wrote the row and the reply is lost.
StoreFails(t, i) ==
  /\ stage[t] = "handle" /\ Current(t, i)
  /\ Fault
  /\ rows' \in {rows, [rows EXCEPT ![i] = 1]}
  /\ Finish(t, i)
  /\ UNCHANGED <<published, first, groupVars>>

Ack(t, i) ==
  /\ stage[t] = "ack" /\ Current(t, i)
  /\ pending' = pending \ {i}
  /\ stale' = stale \ {i}
  /\ Finish(t, i)
  /\ UNCHANGED <<published, first, delivered, rows, faults>>

\* XACK's error is not looked at.
AckFails(t, i) ==
  /\ stage[t] = "ack" /\ Current(t, i)
  /\ Fault
  /\ Finish(t, i)
  /\ UNCHANGED <<published, first, groupVars, rows>>

----------------------------------------------------------------------------
\* minIdleTime passes over an entry, its handler finished or not.
Idle(i) ==
  /\ i \in pending \ stale
  /\ stale' = stale \union {i}
  /\ UNCHANGED <<published, first, delivered, pending, rows, work, stage,
                 faults>>

\* The process stops and is started again.
Crash(w) ==
  /\ Fault
  /\ work' = [t \in Threads |-> IF t[1] = w THEN {} ELSE work[t]]
  /\ stage' = [t \in Threads |-> IF t[1] = w THEN Start(t) ELSE stage[t]]
  /\ UNCHANGED <<published, first, groupVars, rows>>

----------------------------------------------------------------------------
Init ==
  /\ published = 0
  /\ first = 1
  /\ delivered = 0
  /\ pending = {}
  /\ stale = {}
  /\ rows = [i \in Entries |-> 0]
  /\ work = [t \in Threads |-> {}]
  /\ stage = [t \in Threads |-> Start(t)]
  /\ faults = 0

Handle(t, i) ==
  \/ Claim(t, i) \/ ClaimNothing(t, i) \/ ClaimFails(t, i)
  \/ Store(t, i) \/ StoreTwice(t, i) \/ StoreFails(t, i)
  \/ Ack(t, i) \/ AckFails(t, i)

Next ==
  \/ Publish
  \/ \E w \in Workers : Read(w) \/ ReadFails(w) \/ List(w) \/ Crash(w)
  \/ \E t \in Threads, i \in Entries : Handle(t, i)
  \/ \E i \in Entries : Idle(i)

Safety == Init /\ [][Next]_vars

\* Workers run on, idle time passes, and faults stop some day.
Fairness ==
  /\ \A i \in Entries : WF_vars(Idle(i))
  /\ \A w \in Workers : WF_vars(Read(w)) /\ WF_vars(List(w))
  /\ \A t \in Threads : WF_vars(\E i \in Entries : Handle(t, i))

Spec == Safety /\ Fairness

----------------------------------------------------------------------------
TypeOK ==
  /\ published \in 0 .. MaxEntries
  /\ first \in 1 .. MaxEntries
  /\ delivered \in 0 .. published
  /\ pending \subseteq 1 .. delivered
  /\ stale \subseteq pending
  /\ rows \in [Entries -> 0 .. 1]
  /\ work \in [Threads -> SUBSET Entries]
  /\ stage \in [Threads -> {"claim", "handle", "ack"}]
  /\ faults \in 0 .. MaxFaults

\* "XACK keeps messages from being lost": an entry that was delivered and is no
\* longer pending is in the database, unless the stream was trimmed past it,
\* whatever crashed or failed between its row and its acknowledgement.
AckedIsStored ==
  \A i \in 1 .. delivered : i \notin pending => rows[i] = 1 \/ i < first

\* Entries that no claim will take off the pending list: Insert refuses them
\* for their key, or the stream has lost them.
Stuck == {i \in pending : rows[i] = 1 \/ i < first}

\* The database reads as the abstract log: an entry is stored once and, but for
\* trimming, surely, as long as fewer older entries are stuck than one listing
\* has room for.  When ListCount of them are, XPENDING never gets past them.
Promise == INSTANCE LogSpec
  WITH added <- published, kept <- first,
       stored <- {i \in Entries : rows[i] > 0}
ImplementsLogSpec ==
  /\ Promise!Safety
  /\ \A i \in Entries :
       <>[](Cardinality({j \in Stuck : j < i}) < ListCount) => Promise!StoredSomeDay(i)

\* "Messages left in the pending list are taken over": every entry the stream
\* still has is stored some day.  It is not behind ListCount stuck ones.
AllAreStored == Promise!Spec

\* "Consumer group, ACK, dead letters: idempotent consumption": an entry does
\* not stay in the pending list for ever.  One that is redelivered after its
\* row was written does: Insert fails on the key each time.
PendingIsDrained == \A i \in Entries : i \in pending ~> i \notin pending
=============================================================================
