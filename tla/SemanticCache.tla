--------------------------- MODULE SemanticCache ---------------------------
(***************************************************************************)
(* The semantic cache: semcache.Service over the table semantic_cache.     *)
(* Storing an answer stamps it with the clock and then, in one             *)
(* transaction, inserts it and evicts the oldest rows beyond maxEntries; a *)
(* lookup goes through the newest maxEntries rows for the most similar     *)
(* prompt.  Embeddings are a table of similarities between prompts; an     *)
(* embedding that fails ends the call before it does anything.             *)
(***************************************************************************)
EXTENDS Integers, FiniteSets, FiniteSetsExt

CONSTANTS
  Prompts,
  Similarity(_, _),  \* of two prompts
  Threshold,         \* what a similarity must exceed
  MaxEntries,
  Ttl,               \* age at which EvictExpired deletes (24 h)
  Handlers,
  None,
  MaxStores,         \* bound on calls of Store
  MaxLookups,        \* bound on counted lookups
  MaxTime            \* bound on the clock

VARIABLES
  now,
  rows,       \* semantic_cache: [id, prompt, at]
  handler,    \* handler -> the row it is about to insert, or None
  stores,     \* calls of Store so far; a row's id is its number among them
  hits, misses,   \* rows of sem_cache_stats
  kept        \* history: every row committed and neither cleared nor expired

vars == <<now, rows, handler, stores, hits, misses, kept>>

\* Sets of n rows of S (all of S if it has no more) that a LIMIT may select,
\* going by age; equal stamps come in any order.
Newest(S, n) ==
  {T \in SUBSET S :
     /\ Cardinality(T) = Min({n, Cardinality(S)})
     /\ \A t \in T, r \in S \ T : r.at <= t.at}

\* (Variants with a fault: one row too few is kept, or the newest are evicted.)
RemainingOffByOne(S) == Newest(S, MaxEntries - 1)

RemainingOldest(S) ==
  {T \in SUBSET S :
     /\ Cardinality(T) = Min({MaxEntries, Cardinality(S)})
     /\ \A t \in T, r \in S \ T : t.at <= r.at}

\* Insert: what the transaction may leave of the rows.
Remaining(S) == Newest(S, MaxEntries)

\* Store: the embedding is there and the transaction begun; time.Now() is read.
Stamp(h, p) ==
  /\ handler[h] = None
  /\ stores < MaxStores
  /\ stores' = stores + 1
  /\ handler' = [handler EXCEPT ![h] = [id |-> stores', prompt |-> p, at |-> now]]
  /\ UNCHANGED <<now, rows, hits, misses, kept>>

\* The errors of counting and deleting are not looked at: the row is committed
\* without making room.
Insert(h) ==
  /\ handler[h] # None
  /\ LET all == rows \union {handler[h]}
     IN  \/ rows' \in Remaining(all)
         \/ rows' = all
  /\ kept' = kept \union {handler[h]}
  /\ handler' = [handler EXCEPT ![h] = None]
  /\ UNCHANGED <<now, stores, hits, misses>>

\* The database is busy: the transaction is rolled back and the answer not cached.
InsertFails(h) ==
  /\ handler[h] # None
  /\ handler' = [handler EXCEPT ![h] = None]
  /\ UNCHANGED <<now, rows, stores, hits, misses, kept>>

\* FindSimilar among the rows of S: none, unless one is similar enough.
Best(S, p) ==
  LET similar == {r \in S : Similarity(p, r.prompt) > Threshold}
  IN  IF similar = {} THEN {None}
      ELSE {r \in similar : \A q \in similar : Similarity(p, q.prompt) <= Similarity(p, r.prompt)}

\* What a lookup of p may answer, going through the newest rows of S.
Answers(S, p) == UNION {Best(T, p) : T \in Newest(S, MaxEntries)}

\* The lookup is counted, unless that statement fails.
Lookup(p) ==
  /\ hits + misses < MaxLookups
  /\ \E r \in Answers(rows, p) :
       IF r # None THEN hits' = hits + 1 /\ UNCHANGED misses
                   ELSE misses' = misses + 1 /\ UNCHANGED hits
  /\ UNCHANGED <<now, rows, handler, stores, kept>>

\* Nothing in the services calls it, so that nothing expires there.
EvictExpired ==
  /\ rows' = {r \in rows : r.at >= now - Ttl}
  /\ kept' = {r \in kept : r.at >= now - Ttl}
  /\ UNCHANGED <<now, handler, stores, hits, misses>>

Clear ==
  /\ rows' = {} /\ kept' = {}
  /\ UNCHANGED <<now, handler, stores, hits, misses>>

Tick ==
  /\ now < MaxTime
  /\ now' = now + 1
  /\ UNCHANGED <<rows, handler, stores, hits, misses, kept>>

Init ==
  /\ now = 0
  /\ rows = {} /\ kept = {}
  /\ handler = [h \in Handlers |-> None]
  /\ stores = 0 /\ hits = 0 /\ misses = 0

Next ==
  \/ \E h \in Handlers :
       \/ \E p \in Prompts : Stamp(h, p)
       \/ Insert(h) \/ InsertFails(h)
  \/ \E p \in Prompts : Lookup(p)
  \/ EvictExpired \/ Clear \/ Tick

Spec == Init /\ [][Next]_vars

-----------------------------------------------------------------------------
(* Properties *)

Entries == [id : 1..MaxStores, prompt : Prompts, at : 0..MaxTime]

\* The table and the handlers' rows are well formed.
TypeOK ==
  /\ now \in 0..MaxTime /\ stores \in 0..MaxStores
  /\ rows \subseteq kept /\ kept \subseteq Entries
  /\ handler \in [Handlers -> Entries \union {None}]
  /\ hits + misses \in 0..MaxLookups

\* Insert and FindSimilar: in whatever order stamped rows are committed, and
\* whichever evictions fail, a lookup answers as if nothing had ever been evicted:
\* the table keeps the newest rows, which are those it looks at.
EvictionUnseen == \A p \in Prompts : Answers(rows, p) \subseteq Answers(kept, p)
=============================================================================
