----------------------------- MODULE Dashboard -----------------------------
(***************************************************************************)
(* The dashboard's API over its SQLite database: the tree of intents, with *)
(* the reload of the router after each change.  Every SQL statement is a   *)
(* step of its own, and so is every round of the search that collects a    *)
(* subtree.                                                                *)
(*                                                                         *)
(* A row of intent_nodes keeps what routing depends on: its parent, and    *)
(* whether it routes (level 2, enabled, with a provider).                   *)
(***************************************************************************)
EXTENDS Integers, Sequences, FiniteSets

CONSTANTS
  Codes,        \* intent codes
  None,         \* no row, no parent
  Bodies,       \* the rows a request may carry
  Seed,         \* the default tree, in the order it is inserted: <<code, row>>
  Handlers,     \* goroutines of the HTTP server
  MaxWrites,    \* bound: writing requests
  MaxCrashes    \* bound: restarts of the process

Rows == [parent : Codes \union {None}, routes : BOOLEAN]

VARIABLES
  table,     \* intent_nodes: code -> row or None
  list,      \* the codes the router matches against
  handler,   \* handler -> what its request has done so far
  boot,      \* start-up: Count, the seed row to insert next, or Up
  writes,    \* writing requests so far (bound)
  crashes,   \* restarts so far (bound)
  due        \* history: handler -> rows under the root it deletes, as long as
             \* nobody touches them and no reading breaks off above them

vars == <<table, list, handler, boot, writes, crashes, due>>

Idle == [at |-> "idle", codes |-> {}, queue |-> {}, leaves |-> {}]

Count == 0
Up == Len(Seed) + 1

Present(t) == {c \in Codes : t[c] # None}
Children(t, p) == {c \in Present(t) : t[c].parent = p}
Leaves(t) == {c \in Present(t) : t[c].routes}

-----------------------------------------------------------------------------
(* ToTree *)

\* (Variant with a fault: an orphan is not shown.)
RootsWithoutParent(t) == {c \in Present(t) : t[c].parent = None}

\* The top-level nodes: no parent, or one that does not exist.
Roots(t) == {c \in Present(t) : t[c].parent \notin Present(t)}

\* The nodes under those of S, S included: all that are in every set which has S
\* and, with a node, its children.
Closed(t, X) == \A c \in X : Children(t, c) \subseteq X
Under(t, S) == {c \in Codes : \A X \in SUBSET Codes : S \subseteq X /\ Closed(t, X) => c \in X}

Shown(t) == Under(t, Roots(t))

OnCycle(t, c) == c \in Under(t, Children(t, c))

-----------------------------------------------------------------------------
(* Start-up: SeedDefaults, then the router's list is loaded. *)

CountRows ==
  /\ boot = Count
  /\ boot' = IF Present(table) = {} THEN 1 ELSE Up
  /\ list' = IF Present(table) = {} THEN list ELSE Leaves(table)
  /\ UNCHANGED <<table, handler, writes, crashes, due>>

SeedRow ==
  /\ boot \in 1..Len(Seed)
  /\ table' = [table EXCEPT ![Seed[boot][1]] = Seed[boot][2]]
  /\ boot' = boot + 1
  /\ list' = IF boot = Len(Seed) THEN Leaves(table') ELSE list
  /\ UNCHANGED <<handler, writes, crashes, due>>

-----------------------------------------------------------------------------
(* Handlers *)

Goto(h, r) == handler' = [handler EXCEPT ![h] = r]
At(h, pc) == boot = Up /\ handler[h].at = pc

\* What other handlers are to delete no longer covers c and what is under it.
Touch(c) == due' = [h \in Handlers |-> due[h] \ Under(table, {c})]

StartWrite(h) ==
  /\ At(h, "idle")
  /\ writes < MaxWrites
  /\ writes' = writes + 1

\* POST /api/intent/nodes: a code that exists is refused by its UNIQUE index.
Insert(h, c, row) ==
  /\ StartWrite(h)
  /\ c \notin Present(table)
  /\ table' = [table EXCEPT ![c] = row]
  /\ Goto(h, [Idle EXCEPT !.at = "reload"])
  /\ UNCHANGED <<list, boot, crashes, due>>

\* PATCH: one UPDATE, which may find no row; the router is reloaded anyway.
Update(h, c, row) ==
  /\ StartWrite(h)
  /\ table' = [table EXCEPT ![c] = IF @ = None THEN None ELSE row]
  /\ Goto(h, [Idle EXCEPT !.at = "reload"])
  /\ Touch(c)
  /\ UNCHANGED <<list, boot, crashes>>

\* DELETE: the subtree is searched breadth first, one query per node.
Delete(h, c) ==
  /\ StartWrite(h)
  /\ Goto(h, [Idle EXCEPT !.at = "collect", !.codes = {c}, !.queue = {c}])
  /\ due' = [due EXCEPT ![h] = Under(table, {c})]
  /\ UNCHANGED <<table, list, boot, crashes>>

\* (Variants with a fault: the children found are not searched, or not listed, or
\* the parent stays in the queue.)
CollectOneLevel(h) ==
  /\ At(h, "collect")
  /\ \E p \in handler[h].queue :
       Goto(h, [handler[h] EXCEPT !.codes = @ \union Children(table, p), !.queue = @ \ {p}])
  /\ UNCHANGED <<table, list, boot, writes, crashes, due>>

CollectUnlisted(h) ==
  /\ At(h, "collect")
  /\ \E p \in handler[h].queue :
       Goto(h, [handler[h] EXCEPT !.queue = (@ \ {p}) \union Children(table, p)])
  /\ UNCHANGED <<table, list, boot, writes, crashes, due>>

CollectAgain(h) ==
  /\ At(h, "collect")
  /\ \E p \in handler[h].queue :
       Goto(h, [handler[h] EXCEPT !.codes = @ \union Children(table, p),
                                  !.queue = @ \union Children(table, p)])
  /\ UNCHANGED <<table, list, boot, writes, crashes, due>>

CollectChildren(h) ==
  /\ At(h, "collect")
  /\ \E p \in handler[h].queue :
       Goto(h, [handler[h] EXCEPT !.codes = @ \union Children(table, p),
                                  !.queue = (@ \ {p}) \union Children(table, p)])
  /\ UNCHANGED <<table, list, boot, writes, crashes, due>>

\* rows.Err() is not looked at: a reading of the children that breaks off is taken
\* for its end.  The search goes on without the others, nor what is under them.
CollectBreaksOff(h) ==
  /\ At(h, "collect")
  /\ \E p \in handler[h].queue : \E read \in SUBSET Children(table, p) :
       /\ read # Children(table, p)
       /\ Goto(h, [handler[h] EXCEPT !.codes = @ \union read,
                                     !.queue = (@ \ {p}) \union read])
       /\ due' = [due EXCEPT ![h] = @ \ Under(table, Children(table, p) \ read)]
  /\ UNCHANGED <<table, list, boot, writes, crashes>>

\* One transaction deletes what was collected.
CommitDelete(h) ==
  /\ At(h, "collect")
  /\ handler[h].queue = {}
  /\ table' = [c \in Codes |-> IF c \in handler[h].codes THEN None ELSE table[c]]
  /\ Goto(h, [handler[h] EXCEPT !.at = "reload"])
  /\ due' = [g \in Handlers |->
                IF g = h THEN {} ELSE due[g] \ Under(table, handler[h].codes)]
  /\ UNCHANGED <<list, boot, writes, crashes>>

\* The ReloadIntents callback: the leaves are read, then installed.
ReadLeaves(h) ==
  /\ At(h, "reload")
  /\ Goto(h, [Idle EXCEPT !.at = "install", !.leaves = Leaves(table)])
  /\ UNCHANGED <<table, list, boot, writes, crashes, due>>

Install(h) ==
  /\ At(h, "install")
  /\ list' = handler[h].leaves
  /\ Goto(h, Idle)
  /\ UNCHANGED <<table, boot, writes, crashes, due>>

\* A query, the decoding of a row or the transaction fails: 500, and nothing was
\* written.
Fail(h) ==
  /\ At(h, "collect")
  /\ Goto(h, Idle)
  /\ due' = [due EXCEPT ![h] = {}]
  /\ UNCHANGED <<table, list, boot, writes, crashes>>

Crash ==
  /\ crashes < MaxCrashes
  /\ crashes' = crashes + 1
  /\ boot' = Count
  /\ list' = {}
  /\ handler' = [h \in Handlers |-> Idle]
  /\ due' = [h \in Handlers |-> {}]
  /\ UNCHANGED <<table, writes>>

-----------------------------------------------------------------------------
Init ==
  /\ table = [c \in Codes |-> None]
  /\ list = {}
  /\ handler = [h \in Handlers |-> Idle]
  /\ boot = Count
  /\ writes = 0 /\ crashes = 0
  /\ due = [h \in Handlers |-> {}]

Edit(h) ==
  \E c \in Codes :
    \/ Delete(h, c)
    \/ \E row \in Bodies : Insert(h, c, row) \/ Update(h, c, row)

Continue(h) ==
  CollectChildren(h) \/ CommitDelete(h) \/ ReadLeaves(h) \/ Install(h)

Next ==
  \/ CountRows \/ SeedRow \/ Crash
  \/ \E h \in Handlers : Edit(h) \/ Continue(h) \/ CollectBreaksOff(h) \/ Fail(h)

Safety == Init /\ [][Next]_vars

\* A goroutine that can run its next statement does.
Spec == Safety /\ WF_vars(CountRows) /\ WF_vars(SeedRow)
               /\ \A h \in Handlers : WF_vars(Continue(h))
-----------------------------------------------------------------------------
(* Properties *)

\* The tables, the router's list and what each handler holds are well formed.
TypeOK ==
  /\ table \in [Codes -> Rows \union {None}]
  /\ list \subseteq Codes
  /\ boot \in Count..Up
  /\ writes \in 0..MaxWrites /\ crashes \in 0..MaxCrashes
  /\ due \in [Handlers -> SUBSET Codes]
  /\ \A h \in Handlers :
       /\ handler[h].at \in {"idle", "collect", "reload", "install"}
       /\ handler[h].codes \subseteq Codes
       /\ handler[h].queue \subseteq handler[h].codes
       /\ handler[h].leaves \subseteq Codes

\* Delete: when the search is over it has found every row that was under the
\* root when it began and whose path to the root nobody has changed since, but
\* for those under a child that a broken reading left out: these stay, and the
\* client is told that the subtree is gone.
UntouchedSubtreeGoes ==
  \A h \in Handlers :
    At(h, "collect") /\ handler[h].queue = {} => due[h] \subseteq handler[h].codes

\* ToTree: a row is missing from the tree only if its ancestors form a cycle,
\* which PATCH lets a client make.
HiddenOnlyInCycles ==
  Present(table) \ Shown(table) = Under(table, {c \in Present(table) : OnCycle(table, c)})

\* The search of a delete ends unless somebody has closed a cycle of parents.
DeleteEndsUnlessCyclic ==
  \A h \in Handlers :
    At(h, "collect") ~> (~At(h, "collect") \/ \E c \in Present(table) : OnCycle(table, c))

\* Once no reload is under way the router matches against the leaves of the
\* table.
RouterFollowsTable ==
  (boot = Up /\ \A h \in Handlers : handler[h].at \notin {"reload", "install"})
    => list = Leaves(table)
=============================================================================
