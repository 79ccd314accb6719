------------------------------ MODULE Channels ------------------------------
(***************************************************************************)
(* Channels (upstream accounts): their rows, the abilities derived from    *)
(* them, and the in-memory cache requests are distributed by.  Each        *)
(* handler of services/provider/channel is a sequence of statements, none  *)
(* of them in a transaction; a change is followed by a refresh, which      *)
(* reads the table and later installs what it has read.                    *)
(*                                                                         *)
(* A row is the list of models it names, as often as it names each, and    *)
(* whether it is enabled.  Weights only choose among the rows cached for a *)
(* model, and are left out.                                                *)
(***************************************************************************)
EXTENDS Integers, FiniteSets

CONSTANTS
  Ids,        \* IDs the database will give to channels
  Models,
  Handlers,
  NoRow,      \* no channel yet
  Gone,       \* the channel was deleted
  MaxRepeats, \* bound: how often a request names a model
  MaxOps      \* bound on operations

Lists == [Models -> 0..MaxRepeats]
Rows == [models : Lists, enabled : BOOLEAN]

VARIABLES
  table,      \* channel -> row, NoRow or Gone
  abilities,  \* channel -> model -> number of ability rows
  cache,      \* model -> how often each channel is on its list
  handler,    \* handler -> its operation
  ops,        \* operations so far (bound)
  clean,      \* history: the last change ran alone and to its end
  tidy        \* history: channels of which the last change did

vars == <<table, abilities, cache, handler, ops, clean, tidy>>

Present(i) == table[i] \notin {NoRow, Gone}

NoModels == [m \in Models |-> 0]
NoChannels == [i \in Ids |-> 0]

Idle == [at |-> "idle", op |-> NoRow, id |-> NoRow, row |-> NoRow, left |-> NoModels,
         snapshot |-> [m \in Models |-> NoChannels], alone |-> TRUE]

At(h, pc) == handler[h].at = pc
Running == {h \in Handlers : ~At(h, "idle")}

\* The operation begins: from here on it and those under way are not alone.
Begin(h, op, pc, i, row) ==
  /\ At(h, "idle")
  /\ ops < MaxOps
  /\ ops' = ops + 1
  /\ handler' = [g \in Handlers |->
       IF g = h THEN [Idle EXCEPT !.op = op, !.at = pc, !.id = i, !.row = row,
                                  !.alone = (Running = {})]
       ELSE [handler[g] EXCEPT !.alone = FALSE]]

Goto(h, x) == handler' = [handler EXCEPT ![h] = x] /\ UNCHANGED ops
Step(h, pc) == Goto(h, [handler[h] EXCEPT !.at = pc])

\* A test, which refreshes nothing, leaves the cache as good as it was.
End(h) ==
  LET x == handler[h]
  IN  /\ Goto(h, Idle)
      /\ clean' = (x.alone /\ (x.op = "test" => clean))
      /\ tidy' = IF x.op = "serve" THEN tidy
                 ELSE IF x.alone THEN tidy \union {x.id} ELSE tidy \ {x.id}

history == <<clean, tidy>>

-----------------------------------------------------------------------------
(* The operations *)

\* CreateChannel: its row first, then its abilities.
Create(h, i, row) ==
  /\ table[i] = NoRow
  /\ Begin(h, "create", "clear", i, row)
  /\ table' = [table EXCEPT ![i] = row]
  /\ UNCHANGED <<abilities, cache, history>>

\* UpdateChannel: the row is read, and changed to what the request asks for.
Update(h, i, row) ==
  /\ Present(i)
  /\ Begin(h, "update", "save", i, row)
  /\ UNCHANGED <<table, abilities, cache, history>>

\* TestChannel: the row is read, and kept through a probe of up to ten seconds.
Test(h, i) ==
  /\ Present(i)
  /\ Begin(h, "test", "probe", i, table[i])
  /\ UNCHANGED <<table, abilities, cache, history>>

ProbeAnswers(h) ==
  /\ At(h, "probe")
  /\ Step(h, "save")
  /\ UNCHANGED <<table, abilities, cache, history>>

\* Save writes the row as it was read, and inserts it again if it is gone.
Save(h) ==
  /\ At(h, "save")
  /\ table' = [table EXCEPT ![handler[h].id] = handler[h].row]
  /\ Step(h, "clear")
  /\ UNCHANGED <<abilities, cache, history>>

\* (Variant with a fault: the old abilities stay.)
ClearNothing(h) ==
  /\ At(h, "clear")
  /\ Goto(h, [handler[h] EXCEPT !.at = "fill", !.left = handler[h].row.models])
  /\ UNCHANGED <<table, abilities, cache, history>>

\* SyncChannelAbilities: the channel's abilities are deleted, then one is inserted
\* for each name in the list, a repeated one included.
Clear(h) ==
  /\ At(h, "clear")
  /\ abilities' = [abilities EXCEPT ![handler[h].id] = NoModels]
  /\ Goto(h, [handler[h] EXCEPT !.at = "fill", !.left = handler[h].row.models])
  /\ UNCHANGED <<table, cache, history>>

Fill(h) ==
  /\ At(h, "fill")
  /\ \E m \in Models :
       /\ handler[h].left[m] > 0
       /\ abilities' = [abilities EXCEPT ![handler[h].id][m] = @ + 1]
       /\ Goto(h, [handler[h] EXCEPT !.left[m] = @ - 1])
  /\ UNCHANGED <<table, cache, history>>

\* A test leaves the cache alone; the others refresh it.
Synced(h) ==
  /\ At(h, "fill") /\ handler[h].left = NoModels
  /\ IF handler[h].op = "test" THEN End(h) ELSE Step(h, "refresh") /\ UNCHANGED history
  /\ UNCHANGED <<table, abilities, cache>>

\* DeleteChannel: the abilities first, then the row.
Delete(h, i) ==
  /\ Begin(h, "delete", "unlist", i, NoRow)
  /\ UNCHANGED <<table, abilities, cache, history>>

DeleteAbilities(h) ==
  /\ At(h, "unlist")
  /\ abilities' = [abilities EXCEPT ![handler[h].id] = NoModels]
  /\ Step(h, "delete")
  /\ UNCHANGED <<table, cache, history>>

DeleteRow(h) ==
  /\ At(h, "delete")
  /\ table' = [table EXCEPT ![handler[h].id] = IF @ = NoRow THEN NoRow ELSE Gone]
  /\ Step(h, "refresh")
  /\ UNCHANGED <<abilities, cache, history>>

Enabled(t) == {i \in Ids : t[i] \notin {NoRow, Gone} /\ t[i].enabled}
Routable(t) ==
  [m \in Models |-> [i \in Ids |-> IF i \in Enabled(t) THEN t[i].models[m] ELSE 0]]

\* RefreshChannelCache: read, ...
ReadEnabled(h) ==
  /\ At(h, "refresh")
  /\ Goto(h, [handler[h] EXCEPT !.at = "install", !.snapshot = Routable(table)])
  /\ UNCHANGED <<table, abilities, cache, history>>

\* ... and install.
Install(h) ==
  /\ At(h, "install")
  /\ cache' = handler[h].snapshot
  /\ End(h)
  /\ UNCHANGED <<table, abilities>>

\* GetChannelForModel: only a model without any channel has the cache refreshed.
Serve(h, m) ==
  /\ cache[m] = NoChannels
  /\ Begin(h, "serve", "refresh", NoRow, NoRow)
  /\ UNCHANGED <<table, abilities, cache, history>>

\* A statement on the rows or a probe fails, which ends the operation.
Fail(h) ==
  /\ At(h, "probe") \/ At(h, "save") \/ At(h, "delete") \/ At(h, "refresh")
  /\ Goto(h, Idle)
  /\ clean' = FALSE
  /\ tidy' = tidy \ {handler[h].id}
  /\ UNCHANGED <<table, abilities, cache>>

\* A statement on the abilities fails, which nobody looks at.
FailUnseen(h) ==
  /\ LET x == [handler[h] EXCEPT !.alone = FALSE]
     IN  \/ At(h, "unlist") /\ Goto(h, [x EXCEPT !.at = "delete"])
         \/ At(h, "clear") /\ Goto(h, [x EXCEPT !.at = "fill", !.left = x.row.models])
         \/ /\ At(h, "fill")
            /\ \E m \in Models : x.left[m] > 0 /\ Goto(h, [x EXCEPT !.left[m] = @ - 1])
  /\ UNCHANGED <<table, abilities, cache, history>>

\* DisableChannel and EnableChannel, which nothing in the services calls, change
\* the status alone; the cache is not refreshed.
SetStatus(i, enabled) ==
  /\ Present(i)
  /\ ops < MaxOps
  /\ ops' = ops + 1
  /\ table' = [table EXCEPT ![i].enabled = enabled]
  /\ handler' = [h \in Handlers |-> [handler[h] EXCEPT !.alone = FALSE]]
  /\ clean' = FALSE
  /\ UNCHANGED <<abilities, cache, tidy>>

-----------------------------------------------------------------------------
Init ==
  /\ table = [i \in Ids |-> NoRow]
  /\ abilities = [i \in Ids |-> NoModels]
  /\ cache = [m \in Models |-> NoChannels]
  /\ handler = [h \in Handlers |-> Idle]
  /\ ops = 0
  /\ clean = TRUE
  /\ tidy = Ids

Operation(h) ==
  \/ \E i \in Ids :
       \/ \E row \in Rows : Create(h, i, row) \/ Update(h, i, row)
       \/ Test(h, i) \/ Delete(h, i)
  \/ \E m \in Models : Serve(h, m)

Continue(h) ==
  \/ ProbeAnswers(h) \/ Save(h) \/ Clear(h) \/ Fill(h) \/ Synced(h)
  \/ DeleteAbilities(h) \/ DeleteRow(h) \/ ReadEnabled(h) \/ Install(h)

Next ==
  \/ \E h \in Handlers : Operation(h) \/ Continue(h) \/ Fail(h) \/ FailUnseen(h)
  \/ \E i \in Ids, enabled \in BOOLEAN : SetStatus(i, enabled)

Spec == Init /\ [][Next]_vars

-----------------------------------------------------------------------------
(* Properties *)

\* The tables, the cache and the handlers' copies are well formed.
TypeOK ==
  /\ table \in [Ids -> Rows \union {NoRow, Gone}]
  /\ abilities \in [Ids -> [Models -> Nat]]
  /\ cache \in [Models -> [Ids -> 0..MaxRepeats]]
  /\ ops \in 0..MaxOps /\ clean \in BOOLEAN /\ tidy \subseteq Ids
  /\ \A h \in Handlers :
       /\ handler[h].at \in {"idle", "probe", "save", "clear", "fill", "unlist", "delete",
                             "refresh", "install"}
       /\ At(h, "save") \/ At(h, "clear") => handler[h].row \in Rows
       /\ handler[h].left \in Lists
       /\ handler[h].snapshot \in [Models -> [Ids -> 0..MaxRepeats]]

Expected(i) == IF Present(i) THEN table[i].models ELSE NoModels

\* Three copies of one fact: when nothing runs, and the last change ran without
\* another beside it and without a failure, the cache lists the channels as the
\* table does and the channel has an ability for each name in its list, whatever
\* went wrong before.  (Changes that overlap, a test among them, and changes of
\* which a statement failed give no such promise.)
SequentialAgreement ==
  Running = {} => /\ clean => cache = Routable(table)
                  /\ \A i \in tidy : abilities[i] = Expected(i)
=============================================================================
