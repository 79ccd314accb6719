------------------------------ MODULE Accounts ------------------------------
(***************************************************************************)
(* Users and their API keys: the handlers of services/api/user over the    *)
(* tables of shared/model.  A handler reads rows, decides, and writes      *)
(* whole rows back; every statement is a step.  Deleting is soft: queries  *)
(* and updates pass over the row, its unique keys stay taken, and gorm's   *)
(* Save, which turns into an upsert when it updates no row, brings it      *)
(* back.                                                                   *)
(*                                                                         *)
(* A user's name stands for its ID as well: a name is used only once.  Of  *)
(* a row the role, the status and the deletion mark are kept, and of a key *)
(* its owner.                                                              *)
(***************************************************************************)
EXTENDS Integers, FiniteSets

CONSTANTS
  Users, Root,   \* the first user of the system, a root
  Tokens,        \* key IDs
  Handlers,
  NoRow,
  MaxTokens,     \* keys per user (100)
  MaxRequests    \* bound on the requests of logged-in users

Common == 1
RootRole == 100
Roles == {Common, RootRole}

VARIABLES
  users,      \* user -> row or NoRow
  tokens,     \* key ID -> row or NoRow
  sessions,   \* users with a JWT
  handler,    \* handler -> its request: step, caller, row to write
  requests,   \* requests so far (bound)
  granted,    \* history: user -> roles registration or a root gave it
  uncounted   \* history: user -> requests for a key whose count failed

vars == <<users, tokens, sessions, handler, requests, granted, uncounted>>

histories == <<granted, uncounted>>

Live(table, k) == table[k] # NoRow /\ ~table[k].deleted

Idle == [at |-> "idle", caller |-> NoRow, role |-> Common, key |-> NoRow, row |-> NoRow]

At(h, pc) == handler[h].at = pc
Goto(h, r) == handler' = [handler EXCEPT ![h] = r]
Writing(h, pc, key, row) ==
  Goto(h, [handler[h] EXCEPT !.at = pc, !.key = key, !.row = row])

-----------------------------------------------------------------------------
(* Users *)

\* Register: no live row has the name.
Register(h, u) ==
  /\ At(h, "idle")
  /\ ~Live(users, u)
  /\ Writing(h, "create", u, [role |-> Common, enabled |-> TRUE, deleted |-> FALSE])
  /\ UNCHANGED <<users, tokens, sessions, requests, histories>>

\* The unique index refuses a name that any row has, a deleted one included.
CreateUser(h) ==
  /\ At(h, "create")
  /\ LET u == handler[h].key
     IN  IF users[u] = NoRow
         THEN /\ users' = [users EXCEPT ![u] = handler[h].row]
              /\ granted' = [granted EXCEPT ![u] = @ \union {handler[h].row.role}]
         ELSE UNCHANGED <<users, granted>>
  /\ Goto(h, Idle)
  /\ UNCHANGED <<tokens, sessions, requests, uncounted>>

Enabled(u) == Live(users, u) /\ users[u].enabled

Login(u) ==
  /\ Enabled(u)
  /\ sessions' = sessions \union {u}
  /\ UNCHANGED <<users, tokens, handler, requests, histories>>

\* UserAuth: the JWT's user is looked up again, and its present role goes into
\* the request's context.
UserAuth(h, u) ==
  /\ At(h, "idle")
  /\ requests < MaxRequests
  /\ requests' = requests + 1
  /\ u \in sessions /\ Enabled(u)
  /\ Goto(h, [Idle EXCEPT !.at = "in", !.caller = u, !.role = users[u].role])
  /\ UNCHANGED <<users, tokens, sessions, histories>>

\* (Variant with a fault: whoever calls may change roles.)
AnyRole(h, u) == Roles

\* The role a request may leave in the row: only a root changes it.
RoleFor(h, u) == IF handler[h].role < RootRole THEN {users[u].role} ELSE Roles

\* UpdateUser: the row is read and changed, ...
ReadUser(h, u) ==
  /\ At(h, "in")
  /\ Live(users, u)
  /\ \E role \in RoleFor(h, u), enabled \in BOOLEAN :
       /\ Writing(h, "saveUser", u, [role |-> role, enabled |-> enabled, deleted |-> FALSE])
       /\ granted' = IF handler[h].role = RootRole
                     THEN [granted EXCEPT ![u] = @ \union {role}] ELSE granted
  /\ UNCHANGED <<users, tokens, sessions, requests, uncounted>>

\* ... and saved as a whole.
SaveUser(h) ==
  /\ At(h, "saveUser")
  /\ users' = [users EXCEPT ![handler[h].key] = handler[h].row]
  /\ Goto(h, Idle)
  /\ UNCHANGED <<tokens, sessions, requests, histories>>

\* Nobody deletes itself.
DeleteUser(h, u) ==
  /\ At(h, "in")
  /\ u # handler[h].caller
  /\ users' = [users EXCEPT ![u] = IF @ = NoRow THEN NoRow ELSE [@ EXCEPT !.deleted = TRUE]]
  /\ Goto(h, Idle)
  /\ UNCHANGED <<tokens, sessions, requests, histories>>

-----------------------------------------------------------------------------
(* API keys *)

OwnedBy(u) == {k \in Tokens : Live(tokens, k) /\ tokens[k].owner = u}

\* (Variant with a fault: one key more than allowed passes the check.)
MayHaveOneMore(count) == count <= MaxTokens

MayHaveAnother(count) == count < MaxTokens

\* CreateToken: the caller's keys are counted; the error of a count that fails is
\* not looked at, and leaves 0.
CountTokens(h) ==
  /\ At(h, "in")
  /\ LET u == handler[h].caller
     IN  \E fails \in BOOLEAN :
           /\ IF MayHaveAnother(IF fails THEN 0 ELSE Cardinality(OwnedBy(u)))
              THEN Writing(h, "insert", NoRow, [owner |-> u, deleted |-> FALSE])
              ELSE Goto(h, Idle)
           /\ uncounted' = IF fails THEN [uncounted EXCEPT ![u] = @ + 1] ELSE uncounted
  /\ UNCHANGED <<users, tokens, sessions, requests, granted>>

\* ... the new key is inserted, and saved once more if it is an unlimited one.
InsertToken(h, k) ==
  /\ At(h, "insert")
  /\ tokens[k] = NoRow
  /\ tokens' = [tokens EXCEPT ![k] = handler[h].row]
  /\ \E unlimited \in BOOLEAN :
       IF unlimited THEN Writing(h, "saveToken", k, handler[h].row) ELSE Goto(h, Idle)
  /\ UNCHANGED <<users, sessions, requests, histories>>

\* UpdateToken
ReadToken(h, k) ==
  /\ At(h, "in")
  /\ k \in OwnedBy(handler[h].caller)
  /\ Writing(h, "saveToken", k, tokens[k])
  /\ UNCHANGED <<users, tokens, sessions, requests, histories>>

SaveToken(h) ==
  /\ At(h, "saveToken")
  /\ tokens' = [tokens EXCEPT ![handler[h].key] = handler[h].row]
  /\ Goto(h, Idle)
  /\ UNCHANGED <<users, sessions, requests, histories>>

DeleteToken(h, k) ==
  /\ At(h, "in")
  /\ k \in OwnedBy(handler[h].caller)
  /\ tokens' = [tokens EXCEPT ![k].deleted = TRUE]
  /\ Goto(h, Idle)
  /\ UNCHANGED <<users, sessions, requests, histories>>

\* A statement fails, or the request is refused for its form.
Fail(h) ==
  /\ ~At(h, "idle")
  /\ Goto(h, Idle)
  /\ UNCHANGED <<users, tokens, sessions, requests, histories>>

-----------------------------------------------------------------------------
FirstRow(u) ==
  IF u = Root THEN [role |-> RootRole, enabled |-> TRUE, deleted |-> FALSE] ELSE NoRow

Init ==
  /\ users = [u \in Users |-> FirstRow(u)]
  /\ tokens = [k \in Tokens |-> NoRow]
  /\ sessions = {}
  /\ handler = [h \in Handlers |-> Idle]
  /\ requests = 0
  /\ granted = [u \in Users |-> IF u = Root THEN {RootRole} ELSE {}]
  /\ uncounted = [u \in Users |-> 0]

UserStep(h) ==
  \/ \E u \in Users : Register(h, u) \/ UserAuth(h, u) \/ ReadUser(h, u) \/ DeleteUser(h, u)
  \/ CreateUser(h) \/ SaveUser(h)

TokenStep(h) ==
  \/ \E k \in Tokens : InsertToken(h, k) \/ ReadToken(h, k) \/ DeleteToken(h, k)
  \/ CountTokens(h) \/ SaveToken(h)

Next ==
  \/ \E u \in Users : Login(u)
  \/ \E h \in Handlers : UserStep(h) \/ TokenStep(h) \/ Fail(h)

Spec == Init /\ [][Next]_vars

-----------------------------------------------------------------------------
(* Properties *)

\* Rows, sessions and what the handlers hold are well formed.
TypeOK ==
  /\ users \in [Users -> {NoRow} \union [role : Roles, enabled : BOOLEAN, deleted : BOOLEAN]]
  /\ tokens \in [Tokens -> {NoRow} \union [owner : Users, deleted : BOOLEAN]]
  /\ sessions \subseteq Users
  /\ requests \in 0..MaxRequests
  /\ granted \in [Users -> SUBSET Roles]
  /\ uncounted \in [Users -> Nat]
  /\ \A h \in Handlers :
       /\ handler[h].at \in {"idle", "in", "create", "saveUser", "insert", "saveToken"}
       /\ handler[h].at \in {"in", "insert"} => handler[h].caller \in Users
       /\ handler[h].at \in {"create", "saveUser"} => handler[h].key \in Users
       /\ handler[h].at = "saveToken" => handler[h].key \in Tokens

\* UpdateUser: whatever stale rows are written back, a user's role is one that
\* its registration or a root's request gave it.
RolesWereGranted ==
  \A u \in Users : users[u] # NoRow => users[u].role \in granted[u]

\* CreateToken: count and insert are two statements, a stale Save brings a
\* deleted key back, and a count that fails passes for 0, so the limit can be
\* passed; but each of the handlers running at the same time, and each failed
\* count, adds only one key to those the check allowed.
TokenLimit ==
  \A u \in Users :
    Cardinality(OwnedBy(u)) <= MaxTokens + Cardinality(Handlers) - 1 + uncounted[u]
=============================================================================
