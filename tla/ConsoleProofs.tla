--------------------------- MODULE ConsoleProofs ---------------------------
(***************************************************************************)
(* Proofs about the services behind the console.  Each part has an         *)
(* inductive invariant of its own, over its own variables; the last        *)
(* section puts them together.                                             *)
(***************************************************************************)
EXTENDS Console, FiniteSetTheorems, SequenceTheorems, WellFoundedInduction, TLAPS

-----------------------------------------------------------------------------
(* Accounts *)

\* Rows of users and tokens.
UserRow == [role : A!Roles, enabled : BOOLEAN, deleted : BOOLEAN]
TokenRow == [owner : Users, deleted : BOOLEAN]

\* What a handler of accounts may hold at each step.
ClerkOK(x) ==
  /\ x.at \in {"in", "insert"} => x.caller \in Users
  /\ x.at \in {"create", "saveUser"} => x.key \in Users /\ x.row \in UserRow
  /\ x.at = "saveToken" => x.key \in Tokens
  /\ x.at \in {"insert", "saveToken"} => x.row \in TokenRow

\* Handlers of users and tokens, with what they may be about to write.
ClerkShape ==
  [at : {"idle", "in", "create", "saveUser", "insert", "saveToken"},
   caller : Users \union {NoRow}, role : A!Roles,
   key : Users \union Tokens \union {NoRow}, row : UserRow \union TokenRow \union {NoRow}]
Clerk == {x \in ClerkShape : ClerkOK(x)}

\* Users, tokens and their handlers.
AccountsTyped ==
  /\ users \in [Users -> {NoRow} \union UserRow]
  /\ tokens \in [Tokens -> {NoRow} \union TokenRow]
  /\ sessions \subseteq Users
  /\ requests \in 0..MaxRequests
  /\ granted \in [Users -> SUBSET A!Roles]
  /\ uncounted \in [Users -> Nat]
  /\ clerk \in [Handlers -> Clerk]

\* An idle handler, and one that is about to write.
LEMMA ClerkIdle == A!Idle \in Clerk
  BY DEF Clerk, ClerkShape, ClerkOK, A!Idle, A!Roles, A!Common

\* What a handler of users and tokens is about to write.
LEMMA ClerkWriting ==
  ASSUME AccountsTyped, NEW h \in Handlers, NEW pc, NEW key, NEW row,
         \/ pc \in {"create", "saveUser"} /\ key \in Users /\ row \in UserRow
         \/ pc = "insert" /\ key = NoRow /\ row \in TokenRow /\ clerk[h].caller \in Users
         \/ pc = "saveToken" /\ key \in Tokens /\ row \in TokenRow,
         A!Writing(h, pc, key, row)
  PROVE  /\ clerk' \in [Handlers -> Clerk]
         /\ clerk'[h].at = pc /\ clerk'[h].key = key /\ clerk'[h].row = row
         /\ clerk'[h].caller = clerk[h].caller
         /\ \A g \in Handlers : g # h => clerk'[g] = clerk[g]
<1> DEFINE x == [clerk[h] EXCEPT !.at = pc, !.key = key, !.row = row]
<1>1. clerk[h] \in ClerkShape
  BY DEF AccountsTyped, Clerk
<1>2. /\ x \in ClerkShape
      /\ x.at = pc /\ x.key = key /\ x.row = row /\ x.caller = clerk[h].caller
  BY <1>1 DEF ClerkShape
<1>3. clerk' = [clerk EXCEPT ![h] = x]
  BY DEF A!Writing, A!Goto
<1> HIDE DEF x
<1>4. x \in Clerk
  BY <1>2 DEF Clerk, ClerkOK
<1> QED
  BY <1>2, <1>3, <1>4 DEF AccountsTyped

\* A handler that ends its request.
LEMMA ClerkEnds ==
  ASSUME AccountsTyped, NEW h \in Handlers, A!Goto(h, A!Idle)
  PROVE  /\ clerk' \in [Handlers -> Clerk]
         /\ clerk'[h].at = "idle"
         /\ \A g \in Handlers : g # h => clerk'[g] = clerk[g]
<1>1. A!Idle.at = "idle"
  BY DEF A!Idle
<1> QED
  BY <1>1, ClerkIdle DEF AccountsTyped, A!Goto

\* The first state of the tables is well typed.
LEMMA AccountsTypedInit ==
  ASSUME A!Init, MaxRequests \in Nat
  PROVE  AccountsTyped
  BY ClerkIdle DEF A!Init, AccountsTyped, UserRow, A!Roles, A!FirstRow, A!Common, A!RootRole

\* Every step of the handlers keeps it.
LEMMA AccountsTypedStep ==
  ASSUME AccountsTyped, MaxRequests \in Nat, A!Next
  PROVE  AccountsTyped'
<1> USE DEF A!histories
<1>1. ASSUME NEW u \in Users, A!Login(u)
      PROVE  AccountsTyped'
  BY <1>1 DEF A!Login, AccountsTyped
<1>2. ASSUME NEW h \in Handlers, NEW u \in Users,
             A!Register(h, u) \/ A!UserAuth(h, u) \/ A!ReadUser(h, u) \/ A!DeleteUser(h, u)
      PROVE  AccountsTyped'
  <2>1. CASE A!Register(h, u)
    <3>1. [role |-> A!Common, enabled |-> TRUE, deleted |-> FALSE] \in UserRow
      BY DEF UserRow, A!Roles
    <3>2. clerk' \in [Handlers -> Clerk]
      BY <2>1, <3>1, ClerkWriting DEF A!Register
    <3> QED
      BY <2>1, <3>2 DEF A!Register, AccountsTyped
  <2>2. CASE A!UserAuth(h, u)
    <3>1. users[u] \in UserRow
      BY <2>2 DEF A!UserAuth, A!Enabled, A!Live, AccountsTyped
    <3>2. [A!Idle EXCEPT !.at = "in", !.caller = u, !.role = users[u].role] \in Clerk
      BY <3>1 DEF A!Idle, Clerk, ClerkShape, ClerkOK, UserRow
    <3> QED
      BY <2>2, <3>2 DEF A!UserAuth, A!Goto, AccountsTyped
  <2>3. CASE A!ReadUser(h, u)
    <3>1. users[u] \in UserRow /\ clerk[h].role \in A!Roles
      BY <2>3 DEF A!ReadUser, A!Live, AccountsTyped, Clerk, ClerkShape
    <3>2. PICK role \in A!RoleFor(h, u), enabled \in BOOLEAN :
            /\ A!Writing(h, "saveUser", u, [role |-> role, enabled |-> enabled, deleted |-> FALSE])
            /\ granted' = IF clerk[h].role = A!RootRole
                          THEN [granted EXCEPT ![u] = @ \union {role}] ELSE granted
      BY <2>3 DEF A!ReadUser
    <3>3. role \in A!Roles
      BY <3>1, <3>2 DEF A!RoleFor, UserRow
    <3>4. [role |-> role, enabled |-> enabled, deleted |-> FALSE] \in UserRow
      BY <3>3 DEF UserRow
    <3>5. clerk' \in [Handlers -> Clerk]
      BY <3>2, <3>4, ClerkWriting
    <3> QED
      BY <2>3, <3>2, <3>3, <3>5 DEF A!ReadUser, AccountsTyped
  <2>4. CASE A!DeleteUser(h, u)
    <3>1. clerk' \in [Handlers -> Clerk]
      BY <2>4, ClerkEnds DEF A!DeleteUser
    <3> QED
      BY <2>4, <3>1 DEF A!DeleteUser, AccountsTyped, UserRow
  <2> QED
    BY <1>2, <2>1, <2>2, <2>3, <2>4
<1>3. ASSUME NEW h \in Handlers, A!CreateUser(h)
      PROVE  AccountsTyped'
  <2>1. clerk' \in [Handlers -> Clerk]
    BY <1>3, ClerkEnds DEF A!CreateUser
  <2>2. clerk[h].key \in Users /\ clerk[h].row \in UserRow
    BY <1>3 DEF A!CreateUser, A!At, AccountsTyped, Clerk, ClerkOK
  <2> QED
    BY <1>3, <2>1, <2>2 DEF A!CreateUser, AccountsTyped, UserRow
<1>4. ASSUME NEW h \in Handlers, A!SaveUser(h)
      PROVE  AccountsTyped'
  <2>1. clerk' \in [Handlers -> Clerk]
    BY <1>4, ClerkEnds DEF A!SaveUser
  <2>2. clerk[h].key \in Users /\ clerk[h].row \in UserRow
    BY <1>4 DEF A!SaveUser, A!At, AccountsTyped, Clerk, ClerkOK
  <2> QED
    BY <1>4, <2>1, <2>2 DEF A!SaveUser, AccountsTyped
<1>5. ASSUME NEW h \in Handlers, NEW k \in Tokens,
             A!InsertToken(h, k) \/ A!ReadToken(h, k) \/ A!DeleteToken(h, k)
      PROVE  AccountsTyped'
  <2>1. CASE A!InsertToken(h, k)
    <3>1. clerk[h].row \in TokenRow
      BY <2>1 DEF A!InsertToken, A!At, AccountsTyped, Clerk, ClerkOK
    <3>2. clerk' \in [Handlers -> Clerk]
      BY <2>1, <3>1, ClerkWriting, ClerkEnds DEF A!InsertToken
    <3> QED
      BY <2>1, <3>1, <3>2 DEF A!InsertToken, AccountsTyped
  <2>2. CASE A!ReadToken(h, k)
    <3>1. tokens[k] \in TokenRow
      BY <2>2 DEF A!ReadToken, A!OwnedBy, A!Live, AccountsTyped
    <3>2. clerk' \in [Handlers -> Clerk]
      BY <2>2, <3>1, ClerkWriting DEF A!ReadToken
    <3> QED
      BY <2>2, <3>2 DEF A!ReadToken, AccountsTyped
  <2>3. CASE A!DeleteToken(h, k)
    <3>1. tokens[k] \in TokenRow
      BY <2>3 DEF A!DeleteToken, A!OwnedBy, A!Live, AccountsTyped
    <3>2. clerk' \in [Handlers -> Clerk]
      BY <2>3, ClerkEnds DEF A!DeleteToken
    <3> QED
      BY <2>3, <3>1, <3>2 DEF A!DeleteToken, AccountsTyped, TokenRow
  <2> QED
    BY <1>5, <2>1, <2>2, <2>3
<1>6. ASSUME NEW h \in Handlers, A!CountTokens(h)
      PROVE  AccountsTyped'
  <2>1. clerk[h].caller \in Users
    BY <1>6 DEF A!CountTokens, A!At, AccountsTyped, Clerk, ClerkOK
  <2>2. [owner |-> clerk[h].caller, deleted |-> FALSE] \in TokenRow
    BY <2>1 DEF TokenRow
  <2>3. clerk' \in [Handlers -> Clerk]
    BY <1>6, <2>1, <2>2, ClerkWriting, ClerkEnds DEF A!CountTokens
  <2>4. uncounted' \in [Users -> Nat]
    BY <1>6, <2>1 DEF A!CountTokens, AccountsTyped
  <2> QED
    BY <1>6, <2>3, <2>4 DEF A!CountTokens, AccountsTyped
<1>7. ASSUME NEW h \in Handlers, A!SaveToken(h) \/ A!Fail(h)
      PROVE  AccountsTyped'
  <2>1. clerk' \in [Handlers -> Clerk]
    BY <1>7, ClerkEnds DEF A!SaveToken, A!Fail
  <2>2. A!SaveToken(h) => clerk[h].key \in Tokens /\ clerk[h].row \in TokenRow
    BY DEF A!SaveToken, A!At, AccountsTyped, Clerk, ClerkOK
  <2> QED
    BY <1>7, <2>1, <2>2 DEF A!SaveToken, A!Fail, AccountsTyped
<1> QED
  BY <1>1, <1>2, <1>3, <1>4, <1>5, <1>6, <1>7 DEF A!Next, A!UserStep, A!TokenStep

\* A role a handler is about to save was granted as well.
RolesHeld ==
  /\ A!RolesWereGranted
  /\ \A h \in Handlers :
       clerk[h].at = "saveUser" => clerk[h].row.role \in granted[clerk[h].key]

\* UpdateUser: only a root gives roles.
LEMMA RolesHeldStep ==
  ASSUME AccountsTyped, RolesHeld, A!Next
  PROVE  RolesHeld'
<1> USE DEF A!histories
<1>0. \A h \in Handlers : clerk[h] \in Clerk
  BY DEF AccountsTyped
\* A step that grants nothing, changes no user and is not about to.
<1>a. ASSUME NEW h \in Handlers, UNCHANGED <<users, granted>>, clerk'[h].at # "saveUser",
             \A g \in Handlers : g # h => clerk'[g] = clerk[g]
      PROVE  RolesHeld'
  BY <1>a DEF RolesHeld, A!RolesWereGranted
<1>1. ASSUME NEW u \in Users, A!Login(u)
      PROVE  RolesHeld'
  BY <1>1 DEF A!Login, RolesHeld, A!RolesWereGranted
<1>2. ASSUME NEW h \in Handlers, NEW u \in Users, A!Register(h, u)
      PROVE  RolesHeld'
  <2>1. [role |-> A!Common, enabled |-> TRUE, deleted |-> FALSE] \in UserRow
    BY DEF UserRow, A!Roles
  <2> QED
    BY <1>2, <2>1, <1>a, ClerkWriting DEF A!Register
<1>3. ASSUME NEW h \in Handlers, NEW u \in Users, A!UserAuth(h, u)
      PROVE  RolesHeld'
  <2>1. [A!Idle EXCEPT !.at = "in", !.caller = u, !.role = users[u].role].at = "in"
    BY DEF A!Idle
  <2> QED
    BY <1>3, <2>1, <1>a DEF A!UserAuth, A!Goto, AccountsTyped
<1>4. ASSUME NEW h \in Handlers, NEW u \in Users, A!ReadUser(h, u)
      PROVE  RolesHeld'
  <2>1. users[u] \in UserRow /\ users[u] # NoRow /\ clerk[h].role \in A!Roles
    BY <1>4 DEF A!ReadUser, A!Live, AccountsTyped, Clerk, ClerkShape
  <2>2. PICK role \in A!RoleFor(h, u), enabled \in BOOLEAN :
          /\ A!Writing(h, "saveUser", u, [role |-> role, enabled |-> enabled, deleted |-> FALSE])
          /\ granted' = IF clerk[h].role = A!RootRole
                        THEN [granted EXCEPT ![u] = @ \union {role}] ELSE granted
    BY <1>4 DEF A!ReadUser
  <2>3. role \in granted'[u]
    BY <2>1, <2>2 DEF A!RoleFor, A!Roles, A!RootRole, A!Common, RolesHeld, A!RolesWereGranted,
                      AccountsTyped
  <2>4. role \in A!Roles
    BY <2>1, <2>2 DEF A!RoleFor, UserRow
  <2>5. [role |-> role, enabled |-> enabled, deleted |-> FALSE] \in UserRow
    BY <2>4 DEF UserRow
  <2>6. /\ clerk'[h].at = "saveUser" /\ clerk'[h].key = u /\ clerk'[h].row.role = role
        /\ \A g \in Handlers : g # h => clerk'[g] = clerk[g]
    BY <2>2, <2>5, ClerkWriting
  <2>7. users' = users /\ \A v \in Users : granted[v] \subseteq granted'[v]
    BY <1>4, <2>2 DEF A!ReadUser, AccountsTyped
  <2> QED
    BY <1>0, <2>3, <2>6, <2>7 DEF RolesHeld, A!RolesWereGranted, Clerk, ClerkOK
<1>5. ASSUME NEW h \in Handlers, NEW u \in Users, A!DeleteUser(h, u)
      PROVE  RolesHeld'
  <2>1. /\ clerk'[h].at = "idle" /\ \A g \in Handlers : g # h => clerk'[g] = clerk[g]
        /\ granted' = granted
    BY <1>5, ClerkEnds DEF A!DeleteUser
  <2>2. \A v \in Users : users'[v] # NoRow => users[v] # NoRow /\ users'[v].role = users[v].role
    BY <1>5 DEF A!DeleteUser, AccountsTyped, UserRow
  <2> QED
    BY <2>1, <2>2 DEF RolesHeld, A!RolesWereGranted
<1>6. ASSUME NEW h \in Handlers, A!CreateUser(h)
      PROVE  RolesHeld'
  <2>1. clerk'[h].at = "idle" /\ \A g \in Handlers : g # h => clerk'[g] = clerk[g]
    BY <1>6, ClerkEnds DEF A!CreateUser
  <2>2. clerk[h].key \in Users /\ clerk[h].row \in UserRow
    BY <1>6, <1>0 DEF A!CreateUser, A!At, Clerk, ClerkOK
  <2>3. \A v \in Users : granted[v] \subseteq granted'[v]
    BY <1>6, <2>2 DEF A!CreateUser, AccountsTyped
  <2>4. \A v \in Users : users'[v] # NoRow =>
          users'[v] = users[v] \/ users'[v].role \in granted'[v]
    BY <1>6, <2>2 DEF A!CreateUser, AccountsTyped
  <2> QED
    BY <1>0, <2>1, <2>3, <2>4 DEF RolesHeld, A!RolesWereGranted, Clerk, ClerkOK
<1>7. ASSUME NEW h \in Handlers, A!SaveUser(h)
      PROVE  RolesHeld'
  <2>1. /\ clerk'[h].at = "idle" /\ \A g \in Handlers : g # h => clerk'[g] = clerk[g]
        /\ granted' = granted
    BY <1>7, ClerkEnds DEF A!SaveUser
  <2>2. clerk[h].row.role \in granted[clerk[h].key]
    BY <1>7 DEF A!SaveUser, A!At, RolesHeld
  <2>3. \A v \in Users :
          users'[v] = users[v] \/ users'[v].role \in granted[v]
    BY <1>7, <2>2 DEF A!SaveUser, AccountsTyped
  <2> QED
    BY <2>1, <2>3 DEF RolesHeld, A!RolesWereGranted
<1>8. ASSUME NEW h \in Handlers, A!TokenStep(h) \/ A!Fail(h)
      PROVE  RolesHeld'
  <2>1. UNCHANGED <<users, granted>>
    BY <1>8 DEF A!TokenStep, A!InsertToken, A!ReadToken, A!DeleteToken, A!CountTokens, A!SaveToken,
                A!Fail
  <2>2. \/ A!Goto(h, A!Idle)
        \/ \E pc, key, row : pc \in {"insert", "saveToken"} /\ A!Writing(h, pc, key, row)
    BY <1>8 DEF A!TokenStep, A!InsertToken, A!ReadToken, A!DeleteToken, A!CountTokens, A!SaveToken,
                A!Fail
  <2>3. CASE A!Goto(h, A!Idle)
    BY <2>1, <2>3, <1>a, ClerkEnds
  <2>4. ASSUME NEW pc \in {"insert", "saveToken"}, NEW key, NEW row, A!Writing(h, pc, key, row)
        PROVE  RolesHeld'
    <3>1. clerk[h] \in ClerkShape
      BY DEF AccountsTyped, Clerk
    <3>2. clerk'[h].at = pc /\ \A g \in Handlers : g # h => clerk'[g] = clerk[g]
      BY <2>4, <3>1 DEF A!Writing, A!Goto, AccountsTyped, ClerkShape
    <3> QED
      BY <2>1, <2>4, <3>2, <1>a
  <2> QED
    BY <2>2, <2>3, <2>4
<1> QED
  BY <1>1, <1>2, <1>3, <1>4, <1>5, <1>6, <1>7, <1>8 DEF A!Next, A!UserStep, A!TokenStep

\* The keys a user has, with those a handler is about to write back, and the
\* handlers about to insert one.
Savers(u) == {h \in Handlers : clerk[h].at = "saveToken" /\ clerk[h].row.owner = u}
Held(u) == A!OwnedBy(u) \union {clerk[h].key : h \in Savers(u)}
Inserting(u) == {h \in Handlers : clerk[h].at = "insert" /\ clerk[h].row.owner = u}

\* Keys and insertions together keep to the limit, but for those that a failed
\* count let pass.
KeysCounted(u) ==
  /\ IsFiniteSet(Held(u))
  /\ Cardinality(Held(u)) + Cardinality(Inserting(u))
       <= MaxTokens + Cardinality(Handlers) - 1 + uncounted[u]

\* A bound on two finite sets is one on smaller sets.
LEMMA SmallerPair ==
  ASSUME NEW S, NEW T, NEW n \in Int, IsFiniteSet(S), IsFiniteSet(T),
         Cardinality(S) + Cardinality(T) <= n,
         NEW P \in SUBSET S, NEW Q \in SUBSET T
  PROVE  IsFiniteSet(P) /\ Cardinality(P) + Cardinality(Q) <= n
<1>1. /\ IsFiniteSet(P) /\ Cardinality(P) <= Cardinality(S)
      /\ IsFiniteSet(Q) /\ Cardinality(Q) <= Cardinality(T)
  BY FS_Subset
<1>2. /\ Cardinality(P) \in Nat /\ Cardinality(Q) \in Nat
      /\ Cardinality(S) \in Nat /\ Cardinality(T) \in Nat
  BY <1>1, FS_CardinalityType
<1> QED
  BY <1>1, <1>2

\* Accounts counts as FiniteSets does.
LEMMA AccountsCount == \A X : A!Cardinality(X) = Cardinality(X)
  BY DEF A!Cardinality, Cardinality

\* CreateToken's check: whoever passes it leaves room for a key of each handler.
LEMMA RoomForEach ==
  ASSUME NEW u \in Users, NEW h \in Handlers, IsFiniteSet(Handlers), MaxTokens \in Nat,
         IsFiniteSet(A!OwnedBy(u)), Cardinality(A!OwnedBy(u)) < MaxTokens,
         NEW I \in SUBSET Handlers, I \intersect Savers(u) = {}
  PROVE  Cardinality(Held(u)) + Cardinality(I) <= MaxTokens + Cardinality(Handlers) - 1
<1> DEFINE K == {clerk[g].key : g \in Savers(u)}
           f == [g \in Savers(u) |-> clerk[g].key]
<1>1. IsFiniteSet(Savers(u)) /\ IsFiniteSet(I)
  BY FS_Subset DEF Savers
<1>2. f \in Surjection(Savers(u), K)
  BY DEF Surjection
<1> HIDE DEF f
<1>3. IsFiniteSet(K) /\ Cardinality(K) <= Cardinality(Savers(u))
  BY <1>1, <1>2, FS_Surjection
<1>4. Cardinality(Held(u)) <= Cardinality(A!OwnedBy(u)) + Cardinality(K)
  <2> HIDE DEF K
  <2>1. /\ IsFiniteSet(A!OwnedBy(u) \intersect K)
        /\ Cardinality(A!OwnedBy(u) \union K) =
             Cardinality(A!OwnedBy(u)) + Cardinality(K) - Cardinality(A!OwnedBy(u) \intersect K)
    BY <1>3, FS_Union, FS_Intersection
  <2>2. /\ Cardinality(A!OwnedBy(u) \intersect K) \in Nat
        /\ Cardinality(A!OwnedBy(u)) \in Nat /\ Cardinality(K) \in Nat
    BY <2>1, <1>3, FS_CardinalityType
  <2>3. Held(u) = A!OwnedBy(u) \union K
    BY DEF Held, K
  <2> QED
    BY <2>1, <2>2, <2>3
<1>5. Cardinality(Savers(u)) + Cardinality(I) <= Cardinality(Handlers)
  <2>1. Cardinality(Savers(u) \union I) =
          Cardinality(Savers(u)) + Cardinality(I) - Cardinality(Savers(u) \intersect I)
    BY <1>1, FS_Union
  <2>2. Savers(u) \intersect I = {} /\ Savers(u) \union I \in SUBSET Handlers
    BY DEF Savers
  <2>3. Cardinality(Savers(u) \union I) <= Cardinality(Handlers)
    BY <2>2, FS_Subset
  <2>4. Cardinality(Savers(u)) \in Nat /\ Cardinality(I) \in Nat
    BY <1>1, FS_CardinalityType
  <2>5. Cardinality(Savers(u) \intersect I) = 0
    BY <2>2, FS_EmptySet
  <2>6. Cardinality(Handlers) \in Nat
    BY FS_CardinalityType
  <2> QED
    BY <2>1, <2>3, <2>4, <2>5, <2>6
<1>6. /\ Cardinality(Savers(u)) \in Nat /\ Cardinality(I) \in Nat /\ Cardinality(Handlers) \in Nat
      /\ Cardinality(A!OwnedBy(u)) \in Nat /\ Cardinality(K) \in Nat
  BY <1>1, <1>3, FS_CardinalityType
<1>7. IsFiniteSet(Held(u))
  BY <1>3, FS_Union DEF Held
<1>8. Cardinality(Held(u)) \in Nat
  BY <1>7, FS_CardinalityType
<1> HIDE DEF K
<1> QED
  BY <1>3, <1>4, <1>5, <1>6, <1>8

\* The limit on keys, which leaves one for each other handler, is kept.
LEMMA KeysCountedStep ==
  ASSUME AccountsTyped, IsFiniteSet(Handlers), MaxTokens \in Nat, A!Next,
         NEW u \in Users, KeysCounted(u)
  PROVE  KeysCounted(u)'
<1> USE DEF A!histories
<1> DEFINE n == MaxTokens + Cardinality(Handlers) - 1 + uncounted[u]
<1>0. /\ n \in Int /\ Inserting(u) \in SUBSET Handlers /\ IsFiniteSet(Inserting(u))
      /\ \A h \in Handlers : clerk[h] \in Clerk
  BY FS_CardinalityType, FS_Subset DEF Inserting, AccountsTyped
\* Failed counts are never forgotten.
<1>z. uncounted[u] \in Nat /\ uncounted'[u] \in Nat /\ uncounted[u] <= uncounted'[u]
  <2>1. ASSUME NEW h \in Handlers, A!CountTokens(h)
        PROVE  uncounted' = uncounted \/ uncounted' = [uncounted EXCEPT ![clerk[h].caller] = @ + 1]
    BY <2>1 DEF A!CountTokens
  <2>2. ASSUME NEW h \in Handlers, A!UserStep(h) \/ A!Fail(h)
        PROVE  uncounted' = uncounted
    BY <2>2 DEF A!UserStep, A!Register, A!UserAuth, A!ReadUser, A!DeleteUser, A!CreateUser,
                A!SaveUser, A!Fail
  <2>3. ASSUME NEW h \in Handlers, A!TokenStep(h), ~A!CountTokens(h)
        PROVE  uncounted' = uncounted
    BY <2>3 DEF A!TokenStep, A!InsertToken, A!ReadToken, A!DeleteToken, A!SaveToken
  <2>4. ASSUME NEW v \in Users, A!Login(v)
        PROVE  uncounted' = uncounted
    BY <2>4 DEF A!Login
  <2>5. uncounted' = uncounted \/ \E v : uncounted' = [uncounted EXCEPT ![v] = @ + 1]
    BY <2>1, <2>2, <2>3, <2>4 DEF A!Next
  <2> QED
    BY <2>5 DEF AccountsTyped
<1>y. ASSUME IsFiniteSet(Held(u)'), Cardinality(Held(u)') + Cardinality(Inserting(u)') <= n
      PROVE  KeysCounted(u)'
  <2>1. /\ Cardinality(Held(u)') \in Nat /\ Cardinality(Handlers) \in Nat
        /\ Cardinality(Inserting(u)') \in Nat
    <3>1. Inserting(u)' \in SUBSET Handlers
      BY DEF Inserting
    <3> QED
      BY <1>y, <3>1, FS_CardinalityType, FS_Subset
  <2>2. n <= MaxTokens + Cardinality(Handlers) - 1 + uncounted'[u]
    BY <1>z, <2>1
  <2> QED
    BY <1>0, <1>y, <1>z, <2>1, <2>2 DEF KeysCounted
<1>a. ASSUME Held(u)' \subseteq Held(u), Inserting(u)' \subseteq Inserting(u)
      PROVE  KeysCounted(u)'
  BY <1>a, <1>0, <1>y, SmallerPair DEF KeysCounted
\* A step of a handler that leaves the keys alone and writes none.
<1>b. ASSUME NEW h \in Handlers, tokens' = tokens,
             clerk'[h].at \notin {"saveToken", "insert"},
             \A g \in Handlers : g # h => clerk'[g] = clerk[g]
      PROVE  KeysCounted(u)'
  <2>1. A!OwnedBy(u)' = A!OwnedBy(u)
    BY <1>b DEF A!OwnedBy, A!Live
  <2>2. \A g \in Savers(u)' : g \in Savers(u) /\ clerk'[g].key = clerk[g].key
    BY <1>b DEF Savers
  <2>3. Held(u)' \subseteq Held(u)
    BY <2>1, <2>2 DEF Held
  <2>4. Inserting(u)' \subseteq Inserting(u)
    BY <1>b DEF Inserting
  <2> QED
    BY <2>3, <2>4, <1>a
<1>1. ASSUME NEW v \in Users, A!Login(v)
      PROVE  KeysCounted(u)'
  BY <1>1, <1>a DEF A!Login, Held, Inserting, Savers, A!OwnedBy, A!Live
<1>2. ASSUME NEW h \in Handlers, A!UserStep(h) \/ A!Fail(h)
      PROVE  KeysCounted(u)'
  <2>1. tokens' = tokens
    BY <1>2 DEF A!UserStep, A!Register, A!UserAuth, A!ReadUser, A!DeleteUser, A!CreateUser, A!SaveUser,
                A!Fail
  <2>2. \/ A!Goto(h, A!Idle)
        \/ \E v \in Users :
             A!Goto(h, [A!Idle EXCEPT !.at = "in", !.caller = v, !.role = users[v].role])
        \/ \E key, row : A!Writing(h, "create", key, row) \/ A!Writing(h, "saveUser", key, row)
    <3>1. ASSUME NEW v \in Users, A!Register(h, v) \/ A!ReadUser(h, v)
          PROVE  \E key, row : A!Writing(h, "create", key, row) \/ A!Writing(h, "saveUser", key, row)
      BY <3>1 DEF A!Register, A!ReadUser
    <3>2. ASSUME \/ \E v \in Users : A!DeleteUser(h, v)
                 \/ A!CreateUser(h) \/ A!SaveUser(h) \/ A!Fail(h)
          PROVE  A!Goto(h, A!Idle)
      BY <3>2 DEF A!DeleteUser, A!CreateUser, A!SaveUser, A!Fail
    <3>3. ASSUME NEW v \in Users, A!UserAuth(h, v)
          PROVE  A!Goto(h, [A!Idle EXCEPT !.at = "in", !.caller = v, !.role = users[v].role])
      BY <3>3 DEF A!UserAuth
    <3> QED
      BY <1>2, <3>1, <3>2, <3>3 DEF A!UserStep
  <2>3. clerk[h] \in ClerkShape
    BY <1>0 DEF Clerk
  <2>4. ASSUME NEW v, clerk' = [clerk EXCEPT ![h] = v], v.at \notin {"saveToken", "insert"}
        PROVE  KeysCounted(u)'
    BY <2>1, <2>4, <1>b DEF AccountsTyped
  <2>5. /\ A!Idle.at = "idle"
        /\ \A v \in Users :
             [A!Idle EXCEPT !.at = "in", !.caller = v, !.role = users[v].role].at = "in"
    BY DEF A!Idle
  <2>6. \A pc, key, row : [clerk[h] EXCEPT !.at = pc, !.key = key, !.row = row].at = pc
    BY <2>3 DEF ClerkShape
  <2> QED
    <3>1. CASE A!Goto(h, A!Idle)
      BY <3>1, <2>4, <2>5 DEF A!Goto
    <3>2. ASSUME NEW v \in Users,
                 A!Goto(h, [A!Idle EXCEPT !.at = "in", !.caller = v, !.role = users[v].role])
          PROVE  KeysCounted(u)'
      <4> DEFINE x == [A!Idle EXCEPT !.at = "in", !.caller = v, !.role = users[v].role]
      <4>1. clerk' = [clerk EXCEPT ![h] = x] /\ x.at = "in"
        BY <3>2, <2>5 DEF A!Goto
      <4> HIDE DEF x
      <4> QED
        BY <4>1, <2>4
    <3>3. ASSUME NEW key, NEW row, NEW pc \in {"create", "saveUser"}, A!Writing(h, pc, key, row)
          PROVE  KeysCounted(u)'
      <4> DEFINE x == [clerk[h] EXCEPT !.at = pc, !.key = key, !.row = row]
      <4>1. clerk' = [clerk EXCEPT ![h] = x] /\ x.at = pc
        BY <3>3, <2>6 DEF A!Writing, A!Goto
      <4> HIDE DEF x
      <4> QED
        BY <4>1, <2>4
    <3> QED
      BY <2>2, <3>1, <3>2, <3>3
<1>3. ASSUME NEW h \in Handlers, NEW k \in Tokens, A!InsertToken(h, k)
      PROVE  KeysCounted(u)'
  <2>1. /\ clerk[h].at = "insert" /\ clerk[h].row \in TokenRow /\ tokens[k] = NoRow
        /\ tokens' = [tokens EXCEPT ![k] = clerk[h].row]
    BY <1>3, <1>0 DEF A!InsertToken, A!At, Clerk, ClerkOK
  <2>2. /\ \A g \in Handlers : g # h => clerk'[g] = clerk[g]
        /\ clerk'[h].at # "insert"
        /\ clerk'[h].at = "saveToken" => clerk'[h].key = k /\ clerk'[h].row = clerk[h].row
    BY <1>3, <2>1, ClerkWriting, ClerkEnds DEF A!InsertToken
  <2>3. CASE clerk[h].row.owner # u
    <3>1. A!OwnedBy(u)' \subseteq A!OwnedBy(u)
      BY <2>1, <2>3 DEF A!OwnedBy, A!Live, AccountsTyped
    <3>2. \A g \in Savers(u)' : g \in Savers(u) /\ clerk'[g].key = clerk[g].key
      BY <2>2, <2>3 DEF Savers
    <3>3. Held(u)' \subseteq Held(u) /\ Inserting(u)' \subseteq Inserting(u)
      BY <2>2, <3>1, <3>2 DEF Held, Inserting
    <3> QED
      BY <3>3, <1>a
  <2>4. CASE clerk[h].row.owner = u
    <3>1. A!OwnedBy(u)' \subseteq A!OwnedBy(u) \union {k}
      BY <2>1 DEF A!OwnedBy, A!Live, AccountsTyped
    <3>2. \A g \in Savers(u)' : \/ clerk'[g].key = k
                                \/ g \in Savers(u) /\ clerk'[g].key = clerk[g].key
      BY <2>2 DEF Savers
    <3>3. Held(u)' \subseteq Held(u) \union {k}
      BY <3>1, <3>2 DEF Held
    <3>4. Inserting(u)' \subseteq Inserting(u) \ {h} /\ h \in Inserting(u)
      BY <2>1, <2>2, <2>4 DEF Inserting
    <3>5. /\ IsFiniteSet(Held(u) \union {k})
          /\ Cardinality(Held(u) \union {k}) <= Cardinality(Held(u)) + 1
          /\ IsFiniteSet(Inserting(u) \ {h})
          /\ Cardinality(Inserting(u) \ {h}) = Cardinality(Inserting(u)) - 1
      <4>1. IsFiniteSet(Held(u)) /\ Cardinality(Held(u)) \in Nat
        BY FS_CardinalityType DEF KeysCounted
      <4>2. /\ IsFiniteSet(Held(u) \union {k})
            /\ Cardinality(Held(u) \union {k}) =
                 IF k \in Held(u) THEN Cardinality(Held(u)) ELSE Cardinality(Held(u)) + 1
        BY <4>1, FS_AddElement
      <4>3. /\ IsFiniteSet(Inserting(u) \ {h})
            /\ Cardinality(Inserting(u) \ {h}) = Cardinality(Inserting(u)) - 1
        BY <1>0, <3>4, FS_RemoveElement
      <4> QED
        BY <4>1, <4>2, <4>3
    <3>6. Cardinality(Held(u) \union {k}) + Cardinality(Inserting(u) \ {h}) <= n
      <4>1. /\ Cardinality(Held(u)) \in Nat /\ Cardinality(Inserting(u)) \in Nat
            /\ Cardinality(Held(u) \union {k}) \in Nat
        BY <1>0, <3>5, FS_CardinalityType DEF KeysCounted
      <4> QED
        BY <1>0, <3>5, <4>1 DEF KeysCounted
    <3>7. /\ IsFiniteSet(Held(u)')
          /\ Cardinality(Held(u)') + Cardinality(Inserting(u)') <= n
      BY <1>0, <3>3, <3>4, <3>5, <3>6, SmallerPair
    <3> QED
      BY <3>7, <1>y
  <2> QED
    BY <2>3, <2>4
<1>4. ASSUME NEW h \in Handlers, NEW k \in Tokens, A!ReadToken(h, k)
      PROVE  KeysCounted(u)'
  <2>1. tokens[k] \in TokenRow /\ tokens' = tokens /\ k \in A!OwnedBy(tokens[k].owner)
    BY <1>4 DEF A!ReadToken, A!OwnedBy, A!Live, AccountsTyped
  <2>2. /\ clerk'[h].at = "saveToken" /\ clerk'[h].key = k /\ clerk'[h].row = tokens[k]
        /\ \A g \in Handlers : g # h => clerk'[g] = clerk[g]
    BY <1>4, <2>1, ClerkWriting DEF A!ReadToken
  <2>3. A!OwnedBy(u)' = A!OwnedBy(u)
    BY <2>1 DEF A!OwnedBy, A!Live
  <2>4. \A g \in Savers(u)' : \/ clerk'[g].key \in A!OwnedBy(u)
                              \/ g \in Savers(u) /\ clerk'[g].key = clerk[g].key
    BY <2>1, <2>2 DEF Savers
  <2>5. Held(u)' \subseteq Held(u) /\ Inserting(u)' \subseteq Inserting(u)
    BY <2>2, <2>3, <2>4 DEF Held, Inserting
  <2> QED
    BY <2>5, <1>a
<1>5. ASSUME NEW h \in Handlers, NEW k \in Tokens, A!DeleteToken(h, k)
      PROVE  KeysCounted(u)'
  <2>1. /\ tokens[k] \in TokenRow /\ tokens' = [tokens EXCEPT ![k].deleted = TRUE]
        /\ clerk'[h].at = "idle" /\ \A g \in Handlers : g # h => clerk'[g] = clerk[g]
    BY <1>5, ClerkEnds DEF A!DeleteToken, A!OwnedBy, A!Live, AccountsTyped
  <2>2. tokens'[k] = [tokens[k] EXCEPT !.deleted = TRUE] /\ \A j \in Tokens : j # k => tokens'[j] = tokens[j]
    BY <2>1 DEF AccountsTyped
  <2>3. tokens'[k].deleted
    BY <2>1, <2>2 DEF TokenRow
  <2>4. A!OwnedBy(u)' \subseteq A!OwnedBy(u)
    BY <2>2, <2>3 DEF A!OwnedBy, A!Live
  <2>5. \A g \in Savers(u)' : g \in Savers(u) /\ clerk'[g].key = clerk[g].key
    BY <2>1 DEF Savers
  <2>6. Held(u)' \subseteq Held(u) /\ Inserting(u)' \subseteq Inserting(u)
    BY <2>1, <2>4, <2>5 DEF Held, Inserting
  <2> QED
    BY <2>6, <1>a
<1>6. ASSUME NEW h \in Handlers, A!CountTokens(h)
      PROVE  KeysCounted(u)'
  <2>1. tokens' = tokens /\ clerk[h].caller \in Users /\ clerk[h].at = "in"
    BY <1>6, <1>0 DEF A!CountTokens, A!At, Clerk, ClerkOK
  <2> DEFINE v == clerk[h].caller
             found(broken) == IF broken THEN 0 ELSE A!Cardinality(A!OwnedBy(v))
             row == [owner |-> v, deleted |-> FALSE]
  <2>2. PICK broken \in BOOLEAN :
          /\ IF A!MayHaveAnother(found(broken)) THEN A!Writing(h, "insert", NoRow, row)
             ELSE A!Goto(h, A!Idle)
          /\ uncounted' = IF broken THEN [uncounted EXCEPT ![v] = @ + 1] ELSE uncounted
    BY <1>6 DEF A!CountTokens
  <2>3. CASE A!Goto(h, A!Idle)
    BY <2>1, <2>3, <1>b, ClerkEnds
  <2>4. CASE A!MayHaveAnother(found(broken)) /\ A!Writing(h, "insert", NoRow, row)
    <3>1. row \in TokenRow
      BY <2>1 DEF TokenRow
    <3>2. /\ clerk'[h].at = "insert" /\ clerk'[h].row.owner = v
          /\ \A g \in Handlers : g # h => clerk'[g] = clerk[g]
      BY <2>1, <2>4, <3>1, ClerkWriting
    <3>3. A!OwnedBy(u)' = A!OwnedBy(u)
      BY <2>1 DEF A!OwnedBy, A!Live
    <3>4. Savers(u)' = Savers(u) /\ \A g \in Savers(u) : clerk'[g] = clerk[g]
      BY <2>1, <3>2 DEF Savers
    <3>5. Held(u)' = Held(u)
      BY <3>3, <3>4 DEF Held
    <3>6. CASE v # u
      <4>1. Inserting(u)' \subseteq Inserting(u)
        BY <3>2, <3>6 DEF Inserting
      <4> QED
        BY <3>5, <4>1, <1>a
    <3>7. CASE v = u /\ ~broken
      <4>1. IsFiniteSet(A!OwnedBy(u))
        BY FS_Subset DEF KeysCounted, Held
      <4>2. Cardinality(A!OwnedBy(u)) < MaxTokens
        BY <2>4, <3>7, AccountsCount DEF A!MayHaveAnother
      <4>3. Inserting(u)' \in SUBSET Handlers /\ Inserting(u)' \intersect Savers(u) = {}
        BY <3>4 DEF Inserting, Savers
      <4>4. Cardinality(Held(u)) + Cardinality(Inserting(u)')
              <= MaxTokens + Cardinality(Handlers) - 1
        BY <4>1, <4>2, <4>3, RoomForEach
      <4>5. IsFiniteSet(Held(u)) /\ IsFiniteSet(Inserting(u)')
        BY <4>3, FS_Subset DEF KeysCounted
      <4>6. /\ Cardinality(Held(u)) \in Nat /\ Cardinality(Inserting(u)') \in Nat
            /\ Cardinality(Handlers) \in Nat
        BY <4>5, FS_CardinalityType
      <4>7. Cardinality(Held(u)) + Cardinality(Inserting(u)') <= n
        BY <1>z, <4>4, <4>6
      <4> QED
        BY <1>y, <3>5, <4>5, <4>7
    <3>8. CASE v = u /\ broken
      <4>1. uncounted'[u] = uncounted[u] + 1
        BY <2>2, <3>8 DEF AccountsTyped
      <4>2. Inserting(u)' \subseteq Inserting(u) \union {h}
        BY <3>2 DEF Inserting
      <4>3. /\ IsFiniteSet(Inserting(u) \union {h})
            /\ Cardinality(Inserting(u) \union {h}) <= Cardinality(Inserting(u)) + 1
        <5>1. /\ IsFiniteSet(Inserting(u) \union {h})
              /\ Cardinality(Inserting(u) \union {h}) =
                   IF h \in Inserting(u) THEN Cardinality(Inserting(u)) ELSE Cardinality(Inserting(u)) + 1
          BY <1>0, FS_AddElement
        <5>2. Cardinality(Inserting(u)) \in Nat
          BY <1>0, FS_CardinalityType
        <5> QED
          BY <5>1, <5>2
      <4>4. /\ IsFiniteSet(Inserting(u)')
            /\ Cardinality(Inserting(u)') <= Cardinality(Inserting(u) \union {h})
        BY <4>2, <4>3, FS_Subset
      <4>5. /\ Cardinality(Inserting(u)') \in Nat /\ Cardinality(Inserting(u)) \in Nat
            /\ Cardinality(Inserting(u) \union {h}) \in Nat
            /\ Cardinality(Held(u)) \in Nat /\ Cardinality(Handlers) \in Nat
        BY <1>0, <4>3, <4>4, FS_CardinalityType DEF KeysCounted
      <4>6. Cardinality(Held(u)) + Cardinality(Inserting(u)) <= n
        BY DEF KeysCounted
      <4> HIDE DEF n
      <4>7. Cardinality(Held(u)) + Cardinality(Inserting(u)') <= n + 1
        BY <1>0, <4>3, <4>4, <4>5, <4>6
      <4>8. n + 1 = MaxTokens + Cardinality(Handlers) - 1 + uncounted'[u]
        BY <1>z, <4>1, <4>5 DEF n
      <4> QED
        BY <3>5, <4>7, <4>8 DEF KeysCounted
    <3> QED
      BY <3>6, <3>7, <3>8
  <2> QED
    BY <2>2, <2>3, <2>4
<1>7. ASSUME NEW h \in Handlers, A!SaveToken(h)
      PROVE  KeysCounted(u)'
  <2>1. /\ clerk[h].at = "saveToken" /\ clerk[h].key \in Tokens
        /\ tokens' = [tokens EXCEPT ![clerk[h].key] = clerk[h].row]
        /\ clerk'[h].at = "idle" /\ \A g \in Handlers : g # h => clerk'[g] = clerk[g]
    BY <1>7, <1>0, ClerkEnds DEF A!SaveToken, A!At, Clerk, ClerkOK
  <2>2. ASSUME NEW j \in A!OwnedBy(u)' PROVE j \in Held(u)
    <3>1. j \in Tokens /\ A!Live(tokens', j) /\ tokens'[j].owner = u
      BY DEF A!OwnedBy
    <3>2. CASE j = clerk[h].key
      <4>1. h \in Savers(u)
        BY <2>1, <3>1, <3>2 DEF Savers, AccountsTyped
      <4> QED
        BY <3>2, <4>1 DEF Held
    <3>3. CASE j # clerk[h].key
      <4>1. tokens'[j] = tokens[j]
        BY <2>1, <3>1, <3>3 DEF AccountsTyped
      <4> QED
        BY <3>1, <4>1 DEF Held, A!OwnedBy, A!Live
    <3> QED
      BY <3>2, <3>3
  <2>3. \A g \in Savers(u)' : g \in Savers(u) /\ clerk'[g].key = clerk[g].key
    BY <2>1 DEF Savers
  <2>4. Held(u)' \subseteq Held(u) /\ Inserting(u)' \subseteq Inserting(u)
    BY <2>1, <2>2, <2>3 DEF Held, Inserting
  <2> QED
    BY <2>4, <1>a
<1> QED
  BY <1>1, <1>2, <1>3, <1>4, <1>5, <1>6, <1>7 DEF A!Next, A!TokenStep

\* The inductive invariant of Accounts.
AccountsInv ==
  /\ AccountsTyped
  /\ RolesHeld
  /\ \A u \in Users : KeysCounted(u)

\* The tables begin with one root and no key.
LEMMA AccountsInit ==
  ASSUME A!Init, ConsoleAssumption
  PROVE  AccountsInv
<1>1. AccountsTyped
  BY AccountsTypedInit DEF ConsoleAssumption
<1>2. RolesHeld
  BY DEF A!Init, RolesHeld, A!RolesWereGranted, A!FirstRow, A!Idle
<1>3. ASSUME NEW u \in Users
      PROVE  KeysCounted(u)
  <2>1. A!OwnedBy(u) = {} /\ Savers(u) = {} /\ Inserting(u) = {}
    BY DEF A!Init, A!OwnedBy, A!Live, Savers, Inserting, A!Idle
  <2>2. Held(u) = {} /\ uncounted[u] = 0
    BY <2>1 DEF Held, A!Init
  <2>3. Cardinality(Handlers) \in Nat /\ Cardinality(Handlers) # 0
    BY FS_CardinalityType, FS_EmptySet DEF ConsoleAssumption
  <2> QED
    BY <2>1, <2>2, <2>3, FS_EmptySet DEF KeysCounted, ConsoleAssumption
<1> QED
  BY <1>1, <1>2, <1>3 DEF AccountsInv

\* The steps of the handlers of users and tokens.
LEMMA AccountsStep ==
  ASSUME AccountsInv, ConsoleAssumption, [A!Next]_accounts
  PROVE  AccountsInv'
<1>1. CASE A!Next
  BY <1>1, AccountsTypedStep, RolesHeldStep, KeysCountedStep DEF AccountsInv, ConsoleAssumption
<1>2. CASE UNCHANGED accounts
  BY <1>2 DEF accounts, A!histories, AccountsInv, AccountsTyped, RolesHeld, A!RolesWereGranted, KeysCounted, Held,
              Inserting, Savers, A!OwnedBy, A!Live
<1> QED
  BY <1>1, <1>2

\* What the invariant says of the limit.
LEMMA AccountsLimit ==
  ASSUME AccountsInv, ConsoleAssumption
  PROVE  A!TokenLimit
<1>1. ASSUME NEW u \in Users
      PROVE  Cardinality(A!OwnedBy(u)) <= MaxTokens + Cardinality(Handlers) - 1 + uncounted[u]
  <2>1. /\ IsFiniteSet(A!OwnedBy(u)) /\ Cardinality(A!OwnedBy(u)) <= Cardinality(Held(u))
        /\ IsFiniteSet(Inserting(u)) /\ IsFiniteSet(Held(u))
    <3>1. IsFiniteSet(Held(u)) /\ A!OwnedBy(u) \in SUBSET Held(u)
      BY DEF AccountsInv, KeysCounted, Held
    <3>2. IsFiniteSet(Handlers) /\ Inserting(u) \in SUBSET Handlers
      BY DEF ConsoleAssumption, Inserting
    <3> QED
      BY <3>1, <3>2, FS_Subset
  <2>2. /\ Cardinality(A!OwnedBy(u)) \in Nat /\ Cardinality(Held(u)) \in Nat
        /\ Cardinality(Inserting(u)) \in Nat /\ Cardinality(Handlers) \in Nat
    BY <2>1, FS_CardinalityType DEF ConsoleAssumption
  <2>3. uncounted[u] \in Nat
    BY DEF AccountsInv, AccountsTyped
  <2> QED
    BY <2>1, <2>2, <2>3 DEF AccountsInv, KeysCounted, ConsoleAssumption
<1> QED
  BY <1>1, AccountsCount DEF A!TokenLimit

-----------------------------------------------------------------------------
(* Channels *)

\* What a handler of channels may hold at each step.
OpOK(x) ==
  /\ x.at # "idle" => x.op \in {"create", "update", "test", "delete", "serve"}
  /\ x.at # "idle" /\ x.op # "serve" => x.id \in Ids
  /\ x.at = "probe" => x.op = "test"
  /\ x.at \in {"probe", "save", "clear", "fill"} => x.row \in C!Rows /\ x.op \notin {"serve", "delete"}
  /\ x.at = "fill" => \A m \in Models : x.left[m] <= x.row.models[m]
  /\ x.at \in {"unlist", "delete"} => x.op = "delete"
  /\ x.at \in {"refresh", "install"} => x.op # "test"

\* What each model is cached with.
Caches == [Models -> [Ids -> 0..MaxRepeats]]

\* Handlers of channels.
OpShape ==
  [at : {"idle", "probe", "save", "clear", "fill", "unlist", "delete", "refresh", "install"},
   op : {"create", "update", "test", "delete", "serve", NoRow}, id : Ids \union {NoRow},
   row : C!Rows \union {NoRow}, left : C!Lists, snapshot : Caches,
   alone : BOOLEAN]
Op == {x \in OpShape : OpOK(x)}

\* Channels, abilities, the cache and their handlers.
ChannelsTyped ==
  /\ channels \in [Ids -> C!Rows \union {NoRow, Gone}]
  /\ abilities \in [Ids -> [Models -> Nat]]
  /\ cache \in Caches
  /\ operator \in [Handlers -> Op]
  /\ ops \in 0..MaxOps /\ clean \in BOOLEAN /\ tidy \in SUBSET Ids

\* How far an operation that runs alone has brought the copies together.
Progress(x) ==
  /\ x.at = "probe" \/ (x.at = "save" /\ x.op = "test") => channels[x.id] = x.row
  /\ x.at \in {"clear", "fill"} => channels[x.id] = x.row
  /\ x.at = "fill" =>
       abilities[x.id] = [m \in Models |-> x.row.models[m] - x.left[m]]
  /\ x.at = "delete" => abilities[x.id] = C!NoModels
  /\ x.at \in {"refresh", "install"} /\ x.op # "serve" => abilities[x.id] = C!Expected(x.id)
  /\ x.at = "install" => x.snapshot = C!Routable(channels)
  /\ x.op = "test" /\ clean => cache = C!Routable(channels)

\* Operations that overlap another one, or fail, will say so at their end.
ChannelsAgree ==
  /\ \A h \in C!Running : operator[h].alone => C!Running = {h} /\ Progress(operator[h])
  /\ \A i \in tidy :
       \/ abilities[i] = C!Expected(i)
       \/ \E h \in C!Running : operator[h].id = i /\ operator[h].op # "serve"
  /\ C!Running = {} /\ clean => cache = C!Routable(channels)

\* A list without a model, and a cache without a channel.
LEMMA NothingListed ==
  /\ C!NoModels \in C!Lists /\ C!NoModels \in [Models -> Nat]
  /\ [m \in Models |-> C!NoChannels] \in Caches
  BY ConsoleAssumption DEF C!NoModels, C!NoChannels, C!Lists, Caches

\* What the refresh reads is a cache.
LEMMA RoutableCached == ASSUME ChannelsTyped PROVE C!Routable(channels) \in Caches
<1>1. ASSUME NEW i \in C!Enabled(channels), NEW m \in Models
      PROVE  channels[i].models[m] \in 0..MaxRepeats
  BY DEF ChannelsTyped, C!Enabled, C!Rows, C!Lists
<1>2. 0 \in 0..MaxRepeats
  BY ConsoleAssumption
<1> QED
  BY <1>1, <1>2 DEF C!Routable, Caches

\* What an operation holds when it begins, goes on and ends.
LEMMA OpBegins ==
  ASSUME ChannelsTyped, NEW h \in Handlers, NEW op, NEW pc, NEW i, NEW row,
         \/ op \in {"create", "update", "test"} /\ pc \in {"probe", "save", "clear"}
              /\ (pc = "probe" => op = "test") /\ i \in Ids /\ row \in C!Rows
         \/ op = "delete" /\ pc = "unlist" /\ i \in Ids /\ row = NoRow
         \/ op = "serve" /\ pc = "refresh" /\ i = NoRow /\ row = NoRow,
         C!Begin(h, op, pc, i, row)
  PROVE  /\ operator' \in [Handlers -> Op]
         /\ operator'[h].at = pc /\ operator'[h].op = op /\ operator'[h].id = i
         /\ operator'[h].row = row
         /\ operator'[h].alone <=> C!Running = {}
         /\ \A g \in Handlers : g # h =>
              /\ operator'[g].at = operator[g].at /\ operator'[g].op = operator[g].op
              /\ operator'[g].id = operator[g].id /\ operator'[g].left = operator[g].left
              /\ ~operator'[g].alone
         /\ C!Running' = C!Running \union {h} /\ h \notin C!Running
         /\ ops \in 0..(MaxOps - 1) /\ ops' = ops + 1
<1> DEFINE x == [C!Idle EXCEPT !.op = op, !.at = pc, !.id = i, !.row = row,
                               !.alone = (C!Running = {})]
           y(g) == [operator[g] EXCEPT !.alone = FALSE]
<1>1. operator' = [g \in Handlers |-> IF g = h THEN x ELSE y(g)]
  BY DEF C!Begin
<1>2. (C!Running = {}) \in BOOLEAN
  OBVIOUS
<1>3. /\ x \in OpShape
      /\ x.at = pc /\ x.op = op /\ x.id = i /\ x.row = row
      /\ x.alone = (C!Running = {})
  BY <1>2, NothingListed DEF C!Idle, OpShape
<1>4. \A g \in Handlers : operator[g] \in OpShape /\ OpOK(operator[g])
  BY DEF ChannelsTyped, Op
<1>5. \A g \in Handlers :
        /\ y(g) \in OpShape /\ ~y(g).alone
        /\ y(g).at = operator[g].at /\ y(g).op = operator[g].op /\ y(g).id = operator[g].id
        /\ y(g).left = operator[g].left /\ y(g).row = operator[g].row
  BY <1>4 DEF OpShape
<1> HIDE DEF x, y
<1>6. x \in Op /\ \A g \in Handlers : y(g) \in Op
  BY <1>3, <1>4, <1>5 DEF Op, OpOK
<1>7. operator' \in [Handlers -> Op] /\ operator'[h] = x /\ \A g \in Handlers : g # h => operator'[g] = y(g)
  BY <1>1, <1>6
<1>a. operator[h].at = "idle"
  BY DEF C!Begin, C!At
<1>8. C!Running' = C!Running \union {h} /\ h \notin C!Running
  <2>1. pc # "idle"
    OBVIOUS
  <2>2. \A g \in Handlers : operator'[g].at # "idle" <=> (operator[g].at # "idle" \/ g = h)
    BY <1>a, <1>3, <1>5, <1>7, <2>1
  <2> QED
    BY <1>a, <2>2 DEF C!Running, C!At
<1>9. ops \in 0..(MaxOps - 1) /\ ops' = ops + 1
  <2>1. ops \in Int /\ ops >= 0 /\ MaxOps \in Int
    BY ConsoleAssumption DEF ChannelsTyped
  <2>2. ops < MaxOps /\ ops' = ops + 1
    BY DEF C!Begin
  <2> QED
    BY <2>1, <2>2
<1> QED
  BY <1>3, <1>5, <1>7, <1>8, <1>9

\* A handler of channels goes on as x.
LEMMA OpMoves ==
  ASSUME ChannelsTyped, NEW h \in Handlers, NEW x \in Op, C!Goto(h, x)
  PROVE  /\ operator' \in [Handlers -> Op] /\ operator'[h] = x
         /\ \A g \in Handlers : g # h => operator'[g] = operator[g]
         /\ C!Running' = IF x.at = "idle" THEN C!Running \ {h} ELSE C!Running \union {h}
         /\ ops' = ops
<1>1. operator' = [operator EXCEPT ![h] = x] /\ ops' = ops
  BY DEF C!Goto
<1>2. operator' \in [Handlers -> Op] /\ operator'[h] = x
      /\ \A g \in Handlers : g # h => operator'[g] = operator[g]
  BY <1>1 DEF ChannelsTyped
<1> QED
  BY <1>1, <1>2 DEF C!Running, C!At

\* A handler of channels that has nothing to do.
LEMMA OpIdle == C!Idle \in Op /\ C!Idle.at = "idle"
  BY NothingListed DEF C!Idle, Op, OpShape, OpOK

\* The next step of an operation keeps what it holds.
LEMMA OpSteps ==
  ASSUME ChannelsTyped, NEW h \in Handlers, NEW pc,
         \/ operator[h].at = "probe" /\ pc = "save"
         \/ operator[h].at = "save" /\ pc = "clear"
         \/ operator[h].at = "fill" /\ operator[h].op # "test" /\ pc = "refresh"
         \/ operator[h].at = "unlist" /\ pc = "delete"
         \/ operator[h].at = "delete" /\ pc = "refresh",
         C!Step(h, pc)
  PROVE  /\ operator' \in [Handlers -> Op]
         /\ operator'[h].at = pc /\ operator'[h].op = operator[h].op
         /\ operator'[h].id = operator[h].id /\ operator'[h].row = operator[h].row
         /\ operator'[h].left = operator[h].left /\ operator'[h].alone = operator[h].alone
         /\ \A g \in Handlers : g # h => operator'[g] = operator[g]
         /\ C!Running' = C!Running /\ h \in C!Running
         /\ ops' = ops
<1> DEFINE x == [operator[h] EXCEPT !.at = pc]
<1>1. operator[h] \in OpShape /\ OpOK(operator[h])
  BY DEF ChannelsTyped, Op
<1>2. /\ x \in OpShape
      /\ x.at = pc /\ x.op = operator[h].op /\ x.id = operator[h].id /\ x.row = operator[h].row
      /\ x.left = operator[h].left /\ x.alone = operator[h].alone
  BY <1>1 DEF OpShape
<1>3. C!Goto(h, x)
  BY DEF C!Step
<1> HIDE DEF x
<1>4. x \in Op
  BY <1>1, <1>2 DEF Op, OpOK
<1>5. h \in C!Running
  BY DEF C!Running, C!At
<1> QED
  BY <1>2, <1>3, <1>4, <1>5, OpMoves

\* A handler has the abilities of some models left to fill in.
LEMMA OpFills ==
  ASSUME ChannelsTyped, NEW h \in Handlers, NEW left \in C!Lists,
         operator[h].at \in {"clear", "fill"},
         \A m \in Models : left[m] <= operator[h].row.models[m],
         C!Goto(h, [operator[h] EXCEPT !.at = "fill", !.left = left])
  PROVE  /\ operator' \in [Handlers -> Op]
         /\ operator'[h].at = "fill" /\ operator'[h].op = operator[h].op
         /\ operator'[h].id = operator[h].id /\ operator'[h].row = operator[h].row
         /\ operator'[h].left = left /\ operator'[h].alone = operator[h].alone
         /\ \A g \in Handlers : g # h => operator'[g] = operator[g]
         /\ C!Running' = C!Running /\ h \in C!Running
         /\ ops' = ops
<1> DEFINE x == [operator[h] EXCEPT !.at = "fill", !.left = left]
<1>1. operator[h] \in OpShape /\ OpOK(operator[h])
  BY DEF ChannelsTyped, Op
<1>3. /\ x \in OpShape
      /\ x.at = "fill" /\ x.op = operator[h].op /\ x.id = operator[h].id /\ x.row = operator[h].row
      /\ x.left = left /\ x.alone = operator[h].alone
  BY <1>1 DEF OpShape
<1> HIDE DEF x
<1>4. x \in Op
  BY <1>1, <1>3 DEF Op, OpOK
<1>5. h \in C!Running
  BY DEF C!Running, C!At
<1>6. C!Goto(h, x)
  BY DEF x
<1> QED
  BY <1>3, <1>4, <1>5, <1>6, OpMoves

\* What the copies agree on when an operation begins, goes on, ends or fails.
LEMMA AgreeBegins ==
  ASSUME ChannelsTyped, ChannelsAgree, NEW h \in Handlers, NEW i, tidy' = tidy,
         C!Running' = C!Running \union {h}, h \notin C!Running,
         operator'[h].id = i, operator'[h].alone <=> C!Running = {},
         \A g \in Handlers : g # h =>
           operator'[g].id = operator[g].id /\ operator'[g].op = operator[g].op /\ ~operator'[g].alone,
         \A j \in Ids : \/ j = i /\ operator'[h].op # "serve"
                        \/ channels'[j] = channels[j] /\ abilities'[j] = abilities[j],
         C!Running = {} => Progress(operator[h])'
  PROVE  ChannelsAgree'
<1>1. \A g \in C!Running' : operator'[g].alone => C!Running' = {g} /\ Progress(operator[g])'
  <2>1. C!Running \in SUBSET Handlers
    BY DEF C!Running
  <2> QED
    BY <2>1
<1>2. ASSUME NEW j \in tidy'
      PROVE  \/ (abilities[j] = C!Expected(j))'
             \/ \E g \in C!Running' : operator'[g].id = j /\ operator'[g].op # "serve"
  <2>1. j \in Ids /\ j \in tidy
    BY DEF ChannelsTyped
  <2>2. CASE j = i /\ operator'[h].op # "serve"
    BY <2>2
  <2>3. CASE channels'[j] = channels[j] /\ abilities'[j] = abilities[j]
    <3>1. (abilities[j] = C!Expected(j))' <=> abilities[j] = C!Expected(j)
      BY <2>3 DEF C!Expected, C!Present
    <3>2. CASE abilities[j] = C!Expected(j)
      BY <3>1, <3>2
    <3>3. CASE \E g \in C!Running : operator[g].id = j /\ operator[g].op # "serve"
      <4>1. PICK g \in C!Running : operator[g].id = j /\ operator[g].op # "serve"
        BY <3>3
      <4>2. g \in Handlers /\ g # h
        BY DEF C!Running
      <4> QED
        BY <4>1, <4>2
    <3> QED
      BY <2>1, <3>2, <3>3 DEF ChannelsAgree
  <2> QED
    BY <2>1, <2>2, <2>3
<1>3. C!Running' # {}
  OBVIOUS
<1> QED
  BY <1>1, <1>2, <1>3 DEF ChannelsAgree

\* A step of one that goes on keeps the agreement, if it keeps its own progress.
LEMMA AgreeGoesOn ==
  ASSUME ChannelsTyped, ChannelsAgree, NEW h \in C!Running, tidy' = tidy,
         C!Running' = C!Running, operator'[h].id = operator[h].id, operator'[h].op = operator[h].op,
         \A g \in Handlers : g # h => operator'[g] = operator[g],
         \A j \in Ids : \/ j = operator[h].id /\ operator[h].op # "serve"
                        \/ channels'[j] = channels[j] /\ abilities'[j] = abilities[j],
         operator'[h].alone => operator[h].alone,
         operator'[h].alone /\ Progress(operator[h]) => Progress(operator[h])'
  PROVE  ChannelsAgree'
<1>1. ASSUME NEW g \in C!Running', operator'[g].alone
      PROVE  C!Running' = {g} /\ Progress(operator[g])'
  <2>1. CASE g = h
    BY <1>1, <2>1 DEF ChannelsAgree
  <2>2. CASE g # h
    <3>1. operator[g].alone /\ g \in C!Running
      BY <1>1, <2>2 DEF C!Running
    <3> QED
      BY <2>2, <3>1 DEF ChannelsAgree
  <2> QED
    BY <2>1, <2>2
<1>2. ASSUME NEW j \in tidy'
      PROVE  \/ (abilities[j] = C!Expected(j))'
             \/ \E g \in C!Running' : operator'[g].id = j /\ operator'[g].op # "serve"
  <2>1. j \in Ids /\ j \in tidy
    BY DEF ChannelsTyped
  <2>2. CASE j = operator[h].id /\ operator[h].op # "serve"
    BY <2>2
  <2>3. CASE channels'[j] = channels[j] /\ abilities'[j] = abilities[j]
    <3>1. (abilities[j] = C!Expected(j))' <=> abilities[j] = C!Expected(j)
      BY <2>3 DEF C!Expected, C!Present
    <3>2. CASE abilities[j] = C!Expected(j)
      BY <3>1, <3>2
    <3>3. CASE \E g \in C!Running : operator[g].id = j /\ operator[g].op # "serve"
      <4>1. PICK g \in C!Running : operator[g].id = j /\ operator[g].op # "serve"
        BY <3>3
      <4>2. g \in Handlers
        BY DEF C!Running
      <4>3. operator'[g].id = j /\ operator'[g].op # "serve"
        BY <4>1, <4>2
      <4> QED
        BY <4>3
    <3> QED
      BY <2>1, <3>2, <3>3 DEF ChannelsAgree
  <2> QED
    BY <2>1, <2>2, <2>3
<1>3. C!Running' # {}
  OBVIOUS
<1> QED
  BY <1>1, <1>2, <1>3 DEF ChannelsAgree

\* The end of one keeps the agreement, if a channel is tidy only through one that
\* was alone.
LEMMA AgreeEnds ==
  ASSUME ChannelsTyped, ChannelsAgree, NEW h \in C!Running,
         C!Running' = C!Running \ {h}, channels' = channels, abilities' = abilities,
         \A g \in Handlers : g # h => operator'[g] = operator[g],
         \/ tidy' = tidy \ {operator[h].id}
         \/ tidy' = tidy /\ operator[h].op = "serve"
         \/ /\ tidy' = tidy \union {operator[h].id} /\ operator[h].alone
            /\ Progress(operator[h]) => abilities[operator[h].id] = C!Expected(operator[h].id),
         clean' => operator[h].alone /\ (Progress(operator[h]) => cache' = C!Routable(channels)')
  PROVE  ChannelsAgree'
<1>0. C!Running \in SUBSET Handlers
  BY DEF C!Running
<1>1. ASSUME NEW g \in C!Running', operator'[g].alone
      PROVE  C!Running' = {g} /\ Progress(operator[g])'
  <2>1. g \in C!Running /\ g # h /\ g \in Handlers
    BY <1>0
  <2>2. operator[g].alone
    BY <1>1, <2>1
  <2> QED
    BY <2>1, <2>2 DEF ChannelsAgree
<1>2. ASSUME NEW j \in tidy'
      PROVE  \/ (abilities[j] = C!Expected(j))'
             \/ \E g \in C!Running' : operator'[g].id = j /\ operator'[g].op # "serve"
  <2>1. (abilities[j] = C!Expected(j))' <=> abilities[j] = C!Expected(j)
    BY DEF C!Expected, C!Present
  <2>2. ASSUME j \in tidy, j # operator[h].id \/ operator[h].op = "serve"
        PROVE  \/ (abilities[j] = C!Expected(j))'
               \/ \E g \in C!Running' : operator'[g].id = j /\ operator'[g].op # "serve"
    <3>1. CASE abilities[j] = C!Expected(j)
      BY <2>1, <3>1
    <3>2. CASE \E g \in C!Running : operator[g].id = j /\ operator[g].op # "serve"
      <4>1. PICK g \in C!Running : operator[g].id = j /\ operator[g].op # "serve"
        BY <3>2
      <4>2. g \in Handlers /\ g # h
        BY <1>0, <2>2, <4>1
      <4>3. g \in C!Running' /\ operator'[g].id = j /\ operator'[g].op # "serve"
        BY <4>1, <4>2
      <4> QED
        BY <4>3
    <3> QED
      BY <2>2, <3>1, <3>2 DEF ChannelsAgree
  <2>3. CASE operator[h].alone /\ Progress(operator[h]) /\ j = operator[h].id
             /\ abilities[operator[h].id] = C!Expected(operator[h].id)
    BY <2>1, <2>3
  <2> QED
    BY <2>2, <2>3 DEF ChannelsAgree
<1>3. C!Running' = {} /\ clean' => cache' = C!Routable(channels)'
  BY DEF ChannelsAgree
<1> QED
  BY <1>1, <1>2, <1>3 DEF ChannelsAgree

\* The inductive invariant of Channels.
ChannelsInv == ChannelsTyped /\ ChannelsAgree

\* No channels, and nobody at work.
LEMMA ChannelsInit == C!Init => ChannelsInv
<1> SUFFICES ASSUME C!Init PROVE ChannelsInv
  OBVIOUS
<1> USE DEF C!Init
<1>1. C!Running = {}
  BY DEF C!Running, C!At, C!Idle
<1>3. ChannelsTyped
  BY NothingListed, ConsoleAssumption, OpIdle DEF ChannelsTyped
<1>4. ChannelsAgree
  <2>1. \A i \in Ids : abilities[i] = C!Expected(i)
    BY DEF C!Expected, C!Present
  <2>2. cache = C!Routable(channels)
    BY DEF C!Routable, C!Enabled, C!NoChannels
  <2> QED
    BY <1>1, <2>1, <2>2 DEF ChannelsAgree
<1> QED
  BY <1>3, <1>4 DEF ChannelsInv

\* Every step of the handlers keeps the invariant.
LEMMA ChannelsStep ==
  ASSUME ChannelsInv, [C!Next]_channel
  PROVE  ChannelsInv'
<1> USE DEF ChannelsInv
<1>u. CASE UNCHANGED channel
  <2>1. UNCHANGED <<channels, abilities, cache, operator, ops, clean, tidy>>
    BY <1>u DEF channel
  <2>2. ChannelsTyped'
    BY <2>1 DEF ChannelsTyped
  <2>3. ChannelsAgree'
    BY <2>1 DEF ChannelsAgree, C!Running, C!At, C!Expected, C!Present, C!Routable, C!Enabled, Progress
  <2> QED
    BY <2>2, <2>3
<1>1. ASSUME NEW h \in Handlers, NEW i \in Ids, NEW row \in C!Rows, C!Create(h, i, row)
      PROVE  ChannelsInv'
  <2>1. /\ C!Begin(h, "create", "clear", i, row)
        /\ channels' = [channels EXCEPT ![i] = row]
        /\ UNCHANGED <<abilities, cache, clean, tidy>>
    BY <1>1 DEF C!Create, C!history
  <2>2. /\ operator' \in [Handlers -> Op]
        /\ operator'[h].at = "clear" /\ operator'[h].op = "create" /\ operator'[h].id = i
        /\ operator'[h].row = row
        /\ operator'[h].alone <=> C!Running = {}
        /\ \A g \in Handlers : g # h =>
             /\ operator'[g].at = operator[g].at /\ operator'[g].op = operator[g].op
             /\ operator'[g].id = operator[g].id /\ operator'[g].left = operator[g].left
             /\ ~operator'[g].alone
        /\ C!Running' = C!Running \union {h} /\ h \notin C!Running
        /\ ops \in 0..(MaxOps - 1) /\ ops' = ops + 1
    BY <2>1, OpBegins
  <2>3. ChannelsTyped'
    BY <2>1, <2>2, ConsoleAssumption DEF ChannelsTyped
  <2>4. ChannelsAgree'
    <3>1. channels'[i] = row
      BY <2>1 DEF ChannelsTyped
    <3>2. C!Running = {} => Progress(operator[h])'
      BY <2>2, <3>1 DEF Progress
    <3>3. \A j \in Ids : j = i \/ (channels'[j] = channels[j] /\ abilities'[j] = abilities[j])
      BY <2>1 DEF ChannelsTyped
    <3> QED
      BY <2>1, <2>2, <3>2, <3>3, AgreeBegins
  <2> QED
    BY <2>3, <2>4
<1>2. ASSUME NEW h \in Handlers, NEW i \in Ids, NEW row \in C!Rows,
             C!Update(h, i, row) \/ C!Test(h, i)
      PROVE  ChannelsInv'
  <2> DEFINE op == IF C!Update(h, i, row) THEN "update" ELSE "test"
             pc == IF C!Update(h, i, row) THEN "save" ELSE "probe"
             r  == IF C!Update(h, i, row) THEN row ELSE channels[i]
  <2>1. /\ C!Begin(h, op, pc, i, r)
        /\ UNCHANGED <<channels, abilities, cache, clean, tidy>>
        /\ channels[i] \notin {NoRow, Gone}
    BY <1>2 DEF C!Update, C!Test, C!history, C!Present
  <2>0. \/ op = "update" /\ pc = "save"
        \/ op = "test" /\ pc = "probe" /\ r = channels[i]
    BY <2>1
  <2>9. r \in C!Rows
    BY <2>1 DEF ChannelsTyped
  <2> HIDE DEF op, pc, r
  <2>2. /\ operator' \in [Handlers -> Op]
        /\ operator'[h].at = pc /\ operator'[h].op = op /\ operator'[h].id = i
        /\ operator'[h].row = r
        /\ operator'[h].alone <=> C!Running = {}
        /\ \A g \in Handlers : g # h =>
             /\ operator'[g].at = operator[g].at /\ operator'[g].op = operator[g].op
             /\ operator'[g].id = operator[g].id /\ operator'[g].left = operator[g].left
             /\ ~operator'[g].alone
        /\ C!Running' = C!Running \union {h} /\ h \notin C!Running
        /\ ops \in 0..(MaxOps - 1) /\ ops' = ops + 1
    BY <2>0, <2>1, <2>9, OpBegins
  <2>3. ChannelsTyped'
    BY <2>1, <2>2, ConsoleAssumption DEF ChannelsTyped
  <2>4. ChannelsAgree'
    <3>1. C!Running = {} => Progress(operator[h])'
      <4>1. C!Routable(channels)' = C!Routable(channels)
        BY <2>1 DEF C!Routable, C!Enabled
      <4>2. C!Running = {} /\ clean => cache = C!Routable(channels)
        BY DEF ChannelsAgree
      <4> QED
        BY <2>0, <2>1, <2>2, <4>1, <4>2 DEF Progress
    <3>2. \A j \in Ids : channels'[j] = channels[j] /\ abilities'[j] = abilities[j]
      BY <2>1
    <3> QED
      BY <2>1, <2>2, <3>1, <3>2, AgreeBegins
  <2> QED
    BY <2>3, <2>4
<1>3. ASSUME NEW h \in Handlers, NEW i \in Ids, C!Delete(h, i)
      PROVE  ChannelsInv'
  <2>1. /\ C!Begin(h, "delete", "unlist", i, NoRow)
        /\ UNCHANGED <<channels, abilities, cache, clean, tidy>>
    BY <1>3 DEF C!Delete, C!history
  <2>2. /\ operator' \in [Handlers -> Op]
        /\ operator'[h].at = "unlist" /\ operator'[h].op = "delete" /\ operator'[h].id = i
        /\ operator'[h].alone <=> C!Running = {}
        /\ \A g \in Handlers : g # h =>
             /\ operator'[g].at = operator[g].at /\ operator'[g].op = operator[g].op
             /\ operator'[g].id = operator[g].id /\ operator'[g].left = operator[g].left
             /\ ~operator'[g].alone
        /\ C!Running' = C!Running \union {h} /\ h \notin C!Running
        /\ ops \in 0..(MaxOps - 1) /\ ops' = ops + 1
    BY <2>1, OpBegins
  <2>3. ChannelsTyped'
    BY <2>1, <2>2, ConsoleAssumption DEF ChannelsTyped
  <2>4. ChannelsAgree'
    <3>2. Progress(operator[h])'
      BY <2>2 DEF Progress
    <3>3. \A j \in Ids : channels'[j] = channels[j] /\ abilities'[j] = abilities[j]
      BY <2>1
    <3> QED
      BY <2>1, <2>2, <3>2, <3>3, AgreeBegins
  <2> QED
    BY <2>3, <2>4
<1>n. ASSUME NEW h \in Handlers, C!DeleteAbilities(h)
      PROVE  ChannelsInv'
  <2>1. /\ operator[h].at = "unlist" /\ C!Step(h, "delete")
        /\ abilities' = [abilities EXCEPT ![operator[h].id] = C!NoModels]
        /\ UNCHANGED <<channels, cache, clean, tidy>>
    BY <1>n DEF C!DeleteAbilities, C!history, C!At
  <2>2. /\ operator' \in [Handlers -> Op]
        /\ operator'[h].at = "delete" /\ operator'[h].op = operator[h].op
        /\ operator'[h].id = operator[h].id
        /\ operator'[h].alone = operator[h].alone
        /\ \A g \in Handlers : g # h => operator'[g] = operator[g]
        /\ C!Running' = C!Running /\ h \in C!Running /\ ops' = ops
    BY <2>1, OpSteps
  <2>6. operator[h].id \in Ids /\ operator[h].op = "delete"
    BY <2>1 DEF ChannelsTyped, Op, OpOK
  <2>3. ChannelsTyped'
    BY <2>1, <2>2, NothingListed DEF ChannelsTyped
  <2>7. /\ abilities'[operator[h].id] = C!NoModels
        /\ \A j \in Ids : j # operator[h].id => abilities'[j] = abilities[j]
    BY <2>1, <2>6 DEF ChannelsTyped
  <2>4. ChannelsAgree'
    <3>2. Progress(operator[h]) => Progress(operator[h])'
      BY <2>1, <2>2, <2>6, <2>7 DEF Progress
    <3> QED
      BY <2>1, <2>2, <2>6, <2>7, <3>2, AgreeGoesOn
  <2> QED
    BY <2>3, <2>4
<1>4. ASSUME NEW h \in Handlers, NEW m \in Models, C!Serve(h, m)
      PROVE  ChannelsInv'
  <2>1. /\ C!Begin(h, "serve", "refresh", NoRow, NoRow)
        /\ UNCHANGED <<channels, abilities, cache, clean, tidy>>
    BY <1>4 DEF C!Serve, C!history
  <2>2. /\ operator' \in [Handlers -> Op]
        /\ operator'[h].at = "refresh" /\ operator'[h].op = "serve" /\ operator'[h].id = NoRow
        /\ operator'[h].alone <=> C!Running = {}
        /\ \A g \in Handlers : g # h =>
             /\ operator'[g].at = operator[g].at /\ operator'[g].op = operator[g].op
             /\ operator'[g].id = operator[g].id /\ operator'[g].left = operator[g].left
             /\ ~operator'[g].alone
        /\ C!Running' = C!Running \union {h} /\ h \notin C!Running
        /\ ops \in 0..(MaxOps - 1) /\ ops' = ops + 1
    BY <2>1, OpBegins
  <2>3. ChannelsTyped'
    BY <2>1, <2>2, ConsoleAssumption DEF ChannelsTyped
  <2>4. ChannelsAgree'
    <3>2. Progress(operator[h])'
      BY <2>2 DEF Progress
    <3>3. \A j \in Ids : channels'[j] = channels[j] /\ abilities'[j] = abilities[j]
      BY <2>1
    <3> QED
      BY <2>1, <2>2, <3>2, <3>3, AgreeBegins
  <2> QED
    BY <2>3, <2>4
<1>5. ASSUME NEW h \in Handlers, C!ProbeAnswers(h)
      PROVE  ChannelsInv'
  <2>1. /\ operator[h].at = "probe" /\ C!Step(h, "save")
        /\ UNCHANGED <<channels, abilities, cache, clean, tidy>>
    BY <1>5 DEF C!ProbeAnswers, C!history, C!At
  <2>2. /\ operator' \in [Handlers -> Op]
        /\ operator'[h].at = "save" /\ operator'[h].op = operator[h].op
        /\ operator'[h].id = operator[h].id /\ operator'[h].row = operator[h].row
        /\ operator'[h].alone = operator[h].alone
        /\ \A g \in Handlers : g # h => operator'[g] = operator[g]
        /\ C!Running' = C!Running /\ h \in C!Running /\ ops' = ops
    BY <2>1, OpSteps
  <2>3. ChannelsTyped'
    BY <2>1, <2>2 DEF ChannelsTyped
  <2>4. ChannelsAgree'
    <3>1. C!Routable(channels)' = C!Routable(channels)
      BY <2>1 DEF C!Routable, C!Enabled
    <3>2. Progress(operator[h]) => Progress(operator[h])'
      BY <2>1, <2>2, <3>1 DEF Progress
    <3> QED
      BY <2>1, <2>2, <3>2, AgreeGoesOn
  <2> QED
    BY <2>3, <2>4
<1>6. ASSUME NEW h \in Handlers, C!Save(h)
      PROVE  ChannelsInv'
  <2>1. /\ operator[h].at = "save" /\ C!Step(h, "clear")
        /\ channels' = [channels EXCEPT ![operator[h].id] = operator[h].row]
        /\ UNCHANGED <<abilities, cache, clean, tidy>>
    BY <1>6 DEF C!Save, C!history, C!At
  <2>2. /\ operator' \in [Handlers -> Op]
        /\ operator'[h].at = "clear" /\ operator'[h].op = operator[h].op
        /\ operator'[h].id = operator[h].id /\ operator'[h].row = operator[h].row
        /\ operator'[h].alone = operator[h].alone
        /\ \A g \in Handlers : g # h => operator'[g] = operator[g]
        /\ C!Running' = C!Running /\ h \in C!Running /\ ops' = ops
    BY <2>1, OpSteps
  <2>6. operator[h].id \in Ids /\ operator[h].row \in C!Rows /\ operator[h].op # "serve"
    BY <2>1 DEF ChannelsTyped, Op, OpOK
  <2>3. ChannelsTyped'
    BY <2>1, <2>2, <2>6 DEF ChannelsTyped
  <2>7. /\ channels'[operator[h].id] = operator[h].row
        /\ \A j \in Ids : j # operator[h].id => channels'[j] = channels[j]
    BY <2>1, <2>6 DEF ChannelsTyped
  <2>4. ChannelsAgree'
    <3>1. ASSUME Progress(operator[h]), operator[h].op = "test"
          PROVE  C!Routable(channels)' = C!Routable(channels)
      <4>1. channels[operator[h].id] = operator[h].row
        BY <2>1, <3>1 DEF Progress
      <4>2. channels' = channels
        BY <2>1, <2>6, <4>1 DEF ChannelsTyped
      <4> QED
        BY <4>2 DEF C!Routable, C!Enabled
    <3>2. Progress(operator[h]) => Progress(operator[h])'
      BY <2>1, <2>2, <2>7, <3>1 DEF Progress
    <3> QED
      BY <2>1, <2>2, <2>6, <2>7, <3>2, AgreeGoesOn
  <2> QED
    BY <2>3, <2>4
<1>7. ASSUME NEW h \in Handlers, C!Clear(h)
      PROVE  ChannelsInv'
  <2>1. /\ operator[h].at = "clear"
        /\ C!Goto(h, [operator[h] EXCEPT !.at = "fill", !.left = operator[h].row.models])
        /\ abilities' = [abilities EXCEPT ![operator[h].id] = C!NoModels]
        /\ UNCHANGED <<channels, cache, clean, tidy>>
    BY <1>7 DEF C!Clear, C!history, C!At
  <2>6. operator[h].id \in Ids /\ operator[h].row \in C!Rows /\ operator[h].op # "serve"
    BY <2>1 DEF ChannelsTyped, Op, OpOK
  <2>8. /\ operator[h].row.models \in C!Lists
        /\ \A m \in Models : /\ operator[h].row.models[m] \in Int
                            /\ operator[h].row.models[m] <= operator[h].row.models[m]
    BY <2>6 DEF C!Rows, C!Lists
  <2>2. /\ operator' \in [Handlers -> Op]
        /\ operator'[h].at = "fill" /\ operator'[h].op = operator[h].op
        /\ operator'[h].id = operator[h].id /\ operator'[h].row = operator[h].row
        /\ operator'[h].left = operator[h].row.models
        /\ operator'[h].alone = operator[h].alone
        /\ \A g \in Handlers : g # h => operator'[g] = operator[g]
        /\ C!Running' = C!Running /\ h \in C!Running /\ ops' = ops
    BY <2>1, <2>8, OpFills
  <2>3. ChannelsTyped'
    BY <2>1, <2>2, <2>6, NothingListed DEF ChannelsTyped
  <2>7. /\ abilities'[operator[h].id] = C!NoModels
        /\ \A j \in Ids : j # operator[h].id => abilities'[j] = abilities[j]
    BY <2>1, <2>6 DEF ChannelsTyped
  <2>4. ChannelsAgree'
    <3>1. C!Routable(channels)' = C!Routable(channels)
      BY <2>1 DEF C!Routable, C!Enabled
    <3>2. C!NoModels = [m \in Models |-> operator[h].row.models[m] - operator[h].row.models[m]]
      BY <2>8 DEF C!NoModels
    <3>3. Progress(operator[h]) => Progress(operator[h])'
      BY <2>1, <2>2, <2>7, <3>1, <3>2 DEF Progress
    <3> QED
      BY <2>1, <2>2, <2>6, <2>7, <3>3, AgreeGoesOn
  <2> QED
    BY <2>3, <2>4
<1>8. ASSUME NEW h \in Handlers, C!Fill(h)
      PROVE  ChannelsInv'
  <2>1. /\ operator[h].at = "fill"
        /\ UNCHANGED <<channels, cache, clean, tidy>>
    BY <1>8 DEF C!Fill, C!history, C!At
  <2>0. PICK n \in Models :
          /\ operator[h].left[n] > 0
          /\ abilities' = [abilities EXCEPT ![operator[h].id][n] = @ + 1]
          /\ C!Goto(h, [operator[h] EXCEPT !.left[n] = @ - 1])
    BY <1>8 DEF C!Fill
  <2> DEFINE left == [operator[h].left EXCEPT ![n] = @ - 1]
  <2>6. /\ operator[h].id \in Ids /\ operator[h].row \in C!Rows /\ operator[h].op # "serve"
        /\ operator[h].left \in C!Lists /\ operator[h] \in OpShape
        /\ \A m \in Models : operator[h].left[m] <= operator[h].row.models[m]
    BY <2>1 DEF ChannelsTyped, Op, OpOK, OpShape
  <2>8. [operator[h] EXCEPT !.left[n] = @ - 1] = [operator[h] EXCEPT !.at = "fill", !.left = left]
    BY <2>1, <2>6 DEF OpShape
  <2>9. \A m \in Models : /\ operator[h].left[m] \in 0..MaxRepeats /\ operator[h].row.models[m] \in Nat
                         /\ left[m] = IF m = n THEN operator[h].left[m] - 1 ELSE operator[h].left[m]
    BY <2>6 DEF C!Lists, C!Rows
  <2>a. left \in C!Lists /\ \A m \in Models : left[m] <= operator[h].row.models[m]
    <3>1. \A m \in Models : left[m] \in 0..MaxRepeats /\ left[m] <= operator[h].row.models[m]
      BY <2>0, <2>6, <2>9, ConsoleAssumption
    <3>2. DOMAIN left = Models /\ left = [m \in Models |-> left[m]]
      BY <2>6 DEF C!Lists
    <3> HIDE DEF left
    <3> QED
      BY <3>1, <3>2 DEF C!Lists
  <2>b. C!Goto(h, [operator[h] EXCEPT !.at = "fill", !.left = left])
    BY <2>0, <2>8
  <2> HIDE DEF left
  <2>2. /\ operator' \in [Handlers -> Op]
        /\ operator'[h].at = "fill" /\ operator'[h].op = operator[h].op
        /\ operator'[h].id = operator[h].id /\ operator'[h].row = operator[h].row
        /\ operator'[h].left = left
        /\ operator'[h].alone = operator[h].alone
        /\ \A g \in Handlers : g # h => operator'[g] = operator[g]
        /\ C!Running' = C!Running /\ h \in C!Running /\ ops' = ops
    BY <2>1, <2>a, <2>b, OpFills
  <2>7. /\ abilities' \in [Ids -> [Models -> Nat]]
        /\ abilities'[operator[h].id] =
             [m \in Models |-> IF m = n THEN abilities[operator[h].id][m] + 1 ELSE abilities[operator[h].id][m]]
        /\ \A j \in Ids : j # operator[h].id => abilities'[j] = abilities[j]
    BY <2>0, <2>6 DEF ChannelsTyped
  <2>3. ChannelsTyped'
    BY <2>1, <2>2, <2>6, <2>7 DEF ChannelsTyped
  <2>4. ChannelsAgree'
    <3>1. C!Routable(channels)' = C!Routable(channels)
      BY <2>1 DEF C!Routable, C!Enabled
    <3>2. ASSUME Progress(operator[h])
          PROVE  /\ channels[operator[h].id] = operator[h].row
                 /\ abilities'[operator[h].id] =
                      [m \in Models |-> operator[h].row.models[m] - left[m]]
      <4>1. /\ channels[operator[h].id] = operator[h].row
            /\ abilities[operator[h].id] =
                 [m \in Models |-> operator[h].row.models[m] - operator[h].left[m]]
        BY <2>1, <3>2 DEF Progress
      <4>2. \A m \in Models :
              (IF m = n THEN abilities[operator[h].id][m] + 1 ELSE abilities[operator[h].id][m])
                = operator[h].row.models[m] - left[m]
        BY <2>9, <4>1
      <4> QED
        BY <2>7, <4>1, <4>2
    <3>3. Progress(operator[h]) => Progress(operator[h])'
      BY <2>1, <2>2, <3>1, <3>2 DEF Progress
    <3> QED
      BY <2>1, <2>2, <2>6, <2>7, <3>3, AgreeGoesOn
  <2> QED
    BY <2>3, <2>4
<1>9. ASSUME NEW h \in Handlers, operator[h].at = "fill", operator[h].left = C!NoModels
      PROVE  /\ operator[h].id \in Ids /\ operator[h].row \in C!Rows
             /\ Progress(operator[h]) => abilities[operator[h].id] = C!Expected(operator[h].id)
  <2>1. operator[h].id \in Ids /\ operator[h].row \in C!Rows
    BY <1>9 DEF ChannelsTyped, Op, OpOK
  <2>2. ASSUME Progress(operator[h]) PROVE abilities[operator[h].id] = C!Expected(operator[h].id)
    <3>1. /\ channels[operator[h].id] = operator[h].row
          /\ abilities[operator[h].id] =
               [m \in Models |-> operator[h].row.models[m] - operator[h].left[m]]
      BY <1>9, <2>2 DEF Progress
    <3>2. C!Present(operator[h].id)
      BY <2>1, <3>1, RowsAssumption DEF C!Present
    <3>3. operator[h].row.models = [m \in Models |-> operator[h].row.models[m] - C!NoModels[m]]
      BY <2>1 DEF C!Rows, C!Lists, C!NoModels
    <3> QED
      BY <1>9, <3>1, <3>2, <3>3 DEF C!Expected
  <2> QED
    BY <2>1, <2>2
<1>b. ASSUME NEW h \in Handlers, operator[h].at = "fill", operator[h].left = C!NoModels,
             operator[h].op = "test", C!End(h), UNCHANGED <<channels, abilities, cache>>
      PROVE  ChannelsInv'
  <2>1. /\ C!Goto(h, C!Idle)
        /\ clean' = (operator[h].alone /\ (operator[h].op = "test" => clean))
        /\ tidy' = IF operator[h].op = "serve" THEN tidy
                   ELSE IF operator[h].alone THEN tidy \union {operator[h].id}
                        ELSE tidy \ {operator[h].id}
    BY <1>b DEF C!End
  <2>2. /\ operator' \in [Handlers -> Op]
        /\ \A g \in Handlers : g # h => operator'[g] = operator[g]
        /\ C!Running' = C!Running \ {h} /\ ops' = ops /\ h \in C!Running
    BY <1>b, <2>1, OpIdle, OpMoves DEF C!Running, C!At
  <2>3. ChannelsTyped'
    BY <1>b, <1>9, <2>1, <2>2 DEF ChannelsTyped
  <2>4. ChannelsAgree'
    <3>1. C!Routable(channels)' = C!Routable(channels)
      BY <1>b DEF C!Routable, C!Enabled
    <3>2. clean' => operator[h].alone /\ (Progress(operator[h]) => cache' = C!Routable(channels)')
      BY <1>b, <2>1, <3>1 DEF Progress
    <3>3. \/ tidy' = tidy \ {operator[h].id}
          \/ tidy' = tidy \union {operator[h].id} /\ operator[h].alone
      BY <1>b, <2>1
    <3> QED
      BY <1>b, <1>9, <2>2, <3>2, <3>3, AgreeEnds
  <2> QED
    BY <2>3, <2>4
<1>c. ASSUME NEW h \in Handlers, operator[h].at = "fill", operator[h].left = C!NoModels,
             operator[h].op # "test", C!Step(h, "refresh"),
             UNCHANGED <<channels, abilities, cache, clean, tidy>>
      PROVE  ChannelsInv'
  <2>2. /\ operator' \in [Handlers -> Op]
        /\ operator'[h].at = "refresh" /\ operator'[h].op = operator[h].op
        /\ operator'[h].id = operator[h].id
        /\ operator'[h].alone = operator[h].alone
        /\ \A g \in Handlers : g # h => operator'[g] = operator[g]
        /\ C!Running' = C!Running /\ h \in C!Running /\ ops' = ops
    BY <1>c, OpSteps
  <2>3. ChannelsTyped'
    BY <1>c, <2>2 DEF ChannelsTyped
  <2>4. ChannelsAgree'
    <3>1. C!Expected(operator[h].id)' = C!Expected(operator[h].id)
      BY <1>c, <2>2 DEF C!Expected, C!Present
    <3>2. Progress(operator[h]) => Progress(operator[h])'
      BY <1>c, <1>9, <2>2, <3>1 DEF Progress
    <3> QED
      BY <1>c, <2>2, <3>2, AgreeGoesOn
  <2> QED
    BY <2>3, <2>4
<1>d. ASSUME NEW h \in Handlers, C!Synced(h)
      PROVE  ChannelsInv'
  BY <1>b, <1>c, <1>d DEF C!Synced, C!history, C!At
<1>e. ASSUME NEW h \in Handlers, C!DeleteRow(h)
      PROVE  ChannelsInv'
  <2>1. /\ operator[h].at = "delete" /\ C!Step(h, "refresh")
        /\ channels' = [channels EXCEPT ![operator[h].id] = IF @ = NoRow THEN NoRow ELSE Gone]
        /\ UNCHANGED <<abilities, cache, clean, tidy>>
    BY <1>e DEF C!DeleteRow, C!history, C!At
  <2>2. /\ operator' \in [Handlers -> Op]
        /\ operator'[h].at = "refresh" /\ operator'[h].op = operator[h].op
        /\ operator'[h].id = operator[h].id
        /\ operator'[h].alone = operator[h].alone
        /\ \A g \in Handlers : g # h => operator'[g] = operator[g]
        /\ C!Running' = C!Running /\ h \in C!Running /\ ops' = ops
    BY <2>1, OpSteps
  <2>6. operator[h].id \in Ids /\ operator[h].op = "delete"
    BY <2>1 DEF ChannelsTyped, Op, OpOK
  <2>7. /\ channels'[operator[h].id] \in {NoRow, Gone}
        /\ \A j \in Ids : j # operator[h].id => channels'[j] = channels[j]
    BY <2>1, <2>6 DEF ChannelsTyped
  <2>3. ChannelsTyped'
    BY <2>1, <2>2, <2>6 DEF ChannelsTyped
  <2>4. ChannelsAgree'
    <3>1. C!Expected(operator[h].id)' = C!NoModels
      BY <2>2, <2>7 DEF C!Expected, C!Present
    <3>2. Progress(operator[h]) => Progress(operator[h])'
      BY <2>1, <2>2, <2>6, <3>1 DEF Progress
    <3> QED
      BY <2>1, <2>2, <2>6, <2>7, <3>2, AgreeGoesOn
  <2> QED
    BY <2>3, <2>4
<1>f. ASSUME NEW h \in Handlers, C!ReadEnabled(h)
      PROVE  ChannelsInv'
  <2> DEFINE x == [operator[h] EXCEPT !.at = "install", !.snapshot = C!Routable(channels)]
  <2>1. /\ operator[h].at = "refresh" /\ C!Goto(h, x)
        /\ UNCHANGED <<channels, abilities, cache, clean, tidy>>
    BY <1>f DEF C!ReadEnabled, C!history, C!At
  <2>2. operator[h] \in OpShape /\ OpOK(operator[h])
    BY DEF ChannelsTyped, Op
  <2>3. C!Routable(channels) \in Caches
    BY RoutableCached
  <2>4. /\ x \in OpShape /\ x.at = "install" /\ x.op = operator[h].op /\ x.id = operator[h].id
        /\ x.alone = operator[h].alone /\ x.snapshot = C!Routable(channels)
    BY <2>2, <2>3 DEF OpShape
  <2> HIDE DEF x
  <2>5. x \in Op
    BY <2>1, <2>2, <2>4 DEF Op, OpOK
  <2>6. /\ operator' \in [Handlers -> Op] /\ operator'[h] = x
        /\ \A g \in Handlers : g # h => operator'[g] = operator[g]
        /\ C!Running' = C!Running /\ h \in C!Running /\ ops' = ops
    BY <2>1, <2>4, <2>5, OpMoves DEF C!Running, C!At
  <2>7. ChannelsTyped'
    BY <2>1, <2>6 DEF ChannelsTyped
  <2>8. ChannelsAgree'
    <3>1. \A j : C!Expected(j)' = C!Expected(j)
      BY <2>1 DEF C!Expected, C!Present
    <3>2. C!Routable(channels)' = C!Routable(channels)
      BY <2>1 DEF C!Routable, C!Enabled
    <3>3. Progress(operator[h]) => Progress(operator[h])'
      BY <2>1, <2>4, <2>6, <3>1, <3>2 DEF Progress
    <3> QED
      BY <2>1, <2>4, <2>6, <3>3, AgreeGoesOn
  <2> QED
    BY <2>7, <2>8
<1>g. ASSUME NEW h \in Handlers, C!Install(h)
      PROVE  ChannelsInv'
  <2>1. /\ operator[h].at = "install" /\ C!Goto(h, C!Idle)
        /\ cache' = operator[h].snapshot
        /\ clean' = (operator[h].alone /\ (operator[h].op = "test" => clean))
        /\ tidy' = IF operator[h].op = "serve" THEN tidy
                   ELSE IF operator[h].alone THEN tidy \union {operator[h].id}
                        ELSE tidy \ {operator[h].id}
        /\ UNCHANGED <<channels, abilities>>
    BY <1>g DEF C!Install, C!End, C!At
  <2>2. /\ operator' \in [Handlers -> Op]
        /\ \A g \in Handlers : g # h => operator'[g] = operator[g]
        /\ C!Running' = C!Running \ {h} /\ ops' = ops /\ h \in C!Running
    BY <2>1, OpIdle, OpMoves DEF C!Running, C!At
  <2>6. /\ operator[h].snapshot \in Caches
        /\ operator[h].op # "serve" => operator[h].id \in Ids
        /\ operator[h].op # "test"
    BY <2>1 DEF ChannelsTyped, Op, OpOK, OpShape
  <2>3. ChannelsTyped'
    BY <2>1, <2>2, <2>6 DEF ChannelsTyped
  <2>4. ChannelsAgree'
    <3>1. C!Routable(channels)' = C!Routable(channels)
      BY <2>1 DEF C!Routable, C!Enabled
    <3>2. clean' => operator[h].alone /\ (Progress(operator[h]) => cache' = C!Routable(channels)')
      BY <2>1, <3>1 DEF Progress
    <3>3. \/ tidy' = tidy \ {operator[h].id}
          \/ tidy' = tidy /\ operator[h].op = "serve"
          \/ tidy' = tidy \union {operator[h].id} /\ operator[h].alone /\ operator[h].op # "serve"
      BY <2>1
    <3>4. Progress(operator[h]) /\ operator[h].op # "serve" =>
            abilities[operator[h].id] = C!Expected(operator[h].id)
      BY <2>1 DEF Progress
    <3> QED
      BY <2>1, <2>2, <3>2, <3>3, <3>4, AgreeEnds
  <2> QED
    BY <2>3, <2>4
<1>h. ASSUME NEW h \in Handlers, C!Fail(h)
      PROVE  ChannelsInv'
  <2>1. /\ operator[h].at # "idle" /\ C!Goto(h, C!Idle)
        /\ clean' = FALSE /\ tidy' = tidy \ {operator[h].id}
        /\ UNCHANGED <<channels, abilities, cache>>
    BY <1>h DEF C!Fail, C!At
  <2>2. /\ operator' \in [Handlers -> Op]
        /\ \A g \in Handlers : g # h => operator'[g] = operator[g]
        /\ C!Running' = C!Running \ {h} /\ ops' = ops /\ h \in C!Running
    BY <2>1, OpIdle, OpMoves DEF C!Running, C!At
  <2>3. ChannelsTyped'
    BY <2>1, <2>2 DEF ChannelsTyped
  <2>4. ChannelsAgree'
    BY <2>1, <2>2, AgreeEnds
  <2> QED
    BY <2>3, <2>4
<1>i. ASSUME NEW h \in Handlers, C!FailUnseen(h)
      PROVE  ChannelsInv'
  <2> DEFINE y == [operator[h] EXCEPT !.alone = FALSE]
  <2>1. UNCHANGED <<channels, abilities, cache, clean, tidy>>
    BY <1>i DEF C!FailUnseen, C!history
  <2>2. operator[h] \in OpShape /\ OpOK(operator[h])
    BY DEF ChannelsTyped, Op
  <2>3. /\ y \in OpShape /\ y.at = operator[h].at /\ y.op = operator[h].op /\ y.id = operator[h].id
        /\ y.row = operator[h].row /\ y.left = operator[h].left /\ y.alone = FALSE
    BY <2>2 DEF OpShape
  <2>4. \/ y.at = "unlist" /\ C!Goto(h, [y EXCEPT !.at = "delete"])
        \/ y.at = "clear" /\ C!Goto(h, [y EXCEPT !.at = "fill", !.left = y.row.models])
        \/ /\ y.at = "fill"
           /\ \E n \in Models : y.left[n] > 0 /\ C!Goto(h, [y EXCEPT !.left[n] = @ - 1])
    BY <1>i, <2>3 DEF C!FailUnseen, C!At
  <2>5. OpOK(y)
    BY <2>2, <2>3 DEF OpOK
  <2> HIDE DEF y
  \* Wherever it goes on, its list is one, and it is not alone.
  <2>6. PICK x \in Op : /\ C!Goto(h, x) /\ x.at # "idle" /\ x.alone = FALSE
                        /\ x.op = operator[h].op /\ x.id = operator[h].id
    <3>1. CASE y.at = "unlist" /\ C!Goto(h, [y EXCEPT !.at = "delete"])
      <4> DEFINE x == [y EXCEPT !.at = "delete"]
      <4>1. /\ x \in OpShape /\ x.at = "delete" /\ x.op = y.op /\ x.id = y.id /\ x.row = y.row
            /\ x.left = y.left /\ x.alone = FALSE
        BY <2>3 DEF OpShape
      <4>2. C!Goto(h, x)
        BY <3>1
      <4> HIDE DEF x
      <4>3. x \in Op
        BY <2>5, <3>1, <4>1 DEF Op, OpOK
      <4> QED
        BY <2>3, <4>1, <4>2, <4>3
    <3>2. CASE y.at = "clear" /\ C!Goto(h, [y EXCEPT !.at = "fill", !.left = y.row.models])
      <4> DEFINE x == [y EXCEPT !.at = "fill", !.left = y.row.models]
      <4>1. /\ y.row.models \in C!Lists
            /\ \A m \in Models : y.row.models[m] <= y.row.models[m]
        BY <2>5, <3>2 DEF OpOK, C!Rows, C!Lists
      <4>2. /\ x \in OpShape /\ x.at = "fill" /\ x.op = y.op /\ x.id = y.id /\ x.row = y.row
            /\ x.left = y.row.models /\ x.alone = FALSE
        BY <2>3, <4>1 DEF OpShape
      <4>3. C!Goto(h, x)
        BY <3>2
      <4> HIDE DEF x
      <4>4. x \in Op
        BY <2>5, <3>2, <4>1, <4>2 DEF Op, OpOK
      <4> QED
        BY <2>3, <4>2, <4>3, <4>4
    <3>3. CASE /\ y.at = "fill"
               /\ \E n \in Models : y.left[n] > 0 /\ C!Goto(h, [y EXCEPT !.left[n] = @ - 1])
      <4>1. PICK n \in Models : y.left[n] > 0 /\ C!Goto(h, [y EXCEPT !.left[n] = @ - 1])
        BY <3>3
      <4> DEFINE left == [y.left EXCEPT ![n] = @ - 1]
                 x == [y EXCEPT !.left = left]
      <4>2. y.left \in C!Lists /\ y.row \in C!Rows /\ \A m \in Models : y.left[m] <= y.row.models[m]
        BY <2>3, <2>5, <3>3 DEF OpOK, OpShape
      <4>3. \A m \in Models : /\ y.left[m] \in 0..MaxRepeats /\ y.row.models[m] \in Nat
                             /\ left[m] = IF m = n THEN y.left[m] - 1 ELSE y.left[m]
        BY <4>2 DEF C!Lists, C!Rows
      <4>4. left \in C!Lists /\ \A m \in Models : left[m] <= y.row.models[m]
        <5>1. \A m \in Models : left[m] \in 0..MaxRepeats /\ left[m] <= y.row.models[m]
          BY <4>1, <4>2, <4>3, ConsoleAssumption
        <5>2. left = [m \in Models |-> left[m]]
          BY <4>2 DEF C!Lists
        <5> HIDE DEF left
        <5> QED
          BY <5>1, <5>2 DEF C!Lists
      <4>5. C!Goto(h, x)
        BY <2>3, <4>1 DEF OpShape
      <4> HIDE DEF left
      <4>6. /\ x \in OpShape /\ x.at = "fill" /\ x.op = y.op /\ x.id = y.id /\ x.row = y.row
            /\ x.left = left /\ x.alone = FALSE
        BY <2>3, <3>3, <4>4 DEF OpShape
      <4> HIDE DEF x
      <4>7. x \in Op
        BY <2>5, <3>3, <4>4, <4>6 DEF Op, OpOK
      <4> QED
        BY <2>3, <4>5, <4>6, <4>7
    <3> QED
      BY <2>4, <3>1, <3>2, <3>3
  <2>7. /\ operator' \in [Handlers -> Op] /\ operator'[h] = x
        /\ \A g \in Handlers : g # h => operator'[g] = operator[g]
        /\ C!Running' = C!Running /\ h \in C!Running /\ ops' = ops
    <3>1. operator[h].at # "idle"
      BY <2>3, <2>4
    <3> QED
      BY <2>6, <3>1, OpMoves DEF C!Running, C!At
  <2>8. ChannelsTyped'
    BY <2>1, <2>7 DEF ChannelsTyped
  <2>9. ChannelsAgree'
    BY <2>1, <2>6, <2>7, AgreeGoesOn
  <2> QED
    BY <2>8, <2>9
<1>j. ASSUME NEW i \in Ids, NEW enabled \in BOOLEAN, C!SetStatus(i, enabled)
      PROVE  ChannelsInv'
  <2> DEFINE y(g) == [operator[g] EXCEPT !.alone = FALSE]
  <2>1. /\ channels[i] \notin {NoRow, Gone} /\ ops < MaxOps /\ ops' = ops + 1
        /\ channels' = [channels EXCEPT ![i].enabled = enabled]
        /\ operator' = [g \in Handlers |-> y(g)]
        /\ clean' = FALSE /\ UNCHANGED <<abilities, cache, tidy>>
    BY <1>j DEF C!SetStatus, C!Present
  <2>2. \A g \in Handlers : operator[g] \in OpShape /\ OpOK(operator[g])
    BY DEF ChannelsTyped, Op
  <2>3. \A g \in Handlers :
          /\ y(g) \in OpShape /\ ~y(g).alone
          /\ y(g).at = operator[g].at /\ y(g).op = operator[g].op /\ y(g).id = operator[g].id
          /\ y(g).left = operator[g].left /\ y(g).row = operator[g].row
    BY <2>2 DEF OpShape
  <2> HIDE DEF y
  <2>4. \A g \in Handlers : y(g) \in Op
    BY <2>2, <2>3 DEF Op, OpOK
  <2>5. /\ operator' \in [Handlers -> Op]
        /\ \A g \in Handlers :
             /\ operator'[g].at = operator[g].at /\ operator'[g].op = operator[g].op
             /\ operator'[g].id = operator[g].id /\ operator'[g].left = operator[g].left
             /\ ~operator'[g].alone
    BY <2>1, <2>3, <2>4
  <2>6. C!Running' = C!Running /\ C!Running \in SUBSET Handlers
    BY <2>5 DEF C!Running, C!At
  <2>7. /\ channels[i] \in C!Rows /\ channels'[i] \in C!Rows
        /\ channels'[i].models = channels[i].models
        /\ \A j \in Ids : j # i => channels'[j] = channels[j]
    BY <2>1 DEF ChannelsTyped, C!Rows
  <2>8. channels' \in [Ids -> C!Rows \union {NoRow, Gone}]
    BY <2>1, <2>7 DEF ChannelsTyped
  <2>9. ChannelsTyped'
    <3>1. ops' \in 0..MaxOps
      BY <2>1, ConsoleAssumption DEF ChannelsTyped
    <3> QED
      BY <2>1, <2>5, <2>8, <3>1 DEF ChannelsTyped
  <2>a. ChannelsAgree'
    <3>1. \A j \in Ids : C!Expected(j)' = C!Expected(j)
      BY <2>1, <2>7, RowsAssumption DEF C!Expected, C!Present
    <3>2. ASSUME NEW j \in tidy
          PROVE  \/ abilities'[j] = C!Expected(j)'
                 \/ \E g \in C!Running' : operator'[g].id = j /\ operator'[g].op # "serve"
      <4>1. j \in Ids
        BY DEF ChannelsTyped
      <4> QED
        BY <2>1, <2>5, <2>6, <3>1, <4>1 DEF ChannelsAgree
    <3> QED
      BY <2>1, <2>5, <2>6, <3>2 DEF ChannelsAgree
  <2> QED
    BY <2>9, <2>a
<1>k. C!Rows # {}
  <2>1. [models |-> C!NoModels, enabled |-> TRUE] \in C!Rows
    BY NothingListed DEF C!Rows
  <2> QED
    BY <2>1
<1>l. ASSUME NEW h \in Handlers, C!Operation(h)
      PROVE  ChannelsInv'
  <2> HIDE DEF ChannelsInv
  <2> QED
    BY <1>1, <1>2, <1>3, <1>4, <1>k, <1>l DEF C!Operation
<1>m. ASSUME NEW h \in Handlers, C!Continue(h)
      PROVE  ChannelsInv'
  <2> HIDE DEF ChannelsInv
  <2> QED
    BY <1>5, <1>6, <1>7, <1>8, <1>d, <1>e, <1>f, <1>g, <1>m, <1>n DEF C!Continue
<1> HIDE DEF ChannelsInv
<1> QED
  BY <1>u, <1>h, <1>i, <1>j, <1>l, <1>m DEF C!Next

\* What the invariant says of the copies, and of the type.
LEMMA ChannelsSafe == ChannelsInv => C!SequentialAgreement /\ C!TypeOK
<1> SUFFICES ASSUME ChannelsInv PROVE C!SequentialAgreement /\ C!TypeOK
  OBVIOUS
<1>1. C!SequentialAgreement
  <2>1. \A i \in tidy : C!Running = {} => abilities[i] = C!Expected(i)
    BY DEF ChannelsInv, ChannelsAgree
  <2> QED
    BY <2>1 DEF ChannelsInv, ChannelsAgree, C!SequentialAgreement
<1>3. \A h \in Handlers : operator[h] \in OpShape /\ OpOK(operator[h])
  BY DEF ChannelsInv, ChannelsTyped, Op
<1>4. \A h \in Handlers :
        /\ operator[h].at \in {"idle", "probe", "save", "clear", "fill", "unlist", "delete",
                              "refresh", "install"}
        /\ operator[h].at = "save" \/ operator[h].at = "clear" => operator[h].row \in C!Rows
        /\ operator[h].left \in C!Lists /\ operator[h].snapshot \in Caches
  BY <1>3 DEF OpShape, OpOK
<1> QED
  BY <1>1, <1>4 DEF C!TypeOK, C!At, Caches, ChannelsInv, ChannelsTyped

-----------------------------------------------------------------------------
(* HealthCheck *)

\* The steps of a probe.
ProbeSteps == {"off", "probe", "clearFails", "countSuccess", "readRecovers", "enable",
               "clearRecovers", "countFail", "readFails", "disable"}

\* The health check.
HealthTyped ==
  /\ up \in BOOLEAN /\ faults \in 0..MaxFaults
  /\ fails \in (0..Cap) \union {None} /\ recovers \in (0..Cap) \union {None}
  /\ status \in {None, "enabled", "disabled"}
  /\ probe \in [Handlers -> [at : ProbeSteps]]

\* A probe goes from one of its steps to another.
LEMMA ProbeGoes ==
  ASSUME HealthTyped, NEW p \in Handlers, NEW pc \in ProbeSteps, H!Goto(p, pc) \/ H!Done(p)
  PROVE  probe' \in [Handlers -> [at : ProbeSteps]]
<1>1. [probe[p] EXCEPT !.at = pc] \in [at : ProbeSteps] /\ [at |-> "off"] \in [at : ProbeSteps]
  BY DEF HealthTyped, ProbeSteps
<1>2. CASE H!Goto(p, pc)
  BY <1>1, <1>2 DEF H!Goto, HealthTyped
<1>3. CASE H!Done(p)
  BY <1>1, <1>3 DEF H!Done, H!Off, HealthTyped
<1> QED
  BY <1>2, <1>3

\* The counters stay below their cap, whichever calls to Redis fail.
LEMMA HealthStep ==
  ASSUME HealthTyped, [H!Next]_health
  PROVE  HealthTyped'
<1>1. \A n \in (0..Cap) \union {None} : H!Incremented(n) \in 0..Cap
  BY HealthAssumption DEF H!Incremented
<1>2. CASE UNCHANGED health
  BY <1>2 DEF health, HealthTyped
<1>3. CASE H!Flip
  BY <1>3 DEF H!Flip, HealthTyped
<1>4. ASSUME NEW p \in Handlers, H!Tick(p) \/ H!ProbeAnswers(p) \/ H!ReadRecovers(p) \/ H!ReadFails(p)
      PROVE  HealthTyped'
  <2>1. UNCHANGED <<up, fails, recovers, status, faults>>
    BY <1>4 DEF H!Tick, H!ProbeAnswers, H!ReadRecovers, H!ReadFails
  <2>2. \E pc \in ProbeSteps : H!Goto(p, pc) \/ H!Done(p)
    BY <1>4 DEF H!Tick, H!ProbeAnswers, H!ReadRecovers, H!ReadFails, ProbeSteps
  <2> QED
    BY <2>1, <2>2, ProbeGoes DEF HealthTyped
<1>5. ASSUME NEW p \in Handlers, H!ClearFails(p) \/ H!CountFail(p)
      PROVE  HealthTyped'
  <2>1. UNCHANGED <<up, recovers, status, faults>> /\ fails' \in 0..Cap
    BY <1>1, <1>5, HealthAssumption DEF H!ClearFails, H!CountFail, HealthTyped
  <2>2. \E pc \in ProbeSteps : H!Goto(p, pc)
    BY <1>5 DEF H!ClearFails, H!CountFail, ProbeSteps
  <2> QED
    BY <2>1, <2>2, ProbeGoes DEF HealthTyped
<1>6. ASSUME NEW p \in Handlers, H!CountSuccess(p) \/ H!ClearRecovers(p)
      PROVE  HealthTyped'
  <2>1. UNCHANGED <<up, fails, status, faults>> /\ recovers' \in 0..Cap
    BY <1>1, <1>6, HealthAssumption DEF H!CountSuccess, H!ClearRecovers, HealthTyped
  <2>2. \E pc \in ProbeSteps : H!Goto(p, pc) \/ H!Done(p)
    BY <1>6 DEF H!CountSuccess, H!ClearRecovers, ProbeSteps
  <2> QED
    BY <2>1, <2>2, ProbeGoes DEF HealthTyped
<1>7. ASSUME NEW p \in Handlers, H!EnableProvider(p) \/ H!DisableProvider(p)
      PROVE  HealthTyped'
  <2>1. UNCHANGED <<up, fails, recovers, faults>> /\ status' \in {"enabled", "disabled"}
    BY <1>7 DEF H!EnableProvider, H!DisableProvider
  <2>2. \E pc \in ProbeSteps : H!Goto(p, pc) \/ H!Done(p)
    BY <1>7 DEF H!EnableProvider, H!DisableProvider, ProbeSteps
  <2> QED
    BY <2>1, <2>2, ProbeGoes DEF HealthTyped
<1>8. ASSUME NEW p \in Handlers, H!CallFails(p)
      PROVE  HealthTyped'
  <2>1. UNCHANGED <<up, fails, recovers, status>> /\ faults' \in 0..MaxFaults
    BY <1>8, HealthAssumption DEF H!CallFails, HealthTyped
  <2>2. \E pc \in ProbeSteps : H!Goto(p, pc) \/ H!Done(p)
    BY <1>8 DEF H!CallFails, ProbeSteps
  <2> QED
    BY <2>1, <2>2, ProbeGoes DEF HealthTyped
<1> QED
  BY <1>2, <1>3, <1>4, <1>5, <1>6, <1>7, <1>8 DEF H!Next, H!CheckOne

\* No probe has run.
LEMMA HealthInit == H!Init => HealthTyped
  BY HealthAssumption DEF H!Init, H!Off, HealthTyped, ProbeSteps

\* The types of the health check.
LEMMA HealthSafe == HealthTyped => H!TypeOK
  BY DEF HealthTyped, H!TypeOK, ProbeSteps

-----------------------------------------------------------------------------
(* Dashboard: trees of rows *)

\* What the table of intents may hold.
Trees == [Codes -> D!Rows \union {None}]

\* What is under a set of nodes is the least set that has them and the children
\* of whatever it has.
LEMMA UnderHas ==
  ASSUME NEW t, NEW S \in SUBSET Codes
  PROVE  S \subseteq D!Under(t, S) /\ D!Under(t, S) \subseteq Codes
  BY DEF D!Under

\* What is under S has its children under S, ...
LEMMA UnderClosed ==
  ASSUME NEW t, NEW S
  PROVE  D!Closed(t, D!Under(t, S))
<1> SUFFICES ASSUME NEW p \in D!Under(t, S), NEW c \in D!Children(t, p)
             PROVE  c \in D!Under(t, S)
  BY DEF D!Closed
<1>1. c \in Codes
  BY DEF D!Children, D!Present
<1>2. ASSUME NEW X \in SUBSET Codes, S \subseteq X, D!Closed(t, X) PROVE c \in X
  <2>1. p \in X
    BY <1>2 DEF D!Under
  <2> QED
    BY <1>2, <2>1 DEF D!Closed
<1> QED
  BY <1>1, <1>2 DEF D!Under

\* ... and is in every such set.
LEMMA UnderLeast ==
  ASSUME NEW t, NEW S, NEW X \in SUBSET Codes, S \subseteq X, D!Closed(t, X)
  PROVE  D!Under(t, S) \subseteq X
  BY DEF D!Under

\* Nothing is under no node; what is under nodes that are under S is under S.
LEMMA UnderNone == ASSUME NEW t PROVE D!Under(t, {}) = {}
  BY UnderLeast DEF D!Closed

\* What is under nodes that are under S is under S.
LEMMA UnderWithin ==
  ASSUME NEW t, NEW S \in SUBSET Codes, NEW R, R \subseteq D!Under(t, S)
  PROVE  D!Under(t, R) \subseteq D!Under(t, S)
  BY UnderHas, UnderClosed, UnderLeast

\* A node that is under S is in S or has its parent under S.
LEMMA UnderEnters ==
  ASSUME NEW t, NEW S \in SUBSET Codes, NEW c \in D!Under(t, S), c \notin S
  PROVE  \E p \in D!Under(t, S) : c \in D!Children(t, p)
<1> DEFINE X == {x \in D!Under(t, S) : x \in S \/ \E p \in D!Under(t, S) : x \in D!Children(t, p)}
<1>1. X \in SUBSET Codes /\ S \subseteq X
  BY UnderHas
<1>2. D!Closed(t, X)
  BY UnderClosed DEF D!Closed
<1>3. c \in X
  <2> HIDE DEF X
  <2> QED
    BY <1>1, <1>2, UnderLeast
<1> QED
  BY <1>3

\* A table that differs in rows of S only has the old subtrees, but for what was
\* under S.
LEMMA UnderKept ==
  ASSUME NEW t, NEW u, NEW Q \in SUBSET Codes, NEW S \in SUBSET Codes,
         \A c \in D!Present(t) \ S : u[c] = t[c]
  PROVE  D!Under(t, Q) \subseteq D!Under(u, Q) \union D!Under(t, S)
<1> DEFINE X == D!Under(u, Q) \union D!Under(t, S)
<1>1. X \in SUBSET Codes /\ Q \subseteq X
  BY UnderHas
<1>2. ASSUME NEW p \in X, NEW c \in D!Children(t, p) PROVE c \in X
  <2>1. c \in D!Present(t) /\ c \in Codes /\ t[c] # None /\ t[c].parent = p
    BY DEF D!Children, D!Present
  <2>2. CASE c \in S
    BY <2>2, UnderHas
  <2>3. CASE p \in D!Under(t, S)
    BY <2>3, UnderClosed DEF D!Closed
  <2>4. CASE c \notin S /\ p \in D!Under(u, Q)
    <3>1. c \in D!Children(u, p)
      BY <2>1, <2>4 DEF D!Children, D!Present
    <3> QED
      BY <2>4, <3>1, UnderClosed DEF D!Closed
  <2> QED
    BY <2>2, <2>3, <2>4
<1>3. D!Closed(t, X)
  BY <1>2 DEF D!Closed
<1> HIDE DEF X
<1>4. D!Under(t, Q) \subseteq X
  BY <1>1, <1>3, UnderLeast
<1> QED
  BY <1>4 DEF X

\* What is under the nodes of two sets is under those of the one or of the other.
LEMMA UnderUnion ==
  ASSUME NEW t, NEW Q \in SUBSET Codes, NEW S \in SUBSET Codes
  PROVE  D!Under(t, Q \union S) \subseteq D!Under(t, Q) \union D!Under(t, S)
<1> DEFINE X == D!Under(t, Q) \union D!Under(t, S)
<1>1. X \in SUBSET Codes /\ Q \union S \subseteq X
  BY UnderHas
<1>2. D!Closed(t, X)
  BY UnderClosed DEF D!Closed
<1> HIDE DEF X
<1>3. D!Under(t, Q \union S) \subseteq X
  BY <1>1, <1>2, UnderLeast
<1> QED
  BY <1>3 DEF X

\* One round of the search: a node leaves the queue, its children enter it.
LEMMA UnderRound ==
  ASSUME NEW t, NEW Q \in SUBSET Codes, NEW p \in Q
  PROVE  D!Under(t, Q) \subseteq {p} \union D!Under(t, (Q \ {p}) \union D!Children(t, p))
<1> DEFINE R == (Q \ {p}) \union D!Children(t, p)
           X == {p} \union D!Under(t, R)
<1>1. R \in SUBSET Codes
  BY DEF D!Children, D!Present
<1> HIDE DEF R
<1>2. R \subseteq D!Under(t, R) /\ D!Under(t, R) \subseteq Codes
  BY <1>1, UnderHas
<1>3. D!Children(t, p) \subseteq R /\ Q \subseteq R \union {p}
  BY DEF R
<1>4. D!Closed(t, X)
  BY <1>2, <1>3, UnderClosed DEF D!Closed
<1>5. D!Under(t, Q) \subseteq X
  <2>1. X \in SUBSET Codes /\ Q \subseteq X
    BY <1>2, <1>3
  <2> HIDE DEF X
  <2> QED
    BY <2>1, <1>4, UnderLeast
<1> QED
  BY <1>5 DEF X, R

\* A row on a cycle of parents, or under one, has its parent there.
Cyclic(t) == {c \in D!Present(t) : D!OnCycle(t, c)}

\* Nodes under a cycle have parents under a cycle.
LEMMA CyclicParents ==
  ASSUME NEW t
  PROVE  \A c \in D!Under(t, Cyclic(t)) :
           c \in D!Present(t) /\ t[c].parent \in D!Under(t, Cyclic(t))
<1> DEFINE U == D!Under(t, Cyclic(t))
           X == {c \in U : c \in D!Present(t) /\ t[c].parent \in U}
<1>0. Cyclic(t) \in SUBSET Codes /\ Cyclic(t) \subseteq D!Present(t)
  BY DEF Cyclic, D!Present
<1>1. Cyclic(t) \subseteq U /\ U \in SUBSET Codes /\ D!Closed(t, U)
  BY <1>0, UnderHas, UnderClosed
<1>2. ASSUME NEW c \in Cyclic(t) PROVE c \in X
  <2>1. D!Children(t, c) \in SUBSET Codes /\ D!Children(t, c) \subseteq U
    BY <1>1 DEF D!Closed, D!Children, D!Present
  <2>2. c \in D!Under(t, D!Children(t, c))
    BY DEF Cyclic, D!OnCycle
  <2>3. D!Under(t, D!Children(t, c)) \subseteq U
    BY <1>0, <2>1, UnderWithin
  <2>4. \E p \in U : c \in D!Children(t, p)
    BY <1>1, <2>1, <2>2, <2>3, UnderEnters
  <2> QED
    BY <1>1, <2>4 DEF D!Children
<1>3. ASSUME NEW p \in X, NEW c \in D!Children(t, p) PROVE c \in X
  BY <1>1 DEF D!Closed, D!Children
<1>4. X \in SUBSET Codes /\ D!Closed(t, X) /\ Cyclic(t) \subseteq X
  BY <1>1, <1>2, <1>3 DEF D!Closed
<1>5. U \subseteq X
  <2> HIDE DEF X
  <2> QED
    BY <1>4, UnderLeast
<1> QED
  BY <1>5

\* Among the hidden rows that c is under, one has the largest subtree.
LEMMA LargestSubtree ==
  ASSUME NEW t, NEW Over \in SUBSET Codes, Over # {}
  PROVE  \E a \in Over : \A b \in Over :
           D!Under(t, {a}) \subseteq D!Under(t, {b}) => D!Under(t, {b}) = D!Under(t, {a})
<1> DEFINE Rest(a) == Codes \ D!Under(t, {a})
           R == StrictSubsetOrdering(Codes)
           T == {Rest(a) : a \in Over}
<1>1. IsWellFoundedOn(R, SUBSET Codes)
  BY FS_StrictSubsetOrderingWellFounded, FS_FiniteSubsetsOfFinite, DashboardAssumption
<1>2. T \subseteq SUBSET Codes /\ T # {}
  OBVIOUS
<1>3. PICK x \in T : \A y \in T : <<y, x>> \notin R
  <2> HIDE DEF T, R
  <2> QED
    BY <1>1, <1>2, WFMin
<1>4. PICK a \in Over : x = Rest(a)
  OBVIOUS
<1>5. ASSUME NEW b \in Over, D!Under(t, {a}) \subseteq D!Under(t, {b})
      PROVE  D!Under(t, {b}) = D!Under(t, {a})
  <2>1. Rest(b) \subseteq Rest(a) /\ Rest(a) \in SUBSET Codes /\ Rest(b) \in T
    BY <1>5
  <2>2. <<Rest(b), Rest(a)>> \notin R
    BY <1>3, <1>4, <2>1
  <2>3. Rest(b) = Rest(a)
    BY <2>1, <2>2 DEF StrictSubsetOrdering
  <2>4. D!Under(t, {a}) \subseteq Codes /\ D!Under(t, {b}) \subseteq Codes
    BY DEF D!Under
  <2> QED
    BY <2>3, <2>4
<1> QED
  BY <1>5

\* The rows that the tree does not show are those on cycles and under them.
LEMMA HiddenRows ==
  ASSUME NEW t \in Trees
  PROVE  D!Present(t) \ D!Shown(t) = D!Under(t, Cyclic(t))
<1> DEFINE U == D!Under(t, Cyclic(t))
           Hidden == D!Present(t) \ D!Shown(t)
<1>1. /\ D!Roots(t) \in SUBSET Codes /\ D!Roots(t) \subseteq D!Shown(t)
      /\ D!Shown(t) \in SUBSET Codes /\ D!Closed(t, D!Shown(t))
  BY UnderHas, UnderClosed DEF D!Roots, D!Present, D!Shown
<1>2. Cyclic(t) \in SUBSET Codes
  BY DEF Cyclic, D!Present
<1>3. U \in SUBSET Codes /\ Cyclic(t) \subseteq U /\ D!Closed(t, U)
  BY <1>2, UnderHas, UnderClosed
<1>4. U \subseteq Hidden
  <2> DEFINE X == D!Shown(t) \ U
  <2>1. D!Roots(t) \subseteq X
    <3>1. \A c \in U : t[c].parent \in D!Present(t)
      BY CyclicParents
    <3> QED
      BY <1>1, <3>1 DEF D!Roots
  <2>2. D!Closed(t, X)
    <3> SUFFICES ASSUME NEW p \in X, NEW c \in D!Children(t, p) PROVE c \in X
      BY DEF D!Closed
    <3>1. c \in D!Shown(t) /\ t[c].parent = p
      BY <1>1 DEF D!Closed, D!Children
    <3> QED
      BY <3>1, CyclicParents
  <2>3. D!Shown(t) \subseteq X
    <3>1. X \in SUBSET Codes
      BY <1>1
    <3> HIDE DEF X
    <3> QED
      BY <2>1, <2>2, <3>1, UnderLeast DEF D!Shown
  <2>4. U \subseteq D!Present(t)
    BY CyclicParents
  <2> QED
    BY <2>3, <2>4
<1>5. ASSUME NEW c \in Hidden PROVE c \in U
  <2> DEFINE Over == {a \in Hidden : c \in D!Under(t, {a})}
  <2>1. c \in Codes /\ c \in Over
    BY UnderHas DEF D!Present
  <2>2. Over \in SUBSET Codes /\ Over # {}
    BY <2>1 DEF D!Present
  <2>3. PICK a \in Over : \A b \in Over :
          D!Under(t, {a}) \subseteq D!Under(t, {b}) => D!Under(t, {b}) = D!Under(t, {a})
    <3> HIDE DEF Over
    <3> QED
      BY <2>2, LargestSubtree
  <2> DEFINE p == t[a].parent
  <2>4. a \in Codes /\ a \in D!Present(t) /\ a \notin D!Shown(t) /\ c \in D!Under(t, {a})
    BY DEF D!Present
  <2>5. p \in D!Present(t) /\ p \in Codes /\ a \in D!Children(t, p)
    BY <1>1, <2>4 DEF D!Roots, D!Children, D!Present
  <2>6. p \notin D!Shown(t)
    BY <1>1, <2>4, <2>5 DEF D!Closed
  <2>7. D!Under(t, {a}) \subseteq D!Under(t, {p})
    <3>1. {p} \subseteq D!Under(t, {p}) /\ D!Closed(t, D!Under(t, {p}))
      BY <2>5, UnderHas, UnderClosed
    <3>2. {a} \subseteq D!Under(t, {p})
      BY <2>5, <3>1 DEF D!Closed
    <3> QED
      BY <2>5, <3>2, UnderWithin
  <2>8. p \in Over
    BY <2>4, <2>5, <2>6, <2>7
  <2>9. p \in D!Under(t, {a})
    <3>1. D!Under(t, {p}) = D!Under(t, {a})
      BY <2>3, <2>7, <2>8
    <3> QED
      BY <2>5, <3>1, UnderHas
  <2>a. D!OnCycle(t, a)
    <3> DEFINE Below == D!Children(t, a)
               X == {a} \union D!Under(t, Below)
    <3>1. Below \in SUBSET Codes
      BY DEF D!Children, D!Present
    <3>2. Below \subseteq D!Under(t, Below) /\ D!Under(t, Below) \subseteq Codes /\ D!Closed(t, D!Under(t, Below))
      BY <3>1, UnderHas, UnderClosed
    <3>3. X \in SUBSET Codes /\ D!Closed(t, X)
      BY <2>4, <3>2 DEF D!Closed
    <3>4. D!Under(t, {a}) \subseteq X
      <4>1. {a} \subseteq X
        OBVIOUS
      <4> HIDE DEF X
      <4> QED
        BY <3>3, <4>1, UnderLeast
    <3>5. CASE p = a
      BY <2>5, <3>2, <3>5 DEF D!OnCycle
    <3>6. CASE p \in D!Under(t, Below)
      BY <2>5, <3>2, <3>6 DEF D!OnCycle, D!Closed
    <3> QED
      BY <2>9, <3>4, <3>5, <3>6
  <2>b. a \in U
    BY <1>3, <2>4, <2>a DEF Cyclic
  <2>c. D!Under(t, {a}) \subseteq U
    BY <1>2, <2>b, UnderWithin
  <2> QED
    BY <2>4, <2>c
<1> QED
  BY <1>4, <1>5

\* What the handlers of the dashboard hold.
Editor ==
  {x \in [at : {"idle", "collect", "reload", "install"},
          codes : SUBSET Codes, queue : SUBSET Codes, leaves : SUBSET Codes] :
     x.queue \subseteq x.codes}

\* The table of intents and its editors.
DashboardTyped ==
  /\ nodes \in Trees /\ list \in SUBSET Codes
  /\ editor \in [Handlers -> Editor]
  /\ boot \in D!Count..D!Up
  /\ writes \in 0..MaxWrites /\ crashes \in 0..MaxCrashes
  /\ due \in [Handlers -> SUBSET Codes]

\* Nobody is served before the start-up is over, and a search has found, or will
\* find under the queue, all that is due to go.
Searching ==
  /\ boot # D!Up => \A h \in Handlers : editor[h].at = "idle"
  /\ \A h \in Handlers :
       editor[h].at = "collect" =>
         due[h] \subseteq editor[h].codes \union D!Under(nodes, editor[h].queue)

\* The inductive invariant of Dashboard.
DashboardInv == DashboardTyped /\ Searching

\* A handler goes on with x.
LEMMA EditorGoes ==
  ASSUME DashboardTyped, NEW h \in Handlers, NEW x \in Editor, D!Goto(h, x)
  PROVE  /\ editor' \in [Handlers -> Editor] /\ editor'[h] = x
         /\ \A g \in Handlers : g # h => editor'[g] = editor[g]
  BY DEF D!Goto, DashboardTyped

\* Editors between requests.
LEMMA EditorIdle ==
  /\ D!Idle \in Editor /\ D!Idle.at = "idle"
  /\ [D!Idle EXCEPT !.at = "reload"] \in Editor
  /\ [D!Idle EXCEPT !.at = "reload"].at = "reload"
  BY DEF D!Idle, Editor

\* A write of rows of S by h leaves the searches of the others sound, if what was
\* under S is not due any more.
LEMMA SearchesKept ==
  ASSUME DashboardInv, DashboardTyped', NEW h \in Handlers, NEW S \in SUBSET Codes,
         boot = D!Up, boot' = boot, editor'[h].at # "collect",
         \A g \in Handlers : g # h =>
           editor'[g] = editor[g] /\ due'[g] \subseteq due[g] \ D!Under(nodes, S),
         \A c \in D!Present(nodes) \ S : nodes'[c] = nodes[c]
  PROVE  Searching'
<1> SUFFICES ASSUME NEW g \in Handlers, editor'[g].at = "collect"
             PROVE  due'[g] \subseteq editor'[g].codes \union D!Under(nodes', editor'[g].queue)
  BY DEF Searching, D!Up
<1>1. g # h /\ editor'[g] = editor[g] /\ due'[g] \subseteq due[g] \ D!Under(nodes, S)
  OBVIOUS
<1>2. due[g] \subseteq editor[g].codes \union D!Under(nodes, editor[g].queue)
  BY <1>1 DEF DashboardInv, Searching
<1>3. editor[g].queue \in SUBSET Codes
  BY DEF DashboardInv, DashboardTyped, Editor
<1>4. D!Under(nodes, editor[g].queue) \subseteq
        D!Under(nodes', editor[g].queue) \union D!Under(nodes, S)
  BY <1>3, UnderKept
<1> QED
  BY <1>1, <1>2, <1>4

\* The table before any request.
LEMMA DashboardInit == D!Init => DashboardInv
<1> SUFFICES ASSUME D!Init PROVE DashboardInv
  OBVIOUS
<1> USE DEF D!Init
<1>1. D!Count \in D!Count..D!Up
  BY DashboardAssumption DEF D!Count, D!Up
<1>2. DashboardTyped
  BY <1>1, DashboardAssumption, EditorIdle DEF DashboardTyped, Trees
<1>3. Searching
  BY EditorIdle DEF Searching
<1> QED
  BY <1>2, <1>3 DEF DashboardInv

\* Every step of the dashboard keeps the invariant.
LEMMA DashboardStep ==
  ASSUME DashboardInv, [D!Next]_dashboard
  PROVE  DashboardInv'
<1> USE DEF DashboardInv
<1>0. /\ D!Leaves(nodes) \in SUBSET Codes /\ D!Leaves(nodes)' \in SUBSET Codes
      /\ boot \in Int /\ D!Up \in Int /\ D!Up = Len(Seed) + 1 /\ Len(Seed) \in Nat /\ D!Count = 0
  BY DashboardAssumption DEF D!Leaves, D!Present, DashboardTyped, D!Up, D!Count
<1>a. \A h \in Handlers : editor[h] \in Editor
  BY DEF DashboardTyped
<1>1. CASE UNCHANGED dashboard
  <2>1. UNCHANGED <<nodes, list, editor, boot, writes, crashes, due>>
    BY <1>1 DEF dashboard
  <2>2. DashboardTyped'
    BY <2>1 DEF DashboardTyped, D!Up, D!Count
  <2>3. Searching'
    BY <2>1 DEF Searching, D!Up
  <2> QED
    BY <2>2, <2>3
<1>2. CASE D!CountRows
  <2>1. /\ boot = 0 /\ boot' \in {1, D!Up} /\ list' \in SUBSET Codes
        /\ UNCHANGED <<nodes, editor, writes, crashes, due>>
    BY <1>0, <1>2 DEF D!CountRows, DashboardTyped
  <2>2. DashboardTyped'
    BY <1>0, <2>1 DEF DashboardTyped, D!Up, D!Count
  <2>3. \A h \in Handlers : editor'[h].at = "idle"
    BY <1>0, <2>1 DEF Searching
  <2> QED
    BY <2>2, <2>3 DEF Searching
<1>3. CASE D!SeedRow
  <2>1. /\ boot \in 1..Len(Seed) /\ boot' = boot + 1 /\ list' \in SUBSET Codes
        /\ nodes' = [nodes EXCEPT ![Seed[boot][1]] = Seed[boot][2]]
        /\ UNCHANGED <<editor, writes, crashes, due>>
    BY <1>0, <1>3 DEF D!SeedRow, DashboardTyped
  <2>2. Seed[boot] \in Codes \X D!Rows
    BY <2>1, DashboardAssumption
  <2>3. nodes' \in Trees
    BY <2>1, <2>2 DEF DashboardTyped, Trees
  <2>4. DashboardTyped'
    BY <1>0, <2>1, <2>3 DEF DashboardTyped, D!Up, D!Count
  <2>5. \A h \in Handlers : editor'[h].at = "idle"
    BY <1>0, <2>1 DEF Searching
  <2> QED
    BY <2>4, <2>5 DEF Searching
<1>4. CASE D!Crash
  <2>1. /\ crashes < MaxCrashes /\ crashes' = crashes + 1 /\ boot' = 0 /\ list' = {}
        /\ editor' = [h \in Handlers |-> D!Idle] /\ due' = [h \in Handlers |-> {}]
        /\ UNCHANGED <<nodes, writes>>
    BY <1>4 DEF D!Crash, D!Count
  <2>2. crashes' \in 0..MaxCrashes
    BY <2>1, DashboardAssumption DEF DashboardTyped
  <2>3. DashboardTyped'
    BY <1>0, <2>1, <2>2, EditorIdle DEF DashboardTyped, D!Up, D!Count
  <2>4. \A h \in Handlers : editor'[h].at = "idle"
    BY <2>1, EditorIdle
  <2> QED
    BY <2>3, <2>4 DEF Searching
<1>b. ASSUME NEW h \in Handlers, D!StartWrite(h)
      PROVE  boot = D!Up /\ editor[h].at = "idle" /\ writes' \in 0..MaxWrites
  BY <1>b, DashboardAssumption DEF D!StartWrite, D!At, DashboardTyped
<1>5. ASSUME NEW h \in Handlers, NEW c \in Codes, D!Delete(h, c)
      PROVE  DashboardInv'
  <2> DEFINE x == [D!Idle EXCEPT !.at = "collect", !.codes = {c}, !.queue = {c}]
  <2>1. /\ D!Goto(h, x) /\ due' = [due EXCEPT ![h] = D!Under(nodes, {c})]
        /\ UNCHANGED <<nodes, list, boot, crashes>> /\ boot = D!Up /\ writes' \in 0..MaxWrites
    BY <1>5, <1>b DEF D!Delete
  <2>2. x \in Editor /\ x.at = "collect" /\ x.codes = {c} /\ x.queue = {c}
    BY DEF D!Idle, Editor
  <2> HIDE DEF x
  <2>3. /\ editor' \in [Handlers -> Editor] /\ editor'[h] = x
        /\ \A g \in Handlers : g # h => editor'[g] = editor[g]
    BY <2>1, <2>2, EditorGoes
  <2>4. D!Under(nodes, {c}) \in SUBSET Codes
    BY UnderHas
  <2>5. DashboardTyped'
    BY <2>1, <2>3, <2>4 DEF DashboardTyped, D!Up, D!Count
  <2>6. ASSUME NEW g \in Handlers, editor'[g].at = "collect"
        PROVE  due'[g] \subseteq editor'[g].codes \union D!Under(nodes', editor'[g].queue)
    <3>1. CASE g = h
      BY <2>1, <2>2, <2>3, <3>1 DEF DashboardTyped
    <3>2. CASE g # h
      BY <2>1, <2>3, <2>6, <3>2 DEF DashboardTyped, Searching
    <3> QED
      BY <3>1, <3>2
  <2> QED
    BY <2>1, <2>5, <2>6 DEF Searching, D!Up
<1>6. ASSUME NEW h \in Handlers, NEW c \in Codes, NEW row \in Bodies, D!Insert(h, c, row)
      PROVE  DashboardInv'
  <2>1. /\ D!Goto(h, [D!Idle EXCEPT !.at = "reload"]) /\ c \notin D!Present(nodes)
        /\ nodes' = [nodes EXCEPT ![c] = row]
        /\ UNCHANGED <<list, boot, crashes, due>> /\ boot = D!Up /\ writes' \in 0..MaxWrites
    BY <1>6, <1>b DEF D!Insert
  <2>2. /\ editor' \in [Handlers -> Editor] /\ editor'[h].at = "reload"
        /\ \A g \in Handlers : g # h => editor'[g] = editor[g]
    BY <2>1, EditorIdle, EditorGoes
  <2>3. nodes' \in Trees
    BY <2>1, DashboardAssumption DEF DashboardTyped, Trees
  <2>4. DashboardTyped'
    BY <2>1, <2>2, <2>3 DEF DashboardTyped, D!Up, D!Count
  <2>5. \A d \in D!Present(nodes) \ {} : nodes'[d] = nodes[d]
    BY <2>1 DEF DashboardTyped, Trees, D!Present
  <2>6. \A g \in Handlers : g # h => due'[g] \subseteq due[g] \ D!Under(nodes, {})
    BY <2>1, UnderNone
  <2> QED
    BY <2>1, <2>2, <2>4, <2>5, <2>6, SearchesKept
<1>7. ASSUME NEW h \in Handlers, NEW c \in Codes, NEW row \in Bodies, D!Update(h, c, row)
      PROVE  DashboardInv'
  <2>1. /\ D!Goto(h, [D!Idle EXCEPT !.at = "reload"])
        /\ nodes' = [nodes EXCEPT ![c] = IF @ = None THEN None ELSE row]
        /\ due' = [g \in Handlers |-> due[g] \ D!Under(nodes, {c})]
        /\ UNCHANGED <<list, boot, crashes>> /\ boot = D!Up /\ writes' \in 0..MaxWrites
    BY <1>7, <1>b DEF D!Update, D!Touch
  <2>2. /\ editor' \in [Handlers -> Editor] /\ editor'[h].at = "reload"
        /\ \A g \in Handlers : g # h => editor'[g] = editor[g]
    BY <2>1, EditorIdle, EditorGoes
  <2>3. nodes' \in Trees /\ due' \in [Handlers -> SUBSET Codes]
    BY <2>1, DashboardAssumption DEF DashboardTyped, Trees
  <2>4. DashboardTyped'
    BY <2>1, <2>2, <2>3 DEF DashboardTyped, D!Up, D!Count
  <2>5. \A d \in D!Present(nodes) \ {c} : nodes'[d] = nodes[d]
    BY <2>1 DEF DashboardTyped, Trees, D!Present
  <2>6. \A g \in Handlers : g # h => due'[g] \subseteq due[g] \ D!Under(nodes, {c})
    BY <2>1
  <2> QED
    BY <2>1, <2>2, <2>4, <2>5, <2>6, SearchesKept
<1>8. ASSUME NEW h \in Handlers, D!CollectChildren(h)
      PROVE  DashboardInv'
  <2>1. /\ editor[h].at = "collect" /\ boot = D!Up
        /\ UNCHANGED <<nodes, list, boot, writes, crashes, due>>
    BY <1>8 DEF D!CollectChildren, D!At
  <2>2. PICK p \in editor[h].queue :
          D!Goto(h, [editor[h] EXCEPT !.codes = @ \union D!Children(nodes, p),
                                      !.queue = (@ \ {p}) \union D!Children(nodes, p)])
    BY <1>8 DEF D!CollectChildren
  <2> DEFINE x == [editor[h] EXCEPT !.codes = @ \union D!Children(nodes, p),
                                    !.queue = (@ \ {p}) \union D!Children(nodes, p)]
  <2>3. D!Children(nodes, p) \in SUBSET Codes
    BY DEF D!Children, D!Present
  <2>4. /\ x \in Editor /\ x.at = "collect"
        /\ x.codes = editor[h].codes \union D!Children(nodes, p)
        /\ x.queue = (editor[h].queue \ {p}) \union D!Children(nodes, p)
    BY <1>a, <2>1, <2>3 DEF Editor
  <2> HIDE DEF x
  <2>5. /\ editor' \in [Handlers -> Editor] /\ editor'[h] = x
        /\ \A g \in Handlers : g # h => editor'[g] = editor[g]
    <3>1. D!Goto(h, x)
      BY <2>2 DEF x
    <3> QED
      BY <2>4, <3>1, EditorGoes
  <2>6. DashboardTyped'
    BY <2>1, <2>5 DEF DashboardTyped, D!Up, D!Count
  <2>7. due[h] \subseteq x.codes \union D!Under(nodes, x.queue)
    <3>1. due[h] \subseteq editor[h].codes \union D!Under(nodes, editor[h].queue)
      BY <2>1 DEF Searching
    <3>2. /\ editor[h].queue \in SUBSET Codes /\ p \in editor[h].codes
      BY <1>a, <2>2 DEF Editor
    <3>3. D!Under(nodes, editor[h].queue) \subseteq {p} \union D!Under(nodes, x.queue)
      BY <2>2, <2>4, <3>2, UnderRound
    <3> QED
      BY <2>4, <3>1, <3>2, <3>3
  <2>8. ASSUME NEW g \in Handlers, editor'[g].at = "collect"
        PROVE  due'[g] \subseteq editor'[g].codes \union D!Under(nodes', editor'[g].queue)
    BY <2>1, <2>5, <2>7, <2>8 DEF Searching
  <2> QED
    BY <2>1, <2>6, <2>8 DEF Searching, D!Up
<1>d. ASSUME NEW h \in Handlers, D!CollectBreaksOff(h)
      PROVE  DashboardInv'
  <2>1. /\ editor[h].at = "collect" /\ boot = D!Up
        /\ UNCHANGED <<nodes, list, boot, writes, crashes>>
    BY <1>d DEF D!CollectBreaksOff, D!At
  <2>0. PICK p \in editor[h].queue : \E read \in SUBSET D!Children(nodes, p) :
          /\ D!Goto(h, [editor[h] EXCEPT !.codes = @ \union read,
                                         !.queue = (@ \ {p}) \union read])
          /\ due' = [due EXCEPT ![h] = @ \ D!Under(nodes, D!Children(nodes, p) \ read)]
    BY <1>d DEF D!CollectBreaksOff
  <2>2. PICK read \in SUBSET D!Children(nodes, p) :
          /\ D!Goto(h, [editor[h] EXCEPT !.codes = @ \union read,
                                         !.queue = (@ \ {p}) \union read])
          /\ due' = [due EXCEPT ![h] = @ \ D!Under(nodes, D!Children(nodes, p) \ read)]
    BY <2>0
  <2> DEFINE x == [editor[h] EXCEPT !.codes = @ \union read, !.queue = (@ \ {p}) \union read]
             missed == D!Children(nodes, p) \ read
  <2>3. D!Children(nodes, p) \in SUBSET Codes
    BY DEF D!Children, D!Present
  <2>4. /\ x \in Editor /\ x.at = "collect"
        /\ x.codes = editor[h].codes \union read
        /\ x.queue = (editor[h].queue \ {p}) \union read
    BY <1>a, <2>1, <2>3 DEF Editor
  <2>a. D!Goto(h, x) /\ due' = [due EXCEPT ![h] = @ \ D!Under(nodes, missed)]
    BY <2>2
  <2>b. missed \in SUBSET Codes /\ D!Children(nodes, p) = read \union missed
    BY <2>3
  <2> HIDE DEF x, missed
  <2>5. /\ editor' \in [Handlers -> Editor] /\ editor'[h] = x
        /\ \A g \in Handlers : g # h => editor'[g] = editor[g]
    BY <2>4, <2>a, EditorGoes
  <2>6. /\ due' \in [Handlers -> SUBSET Codes]
        /\ due'[h] = due[h] \ D!Under(nodes, missed)
        /\ \A g \in Handlers : g # h => due'[g] = due[g]
    BY <2>a DEF DashboardTyped
  <2>c. DashboardTyped'
    BY <2>1, <2>5, <2>6 DEF DashboardTyped, D!Up, D!Count
  <2>7. due'[h] \subseteq x.codes \union D!Under(nodes, x.queue)
    <3>1. due[h] \subseteq editor[h].codes \union D!Under(nodes, editor[h].queue)
      BY <2>1 DEF Searching
    <3>2. /\ editor[h].queue \in SUBSET Codes /\ p \in editor[h].codes
      BY <1>a, <2>2 DEF Editor
    <3> DEFINE rest == (editor[h].queue \ {p}) \union D!Children(nodes, p)
    <3>3. D!Under(nodes, editor[h].queue) \subseteq {p} \union D!Under(nodes, rest)
      BY <2>2, <3>2, UnderRound
    <3>4. rest = x.queue \union missed /\ x.queue \in SUBSET Codes
      BY <2>3, <2>4, <2>b, <3>2
    <3> HIDE DEF rest
    <3>5. D!Under(nodes, rest) \subseteq D!Under(nodes, x.queue) \union D!Under(nodes, missed)
      BY <2>b, <3>4, UnderUnion
    <3> QED
      BY <2>4, <2>6, <3>1, <3>2, <3>3, <3>5
  <2>8. ASSUME NEW g \in Handlers, editor'[g].at = "collect"
        PROVE  due'[g] \subseteq editor'[g].codes \union D!Under(nodes', editor'[g].queue)
    BY <2>1, <2>5, <2>6, <2>7, <2>8 DEF Searching
  <2> QED
    BY <2>1, <2>c, <2>8 DEF Searching, D!Up
<1>9. ASSUME NEW h \in Handlers, D!CommitDelete(h)
      PROVE  DashboardInv'
  <2> DEFINE x == [editor[h] EXCEPT !.at = "reload"]
             S == editor[h].codes
  <2>1. /\ boot = D!Up /\ D!Goto(h, x)
        /\ nodes' = [c \in Codes |-> IF c \in S THEN None ELSE nodes[c]]
        /\ due' = [g \in Handlers |-> IF g = h THEN {} ELSE due[g] \ D!Under(nodes, S)]
        /\ UNCHANGED <<list, boot, writes, crashes>>
    BY <1>9 DEF D!CommitDelete, D!At
  <2>2. x \in Editor /\ x.at = "reload" /\ S \in SUBSET Codes
    BY <1>a DEF Editor
  <2> HIDE DEF x, S
  <2>3. /\ editor' \in [Handlers -> Editor] /\ editor'[h].at = "reload"
        /\ \A g \in Handlers : g # h => editor'[g] = editor[g]
    BY <2>1, <2>2, EditorGoes
  <2>4. nodes' \in Trees /\ due' \in [Handlers -> SUBSET Codes]
    BY <2>1 DEF DashboardTyped, Trees
  <2>5. DashboardTyped'
    BY <2>1, <2>3, <2>4 DEF DashboardTyped, D!Up, D!Count
  <2>6. \A d \in D!Present(nodes) \ S : nodes'[d] = nodes[d]
    BY <2>1 DEF D!Present
  <2>7. \A g \in Handlers : g # h => due'[g] \subseteq due[g] \ D!Under(nodes, S)
    BY <2>1
  <2> QED
    BY <2>1, <2>2, <2>3, <2>5, <2>6, <2>7, SearchesKept
<1>c. ASSUME NEW h \in Handlers, D!ReadLeaves(h) \/ D!Install(h) \/ D!Fail(h)
      PROVE  DashboardInv'
  <2> DEFINE x == IF D!ReadLeaves(h) THEN [D!Idle EXCEPT !.at = "install", !.leaves = D!Leaves(nodes)]
                  ELSE D!Idle
  <2>1. /\ boot = D!Up /\ D!Goto(h, x) /\ list' \in SUBSET Codes
        /\ due' = due \/ due' = [due EXCEPT ![h] = {}]
        /\ UNCHANGED <<nodes, boot, writes, crashes>>
    BY <1>a, <1>c DEF D!ReadLeaves, D!Install, D!Fail, D!At, DashboardTyped, Editor
  <2>2. x \in Editor /\ x.at # "collect"
    BY <1>0 DEF Editor, D!Idle
  <2> HIDE DEF x
  <2>3. /\ editor' \in [Handlers -> Editor] /\ editor'[h].at # "collect"
        /\ \A g \in Handlers : g # h => editor'[g] = editor[g]
    BY <2>1, <2>2, EditorGoes
  <2>4. due' \in [Handlers -> SUBSET Codes] /\ \A g \in Handlers : g # h => due'[g] = due[g]
    BY <2>1 DEF DashboardTyped
  <2>5. DashboardTyped'
    BY <2>1, <2>3, <2>4 DEF DashboardTyped, D!Up, D!Count
  <2>6. ASSUME NEW g \in Handlers, editor'[g].at = "collect"
        PROVE  due'[g] \subseteq editor'[g].codes \union D!Under(nodes', editor'[g].queue)
    BY <2>1, <2>3, <2>4, <2>6 DEF Searching
  <2> QED
    BY <2>1, <2>5, <2>6 DEF Searching, D!Up
<1> HIDE DEF DashboardInv
<1> QED
  BY <1>1, <1>2, <1>3, <1>4, <1>5, <1>6, <1>7, <1>8, <1>9, <1>c, <1>d
     DEF D!Next, D!Edit, D!Continue

\* What the invariant says of deletions, of the tree shown, and of the type.
LEMMA DashboardSafe ==
  DashboardInv => D!UntouchedSubtreeGoes /\ D!HiddenOnlyInCycles /\ D!TypeOK
<1> SUFFICES ASSUME DashboardInv
             PROVE  D!UntouchedSubtreeGoes /\ D!HiddenOnlyInCycles /\ D!TypeOK
  OBVIOUS
<1>1. D!UntouchedSubtreeGoes
  BY UnderNone DEF DashboardInv, Searching, D!UntouchedSubtreeGoes, D!At
<1>2. D!HiddenOnlyInCycles
  BY HiddenRows DEF DashboardInv, DashboardTyped, D!HiddenOnlyInCycles, Cyclic
<1>3. \A h \in Handlers : editor[h] \in Editor
  BY DEF DashboardInv, DashboardTyped
<1> QED
  BY <1>1, <1>2, <1>3 DEF D!TypeOK, DashboardInv, DashboardTyped, Trees, Editor

-----------------------------------------------------------------------------
(* Reports: the statements *)

\* What the reports state, and the statements they are made of.
Figures == {"todayCost", "monthCost", "totalRequests", "monthTokens", "todayRequests", "errorCount",
            "totalTokens", "avgLatency", "items", "points", "totalCost", "savedCost", "total"}
Statements == [figure : Figures, since : {"today", "month", "ever"}, statuses : SUBSET Statuses,
               first : BOOLEAN, needed : BOOLEAN]

\* Statements with the same figures, periods, statuses and clocks.
Alike(r, s) ==
  /\ r \in Seq(Statements) /\ Len(r) = Len(s)
  /\ \A i \in 1..Len(s) :
       /\ r[i].figure = s[i].figure /\ r[i].since = s[i].since
       /\ r[i].statuses = s[i].statuses /\ r[i].first = s[i].first

\* What Lenient, Function and concatenation make of statements.
LEMMA LenientAlike ==
  ASSUME NEW s \in Seq(Statements)
  PROVE  Alike(Lenient(s), s)
<1>1. \A i \in 1..Len(s) : s[i] \in Statements
  OBVIOUS
<1>2. \A i \in 1..Len(s) :
        /\ [s[i] EXCEPT !.needed = FALSE] \in Statements
        /\ [s[i] EXCEPT !.needed = FALSE].figure = s[i].figure
        /\ [s[i] EXCEPT !.needed = FALSE].since = s[i].since
        /\ [s[i] EXCEPT !.needed = FALSE].statuses = s[i].statuses
        /\ [s[i] EXCEPT !.needed = FALSE].first = s[i].first
  BY <1>1 DEF Statements
<1>3. Lenient(s) = [i \in 1..Len(s) |-> [s[i] EXCEPT !.needed = FALSE]]
  BY DEF Lenient
<1>4. Lenient(s) \in Seq(Statements) /\ Len(Lenient(s)) = Len(s)
  BY <1>2, <1>3
<1> QED
  BY <1>2, <1>3, <1>4 DEF Alike

\* A function's first statement reads the clock.
LEMMA FunctionStarts ==
  ASSUME NEW s \in Seq(Statements), s # <<>>
  PROVE  /\ Function(s) \in Seq(Statements) /\ Len(Function(s)) = Len(s)
         /\ Function(s)[1] = [s[1] EXCEPT !.first = TRUE]
         /\ \A i \in 2..Len(s) : Function(s)[i] = s[i]
<1>1. 1 \in 1..Len(s) /\ s[1] \in Statements
  OBVIOUS
<1>2. [s[1] EXCEPT !.first = TRUE] \in Statements
  BY <1>1 DEF Statements
<1>3. Function(s) = [s EXCEPT ![1] = [s[1] EXCEPT !.first = TRUE]]
  BY DEF Function
<1> DEFINE x == [s[1] EXCEPT !.first = TRUE]
<1> HIDE DEF x
<1>4. /\ [s EXCEPT ![1] = x] \in Seq(Statements) /\ Len([s EXCEPT ![1] = x]) = Len(s)
      /\ \A i \in 1..Len(s) : [s EXCEPT ![1] = x][i] = IF i = 1 THEN x ELSE s[i]
  <2>1. x \in Statements
    BY <1>2 DEF x
  <2> QED
    BY <1>1, <2>1, ExceptSeq
<1> QED
  BY <1>1, <1>3, <1>4 DEF x

\* A statement is what it is made of.
LEMMA StatementTyped ==
  ASSUME NEW f \in Figures, NEW since \in {"today", "month", "ever"}, NEW statuses \in SUBSET Statuses
  PROVE  /\ Statement(f, since, statuses) \in Statements
         /\ Statement(f, since, statuses).figure = f /\ Statement(f, since, statuses).since = since
         /\ Statement(f, since, statuses).statuses = statuses
         /\ ~Statement(f, since, statuses).first
  BY DEF Statement, Statements

\* The statements of the monitor.
LEMMA MonitorIs ==
  /\ MonitorOverview \in Seq(Statements) /\ Len(MonitorOverview) = 4
  /\ MonitorOverview[1].figure = "todayRequests" /\ MonitorOverview[2].figure = "errorCount"
  /\ MonitorOverview[3].figure = "totalTokens" /\ MonitorOverview[4].figure = "avgLatency"
<1> DEFINE a == Statement("todayRequests", "today", Statuses)
           b == Statement("errorCount", "today", {"error"})
           c == Statement("totalTokens", "today", Statuses)
           d == Statement("avgLatency", "today", Statuses)
           s == <<a, b, c, d>>
<1>1. /\ a \in Statements /\ a.figure = "todayRequests" /\ b \in Statements /\ b.figure = "errorCount"
      /\ c \in Statements /\ c.figure = "totalTokens" /\ d \in Statements /\ d.figure = "avgLatency"
  BY StatementTyped DEF Figures, Statuses
<1>2. MonitorOverview = Function(s)
  BY DEF MonitorOverview
<1> HIDE DEF a, b, c, d
<1>3. s \in Seq(Statements) /\ Len(s) = 4 /\ s # <<>> /\ s[1] = a /\ s[2] = b /\ s[3] = c /\ s[4] = d
  BY <1>1
<1>4. [a EXCEPT !.first = TRUE].figure = a.figure
  BY <1>1 DEF Statements
<1> HIDE DEF s
<1>5. Function(s) \in Seq(Statements) /\ Len(Function(s)) = 4 /\ Function(s)[1].figure = a.figure
  BY <1>3, <1>4, FunctionStarts
<1>6. \A i \in 2..4 : Function(s)[i] = s[i]
  BY <1>3, FunctionStarts
<1>7. Function(s)[2] = b /\ Function(s)[3] = c /\ Function(s)[4] = d
  BY <1>3, <1>6
<1> QED
  BY <1>1, <1>2, <1>5, <1>7

\* Reports whose one function has one statement.
LEMMA SingleIs ==
  ASSUME NEW f \in Figures, NEW since \in {"today", "month", "ever"}, NEW statuses \in SUBSET Statuses
  PROVE  /\ Function(<<Statement(f, since, statuses)>>) \in Seq(Statements)
         /\ Len(Function(<<Statement(f, since, statuses)>>)) = 1
         /\ Function(<<Statement(f, since, statuses)>>)[1].figure = f
<1> DEFINE a == Statement(f, since, statuses)
           s == <<a>>
<1>1. a \in Statements /\ a.figure = f
  BY StatementTyped
<1>2. [a EXCEPT !.first = TRUE].figure = f
  BY <1>1 DEF Statements
<1> HIDE DEF a
<1>3. s \in Seq(Statements) /\ s # <<>> /\ Len(s) = 1 /\ s[1] = a
  BY <1>1
<1> HIDE DEF s
<1>4. Function(s) \in Seq(Statements) /\ Len(Function(s)) = 1 /\ Function(s)[1].figure = f
  BY <1>2, <1>3, FunctionStarts
<1> QED
  BY <1>4 DEF s, a

\* The dashboard's overview asks for the month's cost after the day's.
LEMMA OverviewIs ==
  /\ DashboardOverview \in Seq(Statements) /\ Len(DashboardOverview) = 4
  /\ DashboardOverview[1].figure = "todayCost" /\ DashboardOverview[1].since = "today"
  /\ DashboardOverview[2].figure = "monthCost" /\ DashboardOverview[2].since = "month"
  /\ DashboardOverview[2].statuses = Statuses /\ ~DashboardOverview[2].first
  /\ DashboardOverview[3].figure = "totalRequests" /\ DashboardOverview[4].figure = "monthTokens"
<1> DEFINE a == Statement("todayCost", "today", Statuses)
           b == Statement("monthCost", "month", Statuses)
           c == Statement("totalRequests", "ever", Statuses)
           d == Statement("monthTokens", "month", Statuses)
           s == <<a, b, c>>
           r == <<d>>
           q == s \o Lenient(r)
<1>1. /\ a \in Statements /\ a.figure = "todayCost" /\ a.since = "today"
      /\ b \in Statements /\ b.figure = "monthCost" /\ b.since = "month"
      /\ b.statuses = Statuses /\ ~b.first
      /\ c \in Statements /\ c.figure = "totalRequests"
      /\ d \in Statements /\ d.figure = "monthTokens"
  BY StatementTyped DEF Figures
<1>2. DashboardOverview = Function(q)
  BY DEF DashboardOverview
<1>3. [a EXCEPT !.first = TRUE].figure = a.figure /\ [a EXCEPT !.first = TRUE].since = a.since
  BY <1>1 DEF Statements
<1> HIDE DEF a, b, c, d
<1>4. /\ s \in Seq(Statements) /\ Len(s) = 3 /\ s[1] = a /\ s[2] = b /\ s[3] = c
      /\ r \in Seq(Statements) /\ Len(r) = 1 /\ r[1] = d
  BY <1>1
<1> HIDE DEF s, r
<1>5. /\ Lenient(r) \in Seq(Statements) /\ Len(Lenient(r)) = 1
      /\ Lenient(r)[1].figure = "monthTokens"
  <2>1. Alike(Lenient(r), r) /\ 1 \in 1..Len(r)
    BY <1>4, LenientAlike
  <2> QED
    BY <1>1, <1>4, <2>1 DEF Alike
<1>6. /\ q \in Seq(Statements) /\ Len(q) = 4 /\ q # <<>>
      /\ \A i \in 1..4 : q[i] = IF i <= 3 THEN s[i] ELSE Lenient(r)[i - 3]
  <2>1. /\ q \in Seq(Statements) /\ Len(q) = Len(s) + Len(Lenient(r))
        /\ \A i \in 1..Len(s) + Len(Lenient(r)) :
             q[i] = IF i <= Len(s) THEN s[i] ELSE Lenient(r)[i - Len(s)]
    BY <1>4, <1>5, ConcatProperties
  <2> HIDE DEF q
  <2>2. Len(q) = 4
    BY <1>4, <1>5, <2>1
  <2> QED
    BY <1>4, <1>5, <2>1, <2>2
<1> HIDE DEF q
<1>7. q[1] = a /\ q[2] = b /\ q[3] = c /\ q[4] = Lenient(r)[1]
  BY <1>4, <1>6
<1>8. /\ Function(q) \in Seq(Statements) /\ Len(Function(q)) = 4
      /\ Function(q)[1] = [a EXCEPT !.first = TRUE]
      /\ \A i \in 2..4 : Function(q)[i] = q[i]
  BY <1>6, <1>7, FunctionStarts
<1>9. Function(q)[2] = b /\ Function(q)[3] = c /\ Function(q)[4] = Lenient(r)[1]
  BY <1>7, <1>8
<1> QED
  BY <1>1, <1>2, <1>3, <1>5, <1>8, <1>9

\* The API's overview asks for costs and for requests, the widest period last.
LEMMA OverviewQueryIs ==
  LET q == DashboardOverviewQuery
  IN  /\ q \in Seq(Statements) /\ Len(q) = 6
      /\ q[1].figure = "todayCost" /\ q[1].since = "today" /\ q[1].statuses = {"ok"}
      /\ q[2].figure = "monthCost" /\ q[2].since = "month" /\ q[2].statuses = {"ok"}
      /\ q[3].figure = "totalCost" /\ q[3].since = "ever" /\ q[3].statuses = {"ok"}
      /\ q[4].figure = "todayRequests" /\ q[4].since = "today"
      /\ q[5].figure = "totalRequests" /\ q[5].since = "ever" /\ q[5].statuses = Statuses
      /\ q[6].figure = "savedCost"
      /\ \A k \in 2..6 : ~q[k].first
<1> DEFINE a == Statement("todayCost", "today", {"ok"})
           b == Statement("monthCost", "month", {"ok"})
           c == Statement("totalCost", "ever", {"ok"})
           d == Statement("todayRequests", "today", Statuses)
           e == Statement("totalRequests", "ever", Statuses)
           f == Statement("savedCost", "month", {"ok"})
           s == <<a, b, c, d, e, f>>
           r == Lenient(s)
<1>1. /\ a \in Statements /\ a.figure = "todayCost" /\ a.since = "today" /\ a.statuses = {"ok"}
      /\ b \in Statements /\ b.figure = "monthCost" /\ b.since = "month" /\ b.statuses = {"ok"} /\ ~b.first
      /\ c \in Statements /\ c.figure = "totalCost" /\ c.since = "ever" /\ c.statuses = {"ok"} /\ ~c.first
      /\ d \in Statements /\ d.figure = "todayRequests" /\ d.since = "today" /\ ~d.first
      /\ e \in Statements /\ e.figure = "totalRequests" /\ e.since = "ever" /\ e.statuses = Statuses /\ ~e.first
      /\ f \in Statements /\ f.figure = "savedCost" /\ ~f.first
  BY StatementTyped DEF Figures, Statuses
<1>2. DashboardOverviewQuery = Function(r)
  BY DEF DashboardOverviewQuery
<1> HIDE DEF a, b, c, d, e, f
<1>3. /\ s \in Seq(Statements) /\ Len(s) = 6
      /\ s[1] = a /\ s[2] = b /\ s[3] = c /\ s[4] = d /\ s[5] = e /\ s[6] = f
  BY <1>1
<1> HIDE DEF s
<1>4. Alike(r, s)
  BY <1>3, LenientAlike
<1> HIDE DEF r
<1>5. r \in Seq(Statements) /\ Len(r) = 6 /\ r # <<>>
  <2>1. r \in Seq(Statements) /\ Len(r) = 6
    BY <1>3, <1>4 DEF Alike
  <2> QED
    BY <2>1
<1>6. \A i \in 1..6 :
        /\ r[i].figure = s[i].figure /\ r[i].since = s[i].since
        /\ r[i].statuses = s[i].statuses /\ r[i].first = s[i].first
  BY <1>3, <1>4 DEF Alike
<1>7. /\ Function(r) \in Seq(Statements) /\ Len(Function(r)) = 6
      /\ Function(r)[1] = [r[1] EXCEPT !.first = TRUE]
      /\ \A i \in 2..6 : Function(r)[i] = r[i]
  BY <1>5, FunctionStarts
<1>8. r[1] \in Statements
  BY <1>5
<1>9. /\ Function(r)[1].figure = r[1].figure /\ Function(r)[1].since = r[1].since
      /\ Function(r)[1].statuses = r[1].statuses
  BY <1>7, <1>8 DEF Statements
<1>a. \A i \in {2, 3, 4, 5, 6} :
        /\ Function(r)[i].figure = s[i].figure /\ Function(r)[i].since = s[i].since
        /\ Function(r)[i].statuses = s[i].statuses /\ Function(r)[i].first = s[i].first
  BY <1>6, <1>7
<1>b. \A k \in 2..6 : ~Function(r)[k].first
  <2>1. \A k \in {2, 3, 4, 5, 6} : ~s[k].first
    BY <1>1, <1>3
  <2>2. 2..6 = {2, 3, 4, 5, 6}
    OBVIOUS
  <2> QED
    BY <1>a, <2>1, <2>2
<1> QED
  BY <1>1, <1>2, <1>3, <1>6, <1>7, <1>9, <1>a, <1>b

\* The monitor's page is the overview, then figures that are no whole of any.
LEMMA MonitorPageIs ==
  LET q == MonitorPage
  IN  /\ q \in Seq(Statements) /\ Len(q) = 9
      /\ q[1].figure = "todayCost" /\ q[1].since = "today"
      /\ q[2].figure = "monthCost" /\ q[2].since = "month" /\ q[2].statuses = Statuses /\ ~q[2].first
      /\ q[3].figure = "totalRequests" /\ q[4].figure = "monthTokens"
      /\ q[5].figure = "todayRequests" /\ q[6].figure = "errorCount"
      /\ q[7].figure = "totalTokens" /\ q[8].figure = "avgLatency" /\ q[9].figure = "items"
<1> DEFINE o == DashboardOverview
           m == MonitorOverview
           b == Lenient(ByModel)
           om == o \o m
           q == om \o b
<1>1. /\ o \in Seq(Statements) /\ Len(o) = 4
      /\ o[1].figure = "todayCost" /\ o[1].since = "today"
      /\ o[2].figure = "monthCost" /\ o[2].since = "month" /\ o[2].statuses = Statuses /\ ~o[2].first
      /\ o[3].figure = "totalRequests" /\ o[4].figure = "monthTokens"
  BY OverviewIs
<1>2. /\ m \in Seq(Statements) /\ Len(m) = 4
      /\ m[1].figure = "todayRequests" /\ m[2].figure = "errorCount"
      /\ m[3].figure = "totalTokens" /\ m[4].figure = "avgLatency"
  BY MonitorIs
<1>3. b \in Seq(Statements) /\ Len(b) = 1 /\ b[1].figure = "items"
  <2>1. ByModel \in Seq(Statements) /\ Len(ByModel) = 1 /\ ByModel[1].figure = "items"
    BY SingleIs DEF ByModel, Figures
  <2>2. Alike(b, ByModel)
    BY <2>1, LenientAlike
  <2> QED
    BY <2>1, <2>2 DEF Alike
<1>4. MonitorPage = q
  <2> HIDE DEF o, m
  <2>1. om \in Seq(Statements) /\ MonitorPage = (o \o m) \o b
    BY <1>1, <1>2, ConcatProperties DEF MonitorPage, o, m
  <2> QED
    BY <2>1
<1> HIDE DEF o, m, b
<1>5. /\ om \in Seq(Statements) /\ Len(om) = 8
      /\ \A i \in 1..8 : om[i] = IF i <= 4 THEN o[i] ELSE m[i - 4]
  <2>1. /\ om \in Seq(Statements) /\ Len(om) = Len(o) + Len(m)
        /\ \A i \in 1..Len(o) + Len(m) : om[i] = IF i <= Len(o) THEN o[i] ELSE m[i - Len(o)]
    BY <1>1, <1>2, ConcatProperties
  <2> HIDE DEF om
  <2> QED
    BY <1>1, <1>2, <2>1
<1> HIDE DEF om
<1>6. /\ q \in Seq(Statements) /\ Len(q) = 9
      /\ \A i \in 1..9 : q[i] = IF i <= 8 THEN om[i] ELSE b[i - 8]
  <2>1. /\ q \in Seq(Statements) /\ Len(q) = Len(om) + Len(b)
        /\ \A i \in 1..Len(om) + Len(b) : q[i] = IF i <= Len(om) THEN om[i] ELSE b[i - Len(om)]
    BY <1>3, <1>5, ConcatProperties
  <2> HIDE DEF q
  <2> QED
    BY <1>3, <1>5, <2>1
<1> HIDE DEF q
<1>7. /\ q[1] = o[1] /\ q[2] = o[2] /\ q[3] = o[3] /\ q[4] = o[4]
      /\ q[5] = m[1] /\ q[6] = m[2] /\ q[7] = m[3] /\ q[8] = m[4] /\ q[9] = b[1]
  BY <1>5, <1>6
<1> QED
  BY <1>1, <1>2, <1>3, <1>4, <1>6, <1>7

\* The statement of a part comes before that of its whole, in the same function,
\* and selects no row that the whole does not.
Wider == {<<"today", "today">>, <<"today", "month">>, <<"today", "ever">>, <<"month", "month">>,
          <<"month", "ever">>, <<"ever", "ever">>}

\* Statement i is read before j, by the same reading of the clock, and selects no more.
Fits(r, i, j) ==
  /\ i < j /\ \A k \in (i + 1)..j : ~r[k].first
  /\ <<r[i].since, r[j].since>> \in Wider /\ r[i].statuses \subseteq r[j].statuses

\* Every part of a report fits its whole.
Orderly(name, r) ==
  \A i, j \in 1..Len(r) :
    /\ <<r[i].figure, r[j].figure>> \in PartOf
    /\ name \in AcrossFunctions => r[i].figure # "todayRequests"
    => Fits(r, i, j)

\* A report without wholes has no part to fit.
LEMMA NoWhole ==
  ASSUME NEW name, NEW r,
         \A j \in 1..Len(r) : r[j].figure \notin {"monthCost", "totalCost", "totalRequests"}
  PROVE  Orderly(name, r)
  BY DEF Orderly, PartOf

\* Both overviews read parts before their wholes.
LEMMA OverviewOrderly == ASSUME NEW name PROVE Orderly(name, DashboardOverview)
<1> DEFINE q == DashboardOverview
<1>1. /\ q \in Seq(Statements) /\ Len(q) = 4
      /\ q[1].figure = "todayCost" /\ q[1].since = "today"
      /\ q[2].figure = "monthCost" /\ q[2].since = "month" /\ q[2].statuses = Statuses /\ ~q[2].first
      /\ q[3].figure = "totalRequests" /\ q[4].figure = "monthTokens"
  BY OverviewIs
<1> HIDE DEF q
<1>2. q[1].statuses \subseteq Statuses
  <2>0. q \in Seq(Statements)
    BY <1>1
  <2>1. 1 \in 1..Len(q)
    BY <1>1
  <2>2. q[1] \in Statements
    BY <2>0, <2>1
  <2> QED
    BY <2>2 DEF Statements
<1>3. \A i, j \in 1..4 : <<q[i].figure, q[j].figure>> \in PartOf => i = 1 /\ j = 2
  BY <1>1 DEF PartOf
<1>4. \A k \in 2..2 : ~q[k].first
  BY <1>1
<1>5. <<q[1].since, q[2].since>> \in Wider
  BY <1>1 DEF Wider
<1>6. Fits(q, 1, 2)
  BY <1>1, <1>2, <1>4, <1>5 DEF Fits
<1>7. Orderly(name, q)
  BY <1>1, <1>3, <1>6 DEF Orderly
<1> QED
  BY <1>7 DEF q

\* The monitor's page.
LEMMA MonitorPageOrderly == Orderly("monitor", MonitorPage)
<1> DEFINE q == MonitorPage
<1>1. /\ q \in Seq(Statements) /\ Len(q) = 9
      /\ q[1].figure = "todayCost" /\ q[1].since = "today"
      /\ q[2].figure = "monthCost" /\ q[2].since = "month" /\ q[2].statuses = Statuses /\ ~q[2].first
      /\ q[3].figure = "totalRequests" /\ q[4].figure = "monthTokens"
      /\ q[5].figure = "todayRequests" /\ q[6].figure = "errorCount"
      /\ q[7].figure = "totalTokens" /\ q[8].figure = "avgLatency" /\ q[9].figure = "items"
  BY MonitorPageIs
<1> HIDE DEF q
<1>2. q[1].statuses \subseteq Statuses
  <2>0. q \in Seq(Statements)
    BY <1>1
  <2>1. 1 \in 1..Len(q)
    BY <1>1
  <2>2. q[1] \in Statements
    BY <2>0, <2>1
  <2> QED
    BY <2>2 DEF Statements
<1>3. \A i, j \in 1..9 : <<q[i].figure, q[j].figure>> \in PartOf =>
                           (i = 1 /\ j = 2) \/ q[i].figure = "todayRequests"
  BY <1>1 DEF PartOf
<1>4. \A k \in 2..2 : ~q[k].first
  BY <1>1
<1>5. <<q[1].since, q[2].since>> \in Wider
  BY <1>1 DEF Wider
<1>6. Fits(q, 1, 2)
  BY <1>1, <1>2, <1>4, <1>5 DEF Fits
<1>7. Orderly("monitor", q)
  BY <1>1, <1>3, <1>6 DEF Orderly, AcrossFunctions
<1> QED
  BY <1>7 DEF q

\* The overview of the other version.
LEMMA OverviewQueryOrderly == ASSUME NEW name PROVE Orderly(name, DashboardOverviewQuery)
<1> DEFINE q == DashboardOverviewQuery
<1>1. /\ q \in Seq(Statements) /\ Len(q) = 6
      /\ q[1].figure = "todayCost" /\ q[1].since = "today" /\ q[1].statuses = {"ok"}
      /\ q[2].figure = "monthCost" /\ q[2].since = "month" /\ q[2].statuses = {"ok"}
      /\ q[3].figure = "totalCost" /\ q[3].since = "ever" /\ q[3].statuses = {"ok"}
      /\ q[4].figure = "todayRequests" /\ q[4].since = "today"
      /\ q[5].figure = "totalRequests" /\ q[5].since = "ever" /\ q[5].statuses = Statuses
      /\ q[6].figure = "savedCost"
      /\ \A k \in 2..6 : ~q[k].first
  BY OverviewQueryIs
<1> HIDE DEF q
<1>2. q[4].statuses \subseteq Statuses
  <2>0. q \in Seq(Statements)
    BY <1>1
  <2>1. 4 \in 1..Len(q)
    BY <1>1
  <2>2. q[4] \in Statements
    BY <2>0, <2>1
  <2> QED
    BY <2>2 DEF Statements
<1>3. \A i, j \in 1..6 : <<q[i].figure, q[j].figure>> \in PartOf =>
                           (i = 1 /\ j = 2) \/ (i = 2 /\ j = 3) \/ (i = 4 /\ j = 5)
  BY <1>1 DEF PartOf
<1>5. /\ <<q[1].since, q[2].since>> \in Wider /\ <<q[2].since, q[3].since>> \in Wider
      /\ <<q[4].since, q[5].since>> \in Wider
      /\ q[1].statuses \subseteq q[2].statuses /\ q[2].statuses \subseteq q[3].statuses
      /\ q[4].statuses \subseteq q[5].statuses
  BY <1>1, <1>2 DEF Wider
<1>6. Fits(q, 1, 2) /\ Fits(q, 2, 3) /\ Fits(q, 4, 5)
  <2>1. \A k \in {2, 3, 5} : ~q[k].first
    BY <1>1
  <2>2. 2..2 = {2} /\ 3..3 = {3} /\ 5..5 = {5}
    OBVIOUS
  <2> QED
    BY <1>5, <2>1, <2>2 DEF Fits
<1>7. Orderly(name, q)
  <2>1. Len(q) = 6
    BY <1>1
  <2> QED
    BY <1>3, <1>6, <2>1 DEF Orderly
<1> QED
  BY <1>7 DEF q

\* All the reports are orderly.
LEMMA ReportsOrderly ==
  \A name \in DOMAIN Reports : Reports[name] \in Seq(Statements) /\ Orderly(name, Reports[name])
<1>1. /\ MonitorOverview \in Seq(Statements) /\ Len(MonitorOverview) = 4
      /\ \A j \in 1..4 : MonitorOverview[j].figure \notin {"monthCost", "totalCost", "totalRequests"}
  <2>1. /\ MonitorOverview \in Seq(Statements) /\ Len(MonitorOverview) = 4
        /\ MonitorOverview[1].figure = "todayRequests" /\ MonitorOverview[2].figure = "errorCount"
        /\ MonitorOverview[3].figure = "totalTokens" /\ MonitorOverview[4].figure = "avgLatency"
    BY MonitorIs
  <2>2. 1..4 = {1, 2, 3, 4}
    OBVIOUS
  <2> QED
    BY <2>1, <2>2
<1>2. ASSUME NEW r, r \in {ModelDistribution, CostTrend, ByModelQuery}
      PROVE  /\ r \in Seq(Statements)
             /\ \A j \in 1..Len(r) : r[j].figure \notin {"monthCost", "totalCost", "totalRequests"}
  <2>1. r \in Seq(Statements) /\ Len(r) = 1 /\ r[1].figure \in {"items", "points"}
    BY <1>2, SingleIs DEF ModelDistribution, CostTrend, ByModelQuery, Figures
  <2>2. \A j \in 1..1 : j = 1
    OBVIOUS
  <2> QED
    BY <2>1, <2>2
<1>3. /\ MySQLMonitorOverview \in Seq(Statements)
      /\ \A j \in 1..Len(MySQLMonitorOverview) :
           MySQLMonitorOverview[j].figure \notin {"monthCost", "totalCost", "totalRequests"}
  <2>1. Alike(MySQLMonitorOverview, MonitorOverview)
    BY <1>1, LenientAlike DEF MySQLMonitorOverview
  <2> QED
    BY <1>1, <2>1 DEF Alike
<1>4. /\ MonitorOverviewQuery \in Seq(Statements)
      /\ \A j \in 1..Len(MonitorOverviewQuery) :
           MonitorOverviewQuery[j].figure \notin {"monthCost", "totalCost", "totalRequests"}
  <2> DEFINE x == [MonitorOverview[4] EXCEPT !.statuses = {"ok"}]
             s == [MonitorOverview EXCEPT ![4] = x]
  <2>1. MonitorOverview[4] \in Statements
    BY <1>1
  <2>2. x \in Statements /\ x.figure = MonitorOverview[4].figure
    BY <2>1 DEF Statements, Statuses
  <2>3. MonitorOverviewQuery = Lenient(s)
    BY DEF MonitorOverviewQuery
  <2> HIDE DEF x
  <2>4. /\ s \in Seq(Statements) /\ Len(s) = 4
        /\ \A j \in 1..4 : s[j] = IF j = 4 THEN x ELSE MonitorOverview[j]
    <3>0. MonitorOverview \in Seq(Statements) /\ x \in Statements
      BY <1>1, <2>2
    <3>1. 4 \in 1..Len(MonitorOverview)
      BY <1>1
    <3>2. /\ s \in Seq(Statements) /\ Len(s) = Len(MonitorOverview)
          /\ \A j \in 1..Len(MonitorOverview) : s[j] = IF j = 4 THEN x ELSE MonitorOverview[j]
      BY <3>0, <3>1, ExceptSeq
    <3> HIDE DEF s
    <3> QED
      BY <1>1, <3>2
  <2> HIDE DEF s
  <2>5. \A j \in 1..4 : s[j].figure \notin {"monthCost", "totalCost", "totalRequests"}
    BY <1>1, <2>2, <2>4
  <2>6. Alike(Lenient(s), s)
    BY <2>4, LenientAlike
  <2> QED
    BY <2>3, <2>4, <2>5, <2>6 DEF Alike
<1>5. /\ ModelDistributionQuery \in Seq(Statements)
      /\ \A j \in 1..Len(ModelDistributionQuery) :
           ModelDistributionQuery[j].figure \notin {"monthCost", "totalCost", "totalRequests"}
  <2> DEFINE a == Statement("total", "ever", Statuses)
             b == Statement("items", "ever", Statuses)
             s == <<a>>
             r == <<b>>
             q == Lenient(s) \o r
  <2>1. a \in Statements /\ a.figure = "total" /\ b \in Statements /\ b.figure = "items"
    BY StatementTyped DEF Figures
  <2>2. ModelDistributionQuery = Function(q)
    BY DEF ModelDistributionQuery
  <2> HIDE DEF a, b
  <2>3. /\ s \in Seq(Statements) /\ Len(s) = 1 /\ s[1] = a
        /\ r \in Seq(Statements) /\ Len(r) = 1 /\ r[1] = b
    BY <2>1
  <2> HIDE DEF s, r
  <2>4. Lenient(s) \in Seq(Statements) /\ Len(Lenient(s)) = 1 /\ Lenient(s)[1].figure = "total"
    <3>1. Alike(Lenient(s), s) /\ 1 \in 1..Len(s)
      BY <2>3, LenientAlike
    <3> QED
      BY <2>1, <2>3, <3>1 DEF Alike
  <2>5. q \in Seq(Statements) /\ Len(q) = 2 /\ q[1] = Lenient(s)[1] /\ q[2] = r[1]
    <3>1. /\ q \in Seq(Statements) /\ Len(q) = Len(Lenient(s)) + Len(r)
          /\ \A i \in 1..Len(Lenient(s)) + Len(r) :
               q[i] = IF i <= Len(Lenient(s)) THEN Lenient(s)[i] ELSE r[i - Len(Lenient(s))]
      BY <2>3, <2>4, ConcatProperties
    <3> HIDE DEF q
    <3> QED
      BY <2>3, <2>4, <3>1
  <2> HIDE DEF q
  <2>6. q # <<>> /\ q[1] \in Statements
    BY <2>5
  <2>7. /\ Function(q) \in Seq(Statements) /\ Len(Function(q)) = 2
        /\ Function(q)[1].figure = q[1].figure
    BY <2>5, <2>6, FunctionStarts DEF Statements
  <2>8. Function(q)[2] = q[2]
    <3>1. \A i \in 2..2 : Function(q)[i] = q[i]
      BY <2>5, <2>6, FunctionStarts
    <3> QED
      BY <3>1
  <2>9. \A j \in 1..2 : j = 1 \/ j = 2
    OBVIOUS
  <2> QED
    BY <2>1, <2>2, <2>3, <2>4, <2>5, <2>7, <2>8, <2>9
<1>6. /\ DashboardOverview \in Seq(Statements) /\ MonitorPage \in Seq(Statements)
      /\ DashboardOverviewQuery \in Seq(Statements)
  BY OverviewIs, MonitorPageIs, OverviewQueryIs
<1>7. \A name \in DOMAIN Reports :
        \/ Reports[name] \in {ModelDistribution, CostTrend, ByModelQuery, MySQLMonitorOverview,
                              MonitorOverviewQuery, ModelDistributionQuery,
                              DashboardOverview, DashboardOverviewQuery}
        \/ name = "monitor" /\ Reports[name] = MonitorPage
  BY DEF Reports, MySQLDashboardOverview, MySQLModelDistribution, MySQLCostTrend, CostTrendQuery
<1>8. ASSUME NEW name \in DOMAIN Reports
      PROVE  Reports[name] \in Seq(Statements) /\ Orderly(name, Reports[name])
  BY <1>2, <1>3, <1>4, <1>5, <1>6, <1>7, NoWhole, OverviewOrderly, MonitorPageOrderly, OverviewQueryOrderly
<1> QED
  BY <1>8

-----------------------------------------------------------------------------
(* Reports: parts and wholes *)

\* The log and the readers.
ReportsTyped ==
  /\ today \in Days /\ day \in Days
  /\ log \in SUBSET [day : Days, status : Statuses, nth : 0..MaxLogs]
  /\ IsFiniteSet(log) /\ Cardinality(log) <= MaxLogs
  /\ report \in DOMAIN Reports \union {None}
  /\ answer \in Seq((0..MaxLogs) \union {None})
  /\ report = None => answer = <<>>
  /\ report # None => Len(answer) <= Len(Reports[report])

\* No answer of the function under way is larger than the same statement's would
\* be now.
AnswersBounded ==
  report # None =>
    \A i \in 1..Len(answer) :
      answer[i] # None /\ (\A k \in (i + 1)..Len(answer) : ~Reports[report][k].first)
        => answer[i] <= Selected(Reports[report][i], day)

\* The inductive invariant of Reports.
ReportsInv == ReportsTyped /\ AnswersBounded /\ PartsWithinWholes

\* What a statement selects is a number of the log's rows.
LEMMA RowsCount ==
  ASSUME ReportsTyped, NEW days, NEW statuses
  PROVE  Rows(days, statuses) \in 0..MaxLogs
<1> DEFINE S == {r \in log : r.day \in days /\ r.status \in statuses}
<1>1. IsFiniteSet(log) /\ S \subseteq log
  BY DEF ReportsTyped
<1>2. IsFiniteSet(S) /\ Cardinality(S) <= Cardinality(log)
  BY <1>1, FS_Subset
<1>3. Cardinality(S) \in Nat /\ Cardinality(log) \in Nat /\ Cardinality(log) <= MaxLogs /\ MaxLogs \in Nat
  BY <1>1, <1>2, FS_CardinalityType, ReportsAssumption DEF ReportsTyped
<1> HIDE DEF S
<1>4. Cardinality(S) \in 0..MaxLogs
  BY <1>2, <1>3
<1> QED
  BY <1>4 DEF Rows, S

\* A statement's answer is a number of requests.
LEMMA SelectedCount ==
  ASSUME ReportsTyped, NEW s, NEW d
  PROVE  Selected(s, d) \in 0..MaxLogs
  BY RowsCount DEF Selected

\* A wider period and more statuses select more of the rows.
LEMMA WiderSelects ==
  ASSUME ReportsTyped, NEW r, NEW s, NEW d \in Days,
         <<r.since, s.since>> \in Wider, r.statuses \subseteq s.statuses
  PROVE  Selected(r, d) <= Selected(s, d)
<1> DEFINE R == {e \in Days : e >= FirstDay(r.since, d)}
           S == {e \in Days : e >= FirstDay(s.since, d)}
           X == {x \in log : x.day \in R /\ x.status \in r.statuses}
           Y == {x \in log : x.day \in S /\ x.status \in s.statuses}
<1>1. FirstDay(s.since, d) <= FirstDay(r.since, d)
  <2>1. MonthStart[d] \in Nat \ {0} /\ MonthStart[d] <= d /\ d \in Nat \ {0}
    BY ReportsAssumption
  <2> QED
    BY <2>1 DEF FirstDay, Wider
<1>2. FirstDay(s.since, d) \in Int /\ FirstDay(r.since, d) \in Int
  <2>1. MonthStart[d] \in Nat \ {0} /\ d \in Nat \ {0}
    BY ReportsAssumption
  <2> QED
    BY <2>1 DEF FirstDay, Wider
<1>3. R \subseteq S
  <2> DEFINE x == FirstDay(r.since, d)
             y == FirstDay(s.since, d)
  <2>1. x \in Int /\ y \in Int /\ y <= x
    BY <1>1, <1>2
  <2> HIDE DEF x, y
  <2>2. \A e \in Days : e \in Int
    BY ReportsAssumption
  <2>3. \A e \in Days : e >= x => e >= y
    BY <2>1, <2>2
  <2> QED
    BY <2>3 DEF x, y
<1>4. X \subseteq Y /\ Y \subseteq log
  BY <1>3
<1>5. IsFiniteSet(Y)
  BY <1>4, FS_Subset DEF ReportsTyped
<1>6. Cardinality(X) <= Cardinality(Y)
  BY <1>4, <1>5, FS_Subset
<1> QED
  BY <1>6 DEF Selected, Rows

\* As requests are logged, a statement selects more.
LEMMA LogGrows ==
  ASSUME ReportsTyped', log \subseteq log', NEW s, NEW d
  PROVE  Selected(s, d) <= Selected(s, d)' /\ Selected(s, d)' \in Nat
<1> DEFINE S == {e \in Days : e >= FirstDay(s.since, d)}
           X == {x \in log : x.day \in S /\ x.status \in s.statuses}
           Y == {x \in log' : x.day \in S /\ x.status \in s.statuses}
<1>1. X \subseteq Y /\ Y \subseteq log' /\ IsFiniteSet(log')
  BY DEF ReportsTyped
<1>2. IsFiniteSet(Y)
  BY <1>1, FS_Subset
<1>3. Cardinality(X) <= Cardinality(Y)
  BY <1>1, <1>2, FS_Subset
<1>4. Cardinality(Y) \in Nat
  BY <1>2, FS_CardinalityType
<1> QED
  BY <1>3, <1>4 DEF Selected, Rows, FirstDay

\* No report was asked for.
LEMMA ReportsInit == Init => ReportsInv
<1> SUFFICES ASSUME Init PROVE ReportsInv
  OBVIOUS
<1> USE DEF Init
<1>1. IsFiniteSet(log) /\ Cardinality(log) <= MaxLogs
  BY FS_EmptySet, ReportsAssumption
<1>2. ReportsTyped
  BY <1>1, ReportsAssumption DEF ReportsTyped
<1> QED
  BY <1>2 DEF ReportsInv, AnswersBounded, PartsWithinWholes

\* Every step of a report, a request and a day's end keep the invariant.
LEMMA ReportsStep ==
  ASSUME ReportsInv, [Next]_vars
  PROVE  ReportsInv'
<1> USE DEF ReportsInv
<1>1. CASE UNCHANGED vars
  <2>1. UNCHANGED <<today, log, report, day, answer>>
    BY <1>1 DEF vars
  <2>2. \A s, d : Selected(s, d)' = Selected(s, d)
    BY <2>1 DEF Selected, Rows
  <2> QED
    BY <2>1, <2>2 DEF ReportsTyped, AnswersBounded, PartsWithinWholes
\* The log grows or the day ends.
<1>2. ASSUME ReportsTyped', log \subseteq log', UNCHANGED <<report, day, answer>>
      PROVE  ReportsInv'
  <2>1. \A s, d : /\ Selected(s, d) \in Nat /\ Selected(s, d)' \in Nat
                  /\ Selected(s, d) <= Selected(s, d)'
    <3> TAKE s, d
    <3>1. Selected(s, d) \in Nat
      BY SelectedCount, ReportsAssumption
    <3> QED
      BY <1>2, <3>1, LogGrows
  <2>2. AnswersBounded'
    <3> SUFFICES ASSUME report # None, NEW i \in 1..Len(answer), answer[i] # None,
                        \A k \in (i + 1)..Len(answer) : ~Reports[report][k].first
                 PROVE  answer[i] <= Selected(Reports[report][i], day)'
      BY <1>2 DEF AnswersBounded
    <3>1. answer[i] <= Selected(Reports[report][i], day)
      BY DEF AnswersBounded
    <3>2. answer[i] \in Int
      BY ReportsAssumption DEF ReportsTyped
    <3>3. /\ Selected(Reports[report][i], day) \in Nat /\ Selected(Reports[report][i], day)' \in Nat
          /\ Selected(Reports[report][i], day) <= Selected(Reports[report][i], day)'
      BY <1>2, <2>1
    <3> QED
      BY <3>1, <3>2, <3>3
  <2>3. PartsWithinWholes'
    BY <1>2 DEF PartsWithinWholes
  <2> QED
    BY <1>2, <2>2, <2>3
<1>3. ASSUME NEW s \in Statuses, Insert(s)
      PROVE  ReportsInv'
  <2> DEFINE x == [day |-> today, status |-> s, nth |-> Rows({today}, {s})]
  <2>1. log' = log \union {x} /\ UNCHANGED <<today, report, day, answer>> /\ Cardinality(log) < MaxLogs
    BY <1>3 DEF Insert
  <2>2. x \in [day : Days, status : Statuses, nth : 0..MaxLogs]
    BY RowsCount DEF ReportsTyped
  <2> HIDE DEF x
  <2>3. /\ IsFiniteSet(log') /\ Cardinality(log) \in Nat
        /\ Cardinality(log') = IF x \in log THEN Cardinality(log) ELSE Cardinality(log) + 1
    BY <2>1, FS_AddElement, FS_CardinalityType DEF ReportsTyped
  <2>4. Cardinality(log') <= MaxLogs
    BY <2>1, <2>3, ReportsAssumption
  <2>5. ReportsTyped'
    BY <2>1, <2>2, <2>3, <2>4 DEF ReportsTyped
  <2> QED
    BY <1>2, <2>1, <2>5
<1>4. CASE Midnight
  <2>1. today' \in Days /\ UNCHANGED <<log, report, day, answer>>
    BY <1>4 DEF Midnight
  <2>2. ReportsTyped'
    BY <2>1 DEF ReportsTyped
  <2> QED
    BY <1>2, <2>1, <2>2
\* A report begins or ends.
<1>5. ASSUME NEW name \in DOMAIN Reports, StartReport(name)
      PROVE  ReportsInv'
  <2>1. report' = name /\ UNCHANGED <<today, log, day, answer>> /\ answer = <<>>
    BY <1>5 DEF StartReport, ReportsTyped
  <2>2. Len(Reports[name]) \in Nat
    BY ReportsOrderly
  <2> QED
    BY <2>1, <2>2 DEF ReportsTyped, AnswersBounded, PartsWithinWholes
<1>6. ASSUME report' = None, answer' = <<>>, UNCHANGED <<today, log, day>>
      PROVE  ReportsInv'
  BY <1>6 DEF ReportsTyped, AnswersBounded, PartsWithinWholes
\* A statement returns a number, or fails and leaves a gap.
<1>7. ASSUME report # None, Len(answer) < Len(Reports[report]),
             NEW a, a = None \/ a = Selected(Current, Clock),
             answer' = Append(answer, a), day' = Clock, UNCHANGED <<today, log, report>>
      PROVE  ReportsInv'
  <2> DEFINE n == Len(answer)
             r == Reports[report]
  <2>1. /\ report \in DOMAIN Reports /\ r \in Seq(Statements) /\ n \in Nat /\ Len(r) \in Nat
        /\ Orderly(report, r)
    BY <1>7, ReportsOrderly DEF ReportsTyped
  <2>2. day' \in Days /\ (~r[n + 1].first => day' = day)
    BY <1>7 DEF Clock, Current, ReportsTyped
  <2>3. a \in (0..MaxLogs) \union {None} /\ (a # None => a = Selected(r[n + 1], day'))
    BY <1>7, SelectedCount DEF Current
  <2>4. /\ answer' \in Seq((0..MaxLogs) \union {None}) /\ Len(answer') = n + 1
        /\ answer'[n + 1] = a /\ \A i \in 1..n : answer'[i] = answer[i]
    <3>1. answer \in Seq((0..MaxLogs) \union {None})
      BY DEF ReportsTyped
    <3> QED
      BY <1>7, <2>3, <3>1, AppendProperties
  <2> DEFINE m == n + 1
  <2>5. ReportsTyped'
    <3>1. n + 1 <= Len(r)
      BY <1>7, <2>1
    <3> QED
      BY <1>7, <2>2, <2>4, <3>1 DEF ReportsTyped
  <2>6. \A s, d : Selected(s, d)' = Selected(s, d)
    BY <1>7 DEF Selected, Rows
  <2>7. \A i \in 1..n : answer[i] # None => answer[i] \in Int
    BY ReportsAssumption DEF ReportsTyped
  <2> HIDE DEF n, r
  \* An earlier answer of the same function is within what its statement selects now.
  <2>8. ASSUME NEW i \in 1..n, answer[i] # None, \A k \in (i + 1)..m : ~r[k].first
        PROVE  day' = day /\ answer[i] <= Selected(r[i], day)
    <3>1. m \in (i + 1)..m /\ \A k \in (i + 1)..n : k \in (i + 1)..m
      BY <2>1
    <3>2. ~r[m].first /\ \A k \in (i + 1)..n : ~r[k].first
      BY <2>8, <3>1
    <3> QED
      BY <1>7, <2>2, <2>8, <3>2 DEF AnswersBounded, n, r
  <2>9. AnswersBounded'
    <3> SUFFICES ASSUME NEW i \in 1..m, answer'[i] # None, \A k \in (i + 1)..m : ~r[k].first
                 PROVE  answer'[i] <= Selected(r[i], day')
      <4>1. Len(answer') = m /\ report' = report
        BY <1>7, <2>4
      <4> QED
        BY <2>6, <4>1 DEF AnswersBounded, r
    <3>1. CASE i \in 1..n
      BY <2>4, <2>8, <3>1
    <3>2. CASE i = m
      <4>1. Selected(r[m], day') \in 0..MaxLogs
        BY SelectedCount
      <4>2. answer'[i] = Selected(r[m], day')
        BY <2>3, <2>4, <3>2
      <4> QED
        BY <3>2, <4>1, <4>2, ReportsAssumption
    <3>3. i \in 1..n \/ i = m
      BY <2>1
    <3> QED
      BY <3>1, <3>2, <3>3
  <2>a. PartsWithinWholes'
    <3> SUFFICES ASSUME NEW i \in 1..m, NEW j \in 1..m,
                        <<r[i].figure, r[j].figure>> \in PartOf,
                        report \in AcrossFunctions => r[i].figure # "todayRequests",
                        answer'[i] # None, answer'[j] # None
                 PROVE  answer'[i] <= answer'[j]
      <4>1. DOMAIN answer' = 1..m /\ report' = report
        BY <1>7, <2>4
      <4> QED
        BY <4>1 DEF PartsWithinWholes, r
    <3>0. m <= Len(r) /\ m \in Nat /\ n \in Nat
      BY <1>7, <2>1 DEF n, r
    <3>1. Fits(r, i, j)
      <4>1. i \in 1..Len(r) /\ j \in 1..Len(r)
        BY <2>1, <3>0
      <4> QED
        BY <2>1, <4>1 DEF Orderly
    <3>2. i < j /\ i \in 1..n
      BY <3>0, <3>1 DEF Fits
    <3>3. CASE j \in 1..n
      <4>1. answer'[i] = answer[i] /\ answer'[j] = answer[j]
        BY <2>4, <3>2, <3>3
      <4>2. i \in DOMAIN answer /\ j \in DOMAIN answer
        BY <3>2, <3>3 DEF ReportsTyped, n
      <4> QED
        BY <1>7, <4>1, <4>2 DEF PartsWithinWholes, r
    <3>4. CASE j = m
      <4>1. /\ day' = day /\ answer'[i] = answer[i] /\ answer[i] \in Int
            /\ answer[i] <= Selected(r[i], day)
        BY <2>4, <2>7, <2>8, <3>1, <3>2, <3>4 DEF Fits
      <4>2. Selected(r[i], day) <= Selected(r[j], day)
        <5>1. day \in Days
          BY DEF ReportsTyped
        <5> QED
          BY <3>1, <5>1, WiderSelects DEF Fits
      <4>3. answer'[j] = Selected(r[j], day)
        BY <2>3, <2>4, <3>4, <4>1
      <4>4. Selected(r[i], day) \in Int /\ Selected(r[j], day) \in Int
        BY SelectedCount, ReportsAssumption
      <4> QED
        BY <4>1, <4>2, <4>3, <4>4
    <3>5. j \in 1..n \/ j = m
      BY <3>0
    <3> QED
      BY <3>3, <3>4, <3>5
  <2> QED
    BY <2>5, <2>9, <2>a
<1>8. CASE Query
  BY <1>7, <1>8 DEF Query, More
<1>9. CASE QueryFails
  <2>1. CASE Current.needed
    BY <1>6, <1>9, <2>1 DEF QueryFails
  <2>2. CASE ~Current.needed
    BY <1>7, <1>9, <2>2 DEF QueryFails, More
  <2> QED
    BY <2>1, <2>2
<1>a. CASE Return
  BY <1>6, <1>a DEF Return
<1> HIDE DEF ReportsInv
<1> QED
  BY <1>1, <1>3, <1>4, <1>5, <1>8, <1>9, <1>a DEF Next

\* The types of the reports.
LEMMA ReportsSafe == ReportsInv => TypeOK
  BY DEF ReportsInv, ReportsTyped, TypeOK

-----------------------------------------------------------------------------
(* The console *)

\* The inductive invariant of the console.
ConsoleInv == AccountsInv /\ ChannelsInv /\ HealthTyped /\ DashboardInv /\ ReportsInv

\* Every part of the console begins in its own initial state.
LEMMA ConsoleInitially == ConsoleInit => ConsoleInv
  BY AccountsInit, ChannelsInit, HealthInit, DashboardInit, ReportsInit, ConsoleAssumption
     DEF ConsoleInit, ConsoleInv

\* A step of the console is one of each part, or leaves it alone.
LEMMA ConsoleStep ==
  ASSUME ConsoleInv, [ConsoleNext]_<<part, dashboard, accounts, channel, health, vars>>
  PROVE  ConsoleInv'
<1>1. /\ [A!Next]_accounts /\ [C!Next]_channel /\ [H!Next]_health /\ [D!Next]_dashboard
      /\ [Next]_vars
  BY DEF ConsoleNext
<1>2. AccountsInv'
  BY <1>1, AccountsStep, ConsoleAssumption DEF ConsoleInv
<1>3. ChannelsInv'
  BY <1>1, ChannelsStep DEF ConsoleInv
<1>4. HealthTyped'
  BY <1>1, HealthStep DEF ConsoleInv
<1>5. DashboardInv'
  BY <1>1, DashboardStep DEF ConsoleInv
<1>6. ReportsInv'
  BY <1>1, ReportsStep DEF ConsoleInv
<1> QED
  BY <1>2, <1>3, <1>4, <1>5, <1>6 DEF ConsoleInv

\* The inductive invariant of the console.
THEOREM ConsoleInvariant == ConsoleSpec => []ConsoleInv
<1> QED
  BY ConsoleInitially, ConsoleStep, PTL DEF ConsoleSpec

\* What a handler of accounts holds is well formed.
LEMMA AccountsSafe == AccountsInv => A!TypeOK /\ A!RolesWereGranted
<1> SUFFICES ASSUME AccountsInv PROVE A!TypeOK /\ A!RolesWereGranted
  OBVIOUS
<1>1. A!RolesWereGranted
  BY DEF AccountsInv, RolesHeld
<1>2. \A h \in Handlers : clerk[h] \in ClerkShape /\ ClerkOK(clerk[h])
  BY DEF AccountsInv, AccountsTyped, Clerk
<1>3. \A h \in Handlers :
        /\ clerk[h].at \in {"idle", "in", "create", "saveUser", "insert", "saveToken"}
        /\ clerk[h].at \in {"in", "insert"} => clerk[h].caller \in Users
        /\ clerk[h].at \in {"create", "saveUser"} => clerk[h].key \in Users
        /\ clerk[h].at = "saveToken" => clerk[h].key \in Tokens
  BY <1>2 DEF ClerkShape, ClerkOK
<1> QED
  BY <1>1, <1>3 DEF A!TypeOK, AccountsInv, AccountsTyped, UserRow, TokenRow

\* The tables, caches, counters and handlers of all the parts are well formed,
\* however their requests interleave and fail.
THEOREM ConsoleTypes == ConsoleSpec => []TypesOK
<1>1. ConsoleInv => TypesOK
  BY AccountsSafe, ChannelsSafe, HealthSafe, DashboardSafe, ReportsSafe DEF ConsoleInv, TypesOK
<1> QED
  BY <1>1, ConsoleInvariant, PTL

\* CreateToken: counting first and inserting later, a user gets at most one key
\* more than the limit for each other handler and for each count that failed.
THEOREM KeysAreLimited == ConsoleSpec => []TokenLimit
<1>1. ConsoleInv => TokenLimit
  BY AccountsLimit, ConsoleAssumption DEF ConsoleInv, TokenLimit
<1> QED
  BY <1>1, ConsoleInvariant, PTL

\* UpdateUser: a stale row that is written back gives nobody a role it was never
\* given.
THEOREM RolesAreGranted == ConsoleSpec => []RolesWereGranted
<1>1. ConsoleInv => RolesWereGranted
  BY AccountsSafe DEF ConsoleInv, RolesWereGranted
<1> QED
  BY <1>1, ConsoleInvariant, PTL

\* Channels: a change that runs alone and to its end leaves the cache and the
\* channel's abilities as its row says, whatever went wrong before it.
THEOREM LoneChangesAgree == ConsoleSpec => []SequentialAgreement
<1>1. ConsoleInv => SequentialAgreement
  BY ChannelsSafe DEF ConsoleInv, SequentialAgreement
<1> QED
  BY <1>1, ConsoleInvariant, PTL

\* DELETE of an intent: the search finds every row that was under the root, that
\* nobody has moved and above which no reading broke off, in any tree and under
\* any interleaving.
THEOREM DeletionIsComplete == ConsoleSpec => []UntouchedSubtreeGoes
<1>1. ConsoleInv => UntouchedSubtreeGoes
  BY DashboardSafe DEF ConsoleInv, UntouchedSubtreeGoes
<1> QED
  BY <1>1, ConsoleInvariant, PTL

\* ToTree shows every row but those on cycles of parents and those under them.
THEOREM TreeIsComplete == ConsoleSpec => []HiddenOnlyInCycles
<1>1. ConsoleInv => HiddenOnlyInCycles
  BY DashboardSafe DEF ConsoleInv, HiddenOnlyInCycles
<1> QED
  BY <1>1, ConsoleInvariant, PTL

\* The reports: no part is larger than its whole, however many requests are
\* logged and days end between the statements.
THEOREM PartsStayWithin == ConsoleSpec => []PartsWithinWholes
<1>1. ConsoleInv => PartsWithinWholes
  BY DEF ConsoleInv, ReportsInv
<1> QED
  BY <1>1, ConsoleInvariant, PTL
=============================================================================
