------------------------------ MODULE Console ------------------------------
(***************************************************************************)
(* The services behind the administration console: the tree of intents     *)
(* (Dashboard), users and keys (Accounts), channels (Channels), health     *)
(* checks (HealthCheck) and reports (Reports).  They share no state, so a  *)
(* behaviour is one of one of them.                                        *)
(***************************************************************************)
EXTENDS Reports

CONSTANTS
  Handlers, NoRow,                           \* shared by the parts
  Codes, Bodies, Seed, MaxWrites, MaxCrashes,  \* Dashboard
  Users, Root, Tokens, MaxTokens, MaxRequests, \* Accounts
  Ids, Models, Gone, MaxRepeats, MaxOps,       \* Channels
  Base, FailThreshold, RecoverThreshold, Cap, MaxFaults   \* HealthCheck

ASSUME ConsoleAssumption ==
  /\ IsFiniteSet(Handlers) /\ Handlers # {}
  /\ MaxTokens \in Nat /\ MaxRequests \in Nat
  /\ MaxRepeats \in Nat /\ MaxOps \in Nat

VARIABLES
  part,
  nodes, list, editor, boot, writes, crashes, due,
  users, tokens, sessions, clerk, requests, granted, uncounted,
  channels, abilities, cache, operator, ops, clean, tidy,
  up, fails, recovers, status, probe, faults

dashboard == <<nodes, list, editor, boot, writes, crashes, due>>
accounts  == <<users, tokens, sessions, clerk, requests, granted, uncounted>>
channel   == <<channels, abilities, cache, operator, ops, clean, tidy>>
health    == <<up, fails, recovers, status, probe, faults>>

D == INSTANCE Dashboard WITH table <- nodes, handler <- editor

A == INSTANCE Accounts WITH handler <- clerk

C == INSTANCE Channels WITH table <- channels, handler <- operator

H == INSTANCE HealthCheck WITH Probes <- Handlers

ASSUME RowsAssumption == NoRow \notin C!Rows /\ Gone \notin C!Rows

ASSUME DashboardAssumption ==
  /\ IsFiniteSet(Codes) /\ None \notin D!Rows
  /\ Bodies \subseteq D!Rows /\ Seed \in Seq(Codes \X D!Rows)
  /\ MaxWrites \in Nat /\ MaxCrashes \in Nat

ASSUME HealthAssumption == Cap \in Nat \ {0} /\ MaxFaults \in Nat

-----------------------------------------------------------------------------
ConsoleInit ==
  /\ part \in {"dashboard", "accounts", "channels", "health", "reports"}
  /\ D!Init /\ A!Init /\ C!Init /\ H!Init /\ Init

ConsoleNext ==
  \/ /\ part = "dashboard" /\ D!Next
     /\ UNCHANGED <<part, accounts, channel, health, vars>>
  \/ /\ part = "accounts" /\ A!Next
     /\ UNCHANGED <<part, dashboard, channel, health, vars>>
  \/ /\ part = "channels" /\ C!Next
     /\ UNCHANGED <<part, dashboard, accounts, health, vars>>
  \/ /\ part = "health" /\ H!Next
     /\ UNCHANGED <<part, dashboard, accounts, channel, vars>>
  \/ /\ part = "reports" /\ Next
     /\ UNCHANGED <<part, dashboard, accounts, channel, health>>

\* The fairness of Dashboard and of HealthCheck, each where it runs.
ConsoleFairness ==
  /\ WF_dashboard(part = "dashboard" /\ (D!CountRows \/ D!SeedRow))
  /\ \A h \in Handlers :
       /\ WF_dashboard(part = "dashboard" /\ D!Continue(h))
       /\ WF_health(part = "health" /\ H!Tick(h))
       /\ WF_health(part = "health" /\ H!CheckOne(h))

ConsoleSpec ==
  ConsoleInit /\ [][ConsoleNext]_<<part, dashboard, accounts, channel, health, vars>>
    /\ ConsoleFairness

-----------------------------------------------------------------------------
\* The type invariant of the part that runs.
TypesOK ==
  /\ part = "dashboard" => D!TypeOK
  /\ part = "accounts" => A!TypeOK
  /\ part = "channels" => C!TypeOK
  /\ part = "health" => H!TypeOK
  /\ part = "reports" => TypeOK

\* The properties of the parts (that of Reports apart), as their modules state them.
UntouchedSubtreeGoes == part = "dashboard" => D!UntouchedSubtreeGoes
HiddenOnlyInCycles == part = "dashboard" => D!HiddenOnlyInCycles
DeleteEndsUnlessCyclic == D!DeleteEndsUnlessCyclic
RolesWereGranted == part = "accounts" => A!RolesWereGranted
TokenLimit == part = "accounts" => A!TokenLimit
SequentialAgreement == part = "channels" => C!SequentialAgreement
StatusFollowsUpstream == part = "health" => H!StatusFollowsUpstream
=============================================================================
