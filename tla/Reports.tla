------------------------------ MODULE Reports ------------------------------
(***************************************************************************)
(* The reports over the request log, in their three versions: over SQLite  *)
(* for the dashboard, over MySQL, and through gorm for the API.  A report  *)
(* is a sequence of SQL statements outside any transaction, so requests    *)
(* are logged and days end between them.                                   *)
(*                                                                         *)
(* Every row costs one unit and has one token; what a statement computes   *)
(* is the number of rows it selects.                                       *)
(***************************************************************************)
EXTENDS Integers, Sequences, FiniteSets

CONSTANTS
  Days,         \* 1..n
  MonthStart,   \* day -> first day of its month
  MaxLogs,      \* bound on the rows
  None

ASSUME ReportsAssumption ==
  /\ Days \subseteq Nat \ {0} /\ 1 \in Days
  /\ MonthStart \in [Days -> Days] /\ \A d \in Days : MonthStart[d] <= d
  /\ MaxLogs \in Nat

Statuses == {"ok", "error"}

VARIABLES
  today,
  log,      \* the request log's rows: [day, status, nth of these]
  report,   \* name of the report under way, or None
  day,      \* the report's idea of today: time.Now() at the start of its function
  answer    \* what its statements have returned; None for one that failed

vars == <<today, log, report, day, answer>>

-----------------------------------------------------------------------------
(* The reports: which rows a statement selects, whether its function reads *)
(* the clock before it, and whether the function goes on without it.       *)

Statement(figure, since, statuses) ==
  [figure |-> figure, since |-> since, statuses |-> statuses, first |-> FALSE, needed |-> TRUE]

Lenient(statements) == [i \in DOMAIN statements |-> [statements[i] EXCEPT !.needed = FALSE]]
Function(statements) == [statements EXCEPT ![1].first = TRUE]

\* The error of the fourth statement, an estimate, is not looked at.
DashboardOverview ==
  Function(<<Statement("todayCost", "today", Statuses), Statement("monthCost", "month", Statuses),
             Statement("totalRequests", "ever", Statuses)>>
           \o Lenient(<<Statement("monthTokens", "month", Statuses)>>))

MonitorOverview ==
  Function(<<Statement("todayRequests", "today", Statuses), Statement("errorCount", "today", {"error"}),
             Statement("totalTokens", "today", Statuses), Statement("avgLatency", "today", Statuses)>>)

\* One statement with GROUP BY: the total is added up from its rows.
ModelDistribution == Function(<<Statement("items", "ever", Statuses)>>)
\* The last days asked for: as a month, a period that begins before today.
CostTrend == Function(<<Statement("points", "month", Statuses)>>)
ByModel == Function(<<Statement("items", "ever", Statuses)>>)

\* GET /api/monitor/overview: two functions, and a third one that may fail.
MonitorPage == DashboardOverview \o MonitorOverview \o Lenient(ByModel)

MySQLDashboardOverview == DashboardOverview
MySQLModelDistribution == ModelDistribution
MySQLCostTrend == CostTrend
MySQLMonitorOverview == Lenient(MonitorOverview)

\* (Variant with a fault: the wider period is asked for first.)
DashboardOverviewQueryWidestFirst ==
  Function(Lenient(<<Statement("totalCost", "ever", {"ok"}), Statement("monthCost", "month", {"ok"}),
                     Statement("todayCost", "today", {"ok"}), Statement("todayRequests", "today", Statuses),
                     Statement("totalRequests", "ever", Statuses), Statement("savedCost", "month", {"ok"})>>))

\* The API's functions look at no error; only successful requests cost.
DashboardOverviewQuery ==
  Function(Lenient(<<Statement("todayCost", "today", {"ok"}), Statement("monthCost", "month", {"ok"}),
                     Statement("totalCost", "ever", {"ok"}), Statement("todayRequests", "today", Statuses),
                     Statement("totalRequests", "ever", Statuses), Statement("savedCost", "month", {"ok"})>>))

\* The total is counted by a statement of its own, before the items.
ModelDistributionQuery ==
  Function(Lenient(<<Statement("total", "ever", Statuses)>>) \o <<Statement("items", "ever", Statuses)>>)

CostTrendQuery == CostTrend

\* As the others, but for the latency, which only successful requests have.
MonitorOverviewQuery ==
  Lenient([MonitorOverview EXCEPT ![4].statuses = {"ok"}])

\* The last 24 hours, taken as a day.
ByModelQuery == Function(<<Statement("items", "today", Statuses)>>)

Reports ==
  [overview        |-> DashboardOverview,      monitor         |-> MonitorPage,
   distribution    |-> ModelDistribution,      trend           |-> CostTrend,
   mysqlOverview   |-> MySQLDashboardOverview, mysqlMonitor    |-> MySQLMonitorOverview,
   mysqlDistribution |-> MySQLModelDistribution, mysqlTrend  |-> MySQLCostTrend,
   apiOverview     |-> DashboardOverviewQuery, apiMonitor      |-> MonitorOverviewQuery,
   apiDistribution |-> ModelDistributionQuery, apiTrend        |-> CostTrendQuery,
   apiByModel      |-> ByModelQuery]

-----------------------------------------------------------------------------
Rows(days, statuses) == Cardinality({r \in log : r.day \in days /\ r.status \in statuses})

\* The first day a statement selects, as seen from day d.
FirstDay(since, d) ==
  CASE since = "today" -> d [] since = "month" -> MonthStart[d] [] since = "ever" -> 1

Selected(s, d) == Rows({e \in Days : e >= FirstDay(s.since, d)}, s.statuses)

Current == Reports[report][Len(answer) + 1]

\* ModelDistributionQuery is content with a total of zero, or of none.
Empty == report = "apiDistribution" /\ answer # <<>> /\ answer[1] \in {0, None}

More == report # None /\ Len(answer) < Len(Reports[report]) /\ ~Empty

StartReport(name) ==
  /\ report = None
  /\ report' = name
  /\ UNCHANGED <<today, log, day, answer>>

\* (Variant with a fault: the clock is read anew for each statement.)
ClockEachTime == today

\* The day the current statement goes by.
Clock == IF Current.first THEN today ELSE day

Query ==
  /\ More
  /\ day' = Clock
  /\ answer' = Append(answer, Selected(Current, Clock))
  /\ UNCHANGED <<today, log, report>>

\* The report ends without an answer, or goes on with a zero.
QueryFails ==
  /\ More
  /\ IF Current.needed
     THEN report' = None /\ answer' = <<>> /\ UNCHANGED day
     ELSE answer' = Append(answer, None) /\ day' = Clock /\ UNCHANGED report
  /\ UNCHANGED <<today, log>>

Return ==
  /\ report # None /\ ~More
  /\ report' = None /\ answer' = <<>>
  /\ UNCHANGED <<today, log, day>>

\* A request is logged under the day of its end.
Insert(status) ==
  /\ Cardinality(log) < MaxLogs
  /\ log' = log \union {[day |-> today, status |-> status, nth |-> Rows({today}, {status})]}
  /\ UNCHANGED <<today, report, day, answer>>

Midnight ==
  /\ today + 1 \in Days
  /\ today' = today + 1
  /\ UNCHANGED <<log, report, day, answer>>

Init ==
  /\ today = 1 /\ day = 1
  /\ log = {}
  /\ report = None
  /\ answer = <<>>

Next ==
  \/ \E name \in DOMAIN Reports : StartReport(name)
  \/ Query \/ QueryFails \/ Return
  \/ \E s \in Statuses : Insert(s)
  \/ Midnight

Spec == Init /\ [][Next]_vars

-----------------------------------------------------------------------------
(* Properties *)

\* The log and the answer are well formed.
TypeOK ==
  /\ today \in Days /\ day \in Days
  /\ log \subseteq [day : Days, status : Statuses, nth : 0..MaxLogs]
  /\ report \in DOMAIN Reports \union {None}
  /\ \A i \in DOMAIN answer : answer[i] \in (0..MaxLogs) \union {None}
  /\ report = None => answer = <<>>
  /\ report # None => Len(answer) <= Len(Reports[report])

PartOf == {<<"todayCost", "monthCost">>, <<"monthCost", "totalCost">>,
           <<"todayRequests", "totalRequests">>}

\* The page takes its two numbers of requests from two functions, the total first.
AcrossFunctions == {"monitor"}

\* DashboardOverview, DashboardOverviewQuery: requests logged and days or months
\* ending between the statements never make a part larger than the whole it is
\* shown with.
PartsWithinWholes ==
  report # None =>
    \A i, j \in DOMAIN answer :
      LET part == Reports[report][i].figure
          whole == Reports[report][j].figure
      IN  /\ <<part, whole>> \in PartOf
          /\ report \in AcrossFunctions => part # "todayRequests"
          /\ answer[i] # None /\ answer[j] # None
          => answer[i] <= answer[j]
=============================================================================
