---------------------------- MODULE HealthCheck ----------------------------
(***************************************************************************)
(* The health check of one channel: a ticker starts probes without waiting *)
(* for the previous ones, and each probe, after its HTTP request, updates  *)
(* the counters and the status in Redis call by call.  Errors of these     *)
(* calls are ignored.                                                      *)
(*                                                                         *)
(* The counters are compared by the length of their decimal text.  They    *)
(* are kept up to Cap, beyond which the length is long enough.  The keys'  *)
(* lives of a day are far longer than a round of probes and are left out,  *)
(* as is ragent:health, which is written and not read.                     *)
(***************************************************************************)
EXTENDS Integers

CONSTANTS
  Probes,           \* probes that may be under way at once
  None,
  Base,             \* 10
  FailThreshold,
  RecoverThreshold,
  Cap,
  MaxFaults         \* bound on calls to Redis that fail

VARIABLES
  up,        \* the upstream answers as it should
  fails,     \* ragent:health:failcount, or None
  recovers,  \* ragent:health:recover, or None
  status,    \* ragent:provider:status, or None
  probe,     \* probe -> its next step, and what it found
  faults     \* failed calls so far (bound)

vars == <<up, fails, recovers, status, probe, faults>>

Off == [at |-> "off"]

At(p, pc) == probe[p].at = pc
Goto(p, pc) == probe' = [probe EXCEPT ![p].at = pc]
Done(p) == probe' = [probe EXCEPT ![p] = Off]

\* len(GET): the digits of n, none of a missing key.
Digits(n) ==
  IF n = None THEN 0
  ELSE CHOOSE d \in 1..(Cap + 1) : n < Base ^ d /\ (d = 1 \/ n >= Base ^ (d - 1))

Incremented(n) == IF n = None THEN 1 ELSE IF n = Cap THEN Cap ELSE n + 1

-----------------------------------------------------------------------------
\* RunHealthCheck, checkAll: a tick starts the channel's probe in a goroutine.
Tick(p) ==
  /\ At(p, "off")
  /\ Goto(p, "probe")
  /\ UNCHANGED <<up, fails, recovers, status, faults>>

\* probe: what the request finds is what the rest of checkOne goes by.
ProbeAnswers(p) ==
  /\ At(p, "probe")
  /\ Goto(p, IF up THEN "clearFails" ELSE "countFail")
  /\ UNCHANGED <<up, fails, recovers, status, faults>>

\* Healthy: the failures are forgotten, the success is counted, ...
ClearFails(p) ==
  /\ At(p, "clearFails")
  /\ fails' = 0
  /\ Goto(p, "countSuccess")
  /\ UNCHANGED <<up, recovers, status, faults>>

\* (Variant with a fault: each success starts the count anew.)
CountSuccessAnew(p) ==
  /\ At(p, "countSuccess")
  /\ recovers' = 1
  /\ Goto(p, "readRecovers")
  /\ UNCHANGED <<up, fails, status, faults>>

CountSuccess(p) ==
  /\ At(p, "countSuccess")
  /\ recovers' = Incremented(recovers)
  /\ Goto(p, "readRecovers")
  /\ UNCHANGED <<up, fails, status, faults>>

\* ... and at the threshold the provider is enabled and the count cleared.
ReadRecovers(p) ==
  /\ At(p, "readRecovers")
  /\ IF Digits(recovers) >= RecoverThreshold THEN Goto(p, "enable") ELSE Done(p)
  /\ UNCHANGED <<up, fails, recovers, status, faults>>

EnableProvider(p) ==
  /\ At(p, "enable")
  /\ status' = "enabled"
  /\ Goto(p, "clearRecovers")
  /\ UNCHANGED <<up, fails, recovers, faults>>

ClearRecovers(p) ==
  /\ At(p, "clearRecovers")
  /\ recovers' = 0
  /\ Done(p)
  /\ UNCHANGED <<up, fails, status, faults>>

\* Unhealthy: the failure is counted, the successes are not forgotten.
CountFail(p) ==
  /\ At(p, "countFail")
  /\ fails' = Incremented(fails)
  /\ Goto(p, "readFails")
  /\ UNCHANGED <<up, recovers, status, faults>>

ReadFails(p) ==
  /\ At(p, "readFails")
  /\ IF Digits(fails) >= FailThreshold THEN Goto(p, "disable") ELSE Done(p)
  /\ UNCHANGED <<up, fails, recovers, status, faults>>

DisableProvider(p) ==
  /\ At(p, "disable")
  /\ status' = "disabled"
  /\ Done(p)
  /\ UNCHANGED <<up, fails, recovers, faults>>

\* A call to Redis fails; checkOne goes on, a failed read counting as empty.
CallFails(p) ==
  /\ ~At(p, "off") /\ ~At(p, "probe")
  /\ faults < MaxFaults
  /\ faults' = faults + 1
  /\ CASE At(p, "clearFails")   -> Goto(p, "countSuccess")
       [] At(p, "countSuccess") -> Goto(p, "readRecovers")
       [] At(p, "enable")       -> Goto(p, "clearRecovers")
       [] At(p, "countFail")    -> Goto(p, "readFails")
       [] OTHER                 -> Done(p)
  /\ UNCHANGED <<up, fails, recovers, status>>

\* The upstream breaks down or comes back.
Flip == up' = ~up /\ UNCHANGED <<fails, recovers, status, probe, faults>>

-----------------------------------------------------------------------------
Init ==
  /\ up = TRUE
  /\ fails = None /\ recovers = None /\ status = None
  /\ probe = [p \in Probes |-> Off]
  /\ faults = 0

CheckOne(p) ==
  \/ ProbeAnswers(p)
  \/ ClearFails(p) \/ CountSuccess(p) \/ ReadRecovers(p) \/ EnableProvider(p) \/ ClearRecovers(p)
  \/ CountFail(p) \/ ReadFails(p) \/ DisableProvider(p)

Next == Flip \/ (\E p \in Probes : Tick(p) \/ CheckOne(p) \/ CallFails(p))

\* The ticker ticks, a probe ends within its timeout, and goroutines run on.
Spec ==
  /\ Init /\ [][Next]_vars
  /\ \A p \in Probes : WF_vars(Tick(p)) /\ WF_vars(CheckOne(p))

-----------------------------------------------------------------------------
(* Properties *)

\* Counters, status and probes are well formed.
TypeOK ==
  /\ up \in BOOLEAN /\ faults \in 0..MaxFaults
  /\ fails \in (0..Cap) \union {None} /\ recovers \in (0..Cap) \union {None}
  /\ status \in {None, "enabled", "disabled"}
  /\ \A p \in Probes :
       probe[p].at \in {"off", "probe", "clearFails", "countSuccess", "readRecovers", "enable",
                        "clearRecovers", "countFail", "readFails", "disable"}

\* checkOne: whatever probes overlap and calls fail, once the upstream stays down
\* the provider ends up disabled, and once it stays up, enabled, for good.
StatusFollowsUpstream ==
  /\ <>[]~up => <>[](status = "disabled")
  /\ <>[]up => <>[](status = "enabled")
=============================================================================
