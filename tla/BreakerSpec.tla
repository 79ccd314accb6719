---------------------------- MODULE BreakerSpec ----------------------------
(***************************************************************************)
(* What a three-state circuit breaker promises its users, whatever window, *)
(* clock or concurrency lies behind it: Open is left only by admitting a   *)
(* probe, a half-open period admits at most HalfOpenMaxReqs requests, only *)
(* a half-open period that used its whole allowance may close, and one     *)
(* that used it is always decided.                                         *)
(***************************************************************************)
EXTENDS Naturals

CONSTANT HalfOpenMaxReqs   \* Config.HalfOpenMaxReqs, at least 1 after New's correction

VARIABLES
  mode,   \* "Closed", "Open" or "HalfOpen"
  used    \* requests admitted in the current half-open period

vars == <<mode, used>>

Init == mode = "Closed" /\ used = 0

Trip ==
  /\ mode = "Closed"
  /\ mode' = "Open"
  /\ used' = 0

StartProbing ==
  /\ mode = "Open"
  /\ mode' = "HalfOpen"
  /\ used' = 1

AdmitProbe ==
  /\ mode = "HalfOpen"
  /\ used < HalfOpenMaxReqs
  /\ used' = used + 1
  /\ UNCHANGED mode

Reopen ==
  /\ mode = "HalfOpen"
  /\ mode' = "Open"
  /\ used' = 0

Close ==
  /\ mode = "HalfOpen"
  /\ used >= HalfOpenMaxReqs
  /\ mode' = "Closed"
  /\ used' = 0

Next == Trip \/ StartProbing \/ AdmitProbe \/ Reopen \/ Close

\* The verdict on a half-open period whose allowance is spent.
Verdict == used >= HalfOpenMaxReqs /\ (Reopen \/ Close)

Safety == Init /\ [][Next]_vars

Spec == Safety /\ WF_vars(Verdict)

\* What that fairness amounts to, for instances that share their variables.
Decided ==
  (mode = "HalfOpen" /\ used >= HalfOpenMaxReqs) ~> mode # "HalfOpen"
=============================================================================
