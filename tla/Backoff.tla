------------------------------ MODULE Backoff ------------------------------
(***************************************************************************)
(* retry.Do with ExponentialBackoff, and the deadlines timeout.Cascading   *)
(* gives to the attempts: how long a call may wait, and how long its work  *)
(* may take, under the deadline of the caller's context.                   *)
(***************************************************************************)
EXTENDS Integers, FiniteSets

CONSTANTS
  Configs,   \* [base, max, attempts : Int], zero and less meaning the default
  Defaults,  \* the values of DefaultConfig
  Deadlines, \* deadlines of the caller's context, or None
  Timeouts,  \* an attempt's own timeout
  None

Jitters == {"full", "equal", "decorrelated"}

VARIABLES
  config,   \* base and max delay, retries, as NewExponentialBackoff has them
  jitter,
  deadline, \* of the caller's context, or None
  timeout,
  now,
  attempt,  \* number of the attempt
  until,    \* deadline of the running attempt
  at        \* "check", "wait", "run" or "done"

vars == <<config, jitter, deadline, timeout, now, attempt, until, at>>
constant == <<config, jitter, deadline, timeout>>

Lesser(a, b) == IF a < b THEN a ELSE b

-----------------------------------------------------------------------------
\* NewExponentialBackoff
Positive(n, default) == IF n <= 0 THEN default ELSE n

NewExponentialBackoff(c) ==
  [base |-> Positive(c.base, Defaults.base), max |-> Positive(c.max, Defaults.max),
   attempts |-> Positive(c.attempts, Defaults.attempts)]

\* The exponential growth, up to its limit.
Ceiling(n) == Lesser(config.base * 2 ^ n, config.max)

\* Next: the delays the jitter can draw.
Delays(n) ==
  CASE jitter = "full"  -> 0..Ceiling(n)
    [] jitter = "equal" -> (Ceiling(n) \div 2)..Ceiling(n)
    [] jitter = "decorrelated" ->
         LET prev == config.base * (IF n = 0 THEN 1 ELSE 2 ^ (n - 1))
         IN  0..Lesser(Ceiling(n), 3 * prev)

\* (Variant with a fault: the attempt's timeout wins over the caller's deadline.)
CascadingFreely(t) == t + timeout

\* Cascading: an attempt has its timeout, or what is left of the caller's time.
Cascading(t) ==
  IF deadline # None /\ deadline - t < timeout THEN deadline ELSE t + timeout

Over == deadline # None /\ now >= deadline

-----------------------------------------------------------------------------
(* Do *)

\* The context is looked at before every attempt.
Check ==
  /\ at = "check"
  /\ at' = IF Over THEN "done" ELSE IF attempt = 0 THEN "run" ELSE "wait"
  /\ until' = IF at' = "run" THEN Cascading(now) ELSE until
  /\ UNCHANGED <<constant, now, attempt>>

\* The timer runs out, or the context's end comes first; at once, either.
Wait ==
  /\ at = "wait"
  /\ \E delay \in Delays(attempt - 1) :
       \/ /\ deadline # None /\ now + delay >= deadline
          /\ now' = deadline /\ at' = "done" /\ UNCHANGED until
       \/ /\ (deadline # None => now + delay <= deadline)
          /\ now' = now + delay /\ at' = "run" /\ until' = Cascading(now')
  /\ UNCHANGED <<constant, attempt>>

\* fn returns, at the latest when its context ends.
Succeed ==
  /\ at = "run"
  /\ \E t \in now..until : now' = t
  /\ at' = "done"
  /\ UNCHANGED <<constant, attempt, until>>

Fail ==
  /\ at = "run"
  /\ \E t \in now..until : now' = t
  /\ IF attempt = config.attempts
     THEN at' = "done" /\ UNCHANGED attempt
     ELSE at' = "check" /\ attempt' = attempt + 1
  /\ UNCHANGED <<constant, until>>

Init ==
  /\ config \in {NewExponentialBackoff(c) : c \in Configs}
  /\ jitter \in Jitters
  /\ deadline \in Deadlines /\ timeout \in Timeouts
  /\ now = 0 /\ attempt = 0 /\ until = 0
  /\ at = "check"

Next == Check \/ Wait \/ Succeed \/ Fail

Spec == Init /\ [][Next]_vars

-----------------------------------------------------------------------------
(* Properties *)

\* Do, Next and Cascading together: a call outlives neither its caller's deadline
\* nor its budget, a timeout for each attempt and the longest delay for each
\* retry.
WithinBudget ==
  /\ deadline # None => now <= deadline
  /\ now <= (attempt + 1) * timeout + attempt * config.max
  /\ attempt <= config.attempts
=============================================================================
