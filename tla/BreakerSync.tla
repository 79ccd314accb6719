---------------------------- MODULE BreakerSync ----------------------------
(***************************************************************************)
(* The instances of one circuit breaker tell each other their state        *)
(* changes over a Redis channel.  A change is published by a goroutine of  *)
(* its own, so that two changes may be published in either order; every    *)
(* subscriber, the sender among them, receives what is published in Redis's *)
(* order, or misses it while its connection is down.                       *)
(*                                                                         *)
(* The channel keeps nothing: log is what was published so far, and a      *)
(* subscriber's place in it stands for the messages on their way to it.    *)
(***************************************************************************)
EXTENDS Integers, Sequences

CONSTANTS
  Instances,
  MaxChanges   \* bound on local changes

Modes == {"closed", "open", "halfOpen"}

VARIABLES
  mode,      \* instance -> state of its breaker
  sending,   \* instance -> changes its goroutines have yet to publish
  log,       \* messages published
  next,      \* instance -> message it receives next
  changes,   \* local changes so far (bound)
  missed,    \* history: instances that missed a message since the last "open" or
             \* "closed" they received
  unsent     \* history: a publication failed since the last "open" or "closed"

vars == <<mode, sending, log, next, changes, missed, unsent>>

-----------------------------------------------------------------------------
\* transitionTo, by a call of this instance (CircuitBreaker has the conditions).
TransitionTo(i, from, to) ==
  /\ mode[i] = from
  /\ changes < MaxChanges
  /\ changes' = changes + 1
  /\ mode' = [mode EXCEPT ![i] = to]
  /\ sending' = [sending EXCEPT ![i] = Append(@, to)]
  /\ UNCHANGED <<log, next, missed, unsent>>

Transition(i) ==
  \/ TransitionTo(i, "closed", "open")
  \/ TransitionTo(i, "open", "halfOpen")
  \/ TransitionTo(i, "halfOpen", "open")
  \/ TransitionTo(i, "halfOpen", "closed")

Without(s, n) == SubSeq(s, 1, n - 1) \o SubSeq(s, n + 1, Len(s))

\* publishStateChange: any of the goroutines comes first.
Publish(i) ==
  \E n \in 1..Len(sending[i]) :
    /\ log' = Append(log, sending[i][n])
    /\ sending' = [sending EXCEPT ![i] = Without(@, n)]
    /\ unsent' = (unsent /\ sending[i][n] = "halfOpen")
    /\ UNCHANGED <<mode, next, changes, missed>>

PublishFails(i) ==
  \E n \in 1..Len(sending[i]) :
    /\ sending' = [sending EXCEPT ![i] = Without(@, n)]
    /\ unsent' = TRUE
    /\ UNCHANGED <<mode, log, next, changes, missed>>

\* (Variant with a fault: a message is taken up only where a call of the instance
\* could have made the same change.)
AppliedLikeLocal(m, old) ==
  CASE m = "halfOpen" /\ old # "open"   -> old
    [] m = "closed" /\ old # "halfOpen" -> old
    [] OTHER                            -> m

\* listenStateSync: half-open is taken up by an open breaker only.
Applied(m, old) == IF m = "halfOpen" /\ old # "open" THEN old ELSE m

Receive(i) ==
  /\ next[i] <= Len(log)
  /\ mode' = [mode EXCEPT ![i] = Applied(log[next[i]], @)]
  /\ next' = [next EXCEPT ![i] = @ + 1]
  /\ missed' = IF log[next[i]] = "halfOpen" THEN missed ELSE missed \ {i}
  /\ UNCHANGED <<sending, log, changes, unsent>>

\* The connection is down while a message is published.
Miss(i) ==
  /\ next[i] <= Len(log)
  /\ next' = [next EXCEPT ![i] = @ + 1]
  /\ missed' = missed \union {i}
  /\ UNCHANGED <<mode, sending, log, changes, unsent>>

-----------------------------------------------------------------------------
Init ==
  /\ mode = [i \in Instances |-> "closed"]
  /\ sending = [i \in Instances |-> <<>>]
  /\ log = <<>>
  /\ next = [i \in Instances |-> 1]
  /\ changes = 0
  /\ missed = {}
  /\ unsent = FALSE

Next ==
  \E i \in Instances : Transition(i) \/ Publish(i) \/ PublishFails(i) \/ Receive(i) \/ Miss(i)

Spec == Init /\ [][Next]_vars

-----------------------------------------------------------------------------
(* Properties *)

\* Modes, messages and places are well formed.
TypeOK ==
  /\ mode \in [Instances -> Modes]
  /\ sending \in [Instances -> Seq(Modes)]
  /\ log \in Seq(Modes)
  /\ next \in [Instances -> Nat \ {0}]
  /\ \A i \in Instances : next[i] <= Len(log) + 1
  /\ changes \in 0..MaxChanges
  /\ missed \subseteq Instances
  /\ unsent \in BOOLEAN

Quiet == \A i \in Instances : sending[i] = <<>> /\ next[i] = Len(log) + 1

\* listenStateSync: however changes cross and overtake each other, when all that was
\* published has arrived, the instances that have missed nothing since an "open" or
\* a "closed" are in the same state.
AgreeWhenQuiet ==
  Quiet /\ ~unsent => \A i, j \in Instances \ missed : mode[i] = mode[j]
=============================================================================
