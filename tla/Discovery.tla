----------------------------- MODULE Discovery -----------------------------
(***************************************************************************)
(* Service registration and discovery in etcd: instances put a key under a *)
(* lease which the client keeps alive; a watcher, started at any time,     *)
(* asks for all keys of the service whenever one of them changes.  What    *)
(* etcd does (leases, watch events in order) is taken from how the code    *)
(* uses it.                                                                *)
(***************************************************************************)
EXTENDS Integers, FiniteSets, Sequences

CONSTANTS
  Instances,
  None,
  MaxStarts,   \* bound on starts of instances
  MaxFaults    \* bound on failing requests and lost keep-alives

Leases == 1..MaxStarts

VARIABLES
  process,   \* instance -> its step and its lease
  leases,    \* leases that live
  key,       \* instance -> the lease of its key in etcd, or None
  watching,  \* a watcher was started
  events,    \* changes of keys the watcher was not told of yet
  seen,      \* the watcher's last list: a string for each key found
  starts,    \* starts so far (bound)
  faults,    \* faults so far (bound)
  changed,   \* history: a key has changed since the watcher was started
  stale      \* history: the watcher's last query failed

vars == <<process, leases, key, watching, events, seen, starts, faults, changed, stale>>

Off == [at |-> "off", lease |-> None]

At(i, pc) == process[i].at = pc
Goto(i, pc) == process' = [process EXCEPT ![i].at = pc]
End(i) == process' = [process EXCEPT ![i] = Off]
Fault == faults < MaxFaults /\ faults' = faults + 1

Keys == {i \in Instances : key[i] # None}

told == <<events, changed>>
watcher == <<watching, told, seen, stale>>

\* etcd has events for a watcher from its start on.
Tell(changes) ==
  IF watching /\ changes > 0
  THEN events' = events + changes /\ changed' = TRUE
  ELSE UNCHANGED told

-----------------------------------------------------------------------------
(* Register, Deregister *)

\* Grant: a lease of its own for each start.
Start(i) ==
  /\ At(i, "off")
  /\ starts < MaxStarts
  /\ starts' = starts + 1
  /\ leases' = leases \union {starts'}
  /\ process' = [process EXCEPT ![i] = [at |-> "put", lease |-> starts']]
  /\ UNCHANGED <<key, watcher, faults>>

\* The key, whose name is the instance's address, is bound to the lease.
Put(i) ==
  /\ At(i, "put")
  /\ process[i].lease \in leases
  /\ key' = [key EXCEPT ![i] = process[i].lease]
  /\ Tell(1)
  /\ Goto(i, "up")
  /\ UNCHANGED <<leases, watching, seen, starts, faults, stale>>

\* The lease has run out, or the request fails: Register returns an error.
PutFails(i) ==
  /\ At(i, "put")
  /\ \/ process[i].lease \notin leases /\ UNCHANGED faults
     \/ Fault
  /\ End(i)
  /\ UNCHANGED <<leases, key, watcher, starts>>

\* The keep-alive channel closes; the instance serves on.
KeepAliveStops(i) ==
  /\ At(i, "up")
  /\ Fault
  /\ Goto(i, "unkept")
  /\ UNCHANGED <<leases, key, watcher, starts>>

\* A lease takes the key bound to it along.
Drop(lease) ==
  LET bound == {i \in Instances : key[i] = lease}
  IN  /\ leases' = leases \ {lease}
      /\ key' = [i \in Instances |-> IF i \in bound THEN None ELSE key[i]]
      /\ Tell(Cardinality(bound))

Deregister(i) ==
  /\ At(i, "up") \/ At(i, "unkept")
  /\ End(i)
  /\ \/ Drop(process[i].lease) /\ UNCHANGED faults
     \/ Fault /\ UNCHANGED <<leases, key, told>>
  /\ UNCHANGED <<watching, seen, starts, stale>>

Crash(i) ==
  /\ ~At(i, "off")
  /\ End(i)
  /\ UNCHANGED <<leases, key, watcher, starts, faults>>

\* A lease nobody keeps alive runs out.
Expire(lease) ==
  /\ lease \in leases
  /\ \A i \in Instances : At(i, "up") => process[i].lease # lease
  /\ Drop(lease)
  /\ UNCHANGED <<process, watching, seen, starts, faults, stale>>

-----------------------------------------------------------------------------
(* Watch, Discover *)

\* The watch begins; nothing is queried before a key changes.
StartWatch ==
  /\ ~watching
  /\ watching' = TRUE
  /\ UNCHANGED <<process, leases, key, told, seen, starts, faults, stale>>

\* extractAddr compares seven bytes with the eight of "addr":" and so finds
\* nothing; what it returns is the value up to its first quotation mark.
ExtractAddr == "{"

Discovered == [n \in 1..Cardinality(Keys) |-> ExtractAddr]

\* (Variant with a fault: only the first change makes the watcher ask.)
WatchOnce ==
  /\ events > 0
  /\ events' = events - 1
  /\ seen' = IF seen = <<>> THEN Discovered ELSE seen
  /\ stale' = FALSE
  /\ UNCHANGED <<process, leases, key, watching, starts, faults, changed>>

\* Each event has the service queried again, for what is there by now.
Watch ==
  /\ events > 0
  /\ events' = events - 1
  /\ seen' = Discovered /\ stale' = FALSE
  /\ UNCHANGED <<process, leases, key, watching, starts, faults, changed>>

\* A query fails: the watcher waits for the next event.
WatchFails ==
  /\ events > 0
  /\ Fault
  /\ events' = events - 1
  /\ stale' = TRUE
  /\ UNCHANGED <<process, leases, key, watching, seen, starts, changed>>

-----------------------------------------------------------------------------
Init ==
  /\ process = [i \in Instances |-> Off]
  /\ leases = {} /\ key = [i \in Instances |-> None]
  /\ watching = FALSE /\ events = 0 /\ seen = <<>>
  /\ starts = 0 /\ faults = 0
  /\ changed = FALSE /\ stale = FALSE

Register(i) == Start(i) \/ Put(i) \/ PutFails(i)

Next ==
  \/ \E i \in Instances : Register(i) \/ KeepAliveStops(i) \/ Deregister(i) \/ Crash(i)
  \/ \E lease \in Leases : Expire(lease)
  \/ StartWatch \/ Watch \/ WatchFails

\* Leases run out, events arrive.
Spec ==
  /\ Init /\ [][Next]_vars
  /\ WF_vars(Watch)
  /\ \A lease \in Leases : WF_vars(Expire(lease))

-----------------------------------------------------------------------------
(* Properties *)

\* Processes, leases and keys are well formed, and a key's lease lives.
TypeOK ==
  /\ \A i \in Instances :
       /\ process[i].at \in {"off", "put", "up", "unkept"}
       /\ process[i].lease \in Leases \union {None}
       /\ key[i] \in leases \union {None}
  /\ leases \subseteq Leases
  /\ watching \in BOOLEAN /\ seen \in Seq({ExtractAddr})
  /\ events \in Nat /\ starts \in 0..MaxStarts /\ faults \in 0..MaxFaults
  /\ changed \in BOOLEAN /\ stale \in BOOLEAN

Up == {i \in Instances : At(i, "up")}

\* Register, Watch: once the same instances keep up, the watcher some day lists as
\* many as they are, none for one that crashed, deregistered or failed to, or that
\* is no longer kept alive; unless no key has changed since the watcher was
\* started, or its last query failed.
ListFollowsInstances ==
  \A S \in SUBSET Instances :
    <>[](Up = S) => <>[](Len(seen) = Cardinality(S) \/ ~changed \/ stale)

\* Discover: the watcher is given the addresses the instances registered.
AddressesAreRegistered == \A n \in DOMAIN seen : seen[n] \in Instances
=============================================================================
