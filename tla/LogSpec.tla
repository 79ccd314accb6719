------------------------------ MODULE LogSpec ------------------------------
(***************************************************************************)
(* What the request-log stream promises to the one who reads the database: *)
(* a published entry is stored once, and is stored some day unless the     *)
(* stream had grown so long that it was trimmed away before.               *)
(***************************************************************************)
EXTENDS Integers

CONSTANTS
  MaxEntries,  \* bound: entries published
  MaxLen       \* entries the stream keeps at least

Entries == 1 .. MaxEntries

VARIABLES
  added,   \* entries published so far, numbered 1 .. added
  kept,    \* the oldest entry the stream still has
  stored   \* entries in the database

vars == <<added, kept, stored>>

Init == added = 0 /\ kept = 1 /\ stored = {}

\* Older entries may go when MaxLen newer ones are there.
Add ==
  /\ added < MaxEntries
  /\ added' = added + 1
  /\ kept' \in kept .. MaxEntries
  /\ kept' = kept \/ added' - kept' + 1 >= MaxLen
  /\ UNCHANGED stored

Store(i) ==
  /\ i <= added /\ i \notin stored
  /\ stored' = stored \union {i}
  /\ UNCHANGED <<added, kept>>

Next == Add \/ \E i \in Entries : Store(i)

Safety == Init /\ [][Next]_vars

\* An entry the stream keeps is not left out for ever.
StoredSomeDay(i) == WF_vars(i >= kept /\ Store(i))

Spec == Safety /\ \A i \in Entries : StoredSomeDay(i)
=============================================================================
