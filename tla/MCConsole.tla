----------------------------- MODULE MCConsole -----------------------------
(* Values for the constants of Console.                                    *)
EXTENDS Console

CONSTANTS
  top, mid, leaf,   \* intents
  root, u1,         \* users
  k1, k2, k3,       \* keys
  ch, gpt           \* a channel, a model

\* A root, a category and a leaf; a request hangs a row under one of the two or
\* under none.
MCBodies ==
  {[parent |-> top, routes |-> TRUE], [parent |-> mid, routes |-> TRUE],
   [parent |-> None, routes |-> FALSE]}
MCSeed ==
  << <<top, [parent |-> None, routes |-> FALSE]>>,
     <<mid, [parent |-> top, routes |-> FALSE]>>,
     <<leaf, [parent |-> mid, routes |-> TRUE]>> >>

\* Reports: three days, of which the last begins a month.
MCMonthStart == <<1, 1, 3>>
=============================================================================
