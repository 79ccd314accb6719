---------------------------- MODULE TokenTracker ----------------------------
(***************************************************************************)
(* TokenTracker passes an upstream's SSE stream on and reads the token     *)
(* usage out of it.  Writes cut the stream anywhere, in the middle of a    *)
(* line too.                                                               *)
(*                                                                         *)
(* A stream is a sequence of symbols: a line in three pieces, of which the *)
(* first is its prefix ("event: " or "data: "), and line ends.  Payloads   *)
(* are parsed if all of a data line's body is there, on one line or two.   *)
(***************************************************************************)
EXTENDS Integers, Sequences, FiniteSets, SequencesExt

CONSTANTS
  Lines,     \* [kind : {"event", "data"}, ...] (see TypeOf and Payload)
  None,
  Streams,   \* what upstreams may send
  Absent     \* a usage field that is not there

NL == [line |-> None, part |-> 0]

VARIABLES
  stream,   \* what the upstream sends
  sent,     \* symbols written so far
  tracker,  \* the parser's state and the tracking record
  flushes,  \* the caller flushes at the end (Proxy), or not (the review)
  phase     \* "copy", "flush" or "done"

vars == <<stream, sent, tracker, flushes, phase>>

Nothing == [input |-> 0, output |-> 0, total |-> 0, deltas |-> 0]
New == [acc |-> <<>>, event |-> None, data |-> <<>>, usage |-> Nothing]

-----------------------------------------------------------------------------
Larger(a, b) == IF a > b THEN a ELSE b

\* extractUsage: the largest numbers seen; a total not given is added up.
ExtractUsage(u, p) ==
  LET input == Larger(u.input, p.input)
      output == Larger(u.output, p.output)
  IN  [u EXCEPT !.input = input, !.output = output,
                !.total = IF p.total = Absent THEN input + output ELSE Larger(@, p.total)]

\* json.Unmarshal: the line of which the text is the body.
Parsed(text) == {l \in Lines : l.kind = "data" /\ text = <<[line |-> l, part |-> 2],
                                                           [line |-> l, part |-> 3]>>}

Ignored == {"message_stop", "ping"}

\* processEvent
ProcessEvent(u, event, text) ==
  LET counted == IF event = "message_delta" THEN [u EXCEPT !.deltas = @ + 1] ELSE u
  IN  IF Parsed(text) = {} \/ event \in Ignored THEN u
      ELSE ExtractUsage(counted, CHOOSE l \in Parsed(text) : TRUE)

HasPrefix(line, kind) ==
  line # <<>> /\ Head(line).part = 1 /\ Head(line).line.kind = kind

EndEvent(t) ==
  IF t.data = <<>> THEN t
  ELSE [t EXCEPT !.usage = ProcessEvent(@, t.event, FlattenSeq(t.data)),
                 !.event = None, !.data = <<>>]

ScanLine(t, line) ==
  IF HasPrefix(line, "event") THEN [t EXCEPT !.event = Head(line).line.type]
  ELSE IF HasPrefix(line, "data") THEN [t EXCEPT !.data = Append(@, Tail(line))]
  ELSE IF line = <<>> THEN EndEvent(t)
  ELSE t

\* strings.Split
Split(text) ==
  FoldLeft(LAMBDA ls, x : IF x = NL THEN Append(ls, <<>>)
                          ELSE [ls EXCEPT ![Len(ls)] = Append(@, x)],
           << <<>> >>, text)

\* (Variants with a fault: the line a chunk ends in is lost, or read as it is.)
ScanForUsageForgetting(t, chunk) == FoldLeft(ScanLine, t, Front(Split(chunk)))

ScanForUsageEager(t, chunk) == FoldLeft(ScanLine, t, Split(chunk))

\* scanForUsage: whole lines are scanned, the rest is kept for the next chunk.
ScanForUsage(t, chunk) ==
  LET lines == Split(t.acc \o chunk)
  IN  [FoldLeft(ScanLine, t, Front(lines)) EXCEPT !.acc = Last(lines)]

\* Flush: the rest counts if it is data, and ends the event.
Flushed(t) ==
  EndEvent(IF HasPrefix(t.acc, "data")
           THEN [t EXCEPT !.data = Append(@, Tail(t.acc)), !.acc = <<>>]
           ELSE [t EXCEPT !.acc = <<>>])

-----------------------------------------------------------------------------
\* io.Copy hands over a chunk; the client takes it.
Write ==
  /\ phase = "copy"
  /\ \E to \in (sent + 1)..Len(stream) :
       /\ sent' = to
       /\ tracker' = ScanForUsage(tracker, SubSeq(stream, sent + 1, to))
  /\ UNCHANGED <<stream, flushes, phase>>

\* The copy ends: with the stream, its breaking off, or a client that is gone, for
\* whom nothing is scanned any more.
EndCopy ==
  /\ phase = "copy"
  /\ phase' = IF flushes THEN "flush" ELSE "done"
  /\ UNCHANGED <<stream, sent, tracker, flushes>>

Flush ==
  /\ phase = "flush"
  /\ tracker' = Flushed(tracker)
  /\ phase' = "done"
  /\ UNCHANGED <<stream, sent, flushes>>

Init ==
  /\ stream \in Streams
  /\ sent = 0
  /\ tracker = New
  /\ flushes \in BOOLEAN
  /\ phase = "copy"

Next == Write \/ EndCopy \/ Flush

Spec == Init /\ [][Next]_vars

-----------------------------------------------------------------------------
(* Properties *)

\* The parser's state and the record are well formed.
TypeOK ==
  /\ sent \in 0..Len(stream)
  /\ flushes \in BOOLEAN /\ phase \in {"copy", "flush", "done"}
  /\ \A i \in 1..Len(tracker.acc) : tracker.acc[i] # NL
  /\ tracker.usage.input \in Nat /\ tracker.usage.output \in Nat
  /\ tracker.usage.total \in Nat /\ tracker.usage.deltas \in Nat

\* The events of a text read as a whole: where they end, what they say.
IsData(ls, i) == HasPrefix(ls[i], "data")
Block(ls, i) == {j \in 1..(i - 1) : IsData(ls, j) /\ \A k \in j..(i - 1) : ls[k] # <<>>}
Ends(ls) == {i \in 1..Len(ls) : ls[i] = <<>> /\ Block(ls, i) # {}}
Text(ls, i) ==
  FlattenSeq([n \in 1..(i - 1) |-> IF n \in Block(ls, i) THEN Tail(ls[n]) ELSE <<>>])
EventLines(ls, i) ==
  {j \in 1..(i - 1) : HasPrefix(ls[j], "event") /\ \A k \in Ends(ls) : k < j \/ k >= i}
Event(ls, i) ==
  IF EventLines(ls, i) = {} THEN None
  ELSE Head(ls[CHOOSE j \in EventLines(ls, i) : \A k \in EventLines(ls, i) : k <= j]).line.type
Payloads(ls, i) == IF Event(ls, i) \in Ignored THEN {} ELSE Parsed(Text(ls, i))

\* The lines of what was written, the last one counting as the caller has it.
Read ==
  LET ls == Split(SubSeq(stream, 1, sent))
  IN  IF ~flushes THEN Front(ls)
      ELSE (IF HasPrefix(Last(ls), "data") THEN ls ELSE Front(ls)) \o << <<>> >>

\* scanForUsage, Flush: wherever the stream was cut into chunks and wherever it
\* ended, the usage is the largest of the events that came through whole, and
\* each delta was counted once.
UsageAnyChunking ==
  phase = "done" =>
    LET found == UNION {Payloads(Read, i) : i \in Ends(Read)}
    IN  /\ tracker.usage.input = Max({0} \union {l.input : l \in found})
        /\ tracker.usage.output = Max({0} \union {l.output : l \in found})
        /\ tracker.usage.deltas =
             Cardinality({i \in Ends(Read) : Event(Read, i) = "message_delta"
                                               /\ Payloads(Read, i) # {}})
=============================================================================
