------------------------------ MODULE Upstream ------------------------------
(***************************************************************************)
(* Calls to upstreams whose answers are streamed to the client: the        *)
(* gateway's doUpstreamRequest, and the review, in which one provider      *)
(* generates and another one reviews.  A call sends, retries, and then     *)
(* copies the answer's body, with the context of an attempt that has       *)
(* already returned: what the transport had not read by then is lost.      *)
(***************************************************************************)
EXTENDS Integers, Sequences, SequencesExt

CONSTANTS
  Providers,
  Names,        \* names a request may ask for
  Exactly,      \* name -> providers called so, case aside
  Containing,   \* name -> providers whose name has it as a part
  MaxRetries,
  Length        \* pieces of an answer; after them comes its end

Phases == [gateway |-> <<"answer">>, review |-> <<"generation", "review">>]
Callers == DOMAIN Phases

VARIABLES
  caller,    \* "gateway" or "review"
  at,        \* "lookup", "attempt", "copy" or "done"
  provider,  \* phase number -> provider
  phase,     \* number of the phase
  attempt,   \* retries of this phase
  readable,  \* pieces of this answer that can still be read
  copied,    \* pieces of this answer passed on
  events,    \* what the client was sent
  gone,      \* the client has left: the request's context is done
  broken     \* the upstream broke the connection

vars == <<caller, at, provider, phase, attempt, readable, copied, events, gone, broken>>

Final == Len(Phases[caller])

Send(e) == events' = Append(events, e)

-----------------------------------------------------------------------------
(* Execute *)

\* lookupProvider: any of that name, else any with it as a part of its name.
Found(name) == IF Exactly[name] # {} THEN Exactly[name] ELSE Containing[name]

\* Both providers are looked up before anything is written.
Lookup ==
  /\ at = "lookup"
  /\ \E generator, reviewer \in Names :
       \/ \E p \in Found(generator), q \in Found(reviewer) :
            /\ provider' = <<p, q>>
            /\ at' = "attempt"
            /\ Send("generation")
       \/ /\ Found(generator) = {} \/ Found(reviewer) = {}
          /\ at' = "done"
          /\ UNCHANGED <<provider, events>>
  /\ UNCHANGED <<caller, phase, attempt, readable, copied, gone, broken>>

\* A phase fails: a review tells its client.
Fail ==
  /\ at' = "done"
  /\ IF caller = "review" THEN Send("error") ELSE UNCHANGED events

-----------------------------------------------------------------------------
(* A call *)

\* An error or an answer of 500 and above; there is an attempt left, or not.
AttemptFails ==
  /\ at = "attempt"
  /\ \/ /\ attempt < MaxRetries /\ ~gone
        /\ attempt' = attempt + 1
        /\ UNCHANGED <<at, events>>
     \/ /\ attempt = MaxRetries \/ gone
        /\ Fail
        /\ UNCHANGED attempt
  /\ UNCHANGED <<caller, provider, phase, readable, copied, gone, broken>>

\* An answer of 400 to 499.
ClientError ==
  /\ at = "attempt"
  /\ Fail
  /\ UNCHANGED <<caller, provider, phase, attempt, readable, copied, gone, broken>>

\* The head of an answer comes, with some of the body.  With the attempt its
\* context ends, and the transport reads no further.
AttemptSucceeds ==
  /\ at = "attempt"
  /\ ~gone
  /\ readable' \in 0..(Length + 1)
  /\ at' = "copy"
  /\ UNCHANGED <<caller, provider, phase, attempt, copied, events, gone, broken>>

CopyPiece ==
  /\ at = "copy"
  /\ copied < readable /\ copied < Length
  /\ copied' = copied + 1
  /\ Send("piece")
  /\ UNCHANGED <<caller, at, provider, phase, attempt, readable, gone, broken>>

\* The answer's end: the review goes on to its next phase, or sums up.
CopyEnds ==
  /\ at = "copy"
  /\ copied = Length /\ readable = Length + 1
  /\ IF phase < Final
     THEN /\ phase' = phase + 1 /\ at' = "attempt"
          /\ attempt' = 0 /\ readable' = 0 /\ copied' = 0
          /\ Send(Phases[caller][phase + 1])
     ELSE /\ at' = "done"
          /\ IF caller = "review" THEN Send("summary") ELSE UNCHANGED events
          /\ UNCHANGED <<phase, attempt, readable, copied>>
  /\ UNCHANGED <<caller, provider, gone, broken>>

\* (Variant with a fault: the error of io.Copy is overlooked.)
CopyFailsUnseen ==
  /\ at = "copy"
  /\ copied = readable
  /\ at' = "done"
  /\ IF caller = "review" THEN Send("summary") ELSE UNCHANGED events
  /\ UNCHANGED <<caller, provider, phase, attempt, readable, copied, gone, broken>>

\* The context's end is the answer of the next read.
CopyFails ==
  /\ at = "copy"
  /\ copied = readable
  /\ Fail
  /\ UNCHANGED <<caller, provider, phase, attempt, readable, copied, gone, broken>>

\* A write fails because the client has left.
WriteFails ==
  /\ at = "copy"
  /\ gone
  /\ Fail
  /\ UNCHANGED <<caller, provider, phase, attempt, readable, copied, gone, broken>>

\* The upstream breaks off: what had not been read is lost.
UpstreamBreaks ==
  /\ at = "copy"
  /\ ~broken
  /\ broken' = TRUE
  /\ readable' \in copied..readable
  /\ UNCHANGED <<caller, at, provider, phase, attempt, copied, events, gone>>

Disconnect ==
  /\ at # "done"
  /\ ~gone
  /\ gone' = TRUE
  /\ UNCHANGED <<caller, at, provider, phase, attempt, readable, copied, events, broken>>

-----------------------------------------------------------------------------
\* The gateway comes with its provider chosen (Proxy has its other outcomes).
Init ==
  /\ caller \in Callers
  /\ at = IF caller = "review" THEN "lookup" ELSE "attempt"
  /\ provider \in IF caller = "review" THEN {<<>>} ELSE {<<p>> : p \in Providers}
  /\ phase = 1 /\ attempt = 0 /\ readable = 0 /\ copied = 0
  /\ events = <<>>
  /\ gone = FALSE /\ broken = FALSE

Call ==
  \/ AttemptFails \/ ClientError \/ AttemptSucceeds
  \/ CopyPiece \/ CopyEnds \/ CopyFails \/ WriteFails

Next == Lookup \/ Call \/ UpstreamBreaks \/ Disconnect

Spec == Init /\ [][Next]_vars

-----------------------------------------------------------------------------
(* Properties *)

\* The call's progress is well formed.
TypeOK ==
  /\ caller \in Callers /\ at \in {"lookup", "attempt", "copy", "done"}
  /\ provider \in Seq(Providers) /\ Len(provider) \in {0, Final}
  /\ phase \in 1..Final /\ attempt \in 0..MaxRetries
  /\ readable \in 0..(Length + 1) /\ copied \in 0..readable
  /\ gone \in BOOLEAN /\ broken \in BOOLEAN

Pieces == [i \in 1..Length |-> "piece"]
Whole == <<"generation">> \o Pieces \o <<"review">> \o Pieces \o <<"summary">>

\* executeReview: whatever is retried, breaks off or fails, the client of a review
\* gets both answers whole, in their phases and once, and then the summary; or it
\* gets the beginning of that and then one error.
WholeOrError ==
  caller = "review" /\ at = "done" /\ events # <<>> =>
    \/ events = Whole
    \/ Last(events) = "error" /\ IsPrefix(Front(events), Whole)

\* doUpstreamRequest, Call: an answer that has begun is cut short only if the
\* upstream broke it off or the client left.
CutOnlyByPeers == [][CopyFails => gone \/ broken]_vars
=============================================================================
