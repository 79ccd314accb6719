----------------------------- MODULE MCTraffic -----------------------------
(* Values for the constants of Traffic.                                    *)
EXTENDS Traffic

CONSTANTS
  r1, r2, code, chat, pA, pB,   \* Messages, see below
  t1, t2, sys,                  \* texts of a conversation
  i1, i2, i3,                   \* instances of a service
  h1, h2                        \* handlers

(* Messages: two prompts of one length, one with a keyword of pB, the other *)
(* without.                                                                 *)
MCPromptOf == [r \in Requests |-> IF r = r2 THEN chat ELSE code]
MCKey(p) == "same length"
MCMatches == [p \in Prompts |-> IF p = code THEN {pB} ELSE {}]

(* TokenTracker: any three of five texts, cut anywhere into chunks of a part *)
(* of a line or more.                                                        *)
MCAbsent == 0 - 1
Usage == [kind |-> "data", input |-> 3, output |-> 1, total |-> Absent]
Total == [kind |-> "data", input |-> 1, output |-> 4, total |-> 9]
Type(name) == [kind |-> "event", type |-> name]
EndOfLine == [line |-> None, part |-> 0]
Piece(l, n) == [line |-> l, part |-> n]
Line(l) == <<Piece(l, 1), Piece(l, 2), Piece(l, 3), EndOfLine>>
Texts == {Line(Type("message_delta")) \o Line(Usage) \o <<EndOfLine>>,
          Line(Total) \o <<EndOfLine>>,
          <<Piece(Total, 1), Piece(Total, 2), EndOfLine,
            Piece(Total, 1), Piece(Total, 3), EndOfLine, EndOfLine>>,
          Line(Type("ping")) \o Line(Total) \o <<EndOfLine>>,
          Line(Type("ping")) \o <<EndOfLine>>}
MCLines == {Usage, Total, Type("message_delta"), Type("ping")}
MCStreams == {a \o b \o c : a, b, c \in Texts}

(* Upstream: a provider called by its name, by a part of it, and none.      *)
MCExactly == [n \in {"whole", "part", "none"} |-> IF n = "whole" THEN {pA} ELSE {}]
MCContaining == [whole |-> {pA}, part |-> {pB}, none |-> {}]

(* Adapters: conversations of one and of three turns, with texts, blocks of *)
(* texts and blocks without.                                                *)
Turn(role, blocks, content) == [role |-> role, blocks |-> blocks, content |-> content]
Turns(role) == {Turn(role, TRUE, <<None>>), Turn(role, TRUE, <<t1, None, t2>>),
                Turn(role, TRUE, <<t2, t1>>), Turn(role, FALSE, <<t1>>)}
Conversations ==
  {<<a>> : a \in Turns("user")} \union
  {<<a, b, c>> : a \in Turns("user"), b \in Turns("assistant"), c \in Turns("user")}
MCBodies == [system : {None, sys}, messages : Conversations]

(* Backoff: one configuration left to the defaults, one of its own.         *)
MCConfigs == {[base |-> 0, max |-> 0, attempts |-> 0], [base |-> 2, max |-> 3, attempts |-> 3]}
MCDefaults == [base |-> 1, max |-> 4, attempts |-> 2]

MCSimilarity(p, q) == IF p = q THEN 2 ELSE 0
=============================================================================
