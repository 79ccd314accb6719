------------------------------ MODULE Adapters ------------------------------
(***************************************************************************)
(* The adapters rewrite a request in the format of Anthropic's Messages    *)
(* into that of the provider.  A body is its system prompt and a sequence  *)
(* of messages, whose content is text or a list of blocks; a block without *)
(* text (an image, a tool's result) has None for it.  URLs, headers and    *)
(* parameters, which are renamed one by one, are left out.                 *)
(***************************************************************************)
EXTENDS Integers, Sequences, FiniteSets, SequencesExt

CONSTANTS
  Kinds,     \* a provider's name contains one of these, or another one
  Bodies,    \* [system : text or None, messages : Seq([role, blocks, content])]
  None

VARIABLES
  kind,     \* the name's part that decides
  body,     \* the client's request
  request   \* the upstream's, once it is built

vars == <<kind, body, request>>

-----------------------------------------------------------------------------
\* extractTextFromBlocks: the texts, one after the other.
TextOfBlocks(blocks) ==
  FoldLeft(LAMBDA texts, b : IF b = None THEN texts ELSE Append(texts, b), <<>>, blocks)

\* The texts of a message, whichever form its content has.
Texts(m) == IF m.blocks THEN TextOfBlocks(m.content) ELSE m.content

\* (Variant with a fault: a message without text is left out.)
TranslateMessagesWithText(b) ==
  SelectSeq([i \in 1..Len(b.messages) |->
               [role |-> b.messages[i].role, texts |-> Texts(b.messages[i])]],
            LAMBDA m : m.texts # <<>>)

\* translateMessages
TranslateMessages(b) ==
  [i \in 1..Len(b.messages) |-> [role |-> b.messages[i].role, texts |-> Texts(b.messages[i])]]

SystemTurn(b, role) ==
  IF b.system = None THEN <<>> ELSE <<[role |-> role, texts |-> <<b.system>>]>>

\* translateToGeminiContents: roles are renamed.
TranslateToGeminiContents(b) ==
  [i \in 1..Len(b.messages) |->
     [role |-> IF b.messages[i].role = "assistant" THEN "model" ELSE b.messages[i].role,
      texts |-> Texts(b.messages[i])]]

\* adapterFor
AdapterFor ==
  CASE kind \in {"anthropic", "claude"} -> "anthropic"
    [] kind \in {"gemini", "google"}    -> "gemini"
    [] kind \in {"baidu", "wenxin"}     -> "baidu"
    [] OTHER                            -> "openai"

\* The body goes on as it is.
Anthropic(b) == [system |-> b.system, turns |-> TranslateMessages(b)]

OpenAI(b) == [system |-> None, turns |-> SystemTurn(b, "system") \o TranslateMessages(b)]

\* The system prompt is not passed on.
Gemini(b) == [system |-> None, turns |-> TranslateToGeminiContents(b)]

\* The system prompt becomes a turn of the user.
Baidu(b) == [system |-> None, turns |-> SystemTurn(b, "user") \o TranslateMessages(b)]

BuildRequest ==
  /\ request = None
  /\ request' = CASE AdapterFor = "anthropic" -> Anthropic(body)
                  [] AdapterFor = "gemini"    -> Gemini(body)
                  [] AdapterFor = "baidu"     -> Baidu(body)
                  [] AdapterFor = "openai"    -> OpenAI(body)
  /\ UNCHANGED <<kind, body>>

Init == kind \in Kinds /\ body \in Bodies /\ request = None

Next == BuildRequest

Spec == Init /\ [][Next]_vars

-----------------------------------------------------------------------------
(* Properties *)

Side(role) == IF role = "model" THEN "assistant" ELSE role

Flat(seq, Of(_)) == FlattenSeq([i \in 1..Len(seq) |-> Of(seq[i])])

\* BuildRequest: whatever the provider's format, each turn stays where and on the
\* side it was, and the texts of the conversation come through in order, none
\* lost or repeated, after the system prompt where that has become a turn.
ConversationIsKept ==
  request # None =>
    LET all == Flat(body.messages, LAMBDA m : m.content)
        said == Flat(request.turns, LAMBDA t : t.texts)
        lead == Len(request.turns) - Len(body.messages)
        Told(n) == {i \in 1..n : all[i] # None}
    IN  /\ lead \in {0, 1} /\ (lead = 1 => Head(said) = body.system)
        /\ Len(said) = lead + Cardinality(Told(Len(all)))
        /\ \A i \in Told(Len(all)) : said[lead + Cardinality(Told(i))] = all[i]
        /\ \A i \in 1..Len(body.messages) :
             Side(request.turns[lead + i].role) = body.messages[i].role
=============================================================================
