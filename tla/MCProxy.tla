------------------------------ MODULE MCProxy ------------------------------
EXTENDS Proxy

CONSTANTS r1, r2, r3, hot

\* All requests share a prompt, so one may be served from another's answer.
MCPromptOf == [r \in Requests |-> hot]

\* RequestsEnd for one of the requests, which are alike: what holds of r1 holds of
\* every one, at a third of the cost.
AnyRequestEnds == Ends(r1)
=============================================================================
