----------------------------- MODULE MCUpstream -----------------------------
EXTENDS Upstream

CONSTANTS pA, pB

MCExactly == [n \in Names |-> IF n = "whole" THEN {pA} ELSE {}]
MCContaining == [n \in Names |-> IF n = "whole" THEN {pA} ELSE IF n = "part" THEN {pB} ELSE {}]
=============================================================================
