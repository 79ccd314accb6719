---------------------------- MODULE MCRateLimit ----------------------------
EXTENDS RateLimit, TLC

Symmetry == Permutations(Keys) \union Permutations(Callers) \union Permutations(Buckets)

\* The fields of a bucket nobody can reach are not read again.
Seen(b) ==
  IF Unreachable(b) THEN <<>>
  ELSE <<tokens[b], lastRefill[b], born[b], passed[b], burst[b], b \in retired>>
View == <<now, data, lastAccess, callerVars, evictVars, [b \in Buckets |-> Seen(b)]>>
=============================================================================
