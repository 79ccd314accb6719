--------------------------- MODULE MCHybridRouter ---------------------------
EXTENDS HybridRouter, TLC

CONSTANTS hi, deploy, review, arch, debug, fast, slow, unknown

\* slow is disabled, and unknown is a provider nobody registered.
MCLists ==
  {arch :> fast @@ debug :> unknown, arch :> slow, debug :> fast, NoIntents}
MCInitialList == arch :> fast @@ debug :> unknown

\* The first rule for hi names a disabled provider.
MCRuleProviders ==
  [p \in Prompts |-> IF p = hi THEN <<slow, fast>> ELSE <<>>]
MCNamedProviders == [p \in Prompts |-> {}]

\* review is like the intent arch, deploy is like none.
MCScore ==
  [p \in Prompts |-> [i \in Codes |-> CASE p = review /\ i = arch -> 2
                                        [] p = review /\ i = debug -> 1
                                        [] OTHER -> 0]]
MCLayers == {{}, {"embedding", "classifier"}}

Symmetry == Permutations(Clients) \union Permutations(Reloaders) \union Permutations(Caches)

\* A prompt is not read any more once its embedding is ranked, nor is a cache
\* that nobody can reach.
ViewOf(ca) == IF Fresh(ca) THEN <<>> ELSE <<keys[ca], expired[ca], ca \in stopped>>
PromptOf(c) ==
  IF stage[c] \in {"look", "get", "drop", "embed", "rank"} THEN prompt[c] ELSE EmptyPrompt
View == <<layers, ready, listVars, cache, [ca \in Caches |-> ViewOf(ca)],
          stage, op, [c \in Clients |-> PromptOf(c)], snap, held, answer, seen, reloadVars>>
=============================================================================
