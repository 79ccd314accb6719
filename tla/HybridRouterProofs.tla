------------------------ MODULE HybridRouterProofs ------------------------
(***************************************************************************)
(* Proofs about HybridRouter for any clients, reloaders, caches, lists and *)
(* scores.  Type correctness comes first, then one inductive invariant for *)
(* each thing a reload replaces: the lists and the cache.                  *)
(***************************************************************************)
EXTENDS HybridRouter, FiniteSetTheorems, TLAPS

\* The lists a variable may hold.
LEMMA KnownListFacts ==
  /\ NoIntents \in KnownLists
  /\ Lists \subseteq KnownLists
  /\ \A S \in SUBSET DOMAIN InitialList : Restricted(InitialList, S) \in KnownLists
BY DEF KnownLists

\* Providers that may be returned are registered, and enabled where the code
\* looks at that.
LEMMA ProviderFacts ==
  /\ \A p \in Prompts : KeywordProviders(p) \subseteq Enabled
  /\ Enabled # {} => Fallback \subseteq Enabled
  /\ Fallback \subseteq Providers \union {NoProvider}
  /\ Enabled \subseteq Providers
  /\ NoProvider \notin Enabled
BY HybridRouterAssumption DEF KeywordProviders, Fallback

----------------------------------------------------------------------------
\* Types

LEMMA TypeInit == Init => TypeOK
<1> SUFFICES ASSUME Init PROVE TypeOK
  OBVIOUS
<1> USE DEF Init
<1>1. /\ answer \in [Clients -> Answers]
      /\ stage \in [Clients -> Stages]
      /\ op \in [Clients -> {"match", "classify"}]
  BY DEF Answers, NoAnswer, Stages
<1>2. /\ intents \in KnownLists
      /\ snap \in [Clients -> KnownLists]
      /\ offered \in [Reloaders -> Lists \union {NoIntents}]
  BY KnownListFacts
<1>3. ready \in BOOLEAN
  OBVIOUS
<1>4. /\ keys \in [Caches -> SUBSET Prompts]
      /\ expired \in [Caches -> SUBSET Prompts]
      /\ stopped \in SUBSET Caches
      /\ seen \in [Clients -> SUBSET Lists]
  OBVIOUS
<1>5. /\ prompt \in [Clients -> Prompts]
      /\ held \in [Clients -> Caches \union {NoCache}]
      /\ rstage \in [Reloaders -> {"idle", "embedding", "read", "swap", "stop", "panicked"}]
      /\ old \in [Reloaders -> Caches \union {NoCache}]
      /\ reloads \in 0 .. MaxReloads
      /\ \A r \in Reloaders : rstage[r] = "idle"
  BY HybridRouterAssumption
<1>6. /\ layers \in Layers
      /\ cache \in Caches
      /\ classifyIntents \in Lists
      /\ current \in Lists
  BY HybridRouterAssumption
<1> QED
  BY <1>1, <1>2, <1>3, <1>4, <1>5, <1>6 DEF TypeOK

\* What Answer, Unmatched, Choose and ToClassifier leave behind.
ClientTypes ==
  /\ stage' \in [Clients -> Stages]
  /\ snap' \in [Clients -> KnownLists]
  /\ answer' \in [Clients -> Answers]

LEMMA AnswerTypes ==
  ASSUME TypeOK, NEW c \in Clients,
         NEW layer \in {"none", "keyword", "embedding", "classifier", "fallback"},
         NEW prov \in Providers \union {NoProvider}, Answer(c, layer, prov)
  PROVE  ClientTypes
BY KnownListFacts DEF TypeOK, ClientTypes, Answer, Goto, Stages, Answers

LEMMA UnmatchedTypes ==
  ASSUME TypeOK, NEW c \in Clients, Unmatched(c)
  PROVE  ClientTypes
BY AnswerTypes, ProviderFacts DEF Unmatched

LEMMA ToClassifierTypes ==
  ASSUME TypeOK, NEW c \in Clients, ToClassifier(c)
  PROVE  ClientTypes
BY DEF TypeOK, ClientTypes, ToClassifier, Goto, Stages

LEMMA ChooseTypes ==
  ASSUME TypeOK, NEW c \in Clients, NEW L, NEW i \in DOMAIN L,
         NEW layer \in {"embedding", "classifier"}, NEW next, next => ClientTypes,
         Choose(c, layer, L, i, next)
  PROVE  ClientTypes
BY AnswerTypes, ProviderFacts DEF Choose, Usable

LEMMA TypeStart ==
  ASSUME TypeOK, NEW c \in Clients, Start(c)
  PROVE  TypeOK'
<1>1. \A p \in Prompts, o \in {"match", "classify"} : Begin(c, p, o) /\ ClientTypes => TypeOK'
  <2> SUFFICES ASSUME NEW p \in Prompts, NEW o \in {"match", "classify"},
                      Begin(c, p, o), ClientTypes
               PROVE  TypeOK'
    OBVIOUS
  <2> QED
    BY DEF TypeOK, ClientTypes, Begin, listVars, cacheVars, reloadVars
<1>2. CASE MatchEmpty(c)
  BY <1>1, <1>2, AnswerTypes, ProviderFacts, HybridRouterAssumption DEF MatchEmpty
<1>3. CASE ClassifyEmpty(c)
  BY <1>1, <1>3, AnswerTypes, HybridRouterAssumption DEF ClassifyEmpty
<1>4. ASSUME NEW p \in Prompts, MatchKeyword(c, p)
      PROVE  TypeOK'
  <2>1. ClientTypes
    BY <1>4, AnswerTypes, ProviderFacts DEF MatchKeyword
  <2> QED
    BY <2>1, <1>1, <1>4 DEF MatchKeyword
<1>5. ASSUME NEW p \in Prompts, MatchOnward(c, p) \/ StartClassify(c, p)
      PROVE  TypeOK'
  <2>1. ClientTypes
    BY <1>5 DEF MatchOnward, StartClassify, ClientTypes, TypeOK, Goto, Stages, Answers, NoAnswer
  <2> QED
    BY <2>1, <1>1, <1>5 DEF MatchOnward, StartClassify
<1> QED
  BY <1>2, <1>3, <1>4, <1>5 DEF Start

LEMMA TypeSemantic ==
  ASSUME TypeOK, NEW c \in Clients, SemanticStep(c)
  PROVE  TypeOK'
<1> USE DEF Continue, listVars, cacheVars, reloadVars
<1>1. CASE Look(c)
  BY <1>1, KnownListFacts DEF Look, TypeOK, Goto, Stages
<1>2. CASE CacheHit(c) \/ CacheMiss(c) \/ EmbedFails(c)
  BY <1>2 DEF CacheHit, CacheMiss, EmbedFails, TypeOK, Goto, Stages
<1>3. CASE CacheExpired(c)
  BY <1>3 DEF CacheExpired, TypeOK, Goto, Stages
<1>4. CASE DropExpired(c)
  BY <1>4 DEF DropExpired, TypeOK, Goto, Stages
<1>5. CASE Embed(c)
  <2>1. PICK K \in Kept(cache) :
          /\ keys' = [keys EXCEPT ![cache] = K \union {prompt[c]}]
          /\ expired' = [expired EXCEPT ![cache] = (@ \cap K) \ {prompt[c]}]
    BY <1>5 DEF Embed
  <2>2. K \subseteq Prompts
    BY DEF Kept, TypeOK
  <2> QED
    BY <1>5, <2>1, <2>2 DEF Embed, TypeOK, Goto, Stages
<1>6. CASE Rank(c)
  <2>1. ClientTypes
    BY <1>6, ChooseTypes, ToClassifierTypes DEF Rank, Best
  <2> QED
    BY <1>6, <2>1 DEF Rank, TypeOK, ClientTypes
<1>7. CASE RankNothing(c)
  BY <1>7, KnownListFacts DEF RankNothing, TypeOK, Goto, Stages
<1> QED
  BY <1>1, <1>2, <1>3, <1>4, <1>5, <1>6, <1>7 DEF SemanticStep

LEMMA TypeClassifier ==
  ASSUME TypeOK, NEW c \in Clients, ClassifierStep(c)
  PROVE  TypeOK'
<1> USE DEF Continue, listVars, cacheVars, reloadVars
<1>1. CASE SkipClassifier(c) \/ NotClassified(c)
  <2>1. ClientTypes
    BY <1>1, UnmatchedTypes DEF SkipClassifier, NotClassified
  <2> QED
    BY <1>1, <2>1 DEF SkipClassifier, NotClassified, TypeOK, ClientTypes
<1>2. CASE AskClassifier(c)
  BY <1>2, KnownListFacts DEF AskClassifier, TypeOK, Goto, Stages
<1>3. CASE Classified(c)
  <2>1. ClientTypes
    BY <1>3, ChooseTypes, UnmatchedTypes DEF Classified
  <2> QED
    BY <1>3, <2>1 DEF Classified, TypeOK, ClientTypes
<1> QED
  BY <1>1, <1>2, <1>3 DEF ClassifierStep

LEMMA TypeReload ==
  ASSUME TypeOK, NEW r \in Reloaders, ReloadIntents(r)
  PROVE  TypeOK'
<1> USE DEF listVars, cacheVars, clientVars
<1>1. ASSUME NEW L \in Lists, StartReload(r, L)
      PROVE  TypeOK'
  BY <1>1, HybridRouterAssumption DEF StartReload, TypeOK
<1>2. ASSUME NEW L \in Lists, MakeCurrent(L)
      PROVE  current' \in Lists /\ seen' \in [Clients -> SUBSET Lists]
  BY <1>2 DEF MakeCurrent, TypeOK
<1>3. ASSUME NEW L \in Lists, ReloadPlain(r, L)
      PROVE  TypeOK'
  BY <1>2, <1>3, HybridRouterAssumption DEF ReloadPlain, MakeCurrent, TypeOK
<1>4. CASE ReloadFails(r)
  BY <1>4 DEF ReloadFails, TypeOK
<1>5. CASE Install(r)
  <2>1. offered[r] \in Lists
    BY <1>5 DEF Install, TypeOK
  <2> QED
    BY <1>2, <1>5, <2>1, KnownListFacts DEF Install, MakeCurrent, TypeOK
<1>6. CASE ReadCache(r)
  BY <1>6 DEF ReadCache, TypeOK
<1>7. CASE SwapCache(r)
  BY <1>7 DEF SwapCache, TypeOK
<1>8. CASE StopOld(r)
  <2>1. stopped' \subseteq Caches
    BY <1>8 DEF StopOld, TypeOK
  <2> QED
    BY <1>8, <2>1 DEF StopOld, TypeOK
<1> QED
  BY <1>1, <1>3, <1>4, <1>5, <1>6, <1>7, <1>8 DEF ReloadIntents

LEMMA TypeNext == TypeOK /\ [Next]_vars => TypeOK'
<1> SUFFICES ASSUME TypeOK, [Next]_vars PROVE TypeOK'
  OBVIOUS
<1>1. CASE WarmUp
  <2>1. intents' \in KnownLists
    BY <1>1, KnownListFacts DEF WarmUp
  <2>2. ready' \in BOOLEAN
    BY <1>1 DEF WarmUp
  <2> QED
    BY <1>1, <2>1, <2>2 DEF WarmUp, TypeOK, cacheVars, clientVars, reloadVars
<1>2. ASSUME NEW ca \in Caches, CacheStep(ca)
      PROVE  TypeOK'
  BY <1>2 DEF CacheStep, Expire, EvictExpired, TypeOK, listVars, clientVars, reloadVars
<1>3. CASE UNCHANGED vars
  BY <1>3 DEF vars, TypeOK, listVars, cacheVars, clientVars, reloadVars
<1> QED
  BY <1>1, <1>2, <1>3, TypeStart, TypeSemantic, TypeClassifier, TypeReload DEF Next

\* Every variable keeps its type, and a reload never swaps or stops a cache
\* that it has not read.
THEOREM TypeCorrect == Spec => []TypeOK
BY TypeInit, TypeNext, PTL DEF Spec

----------------------------------------------------------------------------
\* The cache in use

\* What a reload is about to stop is not in use any more.
CacheInv ==
  /\ CacheInUseRuns
  /\ \A r \in Reloaders : rstage[r] = "stop" => old[r] # cache

LEMMA CacheNext == TypeOK /\ CacheInv /\ [Next]_vars => CacheInv'
<1> SUFFICES ASSUME TypeOK, CacheInv, [Next]_vars PROVE CacheInv'
  OBVIOUS
<1> USE DEF CacheInv, CacheInUseRuns
<1>1. UNCHANGED <<cache, stopped, rstage, old>> => CacheInv'
  OBVIOUS
<1>2. CASE WarmUp
  BY <1>1, <1>2 DEF WarmUp, cacheVars, reloadVars
<1>3. ASSUME NEW c \in Clients, Start(c)
      PROVE  CacheInv'
  BY <1>1, <1>3 DEF Start, MatchEmpty, ClassifyEmpty, MatchKeyword, MatchOnward,
       StartClassify, Begin, cacheVars, reloadVars
<1>4. ASSUME NEW c \in Clients, SemanticStep(c)
      PROVE  CacheInv'
  BY <1>1, <1>4 DEF SemanticStep, Continue, Look, CacheHit, CacheMiss, CacheExpired,
       DropExpired, Embed, EmbedFails, Rank, RankNothing, cacheVars, reloadVars
<1>5. ASSUME NEW c \in Clients, ClassifierStep(c)
      PROVE  CacheInv'
  BY <1>1, <1>5 DEF ClassifierStep, Continue, SkipClassifier, AskClassifier, Classified,
       NotClassified, cacheVars, reloadVars
<1>6. ASSUME NEW r \in Reloaders, ReloadIntents(r)
      PROVE  CacheInv'
  <2>1. CASE \E L \in Lists : StartReload(r, L) \/ ReloadPlain(r, L)
    BY <2>1 DEF StartReload, ReloadPlain, MakeCurrent, cacheVars, TypeOK
  <2>2. CASE ReloadFails(r) \/ Install(r) \/ ReadCache(r)
    BY <2>2 DEF ReloadFails, Install, ReadCache, MakeCurrent, cacheVars, TypeOK
  <2>3. CASE SwapCache(r)
    BY <2>3 DEF SwapCache, Fresh, TypeOK
  <2>4. CASE StopOld(r)
    BY <2>4 DEF StopOld, TypeOK
  <2> QED
    BY <1>6, <2>1, <2>2, <2>3, <2>4 DEF ReloadIntents
<1>7. ASSUME NEW ca \in Caches, CacheStep(ca)
      PROVE  CacheInv'
  BY <1>1, <1>7 DEF CacheStep, Expire, EvictExpired, reloadVars
<1>8. CASE UNCHANGED vars
  BY <1>1, <1>8 DEF vars, cacheVars, reloadVars
<1> QED
  BY <1>2, <1>3, <1>4, <1>5, <1>6, <1>7, <1>8 DEF Next

\* However many reloads race for the exchange of the caches, none stops the
\* one that ends up in use.
THEOREM CacheRuns == Spec => []CacheInUseRuns
<1>1. Init => CacheInv
  BY DEF Init, CacheInv, CacheInUseRuns
<1> QED
  BY <1>1, TypeInit, TypeNext, CacheNext, PTL DEF Spec, CacheInv

----------------------------------------------------------------------------
\* The lists

Part(L, M) == \A i \in DOMAIN L : i \in DOMAIN M /\ L[i] = M[i]

\* What is known of a client c: a call that goes on has seen the list in force
\* and all that it has read; Match asks for an embedding only if there were
\* intents to compare it with; and its answer is what the properties say.
ClientInv(c) ==
  /\ c \in Running => current \in seen[c] /\ \E M \in seen[c] : Part(snap[c], M)
  /\ c \notin Running => snap[c] = NoIntents
  /\ op[c] = "match" /\ stage[c] \in {"get", "drop", "embed", "rank"}
     => DOMAIN intents # {} \/ NoIntents \in seen[c]
  /\ /\ op[c] = "match" /\ stage[c] \in {"done", "panicked"}
     /\ Enabled # {} /\ NoIntents \notin seen[c]
     => stage[c] = "done" /\ answer[c].provider \in Enabled
  /\ /\ stage[c] = "done" /\ answer[c].layer \in {"embedding", "classifier"}
     /\ answer[c].provider # NoProvider
     => \E L \in seen[c] : \E i \in DOMAIN L : L[i] = answer[c].provider

ListInv ==
  /\ classifyIntents = current
  /\ Part(intents, current)
  /\ \A c \in Clients : ClientInv(c)

LEMMA NoIntentsFacts ==
  /\ DOMAIN NoIntents = {}
  /\ \A M : Part(NoIntents, M)
  /\ \A L \in Lists : DOMAIN L = {} => L = NoIntents
<1>1. DOMAIN NoIntents = {}
  BY DEF NoIntents
<1>2. ASSUME NEW L \in Lists, DOMAIN L = {}
      PROVE  L = NoIntents
  <2>1. L = [i \in DOMAIN L |-> L[i]]
    BY HybridRouterAssumption DEF IsList
  <2> QED
    BY <1>2, <2>1 DEF NoIntents
<1> QED
  BY <1>1, <1>2 DEF Part

LEMMA ListInit == Init => ListInv
<1> SUFFICES ASSUME Init PROVE ListInv
  OBVIOUS
<1> QED
  BY NoIntentsFacts DEF Init, ListInv, ClientInv, Running

\* A client that takes no part in a step, while no list is replaced.
LEMMA ClientFrame ==
  ASSUME NEW c \in Clients, ClientInv(c), UNCHANGED listVars,
         stage'[c] = stage[c], op'[c] = op[c], snap'[c] = snap[c],
         seen'[c] = seen[c], answer'[c] = answer[c]
  PROVE  ClientInv(c)'
BY DEF ClientInv, Running, listVars

LEMMA AnswerInv ==
  ASSUME TypeOK, NEW c \in Clients, NEW layer, NEW prov, Answer(c, layer, prov),
         op'[c] = "match" /\ Enabled # {} => prov \in Enabled,
         layer \in {"embedding", "classifier"} /\ prov # NoProvider
           => \E L \in seen'[c] : \E i \in DOMAIN L : L[i] = prov
  PROVE  ClientInv(c)'
<1>1. stage'[c] = "done" /\ snap'[c] = NoIntents
  BY DEF Answer, Goto, TypeOK
<1>2. answer'[c].layer = layer /\ answer'[c].provider = prov
  BY DEF Answer, TypeOK
<1> QED
  BY <1>1, <1>2 DEF ClientInv, Running

LEMMA UnmatchedInv ==
  ASSUME TypeOK, NEW c \in Clients, Unmatched(c), op' = op
  PROVE  ClientInv(c)'
BY AnswerInv, ProviderFacts DEF Unmatched

LEMMA ChooseInv ==
  ASSUME TypeOK, NEW c \in Clients, NEW layer, NEW L, NEW i \in DOMAIN L, NEW next,
         Choose(c, layer, L, i, next), next => ClientInv(c)',
         op' = op, seen' = seen, \E M \in seen[c] : Part(L, M)
  PROVE  ClientInv(c)'
<1>1. CASE Usable(L, i) /\ Answer(c, layer, L[i])
  BY <1>1, AnswerInv DEF Usable, Part
<1>2. CASE ~Usable(L, i) /\ op[c] = "classify" /\ Answer(c, layer, NoProvider)
  BY <1>2, AnswerInv
<1> QED
  BY <1>1, <1>2 DEF Choose

LEMMA ToClassifierInv ==
  ASSUME TypeOK, NEW c \in Running, ClientInv(c), ToClassifier(c),
         UNCHANGED <<op, seen, listVars>>
  PROVE  ClientInv(c)'
BY DEF ToClassifier, Goto, ClientInv, Running, TypeOK, listVars

----------------------------------------------------------------------------
\* The steps of a call

LEMMA StartInv ==
  ASSUME TypeOK, ListInv, NEW c \in Clients, Start(c)
  PROVE  ListInv'
<1>1. /\ UNCHANGED listVars
      /\ seen'[c] = {current}
      /\ snap[c] = NoIntents
      /\ \A d \in Clients \ {c} :
            stage'[d] = stage[d] /\ op'[d] = op[d] /\ snap'[d] = snap[d]
            /\ seen'[d] = seen[d] /\ answer'[d] = answer[d]
  BY DEF Start, MatchEmpty, ClassifyEmpty, MatchKeyword, MatchOnward, StartClassify,
         Begin, Answer, Goto, TypeOK, ListInv, ClientInv
<1>2. ClientInv(c)'
  <2>1. CASE MatchEmpty(c)
    BY <2>1, AnswerInv, ProviderFacts DEF MatchEmpty
  <2>2. CASE ClassifyEmpty(c)
    <3>1. op'[c] = "classify"
      BY <2>2 DEF ClassifyEmpty, Begin, TypeOK
    <3> QED
      BY <2>2, <3>1, AnswerInv DEF ClassifyEmpty
  <2>3. ASSUME NEW p \in Prompts, MatchKeyword(c, p)
        PROVE  ClientInv(c)'
    BY <2>3, AnswerInv, ProviderFacts DEF MatchKeyword
  <2>4. ASSUME NEW p \in Prompts, MatchOnward(c, p) \/ StartClassify(c, p)
        PROVE  ClientInv(c)'
    <3>1. stage'[c] = "look" /\ snap'[c] = NoIntents
      BY <1>1, <2>4 DEF MatchOnward, StartClassify, Goto, TypeOK
    <3> QED
      BY <1>1, <3>1, NoIntentsFacts DEF ClientInv, Running, listVars
  <2> QED
    BY <2>1, <2>2, <2>3, <2>4 DEF Start
<1>3. \A d \in Clients \ {c} : ClientInv(d)'
  BY <1>1, ClientFrame DEF ListInv
<1> QED
  BY <1>1, <1>2, <1>3 DEF ListInv, listVars, Part

\* A step of a call that goes on concerns its own client only.
LEMMA StepFrame ==
  ASSUME TypeOK, ListInv, NEW c \in Clients, SemanticStep(c) \/ ClassifierStep(c)
  PROVE  /\ c \in Running
         /\ UNCHANGED <<op, seen, listVars>>
         /\ ClientInv(c)' => ListInv'
<1>1. /\ c \in Running
      /\ UNCHANGED <<op, seen, listVars>>
  BY DEF SemanticStep, ClassifierStep, Continue, Look, CacheHit, CacheMiss, CacheExpired,
         DropExpired, Embed, EmbedFails, Rank, RankNothing, SkipClassifier, AskClassifier,
         Classified, NotClassified, Running
<1>2. \A d \in Clients \ {c} :
        stage'[d] = stage[d] /\ snap'[d] = snap[d] /\ answer'[d] = answer[d]
  <2>1. CASE Look(c) \/ CacheHit(c) \/ CacheMiss(c) \/ CacheExpired(c) \/ DropExpired(c)
             \/ Embed(c) \/ EmbedFails(c) \/ RankNothing(c) \/ AskClassifier(c)
    BY <2>1 DEF Look, CacheHit, CacheMiss, CacheExpired, DropExpired, Embed, EmbedFails,
         RankNothing, AskClassifier, Goto, TypeOK
  <2>2. CASE Rank(c) \/ SkipClassifier(c) \/ Classified(c) \/ NotClassified(c)
    BY <2>2 DEF Rank, SkipClassifier, Classified, NotClassified, Choose, Unmatched,
         ToClassifier, Answer, Goto, TypeOK
  <2> QED
    BY <2>1, <2>2 DEF SemanticStep, ClassifierStep
<1>3. \A d \in Clients \ {c} : ClientInv(d)'
  BY <1>1, <1>2, ClientFrame DEF ListInv
<1> QED
  BY <1>1, <1>3 DEF ListInv, listVars, Part

LEMMA SemanticInv ==
  ASSUME TypeOK, ListInv, NEW c \in Clients, SemanticStep(c)
  PROVE  ListInv'
<1>0. /\ c \in Running
      /\ UNCHANGED <<op, seen, listVars>>
      /\ ClientInv(c)
      /\ Part(intents, current)
  BY StepFrame DEF ListInv
<1> SUFFICES ClientInv(c)'
  BY StepFrame
<1>1. CASE Look(c)
  <2>1. /\ stage'[c] \in {"get", "classify"}
        /\ stage'[c] = "get" => DOMAIN intents # {}
        /\ snap'[c] \in {intents, NoIntents}
    BY <1>1 DEF Look, Goto, TypeOK
  <2> QED
    BY <1>0, <2>1, NoIntentsFacts DEF ClientInv, Running, listVars
<1>2. CASE CacheHit(c) \/ CacheMiss(c) \/ CacheExpired(c) \/ DropExpired(c)
           \/ Embed(c) \/ EmbedFails(c)
  <2>1. /\ stage[c] \in {"get", "drop", "embed"}
        /\ stage'[c] \in {"drop", "embed", "rank", "classify"}
        /\ snap'[c] = snap[c]
    BY <1>2 DEF CacheHit, CacheMiss, CacheExpired, DropExpired, Embed, EmbedFails,
         Continue, Goto, TypeOK
  <2> QED
    BY <1>0, <2>1 DEF ClientInv, Running, listVars
<1>3. CASE Rank(c)
  <2>1. \E M \in seen[c] : Part(Ranked(c), M)
    BY <1>0 DEF Ranked, ClientInv
  <2>2. ToClassifier(c) => ClientInv(c)'
    BY <1>0, ToClassifierInv
  <2> QED
    BY <1>0, <1>3, <2>1, <2>2, ChooseInv DEF Rank, Best
<1>4. CASE RankNothing(c)
  <2>1. /\ stage'[c] = "panicked" /\ snap'[c] = NoIntents
        /\ NoIntents \in seen[c]
    BY <1>0, <1>4 DEF RankNothing, Continue, Goto, TypeOK, ClientInv
  <2> QED
    BY <1>0, <2>1 DEF ClientInv, Running
<1> QED
  BY <1>1, <1>2, <1>3, <1>4 DEF SemanticStep

LEMMA ClassifierInv ==
  ASSUME TypeOK, ListInv, NEW c \in Clients, ClassifierStep(c)
  PROVE  ListInv'
<1>0. /\ c \in Running
      /\ UNCHANGED <<op, seen, listVars>>
      /\ ClientInv(c)
      /\ classifyIntents = current
  BY StepFrame DEF ListInv
<1> SUFFICES ClientInv(c)'
  BY StepFrame
<1>1. CASE SkipClassifier(c) \/ NotClassified(c)
  BY <1>0, <1>1, UnmatchedInv DEF SkipClassifier, NotClassified
<1>2. CASE AskClassifier(c)
  <2>1. stage'[c] = "asked" /\ snap'[c] = current
    BY <1>0, <1>2 DEF AskClassifier, Goto, TypeOK
  <2> QED
    BY <1>0, <2>1 DEF ClientInv, Running, listVars, Part
<1>3. CASE Classified(c)
  <2>1. \E M \in seen[c] : Part(snap[c], M)
    BY <1>0 DEF ClientInv
  <2>2. Unmatched(c) => ClientInv(c)'
    BY <1>0, UnmatchedInv
  <2> QED
    BY <1>0, <1>3, <2>1, <2>2, ChooseInv DEF Classified
<1> QED
  BY <1>1, <1>2, <1>3 DEF ClassifierStep

----------------------------------------------------------------------------
\* The other steps

\* A new list is current, and every call that goes on has seen it.
LEMMA MakeCurrentInv ==
  ASSUME TypeOK, ListInv, NEW L \in Lists, MakeCurrent(L), classifyIntents' = L,
         intents' = L \/ (intents' = intents /\ "embedding" \notin layers),
         "embedding" \notin layers => DOMAIN intents = {}
  PROVE  ListInv'
<1>1. \A c \in Clients :
        seen'[c] = seen[c] \union (IF c \in Running THEN {L} ELSE {})
  BY DEF MakeCurrent
<1>2. /\ current' = L
      /\ UNCHANGED <<stage, op, snap, answer>>
  BY DEF MakeCurrent
<1>3. Part(intents', L)
  BY DEF Part
<1>4. ASSUME NEW c \in Clients
      PROVE  ClientInv(c)'
  <2>1. ClientInv(c)
    BY DEF ListInv
  <2>2. CASE c \notin Running
    BY <1>1, <1>2, <2>1, <2>2 DEF ClientInv, Running
  <2>3. CASE c \in Running
    <3>1. L \in seen'[c] /\ seen[c] \subseteq seen'[c]
      BY <1>1, <2>3
    <3>2. DOMAIN intents' # {} \/ intents' = intents \/ NoIntents \in seen'[c]
      BY <3>1, NoIntentsFacts
    <3> QED
      BY <1>2, <2>1, <2>3, <3>1, <3>2 DEF ClientInv, Running
  <2> QED
    BY <2>2, <2>3
<1> QED
  BY <1>2, <1>3, <1>4 DEF ListInv

\* Without an embedding service no intent gets an embedding.
PlainInv ==
  /\ "embedding" \notin layers => DOMAIN intents = {}
  /\ \A r \in Reloaders : rstage[r] = "embedding" => "embedding" \in layers

LEMMA PlainNext == TypeOK /\ PlainInv /\ [Next]_vars => PlainInv'
<1> SUFFICES ASSUME TypeOK, PlainInv, [Next]_vars PROVE PlainInv'
  OBVIOUS
<1> USE DEF PlainInv
<1>1. UNCHANGED <<layers, intents, rstage>> => PlainInv'
  OBVIOUS
<1>2. CASE WarmUp
  BY <1>2, NoIntentsFacts DEF WarmUp, reloadVars
<1>3. ASSUME NEW c \in Clients, Start(c)
      PROVE  PlainInv'
  BY <1>1, <1>3 DEF Start, MatchEmpty, ClassifyEmpty, MatchKeyword, MatchOnward,
       StartClassify, Begin, listVars, reloadVars
<1>4. ASSUME NEW c \in Clients, SemanticStep(c) \/ ClassifierStep(c)
      PROVE  PlainInv'
  BY <1>1, <1>4 DEF SemanticStep, ClassifierStep, Continue, Look, CacheHit, CacheMiss,
       CacheExpired, DropExpired, Embed, EmbedFails, Rank, RankNothing, SkipClassifier,
       AskClassifier, Classified, NotClassified, listVars, reloadVars
<1>5. ASSUME NEW r \in Reloaders, ReloadIntents(r)
      PROVE  PlainInv'
  <2>1. CASE \E L \in Lists : StartReload(r, L) \/ ReloadPlain(r, L)
    BY <2>1 DEF StartReload, ReloadPlain, MakeCurrent, listVars, TypeOK
  <2>2. CASE Install(r)
    BY <2>2 DEF Install, MakeCurrent, TypeOK
  <2>3. CASE ReloadFails(r) \/ ReadCache(r) \/ SwapCache(r) \/ StopOld(r)
    BY <2>3 DEF ReloadFails, ReadCache, SwapCache, StopOld, listVars, TypeOK
  <2> QED
    BY <1>5, <2>1, <2>2, <2>3 DEF ReloadIntents
<1>6. ASSUME NEW ca \in Caches, CacheStep(ca)
      PROVE  PlainInv'
  BY <1>1, <1>6 DEF CacheStep, Expire, EvictExpired, listVars, reloadVars
<1>7. CASE UNCHANGED vars
  BY <1>1, <1>7 DEF vars, listVars, reloadVars
<1> QED
  BY <1>2, <1>3, <1>4, <1>5, <1>6, <1>7 DEF Next

\* No call goes on before Init has returned, nor has a list been replaced.
BeforeReady ==
  ~ready => /\ Running = {} /\ current = InitialList
            /\ \A r \in Reloaders : rstage[r] = "idle"

LEMMA BeforeReadyNext == TypeOK /\ BeforeReady /\ [Next]_vars => BeforeReady'
<1> SUFFICES ASSUME TypeOK, BeforeReady, [Next]_vars PROVE BeforeReady'
  OBVIOUS
<1> USE DEF BeforeReady
<1>1. ready' => BeforeReady'
  OBVIOUS
<1>2. UNCHANGED <<ready, stage, current, rstage>> => BeforeReady'
  BY DEF Running
<1>3. CASE WarmUp
  BY <1>1, <1>3 DEF WarmUp
<1>4. ASSUME NEW c \in Clients, Start(c)
      PROVE  BeforeReady'
  BY <1>1, <1>4 DEF Start, MatchEmpty, ClassifyEmpty, MatchKeyword, MatchOnward,
       StartClassify, Begin
<1>5. ASSUME NEW c \in Clients, SemanticStep(c) \/ ClassifierStep(c)
      PROVE  BeforeReady'
  <2>1. c \in Running /\ ready' = ready
    BY <1>5 DEF SemanticStep, ClassifierStep, Continue, Look, CacheHit, CacheMiss,
         CacheExpired, DropExpired, Embed, EmbedFails, Rank, RankNothing, SkipClassifier,
         AskClassifier, Classified, NotClassified, Running
  <2> QED
    BY <1>1, <2>1
<1>6. ASSUME NEW r \in Reloaders, ReloadIntents(r)
      PROVE  BeforeReady'
  <2>1. CASE \E L \in Lists : StartReload(r, L) \/ ReloadPlain(r, L)
    BY <1>1, <2>1 DEF StartReload, ReloadPlain, MakeCurrent
  <2>2. CASE ReloadFails(r) \/ Install(r) \/ ReadCache(r) \/ SwapCache(r) \/ StopOld(r)
    BY <1>1, <2>2 DEF ReloadFails, Install, ReadCache, SwapCache, StopOld, MakeCurrent
  <2> QED
    BY <1>6, <2>1, <2>2 DEF ReloadIntents
<1>7. ASSUME NEW ca \in Caches, CacheStep(ca)
      PROVE  BeforeReady'
  BY <1>2, <1>7 DEF CacheStep, Expire, EvictExpired, listVars, clientVars, reloadVars
<1>8. CASE UNCHANGED vars
  BY <1>2, <1>8 DEF vars, listVars, clientVars, reloadVars
<1> QED
  BY <1>3, <1>4, <1>5, <1>6, <1>7, <1>8 DEF Next

LEMMA ReloadInv ==
  ASSUME TypeOK, PlainInv, ListInv, NEW r \in Reloaders, ReloadIntents(r)
  PROVE  ListInv'
<1>1. UNCHANGED <<listVars, clientVars>> => ListInv'
  BY ClientFrame DEF ListInv, listVars, clientVars, Part
<1>2. ASSUME NEW L \in Lists, StartReload(r, L)
      PROVE  ListInv'
  BY <1>1, <1>2 DEF StartReload
<1>3. ASSUME NEW L \in Lists, ReloadPlain(r, L)
      PROVE  ListInv'
  BY <1>3, MakeCurrentInv DEF ReloadPlain, PlainInv
<1>4. CASE Install(r)
  <2>1. offered[r] \in Lists /\ "embedding" \in layers
    BY <1>4 DEF Install, TypeOK, PlainInv
  <2> QED
    BY <1>4, <2>1, MakeCurrentInv DEF Install
<1>5. CASE ReloadFails(r) \/ ReadCache(r) \/ SwapCache(r) \/ StopOld(r)
  BY <1>1, <1>5 DEF ReloadFails, ReadCache, SwapCache, StopOld
<1> QED
  BY <1>2, <1>3, <1>4, <1>5 DEF ReloadIntents

LEMMA WarmUpInv ==
  ASSUME TypeOK, BeforeReady, ListInv, WarmUp
  PROVE  ListInv'
<1>1. PICK S \in SUBSET DOMAIN InitialList :
        intents' = IF "embedding" \in layers THEN Restricted(InitialList, S) ELSE NoIntents
  BY DEF WarmUp
<1>2. Part(intents', InitialList)
  <2>1. Part(Restricted(InitialList, S), InitialList)
    BY DEF Part, Restricted
  <2> QED
    BY <1>1, <2>1, NoIntentsFacts
<1>3. current = InitialList /\ Running = {}
  BY DEF BeforeReady, WarmUp
<1>4. \A c \in Clients : ClientInv(c)'
  BY <1>3 DEF WarmUp, ListInv, ClientInv, Running, clientVars
<1> QED
  BY <1>2, <1>3, <1>4 DEF ListInv, WarmUp

IInv == TypeOK /\ PlainInv /\ BeforeReady /\ ListInv

LEMMA Inductive == Spec => []IInv
<1>1. Init => IInv
  <2> SUFFICES ASSUME Init PROVE IInv
    OBVIOUS
  <2>1. PlainInv
    BY NoIntentsFacts DEF Init, PlainInv
  <2>2. BeforeReady
    BY DEF Init, BeforeReady, Running
  <2> QED
    BY <2>1, <2>2, TypeInit, ListInit DEF IInv
<1>2. IInv /\ [Next]_vars => ListInv'
  <2> SUFFICES ASSUME IInv, [Next]_vars PROVE ListInv'
    OBVIOUS
  <2> USE DEF IInv
  <2>1. UNCHANGED <<listVars, clientVars>> => ListInv'
    BY ClientFrame DEF ListInv, listVars, clientVars, Part
  <2>2. ASSUME NEW ca \in Caches, CacheStep(ca)
        PROVE  ListInv'
    BY <2>1, <2>2 DEF CacheStep, Expire, EvictExpired
  <2>3. CASE UNCHANGED vars
    BY <2>1, <2>3 DEF vars
  <2> QED
    BY <2>2, <2>3, WarmUpInv, StartInv, SemanticInv, ClassifierInv, ReloadInv DEF Next
<1> QED
  BY <1>1, <1>2, TypeNext, PlainNext, BeforeReadyNext, PTL DEF Spec, IInv

\* Match ends with an enabled provider, unless the list was empty meanwhile.
THEOREM Answered == Spec => []MatchAnswers
<1>1. IInv => MatchAnswers
  BY DEF IInv, ListInv, ClientInv, MatchAnswers
<1> QED
  BY <1>1, Inductive, PTL

\* A prompt goes where a list that was current during the call says.
THEOREM LiveList == Spec => []AnsweredByLiveList
<1>1. IInv => AnsweredByLiveList
  BY DEF IInv, ListInv, ClientInv, AnsweredByLiveList
<1> QED
  BY <1>1, Inductive, PTL

----------------------------------------------------------------------------
\* The size of a cache

SizeInv == \A ca \in Caches : IsFiniteSet(keys[ca]) /\ Cardinality(keys[ca]) <= CacheLimit

\* What Set leaves in a cache has room for one more.
LEMMA KeptFacts ==
  ASSUME NEW ca \in Caches, IsFiniteSet(keys[ca]), Cardinality(keys[ca]) <= CacheLimit,
         NEW K \in Kept(ca)
  PROVE  IsFiniteSet(K) /\ Cardinality(K) < CacheLimit
<1> DEFINE size == Cardinality(keys[ca])
<1>0. CacheLimit \in Nat \ {0}
  BY HybridRouterAssumption
<1>1. size \in Nat
  BY FS_CardinalityType
<1>2. K \subseteq keys[ca] /\ IsFiniteSet(K)
  BY FS_Subset DEF Kept
<1>3. CASE size < CacheLimit
  <2>1. K = keys[ca]
    BY <1>0, <1>1, <1>3 DEF Kept
  <2> QED
    BY <1>2, <1>3, <2>1
<1>4. CASE size >= CacheLimit
  <2>1. Cardinality(keys[ca] \ K) = IF size < 20 THEN 1 ELSE size \div 10
    BY <1>4 DEF Kept
  <2>2. (IF size < 20 THEN 1 ELSE size \div 10) > 0
    BY <1>1
  <2>3. keys[ca] \cap K = K
    BY <1>2
  <2>4. Cardinality(keys[ca] \ K) = size - Cardinality(K)
    BY <2>3, FS_Difference
  <2>5. Cardinality(K) \in Nat
    BY <1>2, FS_CardinalityType
  <2> QED
    BY <1>0, <1>1, <1>2, <2>1, <2>2, <2>4, <2>5
<1> QED
  BY <1>0, <1>1, <1>3, <1>4

LEMMA SizeNext == TypeOK /\ SizeInv /\ [Next]_vars => SizeInv'
<1> SUFFICES ASSUME TypeOK, SizeInv, [Next]_vars PROVE SizeInv'
  OBVIOUS
<1>0. CacheLimit \in Nat \ {0}
  BY HybridRouterAssumption
<1>1. ASSUME \A ca \in Caches : keys'[ca] \subseteq keys[ca]
      PROVE  SizeInv'
  <2> SUFFICES ASSUME NEW ca \in Caches
               PROVE  IsFiniteSet(keys'[ca]) /\ Cardinality(keys'[ca]) <= CacheLimit
    BY DEF SizeInv
  <2>1. /\ IsFiniteSet(keys'[ca])
        /\ Cardinality(keys'[ca]) <= Cardinality(keys[ca])
        /\ Cardinality(keys[ca]) \in Nat
        /\ Cardinality(keys'[ca]) \in Nat
    BY <1>1, FS_Subset, FS_CardinalityType DEF SizeInv
  <2> QED
    BY <1>0, <2>1 DEF SizeInv
<1>2. keys' = keys => SizeInv'
  BY DEF SizeInv
<1>3. ASSUME NEW c \in Clients, Embed(c)
      PROVE  SizeInv'
  <2>1. PICK K \in Kept(cache) : keys' = [keys EXCEPT ![cache] = K \union {prompt[c]}]
    BY <1>3 DEF Embed
  <2>2. cache \in Caches /\ IsFiniteSet(keys[cache]) /\ Cardinality(keys[cache]) <= CacheLimit
    BY DEF TypeOK, SizeInv
  <2>3. IsFiniteSet(K) /\ Cardinality(K) < CacheLimit
    BY <2>2, KeptFacts
  <2>4. /\ IsFiniteSet(K \union {prompt[c]})
        /\ Cardinality(K) \in Nat
        /\ Cardinality(K \union {prompt[c]}) \in {Cardinality(K), Cardinality(K) + 1}
    BY <2>3, FS_AddElement, FS_CardinalityType
  <2>5. Cardinality(K \union {prompt[c]}) <= CacheLimit
    BY <1>0, <2>3, <2>4
  <2> QED
    BY <2>1, <2>2, <2>4, <2>5 DEF SizeInv, TypeOK
<1>4. ASSUME NEW c \in Clients, Start(c) \/ ClassifierStep(c)
      PROVE  keys' = keys
  BY <1>4 DEF Start, MatchEmpty, ClassifyEmpty, MatchKeyword, MatchOnward, StartClassify,
       Begin, ClassifierStep, SkipClassifier, AskClassifier, Classified, NotClassified,
       cacheVars
<1>5. ASSUME NEW c \in Clients, SemanticStep(c), ~Embed(c)
      PROVE  \A ca \in Caches : keys'[ca] \subseteq keys[ca]
  <2>1. CASE DropExpired(c)
    BY <2>1 DEF DropExpired, TypeOK
  <2>2. CASE ~DropExpired(c)
    BY <1>5, <2>2 DEF SemanticStep, Look, CacheHit, CacheMiss, CacheExpired, EmbedFails,
         Rank, RankNothing, cacheVars
  <2> QED
    BY <2>1, <2>2
<1>6. ASSUME NEW r \in Reloaders, ReloadIntents(r)
      PROVE  \A ca \in Caches : keys'[ca] \subseteq keys[ca]
  <2>1. CASE SwapCache(r)
    BY <2>1 DEF SwapCache, TypeOK
  <2>2. CASE ~SwapCache(r)
    BY <1>6, <2>2 DEF ReloadIntents, StartReload, ReloadPlain, ReloadFails, Install,
         ReadCache, StopOld, MakeCurrent, cacheVars
  <2> QED
    BY <2>1, <2>2
<1>7. ASSUME NEW ca \in Caches, CacheStep(ca)
      PROVE  \A k \in Caches : keys'[k] \subseteq keys[k]
  BY <1>7 DEF CacheStep, Expire, EvictExpired, TypeOK
<1>8. CASE WarmUp \/ UNCHANGED vars
  BY <1>2, <1>8 DEF WarmUp, vars, cacheVars
<1> QED
  BY <1>1, <1>2, <1>3, <1>4, <1>5, <1>6, <1>7, <1>8 DEF Next

\* No cache grows beyond its limit.
THEOREM CacheSize == Spec => []CacheBound
<1>1. Init => SizeInv
  BY FS_EmptySet, HybridRouterAssumption DEF Init, SizeInv
<1>2. SizeInv => CacheBound
  BY DEF SizeInv, CacheBound
<1> QED
  BY <1>1, <1>2, TypeInit, TypeNext, SizeNext, PTL DEF Spec

\* Both facts about the embedding cache, for every limit and any reloads.
THEOREM CacheIsSound == Spec => []CacheSound
BY CacheRuns, CacheSize, PTL DEF CacheSound
=============================================================================
