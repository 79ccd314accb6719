---------------------------- MODULE HybridRouter ----------------------------
(***************************************************************************)
(* The three-layer router (routing/hybrid_engine.go): Match tries the      *)
(* keyword rules (matcher.go), the intents' embeddings, the classifier     *)
(* (classifier.go) and then the default provider.  Classify does it for    *)
(* the dashboard.  Both read the lists of intents under intentMu, several  *)
(* times, and wait for an embedding or an answer in between; meanwhile     *)
(* ReloadIntents replaces the lists and the EmbeddingCache (embedding.go). *)
(*                                                                         *)
(* A list of intents is a function from intent codes to the names of their *)
(* providers.  A prompt stands for the prompt and the model asked for.     *)
(* The hit counters are left out: they only count the answers by layer.    *)
(***************************************************************************)
EXTENDS FiniteSets, Integers, Sequences

CONSTANTS
  Clients,          \* goroutines that call Match or Classify
  Reloaders,        \* goroutines that call ReloadIntents
  Prompts, EmptyPrompt,
  Codes,            \* intent codes
  Providers,        \* names in the map of providers
  Enabled,          \* those with Enabled set
  NoProvider,       \* nil
  DefaultProvider,
  Lists,            \* lists ReloadIntents may be called with
  InitialList,      \* HybridConfig.Intents
  RuleProviders,    \* the providers of the rules that match a prompt, by priority
  NamedProviders,   \* the providers whose name is in the model asked for
  Score,            \* the similarity of a prompt and an intent
  Threshold,        \* simThreshold
  Caches, NoCache,  \* EmbeddingCache objects
  CacheLimit,       \* the 10000 entries of Set
  Layers,           \* the sets of optional layers that may be configured
  MaxReloads        \* bound: calls of ReloadIntents

IsList(L) == DOMAIN L \subseteq Codes /\ L = [i \in DOMAIN L |-> L[i]]
Restricted(L, S) == [i \in S |-> L[i]]

ASSUME HybridRouterAssumption ==
  /\ EmptyPrompt \in Prompts
  /\ Enabled \subseteq Providers
  /\ NoProvider \notin Providers
  /\ InitialList \in Lists
  /\ \A L \in Lists : IsList(L)
  /\ RuleProviders \in [Prompts -> Seq(Providers)]
  /\ NamedProviders \in [Prompts -> SUBSET Providers]
  /\ Score \in [Prompts -> [Codes -> Int]]
  /\ Threshold \in Int
  /\ NoCache \notin Caches
  /\ CacheLimit \in Nat \ {0}
  /\ Layers \subseteq SUBSET {"embedding", "classifier"}
  /\ MaxReloads \in Nat

VARIABLES
  layers,           \* which of embeddingSvc and classifier are not nil
  ready,            \* Init has returned
  intents,          \* the list with embeddings
  classifyIntents,  \* the list for the classifier
  cache,            \* HybridRouter.cache
  keys,             \* the prompts in a cache's entries
  expired,          \* those of them past their expiresAt
  stopped,          \* caches whose stop channel is closed
  stage,            \* what a client's call does next
  op,               \* which call it is
  prompt,           \* its prompt
  snap,             \* the list it has read and goes on to use
  held,             \* the cache in which it has found an expired entry
  answer,           \* what it returned: the layer that decided, the provider
  rstage,           \* what a call of ReloadIntents does next
  offered,          \* the list it was called with
  old,              \* its oldCache
  reloads,          \* calls of ReloadIntents so far
  current,          \* history: the list last installed
  seen              \* history: the lists that were current during a call

listVars == <<intents, classifyIntents, current>>
cacheVars == <<cache, keys, expired, stopped>>
clientVars == <<stage, op, prompt, snap, held, answer, seen>>
reloadVars == <<rstage, offered, old, reloads>>
vars == <<layers, ready, listVars, cacheVars, clientVars, reloadVars>>

NoIntents == [i \in {} |-> NoProvider]
NoAnswer == [layer |-> "none", provider |-> NoProvider]

\* The clients whose call is going on.
Running == {c \in Clients : stage[c] \notin {"idle", "done", "panicked"}}

----------------------------------------------------------------------------
\* What the layers compute

\* RuleEngine.Match: the first rule with a provider that is enabled, else any
\* enabled provider the model asked for names.
KeywordProviders(p) ==
  LET usable == {n \in DOMAIN RuleProviders[p] : RuleProviders[p][n] \in Enabled}
  IN  IF usable = {} THEN NamedProviders[p] \cap Enabled
      ELSE {RuleProviders[p][n] : n \in {m \in usable : \A k \in usable : m <= k}}

\* (Variant with a fault: a name that is not registered is let through.)
UsableUnchecked(L, i) == L[i] \in Enabled \/ L[i] \notin Providers
Usable(L, i) == L[i] \in Enabled

\* The intents that come first when a list is sorted by similarity.
Best(p, L) == {i \in DOMAIN L : \A j \in DOMAIN L : Score[p][j] <= Score[p][i]}

\* (Variant with a fault: the default provider is not looked up.)
FallbackUnchecked == {DefaultProvider}
Fallback ==
  CASE DefaultProvider \in Enabled -> {DefaultProvider}
    [] DefaultProvider \notin Enabled /\ Enabled # {} -> Enabled
    [] OTHER -> {NoProvider}

----------------------------------------------------------------------------
\* Steps of a call

Goto(c, s) == stage' = [stage EXCEPT ![c] = s]

Answer(c, layer, prov) ==
  /\ Goto(c, "done")
  /\ answer' = [answer EXCEPT ![c] = [layer |-> layer, provider |-> prov]]
  /\ snap' = [snap EXCEPT ![c] = NoIntents]

\* No layer has decided: Match falls back, Classify returns no match.
Unmatched(c) ==
  \/ /\ op[c] = "match"
     /\ \E prov \in Fallback : Answer(c, "fallback", prov)
  \/ op[c] = "classify" /\ Answer(c, "none", NoProvider)

\* Intent i of list L has been chosen.  If its provider is not available Match
\* goes on by way of next, Classify reports the intent without a provider.
Choose(c, layer, L, i, next) ==
  \/ Usable(L, i) /\ Answer(c, layer, L[i])
  \/ ~Usable(L, i) /\ op[c] = "match" /\ next
  \/ ~Usable(L, i) /\ op[c] = "classify" /\ Answer(c, layer, NoProvider)

ToClassifier(c) == Goto(c, "classify") /\ UNCHANGED <<answer, snap>>

Begin(c, p, o) ==
  /\ ready
  /\ c \notin Running
  /\ op' = [op EXCEPT ![c] = o]
  /\ prompt' = [prompt EXCEPT ![c] = p]
  /\ seen' = [seen EXCEPT ![c] = {current}]
  /\ UNCHANGED <<layers, ready, listVars, cacheVars, held, reloadVars>>

\* Match, as far as the keyword rules.
MatchEmpty(c) ==
  /\ Begin(c, EmptyPrompt, "match")
  /\ \E prov \in Fallback : Answer(c, "fallback", prov)

MatchKeyword(c, p) ==
  /\ p # EmptyPrompt
  /\ Begin(c, p, "match")
  /\ \E prov \in KeywordProviders(p) : Answer(c, "keyword", prov)

MatchOnward(c, p) ==
  /\ p # EmptyPrompt
  /\ KeywordProviders(p) = {}
  /\ Begin(c, p, "match")
  /\ Goto(c, "look")
  /\ answer' = [answer EXCEPT ![c] = NoAnswer]
  /\ UNCHANGED snap

\* Classify, which skips the keyword rules.
ClassifyEmpty(c) ==
  /\ Begin(c, EmptyPrompt, "classify")
  /\ Answer(c, "none", NoProvider)

StartClassify(c, p) ==
  /\ p # EmptyPrompt
  /\ Begin(c, p, "classify")
  /\ Goto(c, "look")
  /\ answer' = [answer EXCEPT ![c] = NoAnswer]
  /\ UNCHANGED snap

Continue(c, s) ==
  /\ stage[c] = s
  /\ UNCHANGED <<layers, ready, listVars, op, prompt, seen, reloadVars>>

\* The first look at intents.  Match keeps only whether there are any.
Look(c) ==
  /\ Continue(c, "look")
  /\ LET semantic == "embedding" \in layers /\ DOMAIN intents # {}
     IN  Goto(c, IF semantic THEN "get" ELSE "classify")
  /\ snap' = [snap EXCEPT ![c] = IF op[c] = "classify" THEN intents ELSE NoIntents]
  /\ UNCHANGED <<held, answer, cacheVars>>

CacheHit(c) ==
  /\ Continue(c, "get")
  /\ prompt[c] \in keys[cache] \ expired[cache]
  /\ Goto(c, "rank")
  /\ UNCHANGED <<snap, held, answer, cacheVars>>

CacheMiss(c) ==
  /\ Continue(c, "get")
  /\ prompt[c] \notin keys[cache]
  /\ Goto(c, "embed")
  /\ UNCHANGED <<snap, held, answer, cacheVars>>

\* EmbeddingCache.Get drops its read lock before it deletes what it found
\* expired, and does not look again.
CacheExpired(c) ==
  /\ Continue(c, "get")
  /\ prompt[c] \in keys[cache] \cap expired[cache]
  /\ Goto(c, "drop")
  /\ held' = [held EXCEPT ![c] = cache]
  /\ UNCHANGED <<snap, answer, cacheVars>>

DropExpired(c) ==
  /\ Continue(c, "drop")
  /\ keys' = [keys EXCEPT ![held[c]] = @ \ {prompt[c]}]
  /\ expired' = [expired EXCEPT ![held[c]] = @ \ {prompt[c]}]
  /\ Goto(c, "embed")
  /\ held' = [held EXCEPT ![c] = NoCache]
  /\ UNCHANGED <<snap, answer, cache, stopped>>

EmbedFails(c) ==
  /\ Continue(c, "embed")
  /\ Goto(c, "classify")
  /\ UNCHANGED <<snap, held, answer, cacheVars>>

\* EmbeddingCache.Set, in the cache that is in use by now: at its limit it
\* first deletes a tenth of its entries, whichever they are.
\* (Variant with a fault: it lets one more in.)
KeptOffByOne(ca) ==
  {K \in SUBSET keys[ca] :
     IF Cardinality(keys[ca]) > CacheLimit
     THEN Cardinality(keys[ca] \ K) = IF CacheLimit < 20 THEN 1 ELSE Cardinality(keys[ca]) \div 10
     ELSE K = keys[ca]}
Kept(ca) ==
  LET size == Cardinality(keys[ca])
      count == IF size < 20 THEN 1 ELSE size \div 10
  IN  {K \in SUBSET keys[ca] :
         IF size >= CacheLimit THEN Cardinality(keys[ca] \ K) = count ELSE K = keys[ca]}

Embed(c) ==
  /\ Continue(c, "embed")
  /\ \E K \in Kept(cache) :
       /\ keys' = [keys EXCEPT ![cache] = K \union {prompt[c]}]
       /\ expired' = [expired EXCEPT ![cache] = (@ \cap K) \ {prompt[c]}]
  /\ Goto(c, "rank")
  /\ UNCHANGED <<snap, held, answer, cache, stopped>>

\* Match looks at intents again, Classify at what it has read before.
Ranked(c) == IF op[c] = "match" THEN intents ELSE snap[c]

Rank(c) ==
  /\ Continue(c, "rank")
  /\ \E i \in Best(prompt[c], Ranked(c)) :
       \/ /\ Score[prompt[c]][i] >= Threshold
          /\ Choose(c, "embedding", Ranked(c), i, ToClassifier(c))
       \/ Score[prompt[c]][i] < Threshold /\ ToClassifier(c)
  /\ UNCHANGED <<held, cacheVars>>

\* matches[0] of no matches.
RankNothing(c) ==
  /\ Continue(c, "rank")
  /\ op[c] = "match" /\ DOMAIN intents = {}
  /\ Goto(c, "panicked")
  /\ snap' = [snap EXCEPT ![c] = NoIntents]
  /\ UNCHANGED <<held, answer, cacheVars>>

SkipClassifier(c) ==
  /\ Continue(c, "classify")
  /\ \/ "classifier" \notin layers
     \/ op[c] = "classify" /\ DOMAIN classifyIntents = {}
  /\ Unmatched(c)
  /\ UNCHANGED <<held, cacheVars>>

AskClassifier(c) ==
  /\ Continue(c, "classify")
  /\ "classifier" \in layers
  /\ op[c] = "match" \/ DOMAIN classifyIntents # {}
  /\ Goto(c, "asked")
  /\ snap' = [snap EXCEPT ![c] = classifyIntents]
  /\ UNCHANGED <<held, answer, cacheVars>>

Classified(c) ==
  /\ Continue(c, "asked")
  /\ \E i \in DOMAIN snap[c] : Choose(c, "classifier", snap[c], i, Unmatched(c))
  /\ UNCHANGED <<held, cacheVars>>

\* An error, "unknown" or the name of no intent.
NotClassified(c) ==
  /\ Continue(c, "asked")
  /\ Unmatched(c)
  /\ UNCHANGED <<held, cacheVars>>

----------------------------------------------------------------------------
\* Init and ReloadIntents

\* warmupIntents, before any call: it stops at the first intent it cannot embed.
WarmUp ==
  /\ ~ready
  /\ ready' = TRUE
  /\ \E S \in SUBSET DOMAIN InitialList :
       intents' = IF "embedding" \in layers THEN Restricted(InitialList, S) ELSE NoIntents
  /\ UNCHANGED <<layers, classifyIntents, current, cacheVars, clientVars, reloadVars>>

\* L is current from here on.
MakeCurrent(L) ==
  /\ current' = L
  /\ seen' = [c \in Clients |-> seen[c] \union IF c \in Running THEN {L} ELSE {}]
  /\ UNCHANGED <<layers, ready, cacheVars, stage, op, prompt, snap, held, answer>>

StartReload(r, L) ==
  /\ ready
  /\ rstage[r] \in {"idle", "panicked"}
  /\ reloads < MaxReloads
  /\ "embedding" \in layers
  /\ reloads' = reloads + 1
  /\ rstage' = [rstage EXCEPT ![r] = "embedding"]
  /\ offered' = [offered EXCEPT ![r] = L]
  /\ UNCHANGED <<layers, ready, listVars, cacheVars, clientVars, old>>

\* Without an embedding service the other list is all there is.
ReloadPlain(r, L) ==
  /\ ready
  /\ rstage[r] = "idle"
  /\ reloads < MaxReloads
  /\ "embedding" \notin layers
  /\ reloads' = reloads + 1
  /\ classifyIntents' = L
  /\ MakeCurrent(L)
  /\ UNCHANGED <<intents, rstage, offered, old>>

ReloadFails(r) ==
  /\ rstage[r] = "embedding"
  /\ DOMAIN offered[r] # {}
  /\ rstage' = [rstage EXCEPT ![r] = "idle"]
  /\ offered' = [offered EXCEPT ![r] = NoIntents]
  /\ UNCHANGED <<layers, ready, listVars, cacheVars, clientVars, old, reloads>>

\* (Variant with a fault: the classifier keeps its list.)
InstallEmbedded(r) ==
  /\ rstage[r] = "embedding"
  /\ intents' = offered[r]
  /\ MakeCurrent(offered[r])
  /\ rstage' = [rstage EXCEPT ![r] = "read"]
  /\ offered' = [offered EXCEPT ![r] = NoIntents]
  /\ UNCHANGED <<classifyIntents, old, reloads>>

Install(r) ==
  /\ rstage[r] = "embedding"
  /\ intents' = offered[r]
  /\ classifyIntents' = offered[r]
  /\ MakeCurrent(offered[r])
  /\ rstage' = [rstage EXCEPT ![r] = "read"]
  /\ offered' = [offered EXCEPT ![r] = NoIntents]
  /\ UNCHANGED <<old, reloads>>

\* The exchange of the caches holds no lock.
ReadCache(r) ==
  /\ rstage[r] = "read"
  /\ old' = [old EXCEPT ![r] = cache]
  /\ rstage' = [rstage EXCEPT ![r] = "swap"]
  /\ UNCHANGED <<layers, ready, listVars, cacheVars, clientVars, offered, reloads>>

\* A cache that is not made yet, or that nobody holds any more.
Fresh(ca) ==
  /\ ca # cache
  /\ \A r \in Reloaders : old[r] # ca
  /\ \A c \in Clients : held[c] # ca

\* (Variant with a fault: oldCache is read after the exchange.)
SwapCacheFirst(r) ==
  /\ rstage[r] = "swap"
  /\ \E ca \in {k \in Caches : Fresh(k)} :
       /\ cache' = ca
       /\ keys' = [keys EXCEPT ![ca] = {}]
       /\ expired' = [expired EXCEPT ![ca] = {}]
       /\ stopped' = stopped \ {ca}
       /\ old' = [old EXCEPT ![r] = ca]
  /\ rstage' = [rstage EXCEPT ![r] = "stop"]
  /\ UNCHANGED <<layers, ready, listVars, clientVars, offered, reloads>>

SwapCache(r) ==
  /\ rstage[r] = "swap"
  /\ \E ca \in {k \in Caches : Fresh(k)} :
       /\ cache' = ca
       /\ keys' = [keys EXCEPT ![ca] = {}]
       /\ expired' = [expired EXCEPT ![ca] = {}]
       /\ stopped' = stopped \ {ca}
  /\ rstage' = [rstage EXCEPT ![r] = "stop"]
  /\ UNCHANGED <<layers, ready, listVars, clientVars, offered, old, reloads>>

\* A channel that is closed already panics.
StopOld(r) ==
  /\ rstage[r] = "stop"
  /\ stopped' = stopped \union {old[r]}
  /\ rstage' = [rstage EXCEPT ![r] = IF old[r] \in stopped THEN "panicked" ELSE "idle"]
  /\ old' = [old EXCEPT ![r] = NoCache]
  /\ UNCHANGED <<layers, ready, listVars, cache, keys, expired, clientVars, offered, reloads>>

----------------------------------------------------------------------------
\* EmbeddingCache on its own

Expire(ca, p) ==
  /\ p \in keys[ca] \ expired[ca]
  /\ expired' = [expired EXCEPT ![ca] = @ \union {p}]
  /\ UNCHANGED <<layers, ready, listVars, cache, keys, stopped, clientVars, reloadVars>>

EvictExpired(ca) ==
  /\ ca \notin stopped
  /\ expired[ca] # {}
  /\ keys' = [keys EXCEPT ![ca] = @ \ expired[ca]]
  /\ expired' = [expired EXCEPT ![ca] = {}]
  /\ UNCHANGED <<layers, ready, listVars, cache, stopped, clientVars, reloadVars>>

----------------------------------------------------------------------------
Init ==
  /\ layers \in Layers
  /\ ready = FALSE
  /\ intents = NoIntents
  /\ classifyIntents = InitialList
  /\ cache \in Caches
  /\ keys = [ca \in Caches |-> {}]
  /\ expired = [ca \in Caches |-> {}]
  /\ stopped = {}
  /\ stage = [c \in Clients |-> "idle"]
  /\ op = [c \in Clients |-> "match"]
  /\ prompt = [c \in Clients |-> EmptyPrompt]
  /\ snap = [c \in Clients |-> NoIntents]
  /\ held = [c \in Clients |-> NoCache]
  /\ answer = [c \in Clients |-> NoAnswer]
  /\ rstage = [r \in Reloaders |-> "idle"]
  /\ offered = [r \in Reloaders |-> NoIntents]
  /\ old = [r \in Reloaders |-> NoCache]
  /\ reloads = 0
  /\ current = InitialList
  /\ seen = [c \in Clients |-> {}]

Start(c) ==
  \/ MatchEmpty(c) \/ ClassifyEmpty(c)
  \/ \E p \in Prompts : MatchKeyword(c, p) \/ MatchOnward(c, p) \/ StartClassify(c, p)

SemanticStep(c) ==
  \/ Look(c)
  \/ CacheHit(c) \/ CacheMiss(c) \/ CacheExpired(c) \/ DropExpired(c)
  \/ Embed(c) \/ EmbedFails(c)
  \/ Rank(c) \/ RankNothing(c)

ClassifierStep(c) ==
  SkipClassifier(c) \/ AskClassifier(c) \/ Classified(c) \/ NotClassified(c)

ReloadIntents(r) ==
  \/ \E L \in Lists : StartReload(r, L) \/ ReloadPlain(r, L)
  \/ ReloadFails(r) \/ Install(r)
  \/ ReadCache(r) \/ SwapCache(r) \/ StopOld(r)

CacheStep(ca) == EvictExpired(ca) \/ \E p \in Prompts : Expire(ca, p)

Next ==
  \/ WarmUp
  \/ \E c \in Clients : Start(c) \/ SemanticStep(c) \/ ClassifierStep(c)
  \/ \E r \in Reloaders : ReloadIntents(r)
  \/ \E ca \in Caches : CacheStep(ca)

Spec == Init /\ [][Next]_vars

----------------------------------------------------------------------------
\* Properties

Stages == {"idle", "look", "get", "drop", "embed", "rank", "classify", "asked",
           "done", "panicked"}
Answers == [layer : {"none", "keyword", "embedding", "classifier", "fallback"},
            provider : Providers \union {NoProvider}]

KnownLists ==
  Lists \union {NoIntents} \union {Restricted(InitialList, S) : S \in SUBSET DOMAIN InitialList}

TypeOK ==
  /\ layers \in Layers
  /\ ready \in BOOLEAN
  /\ intents \in KnownLists
  /\ classifyIntents \in Lists
  /\ cache \in Caches
  /\ keys \in [Caches -> SUBSET Prompts]
  /\ expired \in [Caches -> SUBSET Prompts]
  /\ stopped \in SUBSET Caches
  /\ stage \in [Clients -> Stages]
  /\ op \in [Clients -> {"match", "classify"}]
  /\ prompt \in [Clients -> Prompts]
  /\ snap \in [Clients -> KnownLists]
  /\ held \in [Clients -> Caches \union {NoCache}]
  /\ answer \in [Clients -> Answers]
  /\ rstage \in [Reloaders -> {"idle", "embedding", "read", "swap", "stop", "panicked"}]
  /\ offered \in [Reloaders -> Lists \union {NoIntents}]
  /\ \A r \in Reloaders : rstage[r] = "embedding" => offered[r] \in Lists
  /\ old \in [Reloaders -> Caches \union {NoCache}]
  /\ \A r \in Reloaders : rstage[r] \in {"swap", "stop"} => old[r] \in Caches
  /\ reloads \in 0 .. MaxReloads
  /\ current \in Lists
  /\ seen \in [Clients -> SUBSET Lists]

\* A call of Match ends with a provider that is enabled, if there is one,
\* whatever the layers do and however often the intents are reloaded
\* (hybrid_engine.go:15), unless the list was empty at some time during the call.
MatchAnswers ==
  \A c \in Clients :
    /\ op[c] = "match" /\ stage[c] \in {"done", "panicked"}
    /\ Enabled # {} /\ NoIntents \notin seen[c]
    => stage[c] = "done" /\ answer[c].provider \in Enabled

\* Without that exception it is what hybrid_engine.go:15 and 18 promise.
MatchAlwaysAnswers == \A c \in Clients : stage[c] # "panicked"

\* A prompt goes where some intent says it should, in a list that was current
\* at some time during the call: a reload neither mixes lists nor leaves a
\* layer behind with the list before (ReloadIntents, hybrid_engine.go:201).
AnsweredByLiveList ==
  \A c \in Clients :
    /\ stage[c] = "done" /\ answer[c].layer \in {"embedding", "classifier"}
    /\ answer[c].provider # NoProvider
    => \E L \in seen[c] : \E i \in DOMAIN L : L[i] = answer[c].provider

\* No cache has more than its limit of entries (Set, embedding.go:185).
CacheBound == \A ca \in Caches : Cardinality(keys[ca]) <= CacheLimit

\* The cache in use has not been stopped, so its evictor runs, even when
\* reloads race for the exchange (ReloadIntents, hybrid_engine.go:233-235).
CacheInUseRuns == cache \notin stopped

\* The embedding cache neither grows without bound nor loses its evictor.
CacheSound == CacheBound /\ CacheInUseRuns
=============================================================================
