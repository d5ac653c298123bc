------------------------ MODULE AfterAnalysisProofs ------------------------
(***************************************************************************)
(* What AfterAnalysis says of the checks by the clock holds for every      *)
(* resource, cache, registry of status headers and set of options, however *)
(* long they wait.  The argument follows the one entry of the cache: what  *)
(* it can be, and that while nothing disturbs it, it only gets younger.    *)
(***************************************************************************)
EXTENDS AfterAnalysis, FiniteSetTheorems, TLAPS

-----------------------------------------------------------------------------
(* The inductive invariant *)

Responses ==
    [good : BOOLEAN, version : 0 .. 1, tag : 0 .. 1, at : 0 .. MaxClock, tier : {"miss", "hit"}]

\* A response the origin may have made by now.
Sound(e) ==
    /\ e \in Responses /\ e.at <= clock
    /\ e.version <= version
    /\ e.tag = 0 \/ Does("flaps")
    /\ e.tier = "miss" \/ Does("tiers")
    /\ e.good \/ "failure" \in events

Keeps(e) == Does(IF e.good THEN "stores" ELSE "stores-errors")

EdgeInv ==
    /\ Proper
    /\ clock \in 0 .. MaxClock /\ version \in 0 .. 1
    /\ version = 0 \/ "change" \in events
    /\ events \subseteq {"failure", "loss", "visit", "eviction", "change", "delay"}
    /\ Cardinality(events) <= MaxEvents
    /\ cached = {} \/ \E e \in cached : cached = {e}
    /\ \A e \in cached : Sound(e) /\ Keeps(e)

\* An answer a check may have had by now.
Seen(a) ==
    /\ a \in Answers /\ a.at <= clock
    /\ a.version <= version
    /\ a.tag = 0 \/ Does("flaps")
    /\ a.good \/ "failure" \in events

\* The result is of the resource's response, unless the origin failed; what the
\* cache has is no older than the response analysed.
AnalysisInv ==
    /\ analysis = [pc |-> analysis.pc, response |-> analysis.response, at |-> analysis.at]
    /\ analysis.pc \in {"due", "known", "missing"} /\ analysis.at \in 0 .. clock
    /\ analysis.response \in {setup.response, ErrorResponse}
    /\ Known /\ "failure" \notin events => analysis.response = setup.response
    /\ Known /\ "failure" \notin events /\ Does("stores") => \A e \in cached : analysis.at <= e.at

LiveTypes ==
    /\ live \in [pc : {"off", "sample", "done"}, taken : Nat, hits : Nat, misses : Nat, told : BOOLEAN, due : Nat,
                 findings : SUBSET {"not-cached", "status-cached", "uncacheable-cached"}]
    /\ live.taken <= setup.samples /\ live.hits <= live.taken /\ live.misses <= live.taken
    /\ live.pc = "sample" => live.taken < setup.samples

\* A cache that keeps the response of an origin that is well, and refreshes what
\* it has served stale, watched through samples closer than a lifetime.
Watched ==
    /\ setup.samples > 1 /\ setup.interval < setup.keeps
    /\ events \cap {"eviction", "delay", "failure"} = {}
    /\ ~Does("tiers") /\ Does("stores") /\ (Does("serves-stale") => Does("refreshes"))

\* The cache status of a response to a request this cache alone has handled.
Reading(word) ==
    Detect([marks |-> setup.labels.marks, fields |-> [field \in setup.labels.fields |-> <<word>>]])

\* Once sampled, the entry is still fresh when the next sample is due, so that only
\* a status that cannot be read leaves no HIT.
LiveInv ==
    /\ ~Does("tiers") /\ Reading("miss") # "MISS" => live.misses = 0
    /\ live.pc = "sample" /\ live.taken > 0 /\ Watched /\ Reading("miss") = "MISS" =>
          \/ live.hits > 0
          \/ clock <= live.due /\ \E e \in cached : live.due < e.at + setup.keeps
    /\ live.hits > 0 => "failure" \in events \/ Does("stores") \/ Does("tiers")
    /\ CacheVerdictsGenuine

ServingTypes ==
    /\ serving \in [pc : {"off", "base", "stale", "refreshed", "error", "done"}, due : Nat,
                    base : Answers, stale : Answers, onError : {"untested", "yes", "no"},
                    findings : SUBSET {"too-large", "not-honored", "no-refresh"}]
    /\ serving.due <= clock + setup.maxWait
    /\ StaleServing!Waiting => Analysed
    /\ serving.pc = "stale" => StaleServing!Declares("stale-while-revalidate")
    /\ "no-refresh" \in serving.findings => serving.pc \in {"error", "done"}
    /\ serving.pc = "stale" => Seen(serving.base)
    /\ serving.pc = "refreshed" => Seen(serving.base) /\ Seen(serving.stale)
    /\ serving.pc = "error" => Seen(serving.base) /\ serving.due = 0

\* Nobody is late.
OnTime == "delay" \notin events /\ serving.pc \in {"stale", "refreshed"} => clock <= serving.due

Revalidation == Window("stale-while-revalidate")

\* When the stale answer is asked for, an entry is there that is not too old, or
\* the base was as slow as a response of the origin.
StaleInTime ==
    serving.pc = "stale" /\ Revalidation >= 2 * Second /\ Does("serves-stale") /\ Does("refreshes") =>
        \/ serving.base.slow \/ ~Does("slow")
        \/ \E e \in cached : serving.due < e.at + WhileRevalidating

Judged ==
    Second * serving.stale.age >= setup.keeps /\ 4 * serving.stale.age > Revalidation

\* By when the refresh is asked for, the entry has been renewed for long enough.
RefreshedInTime ==
    serving.pc = "refreshed" /\ Judged /\ Does("refreshes") =>
        \E e \in cached : 2 * (serving.due - e.at) <= Revalidation

\* When the origin is made to fail, the cache has something to spare.
SpareInTime ==
    serving.pc = "error" /\ Window("stale-if-error") > 0 /\ "loss" \notin events /\ Does("serves-on-error") => Spare # {}

ServingInv ==
    /\ Conforming /\ Steady => StaleInTime /\ RefreshedInTime /\ SpareInTime
    /\ StaleVerdictsGenuine

ConsistencyInv ==
    /\ consistency \in [pc : {"off", "base", "conditional", "again", "done"}, base : Answers,
                        findings : SUBSET {"redirect", "not-honored", "unstable"}]
    /\ consistency.pc \in {"conditional", "again"} => Seen(consistency.base)
    /\ ValidatorsGenuine

IInv == EdgeInv /\ AnalysisInv /\ LiveTypes /\ LiveInv /\ ServingTypes /\ OnTime /\ ServingInv /\ ConsistencyInv

-----------------------------------------------------------------------------
(* The checks' instances of the cache are the cache *)
\* Live-state: a status is read alike.
LEMMA LiveStateReads == \A headers : LiveState!Detect(headers) = Detect(headers)
BY DEF LiveState!Detect, LiveState!Marked, LiveState!Told, LiveState!Leftmost, LiveState!Normalize,
       LiveState!GenericState, LiveState!Contained,
       Detect, Marked, Told, Leftmost, Normalize, GenericState, Contained

\* Live-state: the entries, and what is made of them, are the same.
LEMMA LiveStateCache ==
    /\ \A conduct : LiveState!Does(conduct) <=> Does(conduct)
    /\ LiveState!Fresh = Fresh /\ LiveState!Stale = Stale /\ LiveState!Spare = Spare
    /\ LiveState!Made = Made /\ LiveState!Failed = Failed /\ \A response : LiveState!Kept(response) = Kept(response)
BY DEF LiveState!Does, LiveState!Fresh, LiveState!Stale, LiveState!Spare, LiveState!Made, LiveState!Failed,
       LiveState!Kept, LiveState!Age, LiveState!WhileRevalidating, LiveState!Window, LiveState!Second,
       Does, Fresh, Stale, Spare, Made, Failed, Kept, Age, WhileRevalidating, Window, Second

\* Live-state: so is what is seen of a response.
LEMMA LiveStateAnswer == \A response, word : LiveState!Answer(response, word) = Answer(response, word)
BY LiveStateReads DEF LiveState!Answer, LiveState!Headers, LiveState!Age, LiveState!Second, LiveState!Does, Answer,
       Headers, Age, Second, Does

\* Live-state: so is what a request can come to, case by case.
LEMMA LiveStateOutcomes == \A made : LiveState!Outcomes(made) = Outcomes(made)
<1>. SUFFICES ASSUME NEW made PROVE LiveState!Outcomes(made) = Outcomes(made)
  OBVIOUS
<1>1. CASE Fresh # {}
  <2>1. Outcomes(made) = {[answer |-> Answer(entry, "hit"), left |-> cached] : entry \in Fresh}
    BY <1>1 DEF Outcomes
  <2>2. LiveState!Outcomes(made) = {[answer |-> LiveState!Answer(entry, "hit"), left |-> cached] : entry \in LiveState!Fresh}
    BY <1>1, LiveStateCache DEF LiveState!Outcomes
  <2>. QED BY <2>1, <2>2, LiveStateCache, LiveStateAnswer
<1>2. CASE Fresh = {} /\ Stale # {}
  <2>1. Outcomes(made) = {[answer |-> Answer(entry, "stale"),
          left |-> IF Does("refreshes") THEN Kept(response) ELSE cached] :
                            entry \in Stale, response \in made}
    BY <1>2 DEF Outcomes
  <2>2. LiveState!Outcomes(made) =
          {[answer |-> LiveState!Answer(entry, "stale"),
                  left |-> IF LiveState!Does("refreshes") THEN LiveState!Kept(response) ELSE cached] :
             entry \in LiveState!Stale, response \in made}
    BY <1>2, LiveStateCache DEF LiveState!Outcomes
  <2>. QED BY <2>1, <2>2, LiveStateCache, LiveStateAnswer
<1>3. CASE Fresh = {} /\ Stale = {} /\ Failed \in made /\ Spare # {}
  <2>1. Outcomes(made) = {[answer |-> Answer(entry, "stale"), left |-> cached] : entry \in Spare}
    BY <1>3 DEF Outcomes
  <2>2. LiveState!Outcomes(made) = {[answer |-> LiveState!Answer(entry, "stale"),
          left |-> cached] : entry \in LiveState!Spare}
    BY <1>3, LiveStateCache DEF LiveState!Outcomes
  <2>. QED BY <2>1, <2>2, LiveStateCache, LiveStateAnswer
<1>4. CASE Fresh = {} /\ Stale = {} /\ ~(Failed \in made /\ Spare # {})
  <2>1. Outcomes(made) = {[answer |-> Answer(response, "miss"), left |-> Kept(response)] : response \in made}
    BY <1>4 DEF Outcomes
  <2>2. LiveState!Outcomes(made) = {[answer |-> LiveState!Answer(response, "miss"),
          left |-> LiveState!Kept(response)] : response \in made}
    BY <1>4, LiveStateCache DEF LiveState!Outcomes
  <2>. QED BY <2>1, <2>2, LiveStateCache, LiveStateAnswer
<1>. QED BY <1>1, <1>2, <1>3, <1>4

\* Live-state: so is a request.
LEMMA LiveStateRequests ==
    /\ LiveState!Possible = Possible /\ \A outcome : LiveState!Comes(outcome) <=> Comes(outcome)
    /\ LiveState!Lost <=> Lost
BY LiveStateOutcomes, LiveStateCache DEF LiveState!Possible, Possible, LiveState!Comes, Comes, LiveState!Lost, Lost,
       LiveState!Happens, Happens, LiveState!Cardinality, Cardinality

\* Live-state: so is the result of the analysis.
LEMMA LiveStateAnalysis ==
    /\ LiveState!Analysed <=> Analysed
    /\ LiveState!Known <=> Known
BY DEF LiveState!Analysed, Analysed, LiveState!Known, Known

\* Live-state: and what it means.
LEMMA LiveStateCacheable == \A r : LiveState!Cacheable(r) = Cacheable(r) /\ LiveState!Explicit(r) = Explicit(r)
BY DEF LiveState!Cacheable, Cacheable, LiveState!Explicit, Explicit, LiveState!Lifetimes, Lifetimes,
       LiveState!MethodCanBeMadeCacheable, MethodCanBeMadeCacheable, LiveState!MethodCacheableByDefault,
               MethodCacheableByDefault,
       LiveState!StatusDefaultCacheable, StatusDefaultCacheable

\* Stale-serving: a status is read alike.
LEMMA StaleServingReads == \A headers : StaleServing!Detect(headers) = Detect(headers)
BY DEF StaleServing!Detect, StaleServing!Marked, StaleServing!Told, StaleServing!Leftmost, StaleServing!Normalize,
       StaleServing!GenericState, StaleServing!Contained,
       Detect, Marked, Told, Leftmost, Normalize, GenericState, Contained

\* Stale-serving: the entries, and what is made of them, are the same.
LEMMA StaleServingCache ==
    /\ \A conduct : StaleServing!Does(conduct) <=> Does(conduct)
    /\ StaleServing!Fresh = Fresh /\ StaleServing!Stale = Stale /\ StaleServing!Spare = Spare
    /\ StaleServing!Made = Made /\ StaleServing!Failed = Failed /\ \A response : StaleServing!Kept(response) = Kept(response)
BY DEF StaleServing!Does, StaleServing!Fresh, StaleServing!Stale, StaleServing!Spare, StaleServing!Made,
       StaleServing!Failed, StaleServing!Kept, StaleServing!Age, StaleServing!WhileRevalidating, StaleServing!Window,
       StaleServing!Second,
       Does, Fresh, Stale, Spare, Made, Failed, Kept, Age, WhileRevalidating, Window, Second

\* Stale-serving: so is what is seen of a response.
LEMMA StaleServingAnswer == \A response, word : StaleServing!Answer(response, word) = Answer(response, word)
BY StaleServingReads DEF StaleServing!Answer, StaleServing!Headers, StaleServing!Age, StaleServing!Second,
       StaleServing!Does, Answer, Headers, Age, Second, Does

\* Stale-serving: so is what a request can come to, case by case.
LEMMA StaleServingOutcomes == \A made : StaleServing!Outcomes(made) = Outcomes(made)
<1>. SUFFICES ASSUME NEW made PROVE StaleServing!Outcomes(made) = Outcomes(made)
  OBVIOUS
<1>1. CASE Fresh # {}
  <2>1. Outcomes(made) = {[answer |-> Answer(entry, "hit"), left |-> cached] : entry \in Fresh}
    BY <1>1 DEF Outcomes
  <2>2. StaleServing!Outcomes(made) = {[answer |-> StaleServing!Answer(entry, "hit"),
          left |-> cached] : entry \in StaleServing!Fresh}
    BY <1>1, StaleServingCache DEF StaleServing!Outcomes
  <2>. QED BY <2>1, <2>2, StaleServingCache, StaleServingAnswer
<1>2. CASE Fresh = {} /\ Stale # {}
  <2>1. Outcomes(made) = {[answer |-> Answer(entry, "stale"),
          left |-> IF Does("refreshes") THEN Kept(response) ELSE cached] :
                            entry \in Stale, response \in made}
    BY <1>2 DEF Outcomes
  <2>2. StaleServing!Outcomes(made) =
          {[answer |-> StaleServing!Answer(entry, "stale"),
                  left |-> IF StaleServing!Does("refreshes") THEN StaleServing!Kept(response) ELSE cached] :
             entry \in StaleServing!Stale, response \in made}
    BY <1>2, StaleServingCache DEF StaleServing!Outcomes
  <2>. QED BY <2>1, <2>2, StaleServingCache, StaleServingAnswer
<1>3. CASE Fresh = {} /\ Stale = {} /\ Failed \in made /\ Spare # {}
  <2>1. Outcomes(made) = {[answer |-> Answer(entry, "stale"), left |-> cached] : entry \in Spare}
    BY <1>3 DEF Outcomes
  <2>2. StaleServing!Outcomes(made) = {[answer |-> StaleServing!Answer(entry, "stale"),
          left |-> cached] : entry \in StaleServing!Spare}
    BY <1>3, StaleServingCache DEF StaleServing!Outcomes
  <2>. QED BY <2>1, <2>2, StaleServingCache, StaleServingAnswer
<1>4. CASE Fresh = {} /\ Stale = {} /\ ~(Failed \in made /\ Spare # {})
  <2>1. Outcomes(made) = {[answer |-> Answer(response, "miss"), left |-> Kept(response)] : response \in made}
    BY <1>4 DEF Outcomes
  <2>2. StaleServing!Outcomes(made) = {[answer |-> StaleServing!Answer(response, "miss"),
          left |-> StaleServing!Kept(response)] : response \in made}
    BY <1>4, StaleServingCache DEF StaleServing!Outcomes
  <2>. QED BY <2>1, <2>2, StaleServingCache, StaleServingAnswer
<1>. QED BY <1>1, <1>2, <1>3, <1>4

\* Stale-serving: so is a request.
LEMMA StaleServingRequests ==
    /\ StaleServing!Possible = Possible /\ \A outcome : StaleServing!Comes(outcome) <=> Comes(outcome)
    /\ StaleServing!Lost <=> Lost
BY StaleServingOutcomes, StaleServingCache DEF StaleServing!Possible, Possible, StaleServing!Comes, Comes,
       StaleServing!Lost, Lost, StaleServing!Happens, Happens, StaleServing!Cardinality, Cardinality

\* Stale-serving: so is the result of the analysis.
LEMMA StaleServingAnalysis ==
    /\ StaleServing!Analysed <=> Analysed
    /\ StaleServing!Known <=> Known
BY DEF StaleServing!Analysed, Analysed, StaleServing!Known, Known

\* Stale-serving: and what it means.
LEMMA StaleServingCacheable == \A r : StaleServing!Cacheable(r) = Cacheable(r) /\ StaleServing!Explicit(r) = Explicit(r)
BY DEF StaleServing!Cacheable, Cacheable, StaleServing!Explicit, Explicit, StaleServing!Lifetimes, Lifetimes,
       StaleServing!MethodCanBeMadeCacheable, MethodCanBeMadeCacheable, StaleServing!MethodCacheableByDefault,
               MethodCacheableByDefault,
       StaleServing!StatusDefaultCacheable, StatusDefaultCacheable

\* Consistency: a status is read alike.
LEMMA ConsistencyReads == \A headers : Consistency!Detect(headers) = Detect(headers)
BY DEF Consistency!Detect, Consistency!Marked, Consistency!Told, Consistency!Leftmost, Consistency!Normalize,
       Consistency!GenericState, Consistency!Contained,
       Detect, Marked, Told, Leftmost, Normalize, GenericState, Contained

\* Consistency: the entries, and what is made of them, are the same.
LEMMA ConsistencyCache ==
    /\ \A conduct : Consistency!Does(conduct) <=> Does(conduct)
    /\ Consistency!Fresh = Fresh /\ Consistency!Stale = Stale /\ Consistency!Spare = Spare
    /\ Consistency!Made = Made /\ Consistency!Failed = Failed /\ \A response : Consistency!Kept(response) = Kept(response)
BY DEF Consistency!Does, Consistency!Fresh, Consistency!Stale, Consistency!Spare, Consistency!Made,
       Consistency!Failed, Consistency!Kept, Consistency!Age, Consistency!WhileRevalidating, Consistency!Window,
       Consistency!Second,
       Does, Fresh, Stale, Spare, Made, Failed, Kept, Age, WhileRevalidating, Window, Second

\* Consistency: so is what is seen of a response.
LEMMA ConsistencyAnswer == \A response, word : Consistency!Answer(response, word) = Answer(response, word)
BY ConsistencyReads DEF Consistency!Answer, Consistency!Headers, Consistency!Age, Consistency!Second,
       Consistency!Does, Answer, Headers, Age, Second, Does

\* Consistency: so is what a request can come to, case by case.
LEMMA ConsistencyOutcomes == \A made : Consistency!Outcomes(made) = Outcomes(made)
<1>. SUFFICES ASSUME NEW made PROVE Consistency!Outcomes(made) = Outcomes(made)
  OBVIOUS
<1>1. CASE Fresh # {}
  <2>1. Outcomes(made) = {[answer |-> Answer(entry, "hit"), left |-> cached] : entry \in Fresh}
    BY <1>1 DEF Outcomes
  <2>2. Consistency!Outcomes(made) = {[answer |-> Consistency!Answer(entry, "hit"),
          left |-> cached] : entry \in Consistency!Fresh}
    BY <1>1, ConsistencyCache DEF Consistency!Outcomes
  <2>. QED BY <2>1, <2>2, ConsistencyCache, ConsistencyAnswer
<1>2. CASE Fresh = {} /\ Stale # {}
  <2>1. Outcomes(made) = {[answer |-> Answer(entry, "stale"),
          left |-> IF Does("refreshes") THEN Kept(response) ELSE cached] :
                            entry \in Stale, response \in made}
    BY <1>2 DEF Outcomes
  <2>2. Consistency!Outcomes(made) =
          {[answer |-> Consistency!Answer(entry, "stale"),
                  left |-> IF Consistency!Does("refreshes") THEN Consistency!Kept(response) ELSE cached] :
             entry \in Consistency!Stale, response \in made}
    BY <1>2, ConsistencyCache DEF Consistency!Outcomes
  <2>. QED BY <2>1, <2>2, ConsistencyCache, ConsistencyAnswer
<1>3. CASE Fresh = {} /\ Stale = {} /\ Failed \in made /\ Spare # {}
  <2>1. Outcomes(made) = {[answer |-> Answer(entry, "stale"), left |-> cached] : entry \in Spare}
    BY <1>3 DEF Outcomes
  <2>2. Consistency!Outcomes(made) = {[answer |-> Consistency!Answer(entry, "stale"),
          left |-> cached] : entry \in Consistency!Spare}
    BY <1>3, ConsistencyCache DEF Consistency!Outcomes
  <2>. QED BY <2>1, <2>2, ConsistencyCache, ConsistencyAnswer
<1>4. CASE Fresh = {} /\ Stale = {} /\ ~(Failed \in made /\ Spare # {})
  <2>1. Outcomes(made) = {[answer |-> Answer(response, "miss"), left |-> Kept(response)] : response \in made}
    BY <1>4 DEF Outcomes
  <2>2. Consistency!Outcomes(made) = {[answer |-> Consistency!Answer(response, "miss"),
          left |-> Consistency!Kept(response)] : response \in made}
    BY <1>4, ConsistencyCache DEF Consistency!Outcomes
  <2>. QED BY <2>1, <2>2, ConsistencyCache, ConsistencyAnswer
<1>. QED BY <1>1, <1>2, <1>3, <1>4

\* Consistency: so is a request.
LEMMA ConsistencyRequests ==
    /\ Consistency!Possible = Possible /\ \A outcome : Consistency!Comes(outcome) <=> Comes(outcome)
    /\ Consistency!Lost <=> Lost
BY ConsistencyOutcomes, ConsistencyCache DEF Consistency!Possible, Possible, Consistency!Comes, Comes,
       Consistency!Lost, Lost, Consistency!Happens, Happens, Consistency!Cardinality, Cardinality

\* Consistency: so is the result of the analysis.
LEMMA ConsistencyAnalysis ==
    /\ Consistency!Analysed <=> Analysed
    /\ Consistency!Known <=> Known
BY DEF Consistency!Analysed, Analysed, Consistency!Known, Known

\* Consistency: and what it means.
LEMMA ConsistencyCacheable == \A r : Consistency!Cacheable(r) = Cacheable(r) /\ Consistency!Explicit(r) = Explicit(r)
BY DEF Consistency!Cacheable, Cacheable, Consistency!Explicit, Explicit, Consistency!Lifetimes, Lifetimes,
       Consistency!MethodCanBeMadeCacheable, MethodCanBeMadeCacheable, Consistency!MethodCacheableByDefault,
               MethodCacheableByDefault,
       Consistency!StatusDefaultCacheable, StatusDefaultCacheable

-----------------------------------------------------------------------------
(* Reading a cache status *)

\* Every set of numbers has a least one: the initial intervals up to its members
\* are finite sets, which strict inclusion orders well.
LEMMA Minimum == \A T \in SUBSET Nat : T # {} => Leftmost(T) \in T
<1>. SUFFICES ASSUME NEW T \in SUBSET Nat, T # {} PROVE \E x \in T : \A y \in T : x <= y
  BY DEF Leftmost
<1>. DEFINE Below == {0 .. n : n \in T}
<1>1. \A n \in T : 0 .. n \in FiniteSubsetsOf(Nat)
  BY FS_Interval DEF FiniteSubsetsOf
<1>2. Below \subseteq FiniteSubsetsOf(Nat) /\ Below # {}
  BY <1>1
<1>3. PICK S \in Below : \A U \in Below : ~(<<U, S>> \in StrictSubsetOrdering(Nat))
  BY <1>2, FS_StrictSubsetOrderingWellFounded, WFMin
<1>4. PICK x \in T : S = 0 .. x
  BY <1>3
<1>5. ASSUME NEW y \in T, y < x PROVE FALSE
  <2>1. 0 .. y \subseteq 0 .. x /\ x \notin 0 .. y /\ x \in 0 .. x
    BY <1>5
  <2>2. <<0 .. y, 0 .. x>> \in StrictSubsetOrdering(Nat)
    BY <2>1 DEF StrictSubsetOrdering
  <2>. QED BY <2>2, <1>3, <1>4
<1>. QED BY <1>5

\* A header of the registry tells one of its values or nothing.
LEMMA ToldState ==
  ASSUME NEW headers, NEW i \in DOMAIN Registry
  PROVE  Told(headers, i) \in CacheStates \cup {"unknown"}
BY RegistryAssumption DEF Told, Normalize

\* So do the headers read generically.
LEMMA GenericIsState == \A words : GenericState(words) \in CacheStates \cup {"unknown"}
<1>. SUFFICES ASSUME NEW words PROVE GenericState(words) \in CacheStates \cup {"unknown"}
  OBVIOUS
<1>. DEFINE found == {i \in DOMAIN Contained : \E j \in DOMAIN words : words[j] = Contained[i][1]}
<1>1. DOMAIN Contained = 1 .. 6 /\ \A i \in 1 .. 6 : Contained[i][2] \in CacheStates
  BY DEF Contained, CacheStates
<1>2. found # {} => Leftmost(found) \in found
  <2>1. found \in SUBSET Nat
    BY <1>1
  <2>. QED BY <2>1, Minimum
<1>. QED BY <1>1, <1>2, Zenon DEF GenericState

\* However a response is labelled, a cache status or none is detected.
LEMMA DetectedState == \A headers : Detect(headers) \in CacheStates \cup {"unknown"}
<1>. SUFFICES ASSUME NEW headers PROVE Detect(headers) \in CacheStates \cup {"unknown"}
  OBVIOUS
<1>. DEFINE telling == {i \in DOMAIN Registry : Told(headers, i) # "unknown"}
<1>1. telling # {} => Leftmost(telling) \in telling
  <2>1. telling \in SUBSET Nat
    BY RegistryAssumption
  <2>. QED BY <2>1, Minimum
<1>2. \A i \in telling : Told(headers, i) \in CacheStates \cup {"unknown"}
  BY ToldState
<1>. QED BY <1>1, <1>2, GenericIsState DEF Detect

\* A plain hit, miss or stale answer read generically is what it says.
LEMMA GenericWords ==
    /\ GenericState(<<"hit">>) = "HIT"
    /\ GenericState(<<"miss">>) = "MISS"
    /\ GenericState(<<"stale">>) = "STALE"
<1>. DEFINE found(word) == {i \in DOMAIN Contained : \E j \in DOMAIN <<word>> : <<word>>[j] = Contained[i][1]}
<1>1. \A n \in Nat : Leftmost({n}) = n
  BY Minimum
<1>2. found("hit") = {1} /\ found("miss") = {6} /\ found("stale") = {2}
  BY DEF Contained
<1>3. \A word : found(word) # {} => GenericState(<<word>>) = Contained[Leftmost(found(word))][2]
  BY Zenon DEF GenericState
<1>4. Contained[1][2] = "HIT" /\ Contained[6][2] = "MISS" /\ Contained[2][2] = "STALE"
  BY DEF Contained
<1>. HIDE DEF found
<1>. QED BY <1>1, <1>2, <1>3, <1>4

\* Where a miss can be read, so can a hit; and neither a hit nor a stale answer is
\* read as a miss, nor anything but a hit as a hit.
LEMMA Readings ==
    /\ Reading("miss") = "MISS" => Reading("hit") = "HIT"
    /\ Reading("hit") # "MISS" /\ Reading("stale") # "MISS"
    /\ Reading("stale") # "HIT" /\ Reading("miss") # "HIT"
<1>. DEFINE headers(word) == [marks |-> setup.labels.marks, fields |-> [field \in setup.labels.fields |-> <<word>>]]
            telling(word) == {i \in DOMAIN Registry : Told(headers(word), i) # "unknown"}
            marked == {i \in DOMAIN Registry : Registry[i].marks \cap setup.labels.marks # {}}
            timing == "Server-Timing" \in setup.labels.fields
            generic == timing \/ "X-Cache" \in setup.labels.fields
            chosen(word) == IF marked # {} /\ Leftmost(marked) \in telling(word) THEN Leftmost(marked)
                            ELSE Leftmost(telling(word))
<1>1. \A word : \A i \in DOMAIN Registry :
        Told(headers(word), i) = IF Registry[i].header \in setup.labels.fields /\ word \in DOMAIN Registry[i].values
                                 THEN Registry[i].values[word] ELSE "unknown"
  BY DEF Told, Normalize
<1>2. \A i \in DOMAIN Registry :
        /\ Told(headers("hit"), i) \in {"HIT", "unknown"} /\ Told(headers("miss"), i) \in {"MISS", "unknown"}
        /\ Told(headers("stale"), i) \in {"STALE", "unknown"}
        /\ Told(headers("hit"), i) = "unknown" <=> Told(headers("miss"), i) = "unknown"
  <2>. SUFFICES ASSUME NEW i \in DOMAIN Registry
                PROVE  /\ Told(headers("hit"), i) \in {"HIT", "unknown"} /\ Told(headers("miss"), i) \in {"MISS", "unknown"}
                       /\ Told(headers("stale"), i) \in {"STALE", "unknown"}
                       /\ Told(headers("hit"), i) = "unknown" <=> Told(headers("miss"), i) = "unknown"
    OBVIOUS
  <2>1. /\ "hit" \in DOMAIN Registry[i].values => Registry[i].values["hit"] = "HIT"
        /\ "miss" \in DOMAIN Registry[i].values => Registry[i].values["miss"] = "MISS"
        /\ "stale" \in DOMAIN Registry[i].values => Registry[i].values["stale"] = "STALE"
        /\ "hit" \in DOMAIN Registry[i].values <=> "miss" \in DOMAIN Registry[i].values
    BY RegistryAssumption
  <2>. HIDE DEF headers
  <2>. QED BY <1>1, <2>1
<1>3. telling("hit") = telling("miss")
  BY <1>2
<1>4. \A word : telling(word) # {} => chosen(word) \in telling(word)
  <2>1. \A word : telling(word) \in SUBSET Nat
    BY RegistryAssumption
  <2>. QED BY <2>1, Minimum
<1>5. \A word : Reading(word) =
        IF telling(word) # {} THEN Told(headers(word), chosen(word))
        ELSE IF generic THEN GenericState(<<word>>) ELSE "unknown"
  <2>. SUFFICES ASSUME NEW word
                PROVE  Reading(word) = IF telling(word) # {} THEN Told(headers(word), chosen(word))
                                       ELSE IF generic THEN GenericState(<<word>>) ELSE "unknown"
    OBVIOUS
  <2>1. Reading(word) =
          IF marked # {} /\ Leftmost(marked) \in telling(word) THEN Told(headers(word), Leftmost(marked))
          ELSE IF telling(word) # {} THEN Told(headers(word), Leftmost(telling(word)))
          ELSE IF timing THEN GenericState(headers(word).fields["Server-Timing"])
          ELSE IF "X-Cache" \in setup.labels.fields THEN GenericState(headers(word).fields["X-Cache"])
          ELSE "unknown"
    BY DEF Reading, Detect, Marked
  <2>2. \A field \in setup.labels.fields : headers(word).fields[field] = <<word>>
    OBVIOUS
  <2>. QED BY <2>1, <2>2
<1>6. telling("hit") # {} => Reading("hit") = "HIT" /\ Reading("miss") = "MISS"
  <2>. HIDE DEF telling, chosen
  <2>1. ASSUME telling("hit") # {} PROVE chosen("hit") \in telling("hit") /\ chosen("miss") \in telling("miss")
    BY <2>1, <1>3, <1>4
  <2>. QED BY <2>1, <1>2, <1>3, <1>5 DEF telling
<1>7. telling("stale") # {} => Reading("stale") = "STALE"
  <2>. HIDE DEF chosen
  <2>. QED BY <1>2, <1>4, <1>5
<1>. HIDE DEF telling, chosen, headers, generic
<1>8. telling("hit") = {} =>
        /\ Reading("hit") = IF generic THEN "HIT" ELSE "unknown"
        /\ Reading("miss") = IF generic THEN "MISS" ELSE "unknown"
  BY <1>3, <1>5, GenericWords
<1>9. telling("stale") = {} => Reading("stale") \in {"STALE", "unknown"}
  BY <1>5, GenericWords
<1>. QED BY <1>6, <1>7, <1>8, <1>9

-----------------------------------------------------------------------------
(* What a request comes to *)

\* What an answer shows of an entry or a response.
LEMMA AnswerIs ==
  ASSUME EdgeInv, NEW e \in Responses, e.at <= clock, NEW word \in {"hit", "stale", "miss"}
  PROVE  /\ Answer(e, word) \in Answers
         /\ Answer(e, word).good = e.good /\ Answer(e, word).version = e.version
         /\ Answer(e, word).tag = e.tag /\ Answer(e, word).at = e.at
         /\ Answer(e, word).slow <=> word = "miss" /\ Does("slow")
         /\ ~Does("tiers") => Answer(e, word).state = Reading(word)
<1>. DEFINE a == Answer(e, word)
<1>1. a = [good |-> e.good, version |-> e.version, tag |-> e.tag, at |-> e.at,
           age |-> IF Does("hides-age") THEN 0 ELSE Age(e) \div Second,
           state |-> Detect(Headers(e, word)), slow |-> word = "miss" /\ Does("slow")]
  BY DEF Answer
<1>2. e.good \in BOOLEAN /\ e.version \in 0 .. 1 /\ e.tag \in 0 .. 1 /\ e.at \in 0 .. MaxClock /\ e.at <= clock
  BY DEF Responses
<1>3. (IF Does("hides-age") THEN 0 ELSE Age(e) \div Second) \in 0 .. MaxClock
  <2>1. Age(e) \in 0 .. MaxClock
    BY <1>2, EdgeAssumption DEF EdgeInv, Age
  <2>2. \A n \in 0 .. MaxClock : n \div 2 \in 0 .. MaxClock
    BY EdgeAssumption
  <2>3. Age(e) \div Second \in 0 .. MaxClock
    BY <2>1, <2>2, Zenon DEF Second
  <2>4. 0 \in 0 .. MaxClock
    BY EdgeAssumption
  <2>. QED BY <2>3, <2>4, Zenon
<1>4. Detect(Headers(e, word)) \in CacheStates \cup {"unknown"}
  BY DetectedState
<1>5. a \in Answers
  <2>1. (word = "miss" /\ Does("slow")) \in BOOLEAN
    OBVIOUS
  <2>. HIDE DEF a
  <2>. QED BY <1>1, <1>2, <1>3, <1>4, <2>1, Zenon DEF Answers
<1>6. ~Does("tiers") => Detect(Headers(e, word)) = Reading(word)
  BY DEF Headers, Reading
<1>7. /\ a.good = e.good /\ a.version = e.version /\ a.tag = e.tag /\ a.at = e.at
      /\ a.state = Detect(Headers(e, word)) /\ a.slow = (word = "miss" /\ Does("slow"))
  <2>. HIDE DEF a
  <2>. QED BY <1>1, Zenon
<1>. QED BY <1>5, <1>6, <1>7

\* What an outcome comes from and leaves.
Outcome(o, made, e, word) ==
    /\ o.answer = Answer(e, word)
    /\ \/ word = "hit" /\ e \in Fresh /\ o.left = cached
       \/ /\ word = "stale" /\ Fresh = {} /\ e \in Stale
          /\ \E r \in made : o.left = IF Does("refreshes") THEN Kept(r) ELSE cached
       \/ word = "stale" /\ Failed \in made /\ e \in Spare /\ o.left = cached
       \/ word = "miss" /\ Fresh = {} /\ Stale = {} /\ e \in made /\ o.left = Kept(e)

\* Every outcome is one of the four.
LEMMA OutcomeIs ==
  ASSUME NEW made, NEW o \in Outcomes(made)
  PROVE  \E e : \E word \in {"hit", "stale", "miss"} : Outcome(o, made, e, word)
<1>1. CASE Fresh # {}
  <2>1. PICK e \in Fresh : o = [answer |-> Answer(e, "hit"), left |-> cached]
    BY <1>1 DEF Outcomes
  <2>2. Outcome(o, made, e, "hit")
    BY <2>1 DEF Outcome
  <2>. QED BY <2>2
<1>2. CASE Fresh = {} /\ Stale # {}
  <2>1. PICK e \in Stale, r \in made :
          o = [answer |-> Answer(e, "stale"), left |-> IF Does("refreshes") THEN Kept(r) ELSE cached]
    BY <1>2 DEF Outcomes
  <2>2. Outcome(o, made, e, "stale")
    BY <1>2, <2>1 DEF Outcome
  <2>. QED BY <2>2
<1>3. CASE Fresh = {} /\ Stale = {} /\ Failed \in made /\ Spare # {}
  <2>1. PICK e \in Spare : o = [answer |-> Answer(e, "stale"), left |-> cached]
    BY <1>3 DEF Outcomes
  <2>2. Outcome(o, made, e, "stale")
    BY <1>3, <2>1 DEF Outcome
  <2>. QED BY <2>2
<1>4. CASE Fresh = {} /\ Stale = {} /\ ~(Failed \in made /\ Spare # {})
  <2>1. PICK e \in made : o = [answer |-> Answer(e, "miss"), left |-> Kept(e)]
    BY <1>4 DEF Outcomes
  <2>2. Outcome(o, made, e, "miss")
    BY <1>4, <2>1 DEF Outcome
  <2>. QED BY <2>2
<1>. QED BY <1>1, <1>2, <1>3, <1>4

\* What the origin makes is sound, and good while it is well.
LEMMA MadeIs ==
  ASSUME EdgeInv, NEW r \in Made
  PROVE  Sound(r) /\ r.good /\ r.at = clock
<1>1. PICK tag \in IF Does("flaps") THEN 0 .. 1 ELSE {0}, word \in IF Does("tiers") THEN {"miss", "hit"} ELSE {"miss"} :
        r = [good |-> TRUE, version |-> version, tag |-> tag, at |-> clock, tier |-> word]
  BY DEF Made
<1>2. tag \in 0 .. 1 /\ (tag = 0 \/ Does("flaps")) /\ word \in {"miss", "hit"} /\ (word = "miss" \/ Does("tiers"))
  BY <1>1
<1>3. clock \in 0 .. MaxClock /\ version \in 0 .. 1
  BY DEF EdgeInv
<1>4. r \in Responses
  BY <1>1, <1>2, <1>3 DEF Responses
<1>5. r.good /\ r.at = clock /\ r.version = version /\ r.tag = tag /\ r.tier = word
  BY <1>1
<1>. QED BY <1>2, <1>3, <1>4, <1>5 DEF Sound

-----------------------------------------------------------------------------
(* What a step does to the surroundings *)

Kinds == {"failure", "loss", "visit", "eviction", "change", "delay"}

Logged == events \subseteq events' /\ events' \subseteq Kinds /\ Cardinality(events') <= MaxEvents

\* What is cached then was cached before or has been made just now; and unless
\* it is evicted, the entry only gets younger.
Onward ==
    /\ EdgeInv' /\ setup' = setup /\ version <= version' /\ events \subseteq events'
    /\ clock <= clock' /\ clock' <= clock + 1
    /\ \A f \in cached' : f \in cached \/ f.at = clock
    /\ "eviction" \notin events' => \A e \in cached : \E f \in cached' : e.at <= f.at

\* What was sound stays so.
LEMMA SoundStays ==
  ASSUME EdgeInv, NEW e, Sound(e), setup' = setup, clock \in Nat, clock' \in Nat, clock <= clock',
         version' \in 0 .. 1, version <= version', events \subseteq events'
  PROVE  Sound(e)'
<1>1. e.at \in Nat /\ e.version \in 0 .. 1 /\ version \in 0 .. 1
  BY DEF Sound, Responses, EdgeInv
<1>. QED BY <1>1 DEF Sound, Does, Responses

\* Whatever is kept or not of a sound response.
LEMMA KeptOnward ==
  ASSUME EdgeInv, UNCHANGED <<setup, clock, version>>, Logged,
         cached' = cached \/ \E r : Sound(r)' /\ r.at = clock /\ cached' = Kept(r)
  PROVE  Onward
<1>1. clock \in Nat /\ version \in 0 .. 1 /\ \A e \in cached : Sound(e) /\ Keeps(e) /\ e.at \in Nat /\ e.at <= clock
  BY EdgeAssumption DEF EdgeInv, Sound, Responses
<1>2. \A e \in cached : Sound(e)'
  BY <1>1, SoundStays DEF Logged
<1>3. cached' = cached \/ \E r : Sound(r)' /\ r.at = clock /\ Keeps(r) /\ cached' = {r}
  BY DEF Kept, Keeps
<1>4. EdgeInv'
  <2>1. \A e \in cached' : Sound(e)' /\ Keeps(e)'
    BY <1>1, <1>2, <1>3 DEF Keeps, Does
  <2>2. cached' = {} \/ \E e \in cached' : cached' = {e}
    BY <1>3 DEF EdgeInv
  <2>3. Proper'
    BY DEF EdgeInv, Proper
  <2>4. version' = 0 \/ "change" \in events'
    BY DEF EdgeInv, Logged
  <2>. QED BY <2>1, <2>2, <2>3, <2>4 DEF EdgeInv, Logged, Kinds
<1>5. \A f \in cached' : f \in cached \/ f.at = clock
  BY <1>3
<1>6. \A e \in cached : \E f \in cached' : e.at <= f.at
  BY <1>1, <1>3
<1>. QED BY <1>1, <1>4, <1>5, <1>6 DEF Onward, Logged

\* A failed response is sound once the origin has failed.
LEMMA FailedIs ==
  ASSUME EdgeInv, UNCHANGED <<setup, clock, version>>, "failure" \in events', NEW r \in {Failed}
  PROVE  Sound(r)' /\ r.at = clock
<1>1. clock \in 0 .. MaxClock /\ version \in 0 .. 1
  BY DEF EdgeInv
<1>2. r \in Responses
  <2>1. 0 \in 0 .. 1 /\ FALSE \in BOOLEAN /\ "miss" \in {"miss", "hit"}
    OBVIOUS
  <2>2. r = [good |-> FALSE, version |-> 0, tag |-> 0, at |-> clock, tier |-> "miss"]
    BY DEF Failed
  <2>. QED BY <1>1, <2>1, <2>2, Zenon DEF Responses
<1>3. r.at = clock /\ r.version = 0 /\ r.tag = 0 /\ r.tier = "miss"
  BY DEF Failed
<1>. QED BY <1>1, <1>2, <1>3 DEF Sound, Responses

\* The entry or response an outcome comes from is sound, and what it leaves is kept.
LEMMA OutcomeOnward ==
  ASSUME EdgeInv, UNCHANGED <<setup, clock, version>>, Logged,
         NEW made, \A r \in made : Sound(r)' /\ r.at = clock,
         NEW o, NEW e, NEW word \in {"hit", "stale", "miss"}, Outcome(o, made, e, word)
  PROVE  Sound(e)' /\ (cached' = o.left => Onward)
<1>1. \A f \in cached : Sound(f)'
  <2>1. clock \in Nat /\ version \in 0 .. 1 /\ \A f \in cached : Sound(f)
    BY EdgeAssumption DEF EdgeInv
  <2>. QED BY <2>1, SoundStays DEF Logged
<1>2. e \in cached \cup made
  BY DEF Outcome, Fresh, Stale, Spare
<1>3. o.left = cached \/ \E r \in made : o.left = Kept(r)
  BY DEF Outcome
<1>. QED BY <1>1, <1>2, <1>3, KeptOnward

\* A request comes to one of the four outcomes.
LEMMA ComesIs ==
  ASSUME EdgeInv, NEW o, Comes(o)
  PROVE  /\ Onward /\ UNCHANGED <<setup, clock, version>> /\ cached' = o.left
         /\ \E e, made : \E word \in {"hit", "stale", "miss"} :
               /\ Outcome(o, made, e, word) /\ Sound(e)'
               /\ made = Made \/ (made = {Failed} /\ "failure" \in events')
<1>1. UNCHANGED <<setup, clock, version>> /\ cached' = o.left
  BY DEF Comes
<1>2. PICK made : /\ o \in Outcomes(made) /\ Logged /\ \A r \in made : Sound(r)' /\ r.at = clock
                  /\ made = Made \/ (made = {Failed} /\ "failure" \in events')
  <2>1. CASE o \in Outcomes(Made) /\ UNCHANGED events
    <3>1. Logged
      BY <2>1 DEF Logged, EdgeInv, Kinds
    <3>2. \A r \in Made : Sound(r)' /\ r.at = clock
      <4>1. clock \in Nat /\ version \in 0 .. 1
        BY EdgeAssumption DEF EdgeInv
      <4>. QED BY <1>1, <3>1, <4>1, MadeIs, SoundStays DEF Logged
    <3>. QED BY <2>1, <3>1, <3>2
  <2>2. CASE o \in Outcomes({Failed}) /\ Happens("failure")
    <3>1. Logged /\ "failure" \in events'
      BY <2>2 DEF Logged, EdgeInv, Kinds, Happens
    <3>. QED BY <1>1, <2>2, <3>1, FailedIs
  <2>. QED BY <2>1, <2>2 DEF Comes
<1>3. PICK e, word : word \in {"hit", "stale", "miss"} /\ Outcome(o, made, e, word)
  BY <1>2, OutcomeIs
<1>4. Sound(e)' /\ Onward
  BY <1>1, <1>2, <1>3, OutcomeOnward
<1>. QED BY <1>1, <1>2, <1>3, <1>4, Zenon

\* So does one that is not answered, and a user's.
LEMMA UnansweredOnward ==
  ASSUME EdgeInv, UNCHANGED <<setup, clock, version>>, Logged,
         cached' \in {cached} \cup {outcome.left : outcome \in Outcomes(Made)}
  PROVE  Onward
<1>1. CASE cached' = cached
  BY <1>1, KeptOnward
<1>2. CASE \E o \in Outcomes(Made) : cached' = o.left
  <2>1. PICK o \in Outcomes(Made) : cached' = o.left
    BY <1>2
  <2>2. PICK e, word : word \in {"hit", "stale", "miss"} /\ Outcome(o, Made, e, word)
    BY <2>1, OutcomeIs
  <2>3. \A r \in Made : Sound(r)' /\ r.at = clock
    <3>1. clock \in Nat /\ version \in 0 .. 1
      BY EdgeAssumption DEF EdgeInv
    <3>. QED BY <3>1, MadeIs, SoundStays DEF Logged
  <2>. QED BY <2>1, <2>2, <2>3, OutcomeOnward
<1>. QED BY <1>1, <1>2

\* Something that happens is counted.
LEMMA HappensLogged ==
  ASSUME EdgeInv, NEW kind \in Kinds, Happens(kind)
  PROVE  Logged /\ kind \in events'
BY DEF EdgeInv, Happens, Logged, Kinds

\* A request lost is one that is not answered.
LEMMA LostOnward ==
  ASSUME EdgeInv, Lost
  PROVE  Onward /\ UNCHANGED <<setup, clock, version>> /\ "loss" \in events'
BY HappensLogged, UnansweredOnward DEF Lost, Kinds

\* What goes on around the checks: users, the cache, the origin and time.
LEMMA AroundOnward ==
  ASSUME EdgeInv, Visit \/ Evict \/ Publish \/ \E due \in BOOLEAN : Tick(due)
  PROVE  Onward
<1>0. clock \in 0 .. MaxClock /\ version \in 0 .. 1 /\ MaxClock \in Nat
  BY EdgeAssumption DEF EdgeInv
<1>1. CASE Visit
  BY <1>1, HappensLogged, UnansweredOnward DEF Visit, Kinds
<1>2. CASE Evict
  <2>1. Logged /\ "eviction" \in events'
    BY <1>2, HappensLogged DEF Evict, Kinds
  <2>2. EdgeInv'
    BY <1>2, <2>1 DEF Evict, Logged, EdgeInv, Proper, Kinds
  <2>. QED BY <1>0, <1>2, <2>1, <2>2 DEF Onward, Evict, Logged
<1>3. CASE Publish
  <2>1. Logged /\ "change" \in events' /\ UNCHANGED <<setup, clock, cached>> /\ version = 0 /\ version' = 1
    BY <1>3, HappensLogged DEF Publish, Kinds
  <2>2. \A e \in cached : Sound(e)' /\ Keeps(e)'
    <3>1. \A e \in cached : Sound(e) /\ Keeps(e)
      BY DEF EdgeInv
    <3>2. \A e \in cached : Sound(e)'
      BY <1>0, <2>1, <3>1, SoundStays DEF Logged
    <3>3. \A e : Keeps(e)' <=> Keeps(e)
      BY <2>1 DEF Keeps, Does
    <3>. QED BY <2>1, <3>1, <3>2, <3>3
  <2>3. EdgeInv'
    BY <2>1, <2>2 DEF Logged, EdgeInv, Proper, Kinds
  <2>4. \A e \in cached : e.at \in Nat
    BY DEF EdgeInv, Sound, Responses
  <2>. QED BY <1>0, <2>1, <2>3, <2>4 DEF Onward, Logged
<1>4. CASE \E due \in BOOLEAN : Tick(due)
  <2>1. Logged /\ UNCHANGED <<setup, cached, version>> /\ clock < MaxClock /\ clock' = clock + 1
    BY <1>4, HappensLogged DEF Tick, Kinds, Logged, EdgeInv
  <2>2. \A e \in cached : Sound(e)' /\ Keeps(e)'
    <3>1. \A e \in cached : Sound(e) /\ Keeps(e)
      BY DEF EdgeInv
    <3>2. \A e \in cached : Sound(e)'
      BY <1>0, <2>1, <3>1, SoundStays DEF Logged
    <3>3. \A e : Keeps(e)' <=> Keeps(e)
      BY <2>1 DEF Keeps, Does
    <3>. QED BY <2>1, <3>1, <3>2, <3>3
  <2>3. EdgeInv'
    BY <1>0, <2>1, <2>2 DEF Logged, EdgeInv, Proper, Kinds
  <2>4. \A e \in cached : e.at \in Nat
    BY DEF EdgeInv, Sound, Responses
  <2>. QED BY <1>0, <2>1, <2>3, <2>4 DEF Onward, Logged
<1>. QED BY <1>1, <1>2, <1>3, <1>4

\* All numbers are natural.
LEMMA Numbers ==
  ASSUME EdgeInv
  PROVE  /\ clock \in Nat /\ MaxClock \in Nat /\ \A e \in cached : e.at \in Nat /\ e.at <= clock
         /\ setup.keeps \in Nat /\ setup.interval \in Nat /\ setup.maxWait \in Nat /\ setup.samples \in Nat \ {0}
         /\ \A directive : Window(directive) \in Nat
         /\ WhileRevalidating = setup.keeps + Window("stale-while-revalidate")
<1>1. MaxClock \in Nat /\ clock \in Nat
  BY EdgeAssumption DEF EdgeInv
<1>2. \A e \in cached : e.at \in Nat /\ e.at <= clock
  BY <1>1 DEF EdgeInv, Sound, Responses
<1>3. setup.keeps \in Nat /\ setup.interval \in Nat /\ setup.maxWait \in Nat /\ setup.samples \in Nat \ {0}
  BY DEF EdgeInv, Proper
<1>4. \A directive : Window(directive) \in Nat
  BY DEF EdgeInv, Proper, Window, Second
<1>. QED BY <1>1, <1>2, <1>3, <1>4 DEF WhileRevalidating

\* After a step as well.
LEMMA NumbersThen ==
  ASSUME EdgeInv, Onward
  PROVE  clock' \in Nat /\ (\A f \in cached' : f.at \in Nat /\ f.at <= clock') /\ WhileRevalidating' = WhileRevalidating
         /\ \A directive : Window(directive)' = Window(directive)
<1>1. EdgeInv' /\ MaxClock \in Nat /\ setup' = setup
  BY EdgeAssumption DEF Onward
<1>2. clock' \in Nat
  BY <1>1 DEF EdgeInv
<1>3. \A f \in cached' : f.at \in Nat /\ f.at <= clock'
  BY <1>1 DEF EdgeInv, Sound, Responses
<1>. QED BY <1>1, <1>2, <1>3 DEF WhileRevalidating, Window

-----------------------------------------------------------------------------
(* The analysis *)

\* An answer had is an answer had.
LEMMA SeenStays ==
  ASSUME EdgeInv, Onward, NEW a, Seen(a)
  PROVE  Seen(a)'
<1>1. a.at \in 0 .. MaxClock /\ a.version \in 0 .. 1 /\ version \in 0 .. 1 /\ version' \in 0 .. 1
  BY DEF Seen, Answers, EdgeInv, Onward
<1>2. clock \in Nat /\ clock' \in Nat /\ clock <= clock' /\ version <= version' /\ events \subseteq events' /\ setup' = setup
  BY EdgeAssumption DEF EdgeInv, Onward
<1>3. MaxClock \in Nat
  BY EdgeAssumption
<1>. QED BY <1>1, <1>2, <1>3 DEF Seen, Answers, Does

\* What a request comes to is seen.
LEMMA ComesSeen ==
  ASSUME EdgeInv, NEW o, Comes(o)
  PROVE  Seen(o.answer)'
<1>1. PICK e, made, word : /\ word \in {"hit", "stale", "miss"}
                           /\ Outcome(o, made, e, word) /\ Sound(e)'
  BY ComesIs
<1>2. Onward /\ UNCHANGED <<setup, clock, version>>
  BY ComesIs
<1>3. e \in Responses /\ e.at <= clock /\ e.version <= version' /\ (e.tag = 0 \/ Does("flaps")) /\ (e.good \/ "failure" \in events')
  BY <1>1, <1>2 DEF Sound, Responses, Does
<1>4. Answer(e, word) \in Answers
      /\ Answer(e, word).good = e.good /\ Answer(e, word).version = e.version
      /\ Answer(e, word).tag = e.tag /\ Answer(e, word).at = e.at
  BY <1>1, <1>3, AnswerIs
<1>5. o.answer = Answer(e, word)
  BY <1>1 DEF Outcome
<1>. QED BY <1>2, <1>3, <1>4, <1>5 DEF Seen, Answers, Does

\* The analysis keeps its invariant when it is made.
LEMMA AnalyzeKeeps ==
  ASSUME EdgeInv, AnalysisInv, Analyze
  PROVE  Onward /\ AnalysisInv'
<1>1. CASE Lost /\ analysis' = [analysis EXCEPT !.pc = "missing"]
  <2>1. Onward
    BY <1>1, LostOnward
  <2>2. analysis' = [pc |-> "missing", response |-> analysis.response, at |-> analysis.at]
    BY <1>1 DEF AnalysisInv
  <2>. QED BY <1>1, <2>1, <2>2, LostOnward DEF AnalysisInv, Known, ErrorResponse, Onward
<1>2. ASSUME NEW o, Comes(o),
             analysis' = [pc |-> "known", at |-> o.answer.at,
                          response |-> IF o.answer.good THEN setup.response ELSE ErrorResponse]
      PROVE  Onward /\ AnalysisInv'
  <2>1. Onward /\ UNCHANGED <<setup, clock, version>> /\ Seen(o.answer)' /\ cached' = o.left
    BY <1>2, ComesIs, ComesSeen
  <2>2. /\ analysis'.pc = "known" /\ analysis'.at = o.answer.at
        /\ analysis'.response = IF o.answer.good THEN setup.response ELSE ErrorResponse
        /\ analysis' = [pc |-> analysis'.pc, response |-> analysis'.response, at |-> analysis'.at]
    BY <1>2
  <2>3. o.answer.at \in 0 .. clock' /\ (o.answer.good \/ "failure" \in events')
    BY <2>1, EdgeAssumption DEF Seen, Answers, Onward, EdgeInv
  <2>4. ASSUME "failure" \notin events', Does("stores") PROVE \A f \in cached' : o.answer.at <= f.at
    <3>1. PICK e, made, word : /\ word \in {"hit", "stale", "miss"}
                               /\ Outcome(o, made, e, word) /\ Sound(e)' /\ made = Made
      BY <1>2, <2>4, ComesIs
    <3>2. e \in Responses /\ e.at <= clock /\ e.at \in Nat /\ clock \in Nat
      BY <2>1, <3>1, EdgeAssumption DEF Sound, Responses, EdgeInv
    <3>3. o.answer.at = e.at
      BY <3>1, <3>2, AnswerIs DEF Outcome
    <3>4. \A r \in Made : Kept(r) = {r} /\ r.at = clock
      BY <2>4, MadeIs DEF Kept
    <3>5. e \in cached => cached = {e}
      BY DEF EdgeInv
    <3>6. Failed \notin Made
      BY MadeIs DEF Failed
    <3>7. cached' \in {cached, {e}} \/ \E r \in Made : cached' = {r}
      BY <2>1, <3>1, <3>4 DEF Outcome
    <3>8. e \in cached \/ cached' = {e}
      BY <2>1, <3>1, <3>4, <3>6 DEF Outcome, Fresh, Stale
    <3>. QED BY <3>2, <3>3, <3>4, <3>5, <3>7, <3>8
  <2>5. ErrorResponse' = ErrorResponse /\ setup' = setup
    BY <2>1 DEF ErrorResponse
  <2>. QED BY <2>1, <2>2, <2>3, <2>4, <2>5 DEF AnalysisInv, Known, Does
<1>. QED BY <1>1, <1>2 DEF Analyze

\* What is cached later is no older.
LEMMA AnalysisStays ==
  ASSUME EdgeInv, AnalysisInv, Onward, UNCHANGED analysis
  PROVE  AnalysisInv'
<1>1. setup' = setup /\ ErrorResponse' = ErrorResponse /\ events \subseteq events'
  BY DEF ErrorResponse, Onward
<1>2. clock \in Nat /\ clock' \in Nat /\ clock <= clock'
  BY EdgeAssumption DEF EdgeInv, Onward
<1>3. Known' => Known
  BY DEF Known
<1>4. \A f \in cached' : f \in cached \/ f.at = clock
  BY DEF Onward
<1>. QED BY <1>1, <1>2, <1>3, <1>4 DEF AnalysisInv, Known, Does

\* A failed response says nothing of caching.
LEMMA ErrorUncacheable == ~Cacheable(ErrorResponse)
BY DEF Cacheable, ErrorResponse, Explicit, Lifetimes, StatusDefaultCacheable

-----------------------------------------------------------------------------
(* Consistency *)

\* Later answers and events change nothing of what has been said.
LEMMA ConsistencyStays ==
  ASSUME EdgeInv, ConsistencyInv, Onward, UNCHANGED consistency
  PROVE  ConsistencyInv'
<1>1. setup' = setup /\ events \subseteq events'
  BY DEF Onward
<1>2. consistency.pc \in {"conditional", "again"} => Seen(consistency.base)'
  BY SeenStays DEF ConsistencyInv
<1>3. ValidatorsGenuine'
  BY <1>1 DEF ConsistencyInv, ValidatorsGenuine, Does
<1>. QED BY <1>2, <1>3 DEF ConsistencyInv, Answers, Seen

\* The three requests, each answered or not: what the check then holds.
LEMMA ConsistencyGoesOn ==
  ASSUME EdgeInv, ConsistencyInv, Onward,
         NEW pc \in {"conditional", "again", "done"}, NEW findings \in SUBSET {"redirect", "not-honored", "unstable"},
         NEW base \in Answers, pc # "done" => Seen(base)',
         consistency' = [pc |-> pc, base |-> base, findings |-> findings],
         "unstable" \in findings => Does("flaps"),
         "not-honored" \in findings /\ events' \cap {"change", "failure"} = {} /\ ~Does("flaps") => ~Does("answers-304"),
         "redirect" \in findings => Cacheable(setup.response) /\ ~Explicit(setup.response)
  PROVE  ConsistencyInv'
<1>1. setup' = setup
  BY DEF Onward
<1>2. consistency'.pc = pc /\ consistency'.base = base /\ consistency'.findings = findings
  OBVIOUS
<1>3. consistency' \in [pc : {"off", "base", "conditional", "again", "done"}, base : Answers,
                        findings : SUBSET {"redirect", "not-honored", "unstable"}]
  BY Zenon
<1>4. Answers' = Answers
  BY DEF Answers
<1>5. ValidatorsGenuine'
  BY <1>1, <1>2 DEF ValidatorsGenuine, Does
<1>. QED BY <1>2, <1>3, <1>4, <1>5 DEF ConsistencyInv

\* The consistency check keeps its invariant.
LEMMA ConsistencyKeeps ==
  ASSUME EdgeInv, AnalysisInv, ConsistencyInv, Consistency!Next
  PROVE  Onward /\ ConsistencyInv' /\ UNCHANGED analysis
<1>. DEFINE c == consistency
<1>0. PICK base : base = consistency.base
  OBVIOUS
<1>1. /\ c = [pc |-> c.pc, base |-> base, findings |-> c.findings]
      /\ base \in Answers /\ c.findings \in SUBSET {"redirect", "not-honored", "unstable"}
  BY <1>0 DEF ConsistencyInv
<1>2. ASSUME NEW o, Comes(o)
      PROVE  /\ Onward /\ Seen(o.answer)' /\ o.answer \in Answers /\ setup' = setup /\ version' = version
             /\ c.pc \in {"conditional", "again"} => Seen(base)'
  <2>1. Onward /\ Seen(o.answer)' /\ setup' = setup /\ version' = version
    BY <1>2, ComesIs, ComesSeen
  <2>2. o.answer \in Answers
    BY <2>1 DEF Seen, Answers
  <2>3. c.pc \in {"conditional", "again"} => Seen(base)
    BY <1>0 DEF ConsistencyInv
  <2>. QED BY <2>1, <2>2, <2>3, SeenStays
<1>3. ASSUME Lost
      PROVE  Onward /\ setup' = setup /\ (c.pc \in {"conditional", "again"} => Seen(base)')
  <2>1. Onward /\ setup' = setup
    BY <1>3, LostOnward
  <2>2. c.pc \in {"conditional", "again"} => Seen(base)
    BY <1>0 DEF ConsistencyInv
  <2>. QED BY <2>1, <2>2, SeenStays
<1>4. /\ "unstable" \in c.findings => Does("flaps")
      /\ "redirect" \in c.findings => Cacheable(setup.response) /\ ~Explicit(setup.response)
      /\ Onward => ("not-honored" \in c.findings /\ events' \cap {"change", "failure"} = {} /\ ~Does("flaps")
                        => ~Does("answers-304"))
  BY DEF ConsistencyInv, ValidatorsGenuine, Onward
<1>5. ASSUME Consistency!BaseRequest PROVE Onward /\ ConsistencyInv'
  <2>1. CASE Lost /\ consistency' = [consistency EXCEPT !.pc = "done"]
    <3>1. consistency' = [pc |-> "done", base |-> base, findings |-> c.findings]
      BY <1>0, <1>1, <2>1
    <3>. QED BY <1>1, <1>3, <1>4, <2>1, <3>1, ConsistencyGoesOn
  <2>2. ASSUME NEW o, Comes(o),
               consistency' = [pc |-> IF o.answer.good /\ setup.response.validators # {} THEN "conditional" ELSE "done",
                               base |-> o.answer,
                               findings |-> IF o.answer.good /\ Consistency!HeuristicRedirect THEN {"redirect"} ELSE {}]
        PROVE  Onward /\ ConsistencyInv'
    <3>1. Consistency!HeuristicRedirect => Cacheable(setup.response) /\ ~Explicit(setup.response)
      BY ErrorUncacheable, ConsistencyCacheable DEF Consistency!HeuristicRedirect, AnalysisInv
    <3>. DEFINE pc == IF o.answer.good /\ setup.response.validators # {} THEN "conditional" ELSE "done"
                findings == IF o.answer.good /\ Consistency!HeuristicRedirect THEN {"redirect"} ELSE {}
    <3>2. pc \in {"conditional", "done"} /\ findings \in SUBSET {"redirect"}
          /\ ("redirect" \in findings => Cacheable(setup.response) /\ ~Explicit(setup.response))
      BY <3>1
    <3>0. PICK a : a = o.answer
      OBVIOUS
    <3>3. consistency' = [pc |-> pc, base |-> a, findings |-> findings]
      BY <2>2, <3>0
    <3>. HIDE DEF pc, findings
    <3>4. pc \in {"conditional", "again", "done"} /\ findings \in SUBSET {"redirect", "not-honored", "unstable"}
          /\ "unstable" \notin findings /\ "not-honored" \notin findings
      BY <3>2
    <3>5. Onward /\ Seen(a)' /\ a \in Answers
      BY <1>2, <2>2, <3>0
    <3>. QED BY <3>2, <3>3, <3>4, <3>5, ConsistencyGoesOn
  <2>. QED BY <1>5, <2>1, <2>2, ConsistencyRequests DEF Consistency!BaseRequest
<1>6. ASSUME Consistency!ConditionalRequest PROVE Onward /\ ConsistencyInv'
  <2>. DEFINE pc == IF Consistency!HasETag THEN "again" ELSE "done"
  <2>0. c.pc = "conditional" /\ pc \in {"again", "done"}
    BY <1>6 DEF Consistency!ConditionalRequest, Consistency!At
  <2>1. CASE Lost /\ consistency' = [consistency EXCEPT !.pc = pc]
    <3>1. consistency' = [pc |-> pc, base |-> base, findings |-> c.findings]
      BY <1>0, <1>1, <2>1
    <3>. HIDE DEF pc
    <3>. QED BY <1>1, <1>3, <1>4, <2>0, <2>1, <3>1, ConsistencyGoesOn
  <2>2. ASSUME NEW o, Comes(o),
               consistency' = [Consistency!Found("not-honored", ~Consistency!NotModified(o.answer)) EXCEPT !.pc = pc]
        PROVE  Onward /\ ConsistencyInv'
    <3>. DEFINE findings == IF ~Consistency!NotModified(o.answer) THEN c.findings \cup {"not-honored"} ELSE c.findings
    <3>1. consistency' = [pc |-> pc, base |-> base, findings |-> findings]
      BY <1>0, <1>1, <2>2 DEF Consistency!Found
    <3>2. ASSUME events' \cap {"change", "failure"} = {}, ~Does("flaps"), Does("answers-304")
          PROVE  Consistency!NotModified(o.answer)
      <4>1. o.answer.good /\ o.answer.tag = 0 /\ base.tag = 0 /\ setup' = setup
        BY <1>2, <2>0, <2>2, <3>2 DEF Seen, Does
      <4>2. version' = 0 /\ o.answer.version = 0 /\ base.version = 0
        <5>1. Seen(o.answer)' /\ Seen(base)' /\ EdgeInv'
          BY <1>2, <2>0, <2>2 DEF Onward
        <5>2. version' = 0
          BY <3>2, <5>1 DEF EdgeInv
        <5>. QED BY <5>1, <5>2 DEF Seen, Answers
      <4>3. Consistency!Does("answers-304")
        BY <3>2, ConsistencyCache
      <4>. QED BY <1>0, <4>1, <4>2, <4>3 DEF Consistency!NotModified, Consistency!Matches
    <3>4. /\ "unstable" \in findings => Does("flaps")
          /\ "redirect" \in findings => Cacheable(setup.response) /\ ~Explicit(setup.response)
          /\ "not-honored" \in findings /\ events' \cap {"change", "failure"} = {} /\ ~Does("flaps") => ~Does("answers-304")
          /\ findings \in SUBSET {"redirect", "not-honored", "unstable"}
      BY <1>1, <1>2, <1>4, <2>2, <3>2
    <3>. HIDE DEF pc, findings
    <3>. QED BY <1>1, <1>2, <2>0, <2>2, <3>1, <3>4, ConsistencyGoesOn
  <2>. QED BY <1>6, <2>1, <2>2, ConsistencyRequests DEF Consistency!ConditionalRequest
<1>7. ASSUME Consistency!AgainRequest PROVE Onward /\ ConsistencyInv'
  <2>0. c.pc = "again"
    BY <1>7 DEF Consistency!AgainRequest, Consistency!At
  <2>1. CASE Lost /\ consistency' = [consistency EXCEPT !.pc = "done"]
    <3>1. consistency' = [pc |-> "done", base |-> base, findings |-> c.findings]
      BY <1>0, <1>1, <2>1
    <3>. QED BY <1>1, <1>3, <1>4, <2>1, <3>1, ConsistencyGoesOn
  <2>2. ASSUME NEW o, Comes(o),
               consistency' = [Consistency!Found("unstable", Consistency!Unstable(o.answer)) EXCEPT !.pc = "done"]
        PROVE  Onward /\ ConsistencyInv'
    <3>. DEFINE findings == IF Consistency!Unstable(o.answer) THEN c.findings \cup {"unstable"} ELSE c.findings
    <3>1. consistency' = [pc |-> "done", base |-> base, findings |-> findings]
      BY <1>0, <1>1, <2>2 DEF Consistency!Found
    <3>2. Consistency!Unstable(o.answer) => Does("flaps")
      BY <1>0, <1>2, <2>0, <2>2 DEF Seen, Does, Consistency!Unstable
    <3>4. /\ "unstable" \in findings => Does("flaps")
          /\ "redirect" \in findings => Cacheable(setup.response) /\ ~Explicit(setup.response)
          /\ "not-honored" \in findings /\ events' \cap {"change", "failure"} = {} /\ ~Does("flaps") => ~Does("answers-304")
          /\ findings \in SUBSET {"redirect", "not-honored", "unstable"}
      BY <1>1, <1>2, <1>4, <2>2, <3>2
    <3>. HIDE DEF findings
    <3>. QED BY <1>1, <1>2, <2>2, <3>1, <3>4, ConsistencyGoesOn
  <2>. QED BY <1>7, <2>1, <2>2, ConsistencyRequests DEF Consistency!AgainRequest
<1>8. UNCHANGED analysis
  BY DEF Consistency!Next, Consistency!BaseRequest, Consistency!ConditionalRequest, Consistency!AgainRequest
<1>. QED BY <1>5, <1>6, <1>7, <1>8 DEF Consistency!Next

-----------------------------------------------------------------------------
(* Live state *)

\* The next sample is not late.
LiveOnTime == clock' = clock \/ "delay" \in events' \/ ~LiveState!Due

\* How a status reads is a matter of the labels.
LEMMA ReadingStays == ASSUME setup' = setup, NEW word PROVE Reading(word)' = Reading(word)
BY DEF Reading

\* The entry watched stays fresh while the others go on.
LEMMA LiveStays ==
  ASSUME EdgeInv, LiveTypes, LiveInv, Onward, UNCHANGED live, LiveOnTime
  PROVE  LiveTypes' /\ LiveInv'
<1>1. setup' = setup /\ events \subseteq events'
  BY DEF Onward
<1>2. LiveTypes'
  BY <1>1 DEF LiveTypes
<1>3. ASSUME live.pc = "sample", live.taken > 0, Watched', Reading("miss")' = "MISS"
      PROVE  \/ live.hits > 0
             \/ clock' <= live.due /\ \E f \in cached' : live.due < f.at + setup.keeps
  <2>1. Watched /\ Reading("miss") = "MISS" /\ {"eviction", "delay"} \cap events' = {}
    BY <1>1, <1>3, ReadingStays DEF Watched, Does
  <2>2. CASE clock <= live.due /\ \E e \in cached : live.due < e.at + setup.keeps
    <3>1. PICK e \in cached : live.due < e.at + setup.keeps
      BY <2>2
    <3>2. PICK f \in cached' : e.at <= f.at
      BY <2>1, <3>1 DEF Onward
    <3>3. e.at \in Nat /\ f.at \in Nat /\ setup.keeps \in Nat /\ live.due \in Nat /\ clock \in Nat /\ clock' \in Nat
      BY <3>1, <3>2, Numbers, NumbersThen DEF LiveTypes
    <3>4. clock' <= live.due
      BY <1>3, <2>1, <2>2, <3>3 DEF LiveOnTime, LiveState!Due, LiveState!Running, Onward
    <3>. QED BY <3>1, <3>2, <3>3, <3>4
  <2>. QED BY <1>3, <2>1, <2>2 DEF LiveInv
<1>4. CacheVerdictsGenuine'
  BY <1>1 DEF LiveInv, CacheVerdictsGenuine, Does
<1>5. Reading("miss")' = Reading("miss")
  BY <1>1, ReadingStays
<1>. QED BY <1>1, <1>2, <1>3, <1>4, <1>5 DEF LiveInv, Does

\* What a sample's status says of its outcome: how it is read where this cache
\* alone handles it, and what a HIT takes.
LEMMA SampleState ==
  ASSUME EdgeInv, NEW o, Comes(o)
  PROVE  /\ o.answer.state \in CacheStates \cup {"unknown"}
         /\ ~Does("tiers") /\ Reading("miss") # "MISS" => o.answer.state # "MISS"
         /\ o.answer.state = "HIT" => "failure" \in events' \/ Does("stores") \/ Does("tiers")
<1>1. PICK e, made, word : /\ word \in {"hit", "stale", "miss"}
                           /\ Outcome(o, made, e, word) /\ Sound(e)'
  BY ComesIs
<1>2. Onward /\ UNCHANGED <<setup, clock, version>>
  BY ComesIs
<1>3. e \in Responses /\ e.at <= clock /\ (e.good \/ "failure" \in events')
  BY <1>1, <1>2 DEF Sound, Responses
<1>4. Answer(e, word) \in Answers /\ o.answer = Answer(e, word)
      /\ (~Does("tiers") => o.answer.state = Reading(word))
  BY <1>1, <1>3, AnswerIs DEF Outcome
<1>5. o.answer.state \in CacheStates \cup {"unknown"}
  BY <1>4 DEF Answers
<1>6. ~Does("tiers") /\ Reading("miss") # "MISS" => o.answer.state # "MISS"
  BY <1>1, <1>4, Readings
<1>7. ASSUME o.answer.state = "HIT", "failure" \notin events', ~Does("tiers") PROVE Does("stores")
  <2>1. word = "hit"
    BY <1>1, <1>4, <1>7, Readings
  <2>2. e \in cached /\ e.good
    BY <1>1, <1>3, <1>7, <2>1 DEF Outcome, Fresh
  <2>. QED BY <2>2 DEF EdgeInv, Keeps
<1>. QED BY <1>5, <1>6, <1>7

\* Where a cache is watched that keeps what it is given, a sample is a HIT or renews
\* the entry, and is a HIT if an entry is fresh.
LEMMA SampleWatched ==
  ASSUME EdgeInv, NEW o, Comes(o), Watched', Reading("miss") = "MISS"
  PROVE  /\ o.answer.state = "HIT" \/ \E f \in cached' : f.at = clock
         /\ Fresh # {} => o.answer.state = "HIT"
<1>1. Onward /\ UNCHANGED <<setup, clock, version>> /\ cached' = o.left
  BY ComesIs
<1>2. "failure" \notin events' /\ ~Does("tiers") /\ Does("stores") /\ (Does("serves-stale") => Does("refreshes"))
  BY <1>1 DEF Watched, Does
<1>3. PICK e, word : word \in {"hit", "stale", "miss"} /\ Outcome(o, Made, e, word) /\ Sound(e)'
  BY <1>2, ComesIs
<1>4. e \in Responses /\ e.at <= clock
  BY <1>1, <1>3 DEF Sound, Responses
<1>5. o.answer.state = Reading(word)
  BY <1>2, <1>3, <1>4, AnswerIs DEF Outcome
<1>6. \A r \in Made : Kept(r) = {r} /\ r.at = clock
  BY <1>2, MadeIs DEF Kept
<1>7. Failed \notin Made
  BY MadeIs DEF Failed
<1>8. CASE word = "hit"
  BY <1>5, <1>8, Readings
<1>9. CASE word # "hit"
  <2>1. Fresh = {} /\ \E r \in Made : cached' = Kept(r)
    BY <1>1, <1>2, <1>3, <1>7, <1>9 DEF Outcome, Stale
  <2>. QED BY <1>6, <2>1
<1>. QED BY <1>8, <1>9

\* The live-state check keeps its invariant.
LEMMA LiveKeeps ==
  ASSUME EdgeInv, AnalysisInv, LiveTypes, LiveInv, LiveState!Sample
  PROVE  Onward /\ LiveTypes' /\ LiveInv' /\ UNCHANGED analysis
<1>0. UNCHANGED analysis /\ live.pc = "sample" /\ live.due <= clock
  BY DEF LiveState!Sample
<1>5. live = [pc |-> live.pc, taken |-> live.taken, hits |-> live.hits, misses |-> live.misses, told |-> live.told,
              due |-> live.due, findings |-> live.findings]
  BY DEF LiveTypes
<1>6. live.told \in BOOLEAN /\ live.findings \in SUBSET {"not-cached", "status-cached", "uncacheable-cached"}
  BY DEF LiveTypes
<1>1. /\ live.taken \in Nat /\ live.hits \in Nat /\ live.misses \in Nat /\ live.due \in Nat /\ setup.samples \in Nat
      /\ live.taken < setup.samples /\ live.hits <= live.taken /\ live.misses <= live.taken
  BY <1>0, Numbers DEF LiveTypes
<1>2. ASSUME Onward PROVE setup' = setup /\ events \subseteq events' /\ Reading("miss")' = Reading("miss")
  BY <1>2, ReadingStays DEF Onward
<1>3. ASSUME Lost, live' = [live EXCEPT !.pc = "done"]
      PROVE  Onward /\ LiveTypes' /\ LiveInv'
  <2>1. Onward /\ setup' = setup /\ events \subseteq events' /\ Reading("miss")' = Reading("miss")
    BY <1>2, <1>3, LostOnward
  <2>2. live' = [pc |-> "done", taken |-> live.taken, hits |-> live.hits, misses |-> live.misses, told |-> live.told,
                 due |-> live.due, findings |-> live.findings]
    BY <1>3, <1>5
  <2>3. live' \in [pc : {"off", "sample", "done"}, taken : Nat, hits : Nat, misses : Nat, told : BOOLEAN, due : Nat,
                   findings : SUBSET {"not-cached", "status-cached", "uncacheable-cached"}]
    BY <1>1, <1>6, <2>2, Zenon
  <2>4. /\ live'.pc = "done" /\ live'.taken = live.taken /\ live'.hits = live.hits /\ live'.misses = live.misses
        /\ live'.findings = live.findings
    BY <2>2
  <2>5. LiveTypes'
    BY <1>1, <2>1, <2>3, <2>4 DEF LiveTypes
  <2>6. CacheVerdictsGenuine'
    BY <2>1, <2>4 DEF LiveInv, CacheVerdictsGenuine, Does
  <2>. QED BY <2>1, <2>4, <2>5, <2>6 DEF LiveInv, Does
<1>4. ASSUME NEW o, Comes(o), NEW counts, counts = LiveState!Counted(o.answer.state),
             live' = IF counts.taken < setup.samples THEN counts
                     ELSE [counts EXCEPT !.pc = "done", !.findings = LiveState!Verdicts(counts)]
      PROVE  Onward /\ LiveTypes' /\ LiveInv'
  <2>. DEFINE state == o.answer.state
              hits == IF state = "HIT" THEN live.hits + 1 ELSE live.hits
              misses == IF state = "MISS" THEN live.misses + 1 ELSE live.misses
              told == live.told \/ state # "unknown"
  <2>1. Onward /\ setup' = setup /\ clock' = clock /\ events \subseteq events' /\ Reading("miss")' = Reading("miss")
    BY <1>2, <1>4, ComesIs
  <2>2. counts = [pc |-> "sample", taken |-> live.taken + 1, hits |-> hits, misses |-> misses, told |-> told,
                  due |-> clock + setup.interval, findings |-> live.findings]
    BY <1>0, <1>4, <1>5 DEF LiveState!Counted
  <2>3. /\ live.taken \in Nat /\ live.hits \in Nat /\ live.misses \in Nat
        /\ hits \in Nat /\ misses \in Nat /\ hits <= live.taken + 1 /\ misses <= live.taken + 1
        /\ state # "MISS" => misses = live.misses
        /\ state = "HIT" => hits > 0
        /\ state # "HIT" => hits = live.hits
        /\ live.hits # 0 => hits > 0
    BY <1>1
  <2>. HIDE DEF hits, misses
  <2>4. counts.taken = live.taken + 1 /\ counts.hits = hits /\ counts.misses = misses
    BY <2>2
  <2>5. clock + setup.interval \in Nat /\ live.taken + 1 \in Nat /\ told \in BOOLEAN /\ setup.samples \in Nat
    BY <1>1, Numbers
  <2>. HIDE DEF told
  <2>6. LiveState!Verdicts(counts) \in SUBSET {"not-cached", "status-cached", "uncacheable-cached"}
    BY DEF LiveState!Verdicts
  <2>7. PICK pc, findings :
          /\ pc \in {"sample", "done"} /\ findings \in SUBSET {"not-cached", "status-cached", "uncacheable-cached"}
          /\ live' = [pc |-> pc, taken |-> live.taken + 1, hits |-> hits, misses |-> misses, told |-> told,
                      due |-> clock + setup.interval, findings |-> findings]
          /\ pc = "sample" <=> live.taken + 1 < setup.samples
          /\ findings = live.findings \/ (findings = LiveState!Verdicts(counts) /\ live.taken + 1 = setup.samples)
    <3>1. CASE live.taken + 1 < setup.samples
      <4>1. live' = counts
        BY <1>4, <2>4, <3>1
      <4>. QED BY <1>6, <2>2, <3>1, <4>1
    <3>2. CASE ~(live.taken + 1 < setup.samples)
      <4>1. live' = [pc |-> "done", taken |-> live.taken + 1, hits |-> hits, misses |-> misses, told |-> told,
                     due |-> clock + setup.interval, findings |-> LiveState!Verdicts(counts)]
        <5>. DEFINE verdicts == LiveState!Verdicts(counts)
        <5>1. live' = [counts EXCEPT !.pc = "done", !.findings = verdicts]
          BY <1>4, <2>4, <3>2
        <5>. DEFINE record == [pc |-> "done", taken |-> live.taken + 1, hits |-> hits, misses |-> misses, told |-> told,
                               due |-> clock + setup.interval, findings |-> verdicts]
                    Fields == {"pc", "taken", "hits", "misses", "told", "due", "findings"}
                    value(field) == IF field = "findings" THEN verdicts ELSE IF field = "pc" THEN "done" ELSE counts[field]
        <5>. HIDE DEF verdicts
        <5>2. [counts EXCEPT !.pc = "done", !.findings = verdicts] = [field \in Fields |-> value(field)]
          BY <2>2
        <5>3. record = [field \in Fields |-> record[field]]
          OBVIOUS
        <5>4. \A field \in Fields : record[field] = value(field)
          BY <2>2
        <5>5. live' = record
          BY <5>1, <5>2, <5>3, <5>4, Zenon
        <5>. QED BY <5>5 DEF verdicts
      <4>2. live.taken + 1 = setup.samples
        BY <1>1, <2>5, <3>2
      <4>. QED BY <2>6, <3>2, <4>1, <4>2
    <3>. QED BY <3>1, <3>2
  <2>8. live' \in [pc : {"off", "sample", "done"}, taken : Nat, hits : Nat, misses : Nat, told : BOOLEAN, due : Nat,
                   findings : SUBSET {"not-cached", "status-cached", "uncacheable-cached"}]
    <3>1. pc \in {"off", "sample", "done"}
      BY <2>7
    <3>. QED BY <2>3, <2>5, <2>7, <3>1, Zenon
  <2>9. /\ live'.pc = pc /\ live'.taken = live.taken + 1 /\ live'.hits = hits /\ live'.misses = misses
        /\ live'.due = clock + setup.interval /\ live'.findings = findings
    BY <2>7
  <2>10. LiveTypes'
    <3>1. live.taken + 1 <= setup.samples
      BY <1>1
    <3>. QED BY <2>1, <2>3, <2>7, <2>8, <2>9, <3>1 DEF LiveTypes
  <2>11. ~Does("tiers") /\ Reading("miss") # "MISS" => misses = 0
    <3>1. ~Does("tiers") /\ Reading("miss") # "MISS" => state # "MISS" /\ live.misses = 0
      BY <1>4, SampleState DEF LiveInv
    <3>. QED BY <2>3, <3>1
  <2>12. hits > 0 => "failure" \in events' \/ Does("stores") \/ Does("tiers")
    BY <1>4, <2>1, <2>3, SampleState DEF LiveInv
  <2>13. ASSUME Watched', Reading("miss") = "MISS"
         PROVE  /\ hits > 0 \/ \E f \in cached' : clock + setup.interval < f.at + setup.keeps
                /\ live.taken > 0 => hits > 0
    <3>1. state = "HIT" \/ \E f \in cached' : f.at = clock
      BY <1>4, <2>13, SampleWatched
    <3>2. Watched /\ setup.interval < setup.keeps
      BY <2>1, <2>13 DEF Watched, Does
    <3>3. ASSUME live.taken > 0, live.hits = 0 PROVE state = "HIT"
      <4>1. PICK e \in cached : live.due < e.at + setup.keeps /\ clock <= live.due
        BY <1>0, <2>3, <2>13, <3>2, <3>3 DEF LiveInv
      <4>2. e \in Fresh
        BY <1>0, <1>1, <4>1, Numbers DEF Fresh, Age
      <4>. QED BY <1>4, <2>13, <4>2, SampleWatched
    <3>. QED BY <1>1, <2>3, <3>1, <3>2, <3>3, Numbers
  <2>14. live.taken + 1 = setup.samples /\ setup.samples > 1 => live.taken > 0
    BY <1>1
  <2>15. CacheVerdictsGenuine'
    <3>1. CASE findings = live.findings
      BY <2>1, <2>9, <3>1 DEF LiveInv, CacheVerdictsGenuine, Does
    <3>2. CASE findings = LiveState!Verdicts(counts) /\ live.taken + 1 = setup.samples
      <4>1. "not-cached" \in findings => hits = 0 /\ misses > 0
        BY <2>4, <3>2 DEF LiveState!Verdicts
      <4>2. {"status-cached", "uncacheable-cached"} \cap findings # {} =>
              Known /\ ~Cacheable(analysis.response) /\ hits > 0
        BY <2>4, <3>2, LiveStateAnalysis, LiveStateCacheable DEF LiveState!Verdicts
      <4>3. {"status-cached", "uncacheable-cached"} \cap findings # {} /\ "failure" \notin events' =>
              ~Cacheable(setup.response) /\ (Does("stores") \/ Does("tiers"))
        BY <2>1, <2>12, <4>2 DEF AnalysisInv
      <4>4. ASSUME "not-cached" \in findings, setup.samples > 1, setup.interval < setup.keeps,
                   events' \cap {"eviction", "delay"} = {}, ~Does("tiers"), Does("serves-stale") => Does("refreshes"),
                   Does("stores"), "failure" \notin events'
            PROVE  FALSE
        <5>1. Watched'
          BY <2>1, <4>4 DEF Watched, Does
        <5>2. live.taken > 0
          BY <2>14, <3>2, <4>4, Zenon
        <5>3. hits = 0 /\ misses > 0
          BY <4>1, <4>4
        <5>4. Reading("miss") # "MISS" => misses = 0
          BY <2>11, <4>4
        <5>5. Reading("miss") = "MISS" => hits > 0
          BY <2>13, <5>1, <5>2
        <5>. QED BY <2>3, <5>3, <5>4, <5>5
      <4>. QED BY <2>1, <2>9, <4>3, <4>4 DEF CacheVerdictsGenuine, Does
    <3>. QED BY <2>7, <3>1, <3>2
  <2>16. Watched' /\ Reading("miss")' = "MISS" =>
           hits > 0 \/ (clock' <= live'.due /\ \E f \in cached' : live'.due < f.at + setup'.keeps)
    <3>1. clock <= clock + setup.interval
      BY Numbers
    <3>. QED BY <2>1, <2>9, <2>13, <3>1
  <2>17. Does("tiers")' = Does("tiers") /\ Does("stores")' = Does("stores")
    BY <2>1 DEF Does
  <2>18. (~Does("tiers") /\ Reading("miss") # "MISS" => live.misses = 0)'
    BY <2>1, <2>9, <2>11, <2>17
  <2>19. (live.pc = "sample" /\ live.taken > 0 /\ Watched /\ Reading("miss") = "MISS" =>
             \/ live.hits > 0
             \/ clock <= live.due /\ \E e \in cached : live.due < e.at + setup.keeps)'
    BY <2>9, <2>16
  <2>20. (live.hits > 0 => "failure" \in events \/ Does("stores") \/ Does("tiers"))'
    BY <2>9, <2>12, <2>17
  <2>. QED BY <2>1, <2>10, <2>15, <2>18, <2>19, <2>20 DEF LiveInv
<1>. QED BY <1>0, <1>3, <1>4, LiveStateRequests DEF LiveState!Sample

-----------------------------------------------------------------------------
(* Stale-serving *)

\* Stale-serving: a lifetime and a comparison are the same.
LEMMA StaleServingMeans ==
    /\ StaleServing!Second = Second /\ StaleServing!NoAnswer = NoAnswer
    /\ \A one, other : StaleServing!SameBody(one, other) <=> SameBody(one, other)
    /\ \A r, second, expires, date :
          StaleServing!FreshnessLifetime(r, second, expires, date) = FreshnessLifetime(r, second, expires, date)
BY DEF StaleServing!Second, Second, StaleServing!NoAnswer, NoAnswer, StaleServing!SameBody, SameBody,
       StaleServing!FreshnessLifetime, FreshnessLifetime

State(pc, due, base, stale, onError, findings) ==
    [pc |-> pc, due |-> due, base |-> base, stale |-> stale, onError |-> onError, findings |-> findings]

\* What a state of the check is made of.
LEMMA StateIs ==
  ASSUME NEW pc, NEW due, NEW base, NEW stale, NEW onError, NEW findings
  PROVE  LET state == State(pc, due, base, stale, onError, findings)
         IN  /\ state.pc = pc /\ state.due = due /\ state.base = base /\ state.stale = stale
             /\ state.onError = onError /\ state.findings = findings
BY DEF State

Errors == StaleServing!Declares("stale-if-error") /\ setup.aggressive
AfterStale == IF Errors THEN "error" ELSE "done"

Moved(state, then, at) == [state EXCEPT !.pc = then, !.due = at]
Concluded(state, judged) == [state EXCEPT !.pc = "done", !.onError = judged]

\* Two of its parts changed: where it goes on, and when.
LEMMA GoesOnIs ==
  ASSUME NEW pc, NEW due, NEW base, NEW stale, NEW onError, NEW findings, NEW then, NEW at
  PROVE  Moved(State(pc, due, base, stale, onError, findings), then, at) =
         State(then, at, base, stale, onError, findings)
<1>. DEFINE state == State(pc, due, base, stale, onError, findings)
            record == State(then, at, base, stale, onError, findings)
            Fields == {"pc", "due", "base", "stale", "onError", "findings"}
            value(f) == IF f = "due" THEN at ELSE IF f = "pc" THEN then ELSE state[f]
<1>1. Moved(State(pc, due, base, stale, onError, findings), then, at) = [f \in Fields |-> value(f)]
  BY DEF State, Moved
<1>2. record = [f \in Fields |-> record[f]]
  BY DEF State
<1>3. \A f \in Fields : record[f] = value(f)
  BY DEF State
<1>. QED BY <1>1, <1>2, <1>3, Zenon

\* Or what the failing origin showed.
LEMMA JudgedIs ==
  ASSUME NEW pc, NEW due, NEW base, NEW stale, NEW onError, NEW findings, NEW judged
  PROVE  Concluded(State(pc, due, base, stale, onError, findings), judged) =
         State("done", due, base, stale, judged, findings)
<1>. DEFINE state == State(pc, due, base, stale, onError, findings)
            record == State("done", due, base, stale, judged, findings)
            Fields == {"pc", "due", "base", "stale", "onError", "findings"}
            value(f) == IF f = "onError" THEN judged ELSE IF f = "pc" THEN "done" ELSE state[f]
<1>1. Concluded(State(pc, due, base, stale, onError, findings), judged) = [f \in Fields |-> value(f)]
  BY DEF State, Concluded
<1>2. record = [f \in Fields |-> record[f]]
  BY DEF State
<1>3. \A f \in Fields : record[f] = value(f)
  BY DEF State
<1>. QED BY <1>1, <1>2, <1>3, Zenon

\* The error half begins.
LEMMA ToErrorIs ==
  ASSUME NEW pc, NEW due, NEW base, NEW stale, NEW onError, NEW findings
  PROVE  StaleServing!ToError(State(pc, due, base, stale, onError, findings)) =
         State(AfterStale, 0, base, stale, onError, findings)
<1>. DEFINE state == State(pc, due, base, stale, onError, findings)
            record == State(AfterStale, 0, base, stale, onError, findings)
            Fields == {"pc", "due", "base", "stale", "onError", "findings"}
            value(f) == IF f = "pc" THEN AfterStale ELSE IF f = "due" THEN 0 ELSE state[f]
<1>1. StaleServing!ToError(State(pc, due, base, stale, onError, findings)) = [f \in Fields |-> value(f)]
  BY DEF State, StaleServing!ToError, Errors, AfterStale
<1>2. record = [f \in Fields |-> record[f]]
  BY DEF State
<1>3. \A f \in Fields : record[f] = value(f)
  BY DEF State
<1>. QED BY <1>1, <1>2, <1>3, Zenon

\* A finding is added.
LEMMA FoundIs ==
  ASSUME NEW pc, NEW due, NEW base, NEW stale, NEW onError, NEW findings, NEW finding
  PROVE  StaleServing!Found(finding, State(pc, due, base, stale, onError, findings)) =
         State(pc, due, base, stale, onError, findings \cup {finding})
BY DEF State, StaleServing!Found

Typed(state, time) ==
    /\ state.pc \in {"off", "base", "stale", "refreshed", "error", "done"} /\ state.due \in Nat
    /\ state.base \in Answers /\ state.stale \in Answers /\ state.onError \in {"untested", "yes", "no"}
    /\ state.findings \in SUBSET {"too-large", "not-honored", "no-refresh"}
    /\ state.due <= time + setup.maxWait

\* The check's state is one of these, with such parts.
LEMMA ServingIs ==
  ASSUME ServingTypes
  PROVE  /\ serving = State(serving.pc, serving.due, serving.base, serving.stale, serving.onError, serving.findings)
         /\ Typed(serving, clock)
BY DEF ServingTypes, State, Typed

\* What the check relies on at each of its requests.
InTime == StaleInTime /\ RefreshedInTime /\ SpareInTime

\* While others go on and nothing disturbs them, the entry relied upon gets no older.
LEMMA ServingStays ==
  ASSUME EdgeInv, AnalysisInv, ServingTypes, OnTime, ServingInv, Onward, UNCHANGED serving,
         UNCHANGED analysis \/ (~Analysed /\ Analysed'),
         clock' = clock \/ "delay" \in events' \/ ~StaleServing!Due
  PROVE  ServingTypes' /\ OnTime' /\ ServingInv'
<1>1. setup' = setup /\ events \subseteq events' /\ clock' \in Nat /\ clock \in Nat /\ clock <= clock' /\ clock' <= clock + 1
  BY Numbers, NumbersThen DEF Onward
<1>2. serving.due \in Nat /\ setup.maxWait \in Nat
  BY Numbers, ServingIs DEF Typed
<1>3. ServingTypes'
  <2>1. Answers' = Answers
    BY DEF Answers
  <2>2. serving.due <= clock' + setup.maxWait
    <3>1. serving.due <= clock + setup.maxWait
      BY DEF ServingTypes
    <3>. QED BY <1>1, <1>2, <3>1
  <2>3. serving.pc \in {"stale", "refreshed", "error"} => UNCHANGED analysis /\ Analysed
    BY DEF ServingTypes, StaleServing!Waiting
  <2>4. \A pc : serving.pc = pc /\ pc \in {"stale", "refreshed", "error"} => Seen(serving.base)
    BY DEF ServingTypes
  <2>5. PICK base, stale : base = serving.base /\ stale = serving.stale
    OBVIOUS
  <2>6. (Seen(base) => Seen(base)') /\ (Seen(stale) => Seen(stale)')
    BY SeenStays
  <2>7. base = serving'.base /\ stale = serving'.stale
    BY <2>5
  <2>. QED BY <1>1, <2>1, <2>2, <2>3, <2>5, <2>6, <2>7
           DEF ServingTypes, StaleServing!Waiting, StaleServing!Declares, Analysed
<1>4. ASSUME "delay" \notin events', serving.pc \in {"stale", "refreshed"} PROVE clock' <= serving.due
  <2>1. clock <= serving.due
    BY <1>1, <1>4 DEF OnTime
  <2>. QED BY <1>1, <1>2, <1>4, <2>1 DEF StaleServing!Due, StaleServing!Waiting
<1>5. ASSUME Conforming', Steady' PROVE InTime'
  <2>1. Conforming /\ Steady /\ {"eviction", "delay"} \cap events' = {} /\ InTime
    BY <1>1, <1>5 DEF Conforming, Steady, Does, Window, ServingInv, InTime
  <2>2. \A e \in cached : \E f \in cached' : e.at <= f.at
    BY <2>1 DEF Onward
  <2>3. /\ \A e \in cached : e.at \in Nat
        /\ \A f \in cached' : f.at \in Nat
        /\ setup.keeps \in Nat /\ Revalidation \in Nat /\ Window("stale-if-error") \in Nat
        /\ WhileRevalidating \in Nat /\ WhileRevalidating' = WhileRevalidating
        /\ Window("stale-if-error")' = Window("stale-if-error") /\ Revalidation' = Revalidation
    BY Numbers, NumbersThen DEF Revalidation
  <2>4. StaleInTime'
    <3>1. ASSUME NEW e \in cached, serving.due < e.at + WhileRevalidating
          PROVE  \E f \in cached' : serving'.due < f.at + WhileRevalidating'
      <4>1. PICK f \in cached' : e.at <= f.at
        BY <2>2
      <4>2. e.at \in Nat /\ f.at \in Nat /\ WhileRevalidating \in Nat
        BY <2>3
      <4>3. serving.due < f.at + WhileRevalidating
        BY <1>2, <3>1, <4>1, <4>2
      <4>. QED BY <2>3, <4>3
    <3>. QED BY <1>1, <2>1, <2>3, <3>1 DEF StaleInTime, Does, InTime
  <2>5. RefreshedInTime'
    BY <1>1, <1>2, <2>1, <2>2, <2>3 DEF RefreshedInTime, Judged, Does, InTime
  <2>6. SpareInTime'
    <3>1. serving.pc = "error" => clock' = clock
      <4>1. serving.pc = "error" => serving.due = 0
        BY DEF ServingTypes
      <4>. QED BY <1>1, <2>1, <4>1 DEF StaleServing!Due, StaleServing!Waiting
    <3>2. ASSUME serving.pc = "error", Spare # {} PROVE Spare' # {}
      <4>1. PICK e \in cached : Does("serves-on-error") /\ Age(e) < WhileRevalidating + Window("stale-if-error")
        BY <3>2 DEF Spare
      <4>2. PICK f \in cached' : e.at <= f.at
        BY <2>2
      <4>3. clock' - f.at < WhileRevalidating + Window("stale-if-error")
        <5>1. e.at \in Nat /\ f.at \in Nat /\ WhileRevalidating \in Nat /\ Window("stale-if-error") \in Nat
          BY <2>3
        <5>2. clock' = clock
          BY <3>1, <3>2
        <5>3. PICK now, spare : now = clock /\ spare = WhileRevalidating + Window("stale-if-error")
          OBVIOUS
        <5>4. now - e.at < spare /\ now \in Nat /\ spare \in Nat
          <6>1. Age(e) < spare
            BY <4>1, <5>3
          <6>2. Age(e) = now - e.at
            BY <5>3 DEF Age
          <6>. QED BY <1>1, <5>1, <5>3, <6>1, <6>2
        <5>5. now - f.at < spare
          BY <4>2, <5>1, <5>4
        <5>. QED BY <5>2, <5>3, <5>5
      <4>. QED BY <1>1, <2>3, <4>1, <4>2, <4>3 DEF Spare, Age, Does
    <3>. QED BY <1>1, <2>1, <2>3, <3>2 DEF SpareInTime, InTime, Does
  <2>. QED BY <2>4, <2>5, <2>6 DEF InTime
<1>6. StaleVerdictsGenuine'
  BY <1>1 DEF StaleVerdictsGenuine, ServingInv, Conforming, Steady, Does, Window
<1>. QED BY <1>3, <1>4, <1>5, <1>6 DEF OnTime, ServingInv, InTime

\* The verdicts of a state of the check.
Genuine(state, happened) ==
    /\ "not-honored" \in state.findings /\ Revalidation >= 2 * Second => ~(Does("serves-stale") /\ Does("refreshes"))
    /\ "no-refresh" \in state.findings /\ Second * state.stale.age >= setup.keeps /\ 4 * state.stale.age > Revalidation
         => ~Does("refreshes")
    /\ state.onError = "no" /\ Window("stale-if-error") > 0 /\ "loss" \notin happened
         => ~Does("serves-on-error") \/ ~Does("instrumented")

\* What a request of the check has to leave behind.
LEMMA ServingGoesOn ==
  ASSUME EdgeInv, ServingTypes, ServingInv, Onward, UNCHANGED <<analysis, setup, clock>>, Analysed,
         NEW pc \in {"stale", "refreshed", "error", "done"}, NEW due \in Nat, NEW base \in Answers, NEW stale \in Answers,
         NEW onError \in {"untested", "yes", "no"}, NEW findings \in SUBSET {"too-large", "not-honored", "no-refresh"},
         serving' = State(pc, due, base, stale, onError, findings),
         due <= clock + setup.maxWait, pc # "done" => Seen(base)', pc = "refreshed" => Seen(stale)',
         pc = "stale" => StaleServing!Declares("stale-while-revalidate"),
         "no-refresh" \in findings => pc \in {"error", "done"}, pc \in {"stale", "refreshed"} => clock <= due,
                 pc = "error" => due = 0,
         Conforming /\ Steady' => InTime' /\ Genuine(serving', events')
  PROVE  ServingTypes' /\ OnTime' /\ ServingInv'
<1>1. /\ serving'.pc = pc /\ serving'.due = due /\ serving'.base = base /\ serving'.stale = stale
      /\ serving'.onError = onError /\ serving'.findings = findings
  BY DEF State
<1>2. Answers' = Answers /\ (Conforming' <=> Conforming)
  BY DEF Answers, Conforming, Does, Window
<1>3. serving' \in [pc : {"off", "base", "stale", "refreshed", "error", "done"}, due : Nat,
                    base : Answers, stale : Answers, onError : {"untested", "yes", "no"},
                    findings : SUBSET {"too-large", "not-honored", "no-refresh"}]
  <2>1. pc \in {"off", "base", "stale", "refreshed", "error", "done"}
    OBVIOUS
  <2>. QED BY <2>1, Zenon DEF State
<1>4. ServingTypes'
  BY <1>1, <1>2, <1>3 DEF ServingTypes, StaleServing!Waiting, StaleServing!Declares, Analysed
<1>5. OnTime'
  BY <1>1 DEF OnTime
<1>6. StaleVerdictsGenuine'
  <2>1. \A directive : Window(directive)' = Window(directive)
    BY DEF Window
  <2>2. \A conduct : Does(conduct)' <=> Does(conduct)
    BY DEF Does
  <2>. QED BY <1>2, <2>1, <2>2 DEF StaleVerdictsGenuine, Genuine, Revalidation
<1>. QED BY <1>2, <1>4, <1>5, <1>6 DEF ServingInv, InTime

\* The same of the numbers that matter here.
LEMMA Sizes ==
  ASSUME EdgeInv
  PROVE  /\ clock \in Nat /\ \A e \in cached : e.at \in Nat /\ Age(e) \in Nat /\ Age(e) = clock - e.at
         /\ setup.keeps \in Nat /\ Revalidation \in Nat /\ Window("stale-if-error") \in Nat /\ setup.maxWait \in Nat
         /\ WhileRevalidating \in Nat /\ WhileRevalidating = setup.keeps + Revalidation
<1>1. clock \in Nat /\ setup.keeps \in Nat /\ setup.maxWait \in Nat
  BY Numbers
<1>2. Revalidation \in Nat /\ Window("stale-if-error") \in Nat
  BY Numbers DEF Revalidation
<1>3. WhileRevalidating = setup.keeps + Revalidation
  BY DEF WhileRevalidating, Revalidation
<1>4. \A e \in cached : e.at \in Nat /\ e.at <= clock
  BY Numbers
<1>5. ASSUME NEW e \in cached PROVE Age(e) \in Nat /\ Age(e) = clock - e.at
  BY <1>1, <1>4 DEF Age
<1>. QED BY <1>1, <1>2, <1>3, <1>4, <1>5

\* A cache that keeps responses has one to spare after a request, unless the origin
\* was failing.
LEMMA ComesSpare ==
  ASSUME EdgeInv, NEW o, Comes(o), "failure" \notin events', Does("stores"),
         Does("serves-on-error"), Window("stale-if-error") \in Nat \ {0}
  PROVE  Spare' # {}
<1>1. Onward /\ UNCHANGED <<setup, clock, version>> /\ cached' = o.left
  BY ComesIs
<1>2. PICK e, word : word \in {"hit", "stale", "miss"} /\ Outcome(o, Made, e, word) /\ Sound(e)'
  BY ComesIs
<1>3. \A r \in Made : Kept(r) = {r} /\ r.at = clock
  BY MadeIs DEF Kept
<1>4. Failed \notin Made
  BY MadeIs DEF Failed
<1>5. PICK f \in cached' : f.at = clock \/ (f \in cached /\ Age(f) < WhileRevalidating)
  <2>1. \A f \in cached : Age(f) < setup.keeps => Age(f) < WhileRevalidating
    BY Sizes
  <2>2. \A f \in cached : Age(f) \in setup.keeps .. WhileRevalidating - 1 => Age(f) < WhileRevalidating
    BY Sizes
  <2>3. word = "hit" => e \in cached /\ cached' = cached /\ Age(e) < setup.keeps
    BY <1>1, <1>2 DEF Outcome, Fresh
  <2>4. word = "miss" => e.at = clock /\ cached' = {e}
    BY <1>1, <1>2, <1>3, MadeIs DEF Outcome
  <2>5. word = "stale" => \/ \E r \in Made : cached' = {r} /\ r.at = clock
                          \/ e \in cached /\ cached' = cached /\ Age(e) \in setup.keeps .. WhileRevalidating - 1
    <3>1. word = "stale" => e \in Stale /\ \E r \in Made : cached' = IF Does("refreshes") THEN Kept(r) ELSE cached
      BY <1>1, <1>2, <1>4 DEF Outcome
    <3>2. e \in Stale => e \in cached /\ Age(e) \in setup.keeps .. WhileRevalidating - 1
      BY DEF Stale
    <3>3. word = "stale" => e \in Stale /\ \E r \in Made : cached' = {r} \/ cached' = cached
      BY <1>3, <3>1
    <3>4. ASSUME word = "stale", NEW r \in Made, cached' = {r} PROVE \E s \in Made : cached' = {s} /\ s.at = clock
      BY <1>3, <3>4
    <3>. QED BY <3>2, <3>3, <3>4
  <2>. QED BY <1>2, <2>1, <2>2, <2>3, <2>4, <2>5
<1>6. clock - f.at < WhileRevalidating + Window("stale-if-error")
  <2>1. WhileRevalidating \in Nat /\ Window("stale-if-error") \in Nat /\ clock \in Nat
    BY Sizes
  <2>2. CASE f.at = clock
    BY <2>1, <2>2
  <2>3. CASE f \in cached /\ Age(f) < WhileRevalidating
    <3>1. f.at \in Nat /\ clock - f.at < WhileRevalidating
      BY <2>3, Sizes
    <3>. QED BY <2>1, <3>1
  <2>. QED BY <1>5, <2>2, <2>3
<1>7. WhileRevalidating' = WhileRevalidating /\ Window("stale-if-error")' = Window("stale-if-error")
  BY <1>1 DEF WhileRevalidating, Window
<1>8. Does("serves-on-error")' /\ (clock - f.at)' = clock - f.at
  BY <1>1 DEF Does
<1>. QED BY <1>1, <1>5, <1>6, <1>7, <1>8 DEF Spare, Age

\* The lifetime the check goes by is at most the conforming cache's, for a base no
\* older than the response analysed.
LEMMA LifetimeIs ==
  ASSUME EdgeInv, AnalysisInv, Known, NEW base, base.at \in Nat
  PROVE  /\ StaleServing!Lifetime(base) \in Nat
         /\ Conforming /\ "failure" \notin events /\ analysis.at <= base.at => StaleServing!Lifetime(base) <= setup.keeps
<1>. DEFINE seconds == analysis.response.seconds
            expires == IF "expires" \in DOMAIN seconds THEN analysis.at + Second * seconds["expires"] ELSE 0
<1>1. \A directive \in DOMAIN seconds : seconds[directive] \in Nat
  <2>1. DOMAIN ErrorResponse.seconds = {}
    BY DEF ErrorResponse
  <2>. QED BY <2>1 DEF AnalysisInv, EdgeInv, Proper
<1>2. analysis.at \in Nat
  BY EdgeAssumption DEF AnalysisInv, EdgeInv
<1>3. StaleServing!Lifetime(base) = FreshnessLifetime(analysis.response, Second, expires, base.at)
  BY StaleServingMeans DEF StaleServing!Lifetime, StaleServing!Declares
<1>4. expires \in Nat
  BY <1>1, <1>2 DEF Second
<1>5. FreshnessLifetime(analysis.response, Second, expires, base.at) =
        IF "s-maxage" \in DOMAIN seconds THEN 2 * seconds["s-maxage"]
        ELSE IF "max-age" \in DOMAIN seconds THEN 2 * seconds["max-age"]
        ELSE IF "expires" \in DOMAIN seconds /\ expires > base.at THEN expires - base.at
        ELSE 0
  BY DEF FreshnessLifetime, Second
<1>6. StaleServing!Lifetime(base) \in Nat
  <2>. HIDE DEF expires
  <2>. QED BY <1>1, <1>3, <1>4, <1>5
<1>7. ASSUME Conforming, "failure" \notin events, analysis.at <= base.at
      PROVE  StaleServing!Lifetime(base) <= setup.keeps
  <2>1. analysis.response = setup.response
    BY <1>7 DEF AnalysisInv
  <2>2. setup.keeps = FreshnessLifetime(analysis.response, Second, Window("expires"), 0)
    BY <1>7, <2>1 DEF Conforming
  <2>3. setup.keeps =
          IF "s-maxage" \in DOMAIN seconds THEN 2 * seconds["s-maxage"]
          ELSE IF "max-age" \in DOMAIN seconds THEN 2 * seconds["max-age"]
          ELSE IF "expires" \in DOMAIN seconds /\ Window("expires") > 0 THEN Window("expires") - 0
          ELSE 0
    BY <2>2 DEF FreshnessLifetime, Second
  <2>4. "expires" \in DOMAIN seconds => Window("expires") \in Nat /\ expires = analysis.at + Window("expires")
    BY <1>1, <2>1 DEF Window, Second
  <2>. HIDE DEF expires
  <2>5. CASE "s-maxage" \in DOMAIN seconds
    BY <1>1, <1>3, <1>5, <2>3, <2>5
  <2>6. CASE "s-maxage" \notin DOMAIN seconds /\ "max-age" \in DOMAIN seconds
    BY <1>1, <1>3, <1>5, <2>3, <2>6
  <2>7. CASE DOMAIN seconds \cap {"s-maxage", "max-age"} = {}
    BY <1>2, <1>3, <1>4, <1>5, <1>7, <2>3, <2>4, <2>7
  <2>. QED BY <2>5, <2>6, <2>7
<1>. QED BY <1>6, <1>7

\* Nothing to check.
LEMMA NothingDeclaredKeeps ==
  ASSUME EdgeInv, AnalysisInv, ServingTypes, OnTime, ServingInv, StaleServing!NothingDeclared
  PROVE  Onward /\ ServingTypes' /\ OnTime' /\ ServingInv' /\ UNCHANGED analysis
<1>1. UNCHANGED <<setup, clock, cached, version, events, analysis>> /\ Analysed
  BY StaleServingAnalysis DEF StaleServing!NothingDeclared, StaleServing!surroundings
<1>2. Onward
  <2>1. Logged
    BY <1>1 DEF Logged, EdgeInv, Kinds
  <2>. QED BY <1>1, <2>1, KeptOnward
<1>3. PICK due, base, stale, onError, findings :
        /\ due = serving.due /\ base = serving.base /\ stale = serving.stale
        /\ onError = serving.onError /\ findings = serving.findings
  OBVIOUS
<1>4. serving' = State("done", due, base, stale, onError, findings)
  <2>1. PICK pc : serving = State(pc, due, base, stale, onError, findings)
    BY <1>3, ServingIs
  <2>2. serving' = [serving EXCEPT !.pc = "done"]
    BY DEF StaleServing!NothingDeclared
  <2>. QED BY <2>1, <2>2 DEF State
<1>5. /\ due \in Nat /\ base \in Answers /\ stale \in Answers /\ onError \in {"untested", "yes", "no"}
      /\ findings \in SUBSET {"too-large", "not-honored", "no-refresh"} /\ due <= clock + setup.maxWait
  BY <1>3, ServingIs DEF Typed
<1>6. serving'.pc = "done" /\ serving'.findings = findings /\ serving'.stale = stale /\ serving'.onError = onError
  BY <1>4, StateIs
<1>7. Conforming /\ Steady' => InTime' /\ Genuine(serving', events')
  <2>1. Steady' => Steady
    BY <1>1 DEF Steady
  <2>2. Conforming /\ Steady => Genuine(serving', events')
    BY <1>1, <1>3, <1>6 DEF ServingInv, StaleVerdictsGenuine, Genuine, Revalidation
  <2>3. InTime'
    BY <1>6 DEF InTime, StaleInTime, RefreshedInTime, SpareInTime
  <2>. QED BY <2>1, <2>2, <2>3
<1>. QED BY <1>1, <1>2, <1>4, <1>5, <1>7, ServingGoesOn

\* The error half may begin after any request.
LEMMA SpareThen ==
  ASSUME EdgeInv, Lost \/ \E o : Comes(o), Conforming, Steady'
  PROVE  SpareInTime'
<1>1. CASE Lost
  BY <1>1, LostOnward DEF SpareInTime
<1>2. CASE \E o : Comes(o)
  <2>1. PICK o : Comes(o)
    BY <1>2
  <2>2. setup' = setup
    BY <2>1, ComesIs
  <2>3. "failure" \notin events' /\ Does("stores")
    BY DEF Steady, Conforming
  <2>4. (Window("stale-if-error") > 0 /\ Does("serves-on-error"))' =>
           Window("stale-if-error") \in Nat \ {0} /\ Does("serves-on-error")
    BY <2>2, Sizes DEF Does, Window
  <2>. QED BY <2>1, <2>3, <2>4, ComesSpare DEF SpareInTime
<1>. QED BY <1>1, <1>2

\* An answer had without waiting for the origin comes from an entry that is there
\* when it is asked for as stale, or is the reason for which it has been renewed.
LEMMA BaseInTime ==
  ASSUME EdgeInv, AnalysisInv, Known, NEW o, Comes(o), Conforming, Steady',
         Revalidation >= 2 * Second, Does("refreshes"), Does("slow"), ~o.answer.slow
  PROVE  \E f \in cached' : clock + StaleServing!UntilStale(o.answer) < f.at + WhileRevalidating
<1>1. UNCHANGED <<setup, clock, version>> /\ cached' = o.left /\ events \subseteq events'
  BY ComesIs DEF Onward
<1>2. "failure" \notin events' /\ "failure" \notin events /\ Does("stores") /\ ~Does("hides-age")
  BY <1>1 DEF Steady, Conforming
<1>3. PICK e, word : word \in {"hit", "stale", "miss"} /\ Outcome(o, Made, e, word) /\ Sound(e)'
  BY <1>2, ComesIs
<1>4. e \in Responses /\ e.at <= clock /\ e.at \in Nat
  BY <1>1, <1>3 DEF Sound, Responses
<1>5. o.answer = Answer(e, word) /\ Answer(e, word).at = e.at /\ (Answer(e, word).slow <=> word = "miss" /\ Does("slow"))
  BY <1>3, <1>4, AnswerIs DEF Outcome
<1>6. word # "miss"
  BY <1>5
<1>7. e \in cached /\ analysis.at <= e.at
  <2>1. Failed \notin Made
    BY MadeIs DEF Failed
  <2>2. e \in cached
    BY <1>3, <1>6 DEF Outcome, Fresh, Stale, Spare
  <2>. QED BY <1>2, <2>2 DEF AnalysisInv
<1>8. PICK life, age, now, keeps, window :
        /\ life = StaleServing!Lifetime(o.answer) /\ age = o.answer.age /\ now = clock /\ keeps = setup.keeps
        /\ window = Revalidation
  OBVIOUS
<1>9. /\ life \in Nat /\ life <= keeps /\ now \in Nat /\ keeps \in Nat /\ window \in Nat /\ window >= 4
      /\ WhileRevalidating = keeps + window
  <2>1. life \in Nat /\ life <= keeps
    BY <1>2, <1>4, <1>5, <1>7, <1>8, LifetimeIs
  <2>2. window >= 4
    BY <1>8 DEF Second
  <2>. QED BY <1>8, <2>1, <2>2, Sizes
<1>10. age \in Nat /\ 2 * age <= now - e.at /\ now - e.at <= 2 * age + 1
  <2>1. age = Age(e) \div 2
    BY <1>2, <1>5, <1>8 DEF Answer, Second
  <2>2. Age(e) \in Nat /\ Age(e) = now - e.at
    BY <1>7, <1>8, Sizes
  <2>3. \A n \in Nat : n \div 2 \in Nat /\ 2 * (n \div 2) <= n /\ n <= 2 * (n \div 2) + 1
    OBVIOUS
  <2>. QED BY <2>1, <2>2, <2>3
<1>11. StaleServing!UntilStale(o.answer) = IF life - 2 * age + 2 <= 0 THEN 2 ELSE life - 2 * age + 2
  BY <1>8, StaleServingMeans DEF StaleServing!UntilStale, Second
<1>12. CASE word = "hit"
  <2>1. now - e.at < keeps /\ cached' = cached
    <3>1. e \in Fresh
      BY <1>3, <1>12 DEF Outcome
    <3>. QED BY <1>1, <1>3, <1>7, <1>8, <1>12, <3>1, Sizes DEF Outcome, Fresh
  <2>2. now + StaleServing!UntilStale(o.answer) < e.at + (keeps + window)
    BY <1>4, <1>9, <1>10, <1>11, <2>1
  <2>. QED BY <1>7, <1>8, <1>9, <2>1, <2>2
<1>13. CASE word = "stale"
  <2>1. PICK r : cached' = {r} /\ r.at = now
    <3>1. Failed \notin Made /\ \A r \in Made : Kept(r) = {r} /\ r.at = clock
      BY <1>2, MadeIs DEF Kept, Failed
    <3>. QED BY <1>1, <1>3, <1>8, <1>13, <3>1 DEF Outcome
  <2>2. now + StaleServing!UntilStale(o.answer) < now + (keeps + window)
    BY <1>9, <1>10, <1>11
  <2>. QED BY <1>8, <1>9, <2>1, <2>2
<1>. QED BY <1>3, <1>6, <1>12, <1>13

\* The base request: the wait it leads to is bounded, and short enough.
LEMMA BaseRequestKeeps ==
  ASSUME EdgeInv, AnalysisInv, ServingTypes, OnTime, ServingInv, StaleServing!BaseRequest
  PROVE  Onward /\ ServingTypes' /\ OnTime' /\ ServingInv' /\ UNCHANGED analysis
<1>1. UNCHANGED analysis /\ Analysed /\ Known /\ serving.pc = "base"
  BY StaleServingAnalysis DEF StaleServing!BaseRequest, StaleServing!Applies, StaleServing!At
<1>2. PICK pc, due, base, stale, onError, findings :
        /\ due = serving.due /\ base = serving.base /\ stale = serving.stale
        /\ onError = serving.onError /\ findings = serving.findings
        /\ serving = State(pc, due, base, stale, onError, findings)
  BY ServingIs
<1>3. /\ due \in Nat /\ base \in Answers /\ stale \in Answers /\ onError \in {"untested", "yes", "no"}
      /\ findings \in SUBSET {"too-large", "not-honored", "no-refresh"} /\ due <= clock + setup.maxWait
      /\ "no-refresh" \notin findings
  BY <1>1, <1>2, ServingIs DEF Typed, ServingTypes
<1>4. ASSUME NEW then, then.stale = stale, then.onError = onError, then.findings \in {findings, findings \cup {"too-large"}},
             Onward, UNCHANGED setup, Conforming, Steady'
      PROVE  Genuine(then, events')
  <2>1. Steady /\ ("loss" \notin events' => "loss" \notin events)
    BY <1>4 DEF Steady, Onward
  <2>2. "not-honored" \in then.findings => "not-honored" \in findings
    BY <1>4
  <2>3. "no-refresh" \in then.findings => "no-refresh" \in findings
    BY <1>4
  <2>. QED BY <1>2, <1>4, <2>1, <2>2, <2>3 DEF ServingInv, StaleVerdictsGenuine, Genuine, Revalidation
<1>5. CASE Lost /\ serving' = [serving EXCEPT !.pc = "done"]
  <2>1. Onward /\ UNCHANGED <<setup, clock, version>>
    BY <1>5, LostOnward
  <2>2. serving' = State("done", due, base, stale, onError, findings)
    BY <1>2, <1>5 DEF State
  <2>3. Conforming /\ Steady' => Genuine(serving', events')
    BY <1>4, <2>1, <2>2, StateIs
  <2>4. InTime'
    BY <2>2, StateIs DEF InTime, StaleInTime, RefreshedInTime, SpareInTime
  <2>. QED BY <1>1, <1>3, <2>1, <2>2, <2>3, <2>4, ServingGoesOn
<1>6. ASSUME NEW o, Comes(o), serving' = StaleServing!AfterBase(o.answer)
      PROVE  Onward /\ ServingTypes' /\ OnTime' /\ ServingInv'
  <2>1. PICK a : a = o.answer
    OBVIOUS
  <2>2. Onward /\ UNCHANGED <<setup, clock, version>> /\ Seen(a)' /\ a \in Answers /\ a.at \in Nat /\ a.age \in Nat
    <3>1. Onward /\ UNCHANGED <<setup, clock, version>> /\ Seen(a)'
      BY <1>6, <2>1, ComesIs, ComesSeen
    <3>2. a \in Answers
      BY <3>1 DEF Seen, Answers
    <3>. QED BY <3>1, <3>2, EdgeAssumption DEF Answers
  <2>3. PICK wait : wait = StaleServing!UntilStale(a)
    OBVIOUS
  <2>4. wait \in Nat
    <3>1. StaleServing!Lifetime(a) \in Nat
      BY <1>1, <2>2, LifetimeIs
    <3>2. wait = IF StaleServing!Lifetime(a) - 2 * a.age + 2 <= 0 THEN 2 ELSE StaleServing!Lifetime(a) - 2 * a.age + 2
      BY <2>3, StaleServingMeans DEF StaleServing!UntilStale, Second
    <3>. QED BY <2>2, <3>1, <3>2
  <2>5. \/ serving' = State(AfterStale, 0, a, stale, onError, findings)
        \/ serving' = State(AfterStale, 0, a, stale, onError, findings \cup {"too-large"})
        \/ /\ serving' = State("stale", clock + wait, a, stale, onError, findings)
           /\ StaleServing!Declares("stale-while-revalidate") /\ ~(wait > setup.maxWait)
    <3>. DEFINE seen == [serving EXCEPT !.base = a]
    <3>1. seen = State(pc, due, a, stale, onError, findings)
      BY <1>2 DEF State
    <3>2. StaleServing!ToError(seen) = State(AfterStale, 0, a, stale, onError, findings)
      BY <3>1, ToErrorIs
    <3>3. StaleServing!ToError(StaleServing!Found("too-large", seen)) =
            State(AfterStale, 0, a, stale, onError, findings \cup {"too-large"})
      <4>1. StaleServing!Found("too-large", seen) = State(pc, due, a, stale, onError, findings \cup {"too-large"})
        BY <3>1, FoundIs
      <4>. QED BY <4>1, ToErrorIs
    <3>4. [seen EXCEPT !.pc = "stale", !.due = clock + wait] = State("stale", clock + wait, a, stale, onError, findings)
      <4>1. [seen EXCEPT !.pc = "stale", !.due = clock + wait] = Moved(seen, "stale", clock + wait)
        BY DEF Moved
      <4>. QED BY <3>1, <4>1, GoesOnIs
    <3>5. \/ serving' = StaleServing!ToError(seen)
          \/ serving' = StaleServing!ToError(StaleServing!Found("too-large", seen))
          \/ /\ serving' = [seen EXCEPT !.pc = "stale", !.due = clock + wait]
             /\ StaleServing!Declares("stale-while-revalidate") /\ ~(wait > setup.maxWait)
      BY <1>6, <2>1, <2>3, Zenon DEF StaleServing!AfterBase
    <3>. QED BY <3>2, <3>3, <3>4, <3>5
  <2>6. Conforming /\ Steady' => SpareInTime'
    BY <1>6, SpareThen
  <2>7. findings \cup {"too-large"} \in SUBSET {"too-large", "not-honored", "no-refresh"}
        /\ AfterStale \in {"error", "done"} /\ clock \in Nat /\ setup.maxWait \in Nat
    BY <1>3, Sizes DEF AfterStale
  <2>8. ASSUME NEW some \in {findings, findings \cup {"too-large"}},
               serving' = State(AfterStale, 0, a, stale, onError, some)
        PROVE  ServingTypes' /\ OnTime' /\ ServingInv'
    <3>1. serving'.pc \in {"error", "done"}
      BY <2>7, <2>8, StateIs
    <3>2. Conforming /\ Steady' => InTime' /\ Genuine(serving', events')
      BY <1>4, <2>2, <2>6, <2>8, <3>1, StateIs DEF InTime, StaleInTime, RefreshedInTime
    <3>3. some \in SUBSET {"too-large", "not-honored", "no-refresh"} /\ 0 <= clock + setup.maxWait
      BY <1>3, <2>7
    <3>. QED BY <1>1, <1>3, <2>2, <2>7, <2>8, <3>2, <3>3, ServingGoesOn
  <2>9. ASSUME serving' = State("stale", clock + wait, a, stale, onError, findings),
               StaleServing!Declares("stale-while-revalidate"), ~(wait > setup.maxWait)
        PROVE  ServingTypes' /\ OnTime' /\ ServingInv'
    <3>1. clock + wait \in Nat /\ clock + wait <= clock + setup.maxWait /\ clock <= clock + wait
      BY <2>4, <2>7, <2>9
    <3>2. serving'.pc = "stale" /\ serving'.due = clock + wait /\ serving'.base = a
      BY <2>9, StateIs
    <3>3. Conforming /\ Steady' => StaleInTime'
      <4>1. ASSUME Conforming, Steady', Revalidation >= 2 * Second, Does("refreshes"), Does("slow"), ~a.slow
            PROVE  \E f \in cached' : clock + wait < f.at + WhileRevalidating
        BY <1>1, <1>6, <2>1, <2>3, <4>1, BaseInTime
      <4>2. Revalidation' = Revalidation /\ WhileRevalidating' = WhileRevalidating /\ \A conduct : Does(conduct)' <=> Does(conduct)
        BY <2>2 DEF Revalidation, Window, WhileRevalidating, Does
      <4>. QED BY <3>2, <4>1, <4>2 DEF StaleInTime
    <3>4. Conforming /\ Steady' => InTime' /\ Genuine(serving', events')
      BY <1>4, <2>2, <2>9, <3>2, <3>3, StateIs DEF InTime, RefreshedInTime, SpareInTime
    <3>. QED BY <1>1, <1>3, <2>2, <2>9, <3>1, <3>4, ServingGoesOn
  <2>. QED BY <2>2, <2>5, <2>8, <2>9
<1>. QED BY <1>1, <1>5, <1>6, StaleServingRequests DEF StaleServing!BaseRequest

\* At the time the stale answer is asked for, a cache that serves stale and refreshes
\* answers as the base was answered.
LEMMA HonoredInTime ==
  ASSUME EdgeInv, OnTime, StaleInTime, serving.pc = "stale", serving.due <= clock, serving.due \in Nat,
         NEW base, base = serving.base, Seen(base), NEW o, Comes(o), Conforming, Steady',
         Revalidation >= 2 * Second, Does("serves-stale"), Does("refreshes")
  PROVE  StaleServing!Honored(base, o.answer)
<1>1. Onward /\ UNCHANGED <<setup, clock, version>> /\ Seen(o.answer)' /\ Seen(base)'
  BY ComesIs, ComesSeen, SeenStays
<1>2. o.answer.good /\ base.good
  BY <1>1 DEF Seen, Steady
<1>3. version' = 0 /\ o.answer.version = 0 /\ base.version = 0
  <2>1. version' = 0
    BY <1>1 DEF Steady, Onward, EdgeInv
  <2>. QED BY <1>1, <2>1 DEF Seen, Answers
<1>4. StaleServing!SameBody(base, o.answer)
  BY <1>2, <1>3, StaleServingMeans DEF SameBody
<1>5. ASSUME o.answer.slow PROVE base.slow
  <2>1. PICK e, word : word \in {"hit", "stale", "miss"} /\ Outcome(o, Made, e, word) /\ Sound(e)'
    <3>1. "failure" \notin events'
      BY DEF Steady
    <3>. QED BY <3>1, ComesIs
  <2>2. e \in Responses /\ e.at <= clock
    BY <1>1, <2>1 DEF Sound, Responses
  <2>3. word = "miss" /\ Does("slow")
    BY <1>5, <2>1, <2>2, AnswerIs DEF Outcome
  <2>4. Fresh = {} /\ Stale = {}
    BY <2>1, <2>3 DEF Outcome
  <2>5. clock <= serving.due
    BY <1>1 DEF OnTime, Steady, Onward
  <2>6. ASSUME NEW f \in cached, serving.due < f.at + WhileRevalidating PROVE FALSE
    <3>1. /\ clock \in Nat /\ f.at \in Nat /\ Age(f) \in Nat /\ Age(f) = clock - f.at /\ setup.keeps \in Nat
          /\ WhileRevalidating \in Nat
      BY Sizes
    <3>2. Age(f) < WhileRevalidating
      BY <2>5, <2>6, <3>1
    <3>3. Age(f) < setup.keeps \/ Age(f) \in setup.keeps .. WhileRevalidating - 1
      BY <3>1, <3>2
    <3>. QED BY <2>4, <3>3 DEF Fresh, Stale
  <2>. QED BY <2>3, <2>6 DEF StaleInTime
<1>. QED BY <1>4, <1>5 DEF StaleServing!Honored

\* Half the window, or less.
LEMMA UntilRefreshedIs ==
  ASSUME EdgeInv, AnalysisInv, StaleServing!Declares("stale-while-revalidate")
  PROVE  /\ StaleServing!UntilRefreshed \in Nat /\ StaleServing!UntilRefreshed <= setup.maxWait
         /\ Revalidation # 0 => 2 * StaleServing!UntilRefreshed <= Revalidation
<1>1. analysis.response = setup.response
  BY DEF StaleServing!Declares, AnalysisInv, ErrorResponse
<1>2. PICK wait : wait = setup.response.seconds["stale-while-revalidate"]
  OBVIOUS
<1>3. wait \in Nat /\ Revalidation = 2 * wait /\ setup.maxWait \in Nat
  BY <1>1, <1>2 DEF StaleServing!Declares, EdgeInv, Proper, Revalidation, Window, Second
<1>4. StaleServing!UntilRefreshed = IF wait = 0 \/ wait > setup.maxWait THEN setup.maxWait ELSE wait
  BY <1>1, <1>2 DEF StaleServing!UntilRefreshed
<1>. QED BY <1>3, <1>4

\* After a stale answer that can be judged, the entry is as young as half a window
\* when the refreshed one is asked for.
LEMMA RenewedInTime ==
  ASSUME EdgeInv, AnalysisInv, StaleServing!Declares("stale-while-revalidate"), NEW o, Comes(o),
         Conforming, Steady', Does("refreshes"),
         Second * o.answer.age >= setup.keeps, 4 * o.answer.age > Revalidation
  PROVE  \E f \in cached' : 2 * (clock + StaleServing!UntilRefreshed - f.at) <= Revalidation
<1>1. UNCHANGED <<setup, clock, version>> /\ cached' = o.left
  BY ComesIs
<1>2. "failure" \notin events' /\ Does("stores") /\ ~Does("hides-age")
  BY <1>1 DEF Steady, Conforming
<1>3. PICK e, word : word \in {"hit", "stale", "miss"} /\ Outcome(o, Made, e, word) /\ Sound(e)'
  BY <1>2, ComesIs
<1>4. o.answer.age = Age(e) \div 2
  BY <1>2, <1>3 DEF Outcome, Answer, Second
<1>5. \A n \in Nat : n \div 2 \in Nat /\ 2 * (n \div 2) <= n /\ n <= 2 * (n \div 2) + 1
  OBVIOUS
<1>6. Failed \notin Made /\ \A r \in Made : Kept(r) = {r} /\ r.at = clock
  BY <1>2, MadeIs DEF Kept, Failed
<1>7. PICK age, half : age = Age(e) /\ half = age \div 2
  OBVIOUS
<1>8. 2 * half >= setup.keeps /\ 4 * half > Revalidation
  BY <1>4, <1>7 DEF Second
<1>9. setup.keeps \in Nat /\ Revalidation \in Nat /\ clock \in Nat /\ WhileRevalidating = setup.keeps + Revalidation
  BY Sizes
<1>10. word # "hit"
  <2>1. ASSUME word = "hit" PROVE FALSE
    <3>1. e \in cached /\ age < setup.keeps
      BY <1>3, <1>7, <2>1 DEF Outcome, Fresh
    <3>2. age \in Nat
      BY <1>7, <3>1, Sizes
    <3>3. 2 * half <= age /\ half \in Nat
      BY <1>5, <1>7, <3>2
    <3>. QED BY <1>8, <1>9, <3>1, <3>2, <3>3
  <2>. QED BY <2>1
<1>11. word # "miss"
  <2>1. ASSUME word = "miss" PROVE FALSE
    <3>1. e.at = clock
      BY <1>3, <1>6, <2>1 DEF Outcome
    <3>2. age = 0
      BY <1>7, <1>9, <3>1 DEF Age
    <3>3. half = 0
      BY <1>7, <3>2
    <3>. QED BY <1>8, <1>9, <3>3
  <2>. QED BY <2>1
<1>12. e \in Stale /\ \E r \in Made : cached' = Kept(r)
  BY <1>1, <1>3, <1>6, <1>10, <1>11 DEF Outcome
<1>13. PICK r : cached' = {r} /\ r.at = clock
  BY <1>6, <1>12
<1>14. Revalidation # 0
  <2>1. e \in cached /\ age \in setup.keeps .. WhileRevalidating - 1
    BY <1>7, <1>12 DEF Stale
  <2>. QED BY <1>9, <2>1
<1>15. clock + StaleServing!UntilRefreshed - r.at = StaleServing!UntilRefreshed
  BY <1>9, <1>13, UntilRefreshedIs
<1>. QED BY <1>13, <1>14, <1>15, UntilRefreshedIs

\* The error half begins, whatever has been found.
LEMMA ToErrorKeeps ==
  ASSUME EdgeInv, ServingTypes, ServingInv, Lost \/ \E o : Comes(o), UNCHANGED analysis,
         NEW base, base = serving.base, serving.pc \in {"stale", "refreshed"},
         NEW stale \in Answers, NEW onError \in {"untested", "yes", "no"},
         NEW findings \in SUBSET {"too-large", "not-honored", "no-refresh"},
         serving' = State(AfterStale, 0, base, stale, onError, findings),
         Onward => (Conforming /\ Steady' => Genuine(serving', events'))
  PROVE  Onward /\ ServingTypes' /\ OnTime' /\ ServingInv'
<1>1. Onward /\ UNCHANGED <<setup, clock, version>>
  BY ComesIs, LostOnward
<1>2. Analysed /\ Seen(base)
  BY DEF ServingTypes, StaleServing!Waiting
<1>3. base \in Answers /\ Seen(base)'
  BY <1>1, <1>2, SeenStays DEF Seen, Answers
<1>4. serving'.pc = AfterStale /\ AfterStale \in {"error", "done"}
  BY StateIs DEF AfterStale
<1>5. Conforming /\ Steady' => InTime' /\ Genuine(serving', events')
  BY <1>1, <1>4, SpareThen DEF InTime, StaleInTime, RefreshedInTime
<1>6. 0 \in Nat /\ 0 <= clock + setup.maxWait
  BY Sizes
<1>. QED BY <1>1, <1>2, <1>3, <1>4, <1>5, <1>6, ServingGoesOn

\* The request for the stale answer.
LEMMA StaleRequestKeeps ==
  ASSUME EdgeInv, AnalysisInv, ServingTypes, OnTime, ServingInv, StaleServing!StaleRequest
  PROVE  Onward /\ ServingTypes' /\ OnTime' /\ ServingInv' /\ UNCHANGED analysis
<1>1. UNCHANGED analysis /\ serving.pc = "stale" /\ serving.due <= clock /\ serving.due \in Nat
  BY ServingIs DEF StaleServing!StaleRequest, StaleServing!At, Typed
<1>2. PICK pc, due, base, stale, onError, findings :
        /\ due = serving.due /\ base = serving.base /\ stale = serving.stale
        /\ onError = serving.onError /\ findings = serving.findings
        /\ serving = State(pc, due, base, stale, onError, findings)
  BY ServingIs
<1>3. /\ base \in Answers /\ stale \in Answers /\ onError \in {"untested", "yes", "no"} /\ Seen(base) /\ Analysed
      /\ findings \in SUBSET {"too-large", "not-honored", "no-refresh"}
      /\ StaleServing!Declares("stale-while-revalidate") /\ "no-refresh" \notin findings
  BY <1>1, <1>2, ServingIs DEF Typed, ServingTypes, StaleServing!Waiting
<1>4. ASSUME Onward, Conforming, Steady'
      PROVE  /\ Steady /\ ("loss" \notin events' => "loss" \notin events)
             /\ StaleInTime /\ Genuine(serving, events)
  BY <1>4 DEF Onward, Steady, ServingInv, StaleVerdictsGenuine, Genuine, Revalidation
<1>5. CASE Lost /\ serving' = StaleServing!ToError(serving)
  <2>1. serving' = State(AfterStale, 0, base, stale, onError, findings)
    BY <1>2, <1>5, ToErrorIs
  <2>2. Onward => (Conforming /\ Steady' => Genuine(serving', events'))
    BY <1>2, <1>4, <2>1, StateIs DEF Genuine
  <2>. QED BY <1>1, <1>2, <1>3, <1>5, <2>1, <2>2, ToErrorKeeps
<1>6. ASSUME NEW o, Comes(o), StaleServing!Honored(base, o.answer),
             serving' = [[serving EXCEPT !.stale = o.answer]
                            EXCEPT !.pc = "refreshed", !.due = clock + StaleServing!UntilRefreshed]
      PROVE  Onward /\ ServingTypes' /\ OnTime' /\ ServingInv'
  <2>1. PICK a, wait : a = o.answer /\ wait = StaleServing!UntilRefreshed
    OBVIOUS
  <2>2. Onward /\ UNCHANGED <<setup, clock, version>> /\ Seen(a)' /\ Seen(base)' /\ a \in Answers
    <3>1. Onward /\ UNCHANGED <<setup, clock, version>> /\ Seen(a)' /\ Seen(base)'
      BY <1>3, <1>6, <2>1, ComesIs, ComesSeen, SeenStays
    <3>. QED BY <3>1 DEF Seen, Answers
  <2>3. serving' = State("refreshed", clock + wait, base, a, onError, findings)
    <3>1. [serving EXCEPT !.stale = o.answer] = State(pc, due, base, a, onError, findings)
      BY <1>2, <2>1 DEF State
    <3>2. serving' = Moved([serving EXCEPT !.stale = o.answer], "refreshed", clock + wait)
      BY <1>6, <2>1 DEF Moved
    <3>. QED BY <3>1, <3>2, GoesOnIs
  <2>4. wait \in Nat /\ wait <= setup.maxWait /\ clock \in Nat /\ setup.maxWait \in Nat
    BY <1>3, <2>1, UntilRefreshedIs, Sizes
  <2>5. clock + wait \in Nat /\ clock + wait <= clock + setup.maxWait /\ clock <= clock + wait
    BY <2>4
  <2>6. /\ serving'.pc = "refreshed" /\ serving'.due = clock + wait /\ serving'.stale = a
        /\ serving'.findings = findings /\ serving'.onError = onError
    BY <2>3, StateIs
  <2>7. \A directive : Window(directive)' = Window(directive)
    BY <2>2 DEF Window
  <2>8. \A conduct : Does(conduct)' <=> Does(conduct)
    BY <2>2 DEF Does
  <2>9. Conforming /\ Steady' => RefreshedInTime'
    <3>1. ASSUME Conforming, Steady', Does("refreshes"), Second * a.age >= setup.keeps, 4 * a.age > Revalidation
          PROVE  \E f \in cached' : 2 * (clock + wait - f.at) <= Revalidation
      BY <1>3, <1>6, <2>1, <3>1, RenewedInTime
    <3>2. Revalidation' = Revalidation
      BY <2>7 DEF Revalidation
    <3>3. Judged' => Second * a.age >= setup.keeps /\ 4 * a.age > Revalidation
      BY <2>2, <2>6, <3>2 DEF Judged
    <3>4. RefreshedInTime' <=> (serving'.pc = "refreshed" /\ Judged' /\ Does("refreshes")' =>
                                  \E f \in cached' : 2 * (serving'.due - f.at) <= Revalidation')
      BY DEF RefreshedInTime
    <3>5. PICK due1, window : due1 = clock + wait /\ window = Revalidation
      OBVIOUS
    <3>6. serving'.due = due1 /\ Revalidation' = window
      BY <2>6, <3>2, <3>5
    <3>7. RefreshedInTime' <=> (serving'.pc = "refreshed" /\ Judged' /\ Does("refreshes")' =>
                                  \E f \in cached' : 2 * (due1 - f.at) <= window)
      BY <3>4, <3>6, Zenon
    <3>8. ASSUME Conforming, Steady', Does("refreshes")', Judged' PROVE \E f \in cached' : 2 * (due1 - f.at) <= window
      <4>1. Does("refreshes")
        BY <2>8, <3>8
      <4>2. PICK f \in cached' : 2 * (clock + wait - f.at) <= Revalidation
        BY <3>1, <3>3, <3>8, <4>1
      <4>3. 2 * (due1 - f.at) <= window
        <5>1. f.at \in Nat /\ Revalidation \in Nat
          BY <2>2, NumbersThen, Sizes
        <5>. QED BY <2>4, <3>5, <4>2, <5>1
      <4>. QED BY <4>3
    <3>. QED BY <3>7, <3>8, Zenon
  <2>10. ASSUME Conforming, Steady' PROVE Genuine(serving', events')
    BY <1>2, <1>3, <1>4, <2>2, <2>6, <2>10 DEF Genuine
  <2>11. Conforming /\ Steady' => InTime' /\ Genuine(serving', events')
    BY <2>6, <2>9, <2>10 DEF InTime, StaleInTime, SpareInTime
  <2>. QED BY <1>1, <1>3, <2>2, <2>3, <2>5, <2>11, ServingGoesOn
<1>7. ASSUME NEW o, Comes(o), ~StaleServing!Honored(base, o.answer),
             serving' = StaleServing!ToError(StaleServing!Found("not-honored", [serving EXCEPT !.stale = o.answer]))
      PROVE  Onward /\ ServingTypes' /\ OnTime' /\ ServingInv'
  <2>1. PICK a : a = o.answer
    OBVIOUS
  <2>2. Onward /\ UNCHANGED <<setup, clock, version>> /\ a \in Answers
    <3>1. Onward /\ UNCHANGED <<setup, clock, version>> /\ Seen(a)'
      BY <1>7, <2>1, ComesIs, ComesSeen
    <3>. QED BY <3>1 DEF Seen, Answers
  <2>3. PICK more : more = findings \cup {"not-honored"}
    OBVIOUS
  <2>4. serving' = State(AfterStale, 0, base, a, onError, more)
    <3>1. [serving EXCEPT !.stale = o.answer] = State(pc, due, base, a, onError, findings)
      BY <1>2, <2>1 DEF State
    <3>2. StaleServing!Found("not-honored", [serving EXCEPT !.stale = o.answer]) =
            State(pc, due, base, a, onError, more)
      BY <2>3, <3>1, FoundIs
    <3>. QED BY <1>7, <3>2, ToErrorIs
  <2>5. serving'.findings = more /\ serving'.onError = onError
    BY <2>4, StateIs
  <2>6. ASSUME Conforming, Steady' PROVE Genuine(serving', events')
    <3>1. Revalidation >= 2 * Second => ~(Does("serves-stale") /\ Does("refreshes"))
      BY <1>1, <1>2, <1>3, <1>4, <1>7, <2>2, <2>6, HonoredInTime
    <3>2. "no-refresh" \notin more
      BY <1>3, <2>3
    <3>3. onError = "no" /\ Window("stale-if-error") > 0 /\ "loss" \notin events'
           => ~Does("serves-on-error") \/ ~Does("instrumented")
      BY <1>2, <1>4, <2>2, <2>6 DEF Genuine
    <3>. QED BY <2>5, <3>1, <3>2, <3>3 DEF Genuine
  <2>7. more \in SUBSET {"too-large", "not-honored", "no-refresh"}
    BY <1>3, <2>3
  <2>. QED BY <1>1, <1>2, <1>3, <1>7, <2>2, <2>4, <2>6, <2>7, ToErrorKeeps
<1>. QED BY <1>1, <1>2, <1>5, <1>6, <1>7, StaleServingRequests, Zenon DEF StaleServing!StaleRequest

\* A cache that refreshes shows it to who has waited half the window since a stale
\* answer that can be judged.
LEMMA RenewalSeen ==
  ASSUME EdgeInv, OnTime, RefreshedInTime, serving.pc = "refreshed", serving.due <= clock, serving.due \in Nat,
         NEW stale, stale = serving.stale, stale \in Answers, NEW o, Comes(o), Conforming, Steady', Does("refreshes"),
         Second * stale.age >= setup.keeps, 4 * stale.age > Revalidation
  PROVE  StaleServing!Refreshed(stale, o.answer)
<1>1. Onward /\ UNCHANGED <<setup, clock, version>> /\ cached' = o.left
  BY ComesIs
<1>2. "failure" \notin events' /\ Does("stores") /\ ~Does("hides-age")
  BY <1>1 DEF Steady, Conforming
<1>3. PICK e, word : word \in {"hit", "stale", "miss"} /\ Outcome(o, Made, e, word) /\ Sound(e)'
  BY <1>2, ComesIs
<1>4. o.answer.age = Age(e) \div 2
  BY <1>2, <1>3 DEF Outcome, Answer, Second
<1>5. clock <= serving.due
  BY <1>1 DEF OnTime, Steady, Onward
<1>6. PICK f \in cached : 2 * (serving.due - f.at) <= Revalidation
  <2>1. Judged
    BY DEF Judged
  <2>. QED BY <2>1 DEF RefreshedInTime
<1>7. clock \in Nat /\ f.at \in Nat /\ Age(f) \in Nat /\ Age(f) = clock - f.at /\ Revalidation \in Nat
  BY Sizes
<1>8. 2 * Age(f) <= Revalidation
  <2>1. PICK at, age, late, window : at = f.at /\ age = Age(f) /\ late = serving.due /\ window = Revalidation
    OBVIOUS
  <2>2. clock = late
    BY <1>5, <1>7, <2>1
  <2>3. 2 * (late - at) <= window
    <3>1. at \in Nat /\ late \in Nat /\ window \in Nat
      BY <1>7, <2>1
    <3>. QED BY <1>6, <2>1, <3>1
  <2>4. age = late - at
    BY <1>7, <2>1, <2>2
  <2>. QED BY <2>1, <2>3, <2>4
<1>9. o.answer.age \in Nat /\ 4 * o.answer.age <= Revalidation
  <2>1. CASE word = "miss"
    <3>1. Age(e) = 0
      <4>1. e.at = clock
        BY <1>3, <2>1, MadeIs DEF Outcome
      <4>. QED BY <1>7, <4>1 DEF Age
    <3>2. o.answer.age = 0
      BY <1>4, <3>1
    <3>. QED BY <1>7, <3>2
  <2>2. CASE word # "miss"
    <3>1. e \in cached
      BY <1>3, <2>2 DEF Outcome, Fresh, Stale, Spare
    <3>2. e = f
      BY <3>1 DEF EdgeInv
    <3>3. \A n \in Nat : n \div 2 \in Nat /\ 2 * (n \div 2) <= n
      OBVIOUS
    <3>4. o.answer.age \in Nat /\ 2 * o.answer.age <= Age(f)
      BY <1>4, <1>7, <3>2, <3>3
    <3>. QED BY <1>7, <1>8, <3>4
  <2>. QED BY <2>1, <2>2
<1>10. stale.age \in Nat
  BY EdgeAssumption DEF Answers
<1>11. o.answer.age < stale.age
  BY <1>7, <1>9, <1>10
<1>. QED BY <1>11 DEF StaleServing!Refreshed

\* The request for the refreshed answer.
LEMMA RefreshedRequestKeeps ==
  ASSUME EdgeInv, AnalysisInv, ServingTypes, OnTime, ServingInv, StaleServing!RefreshedRequest
  PROVE  Onward /\ ServingTypes' /\ OnTime' /\ ServingInv' /\ UNCHANGED analysis
<1>1. UNCHANGED analysis /\ serving.pc = "refreshed" /\ serving.due <= clock /\ serving.due \in Nat
  BY ServingIs DEF StaleServing!RefreshedRequest, StaleServing!At, Typed
<1>2. PICK pc, due, base, stale, onError, findings :
        /\ due = serving.due /\ base = serving.base /\ stale = serving.stale
        /\ onError = serving.onError /\ findings = serving.findings
        /\ serving = State(pc, due, base, stale, onError, findings)
  BY ServingIs
<1>3. /\ base \in Answers /\ stale \in Answers /\ onError \in {"untested", "yes", "no"} /\ Analysed
      /\ findings \in SUBSET {"too-large", "not-honored", "no-refresh"}
  BY <1>1, <1>2, ServingIs DEF Typed, ServingTypes, StaleServing!Waiting
<1>4. ASSUME Onward, Conforming, Steady'
      PROVE  /\ Steady /\ ("loss" \notin events' => "loss" \notin events)
             /\ RefreshedInTime /\ Genuine(serving, events)
  BY <1>4 DEF Onward, Steady, ServingInv, StaleVerdictsGenuine, Genuine, Revalidation
<1>5. ASSUME Lost \/ \E o : Comes(o), serving' = StaleServing!ToError(serving)
      PROVE  Onward /\ ServingTypes' /\ OnTime' /\ ServingInv'
  <2>1. serving' = State(AfterStale, 0, base, stale, onError, findings)
    BY <1>2, <1>5, ToErrorIs
  <2>2. Onward => (Conforming /\ Steady' => Genuine(serving', events'))
    BY <1>2, <1>4, <2>1, StateIs DEF Genuine
  <2>. QED BY <1>1, <1>2, <1>3, <1>5, <2>1, <2>2, ToErrorKeeps
<1>6. ASSUME NEW o, Comes(o), ~StaleServing!Refreshed(stale, o.answer),
             serving' = StaleServing!ToError(StaleServing!Found("no-refresh", serving))
      PROVE  Onward /\ ServingTypes' /\ OnTime' /\ ServingInv'
  <2>1. PICK more : more = findings \cup {"no-refresh"}
    OBVIOUS
  <2>2. serving' = State(AfterStale, 0, base, stale, onError, more)
    <3>1. serving = State(pc, due, base, stale, onError, findings)
      BY <1>2
    <3>2. StaleServing!Found("no-refresh", serving) = State(pc, due, base, stale, onError, more)
      BY <2>1, <3>1, FoundIs
    <3>. QED BY <1>6, <3>2, ToErrorIs
  <2>3. serving'.findings = more /\ serving'.onError = onError /\ serving'.stale = stale
    BY <2>2, StateIs
  <2>4. ASSUME Onward, Conforming, Steady' PROVE Genuine(serving', events')
    <3>1. Second * stale.age >= setup.keeps /\ 4 * stale.age > Revalidation => ~Does("refreshes")
      BY <1>1, <1>2, <1>3, <1>4, <1>6, <2>4, RenewalSeen
    <3>2. "not-honored" \in more => "not-honored" \in findings
      BY <2>1
    <3>3. onError = "no" /\ Window("stale-if-error") > 0 /\ "loss" \notin events'
           => ~Does("serves-on-error") \/ ~Does("instrumented")
      BY <1>2, <1>4, <2>4 DEF Genuine
    <3>4. "not-honored" \in findings /\ Revalidation >= 2 * Second => ~(Does("serves-stale") /\ Does("refreshes"))
      BY <1>2, <1>4, <2>4 DEF Genuine
    <3>. QED BY <2>3, <3>1, <3>2, <3>3, <3>4 DEF Genuine
  <2>5. more \in SUBSET {"too-large", "not-honored", "no-refresh"}
    BY <1>3, <2>1
  <2>. QED BY <1>1, <1>2, <1>3, <1>6, <2>2, <2>4, <2>5, ToErrorKeeps
<1>7. \/ (Lost \/ \E o : Comes(o)) /\ serving' = StaleServing!ToError(serving)
      \/ \E o : /\ Comes(o) /\ ~StaleServing!Refreshed(stale, o.answer)
                /\ serving' = StaleServing!ToError(StaleServing!Found("no-refresh", serving))
  BY <1>2, StaleServingRequests DEF StaleServing!RefreshedRequest
<1>. QED BY <1>1, <1>5, <1>6, <1>7

\* The request for which the origin fails, or not.
LEMMA ErrorRequestKeeps ==
  ASSUME EdgeInv, AnalysisInv, ServingTypes, OnTime, ServingInv, StaleServing!ErrorRequest
  PROVE  Onward /\ ServingTypes' /\ OnTime' /\ ServingInv' /\ UNCHANGED analysis
<1>1. UNCHANGED analysis /\ serving.pc = "error" /\ Analysed
  BY DEF StaleServing!ErrorRequest, StaleServing!At, ServingTypes, StaleServing!Waiting
<1>2. PICK pc, due, base, stale, onError, findings :
        /\ due = serving.due /\ base = serving.base /\ stale = serving.stale
        /\ onError = serving.onError /\ findings = serving.findings
        /\ serving = State(pc, due, base, stale, onError, findings)
  BY ServingIs
<1>3. /\ due \in Nat /\ base \in Answers /\ stale \in Answers /\ onError \in {"untested", "yes", "no"}
      /\ findings \in SUBSET {"too-large", "not-honored", "no-refresh"} /\ due <= clock + setup.maxWait
  BY <1>2, ServingIs DEF Typed
<1>4. ASSUME NEW judged \in {"untested", "yes", "no"}, Onward, UNCHANGED <<setup, clock>>,
             serving' = State("done", due, base, stale, judged, findings),
             Conforming /\ Steady' /\ judged = "no" /\ "loss" \notin events' /\ Window("stale-if-error") > 0 =>
                judged = onError \/ ~Does("serves-on-error") \/ ~Does("instrumented")
      PROVE  ServingTypes' /\ OnTime' /\ ServingInv'
  <2>1. serving'.pc = "done" /\ serving'.findings = findings /\ serving'.stale = stale /\ serving'.onError = judged
    BY <1>4, StateIs
  <2>2. ASSUME Conforming, Steady' PROVE Genuine(serving', events')
    <3>1. Steady /\ ("loss" \notin events' => "loss" \notin events)
      BY <1>4, <2>2 DEF Onward, Steady
    <3>2. Genuine(serving, events)
      BY <2>2, <3>1 DEF ServingInv, StaleVerdictsGenuine, Genuine, Revalidation
    <3>. QED BY <1>2, <1>4, <2>1, <2>2, <3>1, <3>2 DEF Genuine
  <2>3. InTime'
    BY <2>1 DEF InTime, StaleInTime, RefreshedInTime, SpareInTime
  <2>. QED BY <1>1, <1>3, <1>4, <2>2, <2>3, ServingGoesOn
<1>5. \A o : StaleServing!OnError(o.answer) \in {"untested", "yes", "no"}
  BY DEF StaleServing!OnError
<1>6. CASE Lost /\ serving' = [serving EXCEPT !.pc = "done"]
  <2>1. Onward /\ UNCHANGED <<setup, clock, version>>
    BY <1>6, LostOnward
  <2>2. serving' = State("done", due, base, stale, onError, findings)
    BY <1>2, <1>6 DEF State
  <2>. QED BY <1>1, <1>3, <1>4, <2>1, <2>2
<1>7. ASSUME NEW o, serving' = [serving EXCEPT !.pc = "done", !.onError = StaleServing!OnError(o.answer)]
      PROVE  serving' = State("done", due, base, stale, StaleServing!OnError(o.answer), findings)
  <2>1. serving = State(pc, due, base, stale, onError, findings)
    BY <1>2
  <2>2. serving' = Concluded(serving, StaleServing!OnError(o.answer))
    BY <1>7 DEF Concluded
  <2>. QED BY <2>1, <2>2, JudgedIs
<1>8. ASSUME NEW o, ~Does("instrumented"), Comes(o),
             serving' = [serving EXCEPT !.pc = "done", !.onError = StaleServing!OnError(o.answer)]
      PROVE  Onward /\ ServingTypes' /\ OnTime' /\ ServingInv'
  <2>1. Onward /\ UNCHANGED <<setup, clock, version>>
    BY <1>8, ComesIs
  <2>. QED BY <1>4, <1>5, <1>7, <1>8, <2>1, ZenonT(30)
<1>9. ASSUME NEW o \in StaleServing!Simulated, Does("instrumented"), cached' = o.left,
             UNCHANGED <<setup, clock, version, events>>,
             serving' = [serving EXCEPT !.pc = "done", !.onError = StaleServing!OnError(o.answer)]
      PROVE  Onward /\ ServingTypes' /\ OnTime' /\ ServingInv'
  <2>1. \/ \E e \in Spare : o = [answer |-> Answer(e, "stale"), left |-> cached]
        \/ Spare = {} /\ o = [answer |-> Answer(Failed, "miss"), left |-> cached]
    BY <1>9, StaleServingCache, StaleServingAnswer DEF StaleServing!Simulated
  <2>2. cached' = cached
    BY <1>9, <2>1
  <2>3. Onward
    <3>1. Logged
      BY <1>9 DEF Logged, EdgeInv, Kinds
    <3>. QED BY <1>9, <2>2, <3>1, KeptOnward
  <2>4. ASSUME Conforming, Steady', StaleServing!OnError(o.answer) = "no", "loss" \notin events',
               Window("stale-if-error") > 0, Does("serves-on-error")
        PROVE  FALSE
    <3>1. Steady /\ "failure" \notin events /\ "loss" \notin events
      BY <1>9, <2>4 DEF Steady
    <3>2. Spare # {}
      BY <1>1, <2>4, <3>1 DEF ServingInv, SpareInTime
    <3>3. PICK e \in Spare : o.answer = Answer(e, "stale")
      BY <2>1, <3>2
    <3>4. e \in cached /\ Sound(e)
      BY <3>3 DEF Spare, EdgeInv
    <3>5. Answer(e, "stale").good = e.good /\ e.good
      BY <3>1, <3>4, AnswerIs DEF Sound
    <3>. QED BY <2>4, <3>3, <3>5 DEF StaleServing!OnError
  <2>. QED BY <1>4, <1>5, <1>7, <1>9, <2>3, <2>4, ZenonT(30)
<1>. QED BY <1>1, <1>6, <1>8, <1>9, StaleServingRequests, StaleServingCache DEF StaleServing!ErrorRequest

-----------------------------------------------------------------------------
(* The theorems *)

\* The stale-serving check keeps its invariant.
LEMMA ServingKeeps ==
  ASSUME EdgeInv, AnalysisInv, ServingTypes, OnTime, ServingInv, StaleServing!Next
  PROVE  Onward /\ ServingTypes' /\ OnTime' /\ ServingInv' /\ UNCHANGED analysis
BY NothingDeclaredKeeps, BaseRequestKeeps, StaleRequestKeeps, RefreshedRequestKeeps, ErrorRequestKeeps
   DEF StaleServing!Next

\* No request takes time.
LEMMA RequestsTakeNoTime == Analyze \/ LiveState!Sample \/ StaleServing!Next \/ Consistency!Next => clock' = clock
<1>1. \A o : Comes(o) => clock' = clock
  BY DEF Comes
<1>2. Lost => clock' = clock
  BY DEF Lost
<1>3. Analyze => clock' = clock
  BY <1>1, <1>2 DEF Analyze
<1>4. LiveState!Sample => clock' = clock
  BY <1>1, <1>2, LiveStateRequests DEF LiveState!Sample
<1>5. Consistency!Next => clock' = clock
  BY <1>1, <1>2, ConsistencyRequests
     DEF Consistency!Next, Consistency!BaseRequest, Consistency!ConditionalRequest, Consistency!AgainRequest
<1>6. StaleServing!NothingDeclared => clock' = clock
  BY DEF StaleServing!NothingDeclared, StaleServing!surroundings
<1>7. StaleServing!BaseRequest \/ StaleServing!StaleRequest \/ StaleServing!RefreshedRequest => clock' = clock
  BY <1>1, <1>2, StaleServingRequests
     DEF StaleServing!BaseRequest, StaleServing!StaleRequest, StaleServing!RefreshedRequest
<1>8. StaleServing!ErrorRequest => clock' = clock
  BY <1>1, <1>2, StaleServingRequests DEF StaleServing!ErrorRequest
<1>. QED BY <1>3, <1>4, <1>5, <1>6, <1>7, <1>8 DEF StaleServing!Next

\* Whatever goes on around the checks, unless a request that is due is overtaken
\* unnoticed, their invariants stay.
LEMMA OthersGoOn ==
  ASSUME IInv, Onward, UNCHANGED <<analysis, checks>>,
         clock' = clock \/ "delay" \in events' \/ (~LiveState!Due /\ ~StaleServing!Due)
  PROVE  IInv'
<1>1. EdgeInv /\ AnalysisInv /\ LiveTypes /\ LiveInv /\ ServingTypes /\ OnTime /\ ServingInv /\ ConsistencyInv
  BY DEF IInv
<1>2. UNCHANGED live /\ UNCHANGED serving /\ UNCHANGED consistency /\ EdgeInv'
  BY DEF checks, Onward
<1>3. AnalysisInv'
  BY <1>1, AnalysisStays
<1>4. LiveTypes' /\ LiveInv'
  BY <1>1, <1>2, LiveStays DEF LiveOnTime
<1>5. ServingTypes' /\ OnTime' /\ ServingInv'
  BY <1>1, <1>2, ServingStays
<1>6. ConsistencyInv'
  BY <1>1, <1>2, ConsistencyStays
<1>. QED BY <1>2, <1>3, <1>4, <1>5, <1>6 DEF IInv

\* It holds of what the scan starts with.
LEMMA InitIInv == Init => IInv
<1>. SUFFICES ASSUME Init PROVE IInv
  OBVIOUS
<1>1. EdgeInv
  <2>1. Cardinality({}) = 0
    BY FS_EmptySet
  <2>. QED BY <2>1, EdgeAssumption DEF Init, EdgeInv
<1>2. AnalysisInv
  BY <1>1, EdgeAssumption DEF Init, AnalysisInv, Pending, Known, EdgeInv
<1>3. setup.samples \in Nat \ {0} /\ setup.maxWait \in Nat /\ clock = 0
  BY <1>1, Numbers DEF Init
<1>4. PICK pc : /\ pc \in {"sample", "off"}
                /\ live = [pc |-> pc, taken |-> 0, hits |-> 0, misses |-> 0, told |-> FALSE, due |-> 0, findings |-> {}]
  BY DEF Init, LiveState!Init, LiveState!Idle
<1>5. LiveTypes
  <2>1. live \in [pc : {"off", "sample", "done"}, taken : Nat, hits : Nat, misses : Nat, told : BOOLEAN, due : Nat,
                  findings : SUBSET {"not-cached", "status-cached", "uncacheable-cached"}]
    <3>1. /\ pc \in {"off", "sample", "done"} /\ 0 \in Nat /\ FALSE \in BOOLEAN
          /\ {} \in SUBSET {"not-cached", "status-cached", "uncacheable-cached"}
      BY <1>4
    <3>. QED BY <1>4, <3>1, Zenon
  <2>2. live.taken = 0 /\ live.hits = 0 /\ live.misses = 0
    BY <1>4
  <2>. QED BY <1>3, <2>1, <2>2 DEF LiveTypes
<1>6. LiveInv
  <2>1. live.taken = 0 /\ live.hits = 0 /\ live.misses = 0 /\ live.findings = {}
    BY <1>4
  <2>. QED BY <2>1 DEF LiveInv, CacheVerdictsGenuine
<1>7. NoAnswer \in Answers
  <2>1. /\ FALSE \in BOOLEAN /\ 0 \in 0 .. 1 /\ 0 \in 0 .. MaxClock /\ "unknown" \in CacheStates \cup {"unknown"}
    BY EdgeAssumption
  <2>. QED BY <2>1, Zenon DEF NoAnswer, Answers
<1>8. PICK p : p \in {"base", "off"} /\ serving = State(p, 0, NoAnswer, NoAnswer, "untested", {})
  <2>1. StaleServing!Idle = State("base", 0, NoAnswer, NoAnswer, "untested", {})
    BY StaleServingMeans DEF StaleServing!Idle, State
  <2>2. [StaleServing!Idle EXCEPT !.pc = "off"] = State("off", 0, NoAnswer, NoAnswer, "untested", {})
    BY <2>1 DEF State
  <2>. QED BY <2>1, <2>2 DEF Init, StaleServing!Init
<1>9. serving.pc = p /\ serving.due = 0 /\ serving.findings = {} /\ serving.onError = "untested"
  BY <1>8, StateIs
<1>10. ServingTypes
  <2>1. serving \in [pc : {"off", "base", "stale", "refreshed", "error", "done"}, due : Nat,
                     base : Answers, stale : Answers, onError : {"untested", "yes", "no"},
                     findings : SUBSET {"too-large", "not-honored", "no-refresh"}]
    <3>1. /\ p \in {"off", "base", "stale", "refreshed", "error", "done"} /\ 0 \in Nat
          /\ "untested" \in {"untested", "yes", "no"} /\ {} \in SUBSET {"too-large", "not-honored", "no-refresh"}
      BY <1>8
    <3>. QED BY <1>7, <1>8, <3>1, Zenon DEF State
  <2>. QED BY <1>3, <1>8, <1>9, <2>1 DEF ServingTypes, StaleServing!Waiting
<1>11. OnTime /\ ServingInv
  BY <1>8, <1>9 DEF OnTime, ServingInv, StaleInTime, RefreshedInTime, SpareInTime, StaleVerdictsGenuine
<1>12. PICK q : q \in {"base", "off"} /\ consistency = [pc |-> q, base |-> NoAnswer, findings |-> {}]
  BY DEF Init, Consistency!Init, Consistency!Idle, Consistency!NoAnswer, NoAnswer
<1>13. ConsistencyInv
  <2>1. consistency.pc = q /\ consistency.findings = {}
    BY <1>12
  <2>2. consistency \in [pc : {"off", "base", "conditional", "again", "done"}, base : Answers,
                         findings : SUBSET {"redirect", "not-honored", "unstable"}]
    <3>1. q \in {"off", "base", "conditional", "again", "done"} /\ {} \in SUBSET {"redirect", "not-honored", "unstable"}
      BY <1>12
    <3>. QED BY <1>7, <1>12, <3>1, Zenon
  <2>. QED BY <1>12, <2>1, <2>2 DEF ConsistencyInv, ValidatorsGenuine
<1>. QED BY <1>1, <1>2, <1>5, <1>6, <1>10, <1>11, <1>13 DEF IInv

\* Every step keeps it.
LEMMA NextIInv == IInv /\ [Next]_vars => IInv'
<1>. SUFFICES ASSUME IInv, [Next]_vars PROVE IInv'
  OBVIOUS
<1>1. EdgeInv /\ AnalysisInv /\ LiveTypes /\ LiveInv /\ ServingTypes /\ OnTime /\ ServingInv /\ ConsistencyInv
  BY DEF IInv
<1>2. CASE Analyze /\ UNCHANGED checks
  <2>1. Onward /\ AnalysisInv' /\ clock' = clock /\ EdgeInv'
    BY <1>1, <1>2, AnalyzeKeeps, RequestsTakeNoTime DEF Onward
  <2>2. UNCHANGED live /\ UNCHANGED serving /\ UNCHANGED consistency
    BY <1>2 DEF checks
  <2>3. LiveTypes' /\ LiveInv'
    BY <1>1, <2>1, <2>2, LiveStays DEF LiveOnTime
  <2>4. ~Analysed /\ Analysed'
    <3>1. analysis.pc = "due"
      BY <1>2 DEF Analyze
    <3>2. analysis' = [analysis EXCEPT !.pc = "missing"] => analysis'.pc = "missing"
      BY <1>1 DEF AnalysisInv
    <3>. QED BY <1>2, <3>1, <3>2 DEF Analyze, Analysed
  <2>5. ServingTypes' /\ OnTime' /\ ServingInv'
    BY <1>1, <2>1, <2>2, <2>4, ServingStays
  <2>6. ConsistencyInv'
    BY <1>1, <2>1, <2>2, ConsistencyStays
  <2>. QED BY <2>1, <2>3, <2>5, <2>6 DEF IInv
<1>3. CASE LiveState!Sample /\ UNCHANGED <<serving, consistency>>
  <2>1. Onward /\ LiveTypes' /\ LiveInv' /\ UNCHANGED analysis /\ clock' = clock /\ EdgeInv'
    BY <1>1, <1>3, LiveKeeps, RequestsTakeNoTime DEF Onward
  <2>2. UNCHANGED serving /\ UNCHANGED consistency
    BY <1>3
  <2>3. AnalysisInv' /\ ConsistencyInv'
    BY <1>1, <2>1, <2>2, AnalysisStays, ConsistencyStays
  <2>4. ServingTypes' /\ OnTime' /\ ServingInv'
    BY <1>1, <2>1, <2>2, ServingStays
  <2>. QED BY <2>1, <2>3, <2>4 DEF IInv
<1>4. CASE StaleServing!Next /\ UNCHANGED <<live, consistency>>
  <2>1. Onward /\ ServingTypes' /\ OnTime' /\ ServingInv' /\ UNCHANGED analysis /\ clock' = clock /\ EdgeInv'
    BY <1>1, <1>4, ServingKeeps, RequestsTakeNoTime DEF Onward
  <2>2. UNCHANGED live /\ UNCHANGED consistency
    BY <1>4
  <2>3. AnalysisInv' /\ ConsistencyInv'
    BY <1>1, <2>1, <2>2, AnalysisStays, ConsistencyStays
  <2>4. LiveTypes' /\ LiveInv'
    BY <1>1, <2>1, <2>2, LiveStays DEF LiveOnTime
  <2>. QED BY <2>1, <2>3, <2>4 DEF IInv
<1>5. CASE Consistency!Next /\ UNCHANGED <<live, serving>>
  <2>1. Onward /\ ConsistencyInv' /\ UNCHANGED analysis /\ clock' = clock /\ EdgeInv'
    BY <1>1, <1>5, ConsistencyKeeps, RequestsTakeNoTime DEF Onward
  <2>2. UNCHANGED live /\ UNCHANGED serving
    BY <1>5
  <2>3. AnalysisInv' /\ LiveTypes' /\ LiveInv'
    BY <1>1, <2>1, <2>2, AnalysisStays, LiveStays DEF LiveOnTime
  <2>4. ServingTypes' /\ OnTime' /\ ServingInv'
    BY <1>1, <2>1, <2>2, ServingStays
  <2>. QED BY <2>1, <2>3, <2>4 DEF IInv
<1>6. CASE (Visit \/ Evict \/ Publish) /\ UNCHANGED <<analysis, checks>>
  <2>1. Onward /\ clock' = clock
    BY <1>1, <1>6, AroundOnward DEF Visit, Evict, Publish
  <2>. QED BY <1>6, <2>1, OthersGoOn
<1>7. CASE /\ Analysed /\ Waiting
           /\ Tick(LiveState!Due \/ StaleServing!Due \/ Consistency!Due)
           /\ UNCHANGED <<analysis, checks>>
  <2>1. PICK due \in BOOLEAN : due = (LiveState!Due \/ StaleServing!Due \/ Consistency!Due)
    OBVIOUS
  <2>2. Tick(due)
    BY <1>7, <2>1
  <2>3. Onward
    BY <1>1, <2>2, AroundOnward
  <2>4. "delay" \in events' \/ ~due
    BY <2>2 DEF Tick, Happens
  <2>. QED BY <1>7, <2>1, <2>3, <2>4, OthersGoOn
<1>8. CASE UNCHANGED vars
  <2>1. UNCHANGED <<setup, clock, cached, version, events>> /\ UNCHANGED <<analysis, checks>>
    BY <1>8 DEF vars, surroundings, checks
  <2>2. Logged
    BY <1>1, <2>1 DEF Logged, EdgeInv, Kinds
  <2>3. Onward
    BY <1>1, <2>1, <2>2, KeptOnward
  <2>. QED BY <2>1, <2>3, OthersGoOn
<1>. QED BY <1>2, <1>3, <1>4, <1>5, <1>6, <1>7, <1>8 DEF Next

\* The invariant holds throughout.
LEMMA Invariant == Spec => []IInv
BY InitIInv, NextIInv, PTL DEF Spec

\* What the invariant says of types is all that TypeOK does.
LEMMA IInvTypes == IInv => TypeOK
<1>. SUFFICES ASSUME IInv PROVE TypeOK
  OBVIOUS
<1>1. EdgeInv /\ AnalysisInv /\ LiveTypes /\ ServingTypes /\ ConsistencyInv
  BY DEF IInv
<1>2. Cardinality(cached) <= 1
  <2>1. CASE cached = {}
    BY <2>1, FS_EmptySet
  <2>2. CASE \E e \in cached : cached = {e}
    BY <2>2, FS_Singleton
  <2>. QED BY <1>1, <2>1, <2>2 DEF EdgeInv
<1>3. \A e \in cached : e.at \in 0 .. clock
  BY <1>1, Numbers
<1>4. live \in [pc : {"off", "sample", "done"}, taken : 0 .. setup.samples, hits : 0 .. live.taken,
                misses : 0 .. live.taken, told : BOOLEAN, due : Nat,
                findings : SUBSET {"not-cached", "status-cached", "uncacheable-cached"}]
  <2>1. live = [pc |-> live.pc, taken |-> live.taken, hits |-> live.hits, misses |-> live.misses, told |-> live.told,
                due |-> live.due, findings |-> live.findings]
    BY <1>1 DEF LiveTypes
  <2>2. /\ live.pc \in {"off", "sample", "done"} /\ live.told \in BOOLEAN /\ live.due \in Nat
        /\ live.findings \in SUBSET {"not-cached", "status-cached", "uncacheable-cached"}
    BY <1>1 DEF LiveTypes
  <2>3. live.taken \in 0 .. setup.samples /\ live.hits \in 0 .. live.taken /\ live.misses \in 0 .. live.taken
    <3>1. live.taken \in Nat /\ live.hits \in Nat /\ live.misses \in Nat /\ setup.samples \in Nat
      BY <1>1, Numbers DEF LiveTypes
    <3>. QED BY <1>1, <3>1 DEF LiveTypes
  <2>. QED BY <2>1, <2>2, <2>3, Zenon
<1>. QED BY <1>1, <1>2, <1>3, <1>4 DEF TypeOK, EdgeInv, AnalysisInv, ServingTypes, ConsistencyInv

\* Of every resource, cache and set of options, the cache holds one entry at most,
\* nothing happens more often than allowed, live-state counts no more than it asked
\* for and no wait of stale-serving is longer than --stale-window-max-wait.
THEOREM TypeCorrect == Spec => []TypeOK
BY Invariant, IInvTypes, PTL

\* What stale-serving says against a conforming cache is true of it, for every
\* lifetime, window and limit on the wait, whatever users and the other checks do
\* between its requests.
THEOREM StaleServingIsRight == Spec => []StaleVerdictsGenuine
<1>1. IInv => StaleVerdictsGenuine
  BY DEF IInv, ServingInv
<1>. QED BY <1>1, Invariant, PTL

\* What live-state says of the cache is true of it, for every number of samples and
\* interval, every registry of status headers and whatever marks the response bears.
THEOREM LiveStateIsRight == Spec => []CacheVerdictsGenuine
<1>1. IInv => CacheVerdictsGenuine
  BY DEF IInv, LiveInv
<1>. QED BY <1>1, Invariant, PTL

\* What consistency says of the validators is true of them, whether the content
\* changes or the origin fails between its requests.
THEOREM ConsistencyIsRight == Spec => []ValidatorsGenuine
<1>1. IInv => ValidatorsGenuine
  BY DEF IInv, ConsistencyInv
<1>. QED BY <1>1, Invariant, PTL

\* The authenticated and the session check share out what they report, for every
\* response and whatever credentials are configured.
LEMMA CredentialsAlways == CredentialsReported
<1>. DEFINE r == analysis.response
            caller == setup.caller
            sent == Carried(caller) \cap Credentials # {}
<1>1. ~(AuthFinding /\ SessionFinding)
  BY DEF AuthFinding, SessionFinding, SessionViolation
<1>2. "token" \in r.body => AuthSeverity(r) = "critical" /\ SessionSeverity(r) = "critical"
  BY DEF AuthSeverity, SessionSeverity, DetectSensitiveData
<1>3. sent => Authenticated
  BY DEF Authenticated, IsAuthenticated, Carried
<1>4. ASSUME Known, Cacheable(r), r.directives \cap {"private", "no-store"} = {},
             r.cookies # {} \/ (sent /\ ~(r.directives \cap {"must-revalidate",
                     "public"} # {} \/ "s-maxage" \in DOMAIN r.seconds))
      PROVE  AuthFinding \/ SessionFinding
  <2>1. CASE r.cookies # {}
    BY <1>4, <2>1 DEF AuthFinding, SessionFinding, SessionViolation
  <2>2. CASE sent /\ ~(r.directives \cap {"must-revalidate", "public"} # {} \/ "s-maxage" \in DOMAIN r.seconds)
    BY <1>3, <1>4, <2>2 DEF AuthFinding, AuthViolation
  <2>. QED BY <1>4, <2>1, <2>2
<1>5. ASSUME AuthFinding, ~caller.forced, ~(caller.profiled /\ caller.global \cap Credentials # {})
      PROVE  /\ sent /\ Known /\ Cacheable(r) /\ r.directives \cap {"private", "no-store"} = {}
             /\ ~(r.directives \cap {"must-revalidate", "public"} # {} \/ "s-maxage" \in DOMAIN r.seconds)
  BY <1>5 DEF AuthFinding, AuthViolation, Authenticated, IsAuthenticated, Carried
<1>. QED BY <1>1, <1>2, <1>4, <1>5 DEF CredentialsReported

\* As an invariant of the scan.
THEOREM CredentialsChecksAgree == Spec => []CredentialsReported
BY CredentialsAlways, PTL
=============================================================================
