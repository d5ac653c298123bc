-------------------------- MODULE DelimiterMapper --------------------------
(***************************************************************************)
(* The delimiter and normalization mapper (runDelimiterMapper): at which   *)
(* characters do origin and cache cut a path differently, and which of     *)
(* them collapses a dot-segment detour? Five stages on one budget: the     *)
(* sweep over the delimiters, the origin's normalization, the order of the *)
(* cache's, the delimiters only the cache knows, and recording the result  *)
(* in the quirk store of the origin.                                       *)
(*                                                                         *)
(* A response is what sameResponse tells apart: the resource as it is now, *)
(* as it once was, an answer of the origin to any other path, an error. A  *)
(* site is the pair of origin and cache:                                   *)
(*   answers    what the origin answers to a path cut at a delimiter       *)
(*   loose      the origin ignores whatever follows the resource's path    *)
(*   collapses  the traversal forms the origin collapses                   *)
(*   cuts       the delimiters the cache cuts its key at                   *)
(*   cutsQuery  such a cut drops the query as well                         *)
(*   resolves   the traversal forms the cache collapses in its key         *)
(*   showsHits  a response tells whether it comes from the cache           *)
(*   segment    the resource's path has a final segment                    *)
(***************************************************************************)
EXTENDS SharedCache, Sequences, FiniteSets

CONSTANTS
    Characters,             \* the characters tried as delimiters
    Delimiters,             \* delimiterCandidates, in order
    MaxAggressiveRequests,  \* the largest ProbeCtx.MaxAggressiveRequests
    MaxRetries,             \* the attempts ProbeCtx.Probe may add to a request
    MaxFaults               \* how much may go wrong

Traversals == <<"encoded", "plain">>
TraversalForms == {"encoded", "plain"}

ASSUME MapperAssumption ==
    /\ Delimiters \in Seq(Characters)
    /\ \A d \in Characters : \E i \in DOMAIN Delimiters : Delimiters[i] = d
    /\ MaxAggressiveRequests \in Nat
    /\ MaxRetries \in Nat
    /\ MaxFaults \in Nat
    /\ NoEntry \notin {"current", "former", "other", "failed"}

VARIABLES
    site, mode, limit,  \* the target, CacheBuster.Mode and the budget, fixed
    store,      \* the shared cache
    pc,         \* the request to send next
    n,          \* index of the delimiter or form it is about
    budget,     \* requests left
    retries,    \* attempts already added to the current request
    token,      \* the buster token made last
    base,       \* R0, the undelimited baseline
    suffixed,   \* the answer to the delimited path the confirmation is about
    reverse,    \* the delimiters to try the other way round
    mapping,    \* what is found
    quirks,     \* what the quirk store holds of this origin
    faults      \* the requests that failed, the busters not made, the entries that expired

fixed == <<site, mode, limit>>
vars == <<site, mode, limit, store, pc, n, budget, retries, token, base, suffixed,
          reverse, mapping, quirks, faults>>

Responses == {"current", "former", "other", "failed"}

Sites == [answers : [Characters -> {"current", "other", "failed"}], loose : BOOLEAN,
          collapses : SUBSET TraversalForms, cuts : SUBSET Characters, cutsQuery : BOOLEAN,
          resolves : SUBSET TraversalForms, showsHits : BOOLEAN, segment : BOOLEAN,
          keyForms : SUBSET Forms, stores : BOOLEAN]

Discrepancies == [delimiter : Characters, cacheOnly : BOOLEAN, cacheable : BOOLEAN]
Mappings == [delimiters : SUBSET Discrepancies,
             origin : [TraversalForms -> {"unknown", "yes", "no"}],
             cache : [TraversalForms -> {"unknown", "before", "after"}]]
NothingMapped == [delimiters |-> {}, origin |-> [form \in TraversalForms |-> "unknown"],
                  cache |-> [form \in TraversalForms |-> "unknown"]]

-----------------------------------------------------------------------------
(* Paths, keys and answers *)

\* Random suffixes and segments are taken never to repeat: the sweep and the
\* reverse direction share one suffix, each traversal probe has a segment.
Resource == <<"resource", "", "">>
Junk == <<"junk", "", "">>
Delimited(delimiter) == <<"delimited", delimiter, "">>
Detour(form, probe) == <<"detour", form, probe>>

Paths == {Resource, Junk} \cup {Delimited(delimiter) : delimiter \in Characters}
             \cup {Detour(form, probe) : form \in TraversalForms, probe \in {"origin", "cache"}}
Tokens == 0 .. 2 * Len(Delimiters) + 2
Keys == Tokens \X Paths

\* What the origin answers to a path, were there no cache.
Answered(path) ==
    CASE path[1] = "delimited" /\ ~site.loose -> site.answers[path[2]]
      [] path[1] = "detour" /\ path[2] \notin site.collapses -> "other"
      [] path = Junk /\ ~site.loose -> "other"
      [] OTHER -> "current"

CutBy(path) == path[1] = "delimited" /\ path[2] \in site.cuts
ResolvedBy(path) == path[1] = "detour" /\ path[2] \in site.resolves

\* A cut that drops the query drops a buster that only travels there.
BusterKeyed(path) ==
    IF CutBy(path) /\ site.cutsQuery
    THEN "header" \in CarriedBy(mode) \cap site.keyForms
    ELSE Isolated(site, mode)

KeyUnder(buster, path) ==
    << IF BusterKeyed(path) THEN buster ELSE Canonical,
       IF CutBy(path) \/ ResolvedBy(path) THEN Resource ELSE path >>

\* A copy of the resource may be in the cache from before, an outdated one too,
\* and another resource of the origin may have been mapped.
Init ==
    /\ site \in Sites
    /\ mode \in Modes
    /\ limit \in 0 .. MaxAggressiveRequests
    /\ \E copy \in IF site.stores THEN {NoEntry, "former"} ELSE {NoEntry} :
           store = [key \in Keys |-> IF key = <<Canonical, Resource>> THEN copy ELSE NoEntry]
    /\ pc = "baseline"
    /\ n = 1
    /\ budget = limit
    /\ retries = 0
    /\ token = Canonical
    /\ base = "current" /\ suffixed = "current"
    /\ reverse = <<>>
    /\ mapping = NothingMapped
    /\ quirks \in Mappings
    /\ faults = 0

-----------------------------------------------------------------------------
(* Stages and requests *)

Stages == {"junk", "sweep", "detour", "prime", "order", "reverse"}
AfterReverseFirst ==  \* mutant
    [baseline |-> "failed", junk |-> "detour", sweep |-> "reverse", reverse |-> "detour",
     detour |-> "prime", prime |-> "record", repeat |-> "record", order |-> "record"]
After == [baseline |-> "failed", junk |-> "detour", sweep |-> "detour", detour |-> "prime",
          prime |-> "reverse", repeat |-> "reverse", order |-> "reverse", reverse |-> "record"]

Subjects ==
    CASE pc = "sweep" -> Delimiters
      [] pc \in {"detour", "order", "again"} -> Traversals
      [] pc \in {"reverse", "confirm"} -> reverse
      [] OTHER -> <<Resource>>
Subject == Subjects[n]

AffordsOrderOfOne == budget >= 1  \* mutant
AffordsOrder == budget >= 3
Affords ==
    CASE pc = "prime" -> AffordsOrder
      [] pc = "reverse" -> budget >= 2
      [] OTHER -> budget >= 1

Go(stage) == pc' = stage /\ n' = 1
NextSubject(stage) == pc' = stage /\ n' = n + 1

\* A stage ends with its subjects or with the budget; those on traversals are
\* for resources with a segment to detour around, those on the cache for forms
\* the origin collapses.
EndStage ==
    /\ pc \in Stages /\ retries = 0
    /\ \/ n > Len(Subjects) \/ ~Affords
       \/ pc = "detour" /\ ~site.segment
       \/ pc = "prime" /\ \A form \in TraversalForms : mapping.origin[form] # "yes"
    /\ Go(After[pc])
    /\ UNCHANGED <<fixed, store, budget, retries, token, base, suffixed, reverse, mapping, quirks, faults>>

\* The order of the cache is asked only for forms the origin collapses.
SkipForm ==
    /\ pc = "order" /\ n <= Len(Traversals) /\ mapping.origin[Subject] # "yes"
    /\ NextSubject("order")
    /\ UNCHANGED <<fixed, store, budget, retries, token, base, suffixed, reverse, mapping, quirks, faults>>

Sending ==
    \/ pc \in {"baseline", "repeat", "confirm"}
    \/ pc = "again" /\ (budget >= 1 \/ retries > 0)
    \/ /\ pc \in Stages /\ n <= Len(Subjects) /\ (Affords \/ retries > 0)
       /\ pc = "detour" => site.segment
       /\ pc = "prime" => \E form \in TraversalForms : mapping.origin[form] = "yes"
       /\ pc = "order" => mapping.origin[Subject] = "yes"

ConfirmPathSuffixed == Delimited(Subject)  \* mutant
ConfirmPath == Resource

Path ==
    CASE pc = "junk" -> Junk
      [] pc \in {"sweep", "reverse"} -> Delimited(Subject)
      [] pc = "detour" -> Detour(Subject, "origin")
      [] pc \in {"order", "again"} -> Detour(Subject, "cache")
      [] pc = "confirm" -> ConfirmPath
      [] OTHER -> Resource

\* The requests that start under a buster of their own, and those without one.
NewBuster == pc \in {"junk", "sweep", "prime", "reverse"} /\ retries = 0
BusterNever == Canonical  \* mutant
Buster == IF pc \in {"baseline", "detour"} THEN Canonical
          ELSE IF NewBuster THEN token + 1 ELSE token

Key == KeyUnder(Buster, Path)
Reply == Answer(store, Key, Answered(Path))
Hit == site.showsHits /\ store[Key] # NoEntry
Reaches == store' = Filled(store, Key, Answered(Path), site.stores)

\* The baseline is not paid for; a request is paid for once, retries are not.
Paid == budget' = IF pc = "baseline" \/ retries > 0 THEN budget ELSE budget - 1

Sent ==
    /\ Sending /\ Paid
    /\ token' = IF NewBuster THEN token + 1 ELSE token

Answers ==
    /\ Sent /\ Reaches
    /\ retries' = 0
    /\ UNCHANGED <<fixed, quirks, faults>>

Found(delimiter, cacheOnly) ==
    mapping' = [mapping EXCEPT !.delimiters =
                   @ \cup {[delimiter |-> delimiter, cacheOnly |-> cacheOnly,
                            cacheable |-> cacheOnly \/ site.stores]}]

-----------------------------------------------------------------------------
(* The mapper *)

\* What becomes of the mapping when the current request has failed for good.
GiveUp ==
    IF pc \in {"baseline", "junk", "prime", "repeat"} THEN Go(After[pc])
    ELSE NextSubject(CASE pc = "again" -> "order" [] pc = "confirm" -> "reverse" [] OTHER -> pc)

\* A request fails, before the cache saw it or with its response lost; the
\* client repeats it when it finds the failure transient and has retries left.
RequestFails ==
    /\ Sent
    /\ Reaches \/ UNCHANGED store
    /\ \/ retries < MaxRetries /\ retries' = retries + 1 /\ UNCHANGED <<pc, n>>
       \/ GiveUp /\ retries' = 0
    /\ faults < MaxFaults /\ faults' = faults + 1
    /\ UNCHANGED <<fixed, base, suffixed, reverse, mapping, quirks>>

\* No buster is made: the stages of the sweep have paid by then.
BusterFails ==
    /\ Sending /\ NewBuster
    /\ budget' = IF pc \in {"junk", "sweep"} THEN budget - 1 ELSE budget
    /\ GiveUp
    /\ faults < MaxFaults /\ faults' = faults + 1
    /\ UNCHANGED <<fixed, store, retries, token, base, suffixed, reverse, mapping, quirks>>

Baseline ==
    /\ pc = "baseline" /\ Answers
    /\ base' = Reply
    /\ Go("junk")
    /\ UNCHANGED <<suffixed, reverse, mapping>>

JunkServed == Go(After["junk"])

\* An origin that answers alike whatever follows the path is not swept.
JunkRequest ==
    /\ pc = "junk" /\ Answers
    /\ \/ Reply = base /\ JunkServed
       \/ Reply # base /\ Go("sweep")
    /\ UNCHANGED <<base, suffixed, reverse, mapping>>

\* The baseline served for a delimited path: the origin cuts it there.
SweepRequest ==
    /\ pc = "sweep" /\ Answers
    /\ \/ Reply = base /\ Found(Subject, FALSE) /\ UNCHANGED reverse
       \/ Reply # base /\ reverse' = Append(reverse, Subject) /\ UNCHANGED mapping
    /\ NextSubject("sweep")
    /\ UNCHANGED <<base, suffixed>>

\* The one stage without a buster.
DetourRequest ==
    /\ pc = "detour" /\ Answers
    /\ mapping' = [mapping EXCEPT !.origin[Subject] = IF Reply = base THEN "yes" ELSE "no"]
    /\ NextSubject("detour")
    /\ UNCHANGED <<base, suffixed, reverse>>

\* The resource is requested twice, and must come from the cache then.
PrimeRequest ==
    /\ pc = "prime" /\ Answers
    /\ Go("repeat")
    /\ UNCHANGED <<base, suffixed, reverse, mapping>>

RepeatRequest ==
    /\ pc = "repeat" /\ Answers
    /\ Go(IF Hit THEN "order" ELSE After["repeat"])
    /\ UNCHANGED <<base, suffixed, reverse, mapping>>

OrderSwapped == [order |-> "after", again |-> "before"]  \* mutant
OrderShown == [order |-> "before", again |-> "after"]

\* A detour that hits at once is resolved in the key; one that hits the second
\* time is stored as it stands.
OrderRequest ==
    /\ pc \in {"order", "again"} /\ Answers
    /\ \/ /\ Reply = base /\ Hit
          /\ mapping' = [mapping EXCEPT !.cache[Subject] = OrderShown[pc]]
          /\ NextSubject("order")
       \/ Reply = base /\ ~Hit /\ pc = "order" /\ pc' = "again" /\ UNCHANGED <<n, mapping>>
       \/ (Reply # base \/ (~Hit /\ pc = "again")) /\ NextSubject("order") /\ UNCHANGED mapping
    /\ UNCHANGED <<base, suffixed, reverse>>

\* Two attempts need not be afforded.
NoSecondAttempt ==
    /\ pc = "again" /\ budget = 0 /\ retries = 0
    /\ NextSubject("order")
    /\ UNCHANGED <<fixed, store, budget, retries, token, base, suffixed, reverse, mapping, quirks, faults>>

\* A delimited path is stored under a buster, then the plain one is asked for.
ReverseRequest ==
    /\ pc = "reverse" /\ Answers
    /\ \/ Reply \notin {base, "failed"} /\ pc' = "confirm" /\ suffixed' = Reply /\ UNCHANGED n
       \/ Reply \in {base, "failed"} /\ NextSubject("reverse") /\ UNCHANGED suffixed
    /\ UNCHANGED <<base, reverse, mapping>>

ConfirmRequest ==
    /\ pc = "confirm" /\ Answers
    /\ \/ Reply = suffixed /\ Reply # base /\ Found(Subject, TRUE)
       \/ (Reply # suffixed \/ Reply = base) /\ UNCHANGED mapping
    /\ NextSubject("reverse")
    /\ UNCHANGED <<base, suffixed, reverse>>

Latest(old, new) ==
    [form \in TraversalForms |-> IF new[form] = "unknown" THEN old[form] ELSE new[form]]

MergedOver(old, new) == new  \* mutant
\* QuirkStore.Record: of two entries on one delimiter in one direction the
\* first stays, of two verdicts on a form the latest.
Merged(old, new) ==
    [delimiters |-> old.delimiters \cup
         {entry \in new.delimiters : \A known \in old.delimiters :
              <<known.delimiter, known.cacheOnly>> # <<entry.delimiter, entry.cacheOnly>>},
     origin |-> Latest(old.origin, new.origin),
     cache |-> Latest(old.cache, new.cache)]

Record ==
    /\ pc = "record"
    /\ quirks' = Merged(quirks, mapping)
    /\ pc' = "done"
    /\ UNCHANGED <<fixed, store, n, budget, retries, token, base, suffixed, reverse, mapping, faults>>

Requests ==
    \/ Baseline \/ JunkRequest \/ SweepRequest \/ DetourRequest \/ PrimeRequest
    \/ RepeatRequest \/ OrderRequest \/ ReverseRequest \/ ConfirmRequest

Mapper == EndStage \/ SkipForm \/ NoSecondAttempt \/ RequestFails \/ BusterFails \/ Requests \/ Record

-----------------------------------------------------------------------------
(* The surroundings *)

Visit ==
    /\ store' = Filled(store, <<Canonical, Resource>>, "current", site.stores)
    /\ store' # store
    /\ UNCHANGED <<fixed, pc, n, budget, retries, token, base, suffixed, reverse, mapping, quirks, faults>>

Expire ==
    /\ \E key \in Keys : store[key] # NoEntry /\ store' = [store EXCEPT ![key] = NoEntry]
    /\ faults < MaxFaults /\ faults' = faults + 1
    /\ UNCHANGED <<fixed, pc, n, budget, retries, token, base, suffixed, reverse, mapping, quirks>>

Next == Mapper \/ Visit \/ Expire

Spec == Init /\ [][Next]_vars

-----------------------------------------------------------------------------
(* Properties *)

\* Types; no stage begins what the budget left does not pay for.
TypeOK ==
    /\ site \in Sites /\ mode \in Modes /\ limit \in 0 .. MaxAggressiveRequests
    /\ store \in [Keys -> Responses \cup {NoEntry}]
    /\ pc \in Stages \cup {"baseline", "repeat", "again", "confirm", "record", "done", "failed"}
    /\ n \in Nat \ {0}
    /\ budget \in 0 .. limit
    /\ retries \in 0 .. MaxRetries
    /\ token \in Tokens
    /\ base \in Responses /\ suffixed \in Responses
    /\ reverse \in Seq(Characters)
    /\ mapping \in Mappings /\ quirks \in Mappings
    /\ faults \in 0 .. MaxFaults

OriginCuts(delimiter) == ~site.loose /\ site.answers[delimiter] = "current"
CacheCuts(delimiter) == delimiter \in site.cuts

\* The busters do their work on every path the mapper requests.
WellIsolated == Isolated(site, mode) /\ (site.cutsQuery => "header" \in CarriedBy(mode) \cap site.keyForms)

Reported(cacheOnly) == {entry.delimiter : entry \in {d \in mapping.delimiters : d.cacheOnly = cacheOnly}}

\* Whatever fails, expires or is visited: a delimiter is reported as the
\* origin's only if the origin cuts there, where the buster is keyed; and as
\* the cache's only if the cache cuts there and the origin does not, when the
\* baseline is moreover what the origin answers now.
DelimitersGenuine ==
    /\ WellIsolated => \A d \in Reported(FALSE) : OriginCuts(d)
    /\ Isolated(site, mode) /\ base = "current" =>
          \A d \in Reported(TRUE) : CacheCuts(d) /\ ~OriginCuts(d)

\* The verdicts on traversals: the origin's are right where the cache does not
\* resolve the form in its key, and the cache's when nothing was disturbed.
NormalizationGenuine ==
    \A form \in TraversalForms :
        /\ form \notin site.resolves =>
              /\ mapping.origin[form] = "yes" => form \in site.collapses
              /\ mapping.origin[form] = "no" /\ base = "current" => form \notin site.collapses
        /\ mapping.cache[form] = "before" /\ faults = 0 => form \in site.resolves
        /\ mapping.cache[form] = "after" /\ faults = 0 => form \notin site.resolves

\* The entry real users are served is never anything but the resource, where
\* the buster is keyed and the cache resolves no form the origin does not.
CanonicalClean ==
    WellIsolated /\ site.resolves \subseteq site.collapses =>
        store[<<Canonical, Resource>>] \in {NoEntry, "current", "former"}

\* What the sweep and the two detours cost.
Swept == Len(Delimiters) + 1 + Len(Traversals)

\* The stages are in order of priority "so a tight --max-aggressive-requests
\* never starves the cheaper, primary probes" (runDelimiterMapper): with a budget
\* for the sweep and the two detours all the origin does is found, and with
\* one for every request all the cache does. When nothing goes wrong.
NothingMissed ==
    (pc = "done" /\ faults = 0 /\ WellIsolated /\ ~site.loose /\ site.segment /\ base = "current") =>
        /\ limit >= Swept =>
              /\ \A d \in Characters : OriginCuts(d) => d \in Reported(FALSE)
              /\ \A form \in site.collapses : mapping.origin[form] = "yes"
        /\ limit >= Swept + 6 + 2 * Len(Delimiters) /\ site.stores =>
              /\ \A d \in Characters : CacheCuts(d) /\ site.answers[d] = "other" => d \in Reported(TRUE)
              /\ \A form \in site.collapses : site.showsHits => mapping.cache[form] # "unknown"

\* Recording a mapping forgets nothing another resource has shown.
QuirksAccumulate ==
    [][ /\ quirks.delimiters \subseteq quirks'.delimiters
        /\ \A form \in TraversalForms :
              /\ quirks.origin[form] # "unknown" => quirks'.origin[form] # "unknown"
              /\ quirks.cache[form] # "unknown" => quirks'.cache[form] # "unknown" ]_vars

\* What a cache-only delimiter is documented to mean: the cache "truncates at the
\* delimiter" (cache-poisoning-and-deception.mdx), the origin "routes on the full path" - where the buster is keyed.
CacheOnlyGenuine == Isolated(site, mode) => \A d \in Reported(TRUE) : CacheCuts(d) /\ ~OriginCuts(d)
=============================================================================
