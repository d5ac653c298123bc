# Verification of cache-detective

cache-detective scans web resources for caching defects: it requests a resource
through whatever caches stand in front of it and judges the responses. This
directory models the parts of it whose correctness depends on the order of
events, model-checks them with TLC and proves what matters most about eight
of them with TLAPS.

What makes the program hard to get right is that its instrument is its object:
every probe goes through a cache that other probes, other checks of the same
scan and real users read and fill at the same time. A probe that is not
isolated poisons what real users are served; a check that runs between two
requests of another one changes its verdict; a request that fails may have left
an entry behind; an answer compared with an earlier one may differ for a reason
the check did not think of; and each check has a budget that may run out in
mid-verdict.

## 1. The system

| Component | State | Operations | What is hard |
|---|---|---|---|
| Resource list (`cmd/scan.go`, `cache/crawl/{crawl,har}.go`) | the specs of a scan, with identifiers | resolve one of five exclusive inputs; number equal paths | order, repeats, identifiers that collide |
| Site crawl (`cache/crawl/site.go`) | queue, visited, found | robots.txt, fetch, follow links, pace | termination, limits, completeness, pages that fail |
| Registry and engine (`cache/probe.go`, `DependsOn` of every check, harnessx) | state of each check on each resource, result store | start, finish, fail; look a result up | checks run concurrently except as `DependsOn` says |
| Cache-buster (`checkbase/cachebuster.go`) | mode, token per attempt | put a token into query, header or both | a cache need not key what carries it |
| HTTP client and credentials (`checkbase/helpers.go`) | retries, profiles | send, retry what looks transient; carry credentials | a lost response may have been stored; a profile replaces what is given globally |
| Unkeyed-input miner (`checks/security/check.go`) | axis, candidate, budget, findings | poison request, confirm request | fresh tokens, budget, false findings, poisoning users |
| CPDoS check (same file) | probe, budget, finding | three probes, stop at the first finding | residue of one probe read by the next |
| Cache deception, error caching, response splitting (same file) | baseline, budget | suffixed paths; one error; one split header | no control requests |
| Delimiter mapper (`checks/security/delimiter.go`) | baseline, budget, mapping | sweep, detours, order, reverse probes, record | five stages on one budget, baseline versus busted requests |
| Quirk store (`cache/cdn/discovered.go`) | per origin: delimiters, verdicts | record, look up | results of concurrent resources merged in completion order |
| Entanglement, normalization, key collision, key explosion (`checks/security/*.go`) | baseline, budget, findings | poison/confirm pairs, controls, detours, repetitions | all four at once on one cache; budget inside a pair; detours without a buster |
| Vary-key (`checks/varykey`) | base response, verdict per dimension | vary one input at a time; ask without credentials | a cold entry; content that changes between two answers |
| Cacheability, authenticated, session (`checks/cacheability`) | a verdict per resource | one request; read by all later checks | read by others when it failed |
| Live state, stale serving, consistency | samples, waits, base response | wait and request again | three checks on one ageing entry, by the clock |
| CDN detection (`cache/cdn/{detect,registry}.go`) | a table | read the cache status off headers | several headers, several tiers in one value |
| Fingerprint, geography; report comparison; command line | tables; two reports | look up; compare | none that depends on order |

How they interact: the resource list is resolved first and published to the
engine; the engine starts every check on every resource, concurrently but for
the `DependsOn` edges; checks share the target's caches (through requests), the
result store (by check and resource identifier) and the quirk store (under its
mutex). Nothing is persisted, so there is no crash recovery to model.

What makes each part correct:

- resource list: nothing lost, repeated or reordered that should not be, and
  identifiers that tell resources apart;
- crawl: in bounds, complete, finite;
- engine: the poison chain runs alone and before anything else, readers find
  their own resource's result, a failure costs no other resource, the scan ends;
- poison/confirm checks: no false finding and no poisoned user entry where the
  cache keys the buster, nothing missed that was paid for;
- mapper: what it records of origin and cache is true of them, and a tight
  budget starves the secondary probes first;
- comparing checks: what they report is true of the site, whichever other check
  ran in between, and real users are still served the resource;
- checks by the clock: what they say against a cache is true of it although
  users and other checks refresh the entry; a response given to credentials is
  reported once and as severely as it deserves.

## 2. Modules

| Module | Models |
|---|---|
| `SharedCache` | the hit-or-fill cache in front of the target (the one `testdata/fixtureserver` simulates) and the buster: which forms carry the token, which the cache keys |
| `PoisonConfirm` | abstract specification: what a poison/confirm check promises |
| `UnkeyedMining` | `runUnkeyedHeader`, `mineUnkeyedAxis`, over `SharedCache`; implements `PoisonConfirm` |
| `CPDoS` | `runCPDoS` and its three probes, over `SharedCache`; implements `PoisonConfirm` |
| `DelimiterMapper` | `runDelimiterMapper` with its four probing stages, `QuirkStore.Record`; over `SharedCache` |
| `Target` | one resource, its origin and its cache, for the checks that compare whole responses |
| `Deception` | `runCacheDeception`, `runErrorCaching`, `runResponseSplitting` |
| `Entanglement`, `Normalization`, `KeyCollision`, `KeyExplosion`, `VaryKey` | one check each |
| `ResourceScan` | these six composed: the chain part first, then the five at the same time on one cache |
| `Cacheability` | the verdicts of the cacheability package over a response, and credentials |
| `CacheStatus` | `cdn.Detect` over a registry |
| `Edge` | one resource behind a cache with a clock, after the fixture server's `staleEdgeCache` |
| `Analysis` | the cacheability check and the two checks that only read its result |
| `LiveState`, `StaleServing`, `Consistency` | one check each |
| `AfterAnalysis` | these composed on one ageing entry |
| `ScanEngine` | `BuildChecks`, every `DependsOn`, both concurrency limits, the result store |
| `ResourceList` | `resolveResources`, `FromURLs`, `FromListFile`, `FromSitemap`, `FromHAR` |
| `SiteCrawl` | `crawl.Crawl` |
| `UnkeyedMiningProofs`, `CPDoSProofs`, `DelimiterMapperProofs`, `ResourceScanProofs`, `AfterAnalysisProofs`, `ScanEngineProofs`, `SiteCrawlProofs`, `ResourceListProofs` | theorems, each about the module it is named after |
| `MC*` | instances for TLC |

Operators marked `\* mutant` are deliberate wrong variants of the definition
that follows them (a guard dropped, a control ignored, a wait miscounted).
No specification uses them. Each stands for a plausible bug, and putting it in
place of the right definition makes TLC violate the property it belongs to: a
way to see that a property can fail.

### Correspondence

*Cache and buster.* A response is reduced to what a check can tell apart: the
injected input visible in it, or `Clean`. A site is a record of what the origin
reads and what the cache keys, so a run over all sites is a run over all ways
cache and origin can disagree. Tokens are numbers, drawn anew by each attempt;
`Canonical` is the request of a real user, without a token. Whether a buster
isolates (`Isolated`) is a fact about the site, not an assumption. Eight random
bytes are taken not to repeat.

*Miner, CPDoS, mapper.* A variable `pc` names the request the Go code is about
to send; each request is one action that reaches the cache, reads the answer and
goes where the code goes. Requests fail in two ways, before the cache saw
them or after it stored a response nobody received, and the client may repeat
them. Building a token may fail. The price of an attempt is taken where the code
takes it (both requests up front in the miner and CPDoS, one by one in the
mapper). Around the check a user may request the plain URL and entries may expire
between any two requests.

*Comparing checks* (`Target`, `ResourceScan`). A request is a path (the resource
or a random one), a *way* of writing it (direct, with a suffix, beside or through
a static directory), a token, a parameter value and one extra. The origin follows
some ways, takes others for static files, reads some extras; the cache collapses
some ways, keys some extras, stores some ways, and has room for so many values.
A body is what is served, the extra that shows in it and the version of the
content, which is what `sameResponse` and `differs` compare. The status header is
read two ways, as the code does: `State` is what it is normalized to, HIT, MISS or
unknown; `RawValues` is what it can read as, the state with whatever node, tier or
request the site `names` beside it or instead of it, each response any of them.
`differs` compares the latter. One variable per
check holds its program counter, budget, baseline and findings. A lost request
stands for the client's errors, after its retries; it leaves the cache filled or
not. Between any two requests of a check come requests of the others, a user with
or without credentials, an expiry, a change of content.

*Checks by the clock* (`Edge`, `AfterAnalysis`). Time is counted in half seconds,
since the program halves a window given in seconds; a request takes no time and
is `slow` when it had to wait for a slow origin. The entry is a response with its
time; what the cache does with it (keeps it for `keeps`, serves it stale, refreshes
it, serves it on error) is the site's `setup`, and need not be what the response
declares. Time stops for a check that is due, unless it is woken late (`delay`).
What happens around the checks is recorded in `events`, so that properties can say
which disturbance they exclude.

*Engine.* harnessx is not part of the repository: `ScanEngine` takes from it only
what `probe.go` and the comments of the checks rely on. A check starts on a
resource when everything it depends on is over on all resources, within
`MaxConcurrency` checks at once and `MaxResourceConcurrency` resources of one
check at once. The result store is keyed by the resource *identifier*, which
two resources may share.

*Resource list.* A list, sitemap or archive is a sequence of entries that may be
blank, repeated or not replayable. An identifier is a string: what it begins with
and the numbers behind it, each after a `#`. A URL's own identifier (`ResourceID`)
may end in numbers as well, since it is the decoded path (`/cart%232` gives
`/cart#2`), or the whole URL where there is no path; `FromURLs` appends one more
where the identifier is taken (`Suffixed`). So a numbered identifier can be
another URL's own, as in the code. The result of `--crawl` is an input here, since the command line starts
it from the empty URL (see findings).

*Crawl.* A link is kept as written; `Denotes` says which URL it is when resolved
against which page. One action per iteration of the loop and per link.

## 3. Runs

| Run | Expectation | States | What it asks |
|---|---|---|---|
| `mining` | pass | 209,296 | genuine findings, clean user entry, nothing missed, termination, refinement of `PoisonConfirm` |
| `cpdos` | pass | 88,196 | no finding is residue, header findings genuine, first vulnerable variant found, termination, refinement of `PoisonConfirm` |
| `cpdos_metacharacter` | violated | | a meta-character finding means plain requests get the error |
| `delimiters` | pass | 372,597 | delimiters of either side and normalization verdicts are true, user entry clean, nothing missed, quirks only accumulate |
| `delimiters_cache_only` | violated | | a cache-only delimiter is one the cache cuts at |
| `resource_scan` | pass | 1,057,478 | six checks on one cache: users keep their resource; poisoning, deception, explosion and vary-key verdicts genuine; entanglement misses nothing it paid for |
| `after_analysis` | pass | 726,347 | stale-serving, live-state, consistency verdicts genuine on an ageing entry; credentials reported once |
| `stale_if_error` | violated | | an uninstrumented origin leaves stale-if-error untested |
| `scan` | pass | 115,158 | chain alone, chain first, own results, due skips, termination |
| `resources` | pass | 612,368 | order, archive once, which identifiers coincide |
| `crawl` | pass | 344,278 | bounds, completeness, termination |
| `crawl_links` | violated | | every page requested is linked |

Each takes from a few seconds to about a minute and a half.

### Bounds, and why they are enough

- `mining`: three axes, one name, the bundled list repeating it and the caller's
  repeating it again: three inputs, one more than a budget of five pays for
  (odd on purpose). So the budget ends before the lists do, attempts follow one
  another on an already filled cache, and deduplication happens within a bundled
  list and across the two. One retry. All 512 sites of these inputs; the mode is
  "both", since mode and keyed forms matter only through `Isolated`, and the four
  sets of keyed forms give it both values.
- `cpdos`: every variant and site; budgets of six (all probes) and three (one and
  a half); one retry. One buster form stands for all, for the same reason.
- `delimiters`: two delimiters, of which one is the cache's only and one varies
  over everything origin and cache can do with it; the encoded detour varies, the
  plain one is collapsed by the origin only. Budgets that end in the sweep, after
  the primary probes, inside the order stage, and one that pays for everything
  (2, 6, 8, 15; for seven delimiters the last is the documented 30). One fault
  anywhere (`MaxFaults = 1`), one retry, and a cached copy that may be outdated.
- `resource_scan`: two suffixes, two directories and two spellings of a traversal
  (the least at which "found" spellings are skipped in the second directory), two
  fat-GET bodies and one cloaked parameter (two techniques), one varied header, status
  headers that name nothing, one node or one of two (the least at which two HITs
  differ), three probes of key explosion. Every check runs alone, with budgets of 2, 4 and 7
  (too small, ending inside, ample) and, with the ample one, beside every other;
  the sites are those whose traits concern the one or the other check. One
  disturbance anywhere (`MaxFaults = 1`: a lost request, an expiry or a change of
  content), users at any time. Two checks at a time suffice since each pair of
  requests of one check can be separated by requests of any other; a third adds
  no request the second could not make.
- `after_analysis`: seven seconds in half seconds, which hold the longest wait
  for staleness, half a window and three samples; checks start in the first one
  and a half seconds, in any order, and later is the same with an older entry.
  One kind of disturbance, any number of times. `setup` ranges over what each
  check reacts to, the analysis alone over all combinations of method, directives,
  lifetime, cookie, body and credentials.
- `scan`: three resources, two under one identifier, the whole chain and one
  check of each kind behind it, two checks and two resources at a time, two
  checks that may fail. More checks of a kind behave alike.
- `resources`: four entries over three URLs, two of one path and one whose path reads
  as that path with the number 2: the least at which the third URL of a path is
  numbered like the second and at which a path meets a numbered identifier, both
  ways round, with one entry to spare for both in one list.
- `crawl`: four pages, two links each at most for two of them, three link texts
  of which one is relative, limits of three and none (fifty), one page out of
  scope or disallowed, any page failing any time, a caller who gives up.

### Fairness

Only the program's own steps are fair (`WF_vars(Miner)`, `WF_vars(Check)`,
`WF_vars(Next)` of engine and crawl): every request has a timeout in
`ProbeCtx`/`http.Client`, so it has an outcome, and the loops wait for nothing
else. Users and expiry are under no obligation. The engine's fairness is that a
free worker takes a check that may start. The mapper's run and the two
compositions have no liveness property: their loops are over fixed lists, and
their waits are bounded by `--stale-window-max-wait` and the sampling interval.
Runs that may really stop say so (`CHECK_DEADLOCK FALSE`): a check that is over
does nothing.

### What the passing runs show

Where the cache keys the buster, neither miner nor CPDoS's header variants nor
the mapper's delimiter sweep reports anything false, whatever is lost, retried,
evicted or requested in between, and the user entry stays clean. Where it does
not, `NoResidualFinding` shows that stopping CPDoS at its first finding is what
keeps later variants from reading the first one's residue. The mapper's verdicts
hold under conditions the properties name: for the origin's delimiters the
buster survives the cut, for the cache's the baseline is the current resource,
and for the cache's order nothing was disturbed.

`resource_scan` shows that the checks behind the chain, although they run at the
same time on one cache, do not turn each other's findings round: entanglement's
and key collision's critical findings are real poisonings; a normalization
finding is a detour the origin follows, since the control request rules out a
catch-all origin; when vary-key's base was already cached, no dimension it calls
without effect is keyed, and where the status header names nothing that changes
(`Alike`) every one it calls keyed is; its critical leak is a response really
withheld.
`after_analysis` shows the same of the checks by the clock: that a cache which
serves stale and refreshes is not accused of failing to, that a cache is said not
to cache only if it does not, that a validator is called unstable only if it is.

The conditions in these properties are part of the result. Each was found
needed: without it TLC gives a counterexample, and the next section lists those
worth knowing.

The dependency chain does what its comments ask for: while a chain check runs on
any resource no other check runs, and nothing else has touched a resource before
the chain is over on all of them.

### Findings

1. `cpdos_metacharacter`: the confirm request of the meta-character probe carries
   the meta-character, so an origin that rejects it is reported whether or not
   anything was cached (`security/check.go:716`); in the run's trace the cache stores
   nothing at all.
2. `delimiters_cache_only`: the baseline is fetched through the cache, the two
   requests compared with it under a fresh buster. With an outdated copy in the
   cache, a delimiter of the *origin* gives two equal fresh answers that differ
   from the baseline, and is reported as one of the *cache* (`delimiter.go:215`), which
   does not cut there.
3. `crawl_links`: links are resolved against the start page instead of the page
   they stand on (`site.go:87`).
4. `stale_if_error`: an origin that ignores the simulated error answers as ever,
   and stale-if-error counts as honored (`staleserving/check.go:207`), although the
   function's comment promises an inconclusive result.

Also seen, and not stated as runs. Of input and engine: the third URL of a path
is numbered like the second, and `/cart%232` is given the identifier of the second
URL of `/cart` (`crawl.go:34-38`), although `FromURLs` says it uses "the full URL when
paths collide" (`crawl.go:28-29`), so that `/cart%232`, `/cart?a`, `/cart?b` make two
resources of one identifier, whose results are read for one another; `--crawl` cannot be combined with the
`--url` it starts from (`scan.go:187`); five §5 checks depend on `cpdos` only and
run concurrently on a resource, against the comment at `security/check.go:478`.

Of the checks that compare responses:

- the detours of the mapper and of the normalization check carry no buster, although
  the reference page says every request that could write to a cache does
  (`cache-poisoning-and-deception.mdx:86`): in front of a cache that resolves
  detours in its key they read, and may fill, the entry real users are served
  (hence `Honest` in the properties);
- cache deception's suffixes have no control request: a resource that is missing
  or served for every path deceives, by its measure;
- a severe normalization finding says the canonical URL is not cached, though the
  base request's MISS may just have stored it;
- key explosion finds no cap on a cache that has one and refuses or evicts what is
  over it, since the first value is still there;
- vary-key's base may be the MISS that fills the entry: every dimension then
  differs from it and is recorded as keyed; and "read-only", as its comment calls
  it, it is not where a varied request's response is stored under the shared key;
- vary-key compares status headers as they stand (`varykey/check.go:254`): two HITs
  that name different nodes or tiers, or carry a request id as Netlify's do, make a
  dimension look keyed that is not. `VaryVerdictsGenuine` without its condition
  `Alike` is violated by the run's own sites;
- the critical leak is also reported when the content changed between the
  credential-less request and its isolated repetition.

Of the checks by the clock:

- the check waits half the window for a refresh and then looks for a smaller age:
  where the stale answer was no older than that half (`max-age=1,
  stale-while-revalidate=4`), or somebody else had refreshed it before, a
  conforming cache "did not trigger a background refresh"; a window of a second is missed,
  the check waiting a second beyond the lifetime; a hidden `Age`, or a base
  response that is itself stale, moves the wait;
- "every sample MISSed" (`livestate/check.go:67`, `live-cache-state.mdx:38`) is also
  said after STALE, STALE, MISS, since a stale answer counts as neither hit nor
  miss: of a cache that serves stale and lets go without a refresh;
- "not actually being cached" is also said of `private` and `no-cache` responses,
  which the analysis calls cacheable; and of a cache behind another tier, since
  the first word of `X-Cache: MISS, HIT` decides;
- an origin that fails for the moment of the analysis makes a cached good response
  one that should not be;
- the lifetime by `Expires` mixes the analysis' header with the base's date;
- a request is called authenticated for credentials given globally that the
  origin's profile replaces by none; an `Authorization` given as a custom header
  does not count.

## 4. Proofs

The theorems hold for every value of the constants under each module's one named
assumption, which the runs evaluate: the types of the constants; sentinels that
are nothing a request carries; and in `Target` that the headers varied by, the
hidden inputs and the extras the checks use by name are all different, that no
dimension is listed twice, and that at least one spelling of a traversal is
known - as the code's own tables are. `RegistryAssumption` says of the table of cache
headers what every row of it is: its values are known states, a plain `hit`, `miss`
or `stale` means what it says, and the first two are listed together. In
`AfterAnalysis` the resource and its cache are any `Proper` one: lifetimes, windows,
intervals and waits are numbers, and live-state takes a sample at least.

**Miner** (`UnkeyedMiningProofs`): `TypeCorrect`, `BudgetIsRespected`,
`FindingsAreGenuine`, `CanonicalStaysClean`, `TokensAreFresh`, `NothingIsMissed`,
`KeepsPromiseStepwise`. The budget and the
findings are not inductive alone. `Accounts` adds what the attempt under way has
yet to send: requests sent and owed, times the attempts the client may make,
stay within the budget's; and every token costs two requests, which bounds the
tokens. `Isolation`, in front of a cache that keys the buster, adds that entries
under tokens not used yet are absent, that the plain entries are clean, and what
the entry of the attempt under way can hold: nothing, a clean response, or the
marker - the last only if the input is really vulnerable. The last conjunct is
what makes a confirmed finding genuine, and it survives losses and retries because a
lost request leaves exactly what an answered one does. One lemma per action shows
that a request changes at most the entry under its own key. `NothingIsMissed` needs
two more: `Coverage`, that what has been tried is exactly what the axes list before
the current place, and `NoneMissed`, that an undisturbed attempt finds its entry
untouched and, if the input is vulnerable, poisons it. Types, budget and
fresh tokens are only proved; the run does not repeat them.

**CPDoS** (`CPDoSProofs`): `TypeCorrect`, `HeaderFindingsAreGenuine`,
`NoFindingIsResidue`, `FirstVulnerableIsFound`, `KeepsPromiseStepwise`. The
invariant speaks of one entry, the one a request of the current probe meets that
does not carry its variant (`Own`): under the probe's token where the buster is
keyed, the users' own where it is not. `EntrySound` says it holds the variant's
error only if a plain request would get it; `NothingLeftBehind`, that while nothing
fails a probe finds there nothing of its predecessors, which is where the stop at
the first finding is needed; `NonePassedOver`, that the variants before the current
one are not vulnerable.

**Poison/confirm** is the abstract specification of both. `KeepsPromiseStepwise`
is the safety half of the refinement: every behaviour starts as one of
`PoisonConfirm`'s, and every step is one of its steps under the refinement mapping
or a stutter. It rests on the invariants above, for a verdict may be given only on
what has been tried and a user may be served poison only where the abstract
specification lets it. That `over` is eventually reached is left to TLC
(`KeepsPromise`).

**Delimiter mapper** (`DelimiterMapperProofs`): `TypeCorrect`,
`CanonicalStaysClean`, `DelimitersAreGenuine`, `NormalizationIsGenuine`,
`NothingIsMissed`, `QuirksAreKept`. `Bookkeeping` counts the busters each stage has made and the
requests it has yet to pay for, which is what bounds tokens and budget over five
stages. `StoredAsAnswered` says that an entry off the resource holds what the
origin answers there; `OwnEntry`, that the entry a delimited path may share with the
resource was touched by that path alone; `OrderSound`, that while nothing goes wrong
the forms still to be compared are not stored yet. The verdicts follow from these
and the conditions the properties name. `NothingIsMissed` follows the budget through
the stages: `Affordable` says what has been spent on the origin's and what those of
the cache may still cost (`Owed`), so that a stage ends when it is through and not for
want of budget (`Course` lists the steps there are then); and `SweptSo`, `DetouredSo`,
`OrderedSo` and `ReversedSo` say of each delimiter and form gone through that it is
found, which needs that the entries its requests meet are untouched (`PlainEntry` and
the above). It needs as well that every character is tried (`MapperAssumption`).

**The checks that share a cache** (`ResourceScanProofs`): `TypeCorrect`,
`CanonicalStaysTrue`, `PoisoningIsGenuine`, `EntanglementPassesNothingOver`,
`DeceptionIsGenuine`, `ExplosionIsGenuine`, `VaryVerdictsAreGenuine`: all the
invariants of the run `resource_scan`, for any lists, budgets, number of probes,
number of faults and site, all six checks at once (the run has two at a time and
one fault). The proof goes by where each entry comes from:

1. *What is sent.* For each check, a predicate on requests (`DeceptionSends`, ...)
   and a lemma that its steps send nothing else. So every step of the composition
   is an answered or lost request of a known kind, an expiry, a change of content,
   or touches nothing (`Steps`).
2. *Where entries come from.* `Accounted`: every entry is what the origin answered,
   under this content or a former one, to a request some check or user sends, by a
   way the cache stores. An entry after a step was there before or has just
   entered (`Changes`), so this is inductive, and `CanonicalKept` follows.
3. *What others do.* For each check, a lemma that the steps of all others leave its
   variable alone and add no entry of its own kind: none under its token, by a
   detour, with a value, with a dimension (`OthersEntanglement`, ...).
4. *One invariant per check*, preserved by its own steps action by action and by
   all others through 3. `OwnMarks`: what a confirm request may find is its own
   poison. `NonePassedOver`: the inputs before the current one are not poisonable,
   and one that is has left its mark by the time it is confirmed. `NormalizationInv`:
   on a site that is loose, the control tells, unless the content changed in
   between - and then every entry of a detour is newer than the baseline and differs
   from it as well. `KeyCollisionInv`: a poisoned answer is no missing page.
   `KeyExplosionInv`: as long as all probes were MISSes, the values stored are
   those probed, up to the cap and one for all others; counting them bounds the
   probes by the cap. `VaryKeyInv`: no keyed dimension is stored before it is varied,
   and the base's entry stays what it was, so that after a HIT the status headers
   compared are that HIT's and another HIT's, or a MISS's where the dimension is keyed.

What the attempt at these proofs showed. Four properties that hold on the run's sites
were false in general and have been corrected. The severe normalization finding
was said to be of a way the cache stores; a cache that resolves a detour keeps it
under the resource's own entry and may store that by another way (`KeptAs`). The same
holds for the critical leak of vary-key and for key explosion, where a detour could
fill the entry the probes are compared with. `CanonicalKept` and the control of normalization
needed that the cache keys whatever a request without a buster is varied by
(`Unmarked`): vary-key's requests may otherwise leave the page as another user would
see it. And `Produced` had two guards that both held for a suffix that the origin
takes for a file as well, where the order matters.

**The checks by the clock** (`AfterAnalysisProofs`): `TypeCorrect`,
`StaleServingIsRight`, `LiveStateIsRight`, `ConsistencyIsRight`,
`CredentialsChecksAgree`: all the invariants of the run `after_analysis`, for every
lifetime, window, `--stale-window-max-wait`, number and interval of samples, bound
on the time and registry, whatever the cache does, with all three checks at once and
any number of disturbances. The proof follows the one entry:

1. *What there is.* `Sound` is a response the origin can have made by now, `Seen` an
   answer a check can have had. A request's outcomes are one of four cases
   (`OutcomeIs`), and whatever a step does, its own or another's, the entry stays or is
   replaced by a response of this moment (`AroundOnward`): unless evicted, it only gets
   younger. All that users and the other checks can do is in that one lemma.
2. *Live-state.* A plain HIT or MISS is read as such (`Readings`), for which the
   header first in the table must tell. While the conditions of `Watched` hold, the
   entry the last sample met is fresh when the next one is due, or a HIT was counted.
3. *Stale-serving.* Three conjuncts, one per state it waits in: `StaleInTime`, an entry
   that is not beyond the window when the stale answer is asked for (or the base was
   slow, for the origin had to answer it); `RefreshedInTime`, that the entry was made
   late enough to count as new when the refresh is judged; `SpareInTime`, that the
   cache has something to spare for a failing origin. They rest on how long the
   code's own lifetime of the base is compared with the cache's (`LifetimeIs`),
   which is bounded by the time of the analysis, and on halves and whole seconds being
   rounded the right way (`Sizes`).
4. *Consistency* needs only that what it keeps are answers it has `Seen`.
   `CredentialsReported` holds in every state, by cases on who carries what.

The checks are instances of modules that extend `Edge`, so the first lemmas show that
an instance's cache is the cache. The least element of a set of numbers, which the
registry's order needs (`Minimum`), comes from the library's theorem that strict
inclusion of finite sets is well-founded.

What the attempt showed: two properties were false in general. Stale-serving may
report stale-if-error as not honored where the window is zero, or after a lost request
left the entry too old to spare. Live-state may call a response uncached in front of a
cache that serves stale content without refreshing it, whose last sample is then a
MISS; and "served from cache although it must not be" may be another tier's doing. Both are
stated so now, and the run has the setups that show the difference.

**Engine** (`ScanEngineProofs`): `TypeCorrect`, `ChainIsAlone`, `ChainIsFirst`,
`ReadersReadTheirOwn`, `SkipsAreDue`, for any resource list, selection closed
under dependencies, and limits. `IInv` adds to the types that whatever has
started has its dependencies over (`StartedInOrder`), that the store holds
exactly the finished runs (`ResultsMatch`), and that what a reader looked up was
final then (`SourcesMatch`, `SkipsMatch`). That the chain is alone follows from the
dependencies being a chain with everything else behind its tail, which a lemma
reads off `DependsOn`.

**Crawl** (`SiteCrawlProofs`): `TypeCorrect`, `CrawlsWithinBounds`,
`CrawlMissesNothing`, for any site. `IInv` adds that everything queued is allowed
(`QueueAllowed`), that each link of each page found, up to the one being taken,
leads to something visited, queued or not allowed (`LinksCovered`), and that the
crawl stops only with an empty queue or a full list (`StoppedForAReason`).

**Resource list** (`ResourceListProofs`): `TypeCorrect`, `InputIsScannedInOrder`,
`IdentifiersTellApart`, for any input, archive, and setting. What the reader, the archive's
reader and the one that hands out identifiers compute are folds over a sequence, so
everything about them is by induction over its entries. The library's induction rule
takes an operator, which no prover here can instantiate; `Induction` states it for sets
instead: the entries for which something fails have a least one, since strict inclusion of
finite sets is well-founded. `ListedStepwise`, `ArchivedStepwise` and
`IdentifiedStepwise` say what one entry more adds, and from them follow closed forms:
`ListedIs` (the list is the addresses in their order), `FirstIs` and `ArchivedIs` (an address
is recorded where it first occurs), `IdentifiedIs` (a resource has its own
identifier where none before it was given that, and otherwise its own with a number
of at most its place in the list). Since a number put after an identifier can be
read off it again (`SuffixedIs`), two resources share one only if both have the same
of their own, which an earlier resource took, or if one's own is the other's with a
number. That these two cases do occur, the run shows.

Only model-checked:

- liveness: `Terminates` of all, and the fairness half of `KeepsPromise`, since TLAPS
  does not reason about fairness or ENABLED.

Every invariant and action property that a passing run checks is stated by a theorem.

## 5. Not modelled

- `inferFromTiming`, live-state's guess from response times where no header tells:
  a heuristic over durations, which the clock of `Edge` does not have.
- Parsing of Cache-Control, cookies, HTML, XML, JSON and robots.txt, of headers and
  URLs byte by byte; the contents of the CDN registry, CNAME matching, fingerprints
  and geography: data and formats. A prefix scope that takes in `/blogger` with
  `/blog` is below this abstraction.
- Report comparison and the command line's output and exit codes: a set
  difference and I/O, without state.
- harnessx: external, as described above.
- The same URL listed twice: two resources whose runs of one check share every
  entry that is not busted. The models of the checks have one resource each.

## 6. Plan

1. (done) `SharedCache`, `UnkeyedMining` and its proofs, `PoisonConfirm`, `CPDoS`.
2. (done) `ScanEngine` and its proofs; `ResourceList`; `SiteCrawl` and its proofs.
3. (done) `DelimiterMapper` with the quirk store.
4. (done) the remaining §5 checks and vary-key over `Target`, composed
   in `ResourceScan`.
5. (done) the checks by the clock over `Edge`, composed in
   `AfterAnalysis`.
6. (done) proofs about CPDoS, the mapper and `ResourceScan`; the step refinement of
   `PoisonConfirm`.
7. (done) proofs about `AfterAnalysis`, `ResourceList` and what the mapper does not miss.
