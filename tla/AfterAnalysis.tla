---------------------------- MODULE AfterAnalysis ----------------------------
(***************************************************************************)
(* The cacheability analysis of one resource and the checks that build on  *)
(* it, which run at the same time against the same cached response while   *)
(* it ages, with real users and the origin's own life around them.         *)
(***************************************************************************)
EXTENDS Analysis

CONSTANT MaxStart  \* bound on the time by which every check has started

VARIABLES live, serving, consistency

checks == <<live, serving, consistency>>
vars == <<surroundings, analysis, checks>>

LiveState == INSTANCE LiveState
StaleServing == INSTANCE StaleServing
Consistency == INSTANCE Consistency

Init ==
    /\ Proper
    /\ clock = 0 /\ cached = {} /\ version = 0 /\ events = {}
    /\ analysis = Pending
    /\ LiveState!Init /\ StaleServing!Init /\ Consistency!Init

Waiting ==
    LET idle == LiveState!Idle = live \/ StaleServing!Idle = serving \/ Consistency!Idle = consistency
    IN  IF idle THEN clock < MaxStart ELSE LiveState!Running \/ StaleServing!Waiting \/ Consistency!Due

\* A check starts when the engine comes to it; a request in a sequence is due
\* at once, or when its check has slept.
Next ==
    \/ Analyze /\ UNCHANGED checks
    \/ LiveState!Sample /\ UNCHANGED <<serving, consistency>>
    \/ StaleServing!Next /\ UNCHANGED <<live, consistency>>
    \/ Consistency!Next /\ UNCHANGED <<live, serving>>
    \/ (Visit \/ Evict \/ Publish) /\ UNCHANGED <<analysis, checks>>
    \/ /\ Analysed /\ Waiting
       /\ Tick(LiveState!Due \/ StaleServing!Due \/ Consistency!Due)
       /\ UNCHANGED <<analysis, checks>>

Spec == Init /\ [][Next]_vars
-----------------------------------------------------------------------------
(* Properties *)

Answers == [good : BOOLEAN, version : 0 .. 1, tag : 0 .. 1, at : 0 .. MaxClock, age : 0 .. MaxClock,
            state : CacheStates \cup {"unknown"}, slow : BOOLEAN]

\* Types; live-state counts no more than it asked for, and no wait is longer than
\* --stale-window-max-wait allows.
TypeOK ==
    /\ Proper
    /\ clock \in 0 .. MaxClock /\ version \in 0 .. 1
    /\ Cardinality(cached) <= 1 /\ \A entry \in cached : entry.at \in 0 .. clock
    /\ events \subseteq {"failure", "loss", "visit", "eviction", "change", "delay"}
    /\ Cardinality(events) <= MaxEvents
    /\ analysis.pc \in {"due", "known", "missing"} /\ analysis.at \in 0 .. clock
    /\ analysis.response \in {setup.response, ErrorResponse}
    /\ live \in [pc : {"off", "sample", "done"}, taken : 0 .. setup.samples, hits : 0 .. live.taken,
                 misses : 0 .. live.taken, told : BOOLEAN, due : Nat,
                 findings : SUBSET {"not-cached", "status-cached", "uncacheable-cached"}]
    /\ serving \in [pc : {"off", "base", "stale", "refreshed", "error", "done"}, due : Nat,
                    base : Answers, stale : Answers, onError : {"untested", "yes", "no"},
                    findings : SUBSET {"too-large", "not-honored", "no-refresh"}]
    /\ serving.due <= clock + setup.maxWait
    /\ consistency \in [pc : {"off", "base", "conditional", "again", "done"}, base : Answers,
                        findings : SUBSET {"redirect", "not-honored", "unstable"}]

\* The cache goes by what the response declares, and shows its age.
Conforming ==
    /\ Does("stores") /\ ~Does("hides-age")
    /\ setup.keeps = FreshnessLifetime(setup.response, Second, Window("expires"), 0)

\* What disturbs a comparison of two answers.
Steady == events \cap {"change", "eviction", "failure", "delay"} = {}

\* What stale-serving says against a cache is true of it, whatever users and the
\* other checks do to the entry in between: the cache does not both
\* serve stale content and refresh it, does not refresh it, or does not do so for a failing origin. The
\* window must be long enough to be hit; and the answer the refresh is judged by
\* must have been stale, not one somebody else had refreshed before, and older
\* than what the check then waits, half the window. A request lost between may
\* leave an entry too old to stand in for the failing origin.
StaleVerdictsGenuine ==
    Conforming /\ Steady =>
        /\ "not-honored" \in serving.findings /\ Window("stale-while-revalidate") >= 2 * Second
               => ~(Does("serves-stale") /\ Does("refreshes"))
        /\ "no-refresh" \in serving.findings /\ Second * serving.stale.age >= setup.keeps
             /\ 4 * serving.stale.age > Window("stale-while-revalidate")
               => ~Does("refreshes")
        /\ serving.onError = "no" /\ Window("stale-if-error") > 0 /\ "loss" \notin events
               => ~Does("serves-on-error") \/ ~Does("instrumented")

\* "Not cached" is said of a cache that really keeps nothing, when there was
\* more than one sample within a lifetime, the status headers are of this
\* cache alone and a stale answer has it refreshed: one that serves stale and does
\* not may MISS at the last sample. "Served from cache" is said where this tier or
\* another keeps what it was told not to, unless the origin happened to fail
\* when the analysis asked.
CacheVerdictsGenuine ==
    /\ "not-cached" \in live.findings /\ setup.samples > 1 /\ setup.interval < setup.keeps
         /\ events \cap {"eviction", "delay"} = {} /\ ~Does("tiers") /\ (Does("serves-stale") => Does("refreshes"))
         => ~Does("stores") \/ "failure" \in events
    /\ {"status-cached", "uncacheable-cached"} \cap live.findings # {} =>
         \/ "failure" \in events
         \/ ~Cacheable(setup.response) /\ (Does("stores") \/ Does("tiers"))

\* A validator is called unstable only if it is, even when the content changes
\* or the origin fails between the requests; a conditional request is said not
\* to be honored only of a cache that honors none, if neither happened; a
\* redirect's lifetime is called heuristic only if no answer of it gives one.
ValidatorsGenuine ==
    /\ "unstable" \in consistency.findings => Does("flaps")
    /\ "not-honored" \in consistency.findings /\ events \cap {"change", "failure"} = {} /\ ~Does("flaps")
         => ~Does("answers-304")
    /\ "redirect" \in consistency.findings => Cacheable(setup.response) /\ ~Explicit(setup.response)

\* A response a shared cache may keep and that was given to credentials without
\* RFC 9111's permission, or that sets a cookie, is reported by one of the two
\* checks and never by both, as critical when its body gives a token away; and
\* the first speaks of a request that did carry credentials, except where they
\* are claimed by the flag or replaced for this origin ("whether the request
\* built by NewRequest for targetURL carries credentials").
CredentialsReported ==
    LET caller == setup.caller
        r == analysis.response
        kept == Known /\ Cacheable(r) /\ r.directives \cap {"private", "no-store"} = {}
        permitted == r.directives \cap {"must-revalidate", "public"} # {} \/ "s-maxage" \in DOMAIN r.seconds
        sent == Carried(caller) \cap Credentials # {}
        severity == IF AuthFinding THEN AuthSeverity(r) ELSE SessionSeverity(r)
    IN  /\ ~(AuthFinding /\ SessionFinding)
        /\ (AuthFinding \/ SessionFinding) /\ "token" \in r.body => severity = "critical"
        /\ kept /\ (r.cookies # {} \/ (sent /\ ~permitted)) => AuthFinding \/ SessionFinding
        /\ AuthFinding /\ ~caller.forced /\ ~(caller.profiled /\ caller.global \cap Credentials # {})
             => sent /\ kept /\ ~permitted

\* testStaleIfError's comment: "against a real, uninstrumented origin the header
\* has no effect and the result stays inconclusive rather than being reported as
\* either honored or not".
InconclusiveUninstrumented == ~Does("instrumented") => serving.onError = "untested"
=============================================================================
