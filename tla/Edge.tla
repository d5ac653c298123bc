-------------------------------- MODULE Edge --------------------------------
(***************************************************************************)
(* A resource behind a cache that has a clock: what the checks that run    *)
(* after the cacheability analysis watch. Time goes by in half seconds; a  *)
(* request takes none, and is slow when it had to wait for the origin. The *)
(* setup says what the origin declares, how the cache behaves and how the  *)
(* scan is run:                                                            *)
(*   response   the resource's response, see Cacheability                  *)
(*   keeps      the time the cache takes a response for fresh              *)
(*   does       of Conduct below                                           *)
(*   labels     the header the cache status is in, and what marks the CDN  *)
(*   caller     the credentials configured, see Cacheability               *)
(*   samples, interval, maxWait, aggressive   the scan's options           *)
(***************************************************************************)
EXTENDS Cacheability, CacheStatus

CONSTANTS
    MaxClock,  \* bound on time
    MaxEvents  \* bound on the kinds of things that happen around the checks

Second == 2

Conduct ==
    {"stores", "stores-errors",          \* good responses, failed ones
     "serves-stale", "refreshes",        \* in stale-while-revalidate's window, and gets a new one
     "serves-on-error", "instrumented",  \* in stale-if-error's window; the origin fails when told to
     "answers-304", "flaps",             \* matching validators; the ETag says nothing about content
     "hides-age", "slow", "tiers"}       \* no Age; a slow origin; a second tier before the cache

ASSUME EdgeAssumption == MaxClock \in Nat /\ MaxEvents \in Nat

VARIABLES
    setup,    \* see above, fixed
    clock,    \* half seconds since the analysis began
    cached,   \* the cache's entry for the resource: none or one
    version,  \* of the origin's content
    events    \* the kinds of things that have happened

surroundings == <<setup, clock, cached, version, events>>

\* The numbers in it are such.
Proper ==
    /\ setup.does \subseteq Conduct
    /\ \A directive \in DOMAIN setup.response.seconds : setup.response.seconds[directive] \in Nat
    /\ {setup.keeps, setup.interval, setup.maxWait} \subseteq Nat /\ setup.samples \in Nat \ {0}

Does(conduct) == conduct \in setup.does

\* What the origin may make of a request now.
Made == {[good |-> TRUE, version |-> version, tag |-> tag, at |-> clock, tier |-> word] :
            tag \in IF Does("flaps") THEN 0 .. 1 ELSE {0},
            word \in IF Does("tiers") THEN {"miss", "hit"} ELSE {"miss"}}
Failed == [good |-> FALSE, version |-> 0, tag |-> 0, at |-> clock, tier |-> "miss"]

Age(entry) == clock - entry.at
Window(directive) ==
    IF directive \in DOMAIN setup.response.seconds THEN Second * setup.response.seconds[directive] ELSE 0
WhileRevalidating == setup.keeps + Window("stale-while-revalidate")

Fresh == {entry \in cached : Age(entry) < setup.keeps}
Stale == {entry \in cached : Does("serves-stale") /\ Age(entry) \in setup.keeps .. WhileRevalidating - 1}
Spare == {entry \in cached : Does("serves-on-error") /\ Age(entry) < WhileRevalidating + Window("stale-if-error")}

Headers(response, word) ==
    [marks  |-> setup.labels.marks,
     fields |-> [field \in setup.labels.fields |-> IF Does("tiers") THEN <<response.tier, word>> ELSE <<word>>]]

\* What a check sees of a response.
Answer(response, word) ==
    [good |-> response.good, version |-> response.version, tag |-> response.tag, at |-> response.at,
     age |-> IF Does("hides-age") THEN 0 ELSE Age(response) \div Second,
     state |-> Detect(Headers(response, word)), slow |-> word = "miss" /\ Does("slow")]

NoAnswer == [good |-> FALSE, version |-> 0, tag |-> 0, at |-> 0, age |-> 0, state |-> "unknown", slow |-> FALSE]

SameBody(one, other) == one.good = other.good /\ one.version = other.version

Kept(response) == IF Does(IF response.good THEN "stores" ELSE "stores-errors") THEN {response} ELSE cached

\* What a request can come to when the origin can make these responses: the
\* answer and the entry left.
Outcomes(made) ==
    IF Fresh # {} THEN {[answer |-> Answer(entry, "hit"), left |-> cached] : entry \in Fresh}
    ELSE IF Stale # {}
    THEN {[answer |-> Answer(entry, "stale"), left |-> IF Does("refreshes") THEN Kept(response) ELSE cached] :
            entry \in Stale, response \in made}
    ELSE IF Failed \in made /\ Spare # {}
    THEN {[answer |-> Answer(entry, "stale"), left |-> cached] : entry \in Spare}
    ELSE {[answer |-> Answer(response, "miss"), left |-> Kept(response)] : response \in made}

Happens(kind) == events' = events \cup {kind} /\ Cardinality(events') <= MaxEvents

\* A check's request comes to this, the origin being well or not.
Comes(outcome) ==
    /\ \/ outcome \in Outcomes(Made) /\ UNCHANGED events
       \/ outcome \in Outcomes({Failed}) \ Outcomes(Made) /\ Happens("failure")
    /\ cached' = outcome.left
    /\ UNCHANGED <<setup, clock, version>>
Possible == Outcomes(Made) \cup Outcomes({Failed})

\* A check's request gets no answer, whatever the cache made of it.
Lost ==
    /\ Happens("loss")
    /\ cached' \in {cached} \cup {outcome.left : outcome \in Outcomes(Made)}
    /\ UNCHANGED <<setup, clock, version>>

Visit ==
    /\ Happens("visit")
    /\ \E outcome \in Outcomes(Made) : cached' = outcome.left
    /\ cached' # cached
    /\ UNCHANGED <<setup, clock, version>>

Evict == Happens("eviction") /\ cached # {} /\ cached' = {} /\ UNCHANGED <<setup, clock, version>>

Publish == Happens("change") /\ version = 0 /\ version' = 1 /\ UNCHANGED <<setup, clock, cached>>

\* Time goes by, unless something is due, which may be late all the same.
Tick(due) ==
    /\ clock < MaxClock /\ clock' = clock + 1
    /\ IF due THEN Happens("delay") ELSE UNCHANGED events
    /\ UNCHANGED <<setup, cached, version>>
=============================================================================
