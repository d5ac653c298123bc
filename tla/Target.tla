------------------------------- MODULE Target -------------------------------
(***************************************************************************)
(* One resource as the checks that compare whole responses see it: an      *)
(* origin, the shared cache in front of it, and what goes on around a      *)
(* scan. Both disagree about what a request means, which is what the       *)
(* checks look for; a site says how:                                       *)
(*   exists    the resource answers 2xx                                    *)
(*   loose     the origin answers every path with the resource             *)
(*   follows   the ways around by which the origin serves what they lead to*)
(*   assets    the ways around the origin takes for static files           *)
(*   collapses the ways around the cache resolves before it keys           *)
(*   reads     the extras that shape the origin's response                 *)
(*   keys      the extras, "token" and "value", that are in the cache key  *)
(*   stores    the ways by which the cache stores what was answered 2xx    *)
(*   declares  responses are cacheable by their headers                    *)
(*   vary      the dimensions named in the response's Vary header          *)
(*   tells     responses say whether they were a HIT or a MISS             *)
(*   names     what the status header names beside that or instead of it,  *)
(*             each response one of them: a node, a tier, a request        *)
(*   room      the parameter values the cache keeps of one path            *)
(*   overflow  what happens to further values                              *)
(***************************************************************************)
EXTENDS Naturals, Sequences, FiniteSets

CONSTANTS
    Suffixes,     \* deceptionSuffixes
    Prefixes,     \* the number of staticDirPrefixes
    Forms,        \* the spellings of a traversal, a sequence
    FatBodies,    \* fatGETBodies
    Cloaked,      \* the names cloaked parameters are tried with
    Dimensions,   \* the inputs vary-key varies, a sequence
    Nodes,        \* what status headers name
    MaxRequests,  \* the largest ProbeCtx.MaxAggressiveRequests
    MaxFaults     \* bound on what goes wrong around a scan

ElementsOf(sequence) == {sequence[i] : i \in 1 .. Len(sequence)}

\* A way of writing a path: as it is, with a suffix, or through a static
\* directory, plainly ("beside") or by a traversal that leads back out of it.
Direct == <<"direct", 0>>
Beside == <<"beside", 1>>
Detours == ElementsOf(Forms) \X (1 .. Prefixes)
Ways == {Direct, Beside} \cup {<<"suffix", n>> : n \in 1 .. Len(Suffixes)} \cup Detours

\* What a request can carry beyond the caller's own: an input to be
\* reflected, a varied dimension, a bad range, a split header, or no credentials.
Plain == "plain"
Hidden == ElementsOf(FatBodies) \cup ElementsOf(Cloaked)
Extras == Hidden \cup ElementsOf(Dimensions) \cup {"cookie", "range", "split", "anonymous"}
NoToken == <<"none", 0>>

\* The lists are tables of the code; no dimension is varied twice, and what one
\* check sends another does not.
ASSUME TargetAssumption ==
    /\ Prefixes \in Nat \ {0} /\ MaxRequests \in Nat /\ MaxFaults \in Nat
    /\ \A list \in {Suffixes, Forms, FatBodies, Cloaked, Dimensions} : list \in Seq(ElementsOf(list))
    /\ Forms # <<>> /\ "none" \notin Nodes
    /\ \A i, j \in 1 .. Len(Dimensions) : Dimensions[i] = Dimensions[j] => i = j
    /\ {"beside", "suffix"} \cap ElementsOf(Forms) = {}
    /\ Plain \notin Extras
    /\ ElementsOf(FatBodies) \cap ElementsOf(Cloaked) = {}
    /\ Hidden \cap (ElementsOf(Dimensions) \cup {"cookie", "range", "split", "anonymous"}) = {}
    /\ ElementsOf(Dimensions) \cap {"cookie", "range", "split", "anonymous"} = {}

VARIABLES
    site,     \* origin and cache, fixed
    store,    \* the cache's entries: a function from the keys present
    content,  \* how often the origin's content has changed
    faults    \* what has gone wrong so far

environment == <<site, store, content, faults>>

\* A request leads to the resource (0) or to a random path (n > 0).
Request == [to |-> 0, way |-> Direct, token |-> NoToken, value |-> 0, extra |-> Plain]
Busted(check, n) == [Request EXCEPT !.token = <<check, n>>]

\* The origin's answer, reduced to what is served and which extra shows in it.
Page == [what |-> IF site.exists THEN "page" ELSE "missing", shows |-> Plain, version |-> content]
Asset == [what |-> "asset", shows |-> Plain, version |-> 0]
Missing == [what |-> "missing", shows |-> Plain, version |-> 0]

Produced(request) ==
    IF site.loose \/ (request.to = 0 /\ request.way \in site.follows \cup {Direct})
    THEN [Page EXCEPT !.shows = IF request.extra \in site.reads THEN request.extra ELSE Plain]
    ELSE IF request.way \in site.assets THEN Asset ELSE Missing

Ok(body) == body.what # "missing" /\ body.shows \notin {"range", "anonymous"}

-----------------------------------------------------------------------------
(* The cache *)

Values == {key.value : key \in DOMAIN store} \ {0}
Full(value) == Cardinality(Values) >= site.room /\ value \notin Values \cup {0}

\* A value beyond the cap may share one entry with all others beyond it.
Overflow == MaxRequests + 1
ValueKey(request) ==
    IF "value" \notin site.keys THEN 0
    ELSE IF site.overflow = "bucket" /\ Full(request.value) THEN Overflow ELSE request.value

KeyOf(request) ==
    [to    |-> request.to,
     way   |-> IF request.way \in site.collapses THEN Direct ELSE request.way,
     token |-> IF "token" \in site.keys THEN request.token ELSE NoToken,
     value |-> ValueKey(request),
     extra |-> IF request.extra \in site.keys THEN request.extra ELSE Plain]

Hit(request) == KeyOf(request) \in DOMAIN store
Body(request) == IF Hit(request) THEN store[KeyOf(request)] ELSE Produced(request)
State(request) == IF ~site.tells THEN "unknown" ELSE IF Hit(request) THEN "HIT" ELSE "MISS"
Reply(request) == [body |-> Body(request), state |-> State(request)]

\* The status header as it stands, where there is one.
NoValue == <<"unknown", "none">>
Labels == IF site.names = {} THEN {"none"} ELSE site.names
RawValues(request) == {State(request)} \X Labels

Without(keys) == [key \in DOMAIN store \ keys |-> store[key]]
With(entries, key, body) ==
    [k \in DOMAIN entries \cup {key} |-> IF k = key THEN body ELSE entries[k]]

\* The stores a request can leave behind.
After(request) ==
    LET key == KeyOf(request)
        over == site.overflow # "bucket" /\ Full(key.value)
    IN  IF Hit(request) \/ request.way \notin site.stores \/ ~Ok(Produced(request)) THEN {store}
        ELSE IF ~over THEN {With(store, key, Produced(request))}
        ELSE IF site.overflow = "refuse" THEN {store}
        ELSE {With(Without({old}), key, Produced(request)) : old \in DOMAIN store}

\* A check's request is answered.
Ask(request) == store' \in After(request) /\ UNCHANGED <<site, content, faults>>

Fault == faults < MaxFaults /\ faults' = faults + 1

\* A check's request cannot be made, or fails before the cache saw it or after
\* it answered.
Lose(request) == Fault /\ store' \in After(request) \cup {store} /\ UNCHANGED <<site, content>>

-----------------------------------------------------------------------------
(* The surroundings *)

\* A real user, with the caller's credentials or without any.
Visit ==
    /\ \E extra \in {Plain, "anonymous"} : store' \in After([Request EXCEPT !.extra = extra])
    /\ store' # store
    /\ UNCHANGED <<site, content, faults>>

Expire ==
    /\ Fault
    /\ \E key \in DOMAIN store : store' = Without({key})
    /\ UNCHANGED <<site, content>>

\* The origin's content changes under a cache that keeps the former one.
Publish ==
    /\ Fault
    /\ content' = content + 1
    /\ UNCHANGED <<site, store>>

Around == Visit \/ Expire \/ Publish
=============================================================================
