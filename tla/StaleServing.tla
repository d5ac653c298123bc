---------------------------- MODULE StaleServing ----------------------------
(***************************************************************************)
(* The stale-serving check: it waits for the response to become stale, asks *)
(* for it, waits for the refresh that should follow and asks again; then,  *)
(* under --aggressive, it has the origin fail.                             *)
(***************************************************************************)
EXTENDS Analysis

VARIABLE serving

Idle == [pc |-> "base", due |-> 0, base |-> NoAnswer, stale |-> NoAnswer,
         findings |-> {}, onError |-> "untested"]
Init == serving \in {Idle, [Idle EXCEPT !.pc = "off"]}

Waiting == serving.pc \in {"stale", "refreshed", "error"}
Due == Waiting /\ serving.due <= clock
At(pc) == serving.pc = pc /\ serving.due <= clock

Declares(directive) == directive \in DOMAIN analysis.response.seconds
Applies ==
    Known /\ Cacheable(analysis.response) /\ (Declares("stale-while-revalidate") \/ Declares("stale-if-error"))

NothingDeclared ==
    /\ Analysed /\ At("base") /\ ~Applies
    /\ serving' = [serving EXCEPT !.pc = "done"]
    /\ UNCHANGED <<surroundings, analysis>>

\* The second half, from whatever the first came to.
ToError(state) ==
    [state EXCEPT !.due = 0,
        !.pc = IF Declares("stale-if-error") /\ setup.aggressive THEN "error" ELSE "done"]
Found(finding, state) == [state EXCEPT !.findings = @ \cup {finding}]

\* The Expires header is that of the analysis, the date that of the base.
Lifetime(base) ==
    LET expires == IF Declares("expires") THEN analysis.at + Second * analysis.response.seconds["expires"] ELSE 0
    IN  FreshnessLifetime(analysis.response, Second, expires, base.at)

UntilStaleUnaged(base) == Lifetime(base) + Second  \* mutant
UntilStale(base) ==
    LET wait == Lifetime(base) - Second * base.age + Second
    IN  IF wait <= 0 THEN Second ELSE wait

AfterBaseUnbounded(base) ==  \* mutant
    IF ~Declares("stale-while-revalidate") \/ Lifetime(base) = 0 THEN ToError([serving EXCEPT !.base = base])
    ELSE [serving EXCEPT !.base = base, !.pc = "stale", !.due = clock + UntilStale(base)]
AfterBase(base) ==
    LET seen == [serving EXCEPT !.base = base]
    IN  IF ~Declares("stale-while-revalidate") \/ Lifetime(base) = 0 THEN ToError(seen)
        ELSE IF UntilStale(base) > setup.maxWait THEN ToError(Found("too-large", seen))
        ELSE [seen EXCEPT !.pc = "stale", !.due = clock + UntilStale(base)]

BaseRequest ==
    /\ Analysed /\ At("base") /\ Applies
    /\ \/ \E outcome \in Possible : Comes(outcome) /\ serving' = AfterBase(outcome.answer)
       \/ Lost /\ serving' = [serving EXCEPT !.pc = "done"]
    /\ UNCHANGED analysis

\* The same body as promptly as the base, which may have been slow itself.
Honored(base, stale) == SameBody(base, stale) /\ (stale.slow => base.slow)

\* Half the window, in seconds, is that many half seconds.
UntilRefreshed ==
    LET wait == analysis.response.seconds["stale-while-revalidate"]
    IN  IF wait = 0 \/ wait > setup.maxWait THEN setup.maxWait ELSE wait

StaleRequest ==
    /\ At("stale")
    /\ \/ \E outcome \in Possible :
             LET seen == [serving EXCEPT !.stale = outcome.answer]
             IN  /\ Comes(outcome)
                 /\ serving' = IF Honored(serving.base, outcome.answer)
                               THEN [seen EXCEPT !.pc = "refreshed", !.due = clock + UntilRefreshed]
                               ELSE ToError(Found("not-honored", seen))
       \/ Lost /\ serving' = ToError(serving)
    /\ UNCHANGED analysis

Refreshed(stale, later) == later.age < stale.age \/ ~SameBody(stale, later)

RefreshedRequest ==
    /\ At("refreshed")
    /\ \/ \E outcome \in Possible :
             /\ Comes(outcome)
             /\ serving' = ToError(IF Refreshed(serving.stale, outcome.answer) THEN serving
                                   ELSE Found("no-refresh", serving))
       \/ Lost /\ serving' = ToError(serving)
    /\ UNCHANGED analysis

\* A request for a failure: an origin that does not know the header answers as
\* ever, the fixture's fails even where the cache has a fresh response.
Simulated ==
    IF ~Does("instrumented") THEN Possible
    ELSE IF Spare # {} THEN {[answer |-> Answer(entry, "stale"), left |-> cached] : entry \in Spare}
    ELSE {[answer |-> Answer(Failed, "miss"), left |-> cached]}

OnError(answer) ==
    IF ~answer.good THEN "no" ELSE IF SameBody(serving.base, answer) THEN "yes" ELSE "untested"

ErrorRequest ==
    LET judged(answer) == [serving EXCEPT !.pc = "done", !.onError = OnError(answer)]
    IN  /\ At("error")
        /\ \/ \E outcome \in Simulated :
                 /\ IF Does("instrumented")
                    THEN cached' = outcome.left /\ UNCHANGED <<setup, clock, version, events>>
                    ELSE Comes(outcome)
                 /\ serving' = judged(outcome.answer)
           \/ Lost /\ serving' = [serving EXCEPT !.pc = "done"]
        /\ UNCHANGED analysis

Next == NothingDeclared \/ BaseRequest \/ StaleRequest \/ RefreshedRequest \/ ErrorRequest
=============================================================================
