------------------------------- MODULE VaryKey -------------------------------
(***************************************************************************)
(* The vary-key check: which inputs are part of the cache key, judged by   *)
(* how the answer changes against one baseline, and whether the caller's   *)
(* own response is served to a request without credentials. It runs by     *)
(* default; all its requests but the last go to the entry users share.     *)
(***************************************************************************)
EXTENDS Target

VARIABLE vary  \* the progress of the check

Callers == {"nobody", "authorized", "cookie"}
NoReply == [body |-> Missing, state |-> "unknown"]

Fresh(budget, caller) ==
    [pc |-> "base", next |-> 1, budget |-> budget, caller |-> caller, base |-> NoReply, raw |-> NoValue,
     anonymous |-> NoReply, keyed |-> {}, inert |-> {}, leak |-> "none"]

Init(budget) == vary \in {Fresh(budget, caller) : caller \in Callers}
                         \cup {[Fresh(0, "nobody") EXCEPT !.pc = "off"]}

At(pc) == vary.pc = pc

\* The check returns an error without its baseline.
BaseRequest ==
    /\ At("base")
    /\ \/ /\ Ask(Request)
          /\ \E raw \in RawValues(Request) :
                vary' = [vary EXCEPT !.pc = "vary", !.base = Reply(Request), !.raw = raw]
       \/ Lose(Request) /\ vary' \in {vary, [vary EXCEPT !.pc = "done"]}

Varied(dimension) == [Request EXCEPT !.extra = dimension]

\* Another status header, where both have one, or another body.
Differs(body, raw) ==
    \/ NoValue \notin {raw, vary.raw} /\ raw # vary.raw
    \/ body # vary.base.body

\* What the comparison says of a dimension: it is keyed, or declared in Vary
\* (under the name of the dimension) and has no effect.
Judged(state, dimension, raw) ==
    IF Differs(Body(Varied(dimension)), raw) THEN [state EXCEPT !.keyed = @ \cup {dimension}]
    ELSE IF dimension \in site.vary THEN [state EXCEPT !.inert = @ \cup {dimension}]
    ELSE state

VaryRequest ==
    LET dimension == Dimensions[vary.next]
        tried == [vary EXCEPT !.next = @ + 1, !.budget = @ - 1]
    IN  /\ At("vary") /\ vary.next <= Len(Dimensions) /\ vary.budget > 0
        /\ \/ /\ Ask(Varied(dimension))
              /\ \E raw \in RawValues(Varied(dimension)) : vary' = Judged(tried, dimension, raw)
           \/ Lose(Varied(dimension)) /\ vary' \in {vary, tried}

\* The caller's cookies are varied last, at no price, when there are any.
CookieDue == vary.budget > 0 /\ vary.caller = "cookie"

AllVaried ==
    /\ At("vary") /\ (vary.next > Len(Dimensions) \/ vary.budget = 0)
    /\ vary' = [vary EXCEPT !.pc = IF CookieDue THEN "cookie" ELSE "credentials"]
    /\ UNCHANGED environment

CookieRequest ==
    /\ At("cookie")
    /\ \/ /\ Ask(Varied("cookie"))
          /\ \E raw \in RawValues(Varied("cookie")) :
                vary' = Judged([vary EXCEPT !.pc = "credentials"], "cookie", raw)
       \/ Lose(Varied("cookie")) /\ vary' \in {vary, [vary EXCEPT !.pc = "credentials"]}

Ended == [vary EXCEPT !.pc = "done"]
LeakTested == vary.budget >= 2 /\ Ok(vary.base.body) /\ vary.caller # "nobody"

NoLeakTest ==
    /\ At("credentials") /\ ~LeakTested
    /\ vary' = Ended
    /\ UNCHANGED environment

\* The caller's response, to a request without credentials?
Anonymous == [Request EXCEPT !.extra = "anonymous"]

AnonymousRequest ==
    LET reply == Reply(Anonymous)
    IN  /\ At("credentials") /\ LeakTested
        /\ \/ /\ Ask(Anonymous)
              /\ vary' = IF reply.body # vary.base.body THEN Ended
                         ELSE [vary EXCEPT !.pc = "isolated", !.budget = @ - 1, !.anonymous = reply]
           \/ Lose(Anonymous) /\ vary' \in {vary, Ended}

\* And again where no entry can answer: what the origin itself gives to anybody.
Isolated == [Busted("vary", 1) EXCEPT !.extra = "anonymous"]

LeakReplayed(reply) == IF reply.body = vary.anonymous.body THEN "critical" ELSE "none"  \* mutant
Leak(reply) ==
    IF reply.body # vary.anonymous.body THEN "critical"
    ELSE IF reply.state = "HIT" /\ vary.anonymous.state = "HIT" THEN "high"
    ELSE "none"

IsolatedRequest ==
    /\ At("isolated")
    /\ \/ Ask(Isolated) /\ vary' = [Ended EXCEPT !.leak = Leak(Reply(Isolated))]
       \/ Lose(Isolated) /\ vary' \in {vary, Ended}

Next ==
    \/ BaseRequest \/ VaryRequest \/ AllVaried \/ CookieRequest
    \/ NoLeakTest \/ AnonymousRequest \/ IsolatedRequest
=============================================================================
