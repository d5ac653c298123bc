--------------------------- MODULE MCAfterAnalysis ---------------------------
EXTENDS AfterAnalysis, TLC

MCRegistry == <<[header |-> "CF-Cache-Status", marks |-> {"cloudflare"},
                 values |-> ("hit" :> "HIT" @@ "miss" :> "MISS" @@ "updating" :> "STALE")],
                [header |-> "X-Cache", marks |-> {"fastly"},
                 values |-> ("hit" :> "HIT" @@ "miss" :> "MISS" @@ "hit-stale" :> "STALE")]>>

Plain == [method |-> "GET", status |-> 200, directives |-> {"public"}, seconds |-> ("max-age" :> 1),
          validators |-> {}, cookies |-> {}, body |-> {}]
With(seconds) == [Plain EXCEPT !.seconds = seconds]
Revalidated(lifetime, window) == With(lifetime @@ "stale-while-revalidate" :> window)

Nobody == [global |-> {}, forced |-> FALSE, profiled |-> FALSE, profile |-> {}]
Labelled(marks, fields) == [marks |-> marks, fields |-> fields]

Conventional ==
    [response |-> Plain, keeps |-> 2, does |-> {"stores"}, labels |-> Labelled({}, {"X-Cache"}),
     caller |-> Nobody, samples |-> 3, interval |-> 1, maxWait |-> 8, aggressive |-> TRUE]

\* What declares a response, and for how long a conforming cache keeps it.
Declaring(response) ==
    [Conventional EXCEPT !.response = response,
                         !.keeps = FreshnessLifetime(response, Second, IF "expires" \in DOMAIN response.seconds
                                                     THEN Second * response.seconds["expires"] ELSE 0, 0)]
Doing(conduct, one) == [one EXCEPT !.does = @ \cup conduct]

StaleSetups ==
    LET windows == {Revalidated("max-age" :> 1, 3), Revalidated("max-age" :> 1, 4), Revalidated("max-age" :> 2, 2),
                    Revalidated("s-maxage" :> 1 @@ "max-age" :> 3, 2), Revalidated("expires" :> 1, 2)}
        others == {Revalidated("max-age" :> 1, 0), Revalidated("max-age" :> 5, 9),
                   With("max-age" :> 1 @@ "stale-while-revalidate" :> 2 @@ "stale-if-error" :> 2)}
        failing == With("max-age" :> 1 @@ "stale-if-error" :> 1)
    IN  {Doing(conduct, Declaring(response)) :
            response \in windows, conduct \in {{"serves-stale", "refreshes", "slow"}, {"serves-stale"}, {"slow"}}}
        \cup {Doing({"serves-stale", "refreshes"}, Declaring(response)) : response \in others}
        \cup {Doing({"serves-stale", "hides-age"}, Declaring(Revalidated("max-age" :> 1, 3)))}
        \cup {Doing({"serves-on-error", "instrumented"}, Declaring(With(seconds))) :
                seconds \in {"max-age" :> 1 @@ "stale-while-revalidate" :> 0 @@ "stale-if-error" :> 1,
                            "max-age" :> 0 @@ "stale-if-error" :> 0}}
        \cup {Doing(conduct, Declaring(failing)) :
                conduct \in {{}, {"serves-on-error"}, {"instrumented"}, {"serves-on-error", "instrumented"}}}

LiveSetups ==
    {Doing(conduct, Declaring(response)) :
        conduct \in {{}, {"tiers"}, {"stores-errors"}},
        response \in {Plain, With("max-age" :> 2), [Plain EXCEPT !.status = 500, !.seconds = <<>>],
                      [Plain EXCEPT !.directives = {"no-store"}]}}
    \cup {Doing({"serves-stale"}, Declaring(Revalidated("max-age" :> 1, 1))),
          [Conventional EXCEPT !.does = {"tiers"}, !.response.directives = {"no-store"}],
          [Conventional EXCEPT !.does = {}], [Conventional EXCEPT !.samples = 1],
          [Conventional EXCEPT !.interval = 3, !.labels = Labelled({"fastly"}, {"X-Cache"})],
          [Conventional EXCEPT !.labels = Labelled({"cloudflare"}, {"Server-Timing"}),
                               !.response.status = 500, !.response.seconds = <<>>, !.keeps = 2],
          [Conventional EXCEPT !.labels = Labelled({}, {})]}

ConsistencySetups ==
    {Doing(conduct, [Conventional EXCEPT !.response.validators = validators]) :
        conduct \in {{}, {"answers-304"}, {"answers-304", "flaps"}, {"answers-304", "slow"}},
        validators \in {{}, {"etag"}, {"modified"}}}
    \cup {[Conventional EXCEPT !.response.status = status, !.response.seconds = seconds] :
            status \in {301, 302}, seconds \in {<<>>, "max-age" :> 1}}

SharedSetups ==
    {Doing({"serves-stale", "refreshes", "answers-304"},
           Declaring([Revalidated("max-age" :> 1, 2) EXCEPT !.validators = validators])) :
        validators \in {{"etag"}, {"modified"}}}

\* The analysis alone, over what a response and a caller can be.
CredentialSetups ==
    {[Conventional EXCEPT
        !.caller = caller,
        !.response = [Plain EXCEPT !.method = method, !.directives = directives, !.seconds = seconds,
                                   !.cookies = cookies, !.body = body]] :
        caller \in {Nobody, [Nobody EXCEPT !.global = {"cookie"}], [Nobody EXCEPT !.global = {"header"}],
                    [Nobody EXCEPT !.forced = TRUE], [Nobody EXCEPT !.profiled = TRUE, !.profile = {"bearer"}],
                    [Nobody EXCEPT !.global = {"bearer"}, !.profiled = TRUE, !.profile = {"header"}]},
        method \in {"GET", "POST", "PUT"},
        directives \in SUBSET {"public", "private", "no-store", "must-revalidate"},
        seconds \in {<<>>, "max-age" :> 1, "s-maxage" :> 1}, cookies \in {{}, {"session"}, {"other"}},
        body \in {{}, {"token"}}}

Running == {i \in 1 .. 3 : checks[i].pc # "off"}

\* Each check where it has something to say, alone or with one of the others.
MCInit ==
    /\ LiveState!Init /\ StaleServing!Init /\ Consistency!Init
    /\ \/ Running = {1} /\ setup \in LiveSetups
       \/ Running \in {{2}, {1, 2}} /\ setup \in StaleSetups
       \/ Running = {3} /\ setup \in ConsistencySetups
       \/ Running \in {{1, 3}, {2, 3}} /\ setup \in SharedSetups
       \/ Running = {} /\ setup \in CredentialSetups
    /\ Init

MCSpec == MCInit /\ [][Next]_vars
=============================================================================
