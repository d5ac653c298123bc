--------------------------- MODULE MCResourceScan ---------------------------
EXTENDS ResourceScan

MCSuffixes == <<"css", "js">>
MCForms == <<"plain", "encoded">>
MCFatBodies == <<"text", "form">>
MCCloaked == <<"name">>
MCDimensions == <<"language">>
MCNodes == {"edge", "shield"}

\* A site is the ordinary one, which caches everything under its full key,
\* with some traits added.
When(condition, set) == IF condition THEN set ELSE {}

Unkeyed == [token |-> "token unkeyed", value |-> "value unkeyed", text |-> "text unkeyed",
            language |-> "language unkeyed", anonymous |-> "credentials unkeyed"]

SiteWith(traits) ==
    LET Has(trait) == trait \in traits
    IN  [exists    |-> ~Has("missing"),
         loose     |-> Has("loose"),
         follows   |-> {<<"suffix", 1>>} \cup When(Has("resolves one"), {<<"encoded", 1>>})
                                         \cup When(Has("resolves"), Detours),
         assets    |-> When(Has("static files"), {<<"plain", 2>>}),
         collapses |-> When(Has("cache cuts"), {<<"suffix", 2>>})
                         \cup When(Has("cache resolves"), Detours),
         reads     |-> traits \cap Extras,
         keys      |-> {key \in {"token", "value", "text", "language", "anonymous"} : ~Has(Unkeyed[key])},
         stores    |-> Ways \ (When(Has("uncached"), {Direct}) \cup When(Has("detours uncached"), Detours)),
         declares  |-> ~Has("uncacheable"),
         vary      |-> When(Has("declares language"), {"language"}),
         tells     |-> ~Has("silent"),
         names     |-> When(Has("names one"), {"edge"}) \cup When(Has("names nodes"), MCNodes),
         room      |-> IF Has("room 1") THEN 1 ELSE IF Has("room 2") THEN 2 ELSE MaxRequests,
         overflow  |-> IF Has("refuses") THEN "refuse" ELSE IF Has("evicts") THEN "evict" ELSE "bucket"]

\* The traits each check is about. At most two checks run.
TraitsOf == <<
    {{}, {"missing"}, {"loose"}, {"cache cuts"}, {"uncacheable", "range", "split"}},
    {{"text", "form"}, {"text", "name", "text unkeyed"}, {"form", "name", "token unkeyed"}},
    {{"resolves one"}, {"loose"}, {"cache resolves"}, {"resolves", "cache resolves"},
     {"resolves one", "uncached"}, {"silent", "resolves"},
     {"resolves", "cache resolves", "detours uncached"}},
    {{"static files"}, {"static files", "cache resolves"}, {"loose", "cache resolves"}},
    {{}, {"room 1"}, {"room 2"}, {"room 1", "refuses"}, {"room 1", "evicts"}, {"value unkeyed"}},
    {{"language unkeyed", "names one"}, {"language unkeyed", "names nodes"}, {"language", "language unkeyed", "declares language"},
     {"language", "silent", "names nodes"}, {"declares language", "names nodes"}, {"anonymous", "credentials unkeyed"},
     {"anonymous", "credentials unkeyed", "token unkeyed"}} >>

Running == {i \in 1 .. Len(checks) : checks[i].pc # "off"}

MCInit ==
    \E budget \in {2, 4, MaxRequests} :
        /\ Deception!Init(budget) /\ Entanglement!Init(budget) /\ Normalization!Init(budget)
        /\ KeyCollision!Init(budget) /\ KeyExplosion!Init(budget) /\ VaryKey!Init(budget)
        /\ \E i, j \in 1 .. Len(checks) :
              /\ Running = {i, j}
              /\ \E one \in TraitsOf[i], other \in TraitsOf[j] : site = SiteWith(one \cup other)
        /\ budget < MaxRequests \/ vary.caller = "cookie" => Cardinality(Running) = 1
        /\ vary.caller = "nobody" => budget = 2 \/ vary.pc = "off"
        /\ Init(budget)

MCSpec == MCInit /\ [][Next]_vars
=============================================================================
