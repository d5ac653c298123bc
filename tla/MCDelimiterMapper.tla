------------------------- MODULE MCDelimiterMapper -------------------------
EXTENDS DelimiterMapper, TLC

CONSTANTS semicolon, dollar
MCCharacters == {semicolon, dollar}
MCDelimiters == <<semicolon, dollar>>

\* The dollar is a delimiter of the cache only and the plain detour collapsed by
\* the origin only; what varies is the semicolon, the encoded detour and how
\* the cache keys a buster that travels both ways.
SitesWith(keyed, queries, stored, shown, loose, segments) ==
    {[answers |-> (semicolon :> answer @@ dollar :> "other"), loose |-> loose,
      collapses |-> {"plain"} \cup collapsed, cuts |-> {dollar} \cup cut, cutsQuery |-> query,
      resolves |-> resolved, showsHits |-> shown, segment |-> segment,
      keyForms |-> keyed, stores |-> stored] :
        answer \in {"current", "other", "failed"}, cut \in SUBSET {semicolon},
        collapsed \in SUBSET {"encoded"}, resolved \in SUBSET {"encoded"},
        query \in queries, segment \in segments}

MCSites ==
    \* caches that key the query, the header or neither, and tell of hits
    UNION {SitesWith(keyed, BOOLEAN, TRUE, TRUE, FALSE, {TRUE}) : keyed \in {{}, {"query"}, {"header"}}}
    \* those that do not tell or do not store, resources at the root, loose origins
    \cup SitesWith({"query"}, {FALSE}, TRUE, FALSE, FALSE, BOOLEAN)
    \cup SitesWith({"query"}, {FALSE}, FALSE, FALSE, FALSE, {TRUE})
    \cup SitesWith({"query"}, {FALSE}, TRUE, TRUE, TRUE, {TRUE})

\* Another resource showed the semicolon cut by the origin, and a detour kept.
MCKnown ==
    [NothingMapped EXCEPT
        !.delimiters = {[delimiter |-> semicolon, cacheOnly |-> FALSE, cacheable |-> FALSE]},
        !.origin["encoded"] = "no"]

\* Budgets that end in the sweep, after the primary probes, within the order
\* stage, and one for everything.
MCInit ==
    /\ site \in MCSites
    /\ mode = "both"
    /\ limit \in {2, 6, 8, 15}
    /\ quirks \in IF limit = 8 THEN {MCKnown} ELSE {NothingMapped}
    /\ Init

MCSpec == MCInit /\ [][Next]_vars
=============================================================================
