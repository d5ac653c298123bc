------------------------------ MODULE MCCPDoS ------------------------------
EXTENDS CPDoS

\* The mode only decides, with the forms in the key, whether the cache tells
\* busted requests apart: one buster form stands for all of them. A site's
\* behaviour towards a variant that is never sent is moot, and a resource that
\* always fails needs no third variant to be misjudged.
MCInit ==
    /\ Init
    /\ mode = "query" /\ "header" \notin site.keyForms
    /\ budget \in {3, MaxAggressiveRequests}
    /\ hasQuery = FALSE => "HMC" \notin site.reads \cup site.keys
    /\ broken = TRUE => hasQuery = FALSE

MCSpec == MCInit /\ [][Next]_vars /\ WF_vars(Check)
=============================================================================
