--------------------------- MODULE MCScanEngine ---------------------------
EXTENDS ScanEngine

CONSTANTS r1, r2, r3

\* Three resources, two of them under one identifier.
Three == {r1, r2, r3}
ThreeIds == [r \in Three |-> IF r = r1 THEN "/cart" ELSE "/cart#2"]

\* The poison chain, and a check of each kind that comes after it.
ChainAndReaders ==
    Chain \cup {"cacheability", "authenticated-cacheable", "live-state", "fingerprint"}
AnalysisFaulty == {"cacheability", "live-state"}
=============================================================================
