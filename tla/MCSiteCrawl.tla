---------------------------- MODULE MCSiteCrawl ----------------------------
EXTENDS SiteCrawl

CONSTANTS home, news, post, deep, toNews, toPost, onward

\* Two links that denote the same page everywhere, and a relative one.
MCPages == {home, news, post, deep}
MCReferences == {toNews, toPost, onward}
MCDenotes ==
    [written \in MCPages \X MCReferences |->
        CASE written[2] = toNews -> news
          [] written[2] = toPost -> post
          [] written = <<post, onward>> -> home
          [] OTHER -> deep]

\* One page at most is kept from the crawl, the later pages have few links, and
\* there is a limit it can meet or none.
MCInit ==
    /\ links \in {written \in [Pages -> BoundedSeq(References, MaxLinks)] :
                     Len(written[post]) <= 1 /\ written[deep] = <<>>}
    /\ robots \in {{}} \cup {{page} : page \in Pages}
    /\ scope \in IF robots = {} THEN {Pages} \cup {Pages \ {page} : page \in Pages} ELSE {Pages}
    /\ maxPages \in {0, MaxPages}
    /\ Init

MCSpec == MCInit /\ [][Next]_vars /\ WF_vars(Next)
=============================================================================
