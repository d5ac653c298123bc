----------------------------- MODULE SiteCrawl -----------------------------
(***************************************************************************)
(* The same-origin crawl (crawl.Crawl): from a start page, breadth first,  *)
(* along the links of the pages that answer, up to a number of pages.      *)
(*                                                                         *)
(* A link is kept as it is written in the page; which URL it denotes       *)
(* depends on the URL it is resolved against. Around the crawl: a site     *)
(* whose pages may fail to answer, and a caller who may give up while the  *)
(* crawl paces itself.                                                     *)
(***************************************************************************)
EXTENDS Naturals, Sequences, FiniteSets, SequencesExt

CONSTANTS
    Pages,          \* the URLs at hand, the start page among them
    Start,          \* the URL the crawl starts from
    References,     \* the links pages are written with
    Denotes,        \* the URL a link denotes, by the URL it is resolved against
    MaxLinks,       \* the most links a page has
    MaxPages,       \* the largest Options.MaxPages
    RespectRobots,  \* Options.RespectRobots
    Paced           \* Options.RequestDelay is set

ASSUME SiteCrawlAssumption ==
    /\ Start \in Pages
    /\ Denotes \in [Pages \X References -> Pages]
    /\ MaxLinks \in Nat
    /\ MaxPages \in Nat
    /\ RespectRobots \in BOOLEAN /\ Paced \in BOOLEAN

VARIABLES
    links,      \* the links of each page, fixed
    scope,      \* the URLs of the start page's host under Scope.PathPrefix, fixed
    robots,     \* the URLs the site's robots.txt disallows, fixed
    maxPages,   \* Options.MaxPages, fixed
    disallow,   \* those the crawl knows of
    pc,         \* where the crawl is
    queue,      \* the URLs to request
    visited,    \* those requested
    found,      \* the pages that answered, in order
    next        \* index of the next link of the page found last

site == <<links, scope, robots, maxPages>>
vars == <<links, scope, robots, maxPages, disallow, pc, queue, visited, found, next>>

\* Fifty pages unless a number is given.
Limit == IF maxPages = 0 THEN 50 ELSE maxPages

Init ==
    /\ links \in [Pages -> BoundedSeq(References, MaxLinks)]
    /\ scope \in SUBSET Pages
    /\ robots \in SUBSET Pages
    /\ maxPages \in 0 .. MaxPages
    /\ disallow = {}
    /\ pc = IF RespectRobots THEN "robots" ELSE "pages"
    /\ queue = <<Start>>
    /\ visited = {}
    /\ found = <<>>
    /\ next = 1

\* Rules that cannot be read are no rules.
ReadRobots ==
    /\ pc = "robots"
    /\ disallow' \in {robots, {}}
    /\ pc' = "pages"
    /\ UNCHANGED <<site, queue, visited, found, next>>

GoingOn == pc = "pages" /\ queue # <<>> /\ Len(found) < Limit

Stop ==
    /\ pc = "pages" /\ ~GoingOn
    /\ pc' = "done"
    /\ UNCHANGED <<site, disallow, queue, visited, found, next>>

SkipVisited ==
    /\ GoingOn /\ Head(queue) \in visited
    /\ queue' = Tail(queue)
    /\ UNCHANGED <<site, disallow, pc, visited, found, next>>

\* The next page of the queue answers.
FetchPage ==
    /\ GoingOn /\ Head(queue) \notin visited
    /\ queue' = Tail(queue)
    /\ visited' = visited \cup {Head(queue)}
    /\ found' = Append(found, Head(queue))
    /\ pc' = "links"
    /\ next' = 1
    /\ UNCHANGED <<site, disallow>>

FetchFailsUncounted ==  \* mutant
    /\ GoingOn /\ Head(queue) \notin visited
    /\ queue' = Append(Tail(queue), Head(queue))
    /\ UNCHANGED <<site, disallow, pc, visited, found, next>>

\* It does not, and is not tried again.
FetchFails ==
    /\ GoingOn /\ Head(queue) \notin visited
    /\ queue' = Tail(queue)
    /\ visited' = visited \cup {Head(queue)}
    /\ UNCHANGED <<site, disallow, pc, found, next>>

\* The caller gives up between two pages.
Interrupted ==
    /\ GoingOn /\ Head(queue) \notin visited
    /\ Paced /\ found # <<>>
    /\ queue' = Tail(queue)
    /\ visited' = visited \cup {Head(queue)}
    /\ pc' = "interrupted"
    /\ UNCHANGED <<site, disallow, found, next>>

Page == found[Len(found)]
Base == Start
Target(link) == Denotes[<<Base, link>>]

FollowsUnruly(url) == url \in scope /\ url \notin visited  \* mutant
Follows(url) == url \in scope /\ url \notin visited /\ url \notin disallow

Queued(url) == queue' = Append(queue, url)

LinkLeftIgnoringLast == next < Len(links[Page])  \* mutant
LinkLeft == next <= Len(links[Page])

\* The links of a page are taken one by one, without any request in between.
TakeLink ==
    /\ pc = "links" /\ LinkLeft
    /\ next' = next + 1
    /\ LET url == Target(links[Page][next])
       IN  \/ Follows(url) /\ Queued(url)
           \/ ~Follows(url) /\ UNCHANGED queue
    /\ UNCHANGED <<site, disallow, pc, visited, found>>

NextPage ==
    /\ pc = "links" /\ ~LinkLeft
    /\ pc' = "pages"
    /\ UNCHANGED <<site, disallow, queue, visited, found, next>>

Next ==
    \/ ReadRobots \/ Stop \/ SkipVisited \/ FetchPage \/ FetchFails \/ Interrupted
    \/ TakeLink \/ NextPage

\* Every request has an outcome, and the crawl waits for nothing else.
Spec == Init /\ [][Next]_vars /\ WF_vars(Next)

-----------------------------------------------------------------------------
(* Properties *)

\* Types; links are taken only of a page that was found.
TypeOK ==
    /\ links \in [Pages -> Seq(References)]
    /\ maxPages \in 0 .. MaxPages
    /\ scope \subseteq Pages /\ robots \subseteq Pages /\ disallow \subseteq robots
    /\ pc \in {"robots", "pages", "links", "done", "interrupted"}
    /\ queue \in Seq(Pages)
    /\ visited \subseteq Pages
    /\ found \in Seq(Pages)
    /\ next \in Nat \ {0}
    /\ pc = "links" => found # <<>>

\* What a scan is given is within the bounds it was asked for: no more than
\* MaxPages pages, each once, and but for the start page none outside the
\* host and prefix, none that robots.txt disallows, none never requested.
WithinBounds ==
    /\ Len(found) <= Limit
    /\ \A i, j \in DOMAIN found : found[i] = found[j] => i = j
    /\ \A i \in DOMAIN found : found[i] \in visited
    /\ visited \subseteq {Start} \cup (scope \ disallow)

\* The pages a page's links lead to, as the crawl reads them.
LeadsTo(page) == {Target(links[page][n]) : n \in DOMAIN links[page]}

\* A crawl that ends below the limit has requested every page it may request
\* that some page it found leads to.
NothingMissed ==
    pc = "done" /\ Len(found) < Limit =>
        \A i \in DOMAIN found : LeadsTo(found[i]) \cap (scope \ disallow) \subseteq visited

\* The crawl comes to an end.
Terminates == <>(pc \in {"done", "interrupted"})

\* The crawl is documented to discover "same-origin links starting from --url"
\* (guides/crawl-a-site.mdx): every page it asks for but the first is one
\* that a page it found links to, a link being relative to its page.
EveryPageLinked ==
    \A url \in visited \ {Start} :
        \E i \in DOMAIN found : \E n \in DOMAIN links[found[i]] :
            Denotes[<<found[i], links[found[i]][n]>>] = url
=============================================================================
