-------------------------- MODULE SiteCrawlProofs --------------------------
(***************************************************************************)
(* What holds of a crawl of any site, with any limit.                      *)
(*                                                                         *)
(* The argument: only the start page and URLs the crawl may request are    *)
(* ever queued (QueueAllowed), only requested URLs are found, and every    *)
(* link already read leads to a URL that is out of bounds, requested or    *)
(* still queued (LinksCovered).                                            *)
(***************************************************************************)
EXTENDS SiteCrawl, SequenceTheorems, TLAPS

Allowed == {Start} \cup (scope \ disallow)

QueueAllowed ==
    /\ \A k \in 1 .. Len(queue) : queue[k] \in Allowed
    /\ pc = "robots" => queue = <<Start>> /\ visited = {} /\ found = <<>>

Covered(url) == url \in visited \/ \E k \in 1 .. Len(queue) : queue[k] = url

\* The links of the page found last are read up to next.
Read(i, n) == pc = "links" /\ i = Len(found) => n < next

LinksCovered ==
    \A i \in 1 .. Len(found) : \A n \in 1 .. Len(links[found[i]]) :
        Read(i, n) /\ Target(links[found[i]][n]) \in scope \ disallow =>
            Covered(Target(links[found[i]][n]))

StoppedForAReason == pc = "done" => queue = <<>> \/ Len(found) >= Limit

IInv == TypeOK /\ QueueAllowed /\ WithinBounds /\ LinksCovered /\ StoppedForAReason

-----------------------------------------------------------------------------
(* Types *)

LEMMA LimitNat == TypeOK => Limit \in Nat
  BY SiteCrawlAssumption DEF TypeOK, Limit

LEMMA LinkTarget ==
    ASSUME TypeOK, NEW i \in 1 .. Len(found), NEW n \in 1 .. Len(links[found[i]])
    PROVE  Target(links[found[i]][n]) \in Pages
<1>1. found[i] \in Pages
  BY ElementOfSeq DEF TypeOK
<1>2. links[found[i]] \in Seq(References)
  BY <1>1 DEF TypeOK
<1>3. links[found[i]][n] \in References
  BY <1>2, ElementOfSeq
<1>. QED
  BY <1>3, SiteCrawlAssumption DEF Target, Base

\* The first URL of the queue, and the rest.
LEMMA Dequeued ==
    ASSUME TypeOK, queue # <<>>
    PROVE  /\ Head(queue) \in Pages /\ Head(queue) = queue[1]
           /\ Tail(queue) \in Seq(Pages)
           /\ Len(queue) \in Nat \ {0}
           /\ Len(Tail(queue)) = Len(queue) - 1
           /\ \A k \in 1 .. Len(Tail(queue)) : Tail(queue)[k] = queue[k + 1]
  BY DEF TypeOK

LEMMA TypeInit == Init => TypeOK
<1>. SUFFICES ASSUME Init PROVE TypeOK
  OBVIOUS
<1>1. \A written \in BoundedSeq(References, MaxLinks) : written \in Seq(References)
  BY SiteCrawlAssumption, SeqDef DEF BoundedSeq, SeqOf
<1>2. links \in [Pages -> Seq(References)]
  BY <1>1 DEF Init
<1>3. <<Start>> \in Seq(Pages) /\ <<>> \in Seq(Pages)
  BY SiteCrawlAssumption
<1>. QED
  BY <1>2, <1>3, SiteCrawlAssumption DEF Init, TypeOK

LEMMA TypeStep == TypeOK /\ [Next]_vars => TypeOK'
<1>. SUFFICES ASSUME TypeOK, [Next]_vars PROVE TypeOK'
  OBVIOUS
<1>1. CASE ReadRobots
  BY <1>1 DEF TypeOK, ReadRobots, site
<1>2. CASE Stop
  BY <1>2 DEF TypeOK, Stop, site
<1>3. CASE SkipVisited
  BY <1>3, Dequeued DEF TypeOK, SkipVisited, GoingOn, site
<1>4. CASE FetchPage
  <2>1. /\ Head(queue) \in Pages /\ Tail(queue) \in Seq(Pages)
    BY <1>4, Dequeued DEF FetchPage, GoingOn
  <2>2. found' \in Seq(Pages) /\ found' # <<>>
    <3>1. found' = Append(found, Head(queue)) /\ found \in Seq(Pages)
      BY <1>4 DEF TypeOK, FetchPage
    <3>2. found' \in Seq(Pages) /\ Len(found') # 0
      BY <2>1, <3>1
    <3>. QED
      BY <3>2
  <2>. QED
    BY <1>4, <2>1, <2>2 DEF TypeOK, FetchPage, site
<1>5. CASE FetchFails
  BY <1>5, Dequeued DEF TypeOK, FetchFails, GoingOn, site
<1>6. CASE Interrupted
  BY <1>6, Dequeued DEF TypeOK, Interrupted, GoingOn, site
<1>7. CASE TakeLink
  <2>. DEFINE url == Target(links[Page][next])
  <2>1. Len(found) \in Nat \ {0}
    BY <1>7, EmptySeq DEF TypeOK, TakeLink
  <2>2. Len(found) \in 1 .. Len(found) /\ found[Len(found)] \in Pages
    BY <2>1, ElementOfSeq DEF TypeOK
  <2>3. next \in 1 .. Len(links[Page])
    BY <1>7, <2>2, LenProperties DEF TypeOK, TakeLink, LinkLeft, Page
  <2>4. url \in Pages
    BY <2>2, <2>3, LinkTarget DEF Page
  <2>5. queue' \in Seq(Pages)
    <3>1. queue \in Seq(Pages)
      BY DEF TypeOK
    <3>2. CASE Queued(url)
      BY <2>4, <3>1, <3>2 DEF Queued
    <3>3. CASE UNCHANGED queue
      BY <3>1, <3>3
    <3>. QED
      BY <1>7, <3>2, <3>3 DEF TakeLink
  <2>. QED
    BY <1>7, <2>5 DEF TypeOK, TakeLink, site
<1>8. CASE NextPage
  BY <1>8 DEF TypeOK, NextPage, site
<1>9. CASE UNCHANGED vars
  BY <1>9 DEF TypeOK, vars
<1>. QED
  BY <1>1, <1>2, <1>3, <1>4, <1>5, <1>6, <1>7, <1>8, <1>9 DEF Next

\* A crawl never leaves its types.
THEOREM TypeCorrect == Spec => []TypeOK
  BY TypeInit, TypeStep, PTL DEF Spec

-----------------------------------------------------------------------------
(* What is queued and found *)

\* A URL leaves the queue and is requested, or was before.
LEMMA DequeueKeeps ==
    ASSUME TypeOK, queue # <<>>, queue' = Tail(queue), visited' = visited \cup {Head(queue)}
    PROVE  \A url : Covered(url) => Covered(url)'
<1>. SUFFICES ASSUME NEW url, Covered(url), url \notin visited' PROVE Covered(url)'
  BY DEF Covered
<1>1. PICK k \in 1 .. Len(queue) : queue[k] = url
  BY DEF Covered
<1>2. k # 1
  BY <1>1, Dequeued
<1>3. k - 1 \in 1 .. Len(Tail(queue)) /\ Tail(queue)[k - 1] = url
  BY <1>1, <1>2, Dequeued
<1>. QED
  BY <1>3 DEF Covered

LEMMA QueueStep ==
    ASSUME TypeOK, QueueAllowed, [Next]_vars
    PROVE  QueueAllowed'
<1>1. CASE ReadRobots
  <2>1. Len(queue) = 1 /\ queue[1] = Start
    BY <1>1 DEF QueueAllowed, ReadRobots
  <2>. QED
    BY <1>1, <2>1 DEF QueueAllowed, Allowed, ReadRobots, site
<1>2. ASSUME queue # <<>>, queue' = Tail(queue), UNCHANGED <<site, disallow>>, pc' # "robots"
      PROVE  QueueAllowed'
  BY <1>2, Dequeued DEF QueueAllowed, Allowed, site
<1>3. CASE SkipVisited \/ FetchPage \/ FetchFails \/ Interrupted
  BY <1>2, <1>3 DEF SkipVisited, FetchPage, FetchFails, Interrupted, GoingOn
<1>4. CASE TakeLink
  <2>. DEFINE url == Target(links[Page][next])
  <2>1. CASE ~Follows(url) /\ UNCHANGED queue
    BY <1>4, <2>1 DEF TakeLink, QueueAllowed, Allowed, site
  <2>2. CASE Follows(url) /\ Queued(url)
    <3>1. url \in Pages /\ url \in Allowed
      BY <2>2 DEF Follows, Allowed, TypeOK
    <3>2. \A k \in 1 .. Len(queue') : queue'[k] \in Allowed
      <4>1. queue \in Seq(Pages) /\ queue' = Append(queue, url) /\ Len(queue) \in Nat
        BY <2>2 DEF Queued, TypeOK
      <4>2. /\ Len(queue') = Len(queue) + 1
            /\ \A k \in 1 .. Len(queue) : queue'[k] = queue[k]
            /\ queue'[Len(queue) + 1] = url
        BY <3>1, <4>1
      <4>. QED
        BY <3>1, <4>1, <4>2 DEF QueueAllowed
    <3>. QED
      BY <1>4, <3>2 DEF TakeLink, QueueAllowed, Allowed, site
  <2>. QED
    BY <1>4, <2>1, <2>2 DEF TakeLink
<1>5. CASE Stop \/ NextPage \/ UNCHANGED vars
  BY <1>5 DEF Stop, NextPage, QueueAllowed, Allowed, vars, site
<1>. QED
  BY <1>1, <1>3, <1>4, <1>5 DEF Next

LEMMA BoundsStep ==
    ASSUME TypeOK, QueueAllowed, WithinBounds, [Next]_vars
    PROVE  WithinBounds'
<1>. USE DEF Limit
<1>1. CASE ReadRobots
  BY <1>1 DEF QueueAllowed, WithinBounds, ReadRobots, site
<1>2. ASSUME GoingOn PROVE Head(queue) \in {Start} \cup (scope \ disallow)
  BY <1>2, Dequeued DEF GoingOn, QueueAllowed, Allowed
<1>3. CASE FetchPage
  <2>. DEFINE url == Head(queue)
  <2>1. url \in Pages /\ url \notin visited /\ url \in {Start} \cup (scope \ disallow)
    BY <1>2, <1>3, Dequeued DEF FetchPage, GoingOn
  <2>2. found \in Seq(Pages) /\ Len(found) \in Nat /\ DOMAIN found = 1 .. Len(found)
    BY LenProperties DEF TypeOK
  <2>3. /\ found' \in Seq(Pages)
        /\ Len(found') = Len(found) + 1
        /\ \A i \in 1 .. Len(found) : found'[i] = found[i]
        /\ found'[Len(found) + 1] = url
    BY <1>3, <2>1, <2>2 DEF FetchPage
  <2>4. DOMAIN found' = 1 .. Len(found) + 1
    BY <2>3, LenProperties
  <2>5. Len(found') <= Limit'
    BY <1>3, <2>2, <2>3, LimitNat DEF FetchPage, GoingOn, site
  <2>6. \A i \in DOMAIN found' : found'[i] \in visited'
    BY <1>3, <2>2, <2>3, <2>4 DEF FetchPage, WithinBounds
  <2>7. \A i, j \in DOMAIN found' : found'[i] = found'[j] => i = j
    BY <2>1, <2>2, <2>3, <2>4 DEF WithinBounds
  <2>8. visited' \subseteq {Start} \cup (scope' \ disallow')
    BY <1>3, <2>1 DEF FetchPage, WithinBounds, site
  <2>. QED
    BY <2>5, <2>6, <2>7, <2>8 DEF WithinBounds
<1>4. CASE FetchFails \/ Interrupted
  BY <1>2, <1>4 DEF FetchFails, Interrupted, WithinBounds, site
<1>5. CASE Stop \/ SkipVisited \/ TakeLink \/ NextPage \/ UNCHANGED vars
  BY <1>5 DEF Stop, SkipVisited, TakeLink, NextPage, WithinBounds, vars, site
<1>. QED
  BY <1>1, <1>3, <1>4, <1>5 DEF Next

-----------------------------------------------------------------------------
(* What the links read so far lead to *)

LEMMA LinksStep ==
    ASSUME TypeOK, QueueAllowed, LinksCovered, [Next]_vars
    PROVE  LinksCovered'
<1>. SUFFICES ASSUME NEW i \in 1 .. Len(found'), NEW n \in 1 .. Len(links'[found'[i]]),
                     Read(i, n)', NEW url \in scope' \ disallow',
                     url = Denotes[<<Start, links'[found'[i]][n]>>]
              PROVE  Covered(url)'
  BY DEF LinksCovered, Target, Base
<1>0. Len(found) \in Nat
  BY DEF TypeOK
<1>1. CASE ReadRobots
  BY <1>1 DEF QueueAllowed, ReadRobots
<1>2. ASSUME links' = links, scope' = scope, disallow' = disallow,
             i \in 1 .. Len(found), found'[i] = found[i], Read(i, n)
      PROVE  Covered(url)
  BY <1>2 DEF LinksCovered, Target, Base
<1>3. CASE SkipVisited
  <2>1. Covered(url)
    BY <1>2, <1>3 DEF SkipVisited, GoingOn, Read, site
  <2>2. visited' = visited \cup {Head(queue)}
    BY <1>3 DEF SkipVisited
  <2>. QED
    BY <1>3, <2>1, <2>2, DequeueKeeps DEF SkipVisited, GoingOn
<1>4. CASE FetchPage
  <2>1. Head(queue) \in Pages
    BY <1>4, Dequeued DEF FetchPage, GoingOn
  <2>2. /\ Len(found') = Len(found) + 1
        /\ \A k \in 1 .. Len(found) : found'[k] = found[k]
    BY <1>4, <2>1 DEF FetchPage, TypeOK
  <2>3. i # Len(found')
    BY <1>4 DEF FetchPage, Read
  <2>4. i \in 1 .. Len(found)
    BY <1>0, <2>2, <2>3
  <2>5. Covered(url)
    BY <1>2, <1>4, <2>2, <2>4 DEF FetchPage, GoingOn, Read, site
  <2>. QED
    BY <1>4, <2>5, DequeueKeeps DEF FetchPage, GoingOn
<1>5. CASE FetchFails \/ Interrupted
  <2>1. Covered(url)
    BY <1>2, <1>5 DEF FetchFails, Interrupted, GoingOn, Read, site
  <2>. QED
    BY <1>5, <2>1, DequeueKeeps DEF FetchFails, Interrupted, GoingOn
<1>6. CASE TakeLink
  <2>. DEFINE taken == Target(links[Page][next])
  <2>1. \/ Follows(taken) /\ queue' = Append(queue, taken)
        \/ ~Follows(taken) /\ queue' = queue
    BY <1>6 DEF TakeLink, Queued
  <2>2. UNCHANGED <<links, scope, disallow, visited, found, pc>> /\ next' = next + 1
    BY <1>6 DEF TakeLink, site
  <2>3. /\ queue \in Seq(Pages) /\ Len(queue) \in Nat
        /\ Follows(taken) => taken \in Pages
    BY DEF TypeOK, Follows
  <2>4. /\ \A k \in 1 .. Len(queue) : k \in 1 .. Len(queue') /\ queue'[k] = queue[k]
        /\ Follows(taken) => Len(queue) + 1 \in 1 .. Len(queue') /\ queue'[Len(queue) + 1] = taken
    BY <2>1, <2>3, SMTT(20)
  <2>5. CASE Read(i, n)
    <3>1. Covered(url)
      BY <1>2, <2>2, <2>5
    <3>. QED
      BY <2>2, <2>4, <3>1 DEF Covered
  <2>6. CASE ~Read(i, n)
    <3>1. i = Len(found) /\ n = next
      BY <2>2, <2>6 DEF Read, TypeOK
    <3>2. url = taken
      BY <2>2, <3>1 DEF Page, Target, Base
    <3>3. taken \in visited \/ Follows(taken)
      BY <2>2, <3>2 DEF Follows
    <3>. QED
      BY <2>2, <2>4, <3>2, <3>3 DEF Covered
  <2>. QED
    BY <2>5, <2>6
<1>7. CASE NextPage
  <2>1. UNCHANGED <<links, scope, disallow, visited, found, queue>>
    BY <1>7 DEF NextPage, site
  <2>2. i = Len(found) => n < next
    <3>1. SUFFICES ASSUME i = Len(found) PROVE n < next
      OBVIOUS
    <3>2. found[i] \in Pages
      BY <2>1, ElementOfSeq DEF TypeOK
    <3>3. links[found[i]] \in Seq(References)
      BY <3>2 DEF TypeOK
    <3>4. Len(links[found[i]]) \in Nat /\ ~(next <= Len(links[found[i]])) /\ next \in Nat
      BY <1>7, <3>1, <3>3 DEF NextPage, LinkLeft, Page, TypeOK
    <3>. QED
      BY <2>1, <3>4
  <2>3. Covered(url)
    BY <1>2, <2>1, <2>2 DEF Read
  <2>. QED
    BY <2>1, <2>3 DEF Covered
<1>8. CASE Stop \/ UNCHANGED vars
  <2>1. UNCHANGED <<links, scope, disallow, visited, found, queue>> /\ Read(i, n)
    BY <1>8 DEF Stop, vars, site, Read
  <2>2. Covered(url)
    BY <1>2, <2>1
  <2>. QED
    BY <2>1, <2>2 DEF Covered
<1>. QED
  BY <1>1, <1>3, <1>4, <1>5, <1>6, <1>7, <1>8 DEF Next

LEMMA ReasonStep ==
    ASSUME TypeOK, StoppedForAReason, [Next]_vars
    PROVE  StoppedForAReason'
<1>1. CASE Stop
  <2>1. queue = <<>> \/ Len(found) >= Limit
    BY <1>1, LimitNat DEF Stop, GoingOn, TypeOK
  <2>. QED
    BY <1>1, <2>1 DEF Stop, StoppedForAReason, Limit, site
<1>2. CASE UNCHANGED vars
  BY <1>2 DEF StoppedForAReason, Limit, vars
<1>3. ASSUME pc' # "done" PROVE StoppedForAReason'
  BY <1>3 DEF StoppedForAReason
<1>4. CASE ReadRobots \/ SkipVisited \/ FetchPage \/ FetchFails \/ Interrupted \/ TakeLink \/ NextPage
  BY <1>3, <1>4 DEF ReadRobots, SkipVisited, FetchPage, FetchFails, Interrupted, TakeLink,
                    NextPage, GoingOn
<1>. QED
  BY <1>1, <1>2, <1>4 DEF Next

LEMMA InvInit == Init => IInv
<1>. SUFFICES ASSUME Init PROVE IInv
  OBVIOUS
<1>1. TypeOK
  BY TypeInit
<1>2. Len(queue) = 1 /\ queue[1] = Start /\ Len(found) = 0 /\ found = <<>>
  BY DEF Init
<1>3. QueueAllowed
  BY <1>2 DEF Init, QueueAllowed, Allowed
<1>4. WithinBounds
  BY <1>1, <1>2, LimitNat DEF Init, WithinBounds
<1>5. LinksCovered
  BY <1>2 DEF LinksCovered
<1>6. StoppedForAReason
  BY DEF Init, StoppedForAReason
<1>. QED
  BY <1>1, <1>3, <1>4, <1>5, <1>6 DEF IInv

LEMMA Invariance == Spec => []IInv
<1>1. IInv /\ [Next]_vars => IInv'
  BY TypeStep, QueueStep, BoundsStep, LinksStep, ReasonStep DEF IInv
<1>. QED
  BY <1>1, InvInit, PTL DEF Spec

-----------------------------------------------------------------------------
(* Theorems *)

\* Whatever the site, Crawl returns at most MaxPages pages, no page twice, and
\* none but the start page outside the prefix or against robots.txt.
THEOREM CrawlsWithinBounds == Spec => []WithinBounds
<1>1. IInv => WithinBounds
  BY DEF IInv
<1>. QED
  BY <1>1, Invariance, PTL

\* Whatever the site, a crawl that ends below the limit has followed every
\* link it may follow.
THEOREM CrawlMissesNothing == Spec => []NothingMissed
<1>1. IInv => NothingMissed
  <2>. SUFFICES ASSUME IInv, pc = "done", Len(found) < Limit, NEW i \in DOMAIN found,
                       NEW url \in LeadsTo(found[i]), url \in scope \ disallow
                PROVE  url \in visited
    BY DEF NothingMissed
  <2>1. TypeOK /\ LinksCovered /\ StoppedForAReason
    BY DEF IInv
  <2>2. queue = <<>>
    BY <2>1, LimitNat DEF StoppedForAReason, TypeOK
  <2>3. i \in 1 .. Len(found) /\ found[i] \in Pages
    BY <2>1, ElementOfSeq DEF TypeOK
  <2>4. PICK n \in DOMAIN links[found[i]] : url = Target(links[found[i]][n])
    BY DEF LeadsTo
  <2>5. n \in 1 .. Len(links[found[i]])
    BY <2>1, <2>3 DEF TypeOK
  <2>6. Covered(url)
    BY <2>1, <2>3, <2>4, <2>5 DEF LinksCovered, Read
  <2>. QED
    BY <2>2, <2>6 DEF Covered
<1>. QED
  BY <1>1, Invariance, PTL
=============================================================================
