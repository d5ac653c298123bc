--------------------------- MODULE ResourceList ---------------------------
(***************************************************************************)
(* How a scan gets its resource list, before any check runs                *)
(* (resolveResources and the input readers of cache/crawl): exactly one of *)
(* the input flags, read into URLs, and an identifier for each of them.    *)
(*                                                                         *)
(* An identifier is a string: here what it begins with, and the numbers    *)
(* put after it, each with a "#" before it. A URL's own identifier may end *)
(* in numbers too: it is the path, decoded ("/cart%232" gives "/cart#2"),  *)
(* or all of the URL where there is no path.                               *)
(***************************************************************************)
EXTENDS Naturals, Sequences, FiniteSets, SequencesExt

CONSTANTS
    Urls,           \* the URLs at hand
    Stems,          \* what identifiers begin with
    ResourceID,     \* the identifier of each, before it is numbered
    Blank,          \* a comment or blank line, an entry without a URL
    Pages,          \* the URLs a crawl from a URL finds
    MaxEntries      \* the longest list, sitemap or archive considered

Names == [stem : Stems, numbers : Seq(Nat)]
Root == [stem |-> "root", numbers |-> <<>>]

ASSUME ResourceListAssumption ==
    /\ "root" \in Stems
    /\ ResourceID \in [Urls -> Names]
    /\ Pages \in [Urls -> Seq(Urls)]
    /\ MaxEntries \in Nat
    /\ Blank \notin Urls

\* The input flags, and an entry of the file, sitemap or archive they name;
\* only an archive tells which entries a scan may replay (GET and HEAD).
Flags == {"url", "list", "sitemap", "har", "crawl"}
Entry == [url : Urls \cup {Blank}, replayable : BOOLEAN]

-----------------------------------------------------------------------------
(* Reading *)

\* id + "#" + n.
Suffixed(id, n) == [stem |-> id.stem, numbers |-> Append(id.numbers, n)]

IdentifiedBare(list, url) == Append(list, [id |-> ResourceID[url], url |-> url])  \* mutant

\* One URL more: seen counts the resources that got an identifier, numbered or not.
IdentifiedNext(list, url) ==
    LET id == ResourceID[url]
        seen == Cardinality({i \in DOMAIN list : list[i].id = id})
    IN  Append(list, [id |-> IF seen > 0 THEN Suffixed(id, seen + 1) ELSE id, url |-> url])

\* FromURLs.
Identified(urls) == FoldLeft(IdentifiedNext, <<>>, urls)

ListedOnce(entries) ==  \* mutant
    FoldLeft(LAMBDA urls, e :
                 IF e.url = Blank \/ e.url \in ToSet(urls) THEN urls ELSE Append(urls, e.url),
             <<>>, entries)

\* The entries that have a URL, all of them.
Listed(entries) ==
    FoldLeft(LAMBDA urls, e : IF e.url = Blank THEN urls ELSE Append(urls, e.url), <<>>, entries)
FromListFile(entries) == Identified(Listed(entries))
FromSitemap(entries) == Identified(Listed(entries))

\* The first of each URL that may be replayed.
Archived(entries) ==
    FoldLeft(LAMBDA urls, e :
                 IF e.replayable /\ e.url # Blank /\ e.url \notin ToSet(urls)
                 THEN Append(urls, e.url) ELSE urls,
             <<>>, entries)
FromHAR(entries) == Identified(Archived(entries))

\* crawl.Crawl: from "" it fetches nothing.
FromCrawl(from) == Identified(IF from = Blank THEN <<>> ELSE Pages[from])

-----------------------------------------------------------------------------
VARIABLES
    given,      \* the input flags set on the command line
    start,      \* the value of --url, Blank unless it is given
    content,    \* what the file, sitemap or archive holds
    outcome,    \* "unresolved", "resolved" or "error"
    specs       \* the resources the scan runs on

vars == <<given, start, content, outcome, specs>>

Init ==
    /\ given \in SUBSET Flags
    /\ start \in IF "url" \in given THEN Urls ELSE {Blank}
    /\ content \in BoundedSeq(Entry, MaxEntries)
    /\ outcome = "unresolved"
    /\ specs = <<>>

ResolvedAnyway(list) ==  \* mutant
    /\ outcome' = "resolved"
    /\ specs' = list

\* The scan goes on with a non-empty list only.
Resolved(list) ==
    /\ outcome' = IF list = <<>> THEN "error" ELSE "resolved"
    /\ specs' = list

\* Not exactly one of --url, --list, --sitemap, --har and --crawl is set.
Refuse ==
    /\ outcome = "unresolved"
    /\ Cardinality(given) # 1
    /\ outcome' = "error"
    /\ UNCHANGED <<given, start, content, specs>>

Resolve ==
    /\ outcome = "unresolved"
    /\ Cardinality(given) = 1
    /\ \/ given = {"url"} /\ Resolved(<<[id |-> Root, url |-> start]>>)
       \/ given = {"list"} /\ Resolved(FromListFile(content))
       \/ given = {"sitemap"} /\ Resolved(FromSitemap(content))
       \/ given = {"har"} /\ Resolved(FromHAR(content))
       \/ given = {"crawl"} /\ Resolved(FromCrawl(start))
    /\ UNCHANGED <<given, start, content>>

\* The file cannot be read or parsed, the sitemap cannot be fetched.
Unreadable ==
    /\ outcome = "unresolved"
    /\ Cardinality(given) = 1 /\ given \subseteq {"list", "sitemap", "har"}
    /\ outcome' = "error"
    /\ UNCHANGED <<given, start, content, specs>>

Next == Refuse \/ Resolve \/ Unreadable

Spec == Init /\ [][Next]_vars

-----------------------------------------------------------------------------
(* Properties *)

\* Types, and a scan that starts has something to scan.
TypeOK ==
    /\ given \subseteq Flags
    /\ start \in Urls \cup {Blank}
    /\ content \in Seq(Entry)
    /\ outcome \in {"unresolved", "resolved", "error"}
    /\ outcome = "resolved" <=> specs # <<>>
    /\ specs \in Seq([id : Names, url : Urls])

Sites == {i \in DOMAIN content : content[i].url # Blank}

\* What is scanned, and in which order. A list or sitemap URL by URL, in its
\* order, repeats included: the order of the scan is the order of the input.
\* An archive each URL once, none it may not replay, in the order of the first
\* entry that may be replayed, whatever entries stand before it.
ListInOrder ==
    outcome = "resolved" /\ given \in {{"list"}, {"sitemap"}} =>
        /\ Len(specs) = Cardinality(Sites)
        /\ \A i \in Sites :
              specs[Cardinality({j \in Sites : j <= i})].url = content[i].url

ArchiveOnce ==
    LET first(u) == CHOOSE i \in DOMAIN content :
                        /\ content[i] = [url |-> u, replayable |-> TRUE]
                        /\ \A j \in 1 .. i - 1 : content[j] # content[i]
    IN  outcome = "resolved" /\ given = {"har"} =>
            /\ {specs[i].url : i \in DOMAIN specs}
                   = {content[i].url : i \in {j \in Sites : content[j].replayable}}
            /\ \A i, j \in DOMAIN specs : i < j => first(specs[i].url) < first(specs[j].url)

\* Both are what the crawl package's FromListFile, FromSitemap and FromHAR do.
ScannedInOrder == ListInOrder /\ ArchiveOnce

\* Results are kept by identifier, and two resources come to share one in two
\* ways only. Both have the same identifier of their own, which a resource before
\* them was given: as the second and the third URL of a path. Or the earlier one's
\* own identifier is the other's with a number: the path "/cart#2" in front of
\* two URLs of "/cart".
IdsTellApart ==
    \A i, j \in DOMAIN specs :
        LET own(k) == ResourceID[specs[k].url]
        IN  i < j /\ specs[i].id = specs[j].id =>
                \/ own(i) = own(j) /\ \E k \in 1 .. i - 1 : specs[k].id = own(i)
                \/ \E n \in 2 .. j : own(i) = Suffixed(own(j), n)
=============================================================================
