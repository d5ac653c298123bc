----------------------- MODULE DelimiterMapperProofs -----------------------
(***************************************************************************)
(* What the delimiter mapper guarantees for every list of delimiters,      *)
(* budget, site, buster mode and pattern of failures: types, that the      *)
(* entry real users are served stays the resource, that what it reports of *)
(* delimiters and of the origin's normalization is so, that what the       *)
(* budget affords is found, and that the quirk store forgets nothing.      *)
(***************************************************************************)
EXTENDS DelimiterMapper, TLAPS

(* The inductive invariant *)

L == Len(Delimiters)

\* Whether the request to send next is a repeated one, its buster made.
Repeating == IF retries > 0 THEN 1 ELSE 0

\* The busters made by now, at most: one for the junk path and one for the
\* cache's order, one for each delimiter in each direction.
Made ==
    CASE pc = "baseline" -> 0
      [] pc = "junk" -> Repeating
      [] pc = "sweep" -> n + Repeating
      [] pc = "detour" -> L + 1
      [] pc = "prime" -> L + 1 + Repeating
      [] pc \in {"repeat", "order", "again"} -> L + 2
      [] pc = "reverse" -> L + 1 + n + Repeating
      [] pc = "confirm" -> L + 2 + n
      [] OTHER -> 2 * L + 2

\* The requests that go out under a buster made before.
Busted ==
    \/ pc \in {"junk", "sweep", "prime", "reverse"} /\ retries > 0
    \/ pc \in {"repeat", "order", "again", "confirm"}

Bookkeeping ==
    /\ Len(reverse) <= L
    /\ pc \in {"baseline", "junk"} => reverse = <<>>
    /\ pc = "sweep" => n <= L + 1 /\ Len(reverse) <= n - 1
    /\ pc = "again" => n <= 2
    /\ pc = "reverse" => n <= Len(reverse) + 1
    /\ pc = "confirm" => n <= Len(reverse)
    /\ token <= Made
    /\ Busted => token > Canonical
    /\ pc \in {"prime", "reverse"} /\ retries > 0 => budget >= 1
    /\ pc \in {"repeat", "confirm"} /\ retries = 0 => budget >= 1
    /\ pc = "baseline" => base = "current" /\ mapping = NothingMapped

Basics == TypeOK /\ Bookkeeping

\* What is stored under any key but the resource's is what the origin answers
\* there; the baseline is the resource, as it is or as it was.
StoredAsAnswered ==
    /\ \A key \in Keys : key[2] # Resource => store[key] \in {NoEntry, Answered(key[2])}
    /\ pc = "baseline" => store[<<Canonical, Resource>>] \in {NoEntry, "current", "former"}
    /\ base \in {"current", "former"}

\* Where the buster is keyed, nothing is stored under one not made yet, and a
\* delimited path under way is the only one to have touched the entry of its
\* own buster: that of the resource, if the cache cuts the path.
FutureUntouched == \A key \in Keys : key[1] > token => store[key] = NoEntry

UnderWay == pc = "confirm" \/ (pc \in {"sweep", "reverse"} /\ retries > 0)

OwnEntry ==
    LET entry == store[<<token, Resource>>]
    IN  \/ entry = NoEntry
        \/ CutBy(Delimited(Subject)) /\ entry = Answered(Delimited(Subject))
        \/ pc = "confirm" /\ entry = "current"

Apart ==
    Isolated(site, mode) =>
        /\ FutureUntouched
        /\ UnderWay => OwnEntry
        /\ pc = "sweep" /\ base = "current" => ~site.loose

\* The cache's order: while nothing goes wrong, the resource is stored and the
\* forms still to be tried are not.
OrderSound ==
    faults = 0 =>
        /\ retries = 0
        /\ pc \in {"baseline", "junk", "sweep", "detour", "prime", "repeat"} =>
              \A key \in Keys : \A form \in TraversalForms :
                  key[2] = Detour(form, "cache") => store[key] = NoEntry
        /\ pc = "order" =>
              \A key \in Keys : \A m \in n .. 2 :
                  key[2] = Detour(Traversals[m], "cache") => store[key] = NoEntry
        /\ pc = "again" =>
              /\ Subject \notin site.resolves
              /\ \A key \in Keys : \A m \in n + 1 .. 2 :
                    key[2] = Detour(Traversals[m], "cache") => store[key] = NoEntry
        /\ pc \in {"order", "again"} => site.showsHits /\ store[KeyUnder(token, Resource)] # NoEntry

\* The conditions of NothingMissed, but that the mapper is done.
Undisturbed == faults = 0 /\ WellIsolated /\ ~site.loose /\ site.segment /\ base = "current"
Primary == limit >= Swept
Whole == limit >= Swept + 6 + 2 * L /\ site.stores

\* How many delimiters the sweep is through with, how many forms the detours
\* and the cache's order, how many delimiters the reverse direction.
SweptTo ==
    CASE pc \in {"baseline", "junk"} -> 0
      [] pc = "sweep" -> n - 1
      [] OTHER -> L
DetouredTo ==
    CASE pc \in {"baseline", "junk", "sweep"} -> 0
      [] pc = "detour" -> n - 1
      [] OTHER -> 2
OrderedTo ==
    CASE pc \in {"baseline", "junk", "sweep", "detour", "prime", "repeat"} -> 0
      [] pc \in {"order", "again"} -> n - 1
      [] OTHER -> 2
ReversedTo ==
    CASE pc \in {"reverse", "confirm"} -> n - 1
      [] pc \in {"record", "done"} -> Len(reverse)
      [] OTHER -> 0

\* What the stages on the cache may cost from here.
Owed ==
    CASE pc = "prime" -> 2 * L + 6
      [] pc = "repeat" -> 2 * L + 5
      [] pc = "order" -> 2 * L + 2 * (3 - n)
      [] pc = "again" -> 2 * L + 2 * (2 - n) + 1
      [] pc = "reverse" -> 2 * L - 2 * (n - 1)
      [] pc = "confirm" -> 2 * L - 2 * (n - 1) - 1
      [] OTHER -> 0

\* The stages on the origin have cost one request for each path.
Affordable ==
    /\ pc \in {"baseline", "junk"} => n = 1 /\ budget = limit
    /\ pc = "sweep" => budget = limit - n
    /\ pc = "detour" => n <= 3 /\ budget = limit - L - n
    /\ pc = "prime" => n = 1
    /\ pc = "order" => n <= 3
    /\ Whole => budget >= Owed

\* The entry of real users is the resource from the baseline on.
PlainEntry ==
    pc # "baseline" =>
        /\ store[<<Canonical, Resource>>] \in {NoEntry, "current"}
        /\ site.stores => store[<<Canonical, Resource>>] = "current"

SweptSo ==
    \A i \in 1 .. SweptTo :
        \/ OriginCuts(Delimiters[i]) /\ Delimiters[i] \in Reported(FALSE)
        \/ ~OriginCuts(Delimiters[i]) /\ \E j \in DOMAIN reverse : reverse[j] = Delimiters[i]

DetouredSo ==
    \A i \in 1 .. DetouredTo : Traversals[i] \in site.collapses => mapping.origin[Traversals[i]] = "yes"

\* A form tried a second time has been stored the first time.
OrderedSo ==
    /\ pc \in {"repeat", "order", "again"} => store[<<token, Resource>>] = "current"
    /\ pc = "again" /\ Subject \in site.collapses => store[<<token, Detour(Subject, "cache")>>] = "current"
    /\ \A i \in 1 .. OrderedTo :
          Traversals[i] \in site.collapses /\ site.showsHits => mapping.cache[Traversals[i]] # "unknown"

\* A path the cache alone cuts has left its answer in the resource's entry.
CutByCache(d) == CacheCuts(d) /\ site.answers[d] = "other"
ReversedSo ==
    /\ pc = "confirm" /\ CutByCache(Subject) => suffixed = "other" /\ store[<<token, Resource>>] = "other"
    /\ \A i \in 1 .. ReversedTo : CutByCache(reverse[i]) => reverse[i] \in Reported(TRUE)

Thorough ==
    Undisturbed =>
        /\ PlainEntry
        /\ Primary => Affordable /\ SweptSo /\ DetouredSo
        /\ Primary /\ Whole => OrderedSo /\ ReversedSo

IInv ==
    /\ Basics
    /\ StoredAsAnswered
    /\ Apart
    /\ OrderSound
    /\ CanonicalClean
    /\ DelimitersGenuine
    /\ NormalizationGenuine
    /\ Thorough

-----------------------------------------------------------------------------
(* Paths, keys and answers *)

\* What the constants are, in the terms the proofs use.
LEMMA Constants ==
    /\ L \in Nat /\ \A i \in 1 .. L : Delimiters[i] \in Characters
    /\ Len(Traversals) = 2 /\ \A i \in 1 .. 2 : Traversals[i] \in TraversalForms
    /\ Traversals[1] # Traversals[2]
    /\ Tokens \subseteq Nat /\ Canonical \in Tokens /\ Tokens = 0 .. 2 * L + 2
<1>1. L \in Nat /\ \A i \in 1 .. L : Delimiters[i] \in Characters
  BY MapperAssumption DEF L
<1>2. Len(Traversals) = 2 /\ Traversals[1] = "encoded" /\ Traversals[2] = "plain"
  BY DEF Traversals
<1>3. \A i \in 1 .. 2 : i = 1 \/ i = 2
  OBVIOUS
<1>4. Tokens = 0 .. 2 * L + 2
  BY DEF Tokens, L
<1>. QED
  BY <1>1, <1>2, <1>3, <1>4 DEF TraversalForms, Canonical

\* What the origin answers to each kind of path.
LEMMA OriginAnswers ==
    ASSUME site \in Sites
    PROVE  /\ Answered(Resource) = "current"
           /\ Answered(Junk) = IF site.loose THEN "current" ELSE "other"
           /\ \A d \in Characters :
                 /\ Answered(Delimited(d)) = IF site.loose THEN "current" ELSE site.answers[d]
                 /\ Answered(Delimited(d)) \in {"current", "other", "failed"}
                 /\ OriginCuts(d) => Answered(Delimited(d)) = "current"
           /\ \A form \in TraversalForms, probe \in {"origin", "cache"} :
                 Answered(Detour(form, probe)) = IF form \in site.collapses THEN "current" ELSE "other"
           /\ \A path \in Paths : Answered(path) \in {"current", "other", "failed"}
<1>1. \A d \in Characters : site.answers[d] \in {"current", "other", "failed"}
  BY DEF Sites
<1>2. Answered(Resource) = "current"
  BY DEF Answered, Resource, Junk
<1>3. Answered(Junk) = IF site.loose THEN "current" ELSE "other"
  BY DEF Answered, Junk
<1>4. \A d \in Characters : Answered(Delimited(d)) = IF site.loose THEN "current" ELSE site.answers[d]
  BY DEF Answered, Delimited, Junk
<1>5. \A form \in TraversalForms, probe \in {"origin", "cache"} :
          Answered(Detour(form, probe)) = IF form \in site.collapses THEN "current" ELSE "other"
  BY DEF Answered, Detour, Junk
<1>. QED
  BY <1>1, <1>2, <1>3, <1>4, <1>5 DEF Paths, OriginCuts

\* The key of each kind of path.
LEMMA KeysOf ==
    ASSUME site \in Sites, NEW b \in Tokens
    PROVE  /\ KeyUnder(b, Resource) = <<IF Isolated(site, mode) THEN b ELSE Canonical, Resource>>
           /\ KeyUnder(b, Junk) = <<IF Isolated(site, mode) THEN b ELSE Canonical, Junk>>
           /\ \A form \in TraversalForms, probe \in {"origin", "cache"} :
                 KeyUnder(b, Detour(form, probe)) =
                     <<IF Isolated(site, mode) THEN b ELSE Canonical,
                       IF form \in site.resolves THEN Resource ELSE Detour(form, probe)>>
           /\ \A d \in Characters :
                 /\ KeyUnder(b, Delimited(d))[2] = IF d \in site.cuts THEN Resource ELSE Delimited(d)
                 /\ KeyUnder(b, Delimited(d))[1] \in {b, Canonical}
                 /\ CutBy(Delimited(d)) <=> d \in site.cuts
           /\ \A path \in Paths :
                 /\ KeyUnder(b, path) \in Keys
                 /\ KeyUnder(b, path)[2] \in {Resource, path}
                 /\ KeyUnder(b, path)[1] \in {b, Canonical}
                 /\ WellIsolated => KeyUnder(b, path)[1] = b
           /\ <<b, Resource>> \in Keys
<1>1. \A path : KeyUnder(b, path) = <<IF BusterKeyed(path) THEN b ELSE Canonical,
                                       IF CutBy(path) \/ ResolvedBy(path) THEN Resource ELSE path>>
  BY DEF KeyUnder
<1>2. /\ ~CutBy(Resource) /\ ~ResolvedBy(Resource) /\ ~CutBy(Junk) /\ ~ResolvedBy(Junk)
      /\ \A form, probe : ~CutBy(Detour(form, probe))
                          /\ (ResolvedBy(Detour(form, probe)) <=> form \in site.resolves)
      /\ \A d : (CutBy(Delimited(d)) <=> d \in site.cuts) /\ ~ResolvedBy(Delimited(d))
  BY DEF CutBy, ResolvedBy, Resource, Junk, Detour, Delimited
<1>3. \A path : ~CutBy(path) => BusterKeyed(path) = Isolated(site, mode)
  BY DEF BusterKeyed
<1>4. ASSUME WellIsolated, NEW path PROVE BusterKeyed(path)
  BY <1>4 DEF WellIsolated, BusterKeyed
<1>5. Resource \in Paths /\ Canonical \in Tokens
  BY Constants DEF Paths
<1>6. \A path \in Paths : KeyUnder(b, path) \in Keys
  BY <1>1, <1>5 DEF Keys
<1>7. KeyUnder(b, Resource) = <<IF Isolated(site, mode) THEN b ELSE Canonical, Resource>>
  BY <1>1, <1>2, <1>3
<1>8. KeyUnder(b, Junk) = <<IF Isolated(site, mode) THEN b ELSE Canonical, Junk>>
  BY <1>1, <1>2, <1>3
<1>9. \A form \in TraversalForms, probe \in {"origin", "cache"} :
          KeyUnder(b, Detour(form, probe)) =
              <<IF Isolated(site, mode) THEN b ELSE Canonical,
                IF form \in site.resolves THEN Resource ELSE Detour(form, probe)>>
  BY <1>1, <1>2, <1>3
<1>10. \A d \in Characters :
           /\ KeyUnder(b, Delimited(d))[2] = IF d \in site.cuts THEN Resource ELSE Delimited(d)
           /\ KeyUnder(b, Delimited(d))[1] \in {b, Canonical}
           /\ CutBy(Delimited(d)) <=> d \in site.cuts
  BY <1>1, <1>2
<1>11. \A path \in Paths :
          /\ KeyUnder(b, path)[2] \in {Resource, path}
          /\ KeyUnder(b, path)[1] \in {b, Canonical}
          /\ WellIsolated => KeyUnder(b, path)[1] = b
  BY <1>1, <1>4
<1>12. <<b, Resource>> \in Keys
  BY <1>5 DEF Keys
<1>. QED
  BY <1>6, <1>7, <1>8, <1>9, <1>10, <1>11, <1>12

-----------------------------------------------------------------------------
(* Requests *)

\* Every request is for one of the paths, about a subject of its stage.
LEMMA SendingPath ==
    ASSUME Basics, Sending
    PROVE  /\ Path \in Paths /\ n \in Nat \ {0}
           /\ pc \in {"sweep", "reverse", "confirm"} =>
                 Subject \in Characters /\ n <= Len(Subjects) /\ Len(Subjects) <= L
           /\ pc \in {"detour", "order", "again"} => Subject \in TraversalForms /\ n \in 1 .. 2
<1>1. n \in Nat \ {0} /\ reverse \in Seq(Characters) /\ Len(reverse) \in Nat
  BY DEF Basics, TypeOK
<1>2. CASE pc = "sweep"
  <2>1. Subjects = Delimiters /\ n <= Len(Delimiters)
    BY <1>2 DEF Sending, Stages, Subjects
  <2>2. Subject \in Characters
    BY <1>1, <2>1, Constants DEF Subject, L
  <2>. QED
    BY <1>1, <1>2, <2>1, <2>2, Constants DEF Path, Paths, L
<1>3. CASE pc \in {"reverse", "confirm"}
  <2>1. Subjects = reverse /\ n <= Len(reverse) /\ Len(reverse) <= L
    BY <1>3 DEF Sending, Stages, Subjects, Basics, Bookkeeping
  <2>2. Subject \in Characters
    BY <1>1, <2>1 DEF Subject
  <2>. QED
    BY <1>1, <1>3, <2>1, <2>2 DEF Path, Paths, ConfirmPath
<1>4. CASE pc \in {"detour", "order", "again"}
  <2>1. Subjects = Traversals /\ n <= 2
    BY <1>4, Constants DEF Sending, Stages, Subjects, Basics, Bookkeeping
  <2>2. Subject \in TraversalForms
    BY <1>1, <2>1, Constants DEF Subject
  <2>. QED
    BY <1>1, <1>4, <2>1, <2>2 DEF Path, Paths
<1>5. CASE pc \notin {"sweep", "reverse", "confirm", "detour", "order", "again"}
  BY <1>1, <1>5 DEF Path, Paths
<1>. QED
  BY <1>2, <1>3, <1>4, <1>5

\* Every request goes out under a buster there is, and is answered a response.
LEMMA SendingKey ==
    ASSUME Basics, Sending
    PROVE  /\ Buster \in Tokens /\ Key \in Keys /\ Key = KeyUnder(Buster, Path)
           /\ Reply \in Responses /\ Answered(Path) \in {"current", "other", "failed"}
           /\ NewBuster => token + 1 \in Tokens
<1>1. token \in Nat /\ n \in Nat \ {0} /\ token <= Made /\ L \in Nat /\ token \in Tokens
      /\ retries \in Nat
  BY Constants DEF Basics, TypeOK, Bookkeeping
<1>2. NewBuster => token + 1 \in Tokens
  <2>. SUFFICES ASSUME NewBuster PROVE token + 1 <= 2 * L + 2
    BY <1>1, Constants
  <2>1. pc \in {"sweep", "reverse"} => n <= L
    BY <1>1, SendingPath DEF Basics, TypeOK, Bookkeeping, Subjects
  <2>. QED
    BY <1>1, <2>1 DEF NewBuster, Made, Repeating
<1>3. Buster \in Tokens
  BY <1>1, <1>2, Constants DEF Buster
<1>4. Key = KeyUnder(Buster, Path) /\ Key \in Keys
  BY <1>3, SendingPath, KeysOf DEF Key, Basics, TypeOK
<1>5. Answered(Path) \in {"current", "other", "failed"}
  BY SendingPath, OriginAnswers DEF Basics, TypeOK
<1>6. Reply \in Responses
  BY <1>4, <1>5 DEF Reply, Answer, Responses, Basics, TypeOK
<1>. QED
  BY <1>2, <1>3, <1>4, <1>5, <1>6

\* A request changes the entry under its key only, to what the origin answers.
LEMMA RequestStores ==
    ASSUME Basics, Sending, Reaches
    PROVE  /\ store' \in [Keys -> Responses \cup {NoEntry}]
           /\ store'[Key] = IF store[Key] = NoEntry /\ site.stores THEN Answered(Path) ELSE store[Key]
           /\ \A key \in Keys : store'[key] # store[key] =>
                  key = Key /\ store[Key] = NoEntry /\ store'[Key] = Answered(Path)
<1>1. Key \in Keys /\ Answered(Path) \in Responses
  BY SendingKey DEF Responses
<1>2. store \in [Keys -> Responses \cup {NoEntry}]
  BY DEF Basics, TypeOK
<1>3. \/ store' = store /\ ~(store[Key] = NoEntry /\ site.stores)
      \/ store' = [store EXCEPT ![Key] = Answered(Path)] /\ store[Key] = NoEntry /\ site.stores
  BY DEF Reaches, Filled
<1>4. CASE store' = store /\ ~(store[Key] = NoEntry /\ site.stores)
  BY <1>1, <1>2, <1>4
<1>5. CASE store' = [store EXCEPT ![Key] = Answered(Path)] /\ store[Key] = NoEntry /\ site.stores
  <2>1. \A key \in Keys : store'[key] = IF key = Key THEN Answered(Path) ELSE store[key]
    BY <1>1, <1>2, <1>5
  <2>2. store' \in [Keys -> Responses \cup {NoEntry}]
    BY <1>1, <1>2, <1>5
  <2>. QED
    BY <1>1, <1>5, <2>1, <2>2
<1>. QED
  BY <1>3, <1>4, <1>5

-----------------------------------------------------------------------------
(* Types and bookkeeping *)

\* Types and bookkeeping hold at first, and after each kind of step.
LEMMA BasicsInit == Init => Basics
<1>. SUFFICES ASSUME Init PROVE Basics
  OBVIOUS
<1>1. store \in [Keys -> Responses \cup {NoEntry}]
  BY DEF Init, Responses
<1>2. NothingMapped \in Mappings
  BY DEF NothingMapped, Mappings
<1>3. TypeOK
  BY <1>1, <1>2, Constants, MapperAssumption DEF Init, TypeOK, Responses
<1>4. Bookkeeping
  BY <1>2, Constants DEF Init, Bookkeeping, Made, Busted, Canonical
<1>. QED
  BY <1>3, <1>4 DEF Basics

\* Where each stage leads.
LEMMA AfterStages ==
    /\ After["baseline"] = "failed" /\ After["junk"] = "detour" /\ After["sweep"] = "detour"
    /\ After["detour"] = "prime" /\ After["prime"] = "reverse" /\ After["repeat"] = "reverse"
    /\ After["order"] = "reverse" /\ After["reverse"] = "record"
  BY DEF After

LEMMA BasicsEndStage == Basics /\ EndStage => Basics'
<1>. SUFFICES ASSUME Basics, EndStage PROVE Basics'
  OBVIOUS
<1>1. TypeOK /\ Bookkeeping /\ n \in Nat \ {0} /\ L \in Nat /\ token \in Nat /\ Len(reverse) \in Nat
  BY Constants DEF Basics, TypeOK
<1>2. pc \in Stages /\ retries = 0 /\ pc' = After[pc] /\ n' = 1 /\ retries' = retries
      /\ token' = token /\ reverse' = reverse /\ UNCHANGED <<fixed, store, budget, base, suffixed, mapping, quirks, faults>>
  BY DEF EndStage, Go
<1>3. TypeOK'
  BY <1>1, <1>2, AfterStages DEF TypeOK, Stages, fixed
<1>4. token <= Made /\ (pc = "sweep" => n <= L + 1) /\ (pc = "reverse" => n <= L + 1)
  BY <1>1 DEF Bookkeeping
<1>5. (token <= Made)'
  BY <1>1, <1>2, <1>4, AfterStages DEF Made, Repeating, Stages, L
<1>6. Bookkeeping'
  BY <1>1, <1>2, <1>5, AfterStages DEF Bookkeeping, Busted, Stages, L
<1>. QED
  BY <1>3, <1>6 DEF Basics

LEMMA BasicsNext ==
    Basics /\ (SkipForm \/ NoSecondAttempt) => Basics'
<1>. SUFFICES ASSUME Basics, SkipForm \/ NoSecondAttempt PROVE Basics'
  OBVIOUS
<1>1. TypeOK /\ Bookkeeping /\ n \in Nat \ {0} /\ L \in Nat /\ token \in Nat /\ Len(reverse) \in Nat
  BY Constants DEF Basics, TypeOK
<1>2. pc \in {"order", "again"} /\ pc' = "order" /\ n' = n + 1
      /\ UNCHANGED <<fixed, store, budget, retries, token, base, suffixed, reverse, mapping, quirks, faults>>
  BY DEF SkipForm, NoSecondAttempt, NextSubject
<1>3. TypeOK'
  BY <1>1, <1>2 DEF TypeOK, Stages, fixed
<1>4. Bookkeeping'
  BY <1>1, <1>2 DEF Bookkeeping, Busted, Made, L
<1>. QED
  BY <1>3, <1>4 DEF Basics

LEMMA BasicsRest ==
    Basics /\ (Visit \/ Expire) => Basics'
<1>. SUFFICES ASSUME Basics, Visit \/ Expire PROVE Basics'
  OBVIOUS
<1>1. store' \in [Keys -> Responses \cup {NoEntry}] /\ faults' \in 0 .. MaxFaults
  <2>1. store \in [Keys -> Responses \cup {NoEntry}] /\ faults \in 0 .. MaxFaults
    BY DEF Basics, TypeOK
  <2>2. CASE Visit
    BY <2>1, <2>2 DEF Visit, Filled, Responses
  <2>3. CASE Expire
    <3>1. PICK key \in Keys : store' = [store EXCEPT ![key] = NoEntry]
      BY <2>3 DEF Expire
    <3>2. store' \in [Keys -> Responses \cup {NoEntry}]
      BY <2>1, <3>1
    <3>. QED
      BY <2>1, <2>3, <3>2, MapperAssumption DEF Expire
  <2>. QED
    BY <2>2, <2>3
<1>2. UNCHANGED <<fixed, pc, n, budget, retries, token, base, suffixed, reverse, mapping, quirks>>
  BY DEF Visit, Expire
<1>3. TypeOK'
  BY <1>1, <1>2 DEF Basics, TypeOK, fixed
<1>4. Bookkeeping'
  BY <1>2 DEF Basics, Bookkeeping, Busted, Made, Repeating
<1>. QED
  BY <1>3, <1>4 DEF Basics

\* What the store holds after recording has the type of a mapping, and holds all
\* it held before.
LEMMA Merging ==
    ASSUME NEW old \in Mappings, NEW new \in Mappings
    PROVE  /\ Merged(old, new) \in Mappings
           /\ old.delimiters \subseteq Merged(old, new).delimiters
           /\ \A form \in TraversalForms :
                 /\ old.origin[form] # "unknown" => Merged(old, new).origin[form] # "unknown"
                 /\ old.cache[form] # "unknown" => Merged(old, new).cache[form] # "unknown"
<1>1. /\ old.delimiters \subseteq Discrepancies /\ new.delimiters \subseteq Discrepancies
      /\ old.origin \in [TraversalForms -> {"unknown", "yes", "no"}]
      /\ new.origin \in [TraversalForms -> {"unknown", "yes", "no"}]
      /\ old.cache \in [TraversalForms -> {"unknown", "before", "after"}]
      /\ new.cache \in [TraversalForms -> {"unknown", "before", "after"}]
  BY DEF Mappings
<1>2. Latest(old.origin, new.origin) \in [TraversalForms -> {"unknown", "yes", "no"}]
  BY <1>1 DEF Latest
<1>3. Latest(old.cache, new.cache) \in [TraversalForms -> {"unknown", "before", "after"}]
  BY <1>1 DEF Latest
<1>4. \A form \in TraversalForms :
          /\ old.origin[form] # "unknown" => Latest(old.origin, new.origin)[form] # "unknown"
          /\ old.cache[form] # "unknown" => Latest(old.cache, new.cache)[form] # "unknown"
  BY <1>1 DEF Latest
<1>. DEFINE both == old.delimiters \cup
         {entry \in new.delimiters : \A known \in old.delimiters :
              <<known.delimiter, known.cacheOnly>> # <<entry.delimiter, entry.cacheOnly>>}
<1>5. both \subseteq Discrepancies /\ old.delimiters \subseteq both
  BY <1>1
<1>6. Merged(old, new) = [delimiters |-> both, origin |-> Latest(old.origin, new.origin),
                          cache |-> Latest(old.cache, new.cache)]
  BY DEF Merged
<1>. HIDE DEF both
<1>7. Merged(old, new) \in Mappings
  BY <1>2, <1>3, <1>5, <1>6 DEF Mappings
<1>. QED
  BY <1>4, <1>5, <1>6, <1>7

LEMMA BasicsRecord == Basics /\ Record => Basics'
<1>. SUFFICES ASSUME Basics, Record PROVE Basics'
  OBVIOUS
<1>1. quirks' \in Mappings
  BY Merging DEF Basics, TypeOK, Record
<1>2. TypeOK'
  BY <1>1 DEF Basics, TypeOK, Record, fixed
<1>3. Bookkeeping'
  BY DEF Basics, Bookkeeping, Record, Busted, Made, Repeating
<1>. QED
  BY <1>2, <1>3 DEF Basics

\* What a request costs, and the busters there are after it.
LEMMA SentKeeps ==
    ASSUME Basics, Sent
    PROVE  /\ token' \in Tokens /\ token \in Nat /\ token <= token'
           /\ budget' \in 0 .. limit
           /\ pc \in {"prime", "reverse"} => budget' >= 1
           /\ Busted \/ NewBuster => token' > Canonical
           /\ token' <= CASE pc = "baseline" -> 0
                          [] pc = "junk" -> 1
                          [] pc = "sweep" -> n + 1
                          [] pc = "detour" -> L + 1
                          [] pc \in {"prime", "repeat", "order", "again"} -> L + 2
                          [] pc \in {"reverse", "confirm"} -> L + 2 + n
                          [] OTHER -> 2 * L + 2
           /\ pc = "sweep" => n <= L /\ Len(reverse) <= n - 1
           /\ pc \in {"reverse", "confirm"} => n <= Len(reverse)
           /\ pc \in {"order", "again"} => n <= 2
<1>1. /\ TypeOK /\ Bookkeeping /\ n \in Nat \ {0} /\ L \in Nat /\ token \in Tokens /\ token \in Nat
      /\ retries \in Nat /\ Len(reverse) \in Nat /\ budget \in 0 .. limit /\ limit \in Nat
  BY Constants, MapperAssumption DEF Basics, TypeOK
<1>2. Sending /\ token' = IF NewBuster THEN token + 1 ELSE token
  BY DEF Sent
<1>3. token' \in Tokens /\ token <= token'
  BY <1>1, <1>2, SendingKey, Constants
<1>4. /\ pc # "baseline" /\ retries = 0 => budget >= 1
      /\ pc \in {"prime", "reverse"} /\ retries = 0 => budget >= 2
  BY <1>1, <1>2 DEF Sending, Stages, Affords, AffordsOrder, Bookkeeping
<1>5. budget' \in 0 .. limit /\ (pc \in {"prime", "reverse"} => budget' >= 1)
  BY <1>1, <1>4 DEF Sent, Paid, Bookkeeping
<1>6. Busted \/ NewBuster => token' > Canonical
  BY <1>1, <1>2 DEF Bookkeeping, Canonical
<1>7. /\ pc = "sweep" => n <= L /\ Len(reverse) <= n - 1
      /\ pc \in {"reverse", "confirm"} => n <= Len(reverse)
      /\ pc \in {"order", "again"} => n <= 2
  <2>1. pc = "sweep" => Subjects = Delimiters
    BY DEF Subjects
  <2>2. pc \in {"reverse", "confirm"} => Subjects = reverse
    BY DEF Subjects
  <2>. QED
    BY <1>1, <1>2, <2>1, <2>2, SendingPath DEF Bookkeeping
<1>8. token <= Made
  BY <1>1 DEF Bookkeeping
<1>9. token' <= CASE pc = "baseline" -> 0
                  [] pc = "junk" -> 1
                  [] pc = "sweep" -> n + 1
                  [] pc = "detour" -> L + 1
                  [] pc \in {"prime", "repeat", "order", "again"} -> L + 2
                  [] pc \in {"reverse", "confirm"} -> L + 2 + n
                  [] OTHER -> 2 * L + 2
  BY <1>1, <1>2, <1>8 DEF Made, Repeating, NewBuster
<1>. QED
  BY <1>1, <1>3, <1>5, <1>6, <1>7, <1>9

LEMMA BasicsRequestFails == Basics /\ RequestFails => Basics'
<1>. SUFFICES ASSUME Basics, RequestFails PROVE Basics'
  OBVIOUS
<1>1. /\ TypeOK /\ Bookkeeping /\ n \in Nat \ {0} /\ L \in Nat /\ token \in Tokens /\ token \in Nat
      /\ retries \in Nat /\ retries \in 0 .. MaxRetries /\ Len(reverse) \in Nat /\ faults \in 0 .. MaxFaults
  BY Constants, MapperAssumption DEF Basics, TypeOK
<1>2. /\ Sent /\ UNCHANGED <<fixed, base, suffixed, reverse, mapping, quirks>>
      /\ \/ retries < MaxRetries /\ retries' = retries + 1 /\ UNCHANGED <<pc, n>>
         \/ GiveUp /\ retries' = 0
      /\ faults < MaxFaults /\ faults' = faults + 1
  BY DEF RequestFails
<1>3. store' \in [Keys -> Responses \cup {NoEntry}]
  BY RequestStores, <1>2 DEF RequestFails, Sent, Basics, TypeOK
<1>4. retries' \in 0 .. MaxRetries /\ faults' \in 0 .. MaxFaults
  BY <1>1, <1>2, MapperAssumption
<1>5. pc # "failed" /\ pc # "done" /\ pc # "record"
  BY <1>2 DEF Sent, Sending, Stages
<1>6. CASE retries < MaxRetries /\ retries' = retries + 1 /\ UNCHANGED <<pc, n>>
  <2>1. TypeOK'
    BY <1>1, <1>2, <1>3, <1>4, <1>6, SentKeeps DEF TypeOK, fixed
  <2>2. (token <= Made)'
    BY <1>1, <1>2, <1>6, SentKeeps DEF Made, Repeating, L
  <2>3. Busted' => token' > Canonical
    BY <1>1, <1>2, <1>6, SentKeeps DEF Busted, NewBuster
  <2>4. Bookkeeping'
    <3>1. (Len(reverse) <= L)' /\ (pc' \in {"repeat", "confirm"} => retries' # 0)
      BY <1>1, <1>2, <1>6 DEF Bookkeeping, L
    <3>. QED
      BY <1>1, <1>2, <1>6, <2>2, <2>3, <3>1, SentKeeps DEF Bookkeeping, L
  <2>. QED
    BY <2>1, <2>4 DEF Basics
<1>7. CASE GiveUp /\ retries' = 0
  <2>1. /\ pc' = CASE pc = "baseline" -> "failed" [] pc = "junk" -> "detour" [] pc = "sweep" -> "sweep"
                   [] pc = "detour" -> "detour" [] pc \in {"prime", "repeat", "reverse", "confirm"} -> "reverse"
                   [] OTHER -> "order"
        /\ n' = IF pc \in {"baseline", "junk", "prime", "repeat"} THEN 1 ELSE n + 1
    BY <1>5, <1>7, <1>2, AfterStages DEF GiveUp, Go, NextSubject, Sent, Sending, Stages
  <2>2. TypeOK'
    BY <1>1, <1>2, <1>3, <1>4, <1>5, <2>1, SentKeeps, SMTT(20) DEF TypeOK, Stages, fixed
  <2>3. (token <= Made)'
    BY <1>1, <1>2, <1>5, <1>7, <2>1, SentKeeps, SMTT(20) DEF Made, Repeating, L, Sent, Sending, Stages
  <2>4. Busted' => token' > Canonical
    <3>1. Busted' => pc \in {"order", "again"}
      BY <1>2, <1>5, <1>7, <2>1 DEF Busted, Sent, Sending, Stages
    <3>. QED
      BY <1>2, <3>1, SentKeeps DEF Busted
  <2>5. Bookkeeping'
    <3>1. pc' \notin {"baseline", "junk", "again", "confirm", "prime", "repeat"}
      BY <1>5, <2>1
    <3>2. (Len(reverse) <= L)'
      BY <1>1, <1>2 DEF Bookkeeping, L
    <3>3. pc' = "sweep" => n' <= L + 1 /\ Len(reverse) <= n' - 1
      BY <1>1, <1>2, <2>1, SentKeeps
    <3>4. pc' = "reverse" => n' <= Len(reverse) + 1
      BY <1>1, <1>2, <2>1, SentKeeps
    <3>. QED
      BY <1>2, <1>7, <2>3, <2>4, <3>1, <3>2, <3>3, <3>4 DEF Bookkeeping, L
  <2>. QED
    BY <2>2, <2>5 DEF Basics
<1>. QED
  BY <1>2, <1>6, <1>7

LEMMA BasicsBusterFails == Basics /\ BusterFails => Basics'
<1>. SUFFICES ASSUME Basics, BusterFails PROVE Basics'
  OBVIOUS
<1>1. /\ TypeOK /\ Bookkeeping /\ n \in Nat \ {0} /\ L \in Nat /\ token \in Nat
      /\ Len(reverse) \in Nat /\ faults \in 0 .. MaxFaults /\ budget \in 0 .. limit /\ limit \in Nat
  BY Constants, MapperAssumption DEF Basics, TypeOK
<1>2. /\ Sending /\ pc \in {"junk", "sweep", "prime", "reverse"} /\ retries = 0
      /\ budget' = IF pc \in {"junk", "sweep"} THEN budget - 1 ELSE budget
      /\ GiveUp /\ faults < MaxFaults /\ faults' = faults + 1
      /\ UNCHANGED <<fixed, store, retries, token, base, suffixed, reverse, mapping, quirks>>
  BY DEF BusterFails, NewBuster
<1>3. budget' \in 0 .. limit
  BY <1>1, <1>2 DEF Sending, Stages, Affords
<1>4. /\ pc' = CASE pc = "junk" -> "detour" [] pc = "sweep" -> "sweep" [] OTHER -> "reverse"
      /\ n' = IF pc \in {"junk", "prime"} THEN 1 ELSE n + 1
  BY <1>2, AfterStages DEF GiveUp, Go, NextSubject
<1>5. (pc = "sweep" => n <= L) /\ (pc = "reverse" => n <= Len(reverse))
  <2>1. pc = "sweep" => Subjects = Delimiters
    BY DEF Subjects
  <2>2. pc = "reverse" => Subjects = reverse
    BY DEF Subjects
  <2>. QED
    BY <1>2, <2>1, <2>2, SendingPath DEF L
<1>6. TypeOK'
  BY <1>1, <1>2, <1>3, <1>4, MapperAssumption DEF TypeOK, Stages, fixed
<1>7. (token <= Made)'
  BY <1>1, <1>2, <1>4, SMTT(20) DEF Bookkeeping, Made, Repeating, L
<1>8. Bookkeeping'
  BY <1>1, <1>2, <1>4, <1>5, <1>7 DEF Bookkeeping, Busted, L
<1>. QED
  BY <1>6, <1>8 DEF Basics

\* A discrepancy, or a verdict on a form, more.
LEMMA FoundMapped ==
    ASSUME Basics, NEW delimiter \in Characters, NEW cacheOnly \in BOOLEAN, Found(delimiter, cacheOnly)
    PROVE  mapping' \in Mappings
<1>1. site.stores \in BOOLEAN /\ mapping \in Mappings
  BY DEF Basics, TypeOK, Sites
<1>2. [delimiter |-> delimiter, cacheOnly |-> cacheOnly, cacheable |-> cacheOnly \/ site.stores] \in Discrepancies
  BY <1>1 DEF Discrepancies
<1>. QED
  BY <1>1, <1>2 DEF Found, Mappings

\* What every answered request leaves well-typed.
LEMMA AnswersKeep ==
    ASSUME Basics, Answers
    PROVE  /\ Sending /\ Sent /\ Reaches /\ Reply \in Responses
           /\ store' \in [Keys -> Responses \cup {NoEntry}]
           /\ token' \in Tokens /\ budget' \in 0 .. limit /\ retries' = 0
           /\ UNCHANGED <<site, mode, limit, quirks, faults>>
           /\ site \in Sites /\ mode \in Modes /\ limit \in 0 .. MaxAggressiveRequests
           /\ quirks \in Mappings /\ faults \in 0 .. MaxFaults /\ 0 \in 0 .. MaxRetries
           /\ base \in Responses /\ suffixed \in Responses /\ mapping \in Mappings
           /\ reverse \in Seq(Characters) /\ Len(reverse) \in Nat /\ Len(reverse) <= L
           /\ n \in Nat \ {0} /\ L \in Nat
           /\ pc \in {"junk", "sweep", "prime", "reverse", "repeat", "order", "again", "confirm"} =>
                 token' > Canonical
<1>1. Sent /\ Sending /\ Reaches /\ retries' = 0 /\ UNCHANGED <<site, mode, limit, quirks, faults>>
  BY DEF Answers, Sent, fixed
<1>2. Reply \in Responses /\ store' \in [Keys -> Responses \cup {NoEntry}]
  BY <1>1, SendingKey, RequestStores
<1>3. token' \in Tokens /\ budget' \in 0 .. limit
  BY <1>1, SentKeeps
<1>4. /\ site \in Sites /\ mode \in Modes /\ limit \in 0 .. MaxAggressiveRequests
      /\ quirks \in Mappings /\ faults \in 0 .. MaxFaults
      /\ base \in Responses /\ suffixed \in Responses /\ mapping \in Mappings
      /\ reverse \in Seq(Characters) /\ n \in Nat \ {0} /\ retries \in Nat
  BY MapperAssumption DEF Basics, TypeOK
<1>5. Len(reverse) \in Nat /\ Len(reverse) <= L /\ L \in Nat /\ 0 \in 0 .. MaxRetries
  BY <1>4, Constants, MapperAssumption DEF Basics, Bookkeeping
<1>6. pc \in {"junk", "sweep", "prime", "reverse", "repeat", "order", "again", "confirm"} => Busted \/ NewBuster
  BY <1>4 DEF Busted, NewBuster
<1>7. pc \in {"junk", "sweep", "prime", "reverse", "repeat", "order", "again", "confirm"} => token' > Canonical
  BY <1>1, <1>6, SentKeeps
<1>. QED
  BY <1>1, <1>2, <1>3, <1>4, <1>5, <1>7

LEMMA BasicsFirstRequests ==
    Basics /\ (Baseline \/ JunkRequest \/ PrimeRequest \/ RepeatRequest) => Basics'
<1>. SUFFICES ASSUME Basics, Baseline \/ JunkRequest \/ PrimeRequest \/ RepeatRequest PROVE Basics'
  OBVIOUS
<1>1. /\ Answers /\ n' = 1 /\ UNCHANGED <<suffixed, reverse, mapping>>
      /\ \/ pc = "baseline" /\ pc' = "junk" /\ base' = Reply
         \/ pc = "junk" /\ pc' \in {"detour", "sweep"} /\ base' = base
         \/ pc = "prime" /\ pc' = "repeat" /\ base' = base
         \/ pc = "repeat" /\ pc' \in {"order", "reverse"} /\ base' = base
  BY AfterStages DEF Baseline, JunkRequest, JunkServed, PrimeRequest, RepeatRequest, Go
<1>2. TypeOK'
  BY <1>1, AnswersKeep DEF TypeOK, Stages
<1>3. (token <= Made)'
  <2>1. n \in Nat /\ L \in Nat /\ token' \in Nat /\ retries' = 0
    BY <1>1, AnswersKeep, Constants
  <2>2. token' <= CASE pc = "baseline" -> 0 [] pc = "junk" -> 1 [] OTHER -> L + 2
    BY <1>1, AnswersKeep, SentKeeps
  <2>. QED
    BY <1>1, <2>1, <2>2 DEF Made, Repeating, L
<1>4. Busted' => token' > Canonical
  BY <1>1, AnswersKeep DEF Busted
<1>5. pc' \in {"junk", "sweep"} => reverse' = <<>>
  BY <1>1 DEF Basics, Bookkeeping
<1>6. pc' \in {"repeat", "confirm"} => budget' >= 1
  BY <1>1, AnswersKeep, SentKeeps
<1>. QED
  BY <1>1, <1>2, <1>3, <1>4, <1>5, <1>6, AnswersKeep DEF Basics, Bookkeeping, L

LEMMA BasicsSweepRequest == Basics /\ SweepRequest => Basics'
<1>. SUFFICES ASSUME Basics, SweepRequest PROVE Basics'
  OBVIOUS
<1>1. /\ Answers /\ pc = "sweep" /\ pc' = "sweep" /\ n' = n + 1 /\ UNCHANGED <<base, suffixed>>
      /\ \/ Found(Subject, FALSE) /\ UNCHANGED reverse
         \/ reverse' = Append(reverse, Subject) /\ UNCHANGED mapping
  BY DEF SweepRequest, NextSubject
<1>2. Subject \in Characters
  BY <1>1, AnswersKeep, SendingPath
<1>3. mapping' \in Mappings
  BY <1>1, <1>2, FoundMapped, AnswersKeep
<1>4. reverse' \in Seq(Characters) /\ Len(reverse') <= n
  <2>1. Len(reverse) <= n - 1 /\ reverse \in Seq(Characters) /\ n \in Nat /\ Len(reverse) \in Nat
    BY <1>1, AnswersKeep, SentKeeps
  <2>2. Append(reverse, Subject) \in Seq(Characters) /\ Len(Append(reverse, Subject)) = Len(reverse) + 1
    <3>1. \A s \in Seq(Characters), c \in Characters :
              Append(s, c) \in Seq(Characters) /\ Len(Append(s, c)) = Len(s) + 1
      OBVIOUS
    <3>. QED
      BY <1>2, <2>1, <3>1
  <2>3. CASE reverse' = reverse
    BY <2>1, <2>3
  <2>4. CASE reverse' = Append(reverse, Subject)
    BY <2>1, <2>2, <2>4
  <2>. QED
    BY <1>1, <2>3, <2>4
<1>5. TypeOK'
  BY <1>1, <1>3, <1>4, AnswersKeep DEF TypeOK, Stages
<1>6. (token <= Made)'
  BY <1>1, AnswersKeep, SentKeeps DEF Made, Repeating
<1>7. n <= L /\ Len(reverse') \in Nat
  BY <1>1, <1>4, AnswersKeep, SentKeeps
<1>8. Bookkeeping'
  BY <1>1, <1>4, <1>6, <1>7, AnswersKeep DEF Bookkeeping, Busted, L
<1>. QED
  BY <1>5, <1>8 DEF Basics

\* A verdict on a form fits the mapping.
LEMMA FormMapped ==
    ASSUME Basics, NEW form \in TraversalForms
    PROVE  /\ \A verdict \in {"yes", "no"} : [mapping EXCEPT !.origin[form] = verdict] \in Mappings
           /\ \A verdict \in {"before", "after"} : [mapping EXCEPT !.cache[form] = verdict] \in Mappings
  BY DEF Basics, TypeOK, Mappings

LEMMA BasicsDetourRequest == Basics /\ DetourRequest => Basics'
<1>. SUFFICES ASSUME Basics, DetourRequest PROVE Basics'
  OBVIOUS
<1>1. /\ Answers /\ pc = "detour" /\ pc' = "detour" /\ n' = n + 1 /\ UNCHANGED <<base, suffixed, reverse>>
      /\ mapping' = [mapping EXCEPT !.origin[Subject] = IF Reply = base THEN "yes" ELSE "no"]
  BY DEF DetourRequest, NextSubject
<1>2. mapping' \in Mappings
  BY <1>1, AnswersKeep, SendingPath, FormMapped
<1>3. TypeOK'
  BY <1>1, <1>2, AnswersKeep DEF TypeOK, Stages
<1>4. (token <= Made)'
  BY <1>1, AnswersKeep, SentKeeps DEF Made
<1>5. Bookkeeping'
  BY <1>1, <1>4, AnswersKeep DEF Bookkeeping, Busted, L
<1>. QED
  BY <1>3, <1>5 DEF Basics

LEMMA BasicsOrderRequest == Basics /\ OrderRequest => Basics'
<1>. SUFFICES ASSUME Basics, OrderRequest PROVE Basics'
  OBVIOUS
<1>1. /\ Answers /\ pc \in {"order", "again"} /\ UNCHANGED <<base, suffixed, reverse>>
      /\ (pc' = "order" /\ n' = n + 1) \/ (pc' = "again" /\ n' = n)
  <2>1. Answers /\ pc \in {"order", "again"} /\ UNCHANGED <<base, suffixed, reverse>>
    BY DEF OrderRequest
  <2>2. ASSUME Reply = base /\ Hit PROVE pc' = "order" /\ n' = n + 1
    BY <2>1, <2>2 DEF OrderRequest, NextSubject
  <2>3. ASSUME ~(Reply = base /\ Hit)
        PROVE  (pc' = "order" /\ n' = n + 1) \/ (pc' = "again" /\ n' = n)
    BY <2>1, <2>3 DEF OrderRequest, NextSubject
  <2>. QED
    BY <2>1, <2>2, <2>3
<1>2. mapping' \in Mappings
  <2>1. Subject \in TraversalForms /\ OrderShown[pc] \in {"before", "after"}
    BY <1>1, AnswersKeep, SendingPath DEF OrderShown
  <2>2. mapping' = mapping \/ mapping' = [mapping EXCEPT !.cache[Subject] = OrderShown[pc]]
    BY DEF OrderRequest
  <2>. QED
    BY <2>1, <2>2, FormMapped, AnswersKeep, <1>1
<1>3. TypeOK'
  BY <1>1, <1>2, AnswersKeep DEF TypeOK, Stages
<1>4. (token <= Made)'
  BY <1>1, AnswersKeep, SentKeeps DEF Made
<1>5. Bookkeeping'
  BY <1>1, <1>4, AnswersKeep, SentKeeps DEF Bookkeeping, Busted, L
<1>. QED
  BY <1>3, <1>5 DEF Basics

LEMMA BasicsReverseRequest == Basics /\ ReverseRequest => Basics'
<1>. SUFFICES ASSUME Basics, ReverseRequest PROVE Basics'
  OBVIOUS
<1>1. /\ Answers /\ pc = "reverse" /\ UNCHANGED <<base, reverse, mapping>>
      /\ \/ pc' = "confirm" /\ suffixed' = Reply /\ n' = n
         \/ pc' = "reverse" /\ suffixed' = suffixed /\ n' = n + 1
  BY DEF ReverseRequest, NextSubject
<1>2. TypeOK'
  BY <1>1, AnswersKeep DEF TypeOK, Stages
<1>3. (token <= Made)'
  BY <1>1, AnswersKeep, SentKeeps DEF Made, Repeating
<1>4. Bookkeeping'
  <2>1. n <= Len(reverse) /\ budget' >= 1 /\ Len(reverse) <= L /\ n \in Nat /\ Len(reverse) \in Nat
        /\ token' > Canonical /\ retries' = 0
    BY <1>1, AnswersKeep, SentKeeps
  <2>. QED
    BY <1>1, <1>3, <2>1 DEF Bookkeeping, L
<1>. QED
  BY <1>2, <1>4 DEF Basics

LEMMA BasicsConfirmRequest == Basics /\ ConfirmRequest => Basics'
<1>. SUFFICES ASSUME Basics, ConfirmRequest PROVE Basics'
  OBVIOUS
<1>1. /\ Answers /\ pc = "confirm" /\ UNCHANGED <<base, suffixed, reverse>>
      /\ pc' = "reverse" /\ n' = n + 1 /\ (Found(Subject, TRUE) \/ mapping' = mapping)
  BY DEF ConfirmRequest, NextSubject
<1>2. mapping' \in Mappings
  BY <1>1, AnswersKeep, SendingPath, FoundMapped
<1>3. TypeOK'
  BY <1>1, <1>2, AnswersKeep DEF TypeOK, Stages
<1>4. (token <= Made)'
  BY <1>1, AnswersKeep, SentKeeps DEF Made, Repeating
<1>5. Bookkeeping'
  BY <1>1, <1>4, AnswersKeep, SentKeeps DEF Bookkeeping, Busted, L
<1>. QED
  BY <1>3, <1>5 DEF Basics

LEMMA BasicsStep == Basics /\ [Next]_vars => Basics'
<1>1. Basics /\ UNCHANGED vars => Basics'
  BY DEF Basics, TypeOK, Bookkeeping, Made, Busted, Repeating, vars, fixed
<1>. QED
  BY <1>1, BasicsEndStage, BasicsNext, BasicsRest, BasicsRecord, BasicsRequestFails, BasicsBusterFails,
     BasicsFirstRequests, BasicsSweepRequest, BasicsDetourRequest, BasicsOrderRequest,
     BasicsReverseRequest, BasicsConfirmRequest
     DEF Next, Mapper, Requests

-----------------------------------------------------------------------------
(* The store *)

\* An entry changes by expiring, by a visit to the resource or by the request
\* sent, which stores what the origin answers; the site stays the same.
LEMMA StoreStep ==
    ASSUME Basics, [Next]_vars
    PROVE  /\ UNCHANGED <<site, mode, limit>>
           /\ \A key \in Keys : store'[key] # store[key] =>
                 \/ store'[key] = NoEntry /\ faults' > 0
                 \/ key = <<Canonical, Resource>> /\ store[key] = NoEntry /\ store'[key] = "current"
                 \/ Sent /\ key = Key /\ store[key] = NoEntry /\ store'[key] = Answered(Path)
<1>. DEFINE Explained == \A key \in Keys : store'[key] # store[key] =>
                 \/ store'[key] = NoEntry /\ faults' > 0
                 \/ key = <<Canonical, Resource>> /\ store[key] = NoEntry /\ store'[key] = "current"
                 \/ Sent /\ key = Key /\ store[key] = NoEntry /\ store'[key] = Answered(Path)
<1>1. UNCHANGED <<site, mode, limit>>
  BY DEF Next, Mapper, Requests, vars, fixed, EndStage, SkipForm, NoSecondAttempt, RequestFails,
         BusterFails, Record, Visit, Expire, Answers, Baseline, JunkRequest, SweepRequest, DetourRequest,
         PrimeRequest, RepeatRequest, OrderRequest, ReverseRequest, ConfirmRequest
<1>2. CASE store' = store
  BY <1>1, <1>2
<1>3. CASE Sent /\ Reaches
  BY <1>1, <1>3, RequestStores DEF Sent
<1>4. CASE Visit
  <2>1. store \in [Keys -> Responses \cup {NoEntry}]
    BY DEF Basics, TypeOK
  <2>2. \A key \in Keys : store'[key] # store[key] =>
            key = <<Canonical, Resource>> /\ store[key] = NoEntry /\ store'[key] = "current"
    BY <1>4, <2>1 DEF Visit, Filled
  <2>. QED
    BY <1>1, <2>2
<1>5. CASE Expire
  <2>1. PICK gone \in Keys : store' = [store EXCEPT ![gone] = NoEntry]
    BY <1>5 DEF Expire
  <2>2. store \in [Keys -> Responses \cup {NoEntry}]
    BY DEF Basics, TypeOK
  <2>3. \A key \in Keys : store'[key] # store[key] => store'[key] = NoEntry
    BY <2>1, <2>2
  <2>4. faults' > 0
    BY <1>5, MapperAssumption DEF Expire, Basics, TypeOK
  <2>. QED
    BY <1>1, <2>3, <2>4
<1>6. Requests => Sent /\ Reaches
  BY DEF Requests, Answers, Baseline, JunkRequest, SweepRequest, DetourRequest,
         PrimeRequest, RepeatRequest, OrderRequest, ReverseRequest, ConfirmRequest
<1>7. RequestFails => Sent /\ (Reaches \/ store' = store)
  BY DEF RequestFails
<1>8. EndStage \/ SkipForm \/ NoSecondAttempt \/ BusterFails \/ Record \/ UNCHANGED vars => store' = store
  BY DEF EndStage, SkipForm, NoSecondAttempt, BusterFails, Record, vars
<1>. QED
  BY <1>2, <1>3, <1>4, <1>5, <1>6, <1>7, <1>8 DEF Next, Mapper

\* The kinds of path are told apart.
LEMMA PathKinds ==
    /\ Resource # Junk
    /\ \A d : Delimited(d) # Resource /\ Delimited(d) # Junk
    /\ \A form, probe : Detour(form, probe) # Resource /\ Detour(form, probe) # Junk
    /\ \A d, form, probe : Delimited(d) # Detour(form, probe)
    /\ \A form, other, probe, last : Detour(form, probe) = Detour(other, last) => form = other /\ probe = last
    /\ \A d, e : Delimited(d) = Delimited(e) => d = e
  BY DEF Resource, Junk, Delimited, Detour

\* Nothing but the resource is stored at first, and the store gains only answers.
LEMMA StoredInit == Init => StoredAsAnswered
<1>1. \A key \in Keys : Init => (key[2] # Resource => store[key] = NoEntry)
  BY DEF Init, Keys
<1>2. Init => <<Canonical, Resource>> \in Keys
  BY Constants DEF Keys, Paths
<1>. QED
  BY <1>1, <1>2 DEF Init, StoredAsAnswered

LEMMA StoredStep == Basics /\ StoredAsAnswered /\ [Next]_vars => StoredAsAnswered'
<1>. SUFFICES ASSUME Basics, StoredAsAnswered, [Next]_vars PROVE StoredAsAnswered'
  OBVIOUS
<1>1. \A path : Answered(path)' = Answered(path)
  BY StoreStep DEF Answered
<1>2. ASSUME Sent PROVE Key[2] \in {Resource, Path}
  BY <1>2, SendingPath, SendingKey, KeysOf DEF Sent, Basics, TypeOK
<1>3. ASSUME NEW key \in Keys, key[2] # Resource
      PROVE  store'[key] \in {NoEntry, Answered(key[2])}
  <2>1. CASE store'[key] = store[key]
    BY <1>3, <2>1 DEF StoredAsAnswered
  <2>2. CASE store'[key] = NoEntry
    BY <2>2
  <2>3. CASE Sent /\ key = Key /\ store'[key] = Answered(Path)
    BY <1>2, <1>3, <2>3
  <2>4. key # <<Canonical, Resource>>
    BY <1>3
  <2>. QED
    BY <2>1, <2>2, <2>3, <2>4, StoreStep
<1>4. <<Canonical, Resource>> \in Keys
  BY Constants DEF Keys, Paths
<1>5. ASSUME Sent, pc = "baseline"
      PROVE  Key = <<Canonical, Resource>> /\ Answered(Path) = "current" /\ Path = Resource
  <2>1. Buster = Canonical /\ Path = Resource
    BY <1>5 DEF Buster, Path
  <2>2. Key = <<Canonical, Resource>>
    BY <1>5, <2>1, Constants, SendingKey, KeysOf DEF Sent, Basics, TypeOK
  <2>. QED
    BY <2>1, <2>2, OriginAnswers DEF Basics, TypeOK
<1>6. pc' = "baseline" => store'[<<Canonical, Resource>>] \in {NoEntry, "current", "former"}
  <2>. SUFFICES ASSUME pc' = "baseline" PROVE store'[<<Canonical, Resource>>] \in {NoEntry, "current", "former"}
    OBVIOUS
  <2>1. pc = "baseline"
    BY AfterStages DEF Next, Mapper, Requests, vars, EndStage, SkipForm, NoSecondAttempt, RequestFails,
         BusterFails, GiveUp, Record, Visit, Expire, Baseline, JunkRequest, JunkServed, SweepRequest,
         DetourRequest, PrimeRequest, RepeatRequest, OrderRequest, ReverseRequest, ConfirmRequest,
         Go, NextSubject, Stages, NewBuster, Sent, Sending
  <2>. QED
    BY <1>4, <1>5, <2>1, StoreStep DEF StoredAsAnswered
<1>7. base' \in {"current", "former"}
  <2>1. CASE Baseline
    <3>1. Sent /\ pc = "baseline" /\ base' = Reply
      BY <2>1 DEF Baseline, Answers
    <3>. QED
      BY <1>5, <3>1 DEF Reply, Answer, StoredAsAnswered
  <2>2. CASE ~Baseline
    <3>1. base' = base
      BY <2>2 DEF Next, Mapper, Requests, vars, EndStage, SkipForm, NoSecondAttempt, RequestFails,
         BusterFails, Record, Visit, Expire, JunkRequest, SweepRequest, DetourRequest,
         PrimeRequest, RepeatRequest, OrderRequest, ReverseRequest, ConfirmRequest
    <3>. QED
      BY <3>1 DEF StoredAsAnswered
  <2>. QED
    BY <2>1, <2>2
<1>. QED
  BY <1>1, <1>3, <1>6, <1>7 DEF StoredAsAnswered

\* Only the baseline and the detours go out without a buster.
LEMMA BusterUsed ==
    ASSUME Basics, Sending
    PROVE  /\ pc \in {"baseline", "detour"} => Buster = Canonical
           /\ pc \notin {"baseline", "detour"} => Buster > Canonical /\ Buster >= token
           /\ Buster \in Nat /\ token \in Nat
<1>1. token \in Nat /\ retries \in Nat /\ Bookkeeping
  BY Constants DEF Basics, TypeOK
<1>2. pc \notin {"baseline", "detour"} => Busted \/ NewBuster
  BY <1>1 DEF Sending, Stages, Busted, NewBuster
<1>3. Canonical = 0
  BY DEF Canonical
<1>. QED
  BY <1>1, <1>2, <1>3 DEF Buster, Bookkeeping

\* Of the requests without a buster, none leaves another answer in the resource's entry.
LEMMA CanonicalInit == Init => CanonicalClean
<1>1. Init => <<Canonical, Resource>> \in Keys
  BY Constants DEF Keys, Paths
<1>. QED
  BY <1>1 DEF Init, CanonicalClean

LEMMA CanonicalStep == Basics /\ CanonicalClean /\ [Next]_vars => CanonicalClean'
<1>. SUFFICES ASSUME Basics, CanonicalClean, [Next]_vars,
                     WellIsolated, site.resolves \subseteq site.collapses
              PROVE  store'[<<Canonical, Resource>>] \in {NoEntry, "current", "former"}
  BY StoreStep DEF CanonicalClean, WellIsolated, Isolated
<1>1. <<Canonical, Resource>> \in Keys
  BY Constants DEF Keys, Paths
<1>2. ASSUME Sent, Key = <<Canonical, Resource>> PROVE Answered(Path) = "current"
  <2>1. Sending /\ Buster \in Tokens /\ site \in Sites /\ Key = KeyUnder(Buster, Path)
    BY <1>2, SendingKey DEF Sent, Basics, TypeOK
  <2>2. Buster = Canonical
    <3>1. Path \in Paths
      BY <2>1, SendingPath
    <3>2. KeyUnder(Buster, Path)[1] = Buster
      BY <2>1, <3>1, KeysOf
    <3>. QED
      BY <1>2, <2>1, <3>2
  <2>3. CASE pc = "baseline"
    BY <2>1, <2>3, OriginAnswers DEF Path
  <2>4. CASE pc = "detour"
    <3>1. Path = Detour(Subject, "origin") /\ Subject \in TraversalForms
      BY <2>1, <2>4, SendingPath DEF Path
    <3>2. Subject \in site.resolves
      <4>1. Key[2] = IF Subject \in site.resolves THEN Resource ELSE Detour(Subject, "origin")
        <5>1. KeyUnder(Buster, Detour(Subject, "origin")) =
                  <<IF Isolated(site, mode) THEN Buster ELSE Canonical,
                    IF Subject \in site.resolves THEN Resource ELSE Detour(Subject, "origin")>>
          BY <2>1, <3>1, KeysOf
        <5>. QED
          BY <2>1, <3>1, <5>1
      <4>2. Key[2] = Resource
        BY <1>2
      <4>. QED
        BY <4>1, <4>2, PathKinds
    <3>. QED
      BY <2>1, <3>1, <3>2, OriginAnswers
  <2>. QED
    BY <2>1, <2>2, <2>3, <2>4, BusterUsed DEF Canonical
<1>. QED
  BY <1>1, <1>2, StoreStep DEF CanonicalClean

-----------------------------------------------------------------------------
(* Paths requested under a buster of their own *)

\* Busters are made one by one, and no request goes out under one not made yet.
LEMMA TokensGrow ==
    ASSUME Basics, [Next]_vars
    PROVE  /\ token \in Nat /\ token' \in Nat /\ token <= token'
           /\ Sent => Buster <= token' /\ (pc \notin {"baseline", "detour"} => token' = Buster)
<1>1. token \in Nat
  BY Constants DEF Basics, TypeOK
<1>2. token' = token \/ (Sent /\ token' = token + 1 /\ NewBuster) 
  BY DEF Next, Mapper, Requests, vars, EndStage, SkipForm, NoSecondAttempt, RequestFails,
         BusterFails, Record, Visit, Expire, Sent, Answers, Baseline, JunkRequest, SweepRequest, DetourRequest,
         PrimeRequest, RepeatRequest, OrderRequest, ReverseRequest, ConfirmRequest
<1>3. Sent => Buster <= token' /\ (pc \notin {"baseline", "detour"} => token' = Buster)
  BY <1>1 DEF Sent, Buster, NewBuster, Canonical
<1>. QED
  BY <1>1, <1>2, <1>3

\* An entry appears under a buster that is made, or under none.
LEMMA FutureStep ==
    ASSUME Basics, Isolated(site, mode), FutureUntouched, [Next]_vars
    PROVE  FutureUntouched'
<1>. SUFFICES ASSUME NEW key \in Keys, key[1] > token', store'[key] # NoEntry PROVE FALSE
  BY DEF FutureUntouched
<1>1. key[1] \in Nat
  BY Constants DEF Keys
<1>2. key[1] > token /\ key[1] > Canonical
  BY <1>1, TokensGrow DEF Canonical
<1>3. store[key] = NoEntry
  BY <1>2 DEF FutureUntouched
<1>4. Sent /\ key = Key
  <2>1. key # <<Canonical, Resource>>
    BY <1>2 DEF Canonical
  <2>. QED
    BY <1>3, <2>1, StoreStep
<1>5. Key[1] \in {Buster, Canonical}
  BY <1>4, SendingKey, SendingPath, KeysOf DEF Sent, Basics, TypeOK
<1>. QED
  BY <1>1, <1>2, <1>4, <1>5, TokensGrow

\* The entry of its own buster, after a request for a delimited path or for
\* the resource in its confirmation.
LEMMA OwnEntryAfter ==
    ASSUME Basics, Isolated(site, mode), FutureUntouched, UnderWay => OwnEntry, [Next]_vars,
           Sent, pc \in {"sweep", "reverse", "confirm"}
    PROVE  /\ <<token', Resource>> \in Keys
           /\ LET before == store[<<token', Resource>>]
                  after == store'[<<token', Resource>>]
              IN  /\ \/ before = NoEntry
                     \/ CutBy(Delimited(Subject)) /\ before = Answered(Delimited(Subject))
                     \/ pc = "confirm" /\ before = "current"
                  /\ \/ after = NoEntry
                     \/ CutBy(Delimited(Subject)) /\ after = Answered(Delimited(Subject))
                     \/ pc = "confirm" /\ after = "current"
<1>. DEFINE own == <<token', Resource>>
<1>1. own \in Keys
  BY SentKeeps, KeysOf DEF Basics, TypeOK
<1>2. retries \in Nat /\ token \in Nat /\ token' \in Nat
  BY Constants, TokensGrow DEF Basics, TypeOK
<1>3. \/ store[own] = NoEntry
      \/ CutBy(Delimited(Subject)) /\ store[own] = Answered(Delimited(Subject))
      \/ pc = "confirm" /\ store[own] = "current"
  <2>1. CASE NewBuster
    BY <1>1, <1>2, <2>1 DEF Sent, FutureUntouched
  <2>2. CASE ~NewBuster
    BY <1>2, <2>2 DEF Sent, NewBuster, UnderWay, OwnEntry
  <2>. QED
    BY <2>1, <2>2
<1>4. own # <<Canonical, Resource>>
  BY <1>2, SentKeeps DEF Busted, NewBuster
<1>5. ASSUME own = Key, store'[own] = Answered(Path)
      PROVE  \/ CutBy(Delimited(Subject)) /\ store'[own] = Answered(Delimited(Subject))
             \/ pc = "confirm" /\ store'[own] = "current"
  <2>1. site \in Sites /\ Sending /\ Buster \in Tokens /\ Key = KeyUnder(Buster, Path)
    BY SendingKey DEF Sent, Basics, TypeOK
  <2>2. CASE pc = "confirm"
    BY <1>5, <2>1, <2>2, OriginAnswers DEF Path, ConfirmPath
  <2>3. CASE pc \in {"sweep", "reverse"}
    <3>1. Path = Delimited(Subject) /\ Subject \in Characters
      BY <2>1, <2>3, SendingPath DEF Path
    <3>2. KeyUnder(Buster, Delimited(Subject))[2] = IF Subject \in site.cuts THEN Resource ELSE Delimited(Subject)
      BY <2>1, <3>1, KeysOf
    <3>3. Key[2] = Resource
      BY <1>5
    <3>4. CutBy(Delimited(Subject))
      BY <2>1, <3>1, <3>2, <3>3, PathKinds, KeysOf
    <3>. QED
      BY <1>5, <3>1, <3>4
  <2>. QED
    BY <2>2, <2>3
<1>. QED
  BY <1>1, <1>3, <1>4, <1>5, StoreStep

\* A delimited path comes under way, or stays so, by a request about it or
\* while the surroundings move.
LEMMA UnderWayFrom ==
    ASSUME Basics, [Next]_vars, UnderWay'
    PROVE  \/ /\ Sent /\ pc \in {"sweep", "reverse", "confirm"} /\ n' = n /\ reverse' = reverse
              /\ \/ pc' = pc
                 \/ pc = "reverse" /\ pc' = "confirm"
           \/ /\ UnderWay /\ UNCHANGED <<pc, n, reverse, token, retries>>
              /\ Visit \/ Expire \/ UNCHANGED vars
<1>1. retries \in Nat
  BY MapperAssumption DEF Basics, TypeOK
<1>2. UNCHANGED <<pc, n, reverse, token, retries>> => UnderWay
  BY DEF UnderWay
<1>3. CASE Visit \/ Expire \/ UNCHANGED vars
  BY <1>2, <1>3 DEF Visit, Expire, vars
<1>4. CASE RequestFails
  <2>1. Sent /\ reverse' = reverse
    BY <1>4 DEF RequestFails
  <2>2. CASE retries' = retries + 1 /\ UNCHANGED <<pc, n>>
    BY <2>1, <2>2 DEF UnderWay
  <2>3. CASE GiveUp /\ retries' = 0
    <3>1. pc' # "confirm"
      BY <2>1, <2>3, AfterStages DEF GiveUp, Go, NextSubject, Sent, Sending, Stages
    <3>. QED
      BY <2>3, <3>1 DEF UnderWay
  <2>. QED
    BY <1>4, <2>2, <2>3 DEF RequestFails
<1>5. CASE ReverseRequest
  BY <1>5 DEF ReverseRequest, Answers, UnderWay, NextSubject
<1>6. ~(EndStage \/ SkipForm \/ NoSecondAttempt \/ BusterFails \/ Record)
  BY AfterStages DEF UnderWay, EndStage, SkipForm, NoSecondAttempt, BusterFails, NewBuster, GiveUp, Record,
     Go, NextSubject, Stages
<1>7. ~(Baseline \/ JunkRequest \/ SweepRequest \/ DetourRequest \/ PrimeRequest \/ RepeatRequest
        \/ OrderRequest \/ ConfirmRequest)
  <2>1. Baseline \/ JunkRequest \/ SweepRequest \/ DetourRequest \/ PrimeRequest \/ RepeatRequest
           \/ OrderRequest \/ ConfirmRequest => retries' = 0
    BY DEF Answers, Baseline, JunkRequest, SweepRequest, DetourRequest, PrimeRequest, RepeatRequest,
       OrderRequest, ConfirmRequest
  <2>2. Baseline \/ JunkRequest \/ SweepRequest \/ DetourRequest => pc' # "confirm"
    BY AfterStages DEF Baseline, JunkRequest, JunkServed, SweepRequest, DetourRequest, Go, NextSubject
  <2>3. PrimeRequest \/ RepeatRequest \/ ConfirmRequest => pc' # "confirm"
    BY AfterStages DEF PrimeRequest, RepeatRequest, ConfirmRequest, Go, NextSubject
  <2>4. OrderRequest => pc' # "confirm"
    BY DEF OrderRequest, NextSubject
  <2>. QED
    BY <2>1, <2>2, <2>3, <2>4 DEF UnderWay
<1>. QED
  BY <1>3, <1>4, <1>5, <1>6, <1>7 DEF Next, Mapper, Requests

\* The entry of a delimited path under way is touched by that path alone.
LEMMA OwnEntryStep ==
    ASSUME Basics, Isolated(site, mode), FutureUntouched, UnderWay => OwnEntry, [Next]_vars, UnderWay'
    PROVE  OwnEntry'
<1>1. \A path : Answered(path)' = Answered(path) /\ CutBy(path)' = CutBy(path)
  BY StoreStep DEF Answered, CutBy
<1>2. CASE /\ Sent /\ pc \in {"sweep", "reverse", "confirm"} /\ n' = n /\ reverse' = reverse
           /\ \/ pc' = pc
              \/ pc = "reverse" /\ pc' = "confirm"
  <2>1. Subject' = Subject
    <3>1. pc' = pc => Subjects' = Subjects
      BY <1>2 DEF Subjects
    <3>2. pc = "reverse" /\ pc' = "confirm" => Subjects' = Subjects
      BY <1>2 DEF Subjects
    <3>. QED
      BY <1>2, <3>1, <3>2 DEF Subject
  <2>2. OwnEntry' = LET entry == store'[<<token', Resource>>]
                    IN  \/ entry = NoEntry
                        \/ CutBy(Delimited(Subject)) /\ entry = Answered(Delimited(Subject))
                        \/ pc' = "confirm" /\ entry = "current"
    BY <1>1, <2>1 DEF OwnEntry, Resource, Delimited
  <2>. QED
    BY <1>2, <2>2, OwnEntryAfter
<1>3. CASE /\ UnderWay /\ UNCHANGED <<pc, n, reverse, token, retries>>
           /\ Visit \/ Expire \/ UNCHANGED vars
  <2>1. Subject' = Subject
    BY <1>3 DEF Subject, Subjects
  <2>2. OwnEntry' = LET entry == store'[<<token, Resource>>]
                    IN  \/ entry = NoEntry
                        \/ CutBy(Delimited(Subject)) /\ entry = Answered(Delimited(Subject))
                        \/ pc = "confirm" /\ entry = "current"
    BY <1>1, <1>3, <2>1 DEF OwnEntry, Resource, Delimited
  <2>3. <<token, Resource>> \in Keys /\ token > Canonical
    BY <1>3, KeysOf, Constants DEF Basics, TypeOK, Bookkeeping, Busted, UnderWay
  <2>4. store'[<<token, Resource>>] \in {NoEntry, store[<<token, Resource>>]}
    <3>1. store \in [Keys -> Responses \cup {NoEntry}]
      BY DEF Basics, TypeOK
    <3>2. <<token, Resource>> # <<Canonical, Resource>>
      BY <2>3, TokensGrow DEF Canonical
    <3>3. CASE Visit
      BY <2>3, <3>1, <3>2, <3>3 DEF Visit, Filled
    <3>4. CASE Expire
      BY <2>3, <3>1, <3>4 DEF Expire
    <3>. QED
      BY <1>3, <3>3, <3>4 DEF vars
  <2>5. OwnEntry /\ store'[<<token, Resource>>] \in {NoEntry, store[<<token, Resource>>]}
    BY <1>3, <2>4
  <2>. QED
    BY <2>2, <2>5 DEF OwnEntry
<1>. QED
  BY <1>2, <1>3, UnderWayFrom

\* Nothing is under way at first.
LEMMA ApartInit == Init => Apart
<1>. SUFFICES ASSUME Init PROVE FutureUntouched /\ ~UnderWay /\ pc # "sweep"
  BY DEF Apart
<1>1. ASSUME NEW key \in Keys, key[1] > Canonical PROVE key # <<Canonical, Resource>>
  BY <1>1 DEF Canonical
<1>2. FutureUntouched
  BY <1>1 DEF Init, FutureUntouched
<1>. QED
  BY <1>2 DEF Init, UnderWay

\* The answer to the junk path tells whether what follows the path matters.
LEMMA SweptOriginTells ==
    ASSUME Basics, StoredAsAnswered, pc = "sweep" /\ base = "current" => ~site.loose,
           [Next]_vars, pc' = "sweep", base' = "current"
    PROVE  ~site.loose
<1>1. CASE pc = "sweep"
  <2>1. base' = base
    BY <1>1 DEF Next, Mapper, Requests, vars, EndStage, SkipForm, NoSecondAttempt, RequestFails,
       BusterFails, Record, Visit, Expire, Baseline, JunkRequest, SweepRequest, DetourRequest,
       PrimeRequest, RepeatRequest, OrderRequest, ReverseRequest, ConfirmRequest
  <2>. QED
    BY <1>1, <2>1
<1>2. CASE pc # "sweep"
  <2>1. JunkRequest /\ Reply # base
    <3>1. ~(EndStage \/ SkipForm \/ NoSecondAttempt \/ BusterFails \/ Record \/ Visit \/ Expire \/ UNCHANGED vars)
      BY <1>2, AfterStages DEF EndStage, SkipForm, NoSecondAttempt, BusterFails, NewBuster, GiveUp, Record,
         Go, NextSubject, Stages, Visit, Expire, vars
    <3>2. ~RequestFails
      BY <1>2, AfterStages DEF RequestFails, GiveUp, Go, NextSubject, Sent, Sending, Stages
    <3>3. ~(Baseline \/ SweepRequest \/ DetourRequest \/ PrimeRequest \/ RepeatRequest \/ OrderRequest
            \/ ReverseRequest \/ ConfirmRequest)
      BY <1>2, AfterStages DEF Baseline, SweepRequest, DetourRequest, PrimeRequest, RepeatRequest,
         OrderRequest, ReverseRequest, ConfirmRequest, Go, NextSubject
    <3>4. JunkRequest => Reply # base
      BY AfterStages DEF JunkRequest, JunkServed, Go
    <3>. QED
      BY <3>1, <3>2, <3>3, <3>4 DEF Next, Mapper, Requests
  <2>2. pc = "junk" /\ Sending /\ base = "current" /\ site \in Sites
    BY <2>1 DEF JunkRequest, Answers, Sent, Basics, TypeOK
  <2>3. Path = Junk /\ Key = KeyUnder(Buster, Junk) /\ Buster \in Tokens /\ Key \in Keys
    BY <2>2, SendingKey DEF Path
  <2>4. Key[2] = Junk
    <3>1. KeyUnder(Buster, Junk) = <<IF Isolated(site, mode) THEN Buster ELSE Canonical, Junk>>
      BY <2>2, <2>3, KeysOf
    <3>. QED
      BY <2>3, <3>1
  <2>5. Reply = Answered(Junk)
    BY <2>3, <2>4, PathKinds DEF Reply, Answer, StoredAsAnswered
  <2>. QED
    BY <2>1, <2>2, <2>5, OriginAnswers
<1>. QED
  BY <1>1, <1>2

\* Where the buster is keyed, its entries stay apart.
LEMMA ApartStep == Basics /\ StoredAsAnswered /\ Apart /\ [Next]_vars => Apart'
<1>. SUFFICES ASSUME Basics, StoredAsAnswered, Apart, [Next]_vars, Isolated(site, mode)
              PROVE  /\ FutureUntouched'
                     /\ UnderWay' => OwnEntry'
                     /\ pc' = "sweep" /\ base' = "current" => ~site.loose
  BY StoreStep DEF Apart, Isolated
<1>. QED
  BY FutureStep, OwnEntryStep, SweptOriginTells DEF Apart

-----------------------------------------------------------------------------
(* The order of the cache's normalization *)

\* A step after which nothing has gone wrong: the mapper's own, or a visit.
LEMMA QuietStep ==
    ASSUME Basics, [Next]_vars, faults' = 0
    PROVE  /\ faults = 0
           /\ EndStage \/ SkipForm \/ NoSecondAttempt \/ Requests \/ Record \/ Visit \/ UNCHANGED vars
<1>1. faults \in Nat
  BY MapperAssumption DEF Basics, TypeOK
<1>2. ~RequestFails /\ ~BusterFails /\ ~Expire
  BY <1>1 DEF RequestFails, BusterFails, Expire
<1>3. EndStage \/ SkipForm \/ NoSecondAttempt \/ Requests \/ Record \/ Visit \/ UNCHANGED vars
  BY <1>2 DEF Next, Mapper
<1>4. faults' = faults
  BY <1>3 DEF EndStage, SkipForm, NoSecondAttempt, Record, Visit, vars, Requests, Answers, Baseline,
     JunkRequest, SweepRequest, DetourRequest, PrimeRequest, RepeatRequest, OrderRequest,
     ReverseRequest, ConfirmRequest
<1>. QED
  BY <1>3, <1>4

Early == {"baseline", "junk", "sweep", "detour", "prime", "repeat"}

\* How the order stage is reached and gone through.
LEMMA OrderMoves ==
    ASSUME Basics, [Next]_vars, faults' = 0
    PROVE  /\ pc' \in Early => pc \in Early
           /\ pc' = "order" =>
                 \/ RepeatRequest /\ Hit /\ n' = 1 /\ pc = "repeat"
                 \/ pc \in {"order", "again"} /\ n' = n + 1
                 \/ pc = "order" /\ n' = n /\ UNCHANGED <<token, store>>
                 \/ pc = "order" /\ n' = n /\ Visit
           /\ pc' = "again" =>
                 \/ OrderRequest /\ pc = "order" /\ n' = n /\ ~Hit
                 \/ pc = "again" /\ n' = n /\ (Visit \/ UNCHANGED vars)
           /\ retries = 0 => retries' = 0
<1>1. CASE EndStage
  BY <1>1, AfterStages DEF EndStage, Go, Stages, Early
<1>2. CASE SkipForm \/ NoSecondAttempt
  BY <1>2 DEF SkipForm, NoSecondAttempt, NextSubject, Early
<1>3. CASE Record \/ UNCHANGED vars
  BY <1>3 DEF Record, vars, Early
<1>4. CASE Visit
  BY <1>4 DEF Visit, Early
<1>5. CASE Baseline \/ JunkRequest \/ SweepRequest \/ DetourRequest \/ PrimeRequest
  BY <1>5, AfterStages DEF Baseline, JunkRequest, JunkServed, SweepRequest, DetourRequest, PrimeRequest,
     Answers, Go, NextSubject, Early
<1>6. CASE RepeatRequest
  BY <1>6, AfterStages DEF RepeatRequest, Answers, Go, Early
<1>7. CASE OrderRequest
  <2>1. pc \in {"order", "again"} /\ retries' = 0
    BY <1>7 DEF OrderRequest, Answers
  <2>2. CASE Reply = base /\ Hit
    BY <1>7, <2>1, <2>2 DEF OrderRequest, NextSubject, Early
  <2>3. CASE Reply # base
    BY <1>7, <2>1, <2>3 DEF OrderRequest, NextSubject, Early
  <2>4. CASE Reply = base /\ ~Hit
    BY <1>7, <2>1, <2>4 DEF OrderRequest, NextSubject, Early
  <2>. QED
    BY <2>2, <2>3, <2>4
<1>8. CASE ReverseRequest \/ ConfirmRequest
  BY <1>8 DEF ReverseRequest, ConfirmRequest, Answers, NextSubject, Early
<1>. QED
  BY <1>1, <1>2, <1>3, <1>4, <1>5, <1>6, <1>7, <1>8, QuietStep DEF Requests

\* A detour's own entry appears by the request for that detour only.
LEMMA DetourStored ==
    ASSUME Basics, [Next]_vars, NEW key \in Keys, NEW form \in TraversalForms,
           key[2] = Detour(form, "cache"), store[key] = NoEntry, store'[key] # NoEntry
    PROVE  Sent /\ pc \in {"order", "again"} /\ Subject = form
<1>1. key # <<Canonical, Resource>>
  BY PathKinds
<1>2. Sent /\ key = Key
  BY <1>1, StoreStep
<1>3. Key[2] \in {Resource, Path}
  BY <1>2, SendingPath, SendingKey, KeysOf DEF Sent, Basics, TypeOK
<1>4. Path = Detour(form, "cache")
  BY <1>2, <1>3, PathKinds
<1>5. pc \in {"order", "again"}
  BY <1>4, PathKinds DEF Path, ConfirmPath
<1>6. Path = Detour(Subject, "cache")
  BY <1>5 DEF Path
<1>. QED
  BY <1>2, <1>4, <1>5, <1>6, PathKinds

\* From the second priming request on, the order stage has its buster.
LEMMA TokenKept ==
    ASSUME [Next]_vars, pc \in {"repeat", "order", "again"}
    PROVE  token' = token
  BY DEF Next, Mapper, Requests, vars, EndStage, SkipForm, NoSecondAttempt, RequestFails,
     BusterFails, Record, Visit, Expire, Sent, NewBuster, Answers, Baseline, JunkRequest, SweepRequest,
     DetourRequest, PrimeRequest, RepeatRequest, OrderRequest, ReverseRequest, ConfirmRequest

\* While nothing expires, what is stored stays.
LEMMA EntryKept ==
    ASSUME Basics, [Next]_vars, faults' = 0, NEW key \in Keys, store[key] # NoEntry
    PROVE  store'[key] = store[key]
  BY StoreStep

\* No detour is stored at first, and each only by its own request in the cache's order.
LEMMA OrderInit == Init => OrderSound
<1>1. Init => \A key \in Keys : \A form \in TraversalForms : key[2] = Detour(form, "cache") => store[key] = NoEntry
  BY PathKinds DEF Init
<1>. QED
  BY <1>1 DEF Init, OrderSound

LEMMA OrderStep == Basics /\ OrderSound /\ [Next]_vars => OrderSound'
<1>. SUFFICES ASSUME Basics, OrderSound, [Next]_vars, faults' = 0
              PROVE  /\ retries' = 0
                     /\ pc' \in Early => \A key \in Keys : \A form \in TraversalForms :
                           key[2] = Detour(form, "cache") => store'[key] = NoEntry
                     /\ pc' = "order" => \A key \in Keys : \A m \in n' .. 2 :
                           key[2] = Detour(Traversals[m], "cache") => store'[key] = NoEntry
                     /\ pc' = "again" =>
                           /\ Subject' \notin site.resolves
                           /\ \A key \in Keys : \A m \in n' + 1 .. 2 :
                                 key[2] = Detour(Traversals[m], "cache") => store'[key] = NoEntry
                     /\ pc' \in {"order", "again"} =>
                           site.showsHits /\ store'[KeyUnder(token, Resource)'] # NoEntry
  BY StoreStep DEF OrderSound, Early, Detour
<1>1. faults = 0 /\ n \in Nat \ {0} /\ retries = 0 /\ token \in Tokens /\ site \in Sites
  BY QuietStep DEF Basics, TypeOK, OrderSound
<1>2. retries' = 0
  BY <1>1, OrderMoves
<1>3. ASSUME NEW key \in Keys, NEW form \in TraversalForms, key[2] = Detour(form, "cache"),
             pc \in Early \/ pc' \in Early
      PROVE  store'[key] = NoEntry
  <2>1. pc \in Early
    BY <1>3, OrderMoves
  <2>2. store[key] = NoEntry
    BY <1>1, <1>3, <2>1 DEF OrderSound, Early
  <2>. QED
    BY <1>3, <2>1, <2>2, DetourStored DEF Early
<1>4. ASSUME NEW key \in Keys, NEW m \in 1 .. 2, key[2] = Detour(Traversals[m], "cache"),
             \/ pc = "order" /\ (m > n \/ (m = n /\ ~Sent))
             \/ pc = "again" /\ m > n
      PROVE  store'[key] = NoEntry
  <2>1. Traversals[m] \in TraversalForms
    BY Constants
  <2>2. store[key] = NoEntry
    BY <1>1, <1>4 DEF OrderSound
  <2>3. ASSUME Sent PROVE Subject # Traversals[m]
    <3>1. Subject = Traversals[n] /\ n \in 1 .. 2 /\ m # n
      BY <1>1, <1>4, <2>3, SendingPath DEF Sent, Subject, Subjects
    <3>. QED
      BY <3>1, Constants
  <2>. QED
    BY <1>4, <2>1, <2>2, <2>3, DetourStored
<1>5. ASSUME pc' = "order", NEW key \in Keys, NEW m \in n' .. 2, key[2] = Detour(Traversals[m], "cache")
      PROVE  store'[key] = NoEntry
  <2>1. n' \in Nat \ {0}
    BY BasicsStep DEF Basics, TypeOK
  <2>2. m \in 1 .. 2 /\ Traversals[m] \in TraversalForms
    BY <2>1, Constants
  <2>3. CASE pc = "repeat"
    BY <1>3, <1>5, <2>2, <2>3 DEF Early
  <2>4. CASE pc \in {"order", "again"} /\ n' = n + 1
    BY <1>1, <1>4, <1>5, <2>2, <2>4
  <2>5. CASE pc = "order" /\ n' = n /\ (store' = store \/ Visit)
    <3>1. store[key] = NoEntry
      BY <1>1, <1>5, <2>5 DEF OrderSound
    <3>2. key # <<Canonical, Resource>>
      BY <1>5, PathKinds
    <3>3. store \in [Keys -> Responses \cup {NoEntry}]
      BY DEF Basics, TypeOK
    <3>. QED
      BY <2>5, <3>1, <3>2, <3>3 DEF Visit, Filled
  <2>. QED
    BY <1>5, <2>3, <2>4, <2>5, OrderMoves
<1>6. ASSUME pc' = "again", NEW key \in Keys, NEW m \in n' + 1 .. 2, key[2] = Detour(Traversals[m], "cache")
      PROVE  store'[key] = NoEntry
  <2>1. n' = n /\ pc \in {"order", "again"}
    BY <1>6, OrderMoves
  <2>2. m \in 1 .. 2 /\ m > n
    BY <1>1, <2>1
  <2>. QED
    BY <1>4, <1>6, <2>1, <2>2
<1>7. ASSUME pc' \in {"order", "again"}
      PROVE  site.showsHits /\ store'[KeyUnder(token, Resource)'] # NoEntry
  <2>1. KeyUnder(token, Resource)' = KeyUnder(token, Resource)
    <3>1. UNCHANGED <<site, mode>>
      BY StoreStep
    <3>2. token' = token
      <4>1. pc \in {"repeat", "order", "again"}
        BY <1>7, OrderMoves
      <4>. QED
        BY <4>1, TokenKept
    <3>. QED
      BY <3>1, <3>2 DEF KeyUnder, BusterKeyed, CutBy, ResolvedBy, Resource
  <2>2. KeyUnder(token, Resource) \in Keys
    <3>1. Resource \in Paths
      BY DEF Paths
    <3>. QED
      BY <1>1, <3>1, KeysOf
  <2>3. site.showsHits /\ store[KeyUnder(token, Resource)] # NoEntry
    <3>1. CASE pc \in {"order", "again"}
      BY <1>1, <3>1 DEF OrderSound
    <3>2. CASE RepeatRequest /\ Hit /\ pc = "repeat"
      <4>1. Key = KeyUnder(token, Resource)
        BY <3>2 DEF Key, Buster, NewBuster, Path
      <4>. QED
        BY <3>2, <4>1 DEF Hit
    <3>. QED
      BY <1>7, <3>1, <3>2, OrderMoves
  <2>. QED
    BY <2>1, <2>2, <2>3, EntryKept
<1>8. ASSUME pc' = "again" PROVE Subject' \notin site.resolves
  <2>1. Subject' = Subject
    <3>1. n' = n /\ pc \in {"order", "again"}
      BY <1>8, OrderMoves
    <3>. QED
      BY <1>8, <3>1 DEF Subject, Subjects
  <2>2. CASE pc = "again"
    BY <1>1, <2>1, <2>2 DEF OrderSound
  <2>3. CASE OrderRequest /\ pc = "order" /\ ~Hit
    <3>. SUFFICES ASSUME Subject \in site.resolves PROVE FALSE
      BY <2>1
    <3>1. Sending /\ Subject \in TraversalForms /\ Path = Detour(Subject, "cache") /\ Buster = token
      BY <2>3, SendingPath DEF OrderRequest, Answers, Sent, Path, Buster, NewBuster
    <3>2. Key = KeyUnder(token, Detour(Subject, "cache"))
      BY <3>1 DEF Key
    <3>3. Key = KeyUnder(token, Resource)
      <4>1. KeyUnder(token, Detour(Subject, "cache")) =
                <<IF Isolated(site, mode) THEN token ELSE Canonical, Resource>>
        BY <1>1, <3>1, KeysOf
      <4>2. KeyUnder(token, Resource) = <<IF Isolated(site, mode) THEN token ELSE Canonical, Resource>>
        BY <1>1, KeysOf
      <4>. QED
        BY <3>2, <4>1, <4>2
    <3>. QED
      BY <1>1, <2>3, <3>3 DEF OrderSound, Hit
  <2>. QED
    BY <1>8, <2>2, <2>3, OrderMoves
<1>. QED
  BY <1>2, <1>3, <1>5, <1>6, <1>7, <1>8

-----------------------------------------------------------------------------
(* The findings *)

\* Where every path carries the buster, a sweep request is answered by the
\* origin, or as the origin would.
LEMMA SweptAsAnswered ==
    ASSUME Basics, StoredAsAnswered, Apart, WellIsolated, [Next]_vars, SweepRequest
    PROVE  Reply = Answered(Delimited(Subject)) /\ Subject \in Characters
<1>1. pc = "sweep" /\ Sent /\ Sending /\ site \in Sites /\ Isolated(site, mode)
  BY DEF SweepRequest, Answers, Sent, Basics, TypeOK, WellIsolated
<1>2. /\ Path = Delimited(Subject) /\ Subject \in Characters /\ Path \in Paths
      /\ Buster \in Tokens /\ Key \in Keys /\ Key = KeyUnder(Buster, Path)
  BY <1>1, SendingPath, SendingKey DEF Path
<1>3. Key[1] = Buster /\ Key[2] \in {Resource, Delimited(Subject)} /\ Buster = token'
  BY <1>1, <1>2, KeysOf, TokensGrow
<1>4. CASE Key[2] = Delimited(Subject)
  BY <1>2, <1>4, PathKinds DEF Reply, Answer, StoredAsAnswered
<1>5. CASE Key[2] = Resource
  <2>1. Key = <<token', Resource>>
    <3>1. \A key \in Keys : key = <<key[1], key[2]>>
      BY DEF Keys
    <3>. QED
      BY <1>2, <1>3, <1>5, <3>1
  <2>2. store[Key] \in {NoEntry, Answered(Delimited(Subject))}
    BY <1>1, <2>1, OwnEntryAfter DEF Apart
  <2>. QED
    BY <1>2, <2>2 DEF Reply, Answer
<1>. QED
  BY <1>2, <1>3, <1>4, <1>5

\* What the sweep takes for a delimiter of the origin is one.
LEMMA SweepFindsCut ==
    ASSUME Basics, StoredAsAnswered, Apart, WellIsolated, [Next]_vars, SweepRequest, Reply = base
    PROVE  OriginCuts(Subject)
<1>1. Answered(Delimited(Subject)) = base /\ Subject \in Characters
  BY SweptAsAnswered
<1>2. site \in Sites /\ pc = "sweep" /\ Isolated(site, mode)
  BY DEF Basics, TypeOK, SweepRequest, WellIsolated
<1>3. base = "current"
  BY <1>1, <1>2, OriginAnswers DEF StoredAsAnswered
<1>4. ~site.loose
  BY <1>2, <1>3 DEF Apart
<1>. QED
  BY <1>1, <1>2, <1>3, <1>4, OriginAnswers DEF OriginCuts

\* What the confirmation takes for a delimiter of the cache alone is one.
LEMMA ConfirmFindsCut ==
    ASSUME Basics, Apart, Isolated(site, mode), [Next]_vars, ConfirmRequest, Reply # base, base = "current"
    PROVE  CacheCuts(Subject) /\ ~OriginCuts(Subject)
<1>1. pc = "confirm" /\ Sent /\ Sending /\ site \in Sites
  BY DEF ConfirmRequest, Answers, Sent, Basics, TypeOK
<1>2. Path = Resource /\ Subject \in Characters /\ Buster \in Tokens /\ Key = KeyUnder(Buster, Resource)
      /\ Buster = token'
  BY <1>1, SendingPath, SendingKey, TokensGrow DEF Path, ConfirmPath
<1>3. Key = <<token', Resource>>
  <2>1. KeyUnder(Buster, Resource) = <<IF Isolated(site, mode) THEN Buster ELSE Canonical, Resource>>
    BY <1>1, <1>2, KeysOf
  <2>. QED
    BY <1>2, <2>1
<1>4. Answered(Path) = "current"
  BY <1>1, <1>2, OriginAnswers
<1>5. store[Key] # NoEntry /\ store[Key] # "current"
  BY <1>4 DEF Reply, Answer
<1>6. CutBy(Delimited(Subject)) /\ store[Key] = Answered(Delimited(Subject))
  BY <1>1, <1>3, <1>5, OwnEntryAfter DEF Apart
<1>7. Subject \in site.cuts
  BY <1>1, <1>2, <1>6, KeysOf
<1>8. ~OriginCuts(Subject)
  BY <1>1, <1>2, <1>5, <1>6, OriginAnswers
<1>. QED
  BY <1>7, <1>8 DEF CacheCuts

\* The baseline, and what has been found of delimiters, change by their requests.
LEMMA MappingMoves ==
    ASSUME Basics, [Next]_vars
    PROVE  /\ base' = base \/ (Baseline /\ mapping = NothingMapped)
           /\ \/ mapping' = mapping
              \/ SweepRequest /\ Reply = base /\ Found(Subject, FALSE)
              \/ ConfirmRequest /\ Reply # base /\ Found(Subject, TRUE)
              \/ DetourRequest /\ mapping' = [mapping EXCEPT !.origin[Subject] = IF Reply = base THEN "yes" ELSE "no"]
              \/ OrderRequest /\ Reply = base /\ Hit
                   /\ mapping' = [mapping EXCEPT !.cache[Subject] = OrderShown[pc]]
<1>1. Baseline => mapping = NothingMapped /\ mapping' = mapping
  BY DEF Baseline, Basics, Bookkeeping
<1>2. ~Baseline => base' = base
  BY DEF Next, Mapper, Requests, vars, EndStage, SkipForm, NoSecondAttempt, RequestFails,
     BusterFails, Record, Visit, Expire, JunkRequest, SweepRequest, DetourRequest,
     PrimeRequest, RepeatRequest, OrderRequest, ReverseRequest, ConfirmRequest
<1>3. EndStage \/ SkipForm \/ NoSecondAttempt \/ RequestFails \/ BusterFails \/ Record \/ Visit \/ Expire
      \/ UNCHANGED vars \/ JunkRequest \/ PrimeRequest \/ RepeatRequest \/ ReverseRequest
        => mapping' = mapping
  BY DEF vars, EndStage, SkipForm, NoSecondAttempt, RequestFails, BusterFails, Record, Visit, Expire,
     JunkRequest, PrimeRequest, RepeatRequest, ReverseRequest
<1>4. SweepRequest => mapping' = mapping \/ (Reply = base /\ Found(Subject, FALSE))
  BY DEF SweepRequest
<1>5. ConfirmRequest => mapping' = mapping \/ (Reply # base /\ Found(Subject, TRUE))
  BY DEF ConfirmRequest
<1>6. DetourRequest => mapping' = [mapping EXCEPT !.origin[Subject] = IF Reply = base THEN "yes" ELSE "no"]
  BY DEF DetourRequest
<1>7. OrderRequest => \/ mapping' = mapping
                      \/ /\ Reply = base /\ Hit
                         /\ mapping' = [mapping EXCEPT !.cache[Subject] = OrderShown[pc]]
  BY DEF OrderRequest
<1>. QED
  BY <1>1, <1>2, <1>3, <1>4, <1>5, <1>6, <1>7 DEF Next, Mapper, Requests

\* A discrepancy reported after the step was reported before, or is the one found.
LEMMA ReportedAfterFound ==
    ASSUME mapping \in Mappings, NEW delimiter, NEW cacheOnly \in BOOLEAN, Found(delimiter, cacheOnly),
           NEW asked \in BOOLEAN, NEW d \in Reported(asked)'
    PROVE  d \in Reported(asked) \/ (asked = cacheOnly /\ d = delimiter)
<1>. DEFINE new == [delimiter |-> delimiter, cacheOnly |-> cacheOnly, cacheable |-> cacheOnly \/ site.stores]
<1>1. mapping'.delimiters = mapping.delimiters \cup {new}
  BY DEF Found, Mappings
<1>2. PICK entry \in mapping'.delimiters : entry.cacheOnly = asked /\ d = entry.delimiter
  BY DEF Reported
<1>3. CASE entry \in mapping.delimiters
  BY <1>2, <1>3 DEF Reported
<1>4. CASE entry = new
  BY <1>2, <1>4
<1>. QED
  BY <1>1, <1>2, <1>3, <1>4

\* Nothing is reported at first, and only what a request has shown after that.
LEMMA DelimitersInit == Init => DelimitersGenuine
  BY DEF Init, DelimitersGenuine, Reported, NothingMapped

LEMMA DelimitersStep ==
    Basics /\ StoredAsAnswered /\ Apart /\ DelimitersGenuine /\ [Next]_vars => DelimitersGenuine'
<1>. SUFFICES ASSUME Basics, StoredAsAnswered, Apart, DelimitersGenuine, [Next]_vars PROVE DelimitersGenuine'
  OBVIOUS
<1>. SUFFICES /\ WellIsolated => \A d \in Reported(FALSE)' : OriginCuts(d)
              /\ Isolated(site, mode) /\ base' = "current" =>
                    \A d \in Reported(TRUE)' : CacheCuts(d) /\ ~OriginCuts(d)
  <2>1. UNCHANGED <<site, mode>>
    BY StoreStep
  <2>2. WellIsolated' = WellIsolated /\ Isolated(site, mode)' = Isolated(site, mode)
    BY <2>1 DEF WellIsolated, Isolated
  <2>3. \A d : OriginCuts(d)' = OriginCuts(d) /\ CacheCuts(d)' = CacheCuts(d)
    BY <2>1 DEF OriginCuts, CacheCuts
  <2>4. DelimitersGenuine' =
            (/\ WellIsolated' => \A d \in Reported(FALSE)' : OriginCuts(d)'
             /\ Isolated(site, mode)' /\ base' = "current" =>
                   \A d \in Reported(TRUE)' : CacheCuts(d)' /\ ~OriginCuts(d)')
    BY DEF DelimitersGenuine
  <2>. QED
    BY <2>2, <2>3, <2>4
<1>1. mapping \in Mappings
  BY DEF Basics, TypeOK
<1>2. CASE base' # base
  <2>1. mapping = NothingMapped /\ Baseline
    BY <1>2, MappingMoves
  <2>2. mapping' = mapping
    BY <2>1 DEF Baseline
  <2>3. \A asked \in BOOLEAN : Reported(asked)' = {}
    BY <2>1, <2>2 DEF Reported, NothingMapped
  <2>. QED
    BY <2>3
<1>3. CASE base' = base /\ mapping'.delimiters = mapping.delimiters
  <2>1. \A asked \in BOOLEAN : Reported(asked)' = Reported(asked)
    BY <1>3 DEF Reported
  <2>. QED
    BY <1>3, <2>1 DEF DelimitersGenuine
<1>4. CASE base' = base /\ SweepRequest /\ Reply = base /\ Found(Subject, FALSE)
  <2>1. \A d \in Reported(FALSE)' : d \in Reported(FALSE) \/ d = Subject
    BY <1>1, <1>4, ReportedAfterFound
  <2>2. \A d \in Reported(TRUE)' : d \in Reported(TRUE)
    BY <1>1, <1>4, ReportedAfterFound
  <2>3. WellIsolated => OriginCuts(Subject)
    BY <1>4, SweepFindsCut
  <2>. QED
    BY <1>4, <2>1, <2>2, <2>3 DEF DelimitersGenuine
<1>5. CASE base' = base /\ ConfirmRequest /\ Reply # base /\ Found(Subject, TRUE)
  <2>1. \A d \in Reported(TRUE)' : d \in Reported(TRUE) \/ d = Subject
    BY <1>1, <1>5, ReportedAfterFound
  <2>2. \A d \in Reported(FALSE)' : d \in Reported(FALSE)
    BY <1>1, <1>5, ReportedAfterFound
  <2>3. Isolated(site, mode) /\ base = "current" => CacheCuts(Subject) /\ ~OriginCuts(Subject)
    BY <1>5, ConfirmFindsCut
  <2>. QED
    BY <1>5, <2>1, <2>2, <2>3 DEF DelimitersGenuine
<1>6. \/ mapping' = mapping
      \/ mapping' = [mapping EXCEPT !.origin[Subject] = IF Reply = base THEN "yes" ELSE "no"]
      \/ mapping' = [mapping EXCEPT !.cache[Subject] = OrderShown[pc]]
      => mapping'.delimiters = mapping.delimiters
  BY <1>1 DEF Mappings
<1>. QED
  BY <1>2, <1>3, <1>4, <1>5, <1>6, MappingMoves

\* The verdict on a detour is the origin's, where the cache does not resolve it.
LEMMA DetourAnswered ==
    ASSUME Basics, StoredAsAnswered, DetourRequest, Subject \notin site.resolves
    PROVE  Reply = IF Subject \in site.collapses THEN "current" ELSE "other"
<1>1. pc = "detour" /\ Sending /\ site \in Sites
  BY DEF DetourRequest, Answers, Sent, Basics, TypeOK
<1>2. /\ Path = Detour(Subject, "origin") /\ Subject \in TraversalForms
      /\ Buster \in Tokens /\ Key \in Keys /\ Key = KeyUnder(Buster, Detour(Subject, "origin"))
  BY <1>1, SendingPath, SendingKey DEF Path
<1>3. Key[2] = Detour(Subject, "origin")
  <2>1. KeyUnder(Buster, Detour(Subject, "origin")) =
            <<IF Isolated(site, mode) THEN Buster ELSE Canonical,
              IF Subject \in site.resolves THEN Resource ELSE Detour(Subject, "origin")>>
    BY <1>1, <1>2, KeysOf
  <2>. QED
    BY <1>2, <2>1
<1>4. Reply = Answered(Detour(Subject, "origin"))
  BY <1>2, <1>3, PathKinds DEF Reply, Answer, StoredAsAnswered
<1>. QED
  BY <1>1, <1>2, <1>4, OriginAnswers

\* A hit tells whether the form is resolved, while nothing goes wrong.
LEMMA OrderTells ==
    ASSUME Basics, OrderSound, faults = 0, OrderRequest, Hit
    PROVE  OrderShown[pc] = IF Subject \in site.resolves THEN "before" ELSE "after"
<1>1. pc \in {"order", "again"} /\ Sending /\ site \in Sites /\ token \in Tokens /\ n \in Nat \ {0}
  BY DEF OrderRequest, Answers, Sent, Basics, TypeOK
<1>2. /\ Path = Detour(Subject, "cache") /\ Subject \in TraversalForms /\ n \in 1 .. 2
      /\ Buster \in Tokens /\ Key \in Keys /\ Key = KeyUnder(Buster, Detour(Subject, "cache"))
  BY <1>1, SendingPath, SendingKey DEF Path
<1>3. CASE pc = "again"
  BY <1>3 DEF OrderSound, OrderShown
<1>4. CASE pc = "order"
  <2>. SUFFICES ASSUME Subject \notin site.resolves PROVE FALSE
    BY <1>4 DEF OrderShown
  <2>1. Key[2] = Detour(Subject, "cache")
    <3>1. KeyUnder(Buster, Detour(Subject, "cache")) =
              <<IF Isolated(site, mode) THEN Buster ELSE Canonical,
                IF Subject \in site.resolves THEN Resource ELSE Detour(Subject, "cache")>>
      BY <1>1, <1>2, KeysOf
    <3>. QED
      BY <1>2, <3>1
  <2>2. Subject = Traversals[n] /\ n \in n .. 2
    BY <1>2, <1>4 DEF Subject, Subjects
  <2>3. store[Key] = NoEntry
    BY <1>2, <1>4, <2>1, <2>2 DEF OrderSound
  <2>. QED
    BY <2>3 DEF Hit
<1>. QED
  BY <1>1, <1>3, <1>4

\* No verdict is given at first, and only what a request has shown after that.
LEMMA NormalizationInit == Init => NormalizationGenuine
  BY DEF Init, NormalizationGenuine, NothingMapped

LEMMA NormalizationStep ==
    Basics /\ StoredAsAnswered /\ OrderSound /\ NormalizationGenuine /\ [Next]_vars => NormalizationGenuine'
<1>. SUFFICES ASSUME Basics, StoredAsAnswered, OrderSound, NormalizationGenuine, [Next]_vars
              PROVE  NormalizationGenuine'
  OBVIOUS
<1>. SUFFICES ASSUME NEW form \in TraversalForms
              PROVE  /\ form \notin site.resolves =>
                           /\ mapping'.origin[form] = "yes" => form \in site.collapses
                           /\ mapping'.origin[form] = "no" /\ base' = "current" => form \notin site.collapses
                     /\ mapping'.cache[form] = "before" /\ faults' = 0 => form \in site.resolves
                     /\ mapping'.cache[form] = "after" /\ faults' = 0 => form \notin site.resolves
  BY StoreStep DEF NormalizationGenuine
<1>1. mapping \in Mappings
  BY DEF Basics, TypeOK
<1>2. CASE base' # base
  <2>1. mapping = NothingMapped /\ Baseline
    BY <1>2, MappingMoves
  <2>2. mapping' = mapping
    BY <2>1 DEF Baseline
  <2>3. mapping'.origin[form] = "unknown" /\ mapping'.cache[form] = "unknown"
    BY <2>1, <2>2 DEF NothingMapped
  <2>. QED
    BY <2>3
<1>3. CASE base' = base /\ mapping'.origin = mapping.origin /\ mapping'.cache = mapping.cache
  BY <1>3, QuietStep DEF NormalizationGenuine
<1>4. CASE base' = base /\ DetourRequest /\ mapping' = [mapping EXCEPT !.origin[Subject] = IF Reply = base THEN "yes" ELSE "no"]
  <2>1. mapping'.cache = mapping.cache
        /\ mapping'.origin[form] = IF form = Subject THEN (IF Reply = base THEN "yes" ELSE "no") ELSE mapping.origin[form]
    BY <1>1, <1>4 DEF Mappings
  <2>2. mapping'.cache[form] = mapping.cache[form]
    BY <2>1
  <2>3. base \in {"current", "former"}
    BY DEF StoredAsAnswered
  <2>4. CASE form = Subject
    BY <1>4, <2>1, <2>2, <2>3, <2>4, DetourAnswered, QuietStep DEF NormalizationGenuine
  <2>5. CASE form # Subject
    BY <1>4, <2>1, <2>2, <2>5, QuietStep DEF NormalizationGenuine
  <2>. QED
    BY <2>4, <2>5
<1>5. CASE base' = base /\ OrderRequest /\ Hit /\ mapping' = [mapping EXCEPT !.cache[Subject] = OrderShown[pc]]
  <2>1. mapping'.origin = mapping.origin
        /\ mapping'.cache[form] = IF form = Subject THEN OrderShown[pc] ELSE mapping.cache[form]
    BY <1>1, <1>5 DEF Mappings
  <2>2. mapping'.origin[form] = mapping.origin[form]
    BY <2>1
  <2>3. CASE form = Subject
    BY <1>5, <2>1, <2>2, <2>3, OrderTells, QuietStep DEF NormalizationGenuine
  <2>4. CASE form # Subject
    BY <1>5, <2>1, <2>2, <2>4, QuietStep DEF NormalizationGenuine
  <2>. QED
    BY <2>3, <2>4
<1>6. Found(Subject, FALSE) \/ Found(Subject, TRUE) \/ mapping' = mapping
        => mapping'.origin = mapping.origin /\ mapping'.cache = mapping.cache
  BY <1>1 DEF Found, Mappings
<1>. QED
  BY <1>2, <1>3, <1>4, <1>5, <1>6, MappingMoves

-----------------------------------------------------------------------------
(* What a budget still reached *)

\* Whatever is not disturbed after a step was not before.
LEMMA UndisturbedBefore ==
    ASSUME Basics, [Next]_vars, Undisturbed'
    PROVE  /\ Undisturbed /\ faults = 0 /\ faults' = 0
           /\ WellIsolated /\ Isolated(site, mode) /\ ~site.loose /\ site.segment
           /\ base = "current" /\ base' = "current"
           /\ site' = site /\ mode' = mode /\ limit' = limit
           /\ Primary' = Primary /\ Whole' = Whole
           /\ \A d : OriginCuts(d)' = OriginCuts(d) /\ CutByCache(d)' = CutByCache(d)
<1>1. site' = site /\ mode' = mode /\ limit' = limit
  BY StoreStep
<1>2. WellIsolated' = WellIsolated
  BY <1>1 DEF WellIsolated, Isolated
<1>3. faults' = 0 /\ faults = 0
  BY QuietStep DEF Undisturbed
<1>4. base = "current"
  BY MappingMoves DEF Undisturbed, Baseline, Basics, Bookkeeping
<1>5. Isolated(site, mode)
  BY <1>2 DEF Undisturbed, WellIsolated
<1>6. Primary' = Primary /\ Whole' = Whole
  BY <1>1 DEF Primary, Whole, Swept, L
<1>7. \A d : OriginCuts(d)' = OriginCuts(d) /\ CutByCache(d)' = CutByCache(d)
  BY <1>1 DEF OriginCuts, CutByCache, CacheCuts
<1>. QED
  BY <1>1, <1>2, <1>3, <1>4, <1>5, <1>6, <1>7 DEF Undisturbed

\* The numbers the stages count with.
LEMMA Numbers ==
    ASSUME Basics
    PROVE  /\ n \in Nat \ {0} /\ L \in Nat /\ budget \in Nat /\ limit \in Nat /\ token \in Nat /\ retries \in Nat
           /\ Len(reverse) \in Nat /\ Len(reverse) <= L /\ reverse \in Seq(Characters)
           /\ Swept = L + 3 /\ Len(Delimiters) = L
           /\ pc = "sweep" => n <= L + 1
           /\ pc = "again" => n <= 2
           /\ pc = "reverse" => n <= Len(reverse) + 1
           /\ pc = "confirm" => n <= Len(reverse)
  BY Constants, MapperAssumption DEF Basics, TypeOK, Bookkeeping, Swept, L

\* Nothing is stored by a cache that does not store.
LEMMA StoredByStoring ==
    ASSUME Basics, [Next]_vars, NEW key \in Keys, store'[key] # store[key], store'[key] # NoEntry
    PROVE  site.stores
<1>1. CASE store' = store
  BY <1>1
<1>2. CASE Sent /\ Reaches
  <2>1. store'[Key] = IF store[Key] = NoEntry /\ site.stores THEN Answered(Path) ELSE store[Key]
    BY <1>2, RequestStores DEF Sent
  <2>2. key = Key
    BY <1>2, RequestStores DEF Sent
  <2>. QED
    BY <2>1, <2>2
<1>3. CASE Visit
  BY <1>3 DEF Visit, Filled
<1>4. CASE Expire
  BY <1>4 DEF Expire, Basics, TypeOK
<1>5. Requests => Sent /\ Reaches
  BY DEF Requests, Answers, Baseline, JunkRequest, SweepRequest, DetourRequest,
         PrimeRequest, RepeatRequest, OrderRequest, ReverseRequest, ConfirmRequest
<1>6. RequestFails => Sent /\ (Reaches \/ store' = store)
  BY DEF RequestFails
<1>7. EndStage \/ SkipForm \/ NoSecondAttempt \/ BusterFails \/ Record \/ UNCHANGED vars => store' = store
  BY DEF EndStage, SkipForm, NoSecondAttempt, BusterFails, Record, vars
<1>. QED
  BY <1>1, <1>2, <1>3, <1>4, <1>5, <1>6, <1>7 DEF Next, Mapper

\* The baseline is the resource as it is only if no former copy was met.
LEMMA PlainStep ==
    ASSUME Basics, StoredAsAnswered, [Next]_vars, Undisturbed', PlainEntry
    PROVE  PlainEntry'
<1>. DEFINE plain == <<Canonical, Resource>>
<1>1. plain \in Keys /\ site' = site /\ faults' = 0
  BY Constants, UndisturbedBefore DEF Keys, Paths
<1>. SUFFICES ASSUME pc' # "baseline"
              PROVE  store'[plain] \in {NoEntry, "current"} /\ (site.stores => store'[plain] = "current")
  BY <1>1 DEF PlainEntry, Resource
<1>2. CASE pc # "baseline"
  <2>1. store[plain] \in {NoEntry, "current"} /\ (site.stores => store[plain] = "current")
    BY <1>2 DEF PlainEntry
  <2>2. store'[plain] = store[plain]
    <3>1. CASE store[plain] # NoEntry
      BY <1>1, <3>1, EntryKept
    <3>2. CASE store[plain] = NoEntry
      <4>1. NoEntry # "current"
        BY MapperAssumption
      <4>. QED
        BY <1>1, <2>1, <3>2, <4>1, StoredByStoring
    <3>. QED
      BY <3>1, <3>2
  <2>. QED
    BY <2>1, <2>2
<1>3. CASE pc = "baseline"
  <2>1. Baseline
    <3>1. ~(EndStage \/ SkipForm \/ NoSecondAttempt \/ Record \/ Visit \/ UNCHANGED vars)
      BY <1>3 DEF EndStage, SkipForm, NoSecondAttempt, Record, Visit, vars, Stages
    <3>2. Requests => Baseline
      BY <1>3 DEF Requests, JunkRequest, SweepRequest, DetourRequest, PrimeRequest, RepeatRequest, OrderRequest,
         ReverseRequest, ConfirmRequest
    <3>. QED
      BY <1>1, <3>1, <3>2, QuietStep
  <2>2. Sending /\ Reaches /\ base' = Reply /\ base' = "current"
    BY <2>1, UndisturbedBefore DEF Baseline, Answers, Sent
  <2>3. Key = plain /\ Answered(Path) = "current"
    <3>1. Buster = Canonical /\ Path = Resource
      BY <1>3 DEF Buster, Path
    <3>2. Key = plain
      BY <2>2, <3>1, Constants, SendingKey, KeysOf DEF Basics, TypeOK
    <3>. QED
      BY <3>1, <3>2, OriginAnswers DEF Basics, TypeOK
  <2>4. store[plain] \in {NoEntry, "current"}
    BY <2>2, <2>3 DEF Reply, Answer
  <2>5. store'[plain] = IF store[plain] = NoEntry /\ site.stores THEN "current" ELSE store[plain]
    BY <2>2, <2>3, RequestStores
  <2>. QED
    BY <2>4, <2>5
<1>. QED
  BY <1>2, <1>3

\* The junk path is answered differently by an origin that is not loose.
LEMMA JunkTold ==
    ASSUME Basics, StoredAsAnswered, JunkRequest, ~site.loose, base = "current"
    PROVE  Reply # base
<1>1. pc = "junk" /\ Sending /\ site \in Sites
  BY DEF JunkRequest, Answers, Sent, Basics, TypeOK
<1>2. Path = Junk /\ Key = KeyUnder(Buster, Junk) /\ Buster \in Tokens /\ Key \in Keys
  BY <1>1, SendingKey DEF Path
<1>3. Key[2] = Junk
  <2>1. KeyUnder(Buster, Junk) = <<IF Isolated(site, mode) THEN Buster ELSE Canonical, Junk>>
    BY <1>1, <1>2, KeysOf
  <2>. QED
    BY <1>2, <2>1
<1>4. Reply = Answered(Junk)
  BY <1>2, <1>3, PathKinds DEF Reply, Answer, StoredAsAnswered
<1>. QED
  BY <1>1, <1>4, OriginAnswers

\* A step from one stage to another, or to the same, at a price.
Onward(from, to, place, price) == pc = from /\ pc' = to /\ n' = place /\ budget' = budget - price

\* The course of the stages, when nothing disturbs it and the sweep and the
\* detours are affordable.
OriginCourse ==
    \/ Baseline /\ Onward("baseline", "junk", 1, 0)
    \/ JunkRequest /\ Onward("junk", "sweep", 1, 1)
    \/ SweepRequest /\ Onward("sweep", "sweep", n + 1, 1) /\ n <= L
    \/ EndStage /\ Onward("sweep", "detour", 1, 0) /\ n = L + 1
    \/ DetourRequest /\ Onward("detour", "detour", n + 1, 1) /\ n \in 1 .. 2
    \/ EndStage /\ Onward("detour", "prime", 1, 0) /\ n = 3
OrderCourse ==
    \/ /\ EndStage /\ Onward("prime", "reverse", 1, 0)
       /\ Whole => \A form \in TraversalForms : mapping.origin[form] # "yes"
    \/ PrimeRequest /\ Onward("prime", "repeat", 1, 1)
    \/ RepeatRequest /\ Hit /\ Onward("repeat", "order", 1, 1)
    \/ RepeatRequest /\ ~Hit /\ Onward("repeat", "reverse", 1, 1)
    \/ SkipForm /\ Onward("order", "order", n + 1, 0) /\ n \in 1 .. 2 /\ mapping.origin[Subject] # "yes"
    \/ OrderRequest /\ Onward("order", "order", n + 1, 1) /\ n \in 1 .. 2 /\ (Reply # base \/ Hit)
    \/ OrderRequest /\ Onward("order", "again", n, 1) /\ n \in 1 .. 2 /\ ~Hit
    \/ OrderRequest /\ Onward("again", "order", n + 1, 1) /\ n \in 1 .. 2
    \/ NoSecondAttempt /\ Onward("again", "order", n + 1, 0) /\ n \in 1 .. 2 /\ ~Whole
    \/ EndStage /\ Onward("order", "reverse", 1, 0) /\ (Whole => n = 3)
ReverseCourse ==
    \/ ReverseRequest /\ Onward("reverse", "confirm", n, 1) /\ n <= Len(reverse) /\ suffixed' = Reply
    \/ ReverseRequest /\ Onward("reverse", "reverse", n + 1, 1) /\ n <= Len(reverse) /\ Reply \in {base, "failed"}
    \/ ConfirmRequest /\ Onward("confirm", "reverse", n + 1, 1) /\ n <= Len(reverse)
    \/ EndStage /\ Onward("reverse", "record", 1, 0) /\ (Whole => n = Len(reverse) + 1)
    \/ Record /\ Onward("record", "done", n, 0)
Still == (Visit \/ UNCHANGED vars) /\ UNCHANGED <<pc, n, budget, token, suffixed, reverse, mapping>>

\* An answered request is paid for, if it is not the baseline.
LEMMA AnswersCost ==
    ASSUME Answers, retries = 0
    PROVE  budget' = IF pc = "baseline" THEN budget ELSE budget - 1
  BY DEF Answers, Sent, Paid

\* A stage ends when it is through, not for want of budget.
LEMMA CourseOfEnds ==
    ASSUME Basics, Undisturbed, Primary, Affordable, EndStage
    PROVE  OriginCourse \/ OrderCourse \/ ReverseCourse
<1>1. /\ pc \in Stages /\ pc' = After[pc] /\ n' = 1 /\ budget' = budget
      /\ \/ n > Len(Subjects) \/ ~Affords
         \/ pc = "detour" /\ ~site.segment
         \/ pc = "prime" /\ \A form \in TraversalForms : mapping.origin[form] # "yes"
  BY DEF EndStage, Go
<1>2. site.segment /\ limit >= L + 3
  BY Numbers DEF Undisturbed, Primary
<1>3. Whole => limit >= 3 * L + 9
  BY Numbers DEF Whole
<1>4. n \in Nat \ {0} /\ L \in Nat /\ budget \in Nat /\ limit \in Nat /\ Len(reverse) \in Nat /\ Len(reverse) <= L
  BY Numbers
<1>5. CASE pc = "junk"
  <2>1. Len(Subjects) = 1 /\ (Affords <=> budget >= 1) /\ n = 1 /\ budget = limit
    BY <1>5 DEF Subjects, Affords, Affordable
  <2>. QED
    BY <1>1, <1>2, <1>4, <1>5, <2>1
<1>6. CASE pc = "sweep"
  <2>1. Len(Subjects) = L /\ (Affords <=> budget >= 1) /\ n <= L + 1 /\ budget = limit - n
    BY <1>6, Numbers DEF Subjects, Affords, Affordable
  <2>2. n = L + 1
    BY <1>1, <1>2, <1>4, <1>6, <2>1
  <2>. QED
    BY <1>1, <1>4, <1>6, <2>2, AfterStages DEF OriginCourse, Onward
<1>7. CASE pc = "detour"
  <2>1. Len(Subjects) = 2 /\ (Affords <=> budget >= 1) /\ n <= 3 /\ budget = limit - L - n
    BY <1>7, Constants DEF Subjects, Affords, Affordable
  <2>2. n = 3
    BY <1>1, <1>2, <1>4, <1>7, <2>1
  <2>. QED
    BY <1>1, <1>4, <1>7, <2>2, AfterStages DEF OriginCourse, Onward
<1>8. CASE pc = "prime"
  <2>1. Len(Subjects) = 1 /\ (Affords <=> budget >= 3) /\ n = 1 /\ (Whole => budget >= 2 * L + 6)
    BY <1>8 DEF Subjects, Affords, AffordsOrder, Affordable, Owed
  <2>2. Whole => \A form \in TraversalForms : mapping.origin[form] # "yes"
    BY <1>1, <1>4, <1>8, <2>1
  <2>. QED
    BY <1>1, <1>4, <1>8, <2>2, AfterStages DEF OrderCourse, Onward
<1>9. CASE pc = "order"
  <2>1. Len(Subjects) = 2 /\ (Affords <=> budget >= 1) /\ n <= 3 /\ (Whole => budget >= 2 * L + 2 * (3 - n))
    BY <1>9, Constants DEF Subjects, Affords, Affordable, Owed
  <2>2. Whole => n = 3
    BY <1>1, <1>4, <1>9, <2>1
  <2>. QED
    BY <1>1, <1>4, <1>9, <2>2, AfterStages DEF OrderCourse, Onward
<1>10. CASE pc = "reverse"
  <2>1. Len(Subjects) = Len(reverse) /\ (Affords <=> budget >= 2) /\ n <= Len(reverse) + 1
        /\ (Whole => budget >= 2 * L - 2 * (n - 1))
    BY <1>10, Numbers DEF Subjects, Affords, Affordable, Owed
  <2>2. Whole => n = Len(reverse) + 1
    BY <1>1, <1>4, <1>10, <2>1
  <2>. QED
    BY <1>1, <1>4, <1>10, <2>2, AfterStages DEF ReverseCourse, Onward
<1>. QED
  BY <1>1, <1>5, <1>6, <1>7, <1>8, <1>9, <1>10 DEF Stages

\* Every answered request leads where its answer says, at the price of one.
LEMMA CourseOfRequests ==
    ASSUME Basics, StoredAsAnswered, Undisturbed, retries = 0, Requests
    PROVE  OriginCourse \/ OrderCourse \/ ReverseCourse
<1>1. n \in Nat \ {0} /\ L \in Nat /\ budget \in Nat /\ Len(reverse) \in Nat
  BY Numbers
<1>2. Requests => Answers
  BY DEF Requests, Baseline, JunkRequest, SweepRequest, DetourRequest, PrimeRequest, RepeatRequest, OrderRequest,
     ReverseRequest, ConfirmRequest
<1>3. budget' = (IF pc = "baseline" THEN budget ELSE budget - 1) /\ Sending /\ Sent
  BY <1>2, AnswersCost DEF Answers, Sent
<1>4. CASE Baseline
  BY <1>1, <1>3, <1>4 DEF Baseline, Go, OriginCourse, Onward
<1>5. CASE JunkRequest
  <2>1. Reply # base
    BY <1>5, JunkTold DEF Undisturbed
  <2>. QED
    BY <1>3, <1>5, <2>1 DEF JunkRequest, Go, OriginCourse, Onward
<1>6. CASE SweepRequest
  <2>1. pc = "sweep" /\ pc' = "sweep" /\ n' = n + 1
    BY <1>6 DEF SweepRequest, NextSubject
  <2>2. n <= L
    BY <1>3, <2>1, SentKeeps
  <2>. QED
    BY <1>3, <1>6, <2>1, <2>2 DEF OriginCourse, Onward
<1>7. CASE DetourRequest
  <2>1. pc = "detour" /\ pc' = "detour" /\ n' = n + 1
    BY <1>7 DEF DetourRequest, NextSubject
  <2>2. n \in 1 .. 2
    BY <1>3, <2>1, SendingPath
  <2>. QED
    BY <1>3, <1>7, <2>1, <2>2 DEF OriginCourse, Onward
<1>8. CASE PrimeRequest
  BY <1>3, <1>8 DEF PrimeRequest, Go, OrderCourse, Onward
<1>9. CASE RepeatRequest
  BY <1>3, <1>9, AfterStages DEF RepeatRequest, Go, OrderCourse, Onward
<1>10. CASE OrderRequest
  <2>1. pc \in {"order", "again"}
    BY <1>10 DEF OrderRequest
  <2>2. n \in 1 .. 2 /\ budget' = budget - 1
    BY <1>3, <2>1, SendingPath
  <2>3. CASE Reply = base /\ Hit
    <3>1. pc' = "order" /\ n' = n + 1
      BY <1>10, <2>1, <2>3 DEF OrderRequest, NextSubject
    <3>. QED
      BY <1>10, <2>1, <2>2, <2>3, <3>1 DEF OrderCourse, Onward
  <2>4. CASE Reply # base
    <3>1. pc' = "order" /\ n' = n + 1
      BY <1>10, <2>1, <2>4 DEF OrderRequest, NextSubject
    <3>. QED
      BY <1>10, <2>1, <2>2, <2>4, <3>1 DEF OrderCourse, Onward
  <2>5. CASE Reply = base /\ ~Hit
    <3>1. \/ pc = "order" /\ pc' = "again" /\ n' = n
          \/ pc = "again" /\ pc' = "order" /\ n' = n + 1
      BY <1>10, <2>1, <2>5 DEF OrderRequest, NextSubject
    <3>. QED
      BY <1>10, <2>1, <2>2, <2>5, <3>1 DEF OrderCourse, Onward
  <2>. QED
    BY <2>3, <2>4, <2>5
<1>11. CASE ReverseRequest
  <2>1. pc = "reverse" /\ n <= Len(reverse)
    BY <1>3, <1>11, SentKeeps DEF ReverseRequest
  <2>. QED
    BY <1>3, <1>11, <2>1 DEF ReverseRequest, NextSubject, ReverseCourse, Onward
<1>12. CASE ConfirmRequest
  <2>1. pc = "confirm" /\ n <= Len(reverse)
    BY <1>3, <1>12, SentKeeps DEF ConfirmRequest
  <2>. QED
    BY <1>3, <1>12, <2>1 DEF ConfirmRequest, NextSubject, ReverseCourse, Onward
<1>. QED
  BY <1>4, <1>5, <1>6, <1>7, <1>8, <1>9, <1>10, <1>11, <1>12 DEF Requests

\* So every step is on the course of the stages, or none of the mapper's.
LEMMA Course ==
    ASSUME Basics, StoredAsAnswered, OrderSound, [Next]_vars, Undisturbed', Primary, Affordable
    PROVE  Still \/ OriginCourse \/ OrderCourse \/ ReverseCourse
<1>1. Undisturbed /\ retries = 0 /\ faults' = 0
  BY UndisturbedBefore DEF OrderSound
<1>2. n \in Nat \ {0} /\ L \in Nat /\ budget \in Nat
  BY Numbers
<1>3. Visit \/ UNCHANGED vars => Still
  BY DEF Still, Visit, vars
<1>4. SkipForm => OrderCourse
  <2>. SUFFICES ASSUME SkipForm PROVE OrderCourse
    OBVIOUS
  <2>1. pc = "order" /\ pc' = "order" /\ n' = n + 1 /\ budget' = budget /\ n <= 2 /\ mapping.origin[Subject] # "yes"
    BY Constants DEF SkipForm, NextSubject
  <2>. QED
    BY <1>2, <2>1 DEF OrderCourse, Onward
<1>5. NoSecondAttempt => OrderCourse
  <2>. SUFFICES ASSUME NoSecondAttempt PROVE OrderCourse
    OBVIOUS
  <2>1. pc = "again" /\ pc' = "order" /\ n' = n + 1 /\ budget' = budget /\ budget = 0 /\ n <= 2
    BY Numbers DEF NoSecondAttempt, NextSubject
  <2>2. Whole => budget >= 2 * L + 2 * (2 - n) + 1
    BY <2>1 DEF Affordable, Owed
  <2>3. ~Whole
    BY <1>2, <2>1, <2>2
  <2>. QED
    BY <1>2, <2>1, <2>3 DEF OrderCourse, Onward
<1>6. Record => ReverseCourse
  BY <1>2 DEF Record, ReverseCourse, Onward
<1>. QED
  BY <1>1, <1>3, <1>4, <1>5, <1>6, QuietStep, CourseOfEnds, CourseOfRequests

\* The price of what is to come is left.
LEMMA AffordableStep ==
    ASSUME Basics, StoredAsAnswered, OrderSound, [Next]_vars, Undisturbed', Primary, Affordable
    PROVE  Affordable'
<1>1. n \in Nat \ {0} /\ L \in Nat /\ budget \in Nat /\ limit \in Nat
  BY Numbers
<1>2. limit' = limit /\ L' = L /\ Whole' = Whole /\ (Whole => limit >= 3 * L + 9)
  <2>1. L' = L
    BY DEF L
  <2>2. Whole => limit >= 3 * L + 9
    BY <1>1, Numbers DEF Whole
  <2>. QED
    BY <2>1, <2>2, UndisturbedBefore
<1>3. CASE Still
  <2>1. pc' = pc /\ n' = n /\ budget' = budget
    BY <1>3 DEF Still
  <2>. QED
    BY <1>2, <2>1 DEF Affordable, Owed
<1>4. CASE OriginCourse
  BY <1>1, <1>2, <1>4 DEF OriginCourse, Onward, Affordable, Owed
<1>5. CASE OrderCourse
  BY <1>1, <1>2, <1>5 DEF OrderCourse, Onward, Affordable, Owed
<1>6. CASE ReverseCourse
  <2>1. /\ Whole /\ pc = "reverse" => budget >= 2 * L - 2 * (n - 1)
        /\ Whole /\ pc = "confirm" => budget >= 2 * L - 2 * (n - 1) - 1
    BY DEF Affordable, Owed
  <2>2. budget' \in Nat
    BY <1>1, <1>2, BasicsStep DEF Basics, TypeOK
  <2>3. /\ pc' \in {"reverse", "confirm", "record", "done"} /\ n' \in Nat
        /\ Whole /\ pc' = "reverse" => budget' >= 2 * L - 2 * (n' - 1)
        /\ Whole /\ pc' = "confirm" => budget' >= 2 * L - 2 * (n' - 1) - 1
        /\ pc' \in {"record", "done"} => budget' = budget
    BY <1>1, <1>6, <2>1 DEF ReverseCourse, Onward
  <2>. QED
    BY <1>1, <1>2, <2>2, <2>3 DEF Affordable, Owed
<1>. QED
  BY <1>3, <1>4, <1>5, <1>6, Course

\* What is found is reported, besides what was.
LEMMA FoundIsReported ==
    ASSUME mapping \in Mappings, NEW delimiter, NEW cacheOnly \in BOOLEAN, Found(delimiter, cacheOnly)
    PROVE  delimiter \in Reported(cacheOnly)' /\ \A asked \in BOOLEAN : Reported(asked) \subseteq Reported(asked)'
<1>. DEFINE new == [delimiter |-> delimiter, cacheOnly |-> cacheOnly, cacheable |-> cacheOnly \/ site.stores]
<1>1. mapping'.delimiters = mapping.delimiters \cup {new}
  BY DEF Found, Mappings
<1>2. new.delimiter = delimiter /\ new.cacheOnly = cacheOnly
  OBVIOUS
<1>. HIDE DEF new
<1>. QED
  BY <1>1, <1>2 DEF Reported

\* What is reported stays reported.
LEMMA ReportedKept ==
    ASSUME Basics, [Next]_vars, NEW asked \in BOOLEAN
    PROVE  Reported(asked) \subseteq Reported(asked)'
<1>1. mapping \in Mappings
  BY DEF Basics, TypeOK
<1>2. mapping'.delimiters = mapping.delimiters => Reported(asked)' = Reported(asked)
  BY DEF Reported
<1>3. \/ mapping' = mapping
      \/ mapping' = [mapping EXCEPT !.origin[Subject] = IF Reply = base THEN "yes" ELSE "no"]
      \/ mapping' = [mapping EXCEPT !.cache[Subject] = OrderShown[pc]]
      => mapping'.delimiters = mapping.delimiters
  BY <1>1 DEF Mappings
<1>4. Found(Subject, FALSE) \/ Found(Subject, TRUE) => Reported(asked) \subseteq Reported(asked)'
  BY <1>1, FoundIsReported
<1>. QED
  BY <1>2, <1>3, <1>4, MappingMoves

\* The verdict on a form comes with the requests for it, and one on the cache stays.
LEMMA VerdictsMove ==
    ASSUME Basics, [Next]_vars, NEW form \in TraversalForms
    PROVE  /\ \/ mapping'.origin[form] = mapping.origin[form]
              \/ DetourRequest /\ form = Subject
           /\ mapping.cache[form] # "unknown" => mapping'.cache[form] # "unknown"
<1>1. mapping \in Mappings
  BY DEF Basics, TypeOK
<1>2. mapping' = mapping \/ Found(Subject, FALSE) \/ Found(Subject, TRUE)
        => mapping'.origin = mapping.origin /\ mapping'.cache = mapping.cache
  BY <1>1 DEF Found, Mappings
<1>3. CASE DetourRequest /\ mapping' = [mapping EXCEPT !.origin[Subject] = IF Reply = base THEN "yes" ELSE "no"]
  <2>1. /\ mapping'.cache = mapping.cache
        /\ form # Subject => mapping'.origin[form] = mapping.origin[form]
    BY <1>1, <1>3 DEF Mappings
  <2>. QED
    BY <1>3, <2>1
<1>4. CASE OrderRequest /\ mapping' = [mapping EXCEPT !.cache[Subject] = OrderShown[pc]]
  <2>1. /\ mapping'.origin = mapping.origin
        /\ mapping'.cache[form] = IF form = Subject THEN OrderShown[pc] ELSE mapping.cache[form]
    BY <1>1, <1>4 DEF Mappings
  <2>2. OrderShown[pc] # "unknown"
    BY <1>4 DEF OrderRequest, OrderShown
  <2>. QED
    BY <2>1, <2>2
<1>. QED
  BY <1>2, <1>3, <1>4, MappingMoves

\* The delimiters to try the other way round are collected by the sweep.
LEMMA ReverseMoves ==
    ASSUME [Next]_vars, ~SweepRequest
    PROVE  reverse' = reverse
  BY DEF Next, Mapper, Requests, vars, EndStage, SkipForm, NoSecondAttempt, RequestFails, BusterFails, Record,
     Visit, Expire, Answers, Baseline, JunkRequest, DetourRequest, PrimeRequest, RepeatRequest, OrderRequest,
     ReverseRequest, ConfirmRequest

\* Each delimiter of the sweep is found, or kept for the other way round.
LEMMA SweptStep ==
    ASSUME Basics, StoredAsAnswered, Apart, OrderSound, [Next]_vars, Undisturbed', Primary, Affordable, SweptSo
    PROVE  SweptSo'
<1>1. n \in Nat \ {0} /\ L \in Nat /\ reverse \in Seq(Characters) /\ L' = L
  BY Numbers DEF L
<1>. SUFFICES ASSUME NEW i \in 1 .. SweptTo'
              PROVE  \/ OriginCuts(Delimiters[i]) /\ Delimiters[i] \in Reported(FALSE)'
                     \/ ~OriginCuts(Delimiters[i]) /\ \E j \in DOMAIN reverse' : reverse'[j] = Delimiters[i]
  BY UndisturbedBefore DEF SweptSo
<1>2. \/ SweptTo' = SweptTo /\ ~SweepRequest
      \/ SweepRequest /\ SweptTo = n - 1 /\ SweptTo' = n /\ n <= L
  <2>1. pc # "sweep" => ~SweepRequest
    BY DEF SweepRequest
  <2>2. CASE Still
    <3>1. pc' = pc /\ n' = n
      BY <2>2 DEF Still
    <3>2. SweepRequest => n' = n + 1
      BY DEF SweepRequest, NextSubject
    <3>3. ~SweepRequest
      BY <1>1, <3>1, <3>2
    <3>. QED
      BY <1>1, <3>1, <3>3 DEF SweptTo
  <2>3. CASE OriginCourse
    <3>1. pc' # "sweep" => ~SweepRequest
      BY DEF SweepRequest, NextSubject
    <3>. QED
      BY <1>1, <2>1, <2>3, <3>1 DEF OriginCourse, Onward, SweptTo
  <2>4. CASE OrderCourse
    BY <1>1, <2>1, <2>4 DEF OrderCourse, Onward, SweptTo
  <2>5. CASE ReverseCourse
    BY <1>1, <2>1, <2>5 DEF ReverseCourse, Onward, SweptTo
  <2>. QED
    BY <2>2, <2>3, <2>4, <2>5, Course
<1>3. CASE SweptTo' = SweptTo /\ ~SweepRequest
  <2>1. reverse' = reverse /\ Reported(FALSE) \subseteq Reported(FALSE)' /\ i \in 1 .. SweptTo
    BY <1>3, ReverseMoves, ReportedKept
  <2>. QED
    BY <2>1 DEF SweptSo
<1>4. CASE SweepRequest /\ SweptTo = n - 1 /\ SweptTo' = n /\ n <= L
  <2>1. Reported(FALSE) \subseteq Reported(FALSE)' /\ mapping \in Mappings
    BY ReportedKept DEF Basics, TypeOK
  <2>2. reverse' = reverse \/ reverse' = Append(reverse, Subject)
    BY <1>4 DEF SweepRequest
  <2>3. /\ Subject \in Characters
        /\ \A j \in DOMAIN reverse : j \in DOMAIN reverse' /\ reverse'[j] = reverse[j]
        /\ reverse' = Append(reverse, Subject) => \E j \in DOMAIN reverse' : reverse'[j] = Subject
    <3>1. Subject \in Characters
      BY <1>4, SweptAsAnswered, UndisturbedBefore
    <3>2. CASE reverse' = reverse
      <4>1. reverse # Append(reverse, Subject)
        <5>1. Len(Append(reverse, Subject)) = Len(reverse) + 1 /\ Len(reverse) \in Nat
          BY <1>1, <3>1
        <5>. QED
          BY <5>1
      <4>. QED
        BY <3>1, <3>2, <4>1
    <3>3. CASE reverse' = Append(reverse, Subject)
      <4>1. /\ Len(reverse) \in Nat /\ DOMAIN reverse = 1 .. Len(reverse)
            /\ DOMAIN reverse' = 1 .. Len(reverse) + 1
            /\ \A j \in 1 .. Len(reverse) : reverse'[j] = reverse[j]
            /\ reverse'[Len(reverse) + 1] = Subject
        BY <1>1, <3>1, <3>3
      <4>2. Len(reverse) + 1 \in DOMAIN reverse'
        BY <4>1
      <4>. QED
        BY <3>1, <4>1, <4>2
    <3>. QED
      BY <2>2, <3>2, <3>3
  <2>4. CASE i \in 1 .. SweptTo
    BY <2>1, <2>3, <2>4 DEF SweptSo
  <2>5. CASE i = n
    <3>1. Delimiters[i] = Subject
      BY <1>4, <2>5 DEF Subject, Subjects, SweepRequest
    <3>2. Reply = site.answers[Subject] /\ base = "current"
      BY <1>4, <2>3, SweptAsAnswered, UndisturbedBefore, OriginAnswers DEF Basics, TypeOK
    <3>3. CASE Reply = base
      <4>1. OriginCuts(Subject)
        BY <3>2, <3>3, UndisturbedBefore DEF OriginCuts
      <4>2. Found(Subject, FALSE)
        BY <1>4, <3>3 DEF SweepRequest
      <4>3. Subject \in Reported(FALSE)'
        BY <2>1, <4>2, FoundIsReported
      <4>. QED
        BY <3>1, <4>1, <4>3
    <3>4. CASE Reply # base
      <4>1. ~OriginCuts(Subject)
        BY <3>2, <3>4 DEF OriginCuts
      <4>2. reverse' = Append(reverse, Subject)
        BY <1>4, <3>4 DEF SweepRequest
      <4>. QED
        BY <2>3, <3>1, <4>1, <4>2
    <3>. QED
      BY <3>3, <3>4
  <2>6. i \in 1 .. SweptTo \/ i = n
    BY <1>1, <1>4
  <2>. QED
    BY <2>4, <2>5, <2>6
<1>. QED
  BY <1>2, <1>3, <1>4

\* A form the origin collapses is seen to be: nothing but the resource is in
\* the entry the detour may share with it.
LEMMA DetouredStep ==
    ASSUME Basics, StoredAsAnswered, OrderSound, [Next]_vars, Undisturbed', Primary, Affordable, PlainEntry, DetouredSo
    PROVE  DetouredSo'
<1>1. n \in Nat \ {0} /\ mapping \in Mappings /\ site \in Sites
  BY Numbers DEF Basics, TypeOK
<1>. SUFFICES ASSUME NEW i \in 1 .. DetouredTo', Traversals[i] \in site.collapses
              PROVE  mapping'.origin[Traversals[i]] = "yes"
  BY UndisturbedBefore DEF DetouredSo
<1>2. \/ DetouredTo' = DetouredTo /\ ~DetourRequest
      \/ DetourRequest /\ DetouredTo = n - 1 /\ DetouredTo' = n /\ n \in 1 .. 2
  <2>1. pc # "detour" => ~DetourRequest
    BY DEF DetourRequest
  <2>2. CASE Still
    <3>1. pc' = pc /\ n' = n
      BY <2>2 DEF Still
    <3>2. DetourRequest => n' = n + 1
      BY DEF DetourRequest, NextSubject
    <3>3. ~DetourRequest
      BY <1>1, <3>1, <3>2
    <3>. QED
      BY <1>1, <3>1, <3>3 DEF DetouredTo
  <2>3. CASE OriginCourse
    <3>1. pc' # "detour" => ~DetourRequest
      BY DEF DetourRequest, NextSubject
    <3>. QED
      BY <1>1, <2>1, <2>3, <3>1 DEF OriginCourse, Onward, DetouredTo
  <2>4. CASE OrderCourse
    BY <1>1, <2>1, <2>4 DEF OrderCourse, Onward, DetouredTo
  <2>5. CASE ReverseCourse
    BY <1>1, <2>1, <2>5 DEF ReverseCourse, Onward, DetouredTo
  <2>. QED
    BY <2>2, <2>3, <2>4, <2>5, Course
<1>3. DetouredTo' <= 2 /\ Traversals[i] \in TraversalForms /\ i \in 1 .. 2
  <2>1. DetouredTo' \in 0 .. 2
    <3>1. Affordable' /\ n' \in Nat \ {0}
      BY AffordableStep, BasicsStep DEF Basics, TypeOK
    <3>. QED
      BY <3>1 DEF Affordable, DetouredTo
  <2>. QED
    BY <2>1, Constants
<1>4. CASE DetouredTo' = DetouredTo /\ ~DetourRequest
  BY <1>3, <1>4, VerdictsMove DEF DetouredSo
<1>5. CASE DetourRequest /\ DetouredTo = n - 1 /\ DetouredTo' = n /\ n \in 1 .. 2
  <2>1. Subject = Traversals[n] /\ pc = "detour"
    BY <1>5 DEF Subject, Subjects, DetourRequest
  <2>2. CASE i # n
    <3>1. Traversals[i] # Subject /\ i \in 1 .. DetouredTo
      BY <1>1, <1>3, <1>5, <2>1, <2>2, Constants
    <3>. QED
      BY <1>3, <3>1, VerdictsMove DEF DetouredSo
  <2>3. CASE i = n
    <3>1. Subject \in TraversalForms /\ Subject \in site.collapses /\ Traversals[i] = Subject
      BY <1>3, <2>1, <2>3
    <3>2. Reply = "current"
      <4>1. CASE Subject \notin site.resolves
        BY <1>5, <3>1, <4>1, DetourAnswered
      <4>2. CASE Subject \in site.resolves
        <5>1. /\ Sending /\ Path = Detour(Subject, "origin") /\ Buster = Canonical /\ Key = KeyUnder(Buster, Path)
              /\ Key \in Keys
          BY <1>5, <2>1, SendingKey DEF DetourRequest, Answers, Sent, Path, Buster
        <5>2. Key = <<Canonical, Resource>>
          <6>1. KeyUnder(Canonical, Detour(Subject, "origin")) = <<Canonical, Resource>>
            BY <1>1, <3>1, <4>2, Constants, KeysOf
          <6>. QED
            BY <5>1, <6>1
        <5>3. store[Key] \in {NoEntry, "current"}
          BY <2>1, <5>2 DEF PlainEntry
        <5>4. Answered(Path) = "current"
          BY <1>1, <3>1, <5>1, OriginAnswers
        <5>. QED
          BY <5>3, <5>4 DEF Reply, Answer
      <4>. QED
        BY <4>1, <4>2
    <3>3. mapping' = [mapping EXCEPT !.origin[Subject] = "yes"]
      BY <1>5, <3>2, UndisturbedBefore DEF DetourRequest
    <3>4. mapping'.origin[Subject] = "yes"
      BY <1>1, <3>1, <3>3 DEF Mappings
    <3>. QED
      BY <3>1, <3>4
  <2>. QED
    BY <2>2, <2>3
<1>. QED
  BY <1>2, <1>4, <1>5

\* Under a buster there is, the keys are its own where it is keyed.
LEMMA KeysApart ==
    ASSUME Basics, Isolated(site, mode), NEW b \in Tokens
    PROVE  /\ KeyUnder(b, Resource) = <<b, Resource>> /\ <<b, Resource>> \in Keys
           /\ \A form \in TraversalForms :
                 /\ form \in site.resolves => KeyUnder(b, Detour(form, "cache")) = <<b, Resource>>
                 /\ form \notin site.resolves => KeyUnder(b, Detour(form, "cache")) = <<b, Detour(form, "cache")>>
                 /\ <<b, Detour(form, "cache")>> \in Keys
<1>1. site \in Sites
  BY DEF Basics, TypeOK
<1>2. \A form \in TraversalForms : <<b, Detour(form, "cache")>> \in Keys
  BY DEF Keys, Paths
<1>. QED
  BY <1>1, <1>2, KeysOf

\* A form the origin collapses is answered the resource, whatever its key; it
\* hits if its key holds an entry.
LEMMA OrderAnswered ==
    ASSUME Basics, StoredAsAnswered, Isolated(site, mode), OrderRequest, store[<<token, Resource>>] = "current",
           Subject \in site.collapses
    PROVE  /\ Reply = "current" /\ Sending /\ Reaches /\ Subject \in TraversalForms /\ Answered(Path) = "current"
           /\ Key = IF Subject \in site.resolves THEN <<token, Resource>> ELSE <<token, Detour(Subject, "cache")>>
           /\ store[Key] \in {NoEntry, "current"}
<1>1. pc \in {"order", "again"} /\ Sending /\ Reaches /\ site \in Sites /\ token \in Tokens
  BY DEF OrderRequest, Answers, Sent, Basics, TypeOK
<1>2. Subject \in TraversalForms /\ Path = Detour(Subject, "cache") /\ Buster = token /\ Key = KeyUnder(token, Path)
  BY <1>1, SendingPath DEF Path, Buster, NewBuster, Key
<1>3. Answered(Path) = "current"
  BY <1>1, <1>2, OriginAnswers
<1>4. Key = IF Subject \in site.resolves THEN <<token, Resource>> ELSE <<token, Detour(Subject, "cache")>>
  BY <1>1, <1>2, KeysApart
<1>5. store[Key] \in {NoEntry, "current"}
  <2>1. CASE Subject \in site.resolves
    BY <1>4, <2>1
  <2>2. CASE Subject \notin site.resolves
    <3>1. <<token, Detour(Subject, "cache")>> \in Keys
      BY <1>1, <1>2, KeysApart
    <3>. QED
      BY <1>2, <1>3, <1>4, <2>2, <3>1, PathKinds DEF StoredAsAnswered
  <2>. QED
    BY <2>1, <2>2
<1>. QED
  BY <1>1, <1>2, <1>3, <1>4, <1>5 DEF Reply, Answer

\* The cache's order: the resource is stored, and stays.
LEMMA OrderedEntries ==
    ASSUME Basics, StoredAsAnswered, Apart, OrderSound, [Next]_vars, Undisturbed', Primary, Whole, Affordable,
           OrderedSo
    PROVE  /\ pc' \in {"repeat", "order", "again"} => store'[<<token', Resource>>] = "current"
           /\ pc' = "again" /\ Subject' \in site.collapses =>
                 store'[<<token', Detour(Subject', "cache")>>] = "current"
<1>1. Isolated(site, mode) /\ faults = 0 /\ faults' = 0 /\ site' = site /\ site.stores /\ NoEntry # "current"
      /\ site \in Sites /\ token \in Tokens
  BY UndisturbedBefore, MapperAssumption DEF Whole, Basics, TypeOK
<1>2. ASSUME pc' \in {"repeat", "order", "again"} PROVE store'[<<token', Resource>>] = "current"
  <2>1. CASE PrimeRequest
    <3>1. Sending /\ Reaches /\ pc = "prime" /\ retries = 0 /\ token' = token + 1 /\ token' \in Tokens
      BY <1>1, <2>1, SentKeeps DEF PrimeRequest, Answers, Sent, OrderSound, NewBuster
    <3>2. Path = Resource /\ Buster = token' /\ Key = <<token', Resource>> /\ Key \in Keys
      BY <1>1, <3>1, KeysApart DEF Path, Buster, NewBuster, Key
    <3>3. store[Key] = NoEntry
      <4>1. token' > token
        BY <3>1, Numbers
      <4>. QED
        BY <1>1, <3>2, <4>1 DEF Apart, FutureUntouched
    <3>4. Answered(Path) = "current"
      BY <1>1, <3>2, OriginAnswers
    <3>. QED
      BY <1>1, <3>1, <3>2, <3>3, <3>4, RequestStores
  <2>2. CASE pc \in {"repeat", "order", "again"}
    <3>1. token' = token /\ store[<<token, Resource>>] = "current" /\ <<token, Resource>> \in Keys
      BY <1>1, <2>2, TokenKept, KeysApart DEF OrderedSo
    <3>. QED
      BY <1>1, <3>1, EntryKept
  <2>3. PrimeRequest \/ pc \in {"repeat", "order", "again"}
    <3>1. CASE Still
      BY <1>2, <3>1 DEF Still
    <3>2. ~OriginCourse /\ ~ReverseCourse
      BY <1>2 DEF OriginCourse, ReverseCourse, Onward
    <3>3. CASE OrderCourse
      BY <1>2, <3>3 DEF OrderCourse, Onward
    <3>. QED
      BY <3>1, <3>2, <3>3, Course
  <2>. QED
    BY <2>1, <2>2, <2>3
<1>3. ASSUME pc' = "again", Subject' \in site.collapses
      PROVE  store'[<<token', Detour(Subject', "cache")>>] = "current"
  <2>1. /\ n' = n /\ pc \in {"order", "again"}
        /\ \/ OrderRequest /\ pc = "order"
           \/ pc = "again"
    BY <1>1, <1>3, OrderMoves
  <2>2. Subject' = Subject /\ token' = token /\ store[<<token, Resource>>] = "current"
    BY <1>3, <2>1, TokenKept DEF Subject, Subjects, OrderedSo
  <2>3. CASE pc = "again"
    <3>1. Subject \in TraversalForms
      BY <2>3, Constants, Numbers DEF Subject, Subjects
    <3>2. <<token, Detour(Subject, "cache")>> \in Keys /\ store[<<token, Detour(Subject, "cache")>>] = "current"
      BY <1>1, <1>3, <2>2, <2>3, <3>1, KeysApart DEF OrderedSo
    <3>. QED
      BY <1>1, <2>2, <3>2, EntryKept
  <2>4. CASE OrderRequest /\ pc = "order"
    <3>1. Subject \notin site.resolves
      <4>1. OrderSound'
        BY OrderStep
      <4>. QED
        BY <1>1, <1>3, <2>2, <4>1 DEF OrderSound
    <3>2. /\ Sending /\ Reaches /\ Key = <<token, Detour(Subject, "cache")>> /\ store[Key] \in {NoEntry, "current"}
          /\ Answered(Path) = "current"
      BY <1>1, <1>3, <2>2, <2>4, <3>1, OrderAnswered
    <3>. QED
      BY <1>1, <2>2, <3>2, RequestStores
  <2>. QED
    BY <2>1, <2>3, <2>4
<1>. QED
  BY <1>2, <1>3

\* Each form the origin collapses hits in time, or no response tells.
LEMMA OrderedStep ==
    ASSUME Basics, StoredAsAnswered, Apart, OrderSound, [Next]_vars, Undisturbed', Primary, Whole, Affordable,
           DetouredSo, OrderedSo
    PROVE  OrderedSo'
<1>1. Isolated(site, mode) /\ base = "current" /\ faults = 0 /\ site' = site /\ NoEntry # "current"
      /\ n \in Nat \ {0} /\ mapping \in Mappings
  BY UndisturbedBefore, Numbers, MapperAssumption DEF Basics, TypeOK
<1>2. ASSUME NEW i \in 1 .. OrderedTo', Traversals[i] \in site.collapses, site.showsHits
      PROVE  mapping'.cache[Traversals[i]] # "unknown"
  <2>1. i \in 1 .. 2 /\ Traversals[i] \in TraversalForms
    <3>1. OrderedTo' \in 0 .. 2
      <4>1. Affordable' /\ n' \in Nat \ {0} /\ (pc' = "again" => n' <= 2)
        BY AffordableStep, BasicsStep DEF Basics, TypeOK, Bookkeeping
      <4>. QED
        BY <4>1 DEF Affordable, OrderedTo
    <3>. QED
      BY <3>1, Constants
  <2>2. CASE i \in 1 .. OrderedTo
    BY <1>2, <2>1, <2>2, VerdictsMove DEF OrderedSo
  <2>3. CASE i \notin 1 .. OrderedTo
    <3>1. \/ EndStage /\ pc = "prime" /\ \A form \in TraversalForms : mapping.origin[form] # "yes"
          \/ RepeatRequest /\ ~Hit
          \/ SkipForm /\ pc = "order" /\ mapping.origin[Subject] # "yes" /\ i = n
          \/ OrderRequest /\ pc = "order" /\ (Reply # base \/ Hit) /\ i = n
          \/ OrderRequest /\ pc = "again" /\ i = n
      <4>1. i \notin 1 .. OrderedTo /\ i \in 1 .. OrderedTo' /\ i \in Nat
        BY <1>2, <2>1, <2>3
      <4>2. CASE Still
        BY <4>1, <4>2 DEF Still, OrderedTo
      <4>3. ~OriginCourse
        BY <4>1 DEF OriginCourse, Onward, OrderedTo
      <4>4. ~ReverseCourse
        BY <4>1 DEF ReverseCourse, Onward, OrderedTo
      <4>5. CASE OrderCourse
        BY <1>1, <4>1, <4>5 DEF OrderCourse, Onward, OrderedTo
      <4>. QED
        BY <4>2, <4>3, <4>4, <4>5, Course
    <3>2. pc \in {"prime", "repeat", "order", "again"} => mapping.origin[Traversals[i]] = "yes"
      BY <1>2, <2>1 DEF DetouredSo, DetouredTo
    <3>3. CASE EndStage /\ pc = "prime" /\ \A form \in TraversalForms : mapping.origin[form] # "yes"
      BY <2>1, <3>2, <3>3
    <3>4. CASE RepeatRequest /\ ~Hit
      <4>1. pc = "repeat" /\ token \in Tokens
        BY <3>4 DEF RepeatRequest, Basics, TypeOK
      <4>2. Key = <<token, Resource>>
        BY <1>1, <4>1, KeysApart DEF Key, Buster, NewBuster, Path
      <4>. QED
        BY <1>1, <1>2, <3>4, <4>1, <4>2 DEF Hit, OrderedSo
    <3>5. ASSUME pc \in {"order", "again"}, i = n PROVE Subject = Traversals[i]
      BY <3>5 DEF Subject, Subjects
    <3>6. CASE SkipForm /\ pc = "order" /\ mapping.origin[Subject] # "yes" /\ i = n
      BY <3>2, <3>5, <3>6
    <3>7. CASE OrderRequest /\ (Reply # base \/ Hit \/ pc = "again") /\ i = n
      <4>1. pc \in {"order", "again"}
        BY <3>7 DEF OrderRequest
      <4>2. Subject = Traversals[i] /\ Subject \in TraversalForms /\ Subject \in site.collapses
            /\ store[<<token, Resource>>] = "current"
        BY <1>2, <2>1, <3>5, <3>7, <4>1 DEF OrderedSo
      <4>3. Reply = base
        BY <1>1, <3>7, <4>2, OrderAnswered
      <4>4. Hit
        <5>1. CASE pc = "again"
          <6>1. Subject \notin site.resolves
            BY <1>1, <5>1 DEF OrderSound
          <6>2. Key = <<token, Detour(Subject, "cache")>>
            BY <1>1, <3>7, <4>2, <6>1, OrderAnswered
          <6>3. store[Key] = "current"
            BY <4>2, <5>1, <6>2 DEF OrderedSo
          <6>. QED
            BY <1>1, <1>2, <6>3 DEF Hit
        <5>. QED
          BY <3>7, <4>3, <5>1
      <4>5. mapping' = [mapping EXCEPT !.cache[Subject] = OrderShown[pc]]
        BY <3>7, <4>1, <4>3, <4>4 DEF OrderRequest
      <4>6. mapping'.cache[Subject] = OrderShown[pc]
        BY <1>1, <4>2, <4>5 DEF Mappings
      <4>. QED
        BY <4>1, <4>2, <4>6 DEF OrderShown
    <3>. QED
      BY <3>1, <3>3, <3>4, <3>6, <3>7
  <2>. QED
    BY <2>2, <2>3
<1>3. /\ pc' \in {"repeat", "order", "again"} => store'[<<token', Resource>>] = "current"
      /\ pc' = "again" /\ Subject' \in site'.collapses => store'[<<token', Detour(Subject', "cache")>>] = "current"
  BY <1>1, OrderedEntries
<1>. QED
  BY <1>1, <1>2, <1>3 DEF OrderedSo, Resource, Detour

\* Asked the other way round, a path the cache cuts is answered by the origin,
\* and its answer is what the resource's entry holds then.
LEMMA ReverseAnswered ==
    ASSUME Basics, StoredAsAnswered, Apart, OrderSound, [Next]_vars, Undisturbed', Whole, ReverseRequest,
           CutByCache(Subject)
    PROVE  Reply = "other" /\ store'[<<token', Resource>>] = "other"
<1>1. /\ pc = "reverse" /\ Sending /\ Sent /\ Reaches /\ retries = 0 /\ site \in Sites /\ site.stores
      /\ Isolated(site, mode) /\ WellIsolated /\ ~site.loose
  BY UndisturbedBefore DEF ReverseRequest, Answers, Sent, OrderSound, Basics, TypeOK, Whole
<1>2. /\ Path = Delimited(Subject) /\ Path \in Paths /\ Subject \in Characters /\ Subject \in site.cuts
      /\ site.answers[Subject] = "other"
  BY <1>1, SendingPath DEF Path, CutByCache, CacheCuts
<1>3. token' = token + 1 /\ Buster = token' /\ token' \in Tokens /\ token \in Nat
      /\ Key = KeyUnder(token', Delimited(Subject)) /\ Key \in Keys
  BY <1>1, <1>2, SentKeeps, SendingKey DEF Sent, NewBuster, Buster, Key
<1>4. Key = <<token', Resource>>
  <2>1. Key[1] = token'
    BY <1>1, <1>2, <1>3, KeysOf
  <2>2. Key[2] = Resource
    BY <1>1, <1>2, <1>3, KeysOf
  <2>3. \A key \in Keys : key = <<key[1], key[2]>>
    BY DEF Keys
  <2>. QED
    BY <1>3, <2>1, <2>2, <2>3
<1>5. store[Key] = NoEntry
  <2>1. token' > token /\ Key[1] = token'
    BY <1>3, <1>4
  <2>. QED
    BY <1>1, <1>3, <2>1 DEF Apart, FutureUntouched
<1>6. Answered(Path) = "other"
  BY <1>1, <1>2, OriginAnswers
<1>. QED
  BY <1>1, <1>4, <1>5, <1>6, RequestStores DEF Reply, Answer

\* Each delimiter of the cache alone is confirmed when its turn comes.
LEMMA ReversedStep ==
    ASSUME Basics, StoredAsAnswered, Apart, OrderSound, [Next]_vars, Undisturbed', Primary, Whole, Affordable,
           ReversedSo
    PROVE  ReversedSo'
<1>1. /\ Isolated(site, mode) /\ base = "current" /\ faults' = 0 /\ n \in Nat \ {0} /\ mapping \in Mappings
      /\ token \in Tokens /\ NoEntry # "other" /\ Len(reverse) \in Nat /\ site \in Sites
  BY UndisturbedBefore, Numbers, MapperAssumption DEF Basics, TypeOK
<1>2. ASSUME pc' = "confirm", CutByCache(Subject')
      PROVE  suffixed' = "other" /\ store'[<<token', Resource>>] = "other"
  <2>1. \/ Still /\ pc = "confirm"
        \/ ReverseRequest /\ pc = "reverse" /\ n' = n /\ suffixed' = Reply
    <3>1. CASE Still
      BY <1>2, <3>1 DEF Still
    <3>2. ~OriginCourse /\ ~OrderCourse
      BY <1>2 DEF OriginCourse, OrderCourse, Onward
    <3>3. CASE ReverseCourse
      BY <1>2, <3>3 DEF ReverseCourse, Onward
    <3>. QED
      BY <3>1, <3>2, <3>3, Course
  <2>2. CASE Still /\ pc = "confirm"
    <3>1. Subject' = Subject /\ token' = token /\ suffixed' = suffixed
      BY <2>2 DEF Still, Subject, Subjects
    <3>2. suffixed = "other" /\ store[<<token, Resource>>] = "other" /\ <<token, Resource>> \in Keys
      BY <1>1, <1>2, <2>2, <3>1, KeysApart DEF ReversedSo
    <3>. QED
      BY <1>1, <3>1, <3>2, EntryKept
  <2>3. CASE ReverseRequest /\ pc = "reverse" /\ n' = n /\ suffixed' = Reply
    <3>1. Subject' = Subject
      BY <1>2, <2>3 DEF ReverseRequest, Subject, Subjects
    <3>. QED
      BY <1>2, <2>3, <3>1, ReverseAnswered
  <2>. QED
    BY <2>1, <2>2, <2>3
<1>3. ASSUME NEW i \in 1 .. ReversedTo', CutByCache(reverse'[i])
      PROVE  reverse'[i] \in Reported(TRUE)'
  <2>1. Reported(TRUE) \subseteq Reported(TRUE)'
    BY ReportedKept
  <2>2. CASE SweepRequest
    <3>1. pc' = "sweep"
      BY <2>2 DEF SweepRequest, NextSubject
    <3>. QED
      BY <1>3, <3>1 DEF ReversedTo
  <2>3. CASE ~SweepRequest /\ i \in 1 .. ReversedTo
    BY <1>3, <2>1, <2>3, ReverseMoves DEF ReversedSo
  <2>4. CASE ~SweepRequest /\ i \notin 1 .. ReversedTo
    <3>1. reverse' = reverse /\ i \in Nat \ {0} /\ i <= ReversedTo'
      <4>1. ReversedTo' \in Nat
        <5>1. n' \in Nat \ {0} /\ Len(reverse') \in Nat
          BY BasicsStep DEF Basics, TypeOK
        <5>. QED
          BY <5>1 DEF ReversedTo
      <4>. QED
        BY <1>3, <2>4, <4>1, ReverseMoves
    <3>2. \/ ReverseRequest /\ pc = "reverse" /\ Reply \in {base, "failed"} /\ i = n
          \/ ConfirmRequest /\ pc = "confirm" /\ i = n
      <4>1. CASE Still
        BY <2>4, <3>1, <4>1 DEF Still, ReversedTo
      <4>2. ~OriginCourse
        BY <1>1, <3>1 DEF OriginCourse, Onward, ReversedTo
      <4>3. ~OrderCourse
        BY <1>1, <3>1 DEF OrderCourse, Onward, ReversedTo
      <4>4. CASE ReverseCourse
        BY <1>1, <2>4, <3>1, <4>4 DEF ReverseCourse, Onward, ReversedTo
      <4>. QED
        BY <4>1, <4>2, <4>3, <4>4, Course
    <3>3. Subject = reverse'[i]
      BY <3>1, <3>2 DEF Subject, Subjects
    <3>4. CASE ReverseRequest /\ Reply \in {base, "failed"}
      BY <1>1, <1>3, <3>3, <3>4, ReverseAnswered
    <3>5. CASE ConfirmRequest /\ pc = "confirm" /\ i = n
      <4>1. suffixed = "other" /\ store[<<token, Resource>>] = "other"
        BY <1>3, <3>3, <3>5 DEF ReversedSo
      <4>2. Key = <<token, Resource>>
        BY <1>1, <3>5, KeysApart DEF Key, Buster, NewBuster, Path, ConfirmPath
      <4>3. Reply = "other"
        BY <1>1, <4>1, <4>2 DEF Reply, Answer
      <4>4. Found(Subject, TRUE)
        BY <1>1, <3>5, <4>1, <4>3 DEF ConfirmRequest
      <4>. QED
        BY <1>1, <3>3, <4>4, FoundIsReported
    <3>. QED
      BY <3>2, <3>4, <3>5
  <2>. QED
    BY <2>2, <2>3, <2>4
<1>. QED
  BY <1>2, <1>3, UndisturbedBefore DEF ReversedSo, Resource

\* At first nothing is through, and the whole budget is left.
LEMMA ThoroughInit == Init => Thorough
<1>. SUFFICES ASSUME Init PROVE PlainEntry /\ Affordable /\ SweptSo /\ DetouredSo /\ OrderedSo /\ ReversedSo
  BY DEF Thorough
<1>1. pc = "baseline" /\ n = 1 /\ budget = limit /\ limit \in Nat
  BY MapperAssumption DEF Init
<1>. QED
  BY <1>1 DEF PlainEntry, Affordable, Owed, SweptSo, SweptTo, DetouredSo, DetouredTo, OrderedSo, OrderedTo,
     ReversedSo, ReversedTo

\* What has been gone through has been found, stage by stage.
LEMMA ThoroughStep == Basics /\ StoredAsAnswered /\ Apart /\ OrderSound /\ Thorough /\ [Next]_vars => Thorough'
<1>. SUFFICES ASSUME Basics, StoredAsAnswered, Apart, OrderSound, Thorough, [Next]_vars, Undisturbed'
              PROVE  /\ PlainEntry'
                     /\ Primary' => Affordable' /\ SweptSo' /\ DetouredSo'
                     /\ Primary' /\ Whole' => OrderedSo' /\ ReversedSo'
  BY DEF Thorough
<1>1. Undisturbed /\ Primary' = Primary /\ Whole' = Whole
  BY UndisturbedBefore
<1>2. PlainEntry /\ PlainEntry'
  BY <1>1, PlainStep DEF Thorough
<1>3. ASSUME Primary PROVE Affordable' /\ SweptSo' /\ DetouredSo'
  BY <1>1, <1>2, <1>3, AffordableStep, SweptStep, DetouredStep DEF Thorough
<1>4. ASSUME Primary, Whole PROVE OrderedSo' /\ ReversedSo'
  BY <1>1, <1>4, OrderedStep, ReversedStep DEF Thorough
<1>. QED
  BY <1>1, <1>2, <1>3, <1>4

\* What the stages are through with, when the mapper is done, is everything.
LEMMA ThoroughEnds == Basics /\ Thorough => NothingMissed
<1>. SUFFICES ASSUME Basics, Thorough PROVE NothingMissed
  OBVIOUS
<1>. SUFFICES ASSUME pc = "done", Undisturbed, Primary
              PROVE  /\ \A d \in Characters : OriginCuts(d) => d \in Reported(FALSE)
                     /\ \A form \in site.collapses : mapping.origin[form] = "yes"
                     /\ Whole =>
                           /\ \A d \in Characters : CacheCuts(d) /\ site.answers[d] = "other" => d \in Reported(TRUE)
                           /\ \A form \in site.collapses : site.showsHits => mapping.cache[form] # "unknown"
  <2>1. L \in Nat /\ limit \in Nat /\ Swept \in Nat
    BY Numbers
  <2>2. Whole => Primary
    BY <2>1 DEF Whole, Primary
  <2>. QED
    BY <2>2 DEF NothingMissed, Undisturbed, Primary, Whole, L
<1>1. SweptSo /\ DetouredSo /\ (Whole => OrderedSo /\ ReversedSo)
  BY DEF Thorough
<1>2. SweptTo = L /\ DetouredTo = 2 /\ OrderedTo = 2 /\ ReversedTo = Len(reverse)
  BY DEF SweptTo, DetouredTo, OrderedTo, ReversedTo
<1>3. ASSUME NEW form \in site.collapses PROVE \E i \in 1 .. 2 : form = Traversals[i]
  <2>1. form \in {"encoded", "plain"}
    BY DEF Basics, TypeOK, Sites, TraversalForms
  <2>2. Traversals[1] = "encoded" /\ Traversals[2] = "plain"
    BY DEF Traversals
  <2>3. 1 \in 1 .. 2 /\ 2 \in 1 .. 2
    OBVIOUS
  <2>. QED
    BY <2>1, <2>2, <2>3
<1>4. ASSUME NEW d \in Characters PROVE \E i \in 1 .. L : Delimiters[i] = d
  BY MapperAssumption DEF L
<1>5. \A d \in Characters : OriginCuts(d) => d \in Reported(FALSE)
  BY <1>1, <1>2, <1>4 DEF SweptSo
<1>6. \A form \in site.collapses : mapping.origin[form] = "yes"
  BY <1>1, <1>2, <1>3 DEF DetouredSo
<1>7. ASSUME Whole, NEW d \in Characters, CacheCuts(d), site.answers[d] = "other"
      PROVE  d \in Reported(TRUE)
  <2>1. ~OriginCuts(d)
    BY <1>7 DEF OriginCuts
  <2>2. PICK j \in DOMAIN reverse : reverse[j] = d
    BY <1>1, <1>2, <1>4, <2>1 DEF SweptSo
  <2>3. j \in 1 .. Len(reverse)
    BY Numbers
  <2>. QED
    BY <1>1, <1>2, <1>7, <2>2, <2>3 DEF ReversedSo, CutByCache
<1>8. ASSUME Whole, NEW form \in site.collapses, site.showsHits PROVE mapping.cache[form] # "unknown"
  BY <1>1, <1>2, <1>3, <1>8 DEF OrderedSo
<1>. QED
  BY <1>5, <1>6, <1>7, <1>8

-----------------------------------------------------------------------------
(* Theorems *)

\* The invariant is inductive, so it holds throughout.
LEMMA Invariance == Spec => []IInv
<1>1. Init => IInv
  BY BasicsInit, StoredInit, ApartInit, OrderInit, CanonicalInit, DelimitersInit, NormalizationInit,
     ThoroughInit DEF IInv
<1>2. IInv /\ [Next]_vars => IInv'
  BY BasicsStep, StoredStep, ApartStep, OrderStep, CanonicalStep, DelimitersStep, NormalizationStep,
     ThoroughStep DEF IInv
<1>. QED
  BY <1>1, <1>2, PTL DEF Spec

\* The mapper's state keeps its types, the budget never goes below zero, and
\* the busters it makes are as many as Tokens allows for (runDelimiterMapper).
THEOREM TypeCorrect == Spec => []TypeOK
<1>1. IInv => TypeOK
  BY DEF IInv, Basics
<1>. QED
  BY <1>1, Invariance, PTL

\* Whatever fails, expires or is visited, the entry real users are served is
\* the resource or nothing, where the buster is keyed and the cache resolves no
\* form the origin does not: also after the detours, which carry no buster.
THEOREM CanonicalStaysClean == Spec => []CanonicalClean
<1>1. IInv => CanonicalClean
  BY DEF IInv
<1>. QED
  BY <1>1, Invariance, PTL

\* Whatever fails, expires or is visited, a delimiter reported of the origin is
\* one the origin cuts at, and one reported of the cache alone is one the cache
\* cuts at and the origin does not, under the conditions DelimitersGenuine names.
THEOREM DelimitersAreGenuine == Spec => []DelimitersGenuine
<1>1. IInv => DelimitersGenuine
  BY DEF IInv
<1>. QED
  BY <1>1, Invariance, PTL

\* The verdicts on traversals are right: the origin's where the cache does not
\* resolve the form, the order of the cache's when nothing went wrong.
THEOREM NormalizationIsGenuine == Spec => []NormalizationGenuine
<1>1. IInv => NormalizationGenuine
  BY DEF IInv
<1>. QED
  BY <1>1, Invariance, PTL

\* "A tight --max-aggressive-requests never starves the cheaper, primary probes"
\* (runDelimiterMapper): a budget for the sweep and the two detours finds all
\* the origin does, one for every request all the cache does, when nothing fails
\* or expires and the mapper comes to its end.
THEOREM NothingIsMissed == Spec => []NothingMissed
<1>1. IInv => NothingMissed
  BY ThoroughEnds DEF IInv
<1>. QED
  BY <1>1, Invariance, PTL

\* Recording a mapping forgets nothing the quirk store held of the origin.
THEOREM QuirksAreKept == Spec => QuirksAccumulate
<1>. DEFINE Kept ==
        /\ quirks.delimiters \subseteq quirks'.delimiters
        /\ \A form \in TraversalForms :
              /\ quirks.origin[form] # "unknown" => quirks'.origin[form] # "unknown"
              /\ quirks.cache[form] # "unknown" => quirks'.cache[form] # "unknown"
<1>1. TypeOK /\ [Next]_vars => [Kept]_vars
  <2>. SUFFICES ASSUME TypeOK, [Next]_vars PROVE Kept
    OBVIOUS
  <2>1. CASE Record
    BY <2>1, Merging DEF Record, TypeOK
  <2>2. CASE ~Record
    <3>1. quirks' = quirks
      BY <2>2 DEF Next, Mapper, Requests, vars, EndStage, SkipForm, NoSecondAttempt, RequestFails,
         BusterFails, Visit, Expire, Answers, Baseline, JunkRequest, SweepRequest, DetourRequest,
         PrimeRequest, RepeatRequest, OrderRequest, ReverseRequest, ConfirmRequest
    <3>. QED
      BY <3>1
  <2>. QED
    BY <2>1, <2>2
<1>. QED
  BY <1>1, TypeCorrect, PTL DEF Spec, QuirksAccumulate
=============================================================================
