----------------------- MODULE ResourceListProofs -----------------------
(***************************************************************************)
(* What ResourceList says of the resources of a scan holds for every list, *)
(* sitemap, archive and site, of whatever length.  Its readers are folds   *)
(* over a sequence: they are shown to go entry by entry, and what they     *)
(* come to is then shown by induction over the entries read.               *)
(***************************************************************************)
EXTENDS ResourceList, FiniteSetTheorems, TLAPS

-----------------------------------------------------------------------------
(* Induction, and folds *)

\* Every set of numbers with 0 and the successor of each of its members below n has
\* all up to n: were one missing, the least of them would follow another.
LEMMA Induction ==
  ASSUME NEW n \in Nat, NEW T, 0 \in T, \A k \in 0 .. n - 1 : k \in T => k + 1 \in T
  PROVE  \A k \in 0 .. n : k \in T
<1>. DEFINE Below == {0 .. k : k \in (0 .. n) \ T}
<1>. SUFFICES ASSUME Below # {} PROVE FALSE
  OBVIOUS
<1>1. \A k \in 0 .. n : 0 .. k \in FiniteSubsetsOf(Nat)
  BY FS_Interval DEF FiniteSubsetsOf
<1>2. Below \subseteq FiniteSubsetsOf(Nat)
  BY <1>1
<1>3. PICK least \in Below : \A U \in Below : ~(<<U, least>> \in StrictSubsetOrdering(Nat))
  BY <1>2, FS_StrictSubsetOrderingWellFounded, WFMin
<1>4. PICK k \in (0 .. n) \ T : least = 0 .. k
  BY <1>3
<1>5. k # 0 /\ k - 1 \in (0 .. n) \ T
  BY <1>4
<1>6. 0 .. k - 1 \subseteq 0 .. k /\ k \notin 0 .. k - 1 /\ k \in 0 .. k
  BY <1>4
<1>7. <<0 .. k - 1, 0 .. k>> \in StrictSubsetOrdering(Nat)
  BY <1>6, <1>4 DEF StrictSubsetOrdering
<1>. QED BY <1>3, <1>4, <1>5, <1>7

\* The last of a set of numbers.
LEMMA LastOf ==
  ASSUME NEW s \in SUBSET Nat, NEW k \in s, \A i \in s : i <= k
  PROVE  Max(s) = k
<1>1. \A x \in s : (\A i \in s : i <= x) => x = k
  OBVIOUS
<1>. QED BY <1>1 DEF Max

\* Of the first numbers, every set that is not empty has a last.
LEMMA LastIn ==
  ASSUME NEW n \in Nat, NEW s \in SUBSET (1 .. n), s # {}
  PROVE  Max(s) \in s /\ \A i \in s : i <= Max(s)
<1>. DEFINE T == {m \in 0 .. n : \A t \in SUBSET (1 .. m) : t # {} => \E k \in t : \A i \in t : i <= k}
<1>1. 0 \in T
  <2>1. \A t \in SUBSET (1 .. 0) : t = {}
    OBVIOUS
  <2>2. \A t \in SUBSET (1 .. 0) : t # {} => \E k \in t : \A i \in t : i <= k
    BY <2>1, Zenon
  <2>3. 0 \in 0 .. n
    OBVIOUS
  <2>. QED BY <2>2, <2>3, Zenon
<1>2. ASSUME NEW m \in 0 .. n - 1, m \in T PROVE m + 1 \in T
  <2>1. ASSUME NEW t \in SUBSET (1 .. m + 1), t # {} PROVE \E k \in t : \A i \in t : i <= k
    <3>1. CASE m + 1 \in t
      BY <3>1, <1>2
    <3>2. CASE m + 1 \notin t
      <4>1. t \in SUBSET (1 .. m)
        BY <3>2, <1>2
      <4>. QED BY <4>1, <1>2, <2>1
    <3>. QED BY <3>1, <3>2
  <2>2. m + 1 \in 0 .. n
    BY <1>2
  <2>. QED BY <2>1, <2>2
<1>3. \A k \in 0 .. n : k \in T
  <2>. HIDE DEF T
  <2>. QED BY <1>1, <1>2, Induction
<1>4. n \in T
  <2>. HIDE DEF T
  <2>. QED BY <1>3
<1>5. PICK k \in s : \A i \in s : i <= k
  BY <1>4
<1>. QED BY <1>5, LastOf

\* it is what a fold makes of each set of indices, taking the last one first.
Folds(it, n, base, step) ==
    \A s \in SUBSET (1 .. n) : it[s] = IF s = {} THEN base ELSE step[Max(s)][it[s \ {Max(s)}]]

\* A fold over 1 .. n by its last index exists: one over 1 .. n - 1 is extended by
\* the sets that hold n.
LEMMA FoldExists ==
  ASSUME NEW n \in Nat, NEW S, NEW base \in S, NEW step \in [1 .. n -> [S -> S]]
  PROVE  \E it \in [SUBSET (1 .. n) -> S] : Folds(it, n, base, step)
<1>. DEFINE Fold(m, it) ==
       \A s \in SUBSET (1 .. m) : it[s] = IF s = {} THEN base ELSE step[Max(s)][it[s \ {Max(s)}]]
            T == {m \in 0 .. n : \E it \in [SUBSET (1 .. m) -> S] : Fold(m, it)}
<1>1. 0 \in T
  <2>1. \A s \in SUBSET (1 .. 0) : s = {}
    OBVIOUS
  <2>2. [s \in SUBSET (1 .. 0) |-> base] \in [SUBSET (1 .. 0) -> S]
    OBVIOUS
  <2>3. Fold(0, [s \in SUBSET (1 .. 0) |-> base])
    BY <2>1
  <2>. HIDE DEF Fold
  <2>. QED BY <2>2, <2>3
<1>2. ASSUME NEW m \in 0 .. n - 1, m \in T PROVE m + 1 \in T
  <2>1. PICK it \in [SUBSET (1 .. m) -> S] : Fold(m, it)
    BY <1>2
  <2>. DEFINE more == [s \in SUBSET (1 .. m + 1) |->
                 IF m + 1 \in s THEN step[m + 1][it[s \ {m + 1}]] ELSE it[s]]
  <2>2. ASSUME NEW s \in SUBSET (1 .. m + 1)
        PROVE  s \ {m + 1} \in SUBSET (1 .. m) /\ (m + 1 \notin s => s \in SUBSET (1 .. m))
    BY <1>2
  <2>3. m + 1 \in 1 .. n /\ step[m + 1] \in [S -> S]
    BY <1>2
  <2>4. ASSUME NEW s \in SUBSET (1 .. m + 1) PROVE more[s] \in S
    <3>1. CASE m + 1 \in s
      <4>1. it[s \ {m + 1}] \in S
        BY <2>2
      <4>. QED BY <4>1, <3>1, <2>3
    <3>2. CASE m + 1 \notin s
      BY <3>2, <2>2
    <3>. QED BY <3>1, <3>2
  <2>5. ASSUME NEW s \in SUBSET (1 .. m + 1)
        PROVE  more[s] = IF s = {} THEN base ELSE step[Max(s)][more[s \ {Max(s)}]]
    <3>1. CASE m + 1 \in s
      <4>1. Max(s) = m + 1
        BY <3>1, <1>2, LastOf
      <4>2. more[s \ {m + 1}] = it[s \ {m + 1}]
        BY <2>2
      <4>3. more[s] = step[m + 1][it[s \ {m + 1}]]
        BY <3>1
      <4>. QED BY <4>1, <4>2, <4>3, <3>1
    <3>2. CASE m + 1 \notin s
      <4>1. it[s] = IF s = {} THEN base ELSE step[Max(s)][it[s \ {Max(s)}]]
        BY <3>2, <2>2, <2>1
      <4>2. m + 1 \notin s \ {Max(s)} /\ s \ {Max(s)} \in SUBSET (1 .. m + 1)
        BY <3>2
      <4>3. more[s] = it[s] /\ more[s \ {Max(s)}] = it[s \ {Max(s)}]
        BY <3>2, <4>2
      <4>. QED BY <4>1, <4>3
    <3>. QED BY <3>1, <3>2
  <2>6. more \in [SUBSET (1 .. m + 1) -> S]
    BY <2>4
  <2>7. Fold(m + 1, more)
    BY <2>5, Zenon
  <2>8. m + 1 \in 0 .. n
    BY <1>2
  <2>. HIDE DEF Fold, more
  <2>. QED BY <2>6, <2>7, <2>8
<1>3. \A k \in 0 .. n : k \in T
  <2>. HIDE DEF T
  <2>. QED BY <1>1, <1>2, Induction
<1>4. n \in T
  <2>. HIDE DEF T
  <2>. QED BY <1>3
<1>. QED BY <1>4, Zenon DEF Folds


-----------------------------------------------------------------------------
(* The readers, entry by entry *)

\* An entry of an input.
LEMMA EntryIs ==
  ASSUME NEW e \in Entry
  PROVE  e.url \in Urls \cup {Blank} /\ e.replayable \in BOOLEAN /\ e = [url |-> e.url, replayable |-> e.replayable]
BY Zenon DEF Entry

\* Reading a list, one entry more.
ListOne(urls, e) == IF e.url = Blank THEN urls ELSE Append(urls, e.url)

\* It stays a list of URLs.
LEMMA ListOneIs ==
  ASSUME NEW urls \in Seq(Urls), NEW e \in Entry
  PROVE  ListOne(urls, e) \in Seq(Urls)
BY EntryIs DEF ListOne

\* What a list comes to is what each of its prefixes comes to, entry by entry.
LEMMA ListedStepwise ==
  ASSUME NEW entries \in Seq(Entry)
  PROVE  \E upTo \in [0 .. Len(entries) -> Seq(Urls)] :
            /\ upTo[0] = <<>>
            /\ \A k \in 1 .. Len(entries) : upTo[k] = ListOne(upTo[k - 1], entries[k])
            /\ Listed(entries) = upTo[Len(entries)]
<1>. DEFINE n == Len(entries)
            step == [i \in 1 .. n |-> [urls \in Seq(Urls) |-> ListOne(urls, entries[i])]]
            Whole(f) == f = [s \in SUBSET (DOMAIN entries) |->
                               IF s = {} THEN <<>> ELSE ListOne(f[s \ {Max(s)}], entries[Max(s)])]
<1>1. n \in Nat /\ DOMAIN entries = 1 .. n /\ <<>> \in Seq(Urls)
  OBVIOUS
<1>2. step \in [1 .. n -> [Seq(Urls) -> Seq(Urls)]]
  <2>1. ASSUME NEW i \in 1 .. n, NEW urls \in Seq(Urls) PROVE ListOne(urls, entries[i]) \in Seq(Urls)
    BY <1>1, ListOneIs
  <2>. QED BY <2>1
<1>3. \E it : Whole(it)
  <2>. HIDE DEF step
  <2>. DEFINE S == Seq(Urls)
            base == <<>>
  <2>0. PICK it \in [SUBSET (1 .. n) -> S] : Folds(it, n, base, step)
    <3>1. n \in Nat /\ base \in S /\ step \in [1 .. n -> [S -> S]]
      BY <1>1, <1>2
    <3>. HIDE DEF n, S, base
    <3>. QED BY <3>1, FoldExists
  <2>1. \A s \in SUBSET (1 .. n) : it[s] = IF s = {} THEN base ELSE step[Max(s)][it[s \ {Max(s)}]]
    BY <2>0 DEF Folds
  <2>2. ASSUME NEW s \in SUBSET (1 .. n)
        PROVE  it[s] = IF s = {} THEN <<>> ELSE ListOne(it[s \ {Max(s)}], entries[Max(s)])
    <3>1. CASE s = {}
      BY <3>1, <2>1
    <3>2. CASE s # {}
      <4>1. Max(s) \in 1 .. n /\ it[s \ {Max(s)}] \in Seq(Urls)
        BY <3>2, <1>1, LastIn
      <4>2. step[Max(s)][it[s \ {Max(s)}]] = ListOne(it[s \ {Max(s)}], entries[Max(s)])
        BY <4>1 DEF step
      <4>. QED BY <4>2, <3>2, <2>1
    <3>. QED BY <3>1, <3>2
  <2>3. it = [s \in SUBSET (1 .. n) |-> IF s = {} THEN <<>> ELSE ListOne(it[s \ {Max(s)}], entries[Max(s)])]
    BY <2>1, <2>2
  <2>. QED BY <2>3, <1>1
<1>. DEFINE chosen == CHOOSE f : Whole(f)
<1>4. Whole(chosen)
  <2>. HIDE DEF Whole
  <2>. QED BY <1>3
<1>5. Listed(entries) = chosen[DOMAIN entries]
  BY DEF Listed, ListOne, FoldLeft, MapThenFoldSet
<1>. DEFINE upTo == [k \in 0 .. n |-> chosen[1 .. k]]
<1>. HIDE DEF chosen
<1>6. chosen[{}] = <<>>
  BY <1>4, {} \in SUBSET (DOMAIN entries), Zenon
<1>7. upTo[0] = <<>>
  <2>1. 1 .. 0 = {} /\ 0 \in 0 .. n
    BY <1>1
  <2>. QED BY <2>1, <1>6
<1>8. ASSUME NEW k \in 1 .. n PROVE upTo[k] = ListOne(upTo[k - 1], entries[k])
  <2>1. k \in 1 .. k /\ 1 .. k \in SUBSET (DOMAIN entries)
    BY <1>1
  <2>2. chosen[1 .. k] = ListOne(chosen[(1 .. k) \ {Max(1 .. k)}], entries[Max(1 .. k)])
    BY <1>4, <2>1, Zenon
  <2>3. Max(1 .. k) = k
    BY LastOf
  <2>4. (1 .. k) \ {k} = 1 .. k - 1 /\ k - 1 \in 0 .. n /\ k \in 0 .. n
    BY <1>1
  <2>. QED BY <2>2, <2>3, <2>4
<1>9. \A k \in 0 .. n : upTo[k] \in Seq(Urls)
  <2>. DEFINE T == {k \in 0 .. n : upTo[k] \in Seq(Urls)}
  <2>1. 0 \in T
    <3>1. 0 \in 0 .. n
      BY <1>1
    <3>. HIDE DEF upTo, n
    <3>. QED BY <3>1, <1>7, <1>1, Zenon
  <2>2. ASSUME NEW k \in 0 .. n - 1, k \in T PROVE k + 1 \in T
    <3>1. k + 1 \in 1 .. n /\ (k + 1) - 1 = k /\ k + 1 \in 0 .. n
      BY <1>1, <2>2
    <3>2. upTo[k + 1] = ListOne(upTo[k], entries[k + 1])
      BY <3>1, <1>8
    <3>3. ListOne(upTo[k], entries[k + 1]) \in Seq(Urls)
      <4>. HIDE DEF upTo
      <4>. QED BY <2>2, <3>1, <1>1, ListOneIs
    <3>. HIDE DEF upTo
    <3>. QED BY <3>1, <3>2, <3>3
  <2>3. \A k \in 0 .. n : k \in T
    <3>. HIDE DEF T
    <3>. QED BY <1>1, <2>1, <2>2, Induction
  <2>. QED BY <2>3
<1>10. Listed(entries) = upTo[n]
  BY <1>5, <1>1
<1>11. upTo \in [0 .. n -> Seq(Urls)]
  BY <1>9
<1>. HIDE DEF upTo
<1>. QED BY <1>7, <1>8, <1>10, <1>11

\* Reading an archive, one entry more.
KeepOne(urls, e) == IF e.replayable /\ e.url # Blank /\ e.url \notin ToSet(urls) THEN Append(urls, e.url) ELSE urls

\* It stays a list of URLs.
LEMMA KeepOneIs ==
  ASSUME NEW urls \in Seq(Urls), NEW e \in Entry
  PROVE  KeepOne(urls, e) \in Seq(Urls)
BY EntryIs DEF KeepOne

\* So is an archive.
LEMMA ArchivedStepwise ==
  ASSUME NEW entries \in Seq(Entry)
  PROVE  \E upTo \in [0 .. Len(entries) -> Seq(Urls)] :
            /\ upTo[0] = <<>>
            /\ \A k \in 1 .. Len(entries) : upTo[k] = KeepOne(upTo[k - 1], entries[k])
            /\ Archived(entries) = upTo[Len(entries)]
<1>. DEFINE n == Len(entries)
            step == [i \in 1 .. n |-> [urls \in Seq(Urls) |-> KeepOne(urls, entries[i])]]
            Whole(f) == f = [s \in SUBSET (DOMAIN entries) |->
                               IF s = {} THEN <<>> ELSE KeepOne(f[s \ {Max(s)}], entries[Max(s)])]
<1>1. n \in Nat /\ DOMAIN entries = 1 .. n /\ <<>> \in Seq(Urls)
  OBVIOUS
<1>2. step \in [1 .. n -> [Seq(Urls) -> Seq(Urls)]]
  <2>1. ASSUME NEW i \in 1 .. n, NEW urls \in Seq(Urls) PROVE KeepOne(urls, entries[i]) \in Seq(Urls)
    BY <1>1, KeepOneIs
  <2>. QED BY <2>1
<1>3. \E it : Whole(it)
  <2>. HIDE DEF step
  <2>. DEFINE S == Seq(Urls)
            base == <<>>
  <2>0. PICK it \in [SUBSET (1 .. n) -> S] : Folds(it, n, base, step)
    <3>1. n \in Nat /\ base \in S /\ step \in [1 .. n -> [S -> S]]
      BY <1>1, <1>2
    <3>. HIDE DEF n, S, base
    <3>. QED BY <3>1, FoldExists
  <2>1. \A s \in SUBSET (1 .. n) : it[s] = IF s = {} THEN base ELSE step[Max(s)][it[s \ {Max(s)}]]
    BY <2>0 DEF Folds
  <2>2. ASSUME NEW s \in SUBSET (1 .. n)
        PROVE  it[s] = IF s = {} THEN <<>> ELSE KeepOne(it[s \ {Max(s)}], entries[Max(s)])
    <3>1. CASE s = {}
      BY <3>1, <2>1
    <3>2. CASE s # {}
      <4>1. Max(s) \in 1 .. n /\ it[s \ {Max(s)}] \in Seq(Urls)
        BY <3>2, <1>1, LastIn
      <4>2. step[Max(s)][it[s \ {Max(s)}]] = KeepOne(it[s \ {Max(s)}], entries[Max(s)])
        BY <4>1 DEF step
      <4>. QED BY <4>2, <3>2, <2>1
    <3>. QED BY <3>1, <3>2
  <2>3. it = [s \in SUBSET (1 .. n) |-> IF s = {} THEN <<>> ELSE KeepOne(it[s \ {Max(s)}], entries[Max(s)])]
    BY <2>1, <2>2
  <2>. QED BY <2>3, <1>1
<1>. DEFINE chosen == CHOOSE f : Whole(f)
<1>4. Whole(chosen)
  <2>. HIDE DEF Whole
  <2>. QED BY <1>3
<1>5. Archived(entries) = chosen[DOMAIN entries]
  BY DEF Archived, KeepOne, FoldLeft, MapThenFoldSet
<1>. DEFINE upTo == [k \in 0 .. n |-> chosen[1 .. k]]
<1>. HIDE DEF chosen
<1>6. chosen[{}] = <<>>
  BY <1>4, {} \in SUBSET (DOMAIN entries), Zenon
<1>7. upTo[0] = <<>>
  <2>1. 1 .. 0 = {} /\ 0 \in 0 .. n
    BY <1>1
  <2>. QED BY <2>1, <1>6
<1>8. ASSUME NEW k \in 1 .. n PROVE upTo[k] = KeepOne(upTo[k - 1], entries[k])
  <2>1. k \in 1 .. k /\ 1 .. k \in SUBSET (DOMAIN entries)
    BY <1>1
  <2>2. chosen[1 .. k] = KeepOne(chosen[(1 .. k) \ {Max(1 .. k)}], entries[Max(1 .. k)])
    BY <1>4, <2>1, Zenon
  <2>3. Max(1 .. k) = k
    BY LastOf
  <2>4. (1 .. k) \ {k} = 1 .. k - 1 /\ k - 1 \in 0 .. n /\ k \in 0 .. n
    BY <1>1
  <2>. QED BY <2>2, <2>3, <2>4
<1>9. \A k \in 0 .. n : upTo[k] \in Seq(Urls)
  <2>. DEFINE T == {k \in 0 .. n : upTo[k] \in Seq(Urls)}
  <2>1. 0 \in T
    <3>1. 0 \in 0 .. n
      BY <1>1
    <3>. HIDE DEF upTo, n
    <3>. QED BY <3>1, <1>7, <1>1, Zenon
  <2>2. ASSUME NEW k \in 0 .. n - 1, k \in T PROVE k + 1 \in T
    <3>1. k + 1 \in 1 .. n /\ (k + 1) - 1 = k /\ k + 1 \in 0 .. n
      BY <1>1, <2>2
    <3>2. upTo[k + 1] = KeepOne(upTo[k], entries[k + 1])
      BY <3>1, <1>8
    <3>3. KeepOne(upTo[k], entries[k + 1]) \in Seq(Urls)
      <4>. HIDE DEF upTo
      <4>. QED BY <2>2, <3>1, <1>1, KeepOneIs
    <3>. HIDE DEF upTo
    <3>. QED BY <3>1, <3>2, <3>3
  <2>3. \A k \in 0 .. n : k \in T
    <3>. HIDE DEF T
    <3>. QED BY <1>1, <2>1, <2>2, Induction
  <2>. QED BY <2>3
<1>10. Archived(entries) = upTo[n]
  BY <1>5, <1>1
<1>11. upTo \in [0 .. n -> Seq(Urls)]
  BY <1>9
<1>. HIDE DEF upTo
<1>. QED BY <1>7, <1>8, <1>10, <1>11

\* Resources with their identifiers.
Specs == Seq([id : Names, url : Urls])

\* A number put after an identifier makes another one, different from those with
\* another number after them and from those made from another.
LEMMA SuffixedIs ==
  ASSUME NEW id \in Names, NEW n \in Nat
  PROVE  /\ Suffixed(id, n) \in Names
         /\ \A other \in Names, m \in Nat : Suffixed(id, n) = Suffixed(other, m) => id = other /\ n = m
<1>1. \A x \in Names : x.stem \in Stems /\ x.numbers \in Seq(Nat) /\ x = [stem |-> x.stem, numbers |-> x.numbers]
  BY DEF Names
<1>3. Append(id.numbers, n) \in Seq(Nat)
  BY <1>1
<1>4. Suffixed(id, n) \in Names
  <2>. DEFINE numbers == Append(id.numbers, n)
  <2>1. id.stem \in Stems /\ numbers \in Seq(Nat)
    BY <1>1, <1>3
  <2>. HIDE DEF numbers
  <2>2. [stem |-> id.stem, numbers |-> numbers] \in Names
    BY <2>1 DEF Names
  <2>. QED BY <2>2 DEF Suffixed, numbers
<1>5. ASSUME NEW other \in Names, NEW m \in Nat, Suffixed(id, n) = Suffixed(other, m)
      PROVE  id = other /\ n = m
  <2>. DEFINE s == id.numbers
              t == other.numbers
  <2>1. id.stem = other.stem /\ Append(s, n) = Append(t, m)
    <3>1. [stem |-> id.stem, numbers |-> Append(s, n)] = [stem |-> other.stem, numbers |-> Append(t, m)]
      BY <1>5 DEF Suffixed
    <3>. HIDE DEF s, t
    <3>. QED BY <3>1
  <2>2. s \in Seq(Nat) /\ t \in Seq(Nat)
    BY <1>1
  <2>3. s = t /\ n = m
    <3>. HIDE DEF s, t
    <3>1. /\ Len(s) \in Nat /\ DOMAIN s = 1 .. Len(s) /\ s = [i \in DOMAIN s |-> s[i]]
          /\ Len(t) \in Nat /\ DOMAIN t = 1 .. Len(t) /\ t = [i \in DOMAIN t |-> t[i]]
      BY <2>2
    <3>2. /\ Len(Append(s, n)) = Len(s) + 1 /\ Append(s, n)[Len(s) + 1] = n
          /\ Len(Append(t, m)) = Len(t) + 1 /\ Append(t, m)[Len(t) + 1] = m
          /\ \A i \in 1 .. Len(s) : Append(s, n)[i] = s[i]
          /\ \A i \in 1 .. Len(t) : Append(t, m)[i] = t[i]
      BY <2>2
    <3>3. Len(s) = Len(t) /\ n = m
      <4>1. Len(s) + 1 = Len(t) + 1
        BY <2>1, <3>2
      <4>2. Len(s) = Len(t)
        <5>. DEFINE a == Len(s)
                    b == Len(t)
        <5>1. a \in Nat /\ b \in Nat /\ a + 1 = b + 1
          BY <3>1, <4>1
        <5>. HIDE DEF a, b
        <5>2. a = b
          BY <5>1
        <5>. QED BY <5>2 DEF a, b
      <4>3. n = Append(s, n)[Len(s) + 1] /\ m = Append(t, m)[Len(t) + 1]
        BY <3>2
      <4>. QED BY <2>1, <4>2, <4>3, Zenon
    <3>4. \A i \in 1 .. Len(s) : s[i] = t[i]
      BY <2>1, <3>2, <3>3
    <3>. QED BY <3>1, <3>3, <3>4
  <2>. QED BY <1>1, <2>1, <2>3
<1>. QED BY <1>4, <1>5

\* How many of a list have an identifier.
Having(list, id) == Cardinality({i \in DOMAIN list : list[i].id = id})

\* It counts them.
LEMMA HavingIs ==
  ASSUME NEW list \in Specs, NEW id
  PROVE  /\ Having(list, id) \in 0 .. Len(list)
         /\ Having(list, id) = 0 <=> \A i \in DOMAIN list : list[i].id # id
<1>. DEFINE having == {i \in DOMAIN list : list[i].id = id}
            n == Len(list)
<1>1. n \in Nat /\ DOMAIN list = 1 .. n /\ having \subseteq 1 .. n
  BY DEF Specs
<1>2. IsFiniteSet(1 .. n) /\ Cardinality(1 .. n) = n
  <2>. HIDE DEF n
  <2>1. Cardinality(1 .. n) = IF 1 > n THEN 0 ELSE n - 1 + 1
    BY <1>1, FS_Interval
  <2>2. IsFiniteSet(1 .. n)
    BY <1>1, FS_Interval
  <2>. QED BY <1>1, <2>1, <2>2
<1>3. IsFiniteSet(having) /\ Cardinality(having) \in Nat /\ Cardinality(having) <= n
  <2>. HIDE DEF having, n
  <2>1. IsFiniteSet(having) /\ Cardinality(having) <= Cardinality(1 .. n)
    BY <1>1, <1>2, FS_Subset
  <2>. QED BY <1>2, <2>1, FS_CardinalityType
<1>4. Cardinality(having) = 0 <=> having = {}
  <2>. HIDE DEF having
  <2>. QED BY <1>3, FS_EmptySet
<1>. QED BY <1>1, <1>3, <1>4 DEF Having

\* The identifier the next one gets.
NextId(list, url) ==
    IF Having(list, ResourceID[url]) > 0 THEN Suffixed(ResourceID[url], Having(list, ResourceID[url]) + 1)
    ELSE ResourceID[url]

\* One resource more, of the same type.
LEMMA IdentifiedNextIs ==
  ASSUME NEW list \in Specs, NEW url \in Urls
  PROVE  /\ IdentifiedNext(list, url) = Append(list, [id |-> NextId(list, url), url |-> url])
         /\ NextId(list, url) \in Names
         /\ IdentifiedNext(list, url) \in Specs
<1>. DEFINE new == [id |-> NextId(list, url), url |-> url]
<1>1. IdentifiedNext(list, url) = Append(list, new)
  BY DEF IdentifiedNext, NextId, Having
<1>2. NextId(list, url) \in Names
  <2>1. ResourceID[url] \in Names /\ Len(list) \in Nat /\ Having(list, ResourceID[url]) \in 0 .. Len(list)
    <3>1. ResourceID[url] \in Names
      BY ResourceListAssumption
    <3>2. Len(list) \in Nat
      BY DEF Specs
    <3>3. Having(list, ResourceID[url]) \in 0 .. Len(list)
      BY HavingIs
    <3>. QED BY <3>1, <3>2, <3>3
  <2>2. Having(list, ResourceID[url]) + 1 \in Nat
    BY <2>1
  <2>. QED BY <2>1, <2>2, SuffixedIs DEF NextId
<1>3. new \in [id : Names, url : Urls]
  BY <1>2
<1>4. Append(list, new) \in Specs
  <2>. HIDE DEF new
  <2>. QED BY <1>3 DEF Specs
<1>. QED BY <1>1, <1>2, <1>4

\* So are the identifiers.
LEMMA IdentifiedStepwise ==
  ASSUME NEW urls \in Seq(Urls)
  PROVE  \E upTo \in [0 .. Len(urls) -> Specs] :
            /\ upTo[0] = <<>>
            /\ \A k \in 1 .. Len(urls) : upTo[k] = IdentifiedNext(upTo[k - 1], urls[k])
            /\ Identified(urls) = upTo[Len(urls)]
<1>. DEFINE n == Len(urls)
            step == [i \in 1 .. n |-> [acc \in Specs |-> IdentifiedNext(acc, urls[i])]]
            Whole(f) == f = [s \in SUBSET (DOMAIN urls) |->
                               IF s = {} THEN <<>> ELSE IdentifiedNext(f[s \ {Max(s)}], urls[Max(s)])]
<1>1. n \in Nat /\ DOMAIN urls = 1 .. n /\ <<>> \in Specs
  BY DEF Specs
<1>2. step \in [1 .. n -> [Specs -> Specs]]
  <2>1. ASSUME NEW i \in 1 .. n, NEW acc \in Specs PROVE IdentifiedNext(acc, urls[i]) \in Specs
    <3>1. urls[i] \in Urls
      BY <1>1
    <3>. QED BY <3>1, IdentifiedNextIs
  <2>. QED BY <2>1
<1>3. \E it : Whole(it)
  <2>. HIDE DEF step
  <2>. DEFINE S == Specs
            base == <<>>
  <2>0. PICK it \in [SUBSET (1 .. n) -> S] : Folds(it, n, base, step)
    <3>1. n \in Nat /\ base \in S /\ step \in [1 .. n -> [S -> S]]
      BY <1>1, <1>2
    <3>. HIDE DEF n, S, base
    <3>. QED BY <3>1, FoldExists
  <2>1. \A s \in SUBSET (1 .. n) : it[s] = IF s = {} THEN base ELSE step[Max(s)][it[s \ {Max(s)}]]
    BY <2>0 DEF Folds
  <2>2. ASSUME NEW s \in SUBSET (1 .. n)
        PROVE  it[s] = IF s = {} THEN <<>> ELSE IdentifiedNext(it[s \ {Max(s)}], urls[Max(s)])
    <3>1. CASE s = {}
      BY <3>1, <2>1
    <3>2. CASE s # {}
      <4>1. Max(s) \in 1 .. n /\ it[s \ {Max(s)}] \in Specs
        BY <3>2, <1>1, LastIn
      <4>2. step[Max(s)][it[s \ {Max(s)}]] = IdentifiedNext(it[s \ {Max(s)}], urls[Max(s)])
        BY <4>1 DEF step
      <4>. QED BY <4>2, <3>2, <2>1
    <3>. QED BY <3>1, <3>2
  <2>3. it = [s \in SUBSET (1 .. n) |-> IF s = {} THEN <<>> ELSE IdentifiedNext(it[s \ {Max(s)}], urls[Max(s)])]
    BY <2>1, <2>2
  <2>. QED BY <2>3, <1>1
<1>. DEFINE chosen == CHOOSE f : Whole(f)
<1>4. Whole(chosen)
  <2>. HIDE DEF Whole
  <2>. QED BY <1>3
<1>5. Identified(urls) = chosen[DOMAIN urls]
  BY DEF Identified, FoldLeft, MapThenFoldSet
<1>. DEFINE upTo == [k \in 0 .. n |-> chosen[1 .. k]]
<1>. HIDE DEF chosen
<1>6. chosen[{}] = <<>>
  BY <1>4, {} \in SUBSET (DOMAIN urls), Zenon
<1>7. upTo[0] = <<>>
  <2>1. 1 .. 0 = {} /\ 0 \in 0 .. n
    BY <1>1
  <2>. QED BY <2>1, <1>6
<1>8. ASSUME NEW k \in 1 .. n PROVE upTo[k] = IdentifiedNext(upTo[k - 1], urls[k])
  <2>1. k \in 1 .. k /\ 1 .. k \in SUBSET (DOMAIN urls)
    BY <1>1
  <2>2. chosen[1 .. k] = IdentifiedNext(chosen[(1 .. k) \ {Max(1 .. k)}], urls[Max(1 .. k)])
    BY <1>4, <2>1, Zenon
  <2>3. Max(1 .. k) = k
    BY LastOf
  <2>4. (1 .. k) \ {k} = 1 .. k - 1 /\ k - 1 \in 0 .. n /\ k \in 0 .. n
    BY <1>1
  <2>. QED BY <2>2, <2>3, <2>4
<1>9. \A k \in 0 .. n : upTo[k] \in Specs
  <2>. DEFINE T == {k \in 0 .. n : upTo[k] \in Specs}
  <2>1. 0 \in T
    <3>1. 0 \in 0 .. n
      BY <1>1
    <3>. HIDE DEF upTo, n
    <3>. QED BY <3>1, <1>7, <1>1, Zenon
  <2>2. ASSUME NEW k \in 0 .. n - 1, k \in T PROVE k + 1 \in T
    <3>1. k + 1 \in 1 .. n /\ (k + 1) - 1 = k /\ k + 1 \in 0 .. n
      BY <1>1, <2>2
    <3>2. upTo[k + 1] = IdentifiedNext(upTo[k], urls[k + 1])
      BY <3>1, <1>8
    <3>3. IdentifiedNext(upTo[k], urls[k + 1]) \in Specs
      <4>. HIDE DEF upTo
      <4>1. urls[k + 1] \in Urls
        BY <3>1, <1>1
      <4>. QED BY <2>2, <4>1, IdentifiedNextIs
    <3>. HIDE DEF upTo
    <3>. QED BY <3>1, <3>2, <3>3
  <2>3. \A k \in 0 .. n : k \in T
    <3>. HIDE DEF T
    <3>. QED BY <1>1, <2>1, <2>2, Induction
  <2>. QED BY <2>3
<1>10. Identified(urls) = upTo[n]
  BY <1>5, <1>1
<1>11. upTo \in [0 .. n -> Specs]
  BY <1>9
<1>. HIDE DEF upTo
<1>. QED BY <1>7, <1>8, <1>10, <1>11

-----------------------------------------------------------------------------
(* What the readers come to *)

\* The entries with a URL among the first k.
Named(entries, k) == {j \in 1 .. k : entries[j].url # Blank}

\* They are finitely many.
LEMMA NamedFinite ==
  ASSUME NEW entries, NEW k \in Nat
  PROVE  IsFiniteSet(Named(entries, k)) /\ Cardinality(Named(entries, k)) \in Nat
<1>1. Named(entries, k) \subseteq 1 .. k
  BY DEF Named
<1>2. IsFiniteSet(1 .. k)
  BY FS_Interval
<1>3. IsFiniteSet(Named(entries, k))
  BY <1>1, <1>2, FS_Subset
<1>. QED BY <1>3, FS_CardinalityType

\* One element more.
LEMMA AppendIs ==
  ASSUME NEW S, NEW s \in Seq(S), NEW x \in S
  PROVE  /\ Len(s) \in Nat /\ DOMAIN s = 1 .. Len(s) /\ Len(Append(s, x)) = Len(s) + 1
         /\ DOMAIN Append(s, x) = DOMAIN s \cup {Len(s) + 1}
         /\ \A i \in DOMAIN s : Append(s, x)[i] = s[i]
         /\ Append(s, x)[Len(s) + 1] = x
OBVIOUS

\* Each entry with a URL is one more.
LEMMA NamedCounts ==
  ASSUME NEW entries \in Seq(Entry), NEW k \in 1 .. Len(entries)
  PROVE  /\ Named(entries, 0) = {}
         /\ Cardinality(Named(entries, k)) \in Nat
         /\ Cardinality(Named(entries, k - 1)) \in Nat
         /\ entries[k].url = Blank => Named(entries, k) = Named(entries, k - 1)
         /\ entries[k].url # Blank =>
               /\ Named(entries, k) = Named(entries, k - 1) \cup {k}
               /\ Cardinality(Named(entries, k)) = Cardinality(Named(entries, k - 1)) + 1
<1>1. k - 1 \in Nat /\ k \in Nat /\ k \notin Named(entries, k - 1)
  BY DEF Named
<1>2. IsFiniteSet(Named(entries, k - 1)) /\ Cardinality(Named(entries, k - 1)) \in Nat
  BY <1>1, NamedFinite
<1>3. IsFiniteSet(Named(entries, k)) /\ Cardinality(Named(entries, k)) \in Nat
  BY <1>1, NamedFinite
<1>4. entries[k].url = Blank => Named(entries, k) = Named(entries, k - 1)
  BY <1>1 DEF Named
<1>5. entries[k].url # Blank => Named(entries, k) = Named(entries, k - 1) \cup {k}
  BY <1>1 DEF Named
<1>6. Cardinality(Named(entries, k - 1) \cup {k}) = Cardinality(Named(entries, k - 1)) + 1
  BY <1>1, <1>2, FS_AddElement
<1>7. Named(entries, 0) = {}
  BY DEF Named
<1>. QED BY <1>2, <1>3, <1>4, <1>5, <1>6, <1>7

\* A list or sitemap is read URL by URL, in its order.
LEMMA ListedIs ==
  ASSUME NEW entries \in Seq(Entry)
  PROVE  /\ Listed(entries) \in Seq(Urls)
         /\ Len(Listed(entries)) = Cardinality(Named(entries, Len(entries)))
         /\ \A i \in Named(entries, Len(entries)) :
               /\ Cardinality(Named(entries, i)) \in 1 .. Len(Listed(entries))
               /\ Listed(entries)[Cardinality(Named(entries, i))] = entries[i].url
<1>. DEFINE n == Len(entries)
            count(k) == Cardinality(Named(entries, k))
<1>1. n \in Nat
  OBVIOUS
<1>2. PICK upTo \in [0 .. n -> Seq(Urls)] :
         /\ upTo[0] = <<>>
         /\ \A k \in 1 .. n : upTo[k] = ListOne(upTo[k - 1], entries[k])
         /\ Listed(entries) = upTo[n]
  BY ListedStepwise
<1>. DEFINE InOrder(k) == /\ Len(upTo[k]) = count(k)
                          /\ \A i \in Named(entries, k) :
                                count(i) \in 1 .. count(k) /\ upTo[k][count(i)] = entries[i].url
            T == {k \in 0 .. n : InOrder(k)}
<1>3. 0 \in T
  <2>1. Named(entries, 0) = {} /\ 0 \in 0 .. n
    BY <1>1 DEF Named
  <2>2. count(0) = 0 /\ Len(upTo[0]) = 0
    BY <2>1, <1>2, FS_EmptySet
  <2>. QED BY <2>1, <2>2
<1>4. ASSUME NEW k \in 0 .. n - 1, k \in T PROVE k + 1 \in T
  <2>1. k + 1 \in 1 .. n /\ k + 1 \in 0 .. n /\ (k + 1) - 1 = k /\ k \in 0 .. n
    BY <1>1, <1>4
  <2>2. upTo[k + 1] = ListOne(upTo[k], entries[k + 1]) /\ upTo[k] \in Seq(Urls) /\ entries[k + 1] \in Entry
    BY <2>1, <1>2
  <2>3. /\ count(k + 1) \in Nat /\ count(k) \in Nat
        /\ entries[k + 1].url = Blank => Named(entries, k + 1) = Named(entries, k)
        /\ entries[k + 1].url # Blank =>
               Named(entries, k + 1) = Named(entries, k) \cup {k + 1} /\ count(k + 1) = count(k) + 1
    BY <2>1, NamedCounts
  <2>4. InOrder(k)
    BY <1>4
  <2>5. InOrder(k + 1)
    <3>1. CASE entries[k + 1].url = Blank
      BY <3>1, <2>2, <2>3, <2>4 DEF ListOne
    <3>2. CASE entries[k + 1].url # Blank
      <4>. HIDE DEF count
      <4>1. entries[k + 1].url \in Urls
        BY <2>2, <3>2, EntryIs
      <4>2. upTo[k + 1] = Append(upTo[k], entries[k + 1].url)
        BY <2>2, <3>2 DEF ListOne
      <4>3. /\ Len(upTo[k + 1]) = count(k) + 1
            /\ \A i \in 1 .. count(k) : upTo[k + 1][i] = upTo[k][i]
            /\ upTo[k + 1][count(k) + 1] = entries[k + 1].url
        <5>. DEFINE read == upTo[k]
                    u == entries[k + 1].url
        <5>1. read \in Seq(Urls) /\ u \in Urls /\ Len(read) = count(k)
          BY <4>1, <2>2, <2>4
        <5>. HIDE DEF read, u
        <5>2. /\ DOMAIN read = 1 .. Len(read) /\ Len(Append(read, u)) = Len(read) + 1
              /\ \A i \in DOMAIN read : Append(read, u)[i] = read[i]
              /\ Append(read, u)[Len(read) + 1] = u
          BY <5>1, AppendIs
        <5>. QED BY <5>1, <5>2, <4>2 DEF read, u
      <4>4. ASSUME NEW i \in Named(entries, k)
            PROVE  count(i) \in 1 .. count(k + 1) /\ upTo[k + 1][count(i)] = entries[i].url
        BY <4>3, <2>3, <2>4, <3>2
      <4>5. count(k + 1) \in 1 .. count(k + 1) /\ upTo[k + 1][count(k + 1)] = entries[k + 1].url
        BY <4>3, <2>3, <3>2
      <4>. QED BY <4>3, <4>4, <4>5, <2>3, <3>2
    <3>. QED BY <3>1, <3>2
  <2>. QED BY <2>1, <2>5
<1>5. \A k \in 0 .. n : k \in T
  <2>. HIDE DEF T
  <2>. QED BY <1>1, <1>3, <1>4, Induction
<1>6. InOrder(n)
  BY <1>5, <1>1
<1>. QED BY <1>6, <1>2, <1>1

\* The first entry that replays a URL.
First(entries, u) ==
    CHOOSE i \in DOMAIN entries : /\ entries[i] = [url |-> u, replayable |-> TRUE]
                                  /\ \A j \in 1 .. i - 1 : entries[j] # entries[i]

\* There is one only.
LEMMA FirstIs ==
  ASSUME NEW entries \in Seq(Entry), NEW k \in DOMAIN entries,
         entries[k].replayable, \A j \in 1 .. k - 1 : entries[j] # entries[k]
  PROVE  First(entries, entries[k].url) = k
<1>1. entries[k] = [url |-> entries[k].url, replayable |-> TRUE]
  <2>1. entries[k] \in Entry
    OBVIOUS
  <2>2. entries[k].replayable = TRUE
    BY <2>1, EntryIs
  <2>. QED BY <2>1, <2>2, EntryIs
<1>2. ASSUME NEW i \in DOMAIN entries, entries[i] = entries[k], \A j \in 1 .. i - 1 : entries[j] # entries[i]
      PROVE  i = k
  BY <1>2
<1>. QED BY <1>1, <1>2 DEF First

\* An archive is read each URL once, none that may not be replayed, by first
\* appearance.
LEMMA ArchivedIs ==
  ASSUME NEW entries \in Seq(Entry)
  PROVE  /\ Archived(entries) \in Seq(Urls)
         /\ \A i \in DOMAIN Archived(entries) :
               \E j \in Named(entries, Len(entries)) : entries[j].replayable /\ entries[j].url = Archived(entries)[i]
         /\ \A j \in Named(entries, Len(entries)) :
               entries[j].replayable => \E i \in DOMAIN Archived(entries) : Archived(entries)[i] = entries[j].url
         /\ \A i, j \in DOMAIN Archived(entries) :
               i < j => First(entries, Archived(entries)[i]) < First(entries, Archived(entries)[j])
<1>. DEFINE n == Len(entries)
<1>1. n \in Nat /\ DOMAIN entries = 1 .. n
  OBVIOUS
<1>2. PICK upTo \in [0 .. n -> Seq(Urls)] :
         /\ upTo[0] = <<>>
         /\ \A k \in 1 .. n : upTo[k] = KeepOne(upTo[k - 1], entries[k])
         /\ Archived(entries) = upTo[n]
  BY ArchivedStepwise
<1>. DEFINE Replayed(k) == {j \in Named(entries, k) : entries[j].replayable}
            Once(k, read) ==
                /\ \A i \in DOMAIN read : \E j \in Replayed(k) : entries[j].url = read[i]
                /\ \A j \in Replayed(k) : \E i \in DOMAIN read : read[i] = entries[j].url
                /\ \A i \in DOMAIN read : First(entries, read[i]) \in 1 .. k
                /\ \A i, j \in DOMAIN read : i < j => First(entries, read[i]) < First(entries, read[j])
            T == {k \in 0 .. n : Once(k, upTo[k])}
<1>3. 0 \in T
  <2>1. Named(entries, 0) = {} /\ 0 \in 0 .. n
    BY <1>1 DEF Named
  <2>2. DOMAIN upTo[0] = {}
    BY <1>2
  <2>3. Replayed(0) = {}
    BY <2>1
  <2>. HIDE DEF Replayed
  <2>. QED BY <2>1, <2>2, <2>3
<1>4. ASSUME NEW k \in 0 .. n - 1, k \in T PROVE k + 1 \in T
  <2>. DEFINE e == entries[k + 1]
              read == upTo[k]
  <2>1. k + 1 \in 1 .. n /\ k + 1 \in 0 .. n /\ (k + 1) - 1 = k /\ k \in 0 .. n
    BY <1>1, <1>4
  <2>2. upTo[k + 1] = KeepOne(read, e) /\ read \in Seq(Urls) /\ e \in Entry
    BY <2>1, <1>2
  <2>3. Replayed(k + 1) = Replayed(k) \cup (IF e.replayable /\ e.url # Blank THEN {k + 1} ELSE {})
    BY <2>1 DEF Named
  <2>4. Once(k, read)
    BY <1>4
  <2>5. Once(k + 1, upTo[k + 1])
    <3>1. CASE ~(e.replayable /\ e.url # Blank)
      <4>1. upTo[k + 1] = read /\ Replayed(k + 1) = Replayed(k)
        BY <3>1, <2>2, <2>3 DEF KeepOne
      <4>. HIDE DEF Replayed, read
      <4>. QED BY <4>1, <2>4, <2>1
    <3>2. CASE e.replayable /\ e.url # Blank /\ e.url \in ToSet(read)
      <4>1. upTo[k + 1] = read /\ Replayed(k + 1) = Replayed(k) \cup {k + 1}
        BY <3>2, <2>2, <2>3 DEF KeepOne
      <4>2. \E i \in DOMAIN read : read[i] = e.url
        BY <3>2 DEF ToSet
      <4>. HIDE DEF Replayed, read
      <4>3. \A j \in Replayed(k + 1) : \E i \in DOMAIN read : read[i] = entries[j].url
        BY <4>1, <4>2, <2>4
      <4>4. \A i \in DOMAIN read : First(entries, read[i]) \in 1 .. k + 1
        BY <2>4, <2>1
      <4>. QED BY <4>1, <4>3, <4>4, <2>4
    <3>3. CASE e.replayable /\ e.url # Blank /\ e.url \notin ToSet(read)
      <4>1. upTo[k + 1] = Append(read, e.url) /\ Replayed(k + 1) = Replayed(k) \cup {k + 1}
        BY <3>3, <2>2, <2>3 DEF KeepOne
      <4>2. e.url \in Urls
        BY <3>3, <2>2, EntryIs
      <4>3. \A i \in DOMAIN read : read[i] # e.url
        BY <3>3 DEF ToSet
      <4>4. ASSUME NEW j \in 1 .. k PROVE entries[j] # e
        <5>1. CASE entries[j] = e
          <6>1. j \in Replayed(k)
            BY <5>1, <3>3 DEF Named
          <6>. HIDE DEF Replayed, read, e
          <6>. QED BY <6>1, <5>1, <2>4, <4>3
        <5>. QED BY <5>1
      <4>5. First(entries, e.url) = k + 1
        <5>1. k + 1 \in DOMAIN entries /\ (k + 1) - 1 = k
          BY <2>1, <1>1
        <5>. QED BY <5>1, <4>4, <3>3, FirstIs
      <4>6. /\ DOMAIN upTo[k + 1] = (DOMAIN read) \cup {Len(read) + 1} /\ Len(read) \in Nat
            /\ DOMAIN read = 1 .. Len(read)
            /\ \A i \in DOMAIN read : upTo[k + 1][i] = read[i]
            /\ upTo[k + 1][Len(read) + 1] = e.url
        <5>. DEFINE u == e.url
        <5>. HIDE DEF read, u
        <5>1. /\ Len(read) \in Nat /\ DOMAIN read = 1 .. Len(read)
              /\ DOMAIN Append(read, u) = DOMAIN read \cup {Len(read) + 1}
              /\ \A i \in DOMAIN read : Append(read, u)[i] = read[i]
              /\ Append(read, u)[Len(read) + 1] = u
          <6>1. u \in Urls
            BY <4>2 DEF u
          <6>. QED BY <6>1, <2>2, AppendIs
        <5>2. upTo[k + 1] = Append(read, u)
          BY <4>1 DEF u
        <5>. QED BY <5>1, <5>2 DEF u
      <4>. HIDE DEF Replayed, read, e
      <4>7. \A i \in DOMAIN upTo[k + 1] : \E j \in Replayed(k + 1) : entries[j].url = upTo[k + 1][i]
        BY <4>1, <4>6, <2>4 DEF e
      <4>8. \A j \in Replayed(k + 1) : \E i \in DOMAIN upTo[k + 1] : upTo[k + 1][i] = entries[j].url
        BY <4>1, <4>6, <2>4 DEF e
      <4>9. \A i \in DOMAIN upTo[k + 1] : First(entries, upTo[k + 1][i]) \in 1 .. k + 1
        <5>. SUFFICES ASSUME NEW i \in DOMAIN upTo[k + 1] PROVE First(entries, upTo[k + 1][i]) \in 1 .. k + 1
          OBVIOUS
        <5>1. CASE i \in DOMAIN read
          <6>1. upTo[k + 1][i] = read[i]
            BY <5>1, <4>6
          <6>2. First(entries, read[i]) \in 1 .. k
            BY <5>1, <2>4
          <6>3. 1 .. k \subseteq 1 .. k + 1
            BY <2>1
          <6>. QED BY <6>1, <6>2, <6>3
        <5>2. CASE i = Len(read) + 1
          <6>1. First(entries, upTo[k + 1][i]) = k + 1
            BY <5>2, <4>5, <4>6 DEF e
          <6>. QED BY <6>1, <2>1
        <5>. QED BY <5>1, <5>2, <4>6
      <4>10. ASSUME NEW i \in DOMAIN upTo[k + 1], NEW j \in DOMAIN upTo[k + 1], i < j
             PROVE  First(entries, upTo[k + 1][i]) < First(entries, upTo[k + 1][j])
        <5>1. i \in DOMAIN read
          BY <4>6, <4>10
        <5>2. CASE j \in DOMAIN read
          BY <5>1, <5>2, <4>6, <4>10, <2>4
        <5>3. CASE j = Len(read) + 1
          BY <5>1, <5>3, <4>5, <4>6, <2>4, <2>1
        <5>. QED BY <5>2, <5>3, <4>6
      <4>. QED BY <4>7, <4>8, <4>9, <4>10
    <3>. QED BY <3>1, <3>2, <3>3
  <2>. HIDE DEF Once
  <2>. QED BY <2>1, <2>5
<1>5. \A k \in 0 .. n : k \in T
  <2>. HIDE DEF T
  <2>. QED BY <1>1, <1>3, <1>4, Induction
<1>6. Once(n, upTo[n])
  <2>. HIDE DEF Once
  <2>. QED BY <1>5, <1>1
<1>. QED BY <1>6, <1>2, <1>1

\* The i-th of a list of resources: its URL, with its own identifier if none
\* before it was given that, or one with a number after it.
IdentifiedAs(list, i, url) ==
    /\ list[i].url = url
    /\ \/ list[i].id = ResourceID[url] /\ \A k \in 1 .. i - 1 : list[k].id # ResourceID[url]
       \/ /\ \E k \in 1 .. i - 1 : list[k].id = ResourceID[url]
          /\ \E n \in 2 .. i : list[i].id = Suffixed(ResourceID[url], n)

\* The next one is so too, and the others stay what they are.
LEMMA NextIdentifiedAs ==
  ASSUME NEW list \in Specs, NEW url \in Urls
  PROVE  LET after == IdentifiedNext(list, url)
         IN  /\ Len(after) = Len(list) + 1
             /\ \A i \in 1 .. Len(list) : after[i] = list[i]
             /\ IdentifiedAs(after, Len(list) + 1, url)
<1>. DEFINE after == IdentifiedNext(list, url)
            own == ResourceID[url]
            having == Having(list, own)
            new == [id |-> NextId(list, url), url |-> url]
<1>1. after = Append(list, new) /\ new \in [id : Names, url : Urls]
  BY IdentifiedNextIs
<1>2. /\ Len(list) \in Nat /\ DOMAIN list = 1 .. Len(list)
      /\ Len(after) = Len(list) + 1 /\ after[Len(list) + 1] = new
      /\ \A i \in 1 .. Len(list) : after[i] = list[i]
  <2>. HIDE DEF new, after
  <2>. QED BY <1>1 DEF Specs
<1>3. /\ having \in 0 .. Len(list)
      /\ having = 0 <=> \A i \in DOMAIN list : list[i].id # own
  BY HavingIs
<1>4. new.url = url /\ new.id = IF having > 0 THEN Suffixed(own, having + 1) ELSE own
  BY DEF NextId
<1>5. (Len(list) + 1) - 1 = Len(list)
  BY <1>2
<1>. HIDE DEF new, after, having, own
<1>6. CASE having = 0
  <2>1. new.id = own /\ \A k \in 1 .. Len(list) : after[k].id # own
    BY <1>2, <1>3, <1>4, <1>6
  <2>. QED BY <1>2, <1>4, <1>5, <2>1 DEF IdentifiedAs, own, after
<1>7. CASE having # 0
  <2>1. having > 0 /\ having + 1 \in 2 .. Len(list) + 1
    BY <1>2, <1>3, <1>7
  <2>2. new.id = Suffixed(own, having + 1) /\ \E k \in 1 .. Len(list) : after[k].id = own
    BY <1>2, <1>3, <1>4, <1>7, <2>1
  <2>3. \E n \in 2 .. Len(list) + 1 : after[Len(list) + 1].id = Suffixed(own, n)
    BY <1>2, <2>1, <2>2, Zenon
  <2>. QED BY <1>2, <1>4, <1>5, <2>2, <2>3 DEF IdentifiedAs, own, after
<1>. QED BY <1>6, <1>7

\* What is said of a resource depends on those up to it.
LEMMA StillIdentifiedAs ==
  ASSUME NEW list, NEW after, NEW n \in Nat, \A i \in 1 .. n : after[i] = list[i],
         NEW i \in 1 .. n, NEW url, IdentifiedAs(list, i, url)
  PROVE  IdentifiedAs(after, i, url)
<1>1. after[i] = list[i] /\ \A k \in 1 .. i - 1 : after[k] = list[k]
  OBVIOUS
<1>. QED BY <1>1 DEF IdentifiedAs

\* What FromURLs hands out.
LEMMA IdentifiedIs ==
  ASSUME NEW urls \in Seq(Urls)
  PROVE  /\ Identified(urls) \in Specs
         /\ Len(Identified(urls)) = Len(urls)
         /\ \A i \in DOMAIN urls : IdentifiedAs(Identified(urls), i, urls[i])
<1>. DEFINE n == Len(urls)
<1>1. n \in Nat /\ DOMAIN urls = 1 .. n /\ \A i \in 1 .. n : urls[i] \in Urls
  OBVIOUS
<1>2. PICK upTo \in [0 .. n -> Specs] :
         /\ upTo[0] = <<>>
         /\ \A k \in 1 .. n : upTo[k] = IdentifiedNext(upTo[k - 1], urls[k])
         /\ Identified(urls) = upTo[n]
  BY IdentifiedStepwise
<1>. DEFINE Handed(k) ==
                /\ Len(upTo[k]) = k
                /\ \A i \in 1 .. k : IdentifiedAs(upTo[k], i, urls[i])
            T == {k \in 0 .. n : Handed(k)}
<1>3. 0 \in T
  BY <1>1, <1>2
<1>4. ASSUME NEW k \in 0 .. n - 1, k \in T PROVE k + 1 \in T
  <2>1. k + 1 \in 1 .. n /\ k + 1 \in 0 .. n /\ (k + 1) - 1 = k /\ k \in 0 .. n
    BY <1>1, <1>4
  <2>2. upTo[k + 1] = IdentifiedNext(upTo[k], urls[k + 1]) /\ upTo[k] \in Specs /\ urls[k + 1] \in Urls
    BY <2>1, <1>1, <1>2
  <2>3. Len(upTo[k]) = k /\ \A i \in 1 .. k : IdentifiedAs(upTo[k], i, urls[i])
    BY <1>4
  <2>. DEFINE list == upTo[k]
              after == upTo[k + 1]
              url == urls[k + 1]
  <2>. HIDE DEF list, after, url
  <2>4. /\ after = IdentifiedNext(list, url) /\ list \in Specs /\ url \in Urls /\ Len(list) = k
        /\ \A i \in 1 .. k : IdentifiedAs(list, i, urls[i])
    BY <2>2, <2>3 DEF list, after, url
  <2>5. Len(after) = k + 1 /\ (\A i \in 1 .. k : after[i] = list[i]) /\ IdentifiedAs(after, k + 1, url)
    BY <2>4, NextIdentifiedAs
  <2>6. ASSUME NEW i \in 1 .. k + 1 PROVE IdentifiedAs(after, i, urls[i])
    <3>1. CASE i = k + 1
      BY <2>5, <3>1 DEF url
    <3>2. CASE i \in 1 .. k
      <4>1. k \in Nat /\ IdentifiedAs(list, i, urls[i])
        BY <2>1, <2>4, <3>2
      <4>. QED BY <2>5, <3>2, <4>1, StillIdentifiedAs
    <3>. QED BY <2>1, <3>1, <3>2
  <2>7. Handed(k + 1)
    BY <2>5, <2>6 DEF after
  <2>. HIDE DEF Handed
  <2>. QED BY <2>7, <2>1
<1>5. \A k \in 0 .. n : k \in T
  <2>. HIDE DEF T
  <2>. QED BY <1>1, <1>3, <1>4, Induction
<1>6. Handed(n)
  <2>. HIDE DEF Handed
  <2>. QED BY <1>5, <1>1
<1>. QED BY <1>1, <1>2, <1>6

-----------------------------------------------------------------------------
(* The invariant *)

\* What a resolved scan runs on.
Resources ==
    \/ given = {"url"} /\ specs = <<[id |-> Root, url |-> start]>>
    \/ given \in {{"list"}, {"sitemap"}} /\ specs = Identified(Listed(content))
    \/ given = {"har"} /\ specs = Identified(Archived(content))

\* The start of a crawl would be the value of a flag that may not be given with it.
IInv ==
    /\ given \subseteq Flags /\ start \in Urls \cup {Blank} /\ content \in Seq(Entry)
    /\ "url" \notin given => start = Blank
    /\ "url" \in given => start \in Urls
    /\ outcome \in {"unresolved", "resolved", "error"}
    /\ IF outcome = "resolved" THEN specs # <<>> /\ Resources ELSE specs = <<>>

\* No more is said of a bounded input than that it is one.
LEMMA InitIInv == Init => IInv
<1>. SUFFICES ASSUME Init PROVE IInv
  OBVIOUS
<1>1. PICK m \in Nat : content \in [1 .. m -> Entry]
  BY ResourceListAssumption DEF Init, BoundedSeq, SeqOf
<1>2. content \in Seq(Entry)
  BY <1>1
<1>. QED BY <1>2 DEF Init, IInv

\* One way to resolve after the other.
LEMMA NextIInv == IInv /\ [Next]_vars => IInv'
<1>. SUFFICES ASSUME IInv, [Next]_vars PROVE IInv'
  OBVIOUS
<1>1. CASE Refuse \/ Unreadable
  BY <1>1 DEF Refuse, Unreadable, IInv
<1>2. CASE Resolve
  <2>1. UNCHANGED <<given, start, content>> /\ outcome = "unresolved" /\ specs = <<>>
    BY <1>2 DEF Resolve, IInv
  <2>2. ASSUME NEW list, Resolved(list),
               list # <<>> =>
                  \/ given = {"url"} /\ list = <<[id |-> Root, url |-> start]>>
                  \/ given \in {{"list"}, {"sitemap"}} /\ list = Identified(Listed(content))
                  \/ given = {"har"} /\ list = Identified(Archived(content))
        PROVE  IInv'
    <3>1. CASE list = <<>>
      BY <2>1, <2>2, <3>1 DEF Resolved, IInv
    <3>2. CASE list # <<>>
      <4>1. outcome' = "resolved" /\ specs' = list
        BY <2>2, <3>2 DEF Resolved
      <4>2. Resources'
        BY <2>1, <2>2, <3>2, <4>1 DEF Resources
      <4>. QED BY <2>1, <3>2, <4>1, <4>2 DEF IInv
    <3>. QED BY <3>1, <3>2
  <2>3. CASE given = {"url"} /\ Resolved(<<[id |-> Root, url |-> start]>>)
    BY <2>2, <2>3
  <2>4. CASE given = {"list"} /\ Resolved(FromListFile(content))
    BY <2>2, <2>4 DEF FromListFile
  <2>5. CASE given = {"sitemap"} /\ Resolved(FromSitemap(content))
    BY <2>2, <2>5 DEF FromSitemap
  <2>6. CASE given = {"har"} /\ Resolved(FromHAR(content))
    BY <2>2, <2>6 DEF FromHAR
  <2>7. CASE given = {"crawl"} /\ Resolved(FromCrawl(start))
    <3>1. start = Blank
      BY <2>7 DEF IInv
    <3>2. FromCrawl(start) = Identified(<<>>)
      BY <3>1 DEF FromCrawl
    <3>3. <<>> \in Seq(Urls) /\ Len(<<>>) = 0
      OBVIOUS
    <3>4. Identified(<<>>) \in Specs /\ Len(Identified(<<>>)) = 0
      BY <3>3, IdentifiedIs
    <3>5. Identified(<<>>) = <<>>
      BY <3>4 DEF Specs
    <3>. QED BY <2>2, <2>7, <3>2, <3>5
  <2>. QED BY <1>2, <2>3, <2>4, <2>5, <2>6, <2>7 DEF Resolve
<1>3. CASE UNCHANGED vars
  BY <1>3 DEF vars, IInv, Resources
<1>. QED BY <1>1, <1>2, <1>3 DEF Next

\* In every state.
LEMMA Invariant == Spec => []IInv
BY InitIInv, NextIInv, PTL DEF Spec

\* The resources are identified URLs, whatever they were read from, or the one
\* given.
LEMMA ResourcesAre ==
  ASSUME IInv, outcome = "resolved"
  PROVE  \/ specs = <<[id |-> Root, url |-> start]>> /\ start \in Urls
         \/ \E urls \in Seq(Urls) : specs = Identified(urls)
<1>1. CASE given = {"url"} /\ specs = <<[id |-> Root, url |-> start]>>
  BY <1>1 DEF IInv
<1>2. CASE specs = Identified(Listed(content))
  BY <1>2, ListedIs DEF IInv
<1>3. CASE specs = Identified(Archived(content))
  BY <1>3, ArchivedIs DEF IInv
<1>. QED BY <1>1, <1>2, <1>3 DEF IInv, Resources

-----------------------------------------------------------------------------
(* The theorems *)

\* A scan runs on something: identified URLs, at least one; it does not when
\* nothing was resolved.
THEOREM TypeCorrect == Spec => []TypeOK
<1>1. IInv => TypeOK
  <2>. SUFFICES ASSUME IInv PROVE TypeOK
    OBVIOUS
  <2>1. specs \in Specs
    <3>1. CASE specs = <<>>
      BY <3>1 DEF Specs
    <3>2. CASE specs = <<[id |-> Root, url |-> start]>> /\ start \in Urls
      <4>1. Root \in Names
        BY ResourceListAssumption DEF Root, Names
      <4>2. [id |-> Root, url |-> start] \in [id : Names, url : Urls]
        BY <3>2, <4>1
      <4>. QED BY <3>2, <4>2 DEF Specs
    <3>3. CASE \E urls \in Seq(Urls) : specs = Identified(urls)
      BY <3>3, IdentifiedIs
    <3>. QED BY <3>1, <3>2, <3>3, ResourcesAre DEF IInv
  <2>. QED BY <2>1 DEF IInv, TypeOK, Specs
<1>. QED BY <1>1, Invariant, PTL

\* The order of the scan is that of a list or sitemap, and of first appearance in
\* an archive, however long they are.
THEOREM InputIsScannedInOrder == Spec => []ScannedInOrder
<1>1. ASSUME IInv, outcome = "resolved", given \in {{"list"}, {"sitemap"}} PROVE ListInOrder
  <2>1. content \in Seq(Entry) /\ specs = Identified(Listed(content))
    BY <1>1 DEF IInv, Resources
  <2>2. Sites = Named(content, Len(content))
    BY <2>1 DEF Sites, Named
  <2>3. \A i \in Sites : {j \in Sites : j <= i} = Named(content, i)
    BY <2>1 DEF Sites, Named
  <2>4. Listed(content) \in Seq(Urls) /\ Len(Listed(content)) = Cardinality(Sites)
    BY <2>1, <2>2, ListedIs
  <2>5. Len(specs) = Cardinality(Sites)
    BY <2>1, <2>4, IdentifiedIs
  <2>6. ASSUME NEW i \in Sites PROVE specs[Cardinality({j \in Sites : j <= i})].url = content[i].url
    <3>. DEFINE k == Cardinality(Named(content, i))
    <3>1. k \in 1 .. Len(Listed(content)) /\ Listed(content)[k] = content[i].url
      BY <2>1, <2>2, ListedIs
    <3>2. k \in DOMAIN Listed(content)
      BY <2>4, <3>1
    <3>3. IdentifiedAs(specs, k, Listed(content)[k])
      BY <2>1, <2>4, <3>2, IdentifiedIs
    <3>. HIDE DEF k
    <3>4. specs[k].url = content[i].url
      BY <3>1, <3>3 DEF IdentifiedAs
    <3>. QED BY <3>4, <2>3 DEF k
  <2>. QED BY <2>5, <2>6 DEF ListInOrder
<1>2. ASSUME IInv, outcome = "resolved", given = {"har"} PROVE ArchiveOnce
  <2>. DEFINE urls == Archived(content)
  <2>1. content \in Seq(Entry) /\ specs = Identified(urls)
    BY <1>2 DEF IInv, Resources
  <2>2. Sites = Named(content, Len(content))
    BY <2>1 DEF Sites, Named
  <2>3. urls \in Seq(Urls)
    BY <2>1, ArchivedIs
  <2>4. DOMAIN specs = DOMAIN urls /\ \A i \in DOMAIN urls : specs[i].url = urls[i]
    <3>1. specs \in Specs /\ Len(specs) = Len(urls)
      BY <2>1, <2>3, IdentifiedIs
    <3>2. \A i \in DOMAIN urls : IdentifiedAs(specs, i, urls[i])
      BY <2>1, <2>3, IdentifiedIs
    <3>. HIDE DEF urls
    <3>3. DOMAIN specs = 1 .. Len(specs) /\ DOMAIN urls = 1 .. Len(urls)
      BY <2>3, <3>1 DEF Specs
    <3>4. ASSUME NEW i \in DOMAIN urls PROVE specs[i].url = urls[i]
      <4>1. IdentifiedAs(specs, i, urls[i])
        BY <3>2
      <4>. QED BY <4>1 DEF IdentifiedAs
    <3>. QED BY <3>1, <3>3, <3>4
  <2>5. /\ \A i \in DOMAIN urls : \E j \in Sites : content[j].replayable /\ content[j].url = urls[i]
        /\ \A j \in Sites : content[j].replayable => \E i \in DOMAIN urls : urls[i] = content[j].url
        /\ \A i, j \in DOMAIN urls : i < j => First(content, urls[i]) < First(content, urls[j])
    BY <2>1, <2>2, ArchivedIs
  <2>. HIDE DEF urls
  <2>6. {specs[i].url : i \in DOMAIN specs} = {content[i].url : i \in {j \in Sites : content[j].replayable}}
    BY <2>4, <2>5
  <2>7. \A i, j \in DOMAIN specs : i < j => First(content, specs[i].url) < First(content, specs[j].url)
    BY <2>4, <2>5
  <2>. QED BY <2>6, <2>7 DEF ArchiveOnce, First
<1>3. IInv => ScannedInOrder
  BY <1>1, <1>2 DEF ScannedInOrder, ListInOrder, ArchiveOnce
<1>. QED BY <1>3, Invariant, PTL

\* Two resources share an identifier only if one before both has the one of their
\* own, or if the earlier one's own is the other's with a number.
THEOREM IdentifiersTellApart == Spec => []IdsTellApart
<1>. DEFINE own(k) == ResourceID[specs[k].url]
<1>1. ASSUME IInv PROVE IdsTellApart
  <2>1. CASE specs = <<>>
    BY <2>1 DEF IdsTellApart
  <2>2. CASE \E urls \in Seq(Urls) : specs = Identified(urls)
    <3>1. PICK urls \in Seq(Urls) : specs = Identified(urls)
      BY <2>2
    <3>2. specs \in Specs /\ Len(specs) = Len(urls) /\ \A i \in DOMAIN urls : IdentifiedAs(specs, i, urls[i])
      BY <3>1, IdentifiedIs
    <3>3. DOMAIN specs = DOMAIN urls /\ DOMAIN urls = 1 .. Len(urls) /\ Len(urls) \in Nat
      BY <3>2 DEF Specs
    <3>4. ASSUME NEW i \in DOMAIN specs
          PROVE  /\ own(i) \in Names
                 /\ \/ specs[i].id = own(i) /\ \A k \in 1 .. i - 1 : specs[k].id # own(i)
                    \/ /\ \E k \in 1 .. i - 1 : specs[k].id = own(i)
                       /\ \E n \in 2 .. i : specs[i].id = Suffixed(own(i), n)
      <4>1. specs[i].url = urls[i] /\ urls[i] \in Urls /\ IdentifiedAs(specs, i, urls[i])
        BY <3>2, <3>3 DEF IdentifiedAs
      <4>. QED BY <4>1, ResourceListAssumption DEF IdentifiedAs
    <3>5. ASSUME NEW i \in DOMAIN specs, NEW j \in DOMAIN specs, i < j, specs[i].id = specs[j].id
          PROVE  \/ own(i) = own(j) /\ \E k \in 1 .. i - 1 : specs[k].id = own(i)
                 \/ \E n \in 2 .. j : own(i) = Suffixed(own(j), n)
      <4>1. i \in 1 .. j - 1
        BY <3>3, <3>5
      <4>. HIDE DEF own
      <4>2. PICK m \in 2 .. j : specs[j].id = Suffixed(own(j), m)
        BY <3>4, <3>5, <4>1
      <4>3. CASE specs[i].id = own(i)
        BY <3>5, <4>2, <4>3
      <4>4. CASE (\E k \in 1 .. i - 1 : specs[k].id = own(i)) /\ \E n \in 2 .. i : specs[i].id = Suffixed(own(i), n)
        <5>1. PICK n \in 2 .. i : specs[i].id = Suffixed(own(i), n)
          BY <4>4
        <5>2. n \in Nat /\ m \in Nat /\ own(i) \in Names /\ own(j) \in Names
          BY <3>3, <3>4, <4>2, <5>1
        <5>3. Suffixed(own(i), n) = Suffixed(own(j), m)
          BY <3>5, <4>2, <5>1
        <5>4. own(i) = own(j)
          BY <5>2, <5>3, SuffixedIs
        <5>. QED BY <4>4, <5>4
      <4>. QED BY <3>4, <4>3, <4>4
    <3>. QED BY <3>5, Zenon DEF IdsTellApart
  <2>3. CASE specs = <<[id |-> Root, url |-> start]>>
    <3>1. DOMAIN specs = {1}
      BY <2>3
    <3>. QED BY <3>1 DEF IdsTellApart
  <2>4. outcome # "resolved" => specs = <<>>
    BY <1>1 DEF IInv
  <2>5. outcome = "resolved" =>
          specs = <<[id |-> Root, url |-> start]>> \/ \E urls \in Seq(Urls) : specs = Identified(urls)
    BY <1>1, ResourcesAre
  <2>. QED BY <2>1, <2>2, <2>3, <2>4, <2>5
<1>. QED BY <1>1, Invariant, PTL
=============================================================================
