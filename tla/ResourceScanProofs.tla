------------------------- MODULE ResourceScanProofs -------------------------
(***************************************************************************)
(* The checks that share one resource and its cache keep what ResourceScan *)
(* promises, for all lists, budgets and sites, however their requests and  *)
(* those of the users around them interleave.  The argument follows where  *)
(* every entry of the cache comes from.                                    *)
(***************************************************************************)
EXTENDS ResourceScan, FiniteSetTheorems, TLAPS

-----------------------------------------------------------------------------
(* The requests that are sent *)

\* Under no buster and with nothing to tell it from a user's but the way.
Bare(r) == r.token = NoToken /\ r.extra = Plain
ToResource(r) == r.to = 0 /\ r.value = 0

DeceptionSends(r) ==
    /\ ToResource(r)
    /\ \/ Bare(r) /\ r.way \in {Direct} \cup {<<"suffix", n>> : n \in 1 .. Len(Suffixes)}
       \/ r.token = <<"error", 1>> /\ r.extra = "range" /\ r.way = Direct
       \/ r.token = <<"split", 1>> /\ r.extra = "split" /\ r.way = Direct

EntanglementSends(r) ==
    /\ ToResource(r) /\ r.way = Direct
    /\ \E n \in 0 .. entangle.token : r.token = <<"entangle", n>>
    /\ r.extra \in Hidden \cup {Plain}

NormalizationSends(r) == ToResource(r) /\ Bare(r) /\ r.way \in {Direct, Beside} \cup Detours

KeyCollisionSends(r) ==
    r.to \in Nat \ {0} /\ r.value = 0 /\ Bare(r) /\ r.way \in {Direct} \cup Detours

KeyExplosionSends(r) == r.to = 0 /\ r.value \in 1 .. Probes /\ Bare(r) /\ r.way = Direct

Credentials(r) == r.extra \in {Plain, "anonymous"}
UserSends(r) == ToResource(r) /\ r.way = Direct /\ r.token = NoToken /\ Credentials(r)

\* The baseline comes before the varied requests.
VaryKeySends(r) ==
    \/ UserSends(r)
    \/ /\ ToResource(r) /\ r.way = Direct
       /\ \/ r.token = NoToken /\ r.extra \in ElementsOf(Dimensions) \cup {"cookie"} /\ vary.pc \notin {"off", "base"}
          \/ r.token = <<"vary", 1>> /\ r.extra = "anonymous"

Sent(r) ==
    \/ DeceptionSends(r) \/ EntanglementSends(r) \/ NormalizationSends(r) \/ KeyCollisionSends(r)
    \/ KeyExplosionSends(r) \/ VaryKeySends(r)

-----------------------------------------------------------------------------
(* The inductive invariant *)

\* Every budget covers what is paid for before it is looked at again.
EntanglementBudgeted ==
    /\ entangle.token + entangle.budget <= MaxRequests + (IF entangle.pc = "poison" THEN 1 ELSE 0)
    /\ entangle.pc \in {"poison", "confirm"} => entangle.budget >= 1 /\ entangle.next <= Len(Entanglement!Listed)
NormalizationBudgeted ==
    /\ normalize.pc = "control" => normalize.budget >= 2
    /\ normalize.pc = "repeat" => normalize.budget >= 1
KeyCollisionBudgeted == collide.victim + collide.budget <= MaxRequests + 1
VaryKeyBudgeted == vary.pc = "isolated" => vary.budget >= 1
Budgeted ==
    /\ content <= faults
    /\ EntanglementBudgeted /\ NormalizationBudgeted /\ KeyCollisionBudgeted /\ VaryKeyBudgeted

KeptUnder(r, key) ==
    /\ key.to = r.to /\ key.way = Keyed(r.way)
    /\ key.token = (IF Isolating THEN r.token ELSE NoToken)
    /\ key.extra = (IF r.extra \in site.keys THEN r.extra ELSE Plain)
    /\ key.value # 0 => r.value # 0 /\ "value" \in site.keys

\* Every entry is what the origin answered, under this content or a former one,
\* to a request that a check or a user has sent by a way the cache stores.
CameFrom(r, key) ==
    /\ Sent(r) /\ KeptUnder(r, key) /\ r.way \in site.stores
    /\ Ok(store[key])
    /\ store[key].what = Produced(r).what /\ store[key].shows = Produced(r).shows
    /\ store[key].version \in 0 .. content
Accounted == \A key \in DOMAIN store : \E r : CameFrom(r, key)

\* Deception: the page itself is the baseline.
DeceptionInv ==
    Honest /\ site.exists /\ ~site.loose =>
        /\ deception.pc = "suffix" => deception.base.what = "page"
        /\ \A n \in deception.suffixes : <<"suffix", n>> \in site.follows

Own(key) == key.token = <<"entangle", entangle.token>>
Poisonable(input) == input \in site.reads \ site.keys

\* Entanglement: what a confirm request may find is its own poison.
OwnMarks ==
    Isolating =>
        /\ entangle.pc \in {"poison", "confirm"} =>
              \A key \in DOMAIN store : Own(key) /\ key.extra = Plain /\ store[key].shows \in Hidden =>
                  Poisonable(Entanglement!Current) /\ Direct \in site.stores
        /\ \A input \in entangle.findings : Poisonable(input) /\ Direct \in site.stores

Untroubled == faults = 0 /\ Lasting
Unspent ==
    Untroubled /\ Isolating /\ entangle.budget > 0 /\ site.exists /\ Direct \in site.stores
Tried(technique) ==
    \A i \in 1 .. Len(Entanglement!Techniques[technique]) :
        Poisonable(Entanglement!Techniques[technique][i]) =>
            \E j \in 1 .. i : Entanglement!Techniques[technique][j] \in entangle.findings

OwnKey == [to |-> 0, way |-> Direct, token |-> <<"entangle", entangle.token>>, value |-> 0, extra |-> Plain]
Planted == OwnKey \in DOMAIN store /\ store[OwnKey].shows \in Hidden

\* Entanglement: what is poisonable is not passed over.
TechniquesTried ==
    /\ entangle.pc = "done" => (IsGet => Tried(1)) /\ Tried(2)
    /\ entangle.technique = 2 /\ IsGet => Tried(1)
    /\ ~IsGet => entangle.technique = 2
NoneSkipped ==
    entangle.pc \in {"pick", "poison", "confirm"} =>
        \A i \in 1 .. entangle.next - 1 : ~Poisonable(Entanglement!Listed[i])
PoisonLands ==
    /\ entangle.pc = "poison" => \A key \in DOMAIN store : ~Own(key)
    /\ entangle.pc = "confirm" /\ Poisonable(Entanglement!Current) => Planted
NonePassedOver == Unspent => TechniquesTried /\ NoneSkipped /\ PoisonLands

Walk(way) == [Request EXCEPT !.way = way]
WalkKey(way) == [to |-> 0, way |-> Keyed(way), token |-> NoToken, value |-> 0, extra |-> Plain]
Kept(way) == WalkKey(way) \in DOMAIN store
Unresolved == Detours \ site.collapses
Compared == normalize.pc \in {"control", "sweep", "repeat"}

\* Normalization: a detour gives the baseline, which is the page, only if the
\* origin follows it, unless the site is loose and nobody can tell.
DetoursFollowed ==
    /\ normalize.pc = "base" => normalize.found = {} /\ normalize.high = {}
    /\ Compared => normalize.base.what = "page" /\ site.exists
    /\ Unmarked /\ content = 0 /\ normalize.found # {} => ~site.loose
    /\ Unmarked \/ ~site.loose =>
          /\ normalize.pc = "repeat" => <<Forms[normalize.form], normalize.prefix>> \in site.follows
          /\ \A form \in normalize.found : \E p \in 1 .. Prefixes : <<form, p>> \in site.follows
          /\ \A form \in normalize.high :
                \E p \in 1 .. Prefixes : <<form, p>> \in site.follows /\ KeptAs(<<form, p>>)

\* A control that differs from the baseline of a loose site shows that the
\* content changed in between, and then no detour gives the baseline again.
LooseIsTold ==
    Unmarked /\ site.loose =>
        /\ normalize.pc \in {"base", "control"} => \A way \in Unresolved : ~Kept(way)
        /\ normalize.pc = "base" /\ Beside \notin site.collapses => ~Kept(Beside)
        /\ Compared =>
              /\ normalize.base.shows = Plain /\ normalize.base.version <= content
              /\ \A way \in {Direct, Beside} :
                    Kept(way) => store[WalkKey(way)].version >= normalize.base.version
        /\ normalize.pc \in {"sweep", "repeat"} =>
              /\ content > normalize.base.version
              /\ \A way \in Unresolved :
                    Kept(way) => store[WalkKey(way)].version > normalize.base.version
NormalizationInv == Honest => DetoursFollowed /\ LooseIsTold

\* Key collision: a poisoned answer is no missing page.
KeyCollisionInv ==
    /\ collide.found /\ (site.loose => content = 0) =>
          \E way \in Detours : way \in site.collapses \cap site.assets \cap site.stores
    /\ collide.pc = "confirm" => Ok(collide.poisoned)
    /\ site.loose /\ content = 0 =>
          /\ collide.pc \in {"pick", "poison"} => collide.missing = Page
          /\ collide.pc # "confirm" /\ ~collide.found

Counted == IF explode.pc = "value" THEN explode.next - 1 ELSE Probes
ValueEntry(value) == [to |-> 0, way |-> Direct, token |-> NoToken, value |-> value, extra |-> Plain]

\* Key explosion: as long as every probe was a MISS, the cache keeps the values of
\* all of them, up to its cap, and one more entry for all others.
ValuesApart == \A key \in DOMAIN store : key.value # 0 => key = ValueEntry(key.value)
ProbesCounted ==
    faults = 0 /\ site.overflow = "bucket" /\ Direct \in site.stores /\ site.exists
      /\ (explode.pc = "repeat" \/ (explode.pc = "value" /\ explode.budget >= Probes + 1)) =>
        IF "value" \in site.keys
        THEN /\ Counted <= site.room + 1
             /\ Values = IF Counted <= site.room THEN 1 .. Counted ELSE (1 .. site.room) \cup {Overflow}
        ELSE explode.pc = "value" /\ (explode.next = 1 \/ (explode.next = 2 /\ Kept(Direct)))
KeyExplosionInv ==
    /\ ValuesApart /\ ProbesCounted
    /\ explode.pc \in {"off", "value", "repeat"} => ~explode.found
    /\ ExplosionGenuine

Varying(extra) == [Request EXCEPT !.extra = extra]
VaryEntry(extra) ==
    [to |-> 0, way |-> Direct, token |-> NoToken, value |-> 0,
     extra |-> IF extra \in site.keys THEN extra ELSE Plain]
Varied(extra) == VaryEntry(extra) \in DOMAIN store

\* Vary-key: there is no entry yet of a dimension that is keyed and not yet
\* varied, and the baseline's entry stays.
Unjudged ==
    /\ vary.pc \in {"off", "base"} =>
          vary.leak = "none" /\ vary.keyed = {} /\ vary.inert = {} /\ vary.base.state = "unknown"
    /\ vary.leak # "none" => vary.pc = "done"
NotYetVaried ==
    faults = 0 =>
        /\ vary.pc \in {"base", "vary"} =>
              \A i \in vary.next .. Len(Dimensions) :
                  Dimensions[i] \in site.keys => ~Varied(Dimensions[i])
        /\ vary.pc \in {"base", "vary", "cookie"} /\ "cookie" \in site.keys => ~Varied("cookie")
BaselineStays ==
    Untroubled /\ vary.base.state = "HIT" =>
        /\ site.tells /\ Varied(Plain) /\ store[VaryEntry(Plain)] = vary.base.body
        /\ vary.raw \in {"HIT"} \X Labels

\* As long as the content is the same, the baseline is the page as it is for the
\* caller, and what is withheld without credentials is served from the cache.
BaselineIsPage ==
    content = 0 /\ Isolating /\ Honest =>
        /\ vary.pc \in {"vary", "cookie", "credentials", "isolated"} /\ Ok(vary.base.body) =>
              site.exists /\ vary.base.body = Page
        /\ vary.pc = "isolated" =>
              /\ Ok(vary.base.body) /\ vary.anonymous.body = vary.base.body
              /\ "anonymous" \in site.reads => "anonymous" \notin site.keys /\ KeptAs(Direct)
VaryKeyInv == Unjudged /\ NotYetVaried /\ BaselineStays /\ BaselineIsPage /\ VaryVerdictsGenuine

IInv ==
    /\ TypeOK /\ Budgeted /\ Accounted
    /\ DeceptionInv /\ OwnMarks /\ NonePassedOver /\ NormalizationInv
    /\ KeyCollisionInv /\ KeyExplosionInv /\ VaryKeyInv

-----------------------------------------------------------------------------
(* The cache *)

\* The lists of requests, spelled out.
LEMMA Constants ==
    /\ Prefixes \in Nat \ {0} /\ MaxRequests \in Nat /\ MaxFaults \in Nat
    /\ Plain \notin Extras /\ Plain \notin Hidden
    /\ {"cookie", "range", "split", "anonymous"} \subseteq Extras
    /\ ElementsOf(Dimensions) \subseteq Extras /\ Hidden \subseteq Extras
    /\ Hidden \cap (ElementsOf(Dimensions) \cup {"cookie", "range", "split", "anonymous"}) = {}
    /\ ElementsOf(Dimensions) \cap {"cookie", "range", "split", "anonymous"} = {}
    /\ Probes \in Nat /\ Probes >= 2
BY TargetAssumption, ResourceScanAssumption DEF Extras, Hidden

\* What the lists of a scan hold.
LEMMA Lists ==
    /\ Len(Suffixes) \in Nat /\ Len(FatBodies) \in Nat /\ Len(Cloaked) \in Nat /\ Len(Dimensions) \in Nat
    /\ Len(Forms) \in Nat \ {0} /\ Len(Collisions) \in Nat \ {0}
    /\ \A i \in 1 .. Len(Collisions) : Collisions[i] \in ElementsOf(Forms)
    /\ \A i \in 1 .. Len(Forms) : Forms[i] \in ElementsOf(Forms)
    /\ \A i \in 1 .. Len(Dimensions) : Dimensions[i] \in ElementsOf(Dimensions)
    /\ \A i \in 1 .. Len(FatBodies) : FatBodies[i] \in Hidden
    /\ \A i \in 1 .. Len(Cloaked) : Cloaked[i] \in Hidden
<1>1. \A list \in {Suffixes, Forms, FatBodies, Cloaked, Dimensions} : Len(list) \in Nat
  BY TargetAssumption
<1>2. Len(Forms) # 0
  <2>1. Forms \in Seq(ElementsOf(Forms)) /\ Forms # <<>>
    BY TargetAssumption
  <2>. QED  BY <2>1
<1>3. Len(Collisions) \in Nat \ {0} /\ \A i \in 1 .. Len(Collisions) : Collisions[i] \in ElementsOf(Forms)
  <2>1. Collisions \in Seq(ElementsOf(Forms)) /\ Collisions # <<>>
    BY ResourceScanAssumption
  <2>. QED  BY <2>1
<1>. QED  BY <1>1, <1>2, <1>3 DEF ElementsOf, Hidden

\* The ways a request is written.
LEMMA SomeWays ==
    /\ Direct \in Ways /\ Beside \in Ways /\ Beside # Direct /\ Detours \subseteq Ways
    /\ \A n \in 1 .. Len(Suffixes) : <<"suffix", n>> \in Ways \ {Direct}
BY DEF Ways, Direct, Beside

\* What a request without a parameter value is stored under does not depend on
\* how full the cache is.
LEMMA KeyIs ==
    \A r : /\ KeyOf(r).to = r.to /\ KeyOf(r).way = Keyed(r.way)
           /\ KeyOf(r).token = (IF Isolating THEN r.token ELSE NoToken)
           /\ KeyOf(r).extra = (IF r.extra \in site.keys THEN r.extra ELSE Plain)
           /\ KeyOf(r).value = ValueKey(r)
BY DEF KeyOf, Keyed, Isolating

\* What the cache files a probe's value under.
LEMMA ValueIs ==
    \A r : /\ r.value = 0 => ValueKey(r) = 0
           /\ "value" \notin site.keys => ValueKey(r) = 0
BY DEF ValueKey, Full

\* An answer is filed where it is accounted for.
LEMMA KeyIsKeptUnder == \A r : KeptUnder(r, KeyOf(r))
BY KeyIs, ValueIs DEF KeptUnder

\* What a request does to the cache: nothing, or it stores its answer, which
\* another entry may have to make room for.
LEMMA AfterIs ==
    ASSUME NEW r, NEW new \in After(r), new # store
    PROVE  /\ ~Hit(r) /\ r.way \in site.stores /\ Ok(Produced(r))
           /\ \/ new = With(store, KeyOf(r), Produced(r))
              \/ /\ site.overflow \notin {"bucket", "refuse"} /\ KeyOf(r).value # 0
                 /\ \E old \in DOMAIN store : new = With(Without({old}), KeyOf(r), Produced(r))
BY DEF After, Full

\* A request leaves behind the entries there were and at most its own.
LEMMA AfterAdds ==
    ASSUME NEW r, NEW new \in After(r), NEW key \in DOMAIN new
    PROVE  \/ key \in DOMAIN store /\ new[key] = store[key]
           \/ /\ key = KeyOf(r) /\ new[key] = Produced(r)
              /\ r.way \in site.stores /\ Ok(Produced(r)) /\ ~Hit(r)
<1>1. CASE new = store
  BY <1>1
<1>2. CASE new = With(store, KeyOf(r), Produced(r)) /\ new # store
  BY <1>2, AfterIs DEF With
<1>3. CASE (\E old \in DOMAIN store : new = With(Without({old}), KeyOf(r), Produced(r))) /\ new # store
  <2>1. PICK old \in DOMAIN store : new = With(Without({old}), KeyOf(r), Produced(r))
    BY <1>3
  <2>2. DOMAIN Without({old}) = DOMAIN store \ {old}
        /\ \A k \in DOMAIN store \ {old} : Without({old})[k] = store[k]
    BY DEF Without
  <2>3. new[key] = IF key = KeyOf(r) THEN Produced(r) ELSE Without({old})[key]
    BY <2>1 DEF With
  <2>4. key \in DOMAIN Without({old}) \/ key = KeyOf(r)
    BY <2>1 DEF With
  <2>. QED  BY <1>3, <2>2, <2>3, <2>4, AfterIs
<1>. QED  BY <1>1, <1>2, <1>3, AfterIs

\* None goes but for a parameter value.
LEMMA AfterKeeps ==
    ASSUME NEW r, NEW new \in After(r), NEW key \in DOMAIN store,
           site \in Sites, site.overflow # "evict" \/ r.value = 0
    PROVE  key \in DOMAIN new /\ new[key] = store[key]
<1>1. CASE new = store
  BY <1>1
<1>2. CASE new = With(store, KeyOf(r), Produced(r)) /\ ~Hit(r)
  BY <1>2 DEF With, Hit
<1>3. site.overflow \in {"bucket", "refuse", "evict"}
  BY DEF Sites
<1>4. r.value = 0 => KeyOf(r).value = 0
  BY KeyIs, ValueIs
<1>. QED  BY <1>1, <1>2, <1>3, <1>4, AfterIs

\* What is answered 2xx, and stored by the way it is asked for, is an entry then,
\* if the cache shares one entry among surplus values or no value is sent.
LEMMA AfterStores ==
    ASSUME NEW r, NEW new \in After(r), ~Hit(r), r.way \in site.stores, Ok(Produced(r)),
           site.overflow = "bucket" \/ r.value = 0
    PROVE  /\ DOMAIN new = DOMAIN store \cup {KeyOf(r)} /\ new[KeyOf(r)] = Produced(r)
           /\ \A key \in DOMAIN store : new[key] = store[key]
<1>1. ~(site.overflow # "bucket" /\ Full(KeyOf(r).value))
  BY KeyIs, ValueIs DEF Full
<1>2. new = With(store, KeyOf(r), Produced(r))
  BY <1>1 DEF After
<1>. QED  BY <1>2 DEF With, Hit

-----------------------------------------------------------------------------
(* Every check asks the one target *)

\* Deception's target is the one the checks share.
LEMMA DeceptionTarget ==
    /\ Deception!Request = Request /\ Deception!environment = environment
    /\ Deception!Missing = Missing /\ Deception!Page = Page /\ Deception!Direct = Direct
    /\ Deception!Beside = Beside /\ Deception!Plain = Plain /\ Deception!NoToken = NoToken
    /\ \A check, n : Deception!Busted(check, n) = Busted(check, n)
    /\ \A body : Deception!Ok(body) = Ok(body)
    /\ \A r : /\ Deception!Ask(r) <=> Ask(r)
              /\ Deception!Lose(r) <=> Lose(r)
              /\ Deception!Hit(r) <=> Hit(r)
              /\ Deception!Body(r) = Body(r)
              /\ Deception!State(r) = State(r)
              /\ Deception!Reply(r) = Reply(r)
<1>1. /\ Deception!Direct = Direct /\ Deception!Plain = Plain /\ Deception!NoToken = NoToken /\ Deception!Page = Page
      /\ Deception!Asset = Asset /\ Deception!Missing = Missing /\ Deception!Overflow = Overflow
      /\ Deception!Values = Values /\ Deception!environment = environment /\ Deception!Beside = Beside
  BY DEF Deception!Page, Page, Deception!Asset, Asset, Deception!Missing, Missing, Deception!Direct, Direct, Deception!Beside, Beside,
         Deception!Overflow, Overflow, Deception!NoToken, NoToken, Deception!Plain, Plain, Deception!Values, Values,
         Deception!environment, environment
<1>2. Deception!Request = Request
  BY <1>1 DEF Deception!Request, Request
<1>3. \A check, n : Deception!Busted(check, n) = Busted(check, n)
  BY <1>2 DEF Deception!Busted, Busted
<1>4. \A value : Deception!Full(value) = Full(value)
  BY <1>1 DEF Deception!Full, Full, Deception!Cardinality, Cardinality
<1>5. \A r : Deception!KeyOf(r) = KeyOf(r)
  BY <1>1, <1>4 DEF Deception!KeyOf, KeyOf, Deception!ValueKey, ValueKey
<1>6. \A r : Deception!Produced(r) = Produced(r)
  BY <1>1 DEF Deception!Produced, Produced
<1>7. \A r : Deception!Hit(r) = Hit(r)
  BY <1>5 DEF Deception!Hit, Hit
<1>8. \A body : Deception!Ok(body) = Ok(body)
  BY DEF Deception!Ok, Ok
<1>9. \A e, k, b : Deception!With(e, k, b) = With(e, k, b) /\ Deception!Without(k) = Without(k)
  BY DEF Deception!With, With, Deception!Without, Without
<1>10. \A r : Deception!After(r) = After(r)
  BY <1>4, <1>5, <1>6, <1>7, <1>8, <1>9 DEF Deception!After, After
<1>11. \A r : Deception!Ask(r) <=> Ask(r)
  BY <1>10 DEF Deception!Ask, Ask
<1>12. \A r : Deception!Lose(r) <=> Lose(r)
  BY <1>10 DEF Deception!Lose, Lose, Deception!Fault, Fault
<1>13. \A r : Deception!Body(r) = Body(r)
  BY <1>5, <1>6, <1>7 DEF Deception!Body, Body
<1>14. \A r : Deception!State(r) = State(r)
  BY <1>7 DEF Deception!State, State
<1>15. \A r : Deception!Reply(r) = Reply(r)
  BY <1>13, <1>14 DEF Deception!Reply, Reply
<1>. QED  BY <1>1, <1>2, <1>3, <1>7, <1>8, <1>11, <1>12, <1>13, <1>14, <1>15

\* Entanglement's target is the one the checks share.
LEMMA EntanglementTarget ==
    /\ Entanglement!Request = Request /\ Entanglement!environment = environment
    /\ Entanglement!Missing = Missing /\ Entanglement!Page = Page /\ Entanglement!Direct = Direct
    /\ Entanglement!Beside = Beside /\ Entanglement!Plain = Plain /\ Entanglement!NoToken = NoToken
    /\ \A check, n : Entanglement!Busted(check, n) = Busted(check, n)
    /\ \A body : Entanglement!Ok(body) = Ok(body)
    /\ \A r : /\ Entanglement!Ask(r) <=> Ask(r)
              /\ Entanglement!Lose(r) <=> Lose(r)
              /\ Entanglement!Hit(r) <=> Hit(r)
              /\ Entanglement!Body(r) = Body(r)
              /\ Entanglement!State(r) = State(r)
              /\ Entanglement!Reply(r) = Reply(r)
<1>1. /\ Entanglement!Direct = Direct /\ Entanglement!Plain = Plain /\ Entanglement!NoToken = NoToken /\ Entanglement!Page = Page
      /\ Entanglement!Asset = Asset /\ Entanglement!Missing = Missing /\ Entanglement!Overflow = Overflow
      /\ Entanglement!Values = Values /\ Entanglement!environment = environment /\ Entanglement!Beside = Beside
  BY DEF Entanglement!Page, Page, Entanglement!Asset, Asset, Entanglement!Missing, Missing, Entanglement!Direct, Direct, Entanglement!Beside, Beside,
         Entanglement!Overflow, Overflow, Entanglement!NoToken, NoToken, Entanglement!Plain, Plain, Entanglement!Values, Values,
         Entanglement!environment, environment
<1>2. Entanglement!Request = Request
  BY <1>1 DEF Entanglement!Request, Request
<1>3. \A check, n : Entanglement!Busted(check, n) = Busted(check, n)
  BY <1>2 DEF Entanglement!Busted, Busted
<1>4. \A value : Entanglement!Full(value) = Full(value)
  BY <1>1 DEF Entanglement!Full, Full, Entanglement!Cardinality, Cardinality
<1>5. \A r : Entanglement!KeyOf(r) = KeyOf(r)
  BY <1>1, <1>4 DEF Entanglement!KeyOf, KeyOf, Entanglement!ValueKey, ValueKey
<1>6. \A r : Entanglement!Produced(r) = Produced(r)
  BY <1>1 DEF Entanglement!Produced, Produced
<1>7. \A r : Entanglement!Hit(r) = Hit(r)
  BY <1>5 DEF Entanglement!Hit, Hit
<1>8. \A body : Entanglement!Ok(body) = Ok(body)
  BY DEF Entanglement!Ok, Ok
<1>9. \A e, k, b : Entanglement!With(e, k, b) = With(e, k, b) /\ Entanglement!Without(k) = Without(k)
  BY DEF Entanglement!With, With, Entanglement!Without, Without
<1>10. \A r : Entanglement!After(r) = After(r)
  BY <1>4, <1>5, <1>6, <1>7, <1>8, <1>9 DEF Entanglement!After, After
<1>11. \A r : Entanglement!Ask(r) <=> Ask(r)
  BY <1>10 DEF Entanglement!Ask, Ask
<1>12. \A r : Entanglement!Lose(r) <=> Lose(r)
  BY <1>10 DEF Entanglement!Lose, Lose, Entanglement!Fault, Fault
<1>13. \A r : Entanglement!Body(r) = Body(r)
  BY <1>5, <1>6, <1>7 DEF Entanglement!Body, Body
<1>14. \A r : Entanglement!State(r) = State(r)
  BY <1>7 DEF Entanglement!State, State
<1>15. \A r : Entanglement!Reply(r) = Reply(r)
  BY <1>13, <1>14 DEF Entanglement!Reply, Reply
<1>. QED  BY <1>1, <1>2, <1>3, <1>7, <1>8, <1>11, <1>12, <1>13, <1>14, <1>15

\* Normalization's target is the one the checks share.
LEMMA NormalizationTarget ==
    /\ Normalization!Request = Request /\ Normalization!environment = environment
    /\ Normalization!Missing = Missing /\ Normalization!Page = Page /\ Normalization!Direct = Direct
    /\ Normalization!Beside = Beside /\ Normalization!Plain = Plain /\ Normalization!NoToken = NoToken
    /\ \A check, n : Normalization!Busted(check, n) = Busted(check, n)
    /\ \A body : Normalization!Ok(body) = Ok(body)
    /\ \A r : /\ Normalization!Ask(r) <=> Ask(r)
              /\ Normalization!Lose(r) <=> Lose(r)
              /\ Normalization!Hit(r) <=> Hit(r)
              /\ Normalization!Body(r) = Body(r)
              /\ Normalization!State(r) = State(r)
              /\ Normalization!Reply(r) = Reply(r)
<1>1. /\ Normalization!Direct = Direct /\ Normalization!Plain = Plain /\ Normalization!NoToken = NoToken /\ Normalization!Page = Page
      /\ Normalization!Asset = Asset /\ Normalization!Missing = Missing /\ Normalization!Overflow = Overflow
      /\ Normalization!Values = Values /\ Normalization!environment = environment /\ Normalization!Beside = Beside
  BY DEF Normalization!Page, Page, Normalization!Asset, Asset, Normalization!Missing, Missing, Normalization!Direct, Direct, Normalization!Beside, Beside,
         Normalization!Overflow, Overflow, Normalization!NoToken, NoToken, Normalization!Plain, Plain, Normalization!Values, Values,
         Normalization!environment, environment
<1>2. Normalization!Request = Request
  BY <1>1 DEF Normalization!Request, Request
<1>3. \A check, n : Normalization!Busted(check, n) = Busted(check, n)
  BY <1>2 DEF Normalization!Busted, Busted
<1>4. \A value : Normalization!Full(value) = Full(value)
  BY <1>1 DEF Normalization!Full, Full, Normalization!Cardinality, Cardinality
<1>5. \A r : Normalization!KeyOf(r) = KeyOf(r)
  BY <1>1, <1>4 DEF Normalization!KeyOf, KeyOf, Normalization!ValueKey, ValueKey
<1>6. \A r : Normalization!Produced(r) = Produced(r)
  BY <1>1 DEF Normalization!Produced, Produced
<1>7. \A r : Normalization!Hit(r) = Hit(r)
  BY <1>5 DEF Normalization!Hit, Hit
<1>8. \A body : Normalization!Ok(body) = Ok(body)
  BY DEF Normalization!Ok, Ok
<1>9. \A e, k, b : Normalization!With(e, k, b) = With(e, k, b) /\ Normalization!Without(k) = Without(k)
  BY DEF Normalization!With, With, Normalization!Without, Without
<1>10. \A r : Normalization!After(r) = After(r)
  BY <1>4, <1>5, <1>6, <1>7, <1>8, <1>9 DEF Normalization!After, After
<1>11. \A r : Normalization!Ask(r) <=> Ask(r)
  BY <1>10 DEF Normalization!Ask, Ask
<1>12. \A r : Normalization!Lose(r) <=> Lose(r)
  BY <1>10 DEF Normalization!Lose, Lose, Normalization!Fault, Fault
<1>13. \A r : Normalization!Body(r) = Body(r)
  BY <1>5, <1>6, <1>7 DEF Normalization!Body, Body
<1>14. \A r : Normalization!State(r) = State(r)
  BY <1>7 DEF Normalization!State, State
<1>15. \A r : Normalization!Reply(r) = Reply(r)
  BY <1>13, <1>14 DEF Normalization!Reply, Reply
<1>. QED  BY <1>1, <1>2, <1>3, <1>7, <1>8, <1>11, <1>12, <1>13, <1>14, <1>15

\* KeyCollision's target is the one the checks share.
LEMMA KeyCollisionTarget ==
    /\ KeyCollision!Request = Request /\ KeyCollision!environment = environment
    /\ KeyCollision!Missing = Missing /\ KeyCollision!Page = Page /\ KeyCollision!Direct = Direct
    /\ KeyCollision!Beside = Beside /\ KeyCollision!Plain = Plain /\ KeyCollision!NoToken = NoToken
    /\ \A check, n : KeyCollision!Busted(check, n) = Busted(check, n)
    /\ \A body : KeyCollision!Ok(body) = Ok(body)
    /\ \A r : /\ KeyCollision!Ask(r) <=> Ask(r)
              /\ KeyCollision!Lose(r) <=> Lose(r)
              /\ KeyCollision!Hit(r) <=> Hit(r)
              /\ KeyCollision!Body(r) = Body(r)
              /\ KeyCollision!State(r) = State(r)
              /\ KeyCollision!Reply(r) = Reply(r)
<1>1. /\ KeyCollision!Direct = Direct /\ KeyCollision!Plain = Plain /\ KeyCollision!NoToken = NoToken /\ KeyCollision!Page = Page
      /\ KeyCollision!Asset = Asset /\ KeyCollision!Missing = Missing /\ KeyCollision!Overflow = Overflow
      /\ KeyCollision!Values = Values /\ KeyCollision!environment = environment /\ KeyCollision!Beside = Beside
  BY DEF KeyCollision!Page, Page, KeyCollision!Asset, Asset, KeyCollision!Missing, Missing, KeyCollision!Direct, Direct, KeyCollision!Beside, Beside,
         KeyCollision!Overflow, Overflow, KeyCollision!NoToken, NoToken, KeyCollision!Plain, Plain, KeyCollision!Values, Values,
         KeyCollision!environment, environment
<1>2. KeyCollision!Request = Request
  BY <1>1 DEF KeyCollision!Request, Request
<1>3. \A check, n : KeyCollision!Busted(check, n) = Busted(check, n)
  BY <1>2 DEF KeyCollision!Busted, Busted
<1>4. \A value : KeyCollision!Full(value) = Full(value)
  BY <1>1 DEF KeyCollision!Full, Full, KeyCollision!Cardinality, Cardinality
<1>5. \A r : KeyCollision!KeyOf(r) = KeyOf(r)
  BY <1>1, <1>4 DEF KeyCollision!KeyOf, KeyOf, KeyCollision!ValueKey, ValueKey
<1>6. \A r : KeyCollision!Produced(r) = Produced(r)
  BY <1>1 DEF KeyCollision!Produced, Produced
<1>7. \A r : KeyCollision!Hit(r) = Hit(r)
  BY <1>5 DEF KeyCollision!Hit, Hit
<1>8. \A body : KeyCollision!Ok(body) = Ok(body)
  BY DEF KeyCollision!Ok, Ok
<1>9. \A e, k, b : KeyCollision!With(e, k, b) = With(e, k, b) /\ KeyCollision!Without(k) = Without(k)
  BY DEF KeyCollision!With, With, KeyCollision!Without, Without
<1>10. \A r : KeyCollision!After(r) = After(r)
  BY <1>4, <1>5, <1>6, <1>7, <1>8, <1>9 DEF KeyCollision!After, After
<1>11. \A r : KeyCollision!Ask(r) <=> Ask(r)
  BY <1>10 DEF KeyCollision!Ask, Ask
<1>12. \A r : KeyCollision!Lose(r) <=> Lose(r)
  BY <1>10 DEF KeyCollision!Lose, Lose, KeyCollision!Fault, Fault
<1>13. \A r : KeyCollision!Body(r) = Body(r)
  BY <1>5, <1>6, <1>7 DEF KeyCollision!Body, Body
<1>14. \A r : KeyCollision!State(r) = State(r)
  BY <1>7 DEF KeyCollision!State, State
<1>15. \A r : KeyCollision!Reply(r) = Reply(r)
  BY <1>13, <1>14 DEF KeyCollision!Reply, Reply
<1>. QED  BY <1>1, <1>2, <1>3, <1>7, <1>8, <1>11, <1>12, <1>13, <1>14, <1>15

\* KeyExplosion's target is the one the checks share.
LEMMA KeyExplosionTarget ==
    /\ KeyExplosion!Request = Request /\ KeyExplosion!environment = environment
    /\ KeyExplosion!Missing = Missing /\ KeyExplosion!Page = Page /\ KeyExplosion!Direct = Direct
    /\ KeyExplosion!Beside = Beside /\ KeyExplosion!Plain = Plain /\ KeyExplosion!NoToken = NoToken
    /\ \A check, n : KeyExplosion!Busted(check, n) = Busted(check, n)
    /\ \A body : KeyExplosion!Ok(body) = Ok(body)
    /\ \A r : /\ KeyExplosion!Ask(r) <=> Ask(r)
              /\ KeyExplosion!Lose(r) <=> Lose(r)
              /\ KeyExplosion!Hit(r) <=> Hit(r)
              /\ KeyExplosion!Body(r) = Body(r)
              /\ KeyExplosion!State(r) = State(r)
              /\ KeyExplosion!Reply(r) = Reply(r)
<1>1. /\ KeyExplosion!Direct = Direct /\ KeyExplosion!Plain = Plain /\ KeyExplosion!NoToken = NoToken /\ KeyExplosion!Page = Page
      /\ KeyExplosion!Asset = Asset /\ KeyExplosion!Missing = Missing /\ KeyExplosion!Overflow = Overflow
      /\ KeyExplosion!Values = Values /\ KeyExplosion!environment = environment /\ KeyExplosion!Beside = Beside
  BY DEF KeyExplosion!Page, Page, KeyExplosion!Asset, Asset, KeyExplosion!Missing, Missing, KeyExplosion!Direct, Direct, KeyExplosion!Beside, Beside,
         KeyExplosion!Overflow, Overflow, KeyExplosion!NoToken, NoToken, KeyExplosion!Plain, Plain, KeyExplosion!Values, Values,
         KeyExplosion!environment, environment
<1>2. KeyExplosion!Request = Request
  BY <1>1 DEF KeyExplosion!Request, Request
<1>3. \A check, n : KeyExplosion!Busted(check, n) = Busted(check, n)
  BY <1>2 DEF KeyExplosion!Busted, Busted
<1>4. \A value : KeyExplosion!Full(value) = Full(value)
  BY <1>1 DEF KeyExplosion!Full, Full, KeyExplosion!Cardinality, Cardinality
<1>5. \A r : KeyExplosion!KeyOf(r) = KeyOf(r)
  BY <1>1, <1>4 DEF KeyExplosion!KeyOf, KeyOf, KeyExplosion!ValueKey, ValueKey
<1>6. \A r : KeyExplosion!Produced(r) = Produced(r)
  BY <1>1 DEF KeyExplosion!Produced, Produced
<1>7. \A r : KeyExplosion!Hit(r) = Hit(r)
  BY <1>5 DEF KeyExplosion!Hit, Hit
<1>8. \A body : KeyExplosion!Ok(body) = Ok(body)
  BY DEF KeyExplosion!Ok, Ok
<1>9. \A e, k, b : KeyExplosion!With(e, k, b) = With(e, k, b) /\ KeyExplosion!Without(k) = Without(k)
  BY DEF KeyExplosion!With, With, KeyExplosion!Without, Without
<1>10. \A r : KeyExplosion!After(r) = After(r)
  BY <1>4, <1>5, <1>6, <1>7, <1>8, <1>9 DEF KeyExplosion!After, After
<1>11. \A r : KeyExplosion!Ask(r) <=> Ask(r)
  BY <1>10 DEF KeyExplosion!Ask, Ask
<1>12. \A r : KeyExplosion!Lose(r) <=> Lose(r)
  BY <1>10 DEF KeyExplosion!Lose, Lose, KeyExplosion!Fault, Fault
<1>13. \A r : KeyExplosion!Body(r) = Body(r)
  BY <1>5, <1>6, <1>7 DEF KeyExplosion!Body, Body
<1>14. \A r : KeyExplosion!State(r) = State(r)
  BY <1>7 DEF KeyExplosion!State, State
<1>15. \A r : KeyExplosion!Reply(r) = Reply(r)
  BY <1>13, <1>14 DEF KeyExplosion!Reply, Reply
<1>. QED  BY <1>1, <1>2, <1>3, <1>7, <1>8, <1>11, <1>12, <1>13, <1>14, <1>15

\* VaryKey's target is the one the checks share.
LEMMA VaryKeyTarget ==
    /\ VaryKey!Request = Request /\ VaryKey!environment = environment
    /\ VaryKey!Missing = Missing /\ VaryKey!Page = Page /\ VaryKey!Direct = Direct
    /\ VaryKey!Beside = Beside /\ VaryKey!Plain = Plain /\ VaryKey!NoToken = NoToken
    /\ \A check, n : VaryKey!Busted(check, n) = Busted(check, n)
    /\ \A body : VaryKey!Ok(body) = Ok(body)
    /\ \A r : /\ VaryKey!Ask(r) <=> Ask(r)
              /\ VaryKey!Lose(r) <=> Lose(r)
              /\ VaryKey!Hit(r) <=> Hit(r)
              /\ VaryKey!Body(r) = Body(r)
              /\ VaryKey!State(r) = State(r)
              /\ VaryKey!Reply(r) = Reply(r)
              /\ VaryKey!RawValues(r) = RawValues(r)
    /\ VaryKey!NoValue = NoValue
<1>1. /\ VaryKey!Direct = Direct /\ VaryKey!Plain = Plain /\ VaryKey!NoToken = NoToken /\ VaryKey!Page = Page
      /\ VaryKey!Asset = Asset /\ VaryKey!Missing = Missing /\ VaryKey!Overflow = Overflow
      /\ VaryKey!Values = Values /\ VaryKey!environment = environment /\ VaryKey!Beside = Beside
  BY DEF VaryKey!Page, Page, VaryKey!Asset, Asset, VaryKey!Missing, Missing, VaryKey!Direct, Direct, VaryKey!Beside, Beside,
         VaryKey!Overflow, Overflow, VaryKey!NoToken, NoToken, VaryKey!Plain, Plain, VaryKey!Values, Values,
         VaryKey!environment, environment
<1>2. VaryKey!Request = Request
  BY <1>1 DEF VaryKey!Request, Request
<1>3. \A check, n : VaryKey!Busted(check, n) = Busted(check, n)
  BY <1>2 DEF VaryKey!Busted, Busted
<1>4. \A value : VaryKey!Full(value) = Full(value)
  BY <1>1 DEF VaryKey!Full, Full, VaryKey!Cardinality, Cardinality
<1>5. \A r : VaryKey!KeyOf(r) = KeyOf(r)
  BY <1>1, <1>4 DEF VaryKey!KeyOf, KeyOf, VaryKey!ValueKey, ValueKey
<1>6. \A r : VaryKey!Produced(r) = Produced(r)
  BY <1>1 DEF VaryKey!Produced, Produced
<1>7. \A r : VaryKey!Hit(r) = Hit(r)
  BY <1>5 DEF VaryKey!Hit, Hit
<1>8. \A body : VaryKey!Ok(body) = Ok(body)
  BY DEF VaryKey!Ok, Ok
<1>9. \A e, k, b : VaryKey!With(e, k, b) = With(e, k, b) /\ VaryKey!Without(k) = Without(k)
  BY DEF VaryKey!With, With, VaryKey!Without, Without
<1>10. \A r : VaryKey!After(r) = After(r)
  BY <1>4, <1>5, <1>6, <1>7, <1>8, <1>9 DEF VaryKey!After, After
<1>11. \A r : VaryKey!Ask(r) <=> Ask(r)
  BY <1>10 DEF VaryKey!Ask, Ask
<1>12. \A r : VaryKey!Lose(r) <=> Lose(r)
  BY <1>10 DEF VaryKey!Lose, Lose, VaryKey!Fault, Fault
<1>13. \A r : VaryKey!Body(r) = Body(r)
  BY <1>5, <1>6, <1>7 DEF VaryKey!Body, Body
<1>14. \A r : VaryKey!State(r) = State(r)
  BY <1>7 DEF VaryKey!State, State
<1>16. VaryKey!NoValue = NoValue /\ VaryKey!Labels = Labels
  BY DEF VaryKey!NoValue, NoValue, VaryKey!Labels, Labels
<1>17. \A r : VaryKey!RawValues(r) = RawValues(r)
  BY <1>14, <1>16 DEF VaryKey!RawValues, RawValues
<1>15. \A r : VaryKey!Reply(r) = Reply(r)
  BY <1>13, <1>14 DEF VaryKey!Reply, Reply
<1>. QED  BY <1>1, <1>2, <1>3, <1>7, <1>8, <1>11, <1>12, <1>13, <1>14, <1>15, <1>16, <1>17

-----------------------------------------------------------------------------
(* The steps and what they do to the environment *)

SameOrFault == faults' = faults \/ (faults < MaxFaults /\ faults' = faults + 1)
Quiet == site' = site /\ store' = store /\ content' = content /\ SameOrFault

\* A request is answered, or lost before the cache saw it or after.
Answered(r) ==
    /\ site' = site /\ content' = content /\ SameOrFault
    /\ store' = store \/ store' \in After(r)

\* A request that is lost may have been answered all the same.
LEMMA AskedIsAnswered == \A r : Ask(r) \/ Lose(r) => Answered(r)
BY DEF Ask, Lose, Fault, Answered, SameOrFault

\* What leaves the environment alone is quiet.
LEMMA QuietIs == UNCHANGED environment => Quiet
BY DEF environment, Quiet, SameOrFault

\* The request of a resource as it stands.
LEMMA RequestIs ==
    /\ Request.to = 0 /\ Request.way = Direct /\ Request.token = NoToken
    /\ Request.value = 0 /\ Request.extra = Plain
BY DEF Request

\* That request with one thing about it changed.
LEMMA Variants ==
    \A x : LET w == [Request EXCEPT !.way = x]
               e == [Request EXCEPT !.extra = x]
               v == [Request EXCEPT !.value = x]
               t == [Request EXCEPT !.to = x]
           IN  /\ w.to = 0 /\ w.way = x /\ w.token = NoToken /\ w.value = 0 /\ w.extra = Plain
               /\ e.to = 0 /\ e.way = Direct /\ e.token = NoToken /\ e.value = 0 /\ e.extra = x
               /\ v.to = 0 /\ v.way = Direct /\ v.token = NoToken /\ v.value = x /\ v.extra = Plain
               /\ t.to = x /\ t.way = Direct /\ t.token = NoToken /\ t.value = 0 /\ t.extra = Plain
BY DEF Request

\* The same under a cache-buster, and of a victim.
LEMMA BustedVariants ==
    \A check, n, x :
       LET b == Busted(check, n)
           e == [b EXCEPT !.extra = x]
           d == [[Request EXCEPT !.to = n] EXCEPT !.way = x]
       IN  /\ b.to = 0 /\ b.way = Direct /\ b.token = <<check, n>> /\ b.value = 0 /\ b.extra = Plain
           /\ e.to = 0 /\ e.way = Direct /\ e.token = <<check, n>> /\ e.value = 0 /\ e.extra = x
           /\ d.to = n /\ d.way = x /\ d.token = NoToken /\ d.value = 0 /\ d.extra = Plain
BY DEF Busted, Request

\* The deception check sends what it is said to send, and nothing else.
LEMMA DeceptionAsks == TypeOK /\ Deception!Next => Quiet \/ \E r : DeceptionSends(r) /\ Answered(r)
<1>. SUFFICES ASSUME TypeOK, Deception!Next PROVE Quiet \/ \E r : DeceptionSends(r) /\ Answered(r)
  OBVIOUS
<1>1. CASE Deception!BaseRequest
  <2>1. Answered(Request)
    BY <1>1, DeceptionTarget, AskedIsAnswered DEF Deception!BaseRequest
  <2>2. DeceptionSends(Request)
    BY RequestIs DEF DeceptionSends, ToResource, Bare
  <2>. QED  BY <2>1, <2>2
<1>2. CASE Deception!SuffixRequest
  <2>. DEFINE r == [Request EXCEPT !.way = <<"suffix", deception.next>>]
  <2>1. Deception!Suffixed(deception.next) = r
    BY DeceptionTarget DEF Deception!Suffixed
  <2>2. Answered(r)
    BY <1>2, <2>1, DeceptionTarget, AskedIsAnswered DEF Deception!SuffixRequest
  <2>3. deception.next \in 1 .. Len(Suffixes)
    BY <1>2, Lists DEF Deception!SuffixRequest, TypeOK, DeceptionTypeOK
  <2>4. DeceptionSends(r)
    BY <2>3, Variants DEF DeceptionSends, ToResource, Bare
  <2>. QED  BY <2>2, <2>4
<1>3. CASE Deception!SuffixesTried
  BY <1>3, QuietIs DEF Deception!SuffixesTried, Deception!environment, environment
<1>4. CASE Deception!ErrorRequest
  <2>. DEFINE r == [Busted("error", 1) EXCEPT !.extra = "range"]
  <2>1. Deception!RangeProbe = r
    BY DeceptionTarget DEF Deception!RangeProbe
  <2>2. Answered(r)
    BY <1>4, <2>1, DeceptionTarget, AskedIsAnswered DEF Deception!ErrorRequest
  <2>3. DeceptionSends(r)
    BY BustedVariants DEF DeceptionSends, ToResource
  <2>. QED  BY <2>2, <2>3
<1>5. CASE Deception!SplitRequest
  <2>. DEFINE r == [Busted("split", 1) EXCEPT !.extra = "split"]
  <2>1. Deception!SplitProbe = r
    BY DeceptionTarget DEF Deception!SplitProbe
  <2>2. Answered(r)
    BY <1>5, <2>1, DeceptionTarget, AskedIsAnswered DEF Deception!SplitRequest
  <2>3. DeceptionSends(r)
    BY BustedVariants DEF DeceptionSends, ToResource
  <2>. QED  BY <2>2, <2>3
<1>. QED  BY <1>1, <1>2, <1>3, <1>4, <1>5 DEF Deception!Next

\* What the technique at hand has listed.
LEMMA ListedIs ==
    TypeOK => /\ Entanglement!Listed = IF entangle.technique = 1 THEN FatBodies ELSE Cloaked
              /\ Len(Entanglement!Listed) \in Nat
              /\ \A i \in 1 .. Len(Entanglement!Listed) : Entanglement!Listed[i] \in Hidden
<1>. SUFFICES ASSUME TypeOK
     PROVE /\ Entanglement!Listed = IF entangle.technique = 1 THEN FatBodies ELSE Cloaked
           /\ Len(Entanglement!Listed) \in Nat
           /\ \A i \in 1 .. Len(Entanglement!Listed) : Entanglement!Listed[i] \in Hidden
  OBVIOUS
<1>1. entangle.technique \in {1, 2}
  BY DEF TypeOK, EntanglementTypeOK
<1>2. Entanglement!Listed = IF entangle.technique = 1 THEN FatBodies ELSE Cloaked
  BY <1>1 DEF Entanglement!Listed, Entanglement!Techniques
<1>. QED  BY <1>2, Lists

\* The input under attempt is one of those.
LEMMA CurrentIsHidden ==
    TypeOK /\ entangle.next <= Len(Entanglement!Listed) =>
        Entanglement!Current \in Hidden /\ entangle.next \in 1 .. Len(Entanglement!Listed)
<1>. SUFFICES ASSUME TypeOK, entangle.next <= Len(Entanglement!Listed)
     PROVE  Entanglement!Current \in Hidden /\ entangle.next \in 1 .. Len(Entanglement!Listed)
  OBVIOUS
<1>1. entangle.next \in Nat /\ entangle.next >= 1
  BY Lists DEF TypeOK, EntanglementTypeOK
<1>. QED  BY <1>1, ListedIs DEF Entanglement!Current

\* The entanglement check sends what it is said to send.
LEMMA EntanglementAsks ==
    TypeOK /\ Budgeted /\ Entanglement!Next => Quiet \/ \E r : EntanglementSends(r) /\ Answered(r)
<1>. SUFFICES ASSUME TypeOK, Budgeted, Entanglement!Next
     PROVE  Quiet \/ \E r : EntanglementSends(r) /\ Answered(r)
  OBVIOUS
<1>0. entangle.token \in Nat
  BY Constants DEF TypeOK, EntanglementTypeOK
<1>1. CASE Entanglement!TechniqueOver
  BY <1>1, QuietIs DEF Entanglement!TechniqueOver, Entanglement!environment, environment
<1>2. CASE Entanglement!Attempt
  BY <1>2 DEF Entanglement!Attempt, Entanglement!environment, Entanglement!Fault, Quiet, SameOrFault
<1>3. CASE Entanglement!PoisonRequest
  <2>. DEFINE r == [Busted("entangle", entangle.token) EXCEPT !.extra = Entanglement!Current]
  <2>1. Entanglement!Poison = r
    BY EntanglementTarget DEF Entanglement!Poison
  <2>2. Answered(r)
    BY <1>3, <2>1, EntanglementTarget, AskedIsAnswered DEF Entanglement!PoisonRequest
  <2>3. Entanglement!Current \in Hidden
    BY <1>3, CurrentIsHidden DEF Entanglement!PoisonRequest, Entanglement!At, Budgeted, EntanglementBudgeted
  <2>4. EntanglementSends(r)
    BY <1>0, <2>3, BustedVariants DEF EntanglementSends, ToResource
  <2>. QED  BY <2>2, <2>4
<1>4. CASE Entanglement!ConfirmRequest
  <2>. DEFINE r == Busted("entangle", entangle.token)
  <2>1. Entanglement!Confirm = r
    BY EntanglementTarget DEF Entanglement!Confirm
  <2>2. Answered(r)
    BY <1>4, <2>1, EntanglementTarget, AskedIsAnswered DEF Entanglement!ConfirmRequest
  <2>4. EntanglementSends(r)
    BY <1>0, BustedVariants DEF EntanglementSends, ToResource
  <2>. QED  BY <2>2, <2>4
<1>. QED  BY <1>1, <1>2, <1>3, <1>4 DEF Entanglement!Next

\* Every listed form, as deep as it is written, is a detour.
LEMMA DetourIs ==
    /\ \A form \in 1 .. Len(Forms), p \in 1 .. Prefixes : <<Forms[form], p>> \in Detours
    /\ \A form \in 1 .. Len(Collisions), p \in 1 .. Prefixes : <<Collisions[form], p>> \in Detours
BY Lists DEF Detours

\* The detour and the control of the normalization check.
LEMMA NormalizationDetour ==
    TypeOK => /\ Normalization!Detour = [Request EXCEPT !.way = <<Forms[normalize.form], normalize.prefix>>]
              /\ Normalization!Control = [Request EXCEPT !.way = Beside]
              /\ <<Forms[normalize.form], normalize.prefix>> \in Detours
BY NormalizationTarget, DetourIs
   DEF Normalization!Detour, Normalization!Control, Normalization!Form, TypeOK, NormalizationTypeOK

\* The normalization check sends what it is said to send.
LEMMA NormalizationAsks ==
    TypeOK /\ Normalization!Next => Quiet \/ \E r : NormalizationSends(r) /\ Answered(r)
<1>. SUFFICES ASSUME TypeOK, Normalization!Next PROVE Quiet \/ \E r : NormalizationSends(r) /\ Answered(r)
  OBVIOUS
<1>1. CASE Normalization!TooFew \/ Normalization!OutOfBudget \/ Normalization!SkipFound
  BY <1>1, QuietIs
     DEF Normalization!TooFew, Normalization!OutOfBudget, Normalization!SkipFound,
         Normalization!environment, environment
<1>2. CASE Normalization!BaseRequest
  <2>1. Answered(Request)
    BY <1>2, NormalizationTarget, AskedIsAnswered DEF Normalization!BaseRequest
  <2>2. NormalizationSends(Request)
    BY RequestIs DEF NormalizationSends, ToResource, Bare
  <2>. QED  BY <2>1, <2>2
<1>3. CASE Normalization!ControlRequest
  <2>. DEFINE r == [Request EXCEPT !.way = Beside]
  <2>1. Answered(r)
    BY <1>3, NormalizationDetour, NormalizationTarget, AskedIsAnswered DEF Normalization!ControlRequest
  <2>2. NormalizationSends(r)
    BY Variants DEF NormalizationSends, ToResource, Bare
  <2>. QED  BY <2>1, <2>2
<1>4. CASE Normalization!DetourRequest \/ Normalization!RepeatRequest
  <2>. DEFINE r == [Request EXCEPT !.way = <<Forms[normalize.form], normalize.prefix>>]
  <2>1. Answered(r)
    BY <1>4, NormalizationDetour, NormalizationTarget, AskedIsAnswered
       DEF Normalization!DetourRequest, Normalization!RepeatRequest
  <2>2. NormalizationSends(r)
    BY NormalizationDetour, Variants DEF NormalizationSends, ToResource, Bare
  <2>. QED  BY <2>1, <2>2
<1>. QED  BY <1>1, <1>2, <1>3, <1>4 DEF Normalization!Next

\* The requests of the key collision check.
LEMMA KeyCollisionRequests ==
    TypeOK => LET poison == [[Request EXCEPT !.to = collide.victim] EXCEPT !.way = <<Collisions[collide.form], collide.prefix>>]
                  stray == [Request EXCEPT !.to = collide.victim]
              IN  /\ KeyCollision!Poison = poison
                  /\ KeyCollision!Stray(collide.victim) = stray /\ KeyCollision!Confirm = stray
                  /\ KeyCollisionSends(poison) /\ KeyCollisionSends(stray)
<1>. SUFFICES ASSUME TypeOK
     PROVE  LET poison == [[Request EXCEPT !.to = collide.victim] EXCEPT !.way = <<Collisions[collide.form], collide.prefix>>]
                stray == [Request EXCEPT !.to = collide.victim]
            IN  /\ KeyCollision!Poison = poison
                /\ KeyCollision!Stray(collide.victim) = stray /\ KeyCollision!Confirm = stray
                /\ KeyCollisionSends(poison) /\ KeyCollisionSends(stray)
  OBVIOUS
<1>. DEFINE poison == [[Request EXCEPT !.to = collide.victim] EXCEPT !.way = <<Collisions[collide.form], collide.prefix>>]
            stray == [Request EXCEPT !.to = collide.victim]
<1>1. KeyCollision!Stray(collide.victim) = stray /\ KeyCollision!Confirm = stray
  BY KeyCollisionTarget DEF KeyCollision!Stray, KeyCollision!Confirm
<1>2. KeyCollision!Poison = poison
  BY <1>1 DEF KeyCollision!Poison
<1>3. collide.victim \in Nat \ {0} /\ <<Collisions[collide.form], collide.prefix>> \in Detours
  BY DetourIs DEF TypeOK, KeyCollisionTypeOK
<1>4. KeyCollisionSends(stray)
  BY <1>3, Variants DEF KeyCollisionSends, Bare
<1>5. KeyCollisionSends(poison)
  BY <1>3, BustedVariants DEF KeyCollisionSends, Bare
<1>. QED  BY <1>1, <1>2, <1>4, <1>5

\* The key collision check sends what it is said to send.
LEMMA KeyCollisionAsks ==
    TypeOK /\ KeyCollision!Next => Quiet \/ \E r : KeyCollisionSends(r) /\ Answered(r)
<1>. SUFFICES ASSUME TypeOK, KeyCollision!Next PROVE Quiet \/ \E r : KeyCollisionSends(r) /\ Answered(r)
  OBVIOUS
<1>1. CASE KeyCollision!TooFew \/ KeyCollision!Attempt
  BY <1>1, QuietIs DEF KeyCollision!TooFew, KeyCollision!Attempt, KeyCollision!environment, environment
<1>2. CASE KeyCollision!MissingRequest \/ KeyCollision!ConfirmRequest
  <2>1. Answered([Request EXCEPT !.to = collide.victim])
    BY <1>2, KeyCollisionRequests, KeyCollisionTarget, AskedIsAnswered
       DEF KeyCollision!MissingRequest, KeyCollision!ConfirmRequest
  <2>. QED  BY <2>1, KeyCollisionRequests
<1>3. CASE KeyCollision!PoisonRequest
  <2>. DEFINE poison == [[Request EXCEPT !.to = collide.victim] EXCEPT !.way = <<Collisions[collide.form], collide.prefix>>]
  <2>1. Answered(poison)
    BY <1>3, KeyCollisionRequests, KeyCollisionTarget, AskedIsAnswered DEF KeyCollision!PoisonRequest
  <2>. QED  BY <2>1, KeyCollisionRequests
<1>. QED  BY <1>1, <1>2, <1>3 DEF KeyCollision!Next

\* The key explosion check sends what it is said to send.
LEMMA KeyExplosionAsks ==
    TypeOK /\ KeyExplosion!Next => Quiet \/ \E r : KeyExplosionSends(r) /\ Answered(r)
<1>. SUFFICES ASSUME TypeOK, KeyExplosion!Next PROVE Quiet \/ \E r : KeyExplosionSends(r) /\ Answered(r)
  OBVIOUS
<1>0. explode.next \in 1 .. Probes /\ 1 \in 1 .. Probes
  BY Constants DEF TypeOK, KeyExplosionTypeOK
<1>1. CASE KeyExplosion!Unaffordable
  BY <1>1, QuietIs DEF KeyExplosion!Unaffordable, KeyExplosion!environment, environment
<1>2. CASE KeyExplosion!ValueRequest
  <2>1. Answered([Request EXCEPT !.value = explode.next])
    BY <1>2, KeyExplosionTarget, AskedIsAnswered DEF KeyExplosion!ValueRequest, KeyExplosion!Varied
  <2>. QED  BY <1>0, <2>1, Variants DEF KeyExplosionSends, Bare
<1>3. CASE KeyExplosion!RepeatRequest
  <2>1. Answered([Request EXCEPT !.value = 1])
    BY <1>3, KeyExplosionTarget, AskedIsAnswered
       DEF KeyExplosion!RepeatRequest, KeyExplosion!Varied, KeyExplosion!Repeated
  <2>. QED  BY <1>0, <2>1, Variants DEF KeyExplosionSends, Bare
<1>. QED  BY <1>1, <1>2, <1>3 DEF KeyExplosion!Next

\* The vary-key check sends what it is said to send.
LEMMA VaryKeyAsks ==
    TypeOK /\ VaryKey!Next => Quiet \/ \E r : VaryKeySends(r) /\ Answered(r)
<1>. SUFFICES ASSUME TypeOK, VaryKey!Next PROVE Quiet \/ \E r : VaryKeySends(r) /\ Answered(r)
  OBVIOUS
<1>. USE DEF VaryKeySends, UserSends, ToResource, Credentials
<1>1. CASE VaryKey!AllVaried \/ VaryKey!NoLeakTest
  BY <1>1, QuietIs DEF VaryKey!AllVaried, VaryKey!NoLeakTest, VaryKey!environment, environment
<1>2. CASE VaryKey!BaseRequest
  <2>1. Answered(Request)
    BY <1>2, VaryKeyTarget, AskedIsAnswered DEF VaryKey!BaseRequest
  <2>. QED  BY <2>1, RequestIs
<1>3. CASE VaryKey!VaryRequest
  <2>. DEFINE r == [Request EXCEPT !.extra = Dimensions[vary.next]]
  <2>1. Answered(r)
    BY <1>3, VaryKeyTarget, AskedIsAnswered DEF VaryKey!VaryRequest, VaryKey!Varied
  <2>2. Dimensions[vary.next] \in ElementsOf(Dimensions)
    BY <1>3, Lists DEF VaryKey!VaryRequest, TypeOK, VaryKeyTypeOK
  <2>3. vary.pc = "vary"
    BY <1>3 DEF VaryKey!VaryRequest, VaryKey!At
  <2>. QED  BY <2>1, <2>2, <2>3, Variants
<1>4. CASE VaryKey!CookieRequest
  <2>1. Answered([Request EXCEPT !.extra = "cookie"])
    BY <1>4, VaryKeyTarget, AskedIsAnswered DEF VaryKey!CookieRequest, VaryKey!Varied
  <2>3. vary.pc = "cookie"
    BY <1>4 DEF VaryKey!CookieRequest, VaryKey!At
  <2>. QED  BY <2>1, <2>3, Variants
<1>5. CASE VaryKey!AnonymousRequest
  <2>1. Answered([Request EXCEPT !.extra = "anonymous"])
    BY <1>5, VaryKeyTarget, AskedIsAnswered DEF VaryKey!AnonymousRequest, VaryKey!Anonymous
  <2>. QED  BY <2>1, Variants
<1>6. CASE VaryKey!IsolatedRequest
  <2>1. Answered([Busted("vary", 1) EXCEPT !.extra = "anonymous"])
    BY <1>6, VaryKeyTarget, AskedIsAnswered DEF VaryKey!IsolatedRequest, VaryKey!Isolated
  <2>2. LET r == [Busted("vary", 1) EXCEPT !.extra = "anonymous"]
        IN  r.to = 0 /\ r.value = 0 /\ r.way = Direct /\ r.token = <<"vary", 1>> /\ r.extra = "anonymous"
    BY BustedVariants
  <2>. QED  BY <2>1, <2>2
<1>. QED  BY <1>1, <1>2, <1>3, <1>4, <1>5, <1>6 DEF VaryKey!Next

\* A step is one check's, which asks the target at most one of its requests, or
\* one of the surroundings.
LEMMA Steps ==
    TypeOK /\ Budgeted /\ [Next]_vars =>
        \/ UNCHANGED vars
        \/ /\ Deception!Next /\ UNCHANGED <<entangle, normalize, collide, explode, vary>>
           /\ Quiet \/ \E r : DeceptionSends(r) /\ Answered(r)
        \/ /\ Entanglement!Next /\ UNCHANGED <<deception, normalize, collide, explode, vary>>
           /\ Quiet \/ \E r : EntanglementSends(r) /\ Answered(r)
        \/ /\ Normalization!Next /\ UNCHANGED <<deception, entangle, collide, explode, vary>>
           /\ Quiet \/ \E r : NormalizationSends(r) /\ Answered(r)
        \/ /\ KeyCollision!Next /\ UNCHANGED <<deception, entangle, normalize, explode, vary>>
           /\ Quiet \/ \E r : KeyCollisionSends(r) /\ Answered(r)
        \/ /\ KeyExplosion!Next /\ UNCHANGED <<deception, entangle, normalize, collide, vary>>
           /\ Quiet \/ \E r : KeyExplosionSends(r) /\ Answered(r)
        \/ /\ VaryKey!Next /\ UNCHANGED <<deception, entangle, normalize, collide, explode>>
           /\ Quiet \/ \E r : VaryKeySends(r) /\ Answered(r)
        \/ /\ UNCHANGED checks
           /\ (\E r : UserSends(r) /\ Answered(r)) \/ Expire \/ Publish
<1>1. ASSUME Visit PROVE \E r : UserSends(r) /\ Answered(r)
  <2>1. PICK extra \in {Plain, "anonymous"} : store' \in After([Request EXCEPT !.extra = extra])
    BY <1>1 DEF Visit
  <2>2. Answered([Request EXCEPT !.extra = extra])
    BY <1>1, <2>1 DEF Visit, Answered, SameOrFault
  <2>3. UserSends([Request EXCEPT !.extra = extra])
    BY <2>1, Variants DEF UserSends, ToResource, Credentials
  <2>. QED  BY <2>2, <2>3
<1>2. ASSUME TypeOK, Budgeted, Chain
      PROVE  /\ Deception!Next /\ UNCHANGED <<entangle, normalize, collide, explode, vary>>
             /\ Quiet \/ \E r : DeceptionSends(r) /\ Answered(r)
  BY <1>2, DeceptionAsks DEF Chain
<1>3. ASSUME Surroundings
      PROVE  /\ UNCHANGED checks
             /\ (\E r : UserSends(r) /\ Answered(r)) \/ Expire \/ Publish
  BY <1>1, <1>3 DEF Surroundings, Around
<1>4. TypeOK /\ Budgeted /\ AfterChain =>
        \/ /\ Entanglement!Next /\ UNCHANGED <<deception, normalize, collide, explode, vary>>
           /\ Quiet \/ \E r : EntanglementSends(r) /\ Answered(r)
        \/ /\ Normalization!Next /\ UNCHANGED <<deception, entangle, collide, explode, vary>>
           /\ Quiet \/ \E r : NormalizationSends(r) /\ Answered(r)
        \/ /\ KeyCollision!Next /\ UNCHANGED <<deception, entangle, normalize, explode, vary>>
           /\ Quiet \/ \E r : KeyCollisionSends(r) /\ Answered(r)
        \/ /\ KeyExplosion!Next /\ UNCHANGED <<deception, entangle, normalize, collide, vary>>
           /\ Quiet \/ \E r : KeyExplosionSends(r) /\ Answered(r)
        \/ /\ VaryKey!Next /\ UNCHANGED <<deception, entangle, normalize, collide, explode>>
           /\ Quiet \/ \E r : VaryKeySends(r) /\ Answered(r)
  BY EntanglementAsks, NormalizationAsks, KeyCollisionAsks, KeyExplosionAsks, VaryKeyAsks DEF AfterChain
<1>. QED  BY <1>2, <1>3, <1>4 DEF Next

-----------------------------------------------------------------------------
(* Types *)

\* What a site is.
LEMMA SiteIs ==
    TypeOK => /\ site.exists \in BOOLEAN /\ site.loose \in BOOLEAN /\ site.tells \in BOOLEAN
              /\ site.declares \in BOOLEAN
              /\ Direct \notin site.follows /\ Direct \notin site.assets /\ Direct \notin site.collapses
              /\ site.reads \subseteq Extras /\ Plain \notin site.reads
              /\ site.stores \subseteq Ways /\ site.room \in 1 .. MaxRequests
              /\ site.overflow \in {"bucket", "refuse", "evict"}
              /\ site.names \subseteq Nodes
BY Constants DEF TypeOK, EnvironmentTypeOK, Sites

\* What the page is.
LEMMA PageIs ==
    TypeOK => /\ Page \in Bodies /\ Asset \in Bodies /\ Missing \in Bodies
              /\ Page.what \in {"page", "missing"} /\ (Page.what = "page" <=> site.exists)
              /\ Page.shows = Plain /\ Page.version = content
              /\ Asset.what = "asset" /\ Asset.shows = Plain /\ Asset.version = 0
              /\ Missing.what = "missing" /\ Missing.shows = Plain /\ Missing.version = 0
              /\ Page # Asset
<1>1. TypeOK => site.exists \in BOOLEAN /\ content \in 0 .. MaxFaults /\ 0 \in 0 .. MaxFaults
  BY SiteIs, Constants DEF TypeOK, EnvironmentTypeOK
<1>. QED  BY <1>1 DEF Bodies, Page, Asset, Missing

\* What an answer is.
LEMMA BodiesAre ==
    \A body, other \in Bodies :
        /\ body = [what |-> body.what, shows |-> body.shows, version |-> body.version]
        /\ body.what = other.what /\ body.shows = other.shows /\ body.version = other.version => body = other
BY DEF Bodies

\* The origin's answer: the page, with the extra in it if it is read, or a file.
ServesPage(r) == site.loose \/ (r.to = 0 /\ r.way \in site.follows \cup {Direct})

\* What the origin answers to the resource's own path.
LEMMA PageProduced ==
    TypeOK => \A r : ServesPage(r) =>
        /\ Produced(r) \in Bodies
        /\ Produced(r).what = Page.what /\ Produced(r).version = content
        /\ Produced(r).shows = IF r.extra \in site.reads THEN r.extra ELSE Plain
<1>. SUFFICES ASSUME TypeOK, NEW r, ServesPage(r)
     PROVE /\ Produced(r) \in Bodies
           /\ Produced(r).what = Page.what /\ Produced(r).version = content
           /\ Produced(r).shows = IF r.extra \in site.reads THEN r.extra ELSE Plain
  OBVIOUS
<1>. DEFINE extra == IF r.extra \in site.reads THEN r.extra ELSE Plain
<1>1. Produced(r) = [Page EXCEPT !.shows = extra]
  BY DEF Produced, ServesPage
<1>2. extra \in Extras \cup {Plain}
  BY SiteIs
<1>. HIDE DEF extra
<1>3. [Page EXCEPT !.shows = extra] \in Bodies
  BY <1>2, PageIs DEF Bodies
<1>4. /\ [Page EXCEPT !.shows = extra].what = Page.what /\ [Page EXCEPT !.shows = extra].version = content
      /\ [Page EXCEPT !.shows = extra].shows = extra
  BY DEF Page
<1>. QED  BY <1>1, <1>3, <1>4 DEF extra

\* What it answers where it serves no page.
LEMMA OtherProduced ==
    TypeOK => \A r : ~ServesPage(r) =>
        /\ Produced(r) \in Bodies /\ Produced(r).shows = Plain /\ Produced(r).version = 0 /\ ~site.loose
        /\ Produced(r).what = IF r.way \in site.assets THEN "asset" ELSE "missing"
BY PageIs DEF Produced, ServesPage

\* What is read is an answer.
LEMMA BodyIs == TypeOK => \A r : Body(r) \in Bodies /\ Reply(r) \in Replies
                                 /\ Reply(r).body = Body(r) /\ Reply(r).state = State(r)
<1>1. TypeOK => \A r : Body(r) \in Bodies
  BY PageProduced, OtherProduced DEF Body, Hit, TypeOK, EnvironmentTypeOK
<1>2. \A r : State(r) \in {"HIT", "MISS", "unknown"}
  BY DEF State
<1>. QED  BY <1>1, <1>2 DEF Reply, Replies

\* The cache holds answers, and faults are counted.
LEMMA EnvironmentTyped ==
    TypeOK /\ Budgeted /\ [Next]_vars =>
        EnvironmentTypeOK' /\ site' = site /\ content' >= content /\ faults' >= faults /\ content' <= faults'
<1>. SUFFICES ASSUME TypeOK, Budgeted, [Next]_vars
     PROVE  EnvironmentTypeOK' /\ site' = site /\ content' >= content /\ faults' >= faults /\ content' <= faults'
  OBVIOUS
<1>0. content \in 0 .. MaxFaults /\ faults \in 0 .. MaxFaults /\ content <= faults /\ MaxFaults \in Nat
      /\ site \in Sites /\ \A key \in DOMAIN store : store[key] \in Bodies
  BY Constants DEF TypeOK, EnvironmentTypeOK, Budgeted
<1>1. CASE Quiet \/ UNCHANGED vars
  BY <1>0, <1>1 DEF Quiet, SameOrFault, EnvironmentTypeOK, Sites, Bodies, vars, environment
<1>2. ASSUME NEW r, Answered(r)
      PROVE  EnvironmentTypeOK' /\ site' = site /\ content' >= content /\ faults' >= faults /\ content' <= faults'
  <2>1. \A key \in DOMAIN store' : store'[key] \in Bodies
    BY <1>0, <1>2, AfterAdds, PageProduced, OtherProduced DEF Answered
  <2>. QED  BY <1>0, <1>2, <2>1 DEF Answered, SameOrFault, EnvironmentTypeOK, Sites, Bodies
<1>3. CASE Expire
  <2>1. \A key \in DOMAIN store' : store'[key] \in Bodies
    BY <1>0, <1>3 DEF Expire, Without
  <2>2. site' = site /\ content' = content /\ faults' = faults + 1 /\ faults < MaxFaults
    BY <1>3 DEF Expire, Fault
  <2>. QED  BY <1>0, <2>1, <2>2 DEF EnvironmentTypeOK, Sites, Bodies
<1>4. CASE Publish
  BY <1>0, <1>4 DEF Publish, Fault, EnvironmentTypeOK, Sites, Bodies
<1>5. (Quiet \/ UNCHANGED vars) \/ (\E r : Answered(r)) \/ Expire \/ Publish
  BY Steps
<1>. QED  BY <1>1, <1>2, <1>3, <1>4, <1>5

\* The deception check keeps its types.
LEMMA DeceptionTyped == TypeOK /\ Deception!Next => DeceptionTypeOK'
<1>. SUFFICES ASSUME TypeOK, Deception!Next PROVE DeceptionTypeOK'
  OBVIOUS
<1>. USE DEF DeceptionTypeOK, Deception!At
<1>0. deception \in [pc : {"off", "base", "suffix", "error", "split", "done"},
                     next : 1 .. Len(Suffixes) + 1, budget : 0 .. MaxRequests, base : Bodies,
                     suffixes : SUBSET (1 .. Len(Suffixes)), cachesErrors : BOOLEAN, splits : BOOLEAN]
  BY DEF TypeOK
<1>1. CASE Deception!BaseRequest
  <2>1. Deception!Body(Deception!Request) \in Bodies
    BY DeceptionTarget, BodyIs
  <2>. QED  BY <1>0, <1>1, <2>1 DEF Deception!BaseRequest
<1>2. CASE Deception!SuffixRequest
  <2>. DEFINE tried == [deception EXCEPT !.next = deception.next + 1, !.budget = @ - 1]
              n == deception.next
  <2>1. deception' \in {deception, tried, [tried EXCEPT !.suffixes = @ \cup {n}]}
    BY <1>2 DEF Deception!SuffixRequest
  <2>2. n \in 1 .. Len(Suffixes) /\ deception.budget \in 1 .. MaxRequests
    BY <1>0, <1>2, Lists, Constants DEF Deception!SuffixRequest
  <2>0. Len(Suffixes) \in Nat /\ MaxRequests \in Nat
    BY Lists, Constants
  <2>3. n + 1 \in 1 .. Len(Suffixes) + 1 /\ deception.budget - 1 \in 0 .. MaxRequests
    BY <2>0, <2>2
  <2>4. DeceptionTypeOK /\ deception' = tried => DeceptionTypeOK'
    BY <2>3, Zenon
  <2>. HIDE DEF tried
  <2>5. tried.suffixes \cup {n} \in SUBSET (1 .. Len(Suffixes))
    BY <1>0, <2>2 DEF tried
  <2>6. tried \in [pc : {"off", "base", "suffix", "error", "split", "done"},
                   next : 1 .. Len(Suffixes) + 1, budget : 0 .. MaxRequests, base : Bodies,
                   suffixes : SUBSET (1 .. Len(Suffixes)), cachesErrors : BOOLEAN, splits : BOOLEAN]
    BY <1>0, <2>3, Zenon DEF tried
  <2>7. deception' = [tried EXCEPT !.suffixes = @ \cup {n}] => DeceptionTypeOK'
    BY <2>5, <2>6, Zenon
  <2>. QED  BY <1>0, <2>1, <2>4, <2>7, Zenon
<1>3. CASE Deception!SuffixesTried
  BY <1>0, <1>3 DEF Deception!SuffixesTried
<1>4. CASE Deception!ErrorRequest
  <2>1. site.declares \in BOOLEAN
    BY SiteIs
  <2>2. (~Deception!Ok(Deception!Body(Deception!RangeProbe)) /\ site.declares) \in BOOLEAN
    OBVIOUS
  <2>3. PICK caches \in BOOLEAN : \/ deception' = [deception EXCEPT !.pc = "split", !.cachesErrors = caches]
                                  \/ deception' \in {deception, [deception EXCEPT !.pc = "split"]}
    BY <1>4, <2>2 DEF Deception!ErrorRequest
  <2>. QED  BY <1>0, <2>3
<1>5. CASE Deception!SplitRequest
  <2>3. PICK splits \in BOOLEAN : \/ deception' = [deception EXCEPT !.pc = "done", !.splits = splits]
                                  \/ deception' \in {deception, [deception EXCEPT !.pc = "done"]}
    BY <1>5 DEF Deception!SplitRequest
  <2>. QED  BY <1>0, <2>3
<1>. QED  BY <1>1, <1>2, <1>3, <1>4, <1>5 DEF Deception!Next

\* The entanglement check keeps its types and its budget.
LEMMA EntanglementTyped ==
    TypeOK /\ Budgeted /\ Entanglement!Next => EntanglementTypeOK' /\ EntanglementBudgeted'
<1>. SUFFICES ASSUME TypeOK, Budgeted, Entanglement!Next PROVE EntanglementTypeOK' /\ EntanglementBudgeted'
  OBVIOUS
<1>. USE DEF EntanglementTypeOK, EntanglementBudgeted, Entanglement!At
<1>0. /\ entangle \in [pc : {"off", "pick", "poison", "confirm", "done"}, technique : 1 .. 2,
                       next : 1 .. Len(FatBodies) + Len(Cloaked) + 1, budget : 0 .. MaxRequests,
                       token : 0 .. MaxRequests, findings : SUBSET Hidden]
      /\ entangle.token + entangle.budget <= MaxRequests + (IF entangle.pc = "poison" THEN 1 ELSE 0)
      /\ entangle.pc \in {"poison", "confirm"} => entangle.budget >= 1 /\ entangle.next <= Len(Entanglement!Listed)
      /\ MaxRequests \in Nat /\ Len(FatBodies) \in Nat /\ Len(Cloaked) \in Nat
      /\ Len(Entanglement!Techniques) = 2
      /\ Len(Entanglement!Listed) = (IF entangle.technique = 1 THEN Len(FatBodies) ELSE Len(Cloaked))
  BY Constants, Lists, ListedIs DEF TypeOK, Budgeted, Entanglement!Techniques
<1>. DEFINE States == [pc : {"off", "pick", "poison", "confirm", "done"}, technique : 1 .. 2,
                       next : 1 .. Len(FatBodies) + Len(Cloaked) + 1, budget : 0 .. MaxRequests,
                       token : 0 .. MaxRequests, findings : SUBSET Hidden]
            Length(s) == IF s.technique = 1 THEN Len(FatBodies) ELSE Len(Cloaked)
<1>11. /\ entangle.token \in Nat /\ entangle.budget \in Nat /\ MaxRequests \in Nat
       /\ entangle.token + entangle.budget <= MaxRequests + (IF entangle.pc = "poison" THEN 1 ELSE 0)
       /\ entangle.pc \in {"poison", "confirm"} => entangle.budget >= 1
  BY <1>0
<1>1. entangle'.technique = entangle.technique => Entanglement!Listed' = Entanglement!Listed
  BY DEF Entanglement!Listed, Entanglement!Techniques
<1>2. \A s \in States : s.next <= Length(s) =>
         LET new == Entanglement!NextAttempt(s)
         IN  new \in States /\ new.pc = "pick" /\ new.budget = s.budget /\ new.token = s.token
  <2>. SUFFICES ASSUME NEW s \in States, s.next <= Length(s)
       PROVE LET new == Entanglement!NextAttempt(s)
             IN  new \in States /\ new.pc = "pick" /\ new.budget = s.budget /\ new.token = s.token
    OBVIOUS
  <2>1. s.next + 1 \in 1 .. Len(FatBodies) + Len(Cloaked) + 1
    BY <1>0
  <2>2. Entanglement!NextAttempt(s) \in States
    BY <2>1, Zenon DEF Entanglement!NextAttempt
  <2>. QED  BY <2>2, Zenon DEF Entanglement!NextAttempt
<1>3. \A s \in States :
         LET new == Entanglement!NextTechnique(s)
         IN  new \in States /\ new.pc \in {"pick", "done"} /\ new.budget = s.budget /\ new.token = s.token
  <2>. SUFFICES ASSUME NEW s \in States
       PROVE LET new == Entanglement!NextTechnique(s)
             IN  new \in States /\ new.pc \in {"pick", "done"} /\ new.budget = s.budget /\ new.token = s.token
    OBVIOUS
  <2>1. CASE s.technique < Len(Entanglement!Techniques)
    <3>1. Entanglement!NextTechnique(s) = [s EXCEPT !.pc = "pick", !.technique = s.technique + 1, !.next = 1]
      BY <2>1 DEF Entanglement!NextTechnique
    <3>2. s.technique + 1 \in 1 .. 2 /\ 1 \in 1 .. Len(FatBodies) + Len(Cloaked) + 1
      BY <1>0, <2>1
    <3>3. Entanglement!NextTechnique(s) \in States
      BY <3>1, <3>2, Zenon
    <3>. QED  BY <3>1, <3>3, Zenon
  <2>2. CASE ~(s.technique < Len(Entanglement!Techniques))
    BY <2>2 DEF Entanglement!NextTechnique
  <2>. QED  BY <2>1, <2>2
<1>4. entangle.budget >= 1 =>
         /\ Entanglement!Paid \in States /\ Entanglement!Paid.budget = entangle.budget - 1
         /\ Entanglement!Paid.token = entangle.token /\ Entanglement!Paid.next = entangle.next
         /\ Entanglement!Paid.technique = entangle.technique
  <2>. SUFFICES ASSUME entangle.budget >= 1
       PROVE  /\ Entanglement!Paid \in States /\ Entanglement!Paid.budget = entangle.budget - 1
              /\ Entanglement!Paid.token = entangle.token /\ Entanglement!Paid.next = entangle.next
              /\ Entanglement!Paid.technique = entangle.technique
    OBVIOUS
  <2>1. entangle.budget - 1 \in 0 .. MaxRequests
    BY <1>0
  <2>. QED  BY <1>0, <2>1, Zenon DEF Entanglement!Paid
<1>5. CASE Entanglement!TechniqueOver
  BY <1>0, <1>3, <1>5 DEF Entanglement!TechniqueOver
<1>6. CASE Entanglement!Attempt
  <2>1. CASE entangle' = [entangle EXCEPT !.pc = "poison", !.token = @ + 1]
    <3>1. entangle.pc = "pick" /\ entangle.budget >= 1 /\ entangle.next <= Len(Entanglement!Listed)
      BY <1>6 DEF Entanglement!Attempt
    <3>2. entangle.token + 1 \in 0 .. MaxRequests
      BY <1>0, <3>1
    <3>3. entangle' \in States
      BY <1>0, <2>1, <3>2, Zenon
    <3>4. /\ entangle'.pc = "poison" /\ entangle'.budget = entangle.budget /\ entangle'.next = entangle.next
          /\ entangle'.technique = entangle.technique /\ entangle'.token = entangle.token + 1
      BY <1>0, <2>1, Zenon
    <3>. QED  BY <1>0, <1>1, <3>1, <3>3, <3>4
  <2>2. CASE entangle' = Entanglement!NextAttempt(entangle)
    BY <1>0, <1>2, <1>6, <2>2 DEF Entanglement!Attempt
  <2>. QED  BY <1>6, <2>1, <2>2 DEF Entanglement!Attempt
<1>7. CASE entangle.pc \in {"poison", "confirm"} /\ entangle' = Entanglement!NextAttempt(Entanglement!Paid)
  <2>1. Entanglement!Paid \in States /\ Entanglement!Paid.next <= Length(Entanglement!Paid)
    BY <1>0, <1>4, <1>7
  <2>2. entangle' \in States /\ entangle'.pc = "pick"
        /\ entangle'.budget = entangle.budget - 1 /\ entangle'.token = entangle.token
    BY <1>0, <1>2, <1>4, <1>7, <2>1
  <2>. QED  BY <1>0, <1>7, <2>2
<1>8. CASE Entanglement!PoisonRequest
  <2>1. CASE entangle' = Entanglement!NextTechnique(Entanglement!Paid)
    <3>1. entangle.pc = "poison"
      BY <1>8 DEF Entanglement!PoisonRequest
    <3>2. entangle.budget >= 1 /\ Entanglement!Paid \in States
      BY <1>0, <1>4, <3>1
    <3>3. /\ entangle' \in States /\ entangle'.pc \in {"pick", "done"}
          /\ entangle'.budget = entangle.budget - 1 /\ entangle'.token = entangle.token
      BY <1>3, <1>4, <2>1, <3>2
    <3>4. entangle'.token + entangle'.budget <= MaxRequests
      BY <1>11, <3>1, <3>3
    <3>5. entangle'.pc \notin {"poison", "confirm"}
      BY <3>3
    <3>. QED  BY <1>0, <3>3, <3>4, <3>5, SMTT(30)
  <2>2. CASE entangle' = [Entanglement!Paid EXCEPT !.pc = "confirm"] /\ ~(Entanglement!Paid.budget < 1)
    <3>1. entangle.pc = "poison"
      BY <1>8 DEF Entanglement!PoisonRequest
    <3>2. entangle' \in States /\ entangle'.pc = "confirm" /\ entangle'.next = entangle.next
          /\ entangle'.technique = entangle.technique
          /\ entangle'.budget = entangle.budget - 1 /\ entangle'.token = entangle.token
      BY <1>0, <1>4, <2>2, <3>1
    <3>3. Entanglement!Listed' = Entanglement!Listed
      BY <1>1, <3>2
    <3>4. Entanglement!Paid.budget = entangle.budget - 1
      BY <1>4, <1>11, <3>1
    <3>5. entangle'.budget >= 1 /\ entangle'.token + entangle'.budget <= MaxRequests
      BY <1>11, <2>2, <3>1, <3>2, <3>4
    <3>6. entangle'.next <= Len(Entanglement!Listed')
      BY <1>0, <3>1, <3>2, <3>3
    <3>. QED  BY <1>0, <3>2, <3>5, <3>6, SMTT(30)
  <2>3. CASE entangle' = entangle
    BY <1>0, <1>1, <2>3
  <2>. QED  BY <1>7, <1>8, <2>1, <2>2, <2>3 DEF Entanglement!PoisonRequest
<1>9. CASE Entanglement!ConfirmRequest
  <2>1. Entanglement!Current \in Hidden
    BY <1>9, <1>0, CurrentIsHidden DEF Entanglement!ConfirmRequest
  <2>. DEFINE more == [Entanglement!Paid EXCEPT !.findings = @ \cup {Entanglement!Current}]
  <2>2. CASE entangle' = Entanglement!NextTechnique(more)
    <3>1. more \in States /\ more.budget = entangle.budget - 1 /\ more.token = entangle.token
      BY <1>0, <1>4, <1>9, <2>1 DEF Entanglement!ConfirmRequest
    <3>. HIDE DEF more
    <3>2. /\ entangle' \in States /\ entangle'.pc \in {"pick", "done"}
          /\ entangle'.budget = entangle.budget - 1 /\ entangle'.token = entangle.token
      BY <1>3, <2>2, <3>1
    <3>3. entangle.pc = "confirm"
      BY <1>9 DEF Entanglement!ConfirmRequest
    <3>4. entangle'.token + entangle'.budget <= MaxRequests
      BY <1>11, <3>2, <3>3
    <3>5. entangle'.pc \notin {"poison", "confirm"}
      BY <3>2
    <3>. QED  BY <1>0, <3>2, <3>4, <3>5, SMTT(30)
  <2>3. CASE entangle' = entangle
    BY <1>0, <1>1, <2>3
  <2>. QED  BY <1>7, <1>9, <2>2, <2>3 DEF Entanglement!ConfirmRequest
<1>. QED  BY <1>5, <1>6, <1>8, <1>9 DEF Entanglement!Next

\* The normalization check keeps its types and its budget.
LEMMA NormalizationTyped ==
    TypeOK /\ Budgeted /\ Normalization!Next => NormalizationTypeOK' /\ NormalizationBudgeted'
<1>. SUFFICES ASSUME TypeOK, Budgeted, Normalization!Next
     PROVE NormalizationTypeOK' /\ NormalizationBudgeted'
  OBVIOUS
<1>. DEFINE States == [pc : {"off", "base", "control", "sweep", "repeat", "done"},
                       prefix : 1 .. Prefixes, form : 1 .. Len(Forms), budget : 0 .. MaxRequests,
                       base : Bodies, found : SUBSET ElementsOf(Forms), high : SUBSET ElementsOf(Forms)]
<1>0. /\ normalize \in States /\ MaxRequests \in Nat /\ Prefixes \in Nat \ {0} /\ Len(Forms) \in Nat \ {0}
      /\ normalize.pc = "control" => normalize.budget >= 2
      /\ normalize.pc = "repeat" => normalize.budget >= 1
      /\ Normalization!Form \in ElementsOf(Forms)
  BY Constants, Lists DEF TypeOK, NormalizationTypeOK, Budgeted, NormalizationBudgeted, Normalization!Form
<1>1. SUFFICES /\ normalize' \in States
               /\ normalize'.pc = "control" => normalize'.budget >= 2
               /\ normalize'.pc = "repeat" => normalize'.budget >= 1
  BY DEF NormalizationTypeOK, NormalizationBudgeted
<1>2. \A s \in States : LET new == Normalization!NextDetour(s)
                        IN  new \in States /\ new.pc \in {"sweep", "done"}
  <2>. SUFFICES ASSUME NEW s \in States
       PROVE  LET new == Normalization!NextDetour(s) IN new \in States /\ new.pc \in {"sweep", "done"}
    OBVIOUS
  <2>1. CASE s.form < Len(Forms)
    <3>1. s.form + 1 \in 1 .. Len(Forms)
      BY <1>0, <2>1
    <3>. QED  BY <2>1, <3>1, Zenon DEF Normalization!NextDetour
  <2>2. CASE ~(s.form < Len(Forms)) /\ s.prefix < Prefixes
    <3>1. s.prefix + 1 \in 1 .. Prefixes /\ 1 \in 1 .. Len(Forms)
      BY <1>0, <2>2
    <3>. QED  BY <2>2, <3>1, Zenon DEF Normalization!NextDetour
  <2>3. CASE ~(s.form < Len(Forms)) /\ ~(s.prefix < Prefixes)
    BY <2>3, Zenon DEF Normalization!NextDetour
  <2>. QED  BY <2>1, <2>2, <2>3
<1>3. normalize.budget >= 1 => Normalization!Paid \in States /\ Normalization!Paid.budget = normalize.budget - 1
  BY <1>0 DEF Normalization!Paid
<1>4. Normalization!Ended \in States /\ Normalization!Ended.pc = "done"
  BY <1>0 DEF Normalization!Ended
<1>. HIDE DEF States
<1>5. CASE normalize' = Normalization!Ended
  BY <1>4, <1>5
<1>6. CASE normalize' = normalize
  BY <1>0, <1>6
<1>7. CASE normalize' = Normalization!NextDetour(normalize)
  BY <1>0, <1>2, <1>7
<1>8. CASE normalize.budget >= 1 /\ normalize' = Normalization!NextDetour(Normalization!Paid)
  BY <1>2, <1>3, <1>8
<1>9. CASE Normalization!TooFew \/ Normalization!OutOfBudget \/ Normalization!SkipFound
  BY <1>5, <1>7, <1>9 DEF Normalization!TooFew, Normalization!OutOfBudget, Normalization!SkipFound
<1>10. CASE Normalization!BaseRequest
  <2>. DEFINE body == Normalization!Body(Normalization!Request)
              new == [Normalization!Paid EXCEPT !.pc = "control", !.base = body]
  <2>1. normalize.budget >= 3 /\ body \in Bodies
    BY <1>10, NormalizationTarget, BodyIs DEF Normalization!BaseRequest
  <2>. HIDE DEF body
  <2>2. new \in States /\ new.pc = "control" /\ new.budget = Normalization!Paid.budget
    <3>. USE DEF States
    <3>1. Normalization!Paid \in States
      BY <1>0, <1>3, <2>1
    <3>2. new \in States
      BY <2>1, <3>1, Zenon
    <3>. QED  BY <3>1, <3>2, Zenon
  <2>3. new.budget >= 2
    BY <1>0, <1>3, <2>1, <2>2 DEF States
  <2>4. CASE normalize' = new
    <3>. HIDE DEF new
    <3>. QED  BY <2>2, <2>3, <2>4
  <2>. QED  BY <1>5, <1>6, <1>10, <2>4 DEF Normalization!BaseRequest, body
<1>11. CASE Normalization!ControlRequest
  <2>1. normalize.budget >= 2
    BY <1>0, <1>11 DEF Normalization!ControlRequest, Normalization!At
  <2>2. Normalization!Paid \in States
    BY <1>0, <1>3, <2>1 DEF States
  <2>. DEFINE new == [Normalization!Paid EXCEPT !.pc = "sweep"]
  <2>3. new \in States /\ new.pc = "sweep"
    BY <2>2 DEF States
  <2>4. CASE normalize' = new
    <3>. HIDE DEF new
    <3>. QED  BY <2>3, <2>4
  <2>. QED  BY <1>5, <1>6, <1>11, <2>4 DEF Normalization!ControlRequest
<1>12. CASE Normalization!DetourRequest
  <2>. DEFINE found == [Normalization!Paid EXCEPT !.found = @ \cup {Normalization!Form}]
              new == [found EXCEPT !.pc = "repeat"]
  <2>1. normalize.budget >= 1
    BY <1>0, <1>12 DEF Normalization!DetourRequest, States
  <2>2. Normalization!Paid \in States
    BY <1>3, <2>1
  <2>3. found \in States
    BY <1>0, <2>2 DEF States
  <2>. HIDE DEF found
  <2>4. new \in States /\ new.pc = "repeat" /\ new.budget = found.budget
    BY <2>3 DEF States
  <2>5. found.budget > 0 => new.budget >= 1
    BY <2>3, <2>4 DEF States
  <2>6. CASE found.budget > 0 /\ normalize' = new
    <3>. HIDE DEF new
    <3>. QED  BY <2>4, <2>5, <2>6
  <2>7. CASE normalize' = Normalization!NextDetour(found)
    BY <1>2, <2>3, <2>7
  <2>. QED  BY <1>6, <1>8, <1>12, <2>1, <2>6, <2>7 DEF Normalization!DetourRequest, found
<1>13. CASE Normalization!RepeatRequest
  <2>. DEFINE high == IF Normalization!State(Normalization!Detour) = "HIT"
                      THEN normalize.high \cup {Normalization!Form} ELSE normalize.high
              new == [Normalization!Paid EXCEPT !.high = high]
  <2>1. normalize.budget >= 1
    BY <1>0, <1>13 DEF Normalization!RepeatRequest, Normalization!At
  <2>2. Normalization!Paid \in States /\ Normalization!Paid.high = normalize.high
    BY <1>0, <1>3, <2>1 DEF States, Normalization!Paid
  <2>3. high \in SUBSET ElementsOf(Forms)
    BY <1>0 DEF States
  <2>. HIDE DEF high
  <2>4. new \in States
    BY <2>2, <2>3 DEF States
  <2>5. CASE normalize' = Normalization!NextDetour(new)
    <3>. HIDE DEF new
    <3>. QED  BY <1>2, <2>4, <2>5
  <2>6. normalize' \in {Normalization!NextDetour(new), normalize, Normalization!NextDetour(Normalization!Paid)}
    BY <1>13, <2>2 DEF Normalization!RepeatRequest, high
  <2>. QED  BY <1>6, <1>8, <2>1, <2>5, <2>6
<1>. QED  BY <1>9, <1>10, <1>11, <1>12, <1>13 DEF Normalization!Next

\* The key collision check keeps its types and its budget.
LEMMA KeyCollisionTyped ==
    TypeOK /\ Budgeted /\ KeyCollision!Next => KeyCollisionTypeOK' /\ KeyCollisionBudgeted'
<1>. SUFFICES ASSUME TypeOK, Budgeted, KeyCollision!Next
     PROVE KeyCollisionTypeOK' /\ KeyCollisionBudgeted'
  OBVIOUS
<1>. DEFINE States == [pc : {"off", "missing", "pick", "poison", "confirm", "done"},
                       prefix : 1 .. Prefixes, form : 1 .. Len(Collisions), budget : 0 .. MaxRequests,
                       victim : 1 .. MaxRequests + 1, missing : Bodies, poisoned : Bodies, found : BOOLEAN]
            Within(s) == s.victim + s.budget <= MaxRequests + 1
<1>0. /\ collide \in States /\ MaxRequests \in Nat /\ Prefixes \in Nat \ {0} /\ Len(Collisions) \in Nat \ {0}
      /\ Within(collide)
  BY Constants, Lists DEF TypeOK, KeyCollisionTypeOK, Budgeted, KeyCollisionBudgeted
<1>1. SUFFICES collide' \in States /\ Within(collide')
  BY DEF KeyCollisionTypeOK, KeyCollisionBudgeted
<1>2. KeyCollision!NextVariant(collide) \in States /\ Within(KeyCollision!NextVariant(collide))
  <2>1. CASE collide.form < Len(Collisions)
    <3>1. collide.form + 1 \in 1 .. Len(Collisions)
      BY <1>0, <2>1
    <3>2. KeyCollision!NextVariant(collide) = [collide EXCEPT !.pc = "pick", !.form = @ + 1]
      BY <2>1 DEF KeyCollision!NextVariant
    <3>. QED  BY <1>0, <3>1, <3>2, Zenon
  <2>2. CASE ~(collide.form < Len(Collisions)) /\ collide.prefix < Prefixes
    <3>1. collide.prefix + 1 \in 1 .. Prefixes /\ 1 \in 1 .. Len(Collisions)
      BY <1>0, <2>2
    <3>2. KeyCollision!NextVariant(collide) = [collide EXCEPT !.pc = "pick", !.prefix = @ + 1, !.form = 1]
      BY <2>2 DEF KeyCollision!NextVariant
    <3>. QED  BY <1>0, <3>1, <3>2, Zenon
  <2>3. CASE ~(collide.form < Len(Collisions)) /\ ~(collide.prefix < Prefixes)
    <3>2. KeyCollision!NextVariant(collide) = [collide EXCEPT !.pc = "done"]
      BY <2>3 DEF KeyCollision!NextVariant
    <3>. QED  BY <1>0, <3>2, Zenon
  <2>. QED  BY <2>1, <2>2, <2>3
<1>3. KeyCollision!Ended \in States /\ Within(KeyCollision!Ended)
  BY <1>0, Zenon DEF KeyCollision!Ended
<1>4. CASE KeyCollision!TooFew
  BY <1>3, <1>4 DEF KeyCollision!TooFew
<1>5. CASE KeyCollision!MissingRequest
  <2>. DEFINE body == KeyCollision!Body(KeyCollision!Stray(collide.victim))
              new == [collide EXCEPT !.pc = "pick", !.missing = body, !.budget = collide.budget - 1]
  <2>1. body \in Bodies /\ collide.budget >= 3
    BY <1>5, KeyCollisionTarget, BodyIs DEF KeyCollision!MissingRequest
  <2>. HIDE DEF body
  <2>2. collide.budget - 1 \in 0 .. MaxRequests /\ collide.victim + (collide.budget - 1) <= MaxRequests + 1
    BY <1>0, <2>1
  <2>3. new \in States /\ Within(new)
    BY <1>0, <2>1, <2>2, Zenon
  <2>4. collide' \in {new, collide, KeyCollision!Ended}
    BY <1>5 DEF KeyCollision!MissingRequest, body
  <2>. HIDE DEF new
  <2>. QED  BY <1>0, <1>3, <2>3, <2>4
<1>6. CASE KeyCollision!Attempt
  <2>. DEFINE new == [collide EXCEPT !.pc = "poison", !.budget = collide.budget - 2, !.victim = collide.victim + 1]
  <2>1. CASE KeyCollision!Affords
    <3>1. collide.budget - 2 \in 0 .. MaxRequests /\ collide.victim + 1 \in 1 .. MaxRequests + 1
          /\ (collide.victim + 1) + (collide.budget - 2) <= MaxRequests + 1
      BY <1>0, <2>1 DEF KeyCollision!Affords
    <3>2. new \in States /\ Within(new)
      BY <1>0, <3>1, Zenon
    <3>3. collide' = new
      BY <1>6, <2>1 DEF KeyCollision!Attempt
    <3>. QED  BY <3>2, <3>3
  <2>2. CASE ~KeyCollision!Affords
    BY <1>3, <1>6, <2>2 DEF KeyCollision!Attempt
  <2>. QED  BY <2>1, <2>2
<1>7. CASE KeyCollision!PoisonRequest
  <2>. DEFINE body == KeyCollision!Body(KeyCollision!Poison)
              new == [collide EXCEPT !.pc = "confirm", !.poisoned = body]
  <2>1. body \in Bodies
    BY KeyCollisionTarget, BodyIs
  <2>. HIDE DEF body
  <2>2. new \in States /\ Within(new)
    BY <1>0, <2>1, Zenon
  <2>3. collide' \in {new, collide, KeyCollision!NextVariant(collide)}
    BY <1>7 DEF KeyCollision!PoisonRequest, body
  <2>. HIDE DEF new
  <2>. QED  BY <1>0, <1>2, <2>2, <2>3
<1>8. CASE KeyCollision!ConfirmRequest
  <2>. DEFINE new == [KeyCollision!Ended EXCEPT !.found = TRUE]
  <2>1. new \in States /\ Within(new)
    BY <1>3, Zenon
  <2>2. collide' \in {new, collide, KeyCollision!NextVariant(collide)}
    BY <1>8 DEF KeyCollision!ConfirmRequest
  <2>. HIDE DEF new
  <2>. QED  BY <1>0, <1>2, <2>1, <2>2
<1>. QED  BY <1>4, <1>5, <1>6, <1>7, <1>8 DEF KeyCollision!Next

\* The key explosion check keeps its types.
LEMMA KeyExplosionTyped == TypeOK /\ KeyExplosion!Next => KeyExplosionTypeOK'
<1>. SUFFICES ASSUME TypeOK, KeyExplosion!Next PROVE KeyExplosionTypeOK'
  OBVIOUS
<1>. DEFINE States == [pc : {"off", "value", "repeat", "done"}, next : 1 .. Probes,
                       budget : 0 .. MaxRequests, found : BOOLEAN]
<1>0. explode \in States /\ Probes \in Nat
  BY Constants DEF TypeOK, KeyExplosionTypeOK
<1>1. SUFFICES explode' \in States
  BY DEF KeyExplosionTypeOK
<1>2. KeyExplosion!Ended \in States
  BY <1>0 DEF KeyExplosion!Ended
<1>3. CASE KeyExplosion!Unaffordable
  BY <1>2, <1>3 DEF KeyExplosion!Unaffordable
<1>4. CASE KeyExplosion!ValueRequest
  <2>1. explode.next < Probes => [explode EXCEPT !.next = @ + 1] \in States
    BY <1>0
  <2>2. [explode EXCEPT !.pc = "repeat"] \in States
    BY <1>0
  <2>. HIDE DEF States
  <2>. QED  BY <1>0, <1>2, <1>4, <2>1, <2>2 DEF KeyExplosion!ValueRequest
<1>5. CASE KeyExplosion!RepeatRequest
  <2>. DEFINE hit == KeyExplosion!State(KeyExplosion!Repeated) = "HIT"
  <2>1. [KeyExplosion!Ended EXCEPT !.found = hit] \in States
    BY <1>2
  <2>2. explode' \in {[KeyExplosion!Ended EXCEPT !.found = hit], explode, KeyExplosion!Ended}
    BY <1>5 DEF KeyExplosion!RepeatRequest
  <2>. HIDE DEF States, hit
  <2>. QED  BY <1>0, <1>2, <2>1, <2>2
<1>. QED  BY <1>3, <1>4, <1>5 DEF KeyExplosion!Next

\* What a status header can say.
LEMMA RawIs == TypeOK => \A r : RawValues(r) \subseteq RawStatus
<1>. SUFFICES ASSUME TypeOK, NEW r PROVE RawValues(r) \subseteq RawStatus
  OBVIOUS
<1>1. State(r) \in {"HIT", "MISS", "unknown"}
  BY DEF State
<1>2. Labels \subseteq Nodes \cup {"none"}
  BY SiteIs DEF Labels
<1>. QED  BY <1>1, <1>2 DEF RawValues, RawStatus

\* The vary-key check keeps its types and its budget.
LEMMA VaryKeyTyped == TypeOK /\ Budgeted /\ VaryKey!Next => VaryKeyTypeOK' /\ VaryKeyBudgeted'
<1>. SUFFICES ASSUME TypeOK, Budgeted, VaryKey!Next PROVE VaryKeyTypeOK' /\ VaryKeyBudgeted'
  OBVIOUS
<1>. DEFINE States == [pc : {"off", "base", "vary", "cookie", "credentials", "isolated", "done"},
                       next : 1 .. Len(Dimensions) + 1, budget : 0 .. MaxRequests,
                       caller : VaryKey!Callers, base : Replies, anonymous : Replies, raw : RawStatus,
                       keyed : SUBSET Extras, inert : SUBSET Extras, leak : {"none", "high", "critical"}]
<1>0. /\ vary \in States /\ MaxRequests \in Nat /\ Len(Dimensions) \in Nat
      /\ vary.pc = "isolated" => vary.budget >= 1
  BY Constants, Lists DEF TypeOK, VaryKeyTypeOK, Budgeted, VaryKeyBudgeted
<1>1. SUFFICES vary' \in States /\ (vary'.pc = "isolated" => vary'.budget >= 1)
  BY DEF VaryKeyTypeOK, VaryKeyBudgeted
<1>2. VaryKey!Ended \in States /\ VaryKey!Ended.pc = "done"
  BY <1>0, Zenon DEF VaryKey!Ended
<1>3. \A s \in States, d \in Extras : \A raw :
         VaryKey!Judged(s, d, raw) \in States /\ VaryKey!Judged(s, d, raw).pc = s.pc
  <2>. SUFFICES ASSUME NEW s \in States, NEW d \in Extras, NEW raw
       PROVE  VaryKey!Judged(s, d, raw) \in States /\ VaryKey!Judged(s, d, raw).pc = s.pc
    OBVIOUS
  <2>1. s.keyed \cup {d} \in SUBSET Extras /\ s.inert \cup {d} \in SUBSET Extras
    OBVIOUS
  <2>2. /\ [s EXCEPT !.keyed = @ \cup {d}] \in States /\ [s EXCEPT !.keyed = @ \cup {d}].pc = s.pc
        /\ [s EXCEPT !.inert = @ \cup {d}] \in States /\ [s EXCEPT !.inert = @ \cup {d}].pc = s.pc
    BY <2>1, Zenon
  <2>. HIDE DEF States
  <2>. QED  BY <2>2 DEF VaryKey!Judged
<1>4. CASE VaryKey!BaseRequest
  <2>. DEFINE reply == VaryKey!Reply(VaryKey!Request)
              new(raw) == [vary EXCEPT !.pc = "vary", !.base = reply, !.raw = raw]
              ended == [vary EXCEPT !.pc = "done"]
  <2>1. reply \in Replies
    BY VaryKeyTarget, BodyIs
  <2>3. vary' \in {vary, ended} \/ \E raw \in RawValues(Request) : vary' = new(raw)
    BY <1>4, VaryKeyTarget DEF VaryKey!BaseRequest
  <2>. HIDE DEF reply
  <2>2. ended \in States /\ ended.pc = "done"
    BY <1>0, Zenon
  <2>4. \A raw \in RawValues(Request) : new(raw) \in States /\ new(raw).pc = "vary"
    BY <1>0, <2>1, RawIs, Zenon
  <2>. HIDE DEF new, ended, States
  <2>. QED  BY <1>0, <2>2, <2>3, <2>4
<1>5. CASE VaryKey!VaryRequest
  <2>. DEFINE tried == [vary EXCEPT !.next = vary.next + 1, !.budget = vary.budget - 1]
              d == Dimensions[vary.next]
  <2>1. vary.next \in 1 .. Len(Dimensions) /\ vary.budget >= 1 /\ vary.pc = "vary"
    BY <1>0, <1>5 DEF VaryKey!VaryRequest, VaryKey!At
  <2>2. vary.next + 1 \in 1 .. Len(Dimensions) + 1 /\ vary.budget - 1 \in 0 .. MaxRequests
    BY <1>0, <2>1
  <2>3. tried \in States /\ tried.pc = "vary"
    BY <1>0, <2>1, <2>2, Zenon
  <2>4. d \in Extras
    BY <2>1, Lists, Constants
  <2>5. vary' \in {vary, tried} \/ \E raw : vary' = VaryKey!Judged(tried, d, raw)
    BY <1>5 DEF VaryKey!VaryRequest
  <2>. HIDE DEF tried, States, d
  <2>. QED  BY <1>0, <1>3, <2>1, <2>3, <2>4, <2>5
<1>6. CASE VaryKey!AllVaried
  <2>. DEFINE pc == IF VaryKey!CookieDue THEN "cookie" ELSE "credentials"
              new == [vary EXCEPT !.pc = pc]
  <2>1. pc \in {"cookie", "credentials"}
    OBVIOUS
  <2>2. vary' = new
    BY <1>6 DEF VaryKey!AllVaried
  <2>. HIDE DEF pc
  <2>3. new \in States /\ new.pc = pc
    BY <1>0, <2>1
  <2>. QED  BY <2>1, <2>2, <2>3
<1>7. CASE VaryKey!CookieRequest
  <2>. DEFINE new == [vary EXCEPT !.pc = "credentials"]
  <2>1. new \in States /\ new.pc = "credentials"
    BY <1>0
  <2>2. vary' \in {vary, new} \/ \E raw : vary' = VaryKey!Judged(new, "cookie", raw)
    BY <1>7 DEF VaryKey!CookieRequest
  <2>. HIDE DEF new, States
  <2>. QED  BY <1>0, <1>3, <2>1, <2>2, Constants
<1>8. CASE VaryKey!NoLeakTest
  BY <1>2, <1>8 DEF VaryKey!NoLeakTest
<1>9. CASE VaryKey!AnonymousRequest
  <2>. DEFINE reply == VaryKey!Reply(VaryKey!Anonymous)
              new == [vary EXCEPT !.pc = "isolated", !.budget = vary.budget - 1, !.anonymous = reply]
  <2>1. reply \in Replies
    BY VaryKeyTarget, BodyIs
  <2>2. vary.budget >= 2
    BY <1>9 DEF VaryKey!AnonymousRequest, VaryKey!LeakTested
  <2>3. vary.budget - 1 \in 0 .. MaxRequests /\ vary.budget - 1 >= 1
    BY <1>0, <2>2
  <2>4. vary' \in {new, vary, VaryKey!Ended}
    BY <1>9 DEF VaryKey!AnonymousRequest
  <2>. HIDE DEF reply
  <2>5. new \in States /\ new.pc = "isolated" /\ new.budget = vary.budget - 1
    BY <1>0, <2>1, <2>3, Zenon
  <2>. HIDE DEF new, States
  <2>. QED  BY <1>0, <1>2, <2>3, <2>4, <2>5
<1>10. CASE VaryKey!IsolatedRequest
  <2>. DEFINE leak == VaryKey!Leak(VaryKey!Reply(VaryKey!Isolated))
              new == [VaryKey!Ended EXCEPT !.leak = leak]
  <2>1. leak \in {"none", "high", "critical"}
    BY DEF VaryKey!Leak
  <2>2. vary' \in {new, vary, VaryKey!Ended}
    BY <1>10 DEF VaryKey!IsolatedRequest
  <2>. HIDE DEF leak
  <2>3. new \in States /\ new.pc = "done"
    BY <1>2, <2>1, Zenon
  <2>. HIDE DEF new, States
  <2>. QED  BY <1>0, <1>2, <2>2, <2>3
<1>. QED  BY <1>4, <1>5, <1>6, <1>7, <1>8, <1>9, <1>10 DEF VaryKey!Next

\* A check that does not move keeps what it had.
LEMMA StillTyped ==
    /\ DeceptionTypeOK /\ UNCHANGED deception => DeceptionTypeOK'
    /\ EntanglementTypeOK /\ EntanglementBudgeted /\ UNCHANGED entangle => EntanglementTypeOK' /\ EntanglementBudgeted'
    /\ NormalizationTypeOK /\ NormalizationBudgeted /\ UNCHANGED normalize => NormalizationTypeOK' /\ NormalizationBudgeted'
    /\ KeyCollisionTypeOK /\ KeyCollisionBudgeted /\ UNCHANGED collide => KeyCollisionTypeOK' /\ KeyCollisionBudgeted'
    /\ KeyExplosionTypeOK /\ UNCHANGED explode => KeyExplosionTypeOK'
    /\ VaryKeyTypeOK /\ VaryKeyBudgeted /\ UNCHANGED vary => VaryKeyTypeOK' /\ VaryKeyBudgeted'
<1>1. DeceptionTypeOK /\ UNCHANGED deception => DeceptionTypeOK'
  BY Zenon DEF DeceptionTypeOK
<1>2. EntanglementTypeOK /\ EntanglementBudgeted /\ UNCHANGED entangle => EntanglementTypeOK' /\ EntanglementBudgeted'
  BY Zenon DEF EntanglementTypeOK, EntanglementBudgeted, Entanglement!Listed, Entanglement!Techniques
<1>3. NormalizationTypeOK /\ NormalizationBudgeted /\ UNCHANGED normalize => NormalizationTypeOK' /\ NormalizationBudgeted'
  BY Zenon DEF NormalizationTypeOK, NormalizationBudgeted
<1>4. KeyCollisionTypeOK /\ KeyCollisionBudgeted /\ UNCHANGED collide => KeyCollisionTypeOK' /\ KeyCollisionBudgeted'
  BY Zenon DEF KeyCollisionTypeOK, KeyCollisionBudgeted
<1>5. KeyExplosionTypeOK /\ UNCHANGED explode => KeyExplosionTypeOK'
  BY Zenon DEF KeyExplosionTypeOK
<1>6. VaryKeyTypeOK /\ VaryKeyBudgeted /\ UNCHANGED vary => VaryKeyTypeOK' /\ VaryKeyBudgeted'
  BY Zenon DEF VaryKeyTypeOK, VaryKeyBudgeted
<1>. QED  BY <1>1, <1>2, <1>3, <1>4, <1>5, <1>6

\* Who moves, without what it asks.
LEMMA Movers ==
    TypeOK /\ Budgeted /\ [Next]_vars =>
        \/ UNCHANGED checks
        \/ Deception!Next /\ UNCHANGED <<entangle, normalize, collide, explode, vary>>
        \/ Entanglement!Next /\ UNCHANGED <<deception, normalize, collide, explode, vary>>
        \/ Normalization!Next /\ UNCHANGED <<deception, entangle, collide, explode, vary>>
        \/ KeyCollision!Next /\ UNCHANGED <<deception, entangle, normalize, explode, vary>>
        \/ KeyExplosion!Next /\ UNCHANGED <<deception, entangle, normalize, collide, vary>>
        \/ VaryKey!Next /\ UNCHANGED <<deception, entangle, normalize, collide, explode>>
BY Steps DEF vars

\* Every step keeps the types and the budgets.
LEMMA Typed == TypeOK /\ Budgeted /\ [Next]_vars => TypeOK' /\ Budgeted'
<1>. SUFFICES ASSUME TypeOK, Budgeted, [Next]_vars PROVE TypeOK' /\ Budgeted'
  OBVIOUS
<1>1. EnvironmentTypeOK' /\ (content <= faults)'
  BY EnvironmentTyped
<1>2. /\ DeceptionTypeOK /\ EntanglementTypeOK /\ EntanglementBudgeted
      /\ NormalizationTypeOK /\ NormalizationBudgeted /\ KeyCollisionTypeOK /\ KeyCollisionBudgeted
      /\ KeyExplosionTypeOK /\ VaryKeyTypeOK /\ VaryKeyBudgeted
  BY DEF TypeOK, Budgeted
<1>3. /\ DeceptionTypeOK' /\ EntanglementTypeOK' /\ EntanglementBudgeted'
      /\ NormalizationTypeOK' /\ NormalizationBudgeted' /\ KeyCollisionTypeOK' /\ KeyCollisionBudgeted'
      /\ KeyExplosionTypeOK' /\ VaryKeyTypeOK' /\ VaryKeyBudgeted'
  BY <1>2, Movers, StillTyped, DeceptionTyped, EntanglementTyped, NormalizationTyped, KeyCollisionTyped,
     KeyExplosionTyped, VaryKeyTyped DEF checks
<1>. QED  BY <1>1, <1>3 DEF TypeOK, Budgeted

-----------------------------------------------------------------------------
(* Where the entries come from *)

\* A check does not take back what it sent.
LEMMA StillSent == TypeOK /\ Budgeted /\ [Next]_vars => \A r : Sent(r) => Sent(r)'
<1>. SUFFICES ASSUME TypeOK, Budgeted, [Next]_vars, NEW r, Sent(r) PROVE Sent(r)'
  OBVIOUS
<1>1. /\ DeceptionSends(r) => DeceptionSends(r)'
      /\ NormalizationSends(r) => NormalizationSends(r)'
      /\ KeyCollisionSends(r) => KeyCollisionSends(r)'
      /\ KeyExplosionSends(r) => KeyExplosionSends(r)'
      /\ UserSends(r) => UserSends(r)'
  BY DEF DeceptionSends, NormalizationSends, KeyCollisionSends, KeyExplosionSends, UserSends, ToResource,
         Bare, Credentials
<1>2. entangle'.token >= entangle.token /\ entangle.token \in Nat /\ entangle'.token \in Nat
  <2>1. CASE Entanglement!Next
    <3>1. /\ entangle \in [pc : {"off", "pick", "poison", "confirm", "done"}, technique : 1 .. 2,
                       next : 1 .. Len(FatBodies) + Len(Cloaked) + 1, budget : 0 .. MaxRequests,
                       token : 0 .. MaxRequests, findings : SUBSET Hidden]
      BY DEF TypeOK, EntanglementTypeOK
    <3>2. entangle'.token \in {entangle.token, entangle.token + 1}
      BY <2>1, <3>1
         DEF Entanglement!Next, Entanglement!TechniqueOver, Entanglement!Attempt, Entanglement!PoisonRequest,
             Entanglement!ConfirmRequest, Entanglement!NextTechnique, Entanglement!NextAttempt, Entanglement!Paid
    <3>. QED  BY <3>1, <3>2, Constants
  <2>2. CASE UNCHANGED entangle
    BY <2>2, Constants DEF TypeOK, EntanglementTypeOK
  <2>. QED  BY <2>1, <2>2, Movers DEF checks
<1>3. EntanglementSends(r) => EntanglementSends(r)'
  <2>1. ASSUME NEW n \in 0 .. entangle.token PROVE n \in 0 .. entangle'.token
    BY <1>2
  <2>. QED  BY <2>1 DEF EntanglementSends, ToResource
<1>4. vary.pc \notin {"off", "base"} => vary'.pc \notin {"off", "base"}
  <2>1. CASE VaryKey!Next
    <3>1. vary \in [pc : {"off", "base", "vary", "cookie", "credentials", "isolated", "done"},
                       next : 1 .. Len(Dimensions) + 1, budget : 0 .. MaxRequests,
                       caller : VaryKey!Callers, base : Replies, anonymous : Replies, raw : RawStatus,
                       keyed : SUBSET Extras, inert : SUBSET Extras, leak : {"none", "high", "critical"}]
      BY DEF TypeOK, VaryKeyTypeOK
    <3>. QED
      BY <2>1, <3>1
         DEF VaryKey!Next, VaryKey!BaseRequest, VaryKey!VaryRequest, VaryKey!AllVaried, VaryKey!CookieRequest,
             VaryKey!NoLeakTest, VaryKey!AnonymousRequest, VaryKey!IsolatedRequest, VaryKey!Judged,
             VaryKey!Ended, VaryKey!At
  <2>2. CASE UNCHANGED vary
    BY <2>2
  <2>. QED  BY <2>1, <2>2, Movers DEF checks
<1>5. VaryKeySends(r) => VaryKeySends(r)'
  BY <1>1, <1>4 DEF VaryKeySends, ToResource
<1>. QED  BY <1>1, <1>3, <1>5 DEF Sent

\* The content says which version is served, and nothing else.
LEMMA SameProduct ==
    TypeOK /\ TypeOK' /\ site' = site =>
        \A r : Produced(r)'.what = Produced(r).what /\ Produced(r)'.shows = Produced(r).shows
<1>. SUFFICES ASSUME TypeOK, TypeOK', site' = site, NEW r
     PROVE Produced(r)'.what = Produced(r).what /\ Produced(r)'.shows = Produced(r).shows
  OBVIOUS
<1>. DEFINE extra == IF r.extra \in site.reads THEN r.extra ELSE Plain
<1>2. CASE ServesPage(r)
  <2>1. Produced(r) = [Page EXCEPT !.shows = extra] /\ Produced(r)' = [Page' EXCEPT !.shows = extra]
    BY <1>2 DEF Produced, ServesPage, Direct, Plain
  <2>. HIDE DEF extra
  <2>2. [Page EXCEPT !.shows = extra].what = [Page' EXCEPT !.shows = extra].what
        /\ [Page EXCEPT !.shows = extra].shows = extra /\ [Page' EXCEPT !.shows = extra].shows = extra
    BY DEF Page
  <2>. QED  BY <2>1, <2>2
<1>3. CASE ~ServesPage(r)
  <2>1. Produced(r)' = Produced(r)
    BY <1>3 DEF Produced, ServesPage, Direct, Asset, Missing
  <2>. QED  BY <2>1
<1>. QED  BY <1>2, <1>3

\* A new entry is a request's; a request that finds an entry stores none.
Enters(r, key) ==
    /\ key = KeyOf(r) /\ store'[key] = Produced(r)
    /\ r.way \in site.stores /\ Ok(Produced(r)) /\ ~Hit(r)
Stays(key) == key \in DOMAIN store /\ store'[key] = store[key]

\* An entry after an answer was there before or has just entered.
LEMMA Entering ==
    ASSUME NEW r, Answered(r), NEW key \in DOMAIN store'
    PROVE  Stays(key) \/ Enters(r, key)
BY AfterAdds DEF Answered, Stays, Enters

\* So is every entry after any step.
LEMMA Changes ==
    TypeOK /\ Budgeted /\ [Next]_vars =>
        \A key \in DOMAIN store' : Stays(key) \/ \E r : Sent(r) /\ Enters(r, key)
<1>. SUFFICES ASSUME TypeOK, Budgeted, [Next]_vars, NEW key \in DOMAIN store'
     PROVE Stays(key) \/ \E r : Sent(r) /\ Enters(r, key)
  OBVIOUS
<1>1. CASE UNCHANGED vars \/ Quiet \/ Publish
  BY <1>1 DEF vars, environment, Quiet, Publish, Stays
<1>2. CASE Expire
  BY <1>2 DEF Expire, Without, Stays
<1>3. CASE \E r : Sent(r) /\ Answered(r)
  BY <1>3, Entering
<1>4. \A r : UserSends(r) => Sent(r)
  BY DEF Sent, VaryKeySends
<1>5. (UNCHANGED vars \/ Quiet \/ Publish) \/ Expire \/ \E r : Sent(r) /\ Answered(r)
  BY Steps, <1>4 DEF Sent
<1>. QED  BY <1>1, <1>2, <1>3, <1>5

\* Every step leaves every entry accounted for.
LEMMA StillAccounted == TypeOK /\ Budgeted /\ Accounted /\ [Next]_vars => Accounted'
<1>. SUFFICES ASSUME TypeOK, Budgeted, Accounted, [Next]_vars, NEW key \in DOMAIN store'
     PROVE  (\E r : CameFrom(r, key))'
  BY DEF Accounted
<1>1. TypeOK' /\ Budgeted' /\ site' = site /\ content' >= content
      /\ content \in Nat /\ content' \in Nat
  BY Typed, EnvironmentTyped, Constants DEF TypeOK, EnvironmentTypeOK
<1>2. \A r : Sent(r) => Sent(r)'
  BY StillSent
<1>3. \A r : KeptUnder(r, key) => KeptUnder(r, key)'
  BY <1>1 DEF KeptUnder, Keyed, Isolating
<1>4. CASE Stays(key)
  <2>1. PICK r : CameFrom(r, key)
    BY <1>4 DEF Accounted, Stays
  <2>2. Produced(r).what # "missing"
    BY <2>1 DEF CameFrom, Ok
  <2>3. Produced(r)'.what = Produced(r).what /\ Produced(r)'.shows = Produced(r).shows
    BY <1>1, <2>2, SameProduct
  <2>4. store'[key].version \in 0 .. content'
    BY <1>1, <1>4, <2>1 DEF CameFrom, Stays
  <2>5. CameFrom(r, key)'
    BY <1>1, <1>2, <1>3, <1>4, <2>1, <2>3, <2>4 DEF CameFrom, Stays, Ok
  <2>. QED  BY <2>5
<1>5. CASE \E r : Sent(r) /\ Enters(r, key)
  <2>1. PICK r : Sent(r) /\ Enters(r, key)
    BY <1>5
  <2>2. Produced(r).what # "missing"
    BY <2>1 DEF Enters, Ok
  <2>3. Produced(r)'.what = Produced(r).what /\ Produced(r)'.shows = Produced(r).shows
    BY <1>1, <2>2, SameProduct
  <2>4. Produced(r).version \in {0, content}
    BY PageProduced, OtherProduced, PageIs
  <2>5. store'[key].version \in 0 .. content'
    BY <1>1, <2>1, <2>4 DEF Enters
  <2>6. KeptUnder(r, key)
    BY <2>1, KeyIsKeptUnder DEF Enters
  <2>7. CameFrom(r, key)'
    BY <1>1, <1>2, <1>3, <2>1, <2>3, <2>5, <2>6 DEF CameFrom, Enters, Ok
  <2>. QED  BY <2>7
<1>. QED  BY <1>4, <1>5, Changes

\* What is common to all that is sent.
LEMMA SentIs ==
    TypeOK => \A r : Sent(r) =>
        /\ r.way \in Ways
        /\ r.to # 0 => r.to \in Nat \ {0} /\ r.value = 0 /\ Bare(r) /\ r.way \in {Direct} \cup Detours
        /\ r.value # 0 => r.value \in 1 .. Probes /\ Bare(r) /\ r.way = Direct /\ r.to = 0
        /\ r.token = NoToken => \/ Credentials(r)
                                \/ r.extra \in ElementsOf(Dimensions) \cup {"cookie"} /\ vary.pc \notin {"off", "base"}
        /\ r.extra # Plain => r.to = 0 /\ r.way = Direct /\ r.value = 0
        /\ r.extra \in Extras \cup {Plain}
<1>. SUFFICES ASSUME TypeOK, NEW r, Sent(r)
     PROVE
        /\ r.way \in Ways
        /\ r.to # 0 => r.to \in Nat \ {0} /\ r.value = 0 /\ Bare(r) /\ r.way \in {Direct} \cup Detours
        /\ r.value # 0 => r.value \in 1 .. Probes /\ Bare(r) /\ r.way = Direct /\ r.to = 0
        /\ r.token = NoToken => \/ Credentials(r)
                                \/ r.extra \in ElementsOf(Dimensions) \cup {"cookie"} /\ vary.pc \notin {"off", "base"}
        /\ r.extra # Plain => r.to = 0 /\ r.way = Direct /\ r.value = 0
        /\ r.extra \in Extras \cup {Plain}
  OBVIOUS
<1>. USE DEF ToResource, Bare, Credentials, NoToken
<1>1. CASE DeceptionSends(r)
  BY <1>1, SomeWays, Constants DEF DeceptionSends
<1>2. CASE EntanglementSends(r)
  BY <1>2, SomeWays, Constants DEF EntanglementSends
<1>3. CASE NormalizationSends(r)
  BY <1>3, SomeWays, Constants DEF NormalizationSends
<1>4. CASE KeyCollisionSends(r)
  BY <1>4, SomeWays, Constants DEF KeyCollisionSends
<1>5. CASE KeyExplosionSends(r)
  BY <1>5, SomeWays, Constants DEF KeyExplosionSends
<1>6. CASE VaryKeySends(r)
  BY <1>6, SomeWays, Constants DEF VaryKeySends, UserSends
<1>. QED  BY <1>1, <1>2, <1>3, <1>4, <1>5, <1>6 DEF Sent

\* What is kept for the resource itself is the page, where the cache resolves
\* nothing that the origin does not, or the origin serves it everywhere.
LEMMA DirectIsPage ==
    TypeOK /\ Accounted /\ (site.loose \/ Honest) =>
        \A key \in DOMAIN store :
            key.to = 0 /\ key.way = Direct => store[key].what = "page" /\ site.exists
<1>. SUFFICES ASSUME TypeOK, Accounted, site.loose \/ Honest, NEW key \in DOMAIN store,
                     key.to = 0, key.way = Direct
     PROVE  store[key].what = "page" /\ site.exists
  OBVIOUS
<1>1. PICK r : CameFrom(r, key)
  BY DEF Accounted
<1>2. r.to = 0 /\ (r.way = Direct \/ r.way \in site.collapses)
  BY <1>1 DEF CameFrom, KeptUnder, Keyed
<1>3. site.loose \/ r.way \in site.follows \cup {Direct}
  BY <1>2 DEF Honest
<1>4. Produced(r).what = Page.what
  BY <1>2, <1>3, PageProduced DEF ServesPage
<1>. QED  BY <1>1, <1>4, PageIs DEF CameFrom, Ok

\* What is kept under another way that the origin does not follow is a file.
LEMMA ElsewhereIsAsset ==
    TypeOK /\ Accounted /\ ~site.loose =>
        \A key \in DOMAIN store :
            key.to = 0 /\ key.way # Direct /\ key.way \notin site.follows => store[key].what = "asset"
<1>. SUFFICES ASSUME TypeOK, Accounted, ~site.loose, NEW key \in DOMAIN store,
                     key.to = 0, key.way # Direct, key.way \notin site.follows
     PROVE  store[key].what = "asset"
  OBVIOUS
<1>1. PICK r : CameFrom(r, key)
  BY DEF Accounted
<1>2. r.to = 0 /\ r.way = key.way
  BY <1>1 DEF CameFrom, KeptUnder, Keyed
<1>3. Produced(r).what \in {"asset", "missing"}
  BY <1>2, OtherProduced DEF ServesPage
<1>. QED  BY <1>1, <1>3 DEF CameFrom, Ok

\* Under no buster, an entry whose key names no extra shows none, if the cache
\* keys what such requests are varied by or they are yet to come.
LEMMA ShowsPlain ==
    TypeOK /\ Accounted /\ Isolating /\ (Unmarked \/ vary.pc \in {"off", "base"}) =>
        \A key \in DOMAIN store :
            key.token = NoToken /\ key.extra \in {Plain, "anonymous"} => store[key].shows = Plain
<1>. SUFFICES ASSUME TypeOK, Accounted, Isolating, Unmarked \/ vary.pc \in {"off", "base"},
                     NEW key \in DOMAIN store, key.token = NoToken, key.extra \in {Plain, "anonymous"}
     PROVE  store[key].shows = Plain
  OBVIOUS
<1>1. PICK r : CameFrom(r, key)
  BY DEF Accounted
<1>2. r.token = NoToken /\ key.extra = (IF r.extra \in site.keys THEN r.extra ELSE Plain)
  BY <1>1 DEF CameFrom, KeptUnder
<1>3. Sent(r)
  BY <1>1 DEF CameFrom
<1>4. \/ r.extra \in {Plain, "anonymous"}
      \/ r.extra \in ElementsOf(Dimensions) \cup {"cookie"} /\ Unmarked
  BY <1>2, <1>3, SentIs DEF Credentials
<1>5. store[key].shows \in {r.extra, Plain} /\ (store[key].shows # Plain => r.extra \in site.reads)
  BY <1>1, PageProduced, OtherProduced DEF CameFrom
<1>6. store[key].shows # "anonymous"
  BY <1>1 DEF CameFrom, Ok
<1>7. CASE r.extra \in {Plain, "anonymous"}
  BY <1>5, <1>6, <1>7
<1>8. CASE r.extra \in ElementsOf(Dimensions) /\ Unmarked
  <2>1. r.extra \in site.reads => key.extra = r.extra
    BY <1>2, <1>8 DEF Unmarked
  <2>2. r.extra \notin {Plain, "anonymous"}
    BY <1>8, Constants
  <2>. QED  BY <1>5, <2>1, <2>2
<1>9. CASE r.extra = "cookie" /\ Unmarked
  BY <1>5, <1>9 DEF Unmarked
<1>. QED  BY <1>4, <1>7, <1>8, <1>9

\* An entry lies under a way the cache stores, or where it looks for one.
LEMMA EntryIsKept ==
    Accounted => \A key \in DOMAIN store : \E way \in site.stores : Keyed(way) = key.way
BY DEF Accounted, CameFrom, KeptUnder

\* A user's entry holds what the origin gives a user.
LEMMA CanonicalFollows == TypeOK /\ Accounted => CanonicalKept
<1>. SUFFICES ASSUME TypeOK, Accounted, Unmarked, site.loose \/ Honest, NEW extra \in {Plain, "anonymous"},
                     Hit([Request EXCEPT !.extra = extra])
     PROVE  LET user == [Request EXCEPT !.extra = extra]
            IN  Body(user).what = "page" /\ Body(user).shows = Plain
  BY DEF CanonicalKept
<1>. DEFINE user == [Request EXCEPT !.extra = extra]
            key == KeyOf(user)
<1>1. user.to = 0 /\ user.way = Direct /\ user.token = NoToken /\ user.extra = extra
  BY Variants
<1>. HIDE DEF user
<1>2. key.to = 0 /\ key.way = Direct /\ key.token = NoToken /\ key.extra \in {Plain, "anonymous"}
  BY <1>1, KeyIs, SiteIs DEF Keyed
<1>3. key \in DOMAIN store /\ Body(user) = store[key]
  BY DEF Hit, Body, user
<1>4. store[key].what = "page"
  BY <1>2, <1>3, DirectIsPage
<1>5. store[key].shows = Plain
  BY <1>2, <1>3, ShowsPlain DEF Unmarked
<1>. QED  BY <1>3, <1>4, <1>5 DEF user

-----------------------------------------------------------------------------
(* What the others do to the cache *)

\* Of another check no entry under the token of the attempt.
LEMMA OthersEntanglement ==
    TypeOK /\ Budgeted /\ [Next]_vars =>
        \/ Entanglement!Next
        \/ /\ UNCHANGED entangle
           /\ \A key \in DOMAIN store' :
                 Stays(key) \/ \E r : Enters(r, key) /\ r.token # <<"entangle", entangle.token>>
<1>. SUFFICES ASSUME TypeOK, Budgeted, [Next]_vars, ~Entanglement!Next
     PROVE  /\ UNCHANGED entangle
            /\ \A key \in DOMAIN store' :
                 Stays(key) \/ \E r : Enters(r, key) /\ r.token # <<"entangle", entangle.token>>
  OBVIOUS
<1>. DEFINE Foreign(r) == r.token # <<"entangle", entangle.token>>
<1>1. \A r : DeceptionSends(r) \/ NormalizationSends(r) \/ KeyCollisionSends(r) \/ KeyExplosionSends(r)
             \/ VaryKeySends(r) => Foreign(r)
  BY DEF DeceptionSends, NormalizationSends, KeyCollisionSends, KeyExplosionSends, VaryKeySends, UserSends,
         ToResource, Bare, NoToken
<1>2. \A r : UserSends(r) => Foreign(r)
  BY <1>1 DEF VaryKeySends
<1>. HIDE DEF Foreign
<1>3. UNCHANGED entangle
  BY Movers DEF checks
<1>4. UNCHANGED store \/ Expire \/ \E r : Foreign(r) /\ Answered(r)
  BY Steps, <1>1, <1>2 DEF vars, environment, Quiet, Publish
<1>5. ASSUME NEW key \in DOMAIN store' PROVE Stays(key) \/ \E r : Enters(r, key) /\ Foreign(r)
  BY <1>4, Entering DEF Expire, Without, Stays
<1>. QED  BY <1>3, <1>5 DEF Foreign

\* Of another check no entry of the resource by a detour, nor of the control.
LEMMA OthersNormalization ==
    TypeOK /\ Budgeted /\ [Next]_vars =>
        \/ Normalization!Next
        \/ /\ UNCHANGED normalize
           /\ \A key \in DOMAIN store' :
                 Stays(key) \/ \E r : Enters(r, key) /\ (r.to # 0 \/ r.way \notin {Beside} \cup Detours)
<1>. SUFFICES ASSUME TypeOK, Budgeted, [Next]_vars, ~Normalization!Next
     PROVE  /\ UNCHANGED normalize
            /\ \A key \in DOMAIN store' :
                 Stays(key) \/ \E r : Enters(r, key) /\ (r.to # 0 \/ r.way \notin {Beside} \cup Detours)
  OBVIOUS
<1>. DEFINE Foreign(r) == r.to # 0 \/ r.way \notin {Beside} \cup Detours
<1>0. Direct \notin {Beside} \cup Detours
      /\ \A n \in 1 .. Len(Suffixes) : <<"suffix", n>> \notin {Beside} \cup Detours
  BY TargetAssumption DEF Direct, Beside, Detours
<1>1. \A r : DeceptionSends(r) \/ EntanglementSends(r) \/ KeyCollisionSends(r) \/ KeyExplosionSends(r)
             \/ VaryKeySends(r) => Foreign(r)
  BY <1>0 DEF DeceptionSends, EntanglementSends, KeyCollisionSends, KeyExplosionSends, VaryKeySends, UserSends
<1>2. \A r : UserSends(r) => Foreign(r)
  BY <1>1 DEF VaryKeySends
<1>. HIDE DEF Foreign
<1>3. UNCHANGED normalize
  BY Movers DEF checks
<1>4. UNCHANGED store \/ Expire \/ \E r : Foreign(r) /\ Answered(r)
  BY Steps, <1>1, <1>2 DEF vars, environment, Quiet, Publish
<1>5. ASSUME NEW key \in DOMAIN store' PROVE Stays(key) \/ \E r : Enters(r, key) /\ Foreign(r)
  BY <1>4, Entering DEF Expire, Without, Stays
<1>. QED  BY <1>3, <1>5 DEF Foreign

\* Of another check no entry with a value.
LEMMA OthersKeyExplosion ==
    TypeOK /\ Budgeted /\ [Next]_vars =>
        \/ KeyExplosion!Next
        \/ /\ UNCHANGED explode
           /\ \A key \in DOMAIN store' :
                 Stays(key) \/ \E r : Enters(r, key) /\ r.value = 0
<1>. SUFFICES ASSUME TypeOK, Budgeted, [Next]_vars, ~KeyExplosion!Next
     PROVE  /\ UNCHANGED explode
            /\ \A key \in DOMAIN store' :
                 Stays(key) \/ \E r : Enters(r, key) /\ r.value = 0
  OBVIOUS
<1>1. \A r : DeceptionSends(r) \/ EntanglementSends(r) \/ KeyCollisionSends(r) \/ NormalizationSends(r)
             \/ VaryKeySends(r) => r.value = 0
  BY DEF DeceptionSends, EntanglementSends, KeyCollisionSends, NormalizationSends, VaryKeySends, UserSends,
         ToResource
<1>2. \A r : UserSends(r) => r.value = 0
  BY <1>1 DEF VaryKeySends
<1>3. UNCHANGED explode
  BY Movers DEF checks
<1>4. UNCHANGED store \/ Expire \/ \E r : r.value = 0 /\ Answered(r)
  BY Steps, <1>1, <1>2 DEF vars, environment, Quiet, Publish
<1>5. ASSUME NEW key \in DOMAIN store' PROVE Stays(key) \/ \E r : Enters(r, key) /\ r.value = 0
  BY <1>4, Entering DEF Expire, Without, Stays
<1>. QED  BY <1>3, <1>5

\* Of another check no entry that is varied.
LEMMA OthersVaryKey ==
    TypeOK /\ Budgeted /\ [Next]_vars =>
        \/ VaryKey!Next
        \/ /\ UNCHANGED vary
           /\ \A key \in DOMAIN store' :
                 Stays(key) \/ \E r : Enters(r, key) /\ r.extra \notin ElementsOf(Dimensions) \cup {"cookie"}
<1>. SUFFICES ASSUME TypeOK, Budgeted, [Next]_vars, ~VaryKey!Next
     PROVE  /\ UNCHANGED vary
            /\ \A key \in DOMAIN store' :
                 Stays(key) \/ \E r : Enters(r, key) /\ r.extra \notin ElementsOf(Dimensions) \cup {"cookie"}
  OBVIOUS
<1>. DEFINE Foreign(r) == r.extra \notin ElementsOf(Dimensions) \cup {"cookie"}
<1>0. /\ Plain \notin ElementsOf(Dimensions) \cup {"cookie"}
      /\ {"range", "split", "anonymous"} \cap (ElementsOf(Dimensions) \cup {"cookie"}) = {}
      /\ Hidden \cap (ElementsOf(Dimensions) \cup {"cookie"}) = {}
  BY Constants
<1>1. \A r : DeceptionSends(r) \/ EntanglementSends(r) \/ KeyCollisionSends(r) \/ NormalizationSends(r)
             \/ KeyExplosionSends(r) => Foreign(r)
  BY <1>0 DEF DeceptionSends, EntanglementSends, KeyCollisionSends, NormalizationSends, KeyExplosionSends, Bare
<1>2. \A r : UserSends(r) => Foreign(r)
  BY <1>0 DEF UserSends, Credentials
<1>. HIDE DEF Foreign
<1>3. UNCHANGED vary
  BY Movers DEF checks
<1>4. UNCHANGED store \/ Expire \/ \E r : Foreign(r) /\ Answered(r)
  BY Steps, <1>1, <1>2 DEF vars, environment, Quiet, Publish
<1>5. ASSUME NEW key \in DOMAIN store' PROVE Stays(key) \/ \E r : Enters(r, key) /\ Foreign(r)
  BY <1>4, Entering DEF Expire, Without, Stays
<1>. QED  BY <1>3, <1>5 DEF Foreign

\* When nothing goes wrong, an entry stays.
LEMMA LastingIs == TypeOK /\ Budgeted /\ [Next]_vars => (Lasting' <=> Lasting)
<1>. SUFFICES ASSUME TypeOK, Budgeted, [Next]_vars PROVE Lasting' <=> Lasting
  OBVIOUS
<1>1. site' = site
  BY EnvironmentTyped
<1>2. explode'.pc = "off" <=> explode.pc = "off"
  <2>1. CASE KeyExplosion!Next
    <3>1. explode \in [pc : {"off", "value", "repeat", "done"}, next : 1 .. Probes,
                       budget : 0 .. MaxRequests, found : BOOLEAN]
      BY DEF TypeOK, KeyExplosionTypeOK
    <3>. QED
      BY <2>1, <3>1 DEF KeyExplosion!Next, KeyExplosion!Unaffordable, KeyExplosion!ValueRequest,
                        KeyExplosion!RepeatRequest, KeyExplosion!Ended, KeyExplosion!At
  <2>2. CASE UNCHANGED explode
    BY <2>2
  <2>. QED  BY <2>1, <2>2, Movers DEF checks
<1>. QED  BY <1>1, <1>2 DEF Lasting

\* No entry is lost while nothing fails and the cache has room.
LEMMA EntriesStay ==
    TypeOK /\ Budgeted /\ [Next]_vars /\ faults' = 0 /\ Lasting =>
        \A key \in DOMAIN store : key \in DOMAIN store' /\ store'[key] = store[key]
<1>. SUFFICES ASSUME TypeOK, Budgeted, [Next]_vars, faults' = 0, Lasting, NEW key \in DOMAIN store
     PROVE key \in DOMAIN store' /\ store'[key] = store[key]
  OBVIOUS
<1>0. faults \in Nat /\ site \in Sites
  BY Constants DEF TypeOK, EnvironmentTypeOK
<1>1. CASE UNCHANGED vars \/ Quiet \/ Publish
  BY <1>1 DEF vars, environment, Quiet, Publish
<1>2. ~Expire
  BY <1>0 DEF Expire, Fault
<1>3. ASSUME NEW r, Answered(r), site.overflow # "evict" \/ r.value = 0
      PROVE key \in DOMAIN store' /\ store'[key] = store[key]
  BY <1>0, <1>3, AfterKeeps DEF Answered
<1>4. CASE KeyExplosion!Next
  <2>1. site.overflow # "evict"
    BY <1>4 DEF Lasting, KeyExplosion!Next, KeyExplosion!Unaffordable, KeyExplosion!ValueRequest,
                KeyExplosion!RepeatRequest, KeyExplosion!At
  <2>2. (UNCHANGED vars \/ Quiet \/ Publish) \/ \E r : Answered(r)
    BY <1>2, Steps
  <2>. QED  BY <1>1, <1>3, <2>1, <2>2
<1>5. CASE ~KeyExplosion!Next
  <2>1. \A r : DeceptionSends(r) \/ EntanglementSends(r) \/ KeyCollisionSends(r) \/ NormalizationSends(r)
               \/ VaryKeySends(r) \/ UserSends(r) => r.value = 0
    BY DEF DeceptionSends, EntanglementSends, KeyCollisionSends, NormalizationSends, VaryKeySends, UserSends,
           ToResource
  <2>2. (UNCHANGED vars \/ Quiet \/ Publish) \/ \E r : r.value = 0 /\ Answered(r)
    BY <1>2, <1>5, <2>1, Steps
  <2>. QED  BY <1>1, <1>3, <2>2
<1>. QED  BY <1>4, <1>5

-----------------------------------------------------------------------------
(* Entanglement *)

OwnPoison == [Busted("entangle", entangle.token) EXCEPT !.extra = Entanglement!Current]
OwnConfirm == Busted("entangle", entangle.token)

\* The poison and the confirm of an attempt.
LEMMA EntanglementRequests ==
    /\ Entanglement!Poison = OwnPoison /\ Entanglement!Confirm = OwnConfirm
    /\ OwnPoison.to = 0 /\ OwnPoison.way = Direct /\ OwnPoison.value = 0
    /\ OwnPoison.token = <<"entangle", entangle.token>> /\ OwnPoison.extra = Entanglement!Current
    /\ OwnConfirm.to = 0 /\ OwnConfirm.way = Direct /\ OwnConfirm.value = 0
    /\ OwnConfirm.token = <<"entangle", entangle.token>> /\ OwnConfirm.extra = Plain
BY EntanglementTarget, BustedVariants DEF Entanglement!Poison, Entanglement!Confirm, OwnPoison, OwnConfirm

\* The tokens of the entries are those of attempts made.
LEMMA TokensAreOld ==
    TypeOK /\ Accounted /\ Isolating =>
        \A key \in DOMAIN store, n \in Nat : key.token = <<"entangle", n>> => n <= entangle.token
<1>. SUFFICES ASSUME TypeOK, Accounted, Isolating, NEW key \in DOMAIN store, NEW n \in Nat,
                     key.token = <<"entangle", n>>
     PROVE n <= entangle.token
  OBVIOUS
<1>0. entangle.token \in Nat
  BY Constants DEF TypeOK, EntanglementTypeOK
<1>1. PICK r : CameFrom(r, key)
  BY DEF Accounted
<1>2. r.token = <<"entangle", n>> /\ Sent(r)
  BY <1>1 DEF CameFrom, KeptUnder
<1>3. EntanglementSends(r)
  BY <1>2 DEF Sent, DeceptionSends, NormalizationSends, KeyCollisionSends, KeyExplosionSends, VaryKeySends,
              UserSends, Bare, NoToken
<1>4. PICK m \in 0 .. entangle.token : r.token = <<"entangle", m>>
  BY <1>3 DEF EntanglementSends
<1>. QED  BY <1>0, <1>2, <1>4

\* What the origin answers to them.
LEMMA ProducedForOwn ==
    TypeOK => /\ Produced(OwnConfirm).shows = Plain
              /\ Entanglement!Current \notin site.reads => Produced(OwnPoison).shows = Plain
              /\ Entanglement!Current \in site.reads => Produced(OwnPoison).shows = Entanglement!Current
              /\ Produced(OwnPoison).what = Page.what
<1>. SUFFICES ASSUME TypeOK
     PROVE  /\ Produced(OwnConfirm).shows = Plain
            /\ Entanglement!Current \notin site.reads => Produced(OwnPoison).shows = Plain
            /\ Entanglement!Current \in site.reads => Produced(OwnPoison).shows = Entanglement!Current
            /\ Produced(OwnPoison).what = Page.what
  OBVIOUS
<1>1. ServesPage(OwnConfirm) /\ ServesPage(OwnPoison)
  BY EntanglementRequests DEF ServesPage
<1>2. Produced(OwnConfirm).shows = IF OwnConfirm.extra \in site.reads THEN OwnConfirm.extra ELSE Plain
  BY <1>1, PageProduced
<1>3. Produced(OwnPoison).shows = IF OwnPoison.extra \in site.reads THEN OwnPoison.extra ELSE Plain
  BY <1>1, PageProduced
<1>4. Produced(OwnPoison).what = Page.what
  BY <1>1, PageProduced
<1>. QED  BY <1>2, <1>3, <1>4, EntanglementRequests

\* What is found under the check's own token with nothing extra in the key.
OwnMarked ==
    \A key \in DOMAIN store : Own(key) /\ key.extra = Plain /\ store[key].shows \in Hidden =>
        Poisonable(Entanglement!Current) /\ Direct \in site.stores

\* OwnMarks: another check never plants what a confirm finds.
LEMMA StillOwnMarks ==
    TypeOK /\ Budgeted /\ Accounted /\ OwnMarks /\ [Next]_vars => OwnMarks'
<1>. SUFFICES ASSUME TypeOK, Budgeted, Accounted, OwnMarks, [Next]_vars PROVE OwnMarks'
  OBVIOUS
<1>a. site' = site
  BY EnvironmentTyped
<1>. SUFFICES ASSUME Isolating
     PROVE  /\ entangle'.pc \in {"poison", "confirm"} => OwnMarked'
            /\ \A input \in entangle'.findings : Poisonable(input) /\ Direct \in site.stores
  BY <1>a DEF OwnMarks, OwnMarked, Isolating, Own, Poisonable, Direct, Entanglement!Current,
     Entanglement!Listed, Entanglement!Techniques, Hidden, ElementsOf, Plain
<1>0. /\ site' = site
      /\ entangle \in [pc : {"off", "pick", "poison", "confirm", "done"}, technique : 1 .. 2,
                       next : 1 .. Len(FatBodies) + Len(Cloaked) + 1, budget : 0 .. MaxRequests,
                       token : 0 .. MaxRequests, findings : SUBSET Hidden]
      /\ entangle.token \in Nat /\ Plain \notin Hidden
  BY EnvironmentTyped, Constants DEF TypeOK, EntanglementTypeOK
<1>1. /\ entangle.pc \in {"poison", "confirm"} => OwnMarked
      /\ \A input \in entangle.findings : Poisonable(input) /\ Direct \in site.stores
  BY DEF OwnMarks, OwnMarked
<1>2. ASSUME entangle'.token = entangle.token, Entanglement!Current' = Entanglement!Current, OwnMarked,
             \A key \in DOMAIN store' :
                 Stays(key) \/ (\E r : Enters(r, key) /\ (\/ r.token # <<"entangle", entangle.token>>
                                                          \/ r = OwnPoison \/ r = OwnConfirm))
      PROVE  OwnMarked'
  <2>. SUFFICES ASSUME NEW key \in DOMAIN store', Own(key), key.extra = Plain, store'[key].shows \in Hidden
       PROVE  Poisonable(Entanglement!Current) /\ Direct \in site.stores
    BY <1>0, <1>2 DEF OwnMarked, Own, Poisonable, Direct, Plain
  <2>1. CASE Stays(key)
    BY <1>2, <2>1 DEF OwnMarked, Stays
  <2>2. CASE \E r : Enters(r, key) /\ r.token # <<"entangle", entangle.token>>
    BY <2>2, KeyIs DEF Enters, Own
  <2>3. CASE Enters(OwnPoison, key)
    <3>1. Produced(OwnPoison).shows \in Hidden /\ Direct \in site.stores
      BY <2>3, EntanglementRequests DEF Enters
    <3>2. Entanglement!Current \in site.reads /\ Entanglement!Current \in Hidden
      BY <1>0, <3>1, ProducedForOwn
    <3>3. Entanglement!Current \notin site.keys
      BY <1>0, <2>3, <3>2, EntanglementRequests, KeyIs DEF Enters
    <3>. QED  BY <3>1, <3>2, <3>3 DEF Poisonable
  <2>4. CASE Enters(OwnConfirm, key)
    BY <1>0, <2>4, ProducedForOwn DEF Enters
  <2>. QED  BY <1>2, <2>1, <2>2, <2>3, <2>4
<1>3. ASSUME NEW r, Answered(r), NEW key \in DOMAIN store' PROVE Stays(key) \/ Enters(r, key)
  BY <1>3, Entering
<1>4. CASE Entanglement!TechniqueOver
  BY <1>0, <1>1, <1>4 DEF Entanglement!TechniqueOver, Entanglement!NextTechnique
<1>5. CASE Entanglement!Attempt
  <2>1. entangle'.findings = entangle.findings /\ entangle'.pc \in {"pick", "poison"} /\ store' = store
    BY <1>0, <1>5 DEF Entanglement!Attempt, Entanglement!NextAttempt, Entanglement!environment
  <2>2. entangle'.pc = "poison" => entangle'.token = entangle.token + 1
    BY <1>0, <1>5 DEF Entanglement!Attempt, Entanglement!NextAttempt
  <2>3. entangle'.pc = "poison" => \A key \in DOMAIN store : key.token # <<"entangle", entangle'.token>>
    BY <1>0, <2>2, TokensAreOld
  <2>4. entangle'.pc = "poison" => OwnMarked'
    BY <2>1, <2>3 DEF OwnMarked, Own
  <2>. QED  BY <1>1, <2>1, <2>4
<1>6. CASE Entanglement!PoisonRequest
  <2>1. entangle.pc = "poison" /\ Answered(OwnPoison)
    BY <1>6, EntanglementRequests, EntanglementTarget, AskedIsAnswered DEF Entanglement!PoisonRequest, Entanglement!At
  <2>2. entangle'.findings = entangle.findings
    BY <1>0, <1>6 DEF Entanglement!PoisonRequest, Entanglement!NextAttempt, Entanglement!NextTechnique, Entanglement!Paid
  <2>3. entangle'.pc \in {"poison", "confirm"} =>
           entangle'.token = entangle.token /\ Entanglement!Current' = Entanglement!Current
    <3>1. entangle' \in {entangle, [Entanglement!Paid EXCEPT !.pc = "confirm"],
                         Entanglement!NextAttempt(Entanglement!Paid), Entanglement!NextTechnique(Entanglement!Paid)}
      BY <1>6 DEF Entanglement!PoisonRequest
    <3>2. entangle'.pc \in {"poison", "confirm"} =>
             /\ entangle'.token = entangle.token /\ entangle'.technique = entangle.technique
             /\ entangle'.next = entangle.next
      BY <1>0, <3>1 DEF Entanglement!NextAttempt, Entanglement!NextTechnique, Entanglement!Paid
    <3>. QED  BY <3>2 DEF Entanglement!Current, Entanglement!Listed, Entanglement!Techniques
  <2>4. entangle'.pc \in {"poison", "confirm"} => OwnMarked'
    BY <1>1, <1>2, <1>3, <2>1, <2>3
  <2>. QED  BY <1>1, <2>2, <2>4
<1>7. CASE Entanglement!ConfirmRequest
  <2>1. entangle.pc = "confirm" /\ Answered(OwnConfirm)
    BY <1>7, EntanglementRequests, EntanglementTarget, AskedIsAnswered DEF Entanglement!ConfirmRequest, Entanglement!At
  <2>. DEFINE more == [Entanglement!Paid EXCEPT !.findings = @ \cup {Entanglement!Current}]
  <2>2. \/ entangle' \in {entangle, Entanglement!NextAttempt(Entanglement!Paid)}
        \/ Body(OwnConfirm).shows \in Hidden /\ entangle' = Entanglement!NextTechnique(more)
    BY <1>7, EntanglementRequests, EntanglementTarget DEF Entanglement!ConfirmRequest, Entanglement!Reflected,
       Entanglement!Hidden, Hidden, Entanglement!ElementsOf, ElementsOf
  <2>3. entangle'.pc \in {"poison", "confirm"} => entangle' = entangle
    BY <1>0, <2>2 DEF Entanglement!NextAttempt, Entanglement!NextTechnique, Entanglement!Paid
  <2>4. entangle' = entangle => entangle'.token = entangle.token /\ Entanglement!Current' = Entanglement!Current
    BY DEF Entanglement!Current, Entanglement!Listed, Entanglement!Techniques
  <2>5. entangle'.pc \in {"poison", "confirm"} => OwnMarked'
    BY <1>1, <1>2, <1>3, <2>1, <2>3, <2>4
  <2>6. Body(OwnConfirm).shows \in Hidden => Poisonable(Entanglement!Current) /\ Direct \in site.stores
    <3>1. CASE Hit(OwnConfirm)
      <4>1. Own(KeyOf(OwnConfirm)) /\ KeyOf(OwnConfirm).extra = Plain
        BY EntanglementRequests, KeyIs DEF Own
      <4>. QED  BY <1>1, <2>1, <3>1, <4>1 DEF OwnMarked, Body, Hit
    <3>2. CASE ~Hit(OwnConfirm)
      BY <1>0, <3>2, ProducedForOwn DEF Body
    <3>. QED  BY <3>1, <3>2
  <2>7. entangle'.findings \in {entangle.findings, entangle.findings \cup {Entanglement!Current}}
        /\ (entangle'.findings # entangle.findings => Body(OwnConfirm).shows \in Hidden)
    BY <1>0, <2>2 DEF Entanglement!NextAttempt, Entanglement!NextTechnique, Entanglement!Paid
  <2>. QED  BY <1>1, <2>5, <2>6, <2>7
<1>8. CASE ~Entanglement!Next
  <2>1. /\ entangle' = entangle
        /\ \A key \in DOMAIN store' :
              Stays(key) \/ \E r : Enters(r, key) /\ r.token # <<"entangle", entangle.token>>
    BY <1>8, OthersEntanglement
  <2>2. Entanglement!Current' = Entanglement!Current
    BY <2>1 DEF Entanglement!Current, Entanglement!Listed, Entanglement!Techniques
  <2>. QED  BY <1>1, <1>2, <2>1, <2>2
<1>. QED  BY <1>4, <1>5, <1>6, <1>7, <1>8 DEF Entanglement!Next

\* The entry that a poison leaves is the one its confirm request looks for.
LEMMA OwnKeyIs ==
    TypeOK /\ Isolating => /\ KeyOf(OwnConfirm) = OwnKey
                           /\ Entanglement!Current \notin site.keys => KeyOf(OwnPoison) = OwnKey
<1>. SUFFICES ASSUME TypeOK, Isolating
     PROVE  /\ KeyOf(OwnConfirm) = OwnKey
            /\ Entanglement!Current \notin site.keys => KeyOf(OwnPoison) = OwnKey
  OBVIOUS
<1>1. ValueKey(OwnConfirm) = 0 /\ ValueKey(OwnPoison) = 0
  BY ValueIs, EntanglementRequests
<1>2. Direct \notin site.collapses
  BY SiteIs
<1>. QED  BY <1>1, <1>2, EntanglementRequests DEF KeyOf, OwnKey, Isolating

\* A scan that is unspent was so before the step.
LEMMA UnspentBefore ==
    TypeOK /\ Budgeted /\ [Next]_vars /\ Unspent' /\ entangle'.budget <= entangle.budget => Unspent /\ faults' = faults
<1>. SUFFICES ASSUME TypeOK, Budgeted, [Next]_vars, Unspent', entangle'.budget <= entangle.budget
     PROVE  Unspent /\ faults' = faults
  OBVIOUS
<1>1. site' = site /\ faults' >= faults /\ faults \in Nat /\ faults' = 0
  BY EnvironmentTyped DEF TypeOK, EnvironmentTypeOK, Unspent, Untroubled
<1>2. Lasting
  BY LastingIs DEF Unspent, Untroubled
<1>3. entangle.budget \in Nat /\ entangle'.budget > 0 /\ entangle'.budget \in Nat
  BY Typed DEF TypeOK, EntanglementTypeOK, Unspent
<1>. QED  BY <1>1, <1>2, <1>3 DEF Unspent, Untroubled, Isolating, Direct

\* NonePassedOver, technique by technique and input by input.
LEMMA StillNonePassedOver ==
    TypeOK /\ Budgeted /\ Accounted /\ NonePassedOver /\ [Next]_vars => NonePassedOver'
<1>. SUFFICES ASSUME TypeOK, Budgeted, Accounted, NonePassedOver, [Next]_vars, Unspent'
     PROVE  TechniquesTried' /\ NoneSkipped' /\ PoisonLands'
  BY DEF NonePassedOver
<1>a. entangle \in [pc : {"off", "pick", "poison", "confirm", "done"}, technique : 1 .. 2,
                    next : 1 .. Len(FatBodies) + Len(Cloaked) + 1, budget : 0 .. MaxRequests,
                    token : 0 .. MaxRequests, findings : SUBSET Hidden]
      /\ entangle.token \in Nat /\ entangle.budget \in Nat /\ entangle.next \in Nat
  BY Constants, Lists DEF TypeOK, EntanglementTypeOK
<1>b. site' = site /\ faults \in Nat /\ faults' = 0
  BY EnvironmentTyped DEF TypeOK, EnvironmentTypeOK, Unspent, Untroubled
<1>c. Len(Entanglement!Techniques) = 2 /\ Entanglement!Listed = Entanglement!Techniques[entangle.technique]
      /\ Len(Entanglement!Listed) \in Nat
  BY ListedIs DEF Entanglement!Techniques, Entanglement!Listed
<1>d. \A input : Poisonable(input)' <=> Poisonable(input)
  BY <1>b DEF Poisonable
<1>e. entangle.findings \subseteq entangle'.findings =>
        \A technique : Tried(technique) => Tried(technique)'
  BY <1>d DEF Tried, Entanglement!Techniques
<1>1. ASSUME Unspent PROVE TechniquesTried /\ NoneSkipped /\ PoisonLands
  BY <1>1 DEF NonePassedOver
<1>2. CASE Entanglement!TechniqueOver
  <2>1. entangle' = Entanglement!NextTechnique(entangle)
        /\ (entangle.budget < 1 \/ entangle.next > Len(Entanglement!Listed)) /\ entangle.pc = "pick"
    BY <1>2 DEF Entanglement!TechniqueOver, Entanglement!At
  <2>2. entangle'.budget = entangle.budget /\ entangle'.findings = entangle.findings
    BY <1>a, <2>1 DEF Entanglement!NextTechnique
  <2>3. Unspent /\ entangle.budget > 0 /\ entangle.next > Len(Entanglement!Listed)
    BY <1>a, <2>1, <2>2, UnspentBefore DEF Unspent
  <2>4. \A i \in 1 .. Len(Entanglement!Listed) : ~Poisonable(Entanglement!Listed[i])
    BY <1>1, <1>a, <1>c, <2>1, <2>3 DEF NoneSkipped
  <2>5. Tried(entangle.technique)
    BY <1>c, <2>4 DEF Tried
  <2>6. CASE entangle.technique = 1
    <3>1. entangle'.pc = "pick" /\ entangle'.technique = 2 /\ entangle'.next = 1
      BY <1>a, <1>c, <2>1, <2>6 DEF Entanglement!NextTechnique
    <3>2. Tried(1)'
      BY <1>e, <2>2, <2>5, <2>6
    <3>. QED  BY <3>1, <3>2 DEF TechniquesTried, NoneSkipped, PoisonLands
  <2>7. CASE entangle.technique = 2
    <3>1. entangle'.pc = "done" /\ entangle'.technique = 2
      BY <1>a, <1>c, <2>1, <2>7 DEF Entanglement!NextTechnique
    <3>2. Tried(2)' /\ (IsGet => Tried(1)')
      BY <1>1, <1>e, <2>2, <2>3, <2>5, <2>7 DEF TechniquesTried
    <3>. QED  BY <3>1, <3>2 DEF TechniquesTried, NoneSkipped, PoisonLands
  <2>. QED  BY <1>a, <2>6, <2>7
<1>3. ASSUME Unspent, entangle'.pc = "pick", entangle'.technique = entangle.technique,
             entangle'.next = entangle.next + 1, entangle'.findings = entangle.findings,
             entangle.pc \in {"poison", "confirm"}, ~Poisonable(Entanglement!Current)
      PROVE  TechniquesTried' /\ NoneSkipped' /\ PoisonLands'
  <2>1. TechniquesTried'
    BY <1>1, <1>3, <1>e DEF TechniquesTried
  <2>2. \A i \in 1 .. entangle.next : ~Poisonable(Entanglement!Listed[i])
    BY <1>1, <1>3, <1>a DEF NoneSkipped, Entanglement!Current
  <2>3. Entanglement!Listed' = Entanglement!Listed
    BY <1>3 DEF Entanglement!Listed, Entanglement!Techniques
  <2>4. NoneSkipped'
    BY <1>a, <1>d, <1>3, <2>2, <2>3 DEF NoneSkipped
  <2>. QED  BY <1>3, <2>1, <2>4 DEF PoisonLands
<1>4. CASE Entanglement!Attempt
  <2>1. entangle.pc = "pick" /\ store' = store
    BY <1>4 DEF Entanglement!Attempt, Entanglement!At, Entanglement!environment
  <2>2. entangle' = [entangle EXCEPT !.pc = "poison", !.token = @ + 1]
    BY <1>4, <1>b DEF Entanglement!Attempt, Entanglement!Fault
  <2>3. /\ entangle'.pc = "poison" /\ entangle'.token = entangle.token + 1 /\ entangle'.next = entangle.next
        /\ entangle'.technique = entangle.technique /\ entangle'.findings = entangle.findings
        /\ entangle'.budget = entangle.budget
    BY <1>a, <2>2
  <2>4. Unspent
    BY <1>a, <2>3, UnspentBefore
  <2>5. Entanglement!Listed' = Entanglement!Listed
    BY <2>3 DEF Entanglement!Listed, Entanglement!Techniques
  <2>6. NoneSkipped'
    BY <1>1, <1>d, <2>1, <2>3, <2>4, <2>5 DEF NoneSkipped
  <2>7. \A key \in DOMAIN store : ~(key.token = <<"entangle", entangle'.token>>)
    BY <1>a, <2>3, <2>4, TokensAreOld DEF Unspent
  <2>8. PoisonLands'
    BY <2>1, <2>3, <2>7 DEF PoisonLands, Own
  <2>9. TechniquesTried'
    BY <1>1, <1>e, <2>3, <2>4 DEF TechniquesTried
  <2>. QED  BY <2>6, <2>8, <2>9
<1>5. CASE Entanglement!PoisonRequest
  <2>1. entangle.pc = "poison" /\ Ask(OwnPoison)
    BY <1>5, <1>b, EntanglementRequests, EntanglementTarget DEF Entanglement!PoisonRequest, Entanglement!At, Lose, Fault
  <2>2. entangle' = IF Body(OwnPoison).shows \notin Hidden THEN Entanglement!NextAttempt(Entanglement!Paid)
                    ELSE IF Entanglement!Paid.budget < 1 THEN Entanglement!NextTechnique(Entanglement!Paid)
                    ELSE [Entanglement!Paid EXCEPT !.pc = "confirm"]
    BY <1>5, <1>b, EntanglementRequests, EntanglementTarget
       DEF Entanglement!PoisonRequest, Entanglement!Reflected, Entanglement!Hidden, Hidden,
           Entanglement!ElementsOf, ElementsOf, Entanglement!Lose, Entanglement!Fault
  <2>3. entangle'.budget = entangle.budget - 1 /\ entangle'.findings = entangle.findings
    BY <1>a, <2>2 DEF Entanglement!NextAttempt, Entanglement!NextTechnique, Entanglement!Paid
  <2>4. Unspent /\ entangle.budget - 1 > 0
    BY <1>a, <2>3, UnspentBefore DEF Unspent
  <2>5. Entanglement!Current \in Hidden /\ ~Hit(OwnPoison)
    <3>1. entangle.next <= Len(Entanglement!Listed)
      BY <2>1 DEF Budgeted, EntanglementBudgeted
    <3>2. KeyOf(OwnPoison).token = <<"entangle", entangle.token>>
      BY <2>4, KeyIs, EntanglementRequests DEF Unspent
    <3>. QED  BY <1>1, <2>1, <2>4, <3>1, <3>2, CurrentIsHidden DEF PoisonLands, Own, Hit
  <2>6. Poisonable(Entanglement!Current) => Body(OwnPoison).shows = Entanglement!Current
    BY <2>5, ProducedForOwn DEF Body, Poisonable
  <2>7. CASE Body(OwnPoison).shows \notin Hidden
    <3>1. ~Poisonable(Entanglement!Current)
      BY <2>5, <2>6, <2>7
    <3>2. /\ entangle'.pc = "pick" /\ entangle'.technique = entangle.technique
          /\ entangle'.next = entangle.next + 1
      BY <1>a, <2>2, <2>7 DEF Entanglement!NextAttempt, Entanglement!Paid
    <3>. QED  BY <1>3, <2>1, <2>3, <2>4, <3>1, <3>2
  <2>8. CASE Body(OwnPoison).shows \in Hidden
    <3>1. entangle' = [Entanglement!Paid EXCEPT !.pc = "confirm"]
      BY <1>a, <2>2, <2>4, <2>8 DEF Entanglement!Paid
    <3>2. /\ entangle'.pc = "confirm" /\ entangle'.technique = entangle.technique
          /\ entangle'.next = entangle.next /\ entangle'.token = entangle.token
      BY <1>a, <3>1 DEF Entanglement!Paid
    <3>3. Entanglement!Listed' = Entanglement!Listed /\ Entanglement!Current' = Entanglement!Current
      BY <3>2 DEF Entanglement!Listed, Entanglement!Techniques, Entanglement!Current
    <3>4. TechniquesTried' /\ NoneSkipped'
      BY <1>1, <1>d, <1>e, <2>1, <2>3, <2>4, <3>2, <3>3 DEF TechniquesTried, NoneSkipped
    <3>5. Poisonable(Entanglement!Current) => Planted'
      <4>. SUFFICES ASSUME Poisonable(Entanglement!Current) PROVE Planted'
        OBVIOUS
      <4>1. Produced(OwnPoison).shows = Entanglement!Current /\ Produced(OwnPoison).what = "page"
        BY <2>4, ProducedForOwn, PageIs DEF Unspent, Poisonable
      <4>2. Ok(Produced(OwnPoison))
        BY <2>5, <4>1, Constants DEF Ok
      <4>3. KeyOf(OwnPoison) = OwnKey /\ OwnKey' = OwnKey
        BY <2>4, <3>2, OwnKeyIs DEF Unspent, Poisonable, OwnKey, Direct, Plain
      <4>4. store' \in After(OwnPoison) /\ Direct \in site.stores
        BY <2>1, <2>4 DEF Ask, Unspent
      <4>5. OwnKey \in DOMAIN store' /\ store'[OwnKey] = Produced(OwnPoison)
        BY <2>5, <4>2, <4>3, <4>4, AfterStores, EntanglementRequests
      <4>. QED  BY <2>5, <4>1, <4>3, <4>5 DEF Planted, Hidden, ElementsOf
    <3>. QED  BY <1>d, <3>2, <3>3, <3>4, <3>5 DEF PoisonLands
  <2>. QED  BY <2>7, <2>8
<1>6. CASE Entanglement!ConfirmRequest
  <2>. DEFINE more == [Entanglement!Paid EXCEPT !.findings = @ \cup {Entanglement!Current}]
  <2>1. entangle.pc = "confirm" /\ Ask(OwnConfirm)
    BY <1>6, <1>b, EntanglementRequests, EntanglementTarget DEF Entanglement!ConfirmRequest, Entanglement!At, Lose, Fault
  <2>2. entangle' = IF Body(OwnConfirm).shows \notin Hidden THEN Entanglement!NextAttempt(Entanglement!Paid)
                    ELSE Entanglement!NextTechnique(more)
    BY <1>6, <1>b, EntanglementRequests, EntanglementTarget
       DEF Entanglement!ConfirmRequest, Entanglement!Reflected, Entanglement!Hidden, Hidden,
           Entanglement!ElementsOf, ElementsOf, Entanglement!Lose, Entanglement!Fault
  <2>3. entangle'.budget = entangle.budget - 1
    BY <1>a, <2>2 DEF Entanglement!NextAttempt, Entanglement!NextTechnique, Entanglement!Paid
  <2>4. Unspent
    BY <1>a, <2>3, UnspentBefore
  <2>5. CASE Body(OwnConfirm).shows \notin Hidden
    <3>1. ~Poisonable(Entanglement!Current)
      BY <1>1, <2>1, <2>4, <2>5, OwnKeyIs DEF PoisonLands, Planted, Hit, Body, Unspent
    <3>2. /\ entangle'.pc = "pick" /\ entangle'.technique = entangle.technique
          /\ entangle'.next = entangle.next + 1 /\ entangle'.findings = entangle.findings
      BY <1>a, <2>2, <2>5 DEF Entanglement!NextAttempt, Entanglement!Paid
    <3>. QED  BY <1>3, <2>1, <2>4, <3>1, <3>2
  <2>6. CASE Body(OwnConfirm).shows \in Hidden
    <3>1. entangle' = Entanglement!NextTechnique(more)
      BY <2>2, <2>6
    <3>2. more.technique = entangle.technique /\ more.findings = entangle.findings \cup {Entanglement!Current}
      BY <1>a DEF Entanglement!Paid
    <3>3. entangle'.findings = entangle.findings \cup {Entanglement!Current}
      BY <1>a, <3>1 DEF Entanglement!NextTechnique, Entanglement!Paid
    <3>4. ASSUME NEW technique, technique = entangle.technique PROVE Tried(technique)'
      <4>. SUFFICES ASSUME NEW i \in 1 .. Len(Entanglement!Techniques[technique]),
                           Poisonable(Entanglement!Techniques[technique][i])
           PROVE  \E j \in 1 .. i : Entanglement!Techniques[technique][j] \in entangle'.findings
        BY <1>d DEF Tried, Entanglement!Techniques
      <4>1. ~(i \in 1 .. entangle.next - 1)
        BY <1>1, <1>c, <2>1, <2>4, <3>4 DEF NoneSkipped
      <4>2. entangle.next \in 1 .. i
        BY <1>a, <1>c, <4>1
      <4>. QED  BY <1>c, <3>3, <3>4, <4>2 DEF Entanglement!Current
    <3>5. CASE entangle.technique = 1
      <4>1. entangle'.pc = "pick" /\ entangle'.technique = 2 /\ entangle'.next = 1
        BY <1>a, <1>c, <3>1, <3>5 DEF Entanglement!NextTechnique, Entanglement!Paid
      <4>. QED  BY <3>4, <3>5, <4>1 DEF TechniquesTried, NoneSkipped, PoisonLands
    <3>6. CASE entangle.technique = 2
      <4>1. entangle'.pc = "done" /\ entangle'.technique = 2
        BY <1>a, <1>c, <3>1, <3>6 DEF Entanglement!NextTechnique, Entanglement!Paid
      <4>2. IsGet => Tried(1)'
        BY <1>1, <1>e, <2>4, <3>3, <3>6 DEF TechniquesTried
      <4>. QED  BY <3>4, <3>6, <4>1, <4>2 DEF TechniquesTried, NoneSkipped, PoisonLands
    <3>. QED  BY <1>a, <3>5, <3>6
  <2>. QED  BY <2>5, <2>6
<1>7. CASE ~Entanglement!Next
  <2>1. /\ entangle' = entangle
        /\ \A key \in DOMAIN store' :
              Stays(key) \/ \E r : Enters(r, key) /\ r.token # <<"entangle", entangle.token>>
    BY <1>7, OthersEntanglement
  <2>2. Entanglement!Current' = Entanglement!Current /\ Entanglement!Listed' = Entanglement!Listed
        /\ OwnKey' = OwnKey
    BY <2>1 DEF Entanglement!Current, Entanglement!Listed, Entanglement!Techniques, OwnKey, Direct, Plain
  <2>3. Unspent
    BY <1>a, <2>1, UnspentBefore
  <2>4. TechniquesTried' /\ NoneSkipped'
    BY <1>1, <1>d, <1>e, <2>1, <2>2, <2>3 DEF TechniquesTried, NoneSkipped
  <2>5. Planted => Planted'
    BY <1>b, <2>2, <2>3, EntriesStay DEF Planted, Unspent, Untroubled, Hidden, ElementsOf
  <2>6. entangle.pc = "poison" => \A key \in DOMAIN store' : key.token # <<"entangle", entangle.token>>
    <3>. SUFFICES ASSUME entangle.pc = "poison", NEW key \in DOMAIN store'
         PROVE  key.token # <<"entangle", entangle.token>>
      OBVIOUS
    <3>1. CASE Stays(key)
      BY <1>1, <2>3, <3>1 DEF PoisonLands, Own, Stays
    <3>2. CASE \E r : Enters(r, key) /\ r.token # <<"entangle", entangle.token>>
      BY <2>3, <3>2, KeyIs DEF Enters, Unspent
    <3>. QED  BY <2>1, <3>1, <3>2
  <2>7. PoisonLands'
    BY <1>1, <1>d, <2>1, <2>2, <2>3, <2>5, <2>6 DEF PoisonLands, Own
  <2>. QED  BY <2>4, <2>7
<1>. QED  BY <1>2, <1>4, <1>5, <1>6, <1>7 DEF Entanglement!Next

\* With every technique tried, what is poisonable is found.
LEMMA NonePassedOverMeans == TypeOK /\ NonePassedOver => EntanglementFindsAll
<1>. SUFFICES ASSUME TypeOK, Unspent, TechniquesTried, entangle.pc = "done"
     PROVE  \A listed \in {IF IsGet THEN FatBodies ELSE <<>>, Cloaked} : \A i \in 1 .. Len(listed) :
               listed[i] \in site.reads \ site.keys => \E j \in 1 .. i : listed[j] \in entangle.findings
  BY DEF NonePassedOver, EntanglementFindsAll, Unspent, Untroubled
<1>1. (IsGet => Tried(1)) /\ Tried(2)
  BY DEF TechniquesTried
<1>2. Entanglement!Techniques[1] = FatBodies /\ Entanglement!Techniques[2] = Cloaked
  BY DEF Entanglement!Techniques
<1>3. Len(<<>>) = 0
  OBVIOUS
<1>4. ASSUME NEW i \in 1 .. Len(Cloaked), Cloaked[i] \in site.reads \ site.keys
      PROVE  \E j \in 1 .. i : Cloaked[j] \in entangle.findings
  BY <1>1, <1>2, <1>4 DEF Tried, Poisonable
<1>5. ASSUME IsGet, NEW i \in 1 .. Len(FatBodies), FatBodies[i] \in site.reads \ site.keys
      PROVE  \E j \in 1 .. i : FatBodies[j] \in entangle.findings
  BY <1>1, <1>2, <1>5 DEF Tried, Poisonable
<1>. QED  BY <1>3, <1>4, <1>5, ResourceScanAssumption

-----------------------------------------------------------------------------
(* Key collision *)

\* While a catch-all origin does not change, it answers every stray request alike.
LEMMA StrayIsPage ==
    TypeOK /\ Accounted /\ site.loose /\ content = 0 => \A r : KeyCollisionSends(r) => Body(r) = Page
<1>. SUFFICES ASSUME TypeOK, Accounted, site.loose, content = 0, NEW r, KeyCollisionSends(r)
     PROVE  Body(r) = Page
  OBVIOUS
<1>1. r.extra = Plain /\ r.to # 0 /\ ServesPage(r)
  BY DEF KeyCollisionSends, Bare, ServesPage
<1>2. Body(r) \in Bodies /\ Page \in Bodies
  BY BodyIs, PageIs
<1>3. CASE Hit(r)
  <2>1. PICK q : CameFrom(q, KeyOf(r))
    BY <1>3 DEF Accounted, Hit
  <2>2. q.extra = Plain /\ ServesPage(q)
    BY <1>1, <2>1, SentIs, KeyIs DEF CameFrom, KeptUnder, Bare, ServesPage
  <2>3. store[KeyOf(r)].what = Page.what /\ store[KeyOf(r)].shows = Plain /\ store[KeyOf(r)].version = 0
    BY <2>1, <2>2, PageProduced, SiteIs DEF CameFrom
  <2>. QED  BY <1>2, <1>3, <2>3, PageIs, BodiesAre DEF Body
<1>4. CASE ~Hit(r)
  <2>1. Produced(r).what = Page.what /\ Produced(r).shows = Plain /\ Produced(r).version = 0
    BY <1>1, PageProduced, SiteIs
  <2>. QED  BY <1>2, <1>4, <2>1, PageIs, BodiesAre DEF Body
<1>. QED  BY <1>3, <1>4

\* What a stray path is answered 2xx is what a detour to it left in the cache.
LEMMA StrayWasPoisoned ==
    TypeOK /\ Accounted /\ ~site.loose =>
        \A r : KeyCollisionSends(r) /\ r.way = Direct /\ Ok(Body(r)) =>
            \E way \in Detours : way \in site.collapses \cap site.assets \cap site.stores
<1>. SUFFICES ASSUME TypeOK, Accounted, ~site.loose, NEW r, KeyCollisionSends(r), r.way = Direct, Ok(Body(r))
     PROVE  \E way \in Detours : way \in site.collapses \cap site.assets \cap site.stores
  OBVIOUS
<1>1. r.to # 0 /\ ~ServesPage(r) /\ Direct \notin site.assets /\ Direct \notin site.collapses
  BY SiteIs DEF KeyCollisionSends, ServesPage
<1>2. Hit(r)
  <2>1. Produced(r).what = "missing"
    BY <1>1, OtherProduced
  <2>. QED  BY <2>1 DEF Body, Ok
<1>3. PICK q : CameFrom(q, KeyOf(r))
  BY <1>2 DEF Accounted, Hit
<1>4. q.to # 0 /\ Keyed(q.way) = Direct /\ q.way \in {Direct} \cup Detours
  BY <1>1, <1>3, SentIs, KeyIs DEF CameFrom, KeptUnder, Keyed
<1>5. Produced(q).what # "missing" /\ ~ServesPage(q)
  BY <1>3, <1>4 DEF CameFrom, Ok, ServesPage
<1>6. q.way \in site.assets /\ q.way \in site.stores
  BY <1>3, <1>5, OtherProduced DEF CameFrom
<1>7. q.way # Direct /\ q.way \in site.collapses
  BY <1>1, <1>4, <1>6 DEF Keyed
<1>. QED  BY <1>4, <1>6, <1>7

\* KeyCollisionInv: a poisoned answer has to come from an asset.
LEMMA StillKeyCollisionInv ==
    TypeOK /\ Budgeted /\ Accounted /\ KeyCollisionInv /\ [Next]_vars => KeyCollisionInv'
<1>. SUFFICES ASSUME TypeOK, Budgeted, Accounted, KeyCollisionInv, [Next]_vars PROVE KeyCollisionInv'
  OBVIOUS
<1>. DEFINE Poisoning == \E way \in Detours : way \in site.collapses \cap site.assets \cap site.stores
<1>a. site' = site /\ (content' = 0 => content = 0) /\ (content' = content => Page' = Page)
      /\ (Detours' = Detours) /\ content \in Nat /\ content' \in Nat
  BY EnvironmentTyped, Constants DEF TypeOK, EnvironmentTypeOK, Page, Detours, ElementsOf, Plain
<1>b. collide \in [pc : {"off", "missing", "pick", "poison", "confirm", "done"},
                   prefix : 1 .. Prefixes, form : 1 .. Len(Collisions), budget : 0 .. MaxRequests,
                   victim : 1 .. MaxRequests + 1, missing : Bodies, poisoned : Bodies, found : BOOLEAN]
  BY DEF TypeOK, KeyCollisionTypeOK
<1>c. /\ collide.found /\ (site.loose => content = 0) => Poisoning
      /\ collide.pc = "confirm" => Ok(collide.poisoned)
      /\ site.loose /\ content = 0 =>
            /\ collide.pc \in {"pick", "poison"} => collide.missing = Page
            /\ collide.pc # "confirm" /\ ~collide.found
  BY DEF KeyCollisionInv
<1>. SUFFICES /\ collide'.found /\ (site.loose => content' = 0) => Poisoning
              /\ collide'.pc = "confirm" => Ok(collide'.poisoned)
              /\ site.loose /\ content' = 0 =>
                    /\ collide'.pc \in {"pick", "poison"} => collide'.missing = Page
                    /\ collide'.pc # "confirm" /\ ~collide'.found
  BY <1>a DEF KeyCollisionInv, Ok
<1>. HIDE DEF Poisoning
<1>d. KeyCollision!Ok(collide.poisoned) <=> Ok(collide.poisoned)
  BY KeyCollisionTarget
<1>1. CASE KeyCollision!TooFew
  <2>1. collide' = [collide EXCEPT !.pc = "done"]
    BY <1>1 DEF KeyCollision!TooFew, KeyCollision!Ended
  <2>2. collide'.pc = "done" /\ collide'.found = collide.found
    BY <1>b, <2>1
  <2>. QED  BY <1>a, <1>c, <2>2
<1>2. CASE KeyCollision!MissingRequest
  <2>1. \/ Ask(KeyCollision!Stray(collide.victim)) /\ collide'.pc = "pick" /\ collide'.found = collide.found
           /\ collide'.missing = Body(KeyCollision!Stray(collide.victim))
        \/ collide' = collide
        \/ collide'.pc = "done" /\ collide'.found = collide.found
    BY <1>b, <1>2, KeyCollisionTarget DEF KeyCollision!MissingRequest, KeyCollision!Ended
  <2>2. site.loose /\ content = 0 => Body(KeyCollision!Stray(collide.victim)) = Page
    BY StrayIsPage, KeyCollisionRequests
  <2>. QED  BY <1>a, <1>c, <2>1, <2>2
<1>3. CASE KeyCollision!Attempt
  <2>1. /\ collide'.pc \in {"poison", "done"} /\ collide'.found = collide.found
        /\ collide'.missing = collide.missing /\ collide.pc = "pick"
    BY <1>b, <1>3 DEF KeyCollision!Attempt, KeyCollision!Ended, KeyCollision!At
  <2>. QED  BY <1>a, <1>c, <2>1
<1>e. LET next == KeyCollision!NextVariant(collide)
      IN  next.pc \in {"pick", "done"} /\ next.found = collide.found /\ next.missing = collide.missing
  BY <1>b DEF KeyCollision!NextVariant
<1>4. CASE KeyCollision!PoisonRequest
  <2>1. collide.pc = "poison"
        /\ \/ /\ KeyCollision!Poisons(Body(KeyCollision!Poison))
              /\ collide' = [collide EXCEPT !.pc = "confirm", !.poisoned = Body(KeyCollision!Poison)]
           \/ collide' = collide
           \/ collide' = KeyCollision!NextVariant(collide)
    BY <1>4, KeyCollisionTarget DEF KeyCollision!PoisonRequest, KeyCollision!At
  <2>2. CASE /\ KeyCollision!Poisons(Body(KeyCollision!Poison))
             /\ collide' = [collide EXCEPT !.pc = "confirm", !.poisoned = Body(KeyCollision!Poison)]
    <3>1. Ok(Body(KeyCollision!Poison)) /\ Body(KeyCollision!Poison) # collide.missing
      BY <2>2, KeyCollisionTarget DEF KeyCollision!Poisons
    <3>2. collide'.pc = "confirm" /\ collide'.poisoned = Body(KeyCollision!Poison) /\ collide'.found = collide.found
      BY <1>b, <2>2
    <3>3. ~(site.loose /\ content = 0)
      BY <1>c, <2>1, <3>1, StrayIsPage, KeyCollisionRequests
    <3>. QED  BY <1>a, <1>c, <3>1, <3>2, <3>3
  <2>3. CASE collide' = collide
    BY <1>a, <1>c, <2>3
  <2>4. CASE collide' = KeyCollision!NextVariant(collide)
    BY <1>a, <1>c, <1>e, <2>1, <2>4
  <2>. QED  BY <2>1, <2>2, <2>3, <2>4
<1>5. CASE KeyCollision!ConfirmRequest
  <2>1. collide.pc = "confirm"
        /\ \/ Body(KeyCollision!Confirm) = collide.poisoned /\ collide'.pc = "done" /\ collide'.found = TRUE
           \/ collide' = collide
           \/ collide' = KeyCollision!NextVariant(collide)
    BY <1>b, <1>5, KeyCollisionTarget DEF KeyCollision!ConfirmRequest, KeyCollision!At, KeyCollision!Ended
  <2>2. ~(site.loose /\ content = 0)
    BY <1>c, <2>1
  <2>3. Body(KeyCollision!Confirm) = collide.poisoned => site.loose \/ Poisoning
    <3>1. KeyCollision!Confirm = [Request EXCEPT !.to = collide.victim] /\ KeyCollisionSends(KeyCollision!Confirm)
      BY KeyCollisionRequests
    <3>2. KeyCollision!Confirm.way = Direct
      BY <3>1 DEF Request
    <3>. QED  BY <1>c, <2>1, <3>1, <3>2, StrayWasPoisoned DEF Poisoning
  <2>. QED  BY <1>a, <1>c, <1>e, <2>1, <2>2, <2>3
<1>6. CASE ~KeyCollision!Next
  <2>1. collide' = collide
    BY <1>6, Movers DEF checks
  <2>. QED  BY <1>a, <1>c, <2>1
<1>. QED  BY <1>1, <1>2, <1>3, <1>4, <1>5, <1>6 DEF KeyCollision!Next

-----------------------------------------------------------------------------
(* Deception *)

\* What answers the resource's own path is its page.
LEMMA ResourceIsPage ==
    TypeOK /\ Accounted /\ (site.loose \/ Honest) =>
        \A r : r.to = 0 /\ r.way = Direct /\ (site.exists \/ Body(r).what # "missing") =>
            Body(r).what = "page" /\ site.exists
<1>. SUFFICES ASSUME TypeOK, Accounted, site.loose \/ Honest, NEW r, r.to = 0, r.way = Direct,
                     site.exists \/ Body(r).what # "missing"
     PROVE  Body(r).what = "page" /\ site.exists
  OBVIOUS
<1>1. CASE Hit(r)
  <2>1. KeyOf(r).to = 0 /\ KeyOf(r).way = Direct
    BY KeyIs DEF Keyed
  <2>. QED  BY <1>1, <2>1, DirectIsPage DEF Hit, Body
<1>2. CASE ~Hit(r)
  <2>1. Produced(r).what = Page.what
    BY PageProduced DEF ServesPage
  <2>. QED  BY <1>2, <2>1, PageIs DEF Body
<1>. QED  BY <1>1, <1>2

\* Where the origin does not lead to the page no answer is the page.
LEMMA ElsewhereIsNoPage ==
    TypeOK /\ Accounted /\ Honest /\ ~site.loose =>
        \A r : r.to = 0 /\ r.way # Direct /\ r.way \notin site.follows => Body(r).what # "page"
<1>. SUFFICES ASSUME TypeOK, Accounted, Honest, ~site.loose, NEW r, r.to = 0, r.way # Direct,
                     r.way \notin site.follows
     PROVE  Body(r).what # "page"
  OBVIOUS
<1>1. CASE Hit(r)
  <2>1. KeyOf(r).to = 0 /\ KeyOf(r).way = r.way
    BY KeyIs DEF Keyed, Honest
  <2>. QED  BY <1>1, <2>1, ElsewhereIsAsset DEF Hit, Body
<1>2. CASE ~Hit(r)
  BY <1>2, OtherProduced DEF Body, ServesPage
<1>. QED  BY <1>1, <1>2

\* DeceptionInv: a suffix that gives the page is one the origin follows.
LEMMA StillDeceptionInv ==
    TypeOK /\ Budgeted /\ Accounted /\ DeceptionInv /\ [Next]_vars => DeceptionInv'
<1>. SUFFICES ASSUME TypeOK, Budgeted, Accounted, DeceptionInv, [Next]_vars PROVE DeceptionInv'
  OBVIOUS
<1>a. site' = site
  BY EnvironmentTyped
<1>b. deception \in [pc : {"off", "base", "suffix", "error", "split", "done"},
                     next : 1 .. Len(Suffixes) + 1, budget : 0 .. MaxRequests, base : Bodies,
                     suffixes : SUBSET (1 .. Len(Suffixes)), cachesErrors : BOOLEAN, splits : BOOLEAN]
  BY DEF TypeOK, DeceptionTypeOK
<1>. SUFFICES ASSUME Honest, site.exists, ~site.loose
     PROVE  /\ deception'.pc = "suffix" => deception'.base.what = "page"
            /\ \A n \in deception'.suffixes : <<"suffix", n>> \in site.follows
  BY <1>a DEF DeceptionInv, Honest
<1>c. /\ deception.pc = "suffix" => deception.base.what = "page"
      /\ \A n \in deception.suffixes : <<"suffix", n>> \in site.follows
  BY DEF DeceptionInv
<1>1. CASE Deception!BaseRequest
  <2>1. \/ deception'.base = Body(Request) /\ deception'.suffixes = deception.suffixes
        \/ deception' = deception
        \/ deception'.pc = "error" /\ deception'.suffixes = deception.suffixes
    BY <1>1, <1>b, DeceptionTarget DEF Deception!BaseRequest
  <2>2. Body(Request).what = "page"
    BY ResourceIsPage, RequestIs
  <2>. QED  BY <1>c, <2>1, <2>2
<1>2. CASE Deception!SuffixRequest
  <2>. DEFINE n == deception.next
              probe == [Request EXCEPT !.way = <<"suffix", n>>]
              tried == [deception EXCEPT !.next = n + 1, !.budget = @ - 1]
  <2>1. /\ deception.pc = "suffix" /\ Deception!Suffixed(n) = probe
        /\ \/ Body(probe) = deception.base /\ deception' = [tried EXCEPT !.suffixes = @ \cup {n}]
           \/ deception' \in {deception, tried}
    BY <1>2, DeceptionTarget DEF Deception!SuffixRequest, Deception!At, Deception!Suffixed, Deception!Deceives
  <2>2. Body(probe) = deception.base => <<"suffix", n>> \in site.follows
    <3>1. probe.to = 0 /\ probe.way = <<"suffix", n>> /\ probe.way # Direct
      BY Variants DEF Direct
    <3>2. deception.base.what = "page"
      BY <1>c, <2>1
    <3>. HIDE DEF probe
    <3>3. <<"suffix", n>> \notin site.follows => Body(probe).what # "page"
      BY <3>1, ElsewhereIsNoPage
    <3>. QED  BY <3>2, <3>3
  <2>3. /\ tried.base = deception.base /\ tried.suffixes = deception.suffixes /\ tried.pc = deception.pc
        /\ LET more == [tried EXCEPT !.suffixes = @ \cup {n}]
           IN  more.base = deception.base /\ more.suffixes = deception.suffixes \cup {n}
    BY <1>b
  <2>. QED  BY <1>c, <2>1, <2>2, <2>3
<1>3. CASE Deception!SuffixesTried \/ Deception!ErrorRequest \/ Deception!SplitRequest
  <2>1. deception'.suffixes = deception.suffixes /\ (deception' = deception \/ deception'.pc # "suffix")
    BY <1>b, <1>3, ZenonT(30) DEF Deception!SuffixesTried, Deception!ErrorRequest, Deception!SplitRequest
  <2>. QED  BY <1>c, <2>1
<1>4. CASE ~Deception!Next
  BY <1>4, <1>c, Movers DEF checks
<1>. QED  BY <1>1, <1>2, <1>3, <1>4 DEF Deception!Next

-----------------------------------------------------------------------------
(* Normalization *)

\* What its requests are stored under.
LEMMA WalkKeyIs ==
    TypeOK => /\ \A way : KeyOf(Walk(way)) = WalkKey(way)
              /\ Walk(Direct) = Request
<1>. SUFFICES ASSUME TypeOK PROVE (\A way : KeyOf(Walk(way)) = WalkKey(way)) /\ Walk(Direct) = Request
  OBVIOUS
<1>1. ASSUME NEW way PROVE KeyOf(Walk(way)) = WalkKey(way)
  <2>1. Walk(way).to = 0 /\ Walk(way).way = way /\ Walk(way).token = NoToken /\ Walk(way).value = 0
        /\ Walk(way).extra = Plain
    BY Variants DEF Walk
  <2>2. ValueKey(Walk(way)) = 0
    BY <2>1, ValueIs
  <2>. QED  BY <2>1, <2>2 DEF KeyOf, WalkKey, Keyed
<1>2. Walk(Direct) = Request
  BY DEF Walk, Request
<1>. QED  BY <1>1, <1>2

\* The requests of the normalization check.
LEMMA NormalizationRequests ==
    TypeOK => /\ Normalization!Control = Walk(Beside)
              /\ Normalization!Detour = Walk(<<Forms[normalize.form], normalize.prefix>>)
              /\ \A way : Walk(way).to = 0 /\ Walk(way).way = way /\ Walk(way).token = NoToken
                          /\ Walk(way).value = 0 /\ Walk(way).extra = Plain
BY NormalizationDetour, Variants DEF Walk

\* A way around that is not resolved has an entry of its own.
LEMMA ApartWays ==
    TypeOK => \A way \in {Beside} \cup Detours : way \notin site.collapses =>
        \A r : r.to = 0 /\ KeyOf(r).way = WalkKey(way).way => r.way = way
<1>1. Direct \notin {Beside} \cup Detours
  BY TargetAssumption DEF Direct, Beside, Detours
<1>. QED  BY <1>1, KeyIs DEF WalkKey, Keyed

\* The control is no detour.
LEMMA BesideIsNoDetour == Beside \notin Detours
BY TargetAssumption DEF Beside, Detours

\* How the check goes on, for what it compares.
LEMMA NormalizationSteps ==
    ASSUME TypeOK, Normalization!Next
    PROVE
        \/ normalize'.pc = "done" /\ normalize'.found = normalize.found /\ normalize'.high = normalize.high
        \/ UNCHANGED normalize /\ normalize.pc = "base" /\ Answered(Request)
        \/ UNCHANGED normalize /\ normalize.pc = "control" /\ Answered(Walk(Beside))
        \/ UNCHANGED normalize /\ normalize.pc \in {"sweep", "repeat"}
        \/ /\ normalize.pc = "base" /\ Ask(Request) /\ Ok(Body(Request))
           /\ normalize'.pc = "control" /\ normalize'.base = Body(Request)
           /\ normalize'.found = normalize.found /\ normalize'.high = normalize.high
        \/ /\ normalize.pc = "control" /\ Ask(Walk(Beside)) /\ Body(Walk(Beside)) # normalize.base
           /\ normalize'.pc = "sweep" /\ normalize'.base = normalize.base
           /\ normalize'.found = normalize.found /\ normalize'.high = normalize.high
        \/ /\ normalize.pc = "sweep" /\ Body(Normalization!Detour) = normalize.base
           /\ normalize'.pc \in {"sweep", "repeat", "done"} /\ normalize'.base = normalize.base
           /\ normalize'.found = normalize.found \cup {Forms[normalize.form]}
           /\ normalize'.high = normalize.high
           /\ normalize'.pc = "repeat" => normalize'.form = normalize.form /\ normalize'.prefix = normalize.prefix
        \/ /\ normalize.pc = "repeat" /\ State(Normalization!Detour) = "HIT"
           /\ normalize'.pc \in {"sweep", "done"} /\ normalize'.base = normalize.base
           /\ normalize'.found = normalize.found
           /\ normalize'.high = normalize.high \cup {Forms[normalize.form]}
        \/ /\ normalize.pc \in {"sweep", "repeat"} /\ normalize'.pc \in {"sweep", "done"}
           /\ normalize'.base = normalize.base
           /\ normalize'.found = normalize.found /\ normalize'.high = normalize.high
<1>. DEFINE States == [pc : {"off", "base", "control", "sweep", "repeat", "done"},
                       prefix : 1 .. Prefixes, form : 1 .. Len(Forms), budget : 0 .. MaxRequests,
                       base : Bodies, found : SUBSET ElementsOf(Forms), high : SUBSET ElementsOf(Forms)]
<1>a. normalize \in States
  BY DEF TypeOK, NormalizationTypeOK
<1>b. LET ended == Normalization!Ended
          paid == Normalization!Paid
      IN  /\ ended.pc = "done" /\ ended.found = normalize.found /\ ended.high = normalize.high
          /\ paid.found = normalize.found /\ paid.high = normalize.high /\ paid.base = normalize.base
          /\ paid.form = normalize.form /\ paid.prefix = normalize.prefix /\ paid.pc = normalize.pc
  BY <1>a DEF Normalization!Ended, Normalization!Paid
<1>1. CASE Normalization!TooFew \/ Normalization!OutOfBudget
  BY <1>1, <1>b DEF Normalization!TooFew, Normalization!OutOfBudget
<1>2. CASE Normalization!BaseRequest
  <2>1. normalize.pc = "base"
        /\ \/ /\ Ask(Request)
              /\ normalize' = IF Normalization!WorthDeceiving(Reply(Request))
                              THEN [Normalization!Paid EXCEPT !.pc = "control", !.base = Body(Request)]
                              ELSE Normalization!Ended
           \/ Lose(Request) /\ normalize' \in {normalize, Normalization!Ended}
    BY <1>2, NormalizationTarget DEF Normalization!BaseRequest, Normalization!At
  <2>2. Normalization!WorthDeceiving(Reply(Request)) => Ok(Body(Request))
    BY NormalizationTarget DEF Normalization!WorthDeceiving, Reply
  <2>3. LET more == [Normalization!Paid EXCEPT !.pc = "control", !.base = Body(Request)]
        IN  /\ more.pc = "control" /\ more.base = Body(Request)
            /\ more.found = normalize.found /\ more.high = normalize.high
    BY <1>a DEF Normalization!Paid
  <2>. QED  BY <1>b, <2>1, <2>2, <2>3, AskedIsAnswered
<1>3. CASE Normalization!ControlRequest
  <2>1. normalize.pc = "control"
        /\ \/ /\ Ask(Walk(Beside))
              /\ normalize' = IF Body(Walk(Beside)) = normalize.base THEN Normalization!Ended
                              ELSE [Normalization!Paid EXCEPT !.pc = "sweep"]
           \/ Lose(Walk(Beside)) /\ normalize' \in {normalize, Normalization!Ended}
    BY <1>3, NormalizationTarget, NormalizationRequests
       DEF Normalization!ControlRequest, Normalization!At, Normalization!RoutedLoosely
  <2>2. LET more == [Normalization!Paid EXCEPT !.pc = "sweep"]
        IN  /\ more.pc = "sweep" /\ more.base = normalize.base
            /\ more.found = normalize.found /\ more.high = normalize.high
    BY <1>a DEF Normalization!Paid
  <2>. QED  BY <1>b, <2>1, <2>2, AskedIsAnswered
<1>4. CASE Normalization!SkipFound
  BY <1>a, <1>4 DEF Normalization!SkipFound, Normalization!At, Normalization!NextDetour
<1>5. CASE Normalization!DetourRequest
  <2>. DEFINE found == [Normalization!Paid EXCEPT !.found = @ \cup {Normalization!Form}]
  <2>1. normalize.pc = "sweep"
        /\ \/ normalize' = Normalization!NextDetour(Normalization!Paid)
           \/ Body(Normalization!Detour) = normalize.base /\ normalize' = [found EXCEPT !.pc = "repeat"]
           \/ Body(Normalization!Detour) = normalize.base /\ normalize' = Normalization!NextDetour(found)
           \/ normalize' = normalize
    BY <1>5, NormalizationTarget DEF Normalization!DetourRequest, Normalization!At
  <2>2. Normalization!Form = Forms[normalize.form]
    BY DEF Normalization!Form
  <2>3. LET next == Normalization!NextDetour(Normalization!Paid)
        IN  /\ next.pc \in {"sweep", "done"} /\ next.base = normalize.base
            /\ next.found = normalize.found /\ next.high = normalize.high
    BY <1>a DEF Normalization!Paid, Normalization!NextDetour
  <2>4. LET next == Normalization!NextDetour(found)
        IN  /\ next.pc \in {"sweep", "done"} /\ next.base = normalize.base
            /\ next.found = normalize.found \cup {Normalization!Form} /\ next.high = normalize.high
    BY <1>a DEF Normalization!Paid, Normalization!NextDetour
  <2>5. LET next == [found EXCEPT !.pc = "repeat"]
        IN  /\ next.pc = "repeat" /\ next.base = normalize.base
            /\ next.found = normalize.found \cup {Normalization!Form} /\ next.high = normalize.high
            /\ next.form = normalize.form /\ next.prefix = normalize.prefix
    BY <1>a DEF Normalization!Paid
  <2>. HIDE DEF found
  <2>. QED  BY <2>1, <2>2, <2>3, <2>4, <2>5
<1>6. CASE Normalization!RepeatRequest
  <2>. DEFINE seen == [Normalization!Paid EXCEPT !.high = @ \cup {Normalization!Form}]
              missed == [Normalization!Paid EXCEPT !.high = @]
  <2>1. normalize.pc = "repeat"
        /\ \/ State(Normalization!Detour) = "HIT" /\ normalize' = Normalization!NextDetour(seen)
           \/ normalize' = Normalization!NextDetour(missed)
           \/ normalize' = Normalization!NextDetour(Normalization!Paid)
           \/ normalize' = normalize
    BY <1>6, NormalizationTarget DEF Normalization!RepeatRequest, Normalization!At
  <2>2. \A next \in {Normalization!NextDetour(missed), Normalization!NextDetour(Normalization!Paid)} :
            /\ next.pc \in {"sweep", "done"} /\ next.base = normalize.base
            /\ next.found = normalize.found /\ next.high = normalize.high
    BY <1>a DEF Normalization!Paid, Normalization!NextDetour
  <2>3. LET next == Normalization!NextDetour(seen)
        IN  /\ next.pc \in {"sweep", "done"} /\ next.base = normalize.base
            /\ next.found = normalize.found /\ next.high = normalize.high \cup {Forms[normalize.form]}
    BY <1>a DEF Normalization!Paid, Normalization!NextDetour, Normalization!Form
  <2>. HIDE DEF seen, missed
  <2>. QED  BY <2>1, <2>2, <2>3
<1>. QED  BY <1>1, <1>2, <1>3, <1>4, <1>5, <1>6 DEF Normalization!Next

\* LooseIsTold: content only gets newer, entry by entry.
LEMMA StillLooseIsTold ==
    TypeOK /\ Budgeted /\ Accounted /\ Honest /\ DetoursFollowed /\ LooseIsTold /\ [Next]_vars => LooseIsTold'
<1>. SUFFICES ASSUME TypeOK, Budgeted, Accounted, Honest, DetoursFollowed, LooseIsTold, [Next]_vars
     PROVE  LooseIsTold'
  OBVIOUS
<1>a. /\ site' = site /\ content' >= content /\ content \in Nat /\ content' \in Nat
      /\ normalize.base \in Bodies /\ normalize.base.version \in Nat
  BY EnvironmentTyped, Constants DEF TypeOK, EnvironmentTypeOK, NormalizationTypeOK, Bodies
<1>b. /\ \A way : WalkKey(way)' = WalkKey(way)
      /\ Unresolved' = Unresolved /\ Direct' = Direct /\ Beside' = Beside /\ Plain' = Plain
      /\ (Unmarked' <=> Unmarked)
  BY <1>a DEF WalkKey, Keyed, Direct, Beside, NoToken, Plain, Unresolved, Detours, ElementsOf, Unmarked, Isolating
<1>. DEFINE Known(way) == WalkKey(way) \in DOMAIN store'
            Version(way) == store'[WalkKey(way)].version
            Version0(way) == store[WalkKey(way)].version
            pc == normalize'.pc
            base == normalize'.base
<1>. SUFFICES ASSUME Unmarked, site.loose
     PROVE  /\ pc \in {"base", "control"} => \A way \in Unresolved : ~Known(way)
            /\ pc = "base" /\ Beside \notin site.collapses => ~Known(Beside)
            /\ pc \in {"control", "sweep", "repeat"} =>
                  /\ base.shows = Plain /\ base.version <= content'
                  /\ \A way \in {Direct, Beside} : Known(way) => Version(way) >= base.version
            /\ pc \in {"sweep", "repeat"} =>
                  /\ content' > base.version
                  /\ \A way \in Unresolved : Known(way) => Version(way) > base.version
  BY <1>a, <1>b DEF LooseIsTold, Kept, Compared
<1>c. /\ normalize.pc \in {"base", "control"} => \A way \in Unresolved : ~Kept(way)
      /\ normalize.pc = "base" /\ Beside \notin site.collapses => ~Kept(Beside)
      /\ Compared =>
            /\ normalize.base.shows = Plain /\ normalize.base.version <= content
            /\ \A way \in {Direct, Beside} : Kept(way) => Version0(way) >= normalize.base.version
      /\ normalize.pc \in {"sweep", "repeat"} =>
            /\ content > normalize.base.version
            /\ \A way \in Unresolved : Kept(way) => Version0(way) > normalize.base.version
  BY DEF LooseIsTold
<1>d. \A way : Known(way) => (Kept(way) /\ Version(way) = Version0(way)) \/ Version(way) = content
  <2>. SUFFICES ASSUME NEW way, Known(way)
       PROVE  (Kept(way) /\ Version(way) = Version0(way)) \/ Version(way) = content
    OBVIOUS
  <2>1. CASE Stays(WalkKey(way))
    BY <2>1 DEF Stays, Kept
  <2>2. CASE \E r : Enters(r, WalkKey(way))
    BY <2>2, PageProduced DEF Enters, ServesPage
  <2>. QED  BY <2>1, <2>2, Changes
<1>e. \A way : Kept(way) => Version0(way) \in Nat
  BY Constants DEF TypeOK, EnvironmentTypeOK, Bodies, Kept
\* Whose requests leave the ways around alone.
<1>f. ASSUME NEW way \in {Beside} \cup Unresolved, way \notin site.collapses, Known(way),
             NEW r, Enters(r, WalkKey(way))
      PROVE  r.to = 0 /\ r.way = way
  BY <1>f, ApartWays, KeyIs DEF Enters, WalkKey, Unresolved
<1>g. \A way \in Unresolved : way \notin site.collapses /\ way # Direct /\ way # Beside
  BY BesideIsNoDetour, TargetAssumption DEF Unresolved, Direct, Detours
<1>h. ASSUME normalize'.base = normalize.base, Compared
      PROVE  /\ base.shows = Plain /\ base.version <= content'
             /\ \A way \in {Direct, Beside} : Known(way) => Version(way) >= base.version
  BY <1>a, <1>c, <1>d, <1>h
<1>i. ASSUME normalize'.base = normalize.base, normalize.pc \in {"sweep", "repeat"}
      PROVE  /\ content' > base.version
             /\ \A way \in Unresolved : Known(way) => Version(way) > base.version
  BY <1>a, <1>c, <1>d, <1>i
<1>j. ASSUME normalize.pc \in {"base", "control"}, NEW q \in {Direct, Beside}, Answered(Walk(q))
      PROVE  \A way \in Unresolved : ~Known(way)
  <2>. SUFFICES ASSUME NEW way \in Unresolved, Known(way) PROVE FALSE
    OBVIOUS
  <2>1. ~Stays(WalkKey(way))
    BY <1>c, <1>j DEF Stays, Kept
  <2>2. Enters(Walk(q), WalkKey(way))
    BY <1>j, <2>1, Entering
  <2>3. Walk(q).way = way
    BY <1>f, <1>g, <2>2
  <2>. QED  BY <1>g, <1>j, <2>3, NormalizationRequests
<1>k. ASSUME normalize.pc = "base", Answered(Request), Beside \notin site.collapses
      PROVE  ~Known(Beside)
  <2>. SUFFICES ASSUME Known(Beside) PROVE FALSE
    OBVIOUS
  <2>1. Enters(Request, WalkKey(Beside))
    BY <1>c, <1>k, Entering DEF Stays, Kept
  <2>. QED  BY <1>f, <1>k, <2>1, RequestIs, SomeWays
<1>1. CASE normalize'.pc = "done"
  BY <1>1
<1>2. CASE UNCHANGED normalize /\ normalize.pc = "base" /\ Answered(Request)
  BY <1>2, <1>j, <1>k, WalkKeyIs
<1>3. CASE UNCHANGED normalize /\ normalize.pc = "control" /\ Answered(Walk(Beside))
  BY <1>3, <1>h, <1>j DEF Compared
<1>4. CASE normalize.pc \in {"sweep", "repeat"} /\ normalize'.pc \in {"sweep", "repeat", "done"} /\ normalize'.base = normalize.base
  BY <1>4, <1>h, <1>i DEF Compared
\* The baseline: the page that is cached, or the current one.
<1>5. CASE /\ normalize.pc = "base" /\ Ask(Request) /\ Ok(Body(Request))
           /\ normalize'.pc = "control" /\ normalize'.base = Body(Request)
  <2>1. \A way \in Unresolved : ~Known(way)
    BY <1>5, <1>j, WalkKeyIs, AskedIsAnswered
  <2>2. base.shows = Plain /\ base.version <= content
    <3>1. CASE Hit(Request)
      <4>1. KeyOf(Request).token = NoToken /\ KeyOf(Request).extra = Plain
        BY KeyIs, RequestIs
      <4>2. store[KeyOf(Request)].shows = Plain
        BY <3>1, <4>1, ShowsPlain DEF Hit, Unmarked
      <4>3. store[KeyOf(Request)].version <= content
        BY <1>a, <3>1 DEF Accounted, CameFrom, Hit
      <4>. QED  BY <1>5, <3>1, <4>2, <4>3 DEF Body
    <3>2. CASE ~Hit(Request)
      BY <1>a, <1>5, <3>2, PageProduced, RequestIs, SiteIs DEF Body, ServesPage
    <3>. QED  BY <3>1, <3>2
  <2>3. Known(Direct) => Version(Direct) >= base.version
    <3>. SUFFICES ASSUME Known(Direct) PROVE Version(Direct) >= base.version
      OBVIOUS
    <3>1. KeyOf(Request) = WalkKey(Direct)
      BY WalkKeyIs
    <3>2. base.version \in Nat
      BY <1>5, BodyIs, Constants DEF Bodies
    <3>3. CASE Stays(WalkKey(Direct))
      BY <1>5, <3>1, <3>2, <3>3 DEF Stays, Hit, Body
    <3>4. CASE Enters(Request, WalkKey(Direct))
      BY <1>5, <3>1, <3>2, <3>4 DEF Enters, Body
    <3>. QED  BY <1>5, <3>3, <3>4, Entering, AskedIsAnswered
  <2>4. Known(Beside) => Version(Beside) >= base.version
    <3>1. CASE Beside \in site.collapses
      <4>1. WalkKey(Beside) = WalkKey(Direct)
        BY <3>1, SiteIs DEF WalkKey, Keyed
      <4>. QED  BY <2>3, <4>1
    <3>2. CASE Beside \notin site.collapses
      BY <1>5, <1>k, <3>2, AskedIsAnswered
    <3>. QED  BY <3>1, <3>2
  <2>5. base.version <= content'
    <3>1. base.version \in Nat
      BY <1>5, BodyIs, Constants DEF Bodies
    <3>. QED  BY <1>a, <2>2, <3>1
  <2>. QED  BY <1>5, <2>1, <2>2, <2>3, <2>4, <2>5
\* The control: what is served everywhere differs by its version only.
<1>6. CASE /\ normalize.pc = "control" /\ Ask(Walk(Beside)) /\ Body(Walk(Beside)) # normalize.base
           /\ normalize'.pc = "sweep" /\ normalize'.base = normalize.base
  <2>. DEFINE control == Walk(Beside)
              body == Body(control)
  <2>0. Compared /\ normalize.base.what = "page" /\ site.exists
    BY <1>6 DEF Compared, DetoursFollowed
  <2>1. body \in Bodies /\ KeyOf(control) = WalkKey(Beside) /\ control.extra = Plain
    BY BodyIs, WalkKeyIs, NormalizationRequests
  <2>2. body.what = "page" /\ body.shows = Plain /\ body.version >= normalize.base.version /\ body.version <= content
    <3>1. CASE Hit(control)
      <4>1. PICK q : CameFrom(q, KeyOf(control))
        BY <3>1 DEF Accounted, Hit
      <4>2. body = store[KeyOf(control)] /\ body.what = Page.what
        BY <3>1, <4>1, PageProduced DEF Body, CameFrom, ServesPage
      <4>3. body.shows = Plain
        <5>1. KeyOf(control).token = NoToken /\ KeyOf(control).extra = Plain
          BY <2>1 DEF WalkKey
        <5>. QED  BY <3>1, <4>2, <5>1, ShowsPlain DEF Hit, Unmarked
      <4>4. body.version >= normalize.base.version /\ body.version <= content
        BY <1>a, <1>c, <2>0, <2>1, <3>1, <4>1, <4>2 DEF Kept, Hit, CameFrom
      <4>. QED  BY <2>0, <4>2, <4>3, <4>4, PageIs
    <3>2. CASE ~Hit(control)
      <4>1. body = Produced(control)
        BY <3>2 DEF Body
      <4>. QED  BY <1>a, <1>c, <2>0, <2>1, <4>1, PageProduced, PageIs, SiteIs DEF ServesPage
    <3>. QED  BY <3>1, <3>2
  <2>3. body.version # normalize.base.version
    BY <1>a, <1>c, <1>6, <2>0, <2>1, <2>2, BodiesAre
  <2>4. content > normalize.base.version
    <3>1. body.version \in Nat
      BY <2>1, Constants DEF Bodies
    <3>. QED  BY <1>a, <2>2, <2>3, <3>1
  <2>5. \A way \in Unresolved : ~Known(way)
    BY <1>6, <1>j, AskedIsAnswered
  <2>. QED  BY <1>a, <1>6, <1>h, <2>0, <2>4, <2>5
<1>7. CASE ~Normalization!Next
  <2>1. normalize' = normalize
    BY <1>7, OthersNormalization
  <2>2. \A way \in {Beside} \cup Unresolved : way \notin site.collapses /\ Known(way) => Kept(way)
    BY <1>7, <1>f, OthersNormalization DEF Stays, Kept, Unresolved
  <2>. QED  BY <1>a, <1>c, <1>g, <1>h, <1>i, <2>1, <2>2 DEF Compared
<1>. QED  BY <1>1, <1>2, <1>3, <1>4, <1>5, <1>6, <1>7, NormalizationSteps

\* DetoursFollowed, from the control to the repeat.
LEMMA StillDetoursFollowed ==
    TypeOK /\ Budgeted /\ Accounted /\ Honest /\ DetoursFollowed /\ LooseIsTold /\ [Next]_vars =>
        DetoursFollowed'
<1>. SUFFICES ASSUME TypeOK, Budgeted, Accounted, Honest, DetoursFollowed, LooseIsTold, [Next]_vars
     PROVE  DetoursFollowed'
  OBVIOUS
<1>. DEFINE Followed(form) == \E p \in 1 .. Prefixes : <<form, p>> \in site.follows
            Stored(form) == \E p \in 1 .. Prefixes : <<form, p>> \in site.follows /\ KeptAs(<<form, p>>)
            way == <<Forms[normalize.form], normalize.prefix>>
<1>a. /\ site' = site /\ (content' = 0 => content = 0)
      /\ normalize.prefix \in 1 .. Prefixes
  BY EnvironmentTyped, Constants DEF TypeOK, EnvironmentTypeOK, NormalizationTypeOK
<1>b. /\ (Unmarked' <=> Unmarked)
      /\ \A form, p : KeptAs(<<form, p>>)' <=> KeptAs(<<form, p>>)
  BY <1>a DEF KeptAs, Keyed, Direct, Unmarked, Isolating, ElementsOf
<1>. SUFFICES /\ normalize'.pc = "base" => normalize'.found = {} /\ normalize'.high = {}
              /\ normalize'.pc \in {"control", "sweep", "repeat"} => normalize'.base.what = "page" /\ site.exists
              /\ Unmarked /\ content' = 0 /\ normalize'.found # {} => ~site.loose
              /\ Unmarked \/ ~site.loose =>
                    /\ normalize'.pc = "repeat" => <<Forms[normalize'.form], normalize'.prefix>> \in site.follows
                    /\ \A form \in normalize'.found : Followed(form)
                    /\ \A form \in normalize'.high : Stored(form)
  BY <1>a, <1>b DEF DetoursFollowed, Compared
<1>c. /\ normalize.pc = "base" => normalize.found = {} /\ normalize.high = {}
      /\ normalize.pc \in {"control", "sweep", "repeat"} => normalize.base.what = "page" /\ site.exists
      /\ Unmarked /\ content = 0 /\ normalize.found # {} => ~site.loose
      /\ Unmarked \/ ~site.loose =>
            /\ normalize.pc = "repeat" => way \in site.follows
            /\ \A form \in normalize.found : Followed(form)
            /\ \A form \in normalize.high : Stored(form)
  BY DEF DetoursFollowed, Compared
<1>d. ASSUME normalize.pc = "repeat", way \in site.follows, State(Normalization!Detour) = "HIT"
      PROVE  Stored(Forms[normalize.form])
  <2>1. Hit(Walk(way))
    BY <1>d, NormalizationRequests DEF State
  <2>2. KeyOf(Walk(way)).way = Keyed(way)
    BY NormalizationRequests, KeyIs
  <2>3. KeptAs(way)
    BY <2>1, <2>2, EntryIsKept DEF Hit, KeptAs
  <2>. QED  BY <1>a, <1>d, <2>3
\* A detour that gives the baseline.
<1>e. ASSUME normalize.pc = "sweep", Body(Walk(way)) = normalize.base
      PROVE  /\ Unmarked \/ ~site.loose => way \in site.follows
             /\ Unmarked /\ content = 0 => ~site.loose
  <2>1. way \in Detours /\ Walk(way).to = 0 /\ Walk(way).way = way
    BY NormalizationDetour, NormalizationRequests
  <2>2. way # Direct
    BY <1>a, Constants DEF Direct
  <2>3. ~site.loose => way \in site.follows
    BY <1>c, <1>e, <2>1, <2>2, ElsewhereIsNoPage
  <2>4. ASSUME Unmarked, site.loose PROVE content > normalize.base.version /\ way \in site.follows
    <3>1. content > normalize.base.version
      BY <1>e, <2>4 DEF LooseIsTold
    <3>2. ASSUME way \notin site.collapses PROVE FALSE
      <4>1. way \in Unresolved
        BY <2>1, <3>2 DEF Unresolved
      <4>2. Hit(Walk(way)) => store[KeyOf(Walk(way))].version > normalize.base.version
        BY <1>e, <2>4, <4>1, WalkKeyIs DEF LooseIsTold, Kept, Hit
      <4>3. ~Hit(Walk(way)) => Body(Walk(way)).version = content
        BY <2>4, PageProduced DEF Body, ServesPage
      <4>4. normalize.base.version \in Nat /\ content \in Nat
        BY Constants DEF TypeOK, EnvironmentTypeOK, NormalizationTypeOK, Bodies
      <4>5. Body(Walk(way)).version > normalize.base.version
        BY <3>1, <4>2, <4>3 DEF Body
      <4>. QED  BY <1>e, <4>4, <4>5
    <3>. QED  BY <3>1, <3>2 DEF Honest
  <2>5. normalize.base.version \in Nat
    BY Constants DEF TypeOK, NormalizationTypeOK, Bodies
  <2>. QED  BY <2>3, <2>4, <2>5
<1>. HIDE DEF Followed, Stored
<1>f. way \in site.follows => Followed(Forms[normalize.form])
  BY <1>a DEF Followed
<1>1. CASE Normalization!Next
  <2>1. CASE normalize'.pc = "done" /\ normalize'.found = normalize.found /\ normalize'.high = normalize.high
    BY <1>a, <1>c, <2>1
  <2>2. CASE UNCHANGED normalize
    BY <1>a, <1>c, <2>2
  <2>3. CASE /\ normalize.pc = "base" /\ Ask(Request) /\ Ok(Body(Request))
             /\ normalize'.pc = "control" /\ normalize'.base = Body(Request)
             /\ normalize'.found = normalize.found /\ normalize'.high = normalize.high
    <3>1. Body(Request).what = "page" /\ site.exists
      BY <2>3, ResourceIsPage, RequestIs DEF Ok
    <3>. QED  BY <1>c, <2>3, <3>1
  <2>4. CASE /\ normalize.pc = "control"
             /\ normalize'.pc = "sweep" /\ normalize'.base = normalize.base
             /\ normalize'.found = normalize.found /\ normalize'.high = normalize.high
    BY <1>a, <1>c, <2>4
  <2>5. CASE /\ normalize.pc = "sweep" /\ Body(Normalization!Detour) = normalize.base
             /\ normalize'.pc \in {"sweep", "repeat", "done"} /\ normalize'.base = normalize.base
             /\ normalize'.found = normalize.found \cup {Forms[normalize.form]}
             /\ normalize'.high = normalize.high
             /\ normalize'.pc = "repeat" => normalize'.form = normalize.form /\ normalize'.prefix = normalize.prefix
    <3>1. /\ Unmarked \/ ~site.loose => way \in site.follows
          /\ Unmarked /\ content = 0 => ~site.loose
      BY <1>e, <2>5, NormalizationRequests
    <3>. QED  BY <1>a, <1>c, <1>f, <2>5, <3>1
  <2>6. CASE /\ normalize.pc = "repeat" /\ State(Normalization!Detour) = "HIT"
             /\ normalize'.pc \in {"sweep", "done"} /\ normalize'.base = normalize.base
             /\ normalize'.found = normalize.found
             /\ normalize'.high = normalize.high \cup {Forms[normalize.form]}
    BY <1>a, <1>c, <1>d, <2>6
  <2>7. CASE /\ normalize.pc \in {"sweep", "repeat"} /\ normalize'.pc \in {"sweep", "done"}
             /\ normalize'.base = normalize.base
             /\ normalize'.found = normalize.found /\ normalize'.high = normalize.high
    BY <1>a, <1>c, <2>7
  <2>. QED  BY <1>1, <2>1, <2>2, <2>3, <2>4, <2>5, <2>6, <2>7, NormalizationSteps
<1>2. CASE ~Normalization!Next
  BY <1>2, <1>a, <1>c, OthersNormalization
<1>. QED  BY <1>1, <1>2

\* NormalizationInv from its two parts.
LEMMA StillNormalizationInv ==
    TypeOK /\ Budgeted /\ Accounted /\ NormalizationInv /\ [Next]_vars => NormalizationInv'
<1>. SUFFICES ASSUME TypeOK, Budgeted, Accounted, NormalizationInv, [Next]_vars, Honest'
     PROVE  DetoursFollowed' /\ LooseIsTold'
  BY DEF NormalizationInv
<1>1. Honest
  BY EnvironmentTyped DEF Honest
<1>. QED  BY <1>1, StillDetoursFollowed, StillLooseIsTold DEF NormalizationInv

\* What the invariants of the two checks say of their findings.
LEMMA DeceptionMeans == TypeOK /\ DeceptionInv /\ NormalizationInv => DeceptionGenuine
BY DEF DeceptionInv, NormalizationInv, DetoursFollowed, DeceptionGenuine

\* What those of the poisoning checks say of theirs.
LEMMA PoisoningMeans == OwnMarks /\ KeyCollisionInv => PoisoningGenuine
BY DEF OwnMarks, KeyCollisionInv, PoisoningGenuine, Poisonable

-----------------------------------------------------------------------------
(* Key explosion *)

Probe(n) == [Request EXCEPT !.value = n]

\* The probes of the key explosion check.
LEMMA KeyExplosionRequests ==
    TypeOK => /\ \A n : KeyExplosion!Varied(n) = Probe(n)
              /\ \A n : /\ Probe(n).to = 0 /\ Probe(n).way = Direct /\ Probe(n).token = NoToken
                        /\ Probe(n).value = n /\ Probe(n).extra = Plain
                        /\ KeyOf(Probe(n)) = ValueEntry(ValueKey(Probe(n)))
<1>. SUFFICES ASSUME TypeOK, NEW n
     PROVE  /\ KeyExplosion!Varied(n) = Probe(n)
            /\ Probe(n).to = 0 /\ Probe(n).way = Direct /\ Probe(n).token = NoToken
            /\ Probe(n).value = n /\ Probe(n).extra = Plain
            /\ KeyOf(Probe(n)) = ValueEntry(ValueKey(Probe(n)))
  OBVIOUS
<1>1. KeyExplosion!Varied(n) = Probe(n)
  BY KeyExplosionTarget DEF KeyExplosion!Varied, Probe
<1>2. /\ Probe(n).to = 0 /\ Probe(n).way = Direct /\ Probe(n).token = NoToken
      /\ Probe(n).value = n /\ Probe(n).extra = Plain
  BY Variants DEF Probe
<1>. QED  BY <1>1, <1>2, SiteIs DEF KeyOf, ValueEntry

\* ValuesApart: only the key explosion check varies a value.
LEMMA StillValuesApart ==
    TypeOK /\ Budgeted /\ ValuesApart /\ [Next]_vars => ValuesApart'
<1>. SUFFICES ASSUME TypeOK, Budgeted, ValuesApart, [Next]_vars, NEW key \in DOMAIN store', key.value # 0
     PROVE  key = ValueEntry(key.value)
  BY DEF ValuesApart, ValueEntry, Direct, NoToken, Plain
<1>1. CASE Stays(key)
  BY <1>1 DEF Stays, ValuesApart
<1>2. CASE \E r : Sent(r) /\ Enters(r, key)
  <2>1. PICK r : Sent(r) /\ key = KeyOf(r)
    BY <1>2 DEF Enters
  <2>2. r.value # 0
    BY <2>1, KeyIs, ValueIs
  <2>3. r.to = 0 /\ r.way = Direct /\ r.token = NoToken /\ r.extra = Plain
    BY <2>1, <2>2, SentIs DEF Bare
  <2>. QED  BY <2>1, <2>3, SiteIs DEF KeyOf, ValueEntry
<1>. QED  BY <1>1, <1>2, Changes

\* The others send no values.
LEMMA ValuesStay ==
    TypeOK /\ Budgeted /\ [Next]_vars /\ ~KeyExplosion!Next /\ faults' = 0 /\ Lasting => Values' = Values
<1>. SUFFICES ASSUME TypeOK, Budgeted, [Next]_vars, ~KeyExplosion!Next, faults' = 0, Lasting
     PROVE  Values' = Values
  OBVIOUS
<1>1. \A key \in DOMAIN store : key \in DOMAIN store'
  BY EntriesStay
<1>2. \A key \in DOMAIN store' : key \in DOMAIN store \/ key.value = 0
  BY OthersKeyExplosion, KeyIs, ValueIs DEF Stays, Enters
<1>. QED  BY <1>1, <1>2 DEF Values

\* A value that is a MISS is one more value, unless it shares the entry for
\* surplus values.
LEMMA ProbeEnters ==
    ASSUME TypeOK, NEW n, Ask(Probe(n)), ~Hit(Probe(n)), Direct \in site.stores, site.exists,
           site.overflow = "bucket"
    PROVE  /\ KeyOf(Probe(n)) \in DOMAIN store'
           /\ ValueKey(Probe(n)) # 0 => Values' = Values \cup {ValueKey(Probe(n))}
<1>1. Ok(Produced(Probe(n)))
  <2>1. Produced(Probe(n)).what = "page" /\ Produced(Probe(n)).shows = Plain
    BY KeyExplosionRequests, PageProduced, PageIs, SiteIs DEF ServesPage
  <2>. QED  BY <2>1, Constants DEF Ok
<1>2. DOMAIN store' = DOMAIN store \cup {KeyOf(Probe(n))}
  BY <1>1, KeyExplosionRequests, AfterStores DEF Ask
<1>3. KeyOf(Probe(n)).value = ValueKey(Probe(n))
  BY KeyIs
<1>. QED  BY <1>2, <1>3 DEF Values

\* Counting the probes.
LEMMA UpTo ==
    \A n \in Nat : /\ IsFiniteSet(1 .. n) /\ Cardinality(1 .. n) = n
                   /\ n >= 1 => IsFiniteSet(1 .. (n - 1)) /\ Cardinality(1 .. (n - 1)) = n - 1
                                /\ (1 .. (n - 1)) \cup {n} = 1 .. n
<1>. SUFFICES ASSUME NEW n \in Nat
     PROVE  /\ IsFiniteSet(1 .. n) /\ Cardinality(1 .. n) = n
            /\ n >= 1 => IsFiniteSet(1 .. (n - 1)) /\ Cardinality(1 .. (n - 1)) = n - 1
                         /\ (1 .. (n - 1)) \cup {n} = 1 .. n
  OBVIOUS
<1>1. ASSUME NEW m \in Nat PROVE IsFiniteSet(1 .. m) /\ Cardinality(1 .. m) = m
  <2>1. /\ IsFiniteSet(1 .. m) /\ Cardinality(1 .. m) = IF 1 > m THEN 0 ELSE m - 1 + 1
    BY FS_Interval
  <2>. QED  BY <2>1
<1>2. n >= 1 => n - 1 \in Nat
  OBVIOUS
<1>3. n >= 1 => (1 .. (n - 1)) \cup {n} = 1 .. n
  OBVIOUS
<1>. QED  BY <1>1, <1>2, <1>3

\* ProbesCounted: a probe that is a MISS adds its value, or the one for all others.
LEMMA StillProbesCounted ==
    TypeOK /\ Budgeted /\ ValuesApart /\ ProbesCounted /\ [Next]_vars => ProbesCounted'
<1>. SUFFICES ASSUME TypeOK, Budgeted, ValuesApart, ProbesCounted, [Next]_vars PROVE ProbesCounted'
  OBVIOUS
<1>0. site' = site /\ Direct' = Direct /\ Overflow' = Overflow
  BY EnvironmentTyped DEF Direct, Overflow
<1>. SUFFICES ASSUME faults' = 0, site.overflow = "bucket", Direct \in site.stores, site.exists,
                     explode'.pc = "repeat" \/ (explode'.pc = "value" /\ explode'.budget >= Probes + 1)
     PROVE  IF "value" \in site.keys
            THEN /\ Counted' <= site.room + 1
                 /\ Values' = IF Counted' <= site.room THEN 1 .. Counted'
                              ELSE (1 .. site.room) \cup {Overflow}
            ELSE explode'.pc = "value" /\ (explode'.next = 1 \/ (explode'.next = 2 /\ Kept(Direct)'))
  BY <1>0 DEF ProbesCounted
<1>a. /\ site' = site /\ faults = 0 /\ Lasting
  BY EnvironmentTyped DEF TypeOK, EnvironmentTypeOK, Lasting
<1>b. /\ explode \in [pc : {"off", "value", "repeat", "done"}, next : 1 .. Probes,
                      budget : 0 .. MaxRequests, found : BOOLEAN]
      /\ Probes \in Nat /\ Probes >= 2 /\ MaxRequests \in Nat /\ site.room \in 1 .. MaxRequests
      /\ explode.next \in Nat /\ explode.budget \in Nat /\ site.room \in Nat
  BY Constants, SiteIs DEF TypeOK, KeyExplosionTypeOK
<1>c. Kept(Direct) => Kept(Direct)'
  <2>1. WalkKey(Direct)' = WalkKey(Direct)
    BY <1>a DEF WalkKey, Keyed, Direct, NoToken, Plain
  <2>. QED  BY <1>a, <2>1, EntriesStay DEF Kept
<1>1. CASE explode' = explode /\ ~KeyExplosion!Next
  <2>1. Values' = Values
    BY <1>1, <1>a, ValuesStay
  <2>2. Counted' = Counted
    BY <1>1 DEF Counted
  <2>. QED  BY <1>1, <1>a, <1>b, <1>c, <2>1, <2>2 DEF ProbesCounted
<1>2. CASE KeyExplosion!Unaffordable \/ KeyExplosion!RepeatRequest
  <2>. DEFINE hit == KeyExplosion!State(KeyExplosion!Repeated) = "HIT"
  <2>1. explode' \in {KeyExplosion!Ended, [KeyExplosion!Ended EXCEPT !.found = hit]}
    BY <1>2, <1>a DEF KeyExplosion!Unaffordable, KeyExplosion!RepeatRequest, KeyExplosion!Lose, KeyExplosion!Fault
  <2>2. KeyExplosion!Ended.pc = "done" /\ [KeyExplosion!Ended EXCEPT !.found = hit].pc = "done"
    BY <1>b DEF KeyExplosion!Ended
  <2>. HIDE DEF hit
  <2>3. explode'.pc = "done"
    BY <2>1, <2>2
  <2>. QED  BY <2>3
<1>3. CASE KeyExplosion!ValueRequest
  <2>. DEFINE n == explode.next
              value == Probe(n)
              counted == IF n < Probes THEN [explode EXCEPT !.next = @ + 1] ELSE [explode EXCEPT !.pc = "repeat"]
  <2>1. /\ explode.pc = "value" /\ explode.budget >= Probes + 1 /\ Ask(value)
        /\ explode' = IF State(value) = "MISS" THEN counted ELSE KeyExplosion!Ended
    BY <1>3, <1>a, KeyExplosionTarget, KeyExplosionRequests
       DEF KeyExplosion!ValueRequest, KeyExplosion!At, KeyExplosion!Affordable, KeyExplosion!Counts,
           KeyExplosion!Lose, KeyExplosion!Fault
  <2>2. ~Hit(value) /\ explode' = counted
    <3>1. KeyExplosion!Ended.pc = "done"
      BY <1>b DEF KeyExplosion!Ended
    <3>. QED  BY <2>1, <3>1 DEF State
  <2>3. /\ KeyOf(value) \in DOMAIN store'
        /\ ValueKey(value) # 0 => Values' = Values \cup {ValueKey(value)}
    BY <2>1, <2>2, ProbeEnters
  <2>4. /\ Counted' = n
        /\ n < Probes => explode'.pc = "value" /\ explode'.next = n + 1
        /\ n >= Probes => explode'.pc = "repeat"
    <3>1. CASE n < Probes
      BY <1>b, <2>1, <2>2, <3>1 DEF Counted
    <3>2. CASE ~(n < Probes)
      BY <1>b, <2>1, <2>2, <3>2 DEF Counted
    <3>. QED  BY <1>b, <3>1, <3>2
  <2>5. Counted = n - 1
    BY <2>1 DEF Counted
  <2>6. CASE "value" \notin site.keys
    <3>1. n = 1 \/ (n = 2 /\ Kept(Direct))
      BY <1>a, <2>1, <2>6 DEF ProbesCounted
    <3>2. KeyOf(value) = WalkKey(Direct)
      <4>1. ValueKey(value) = 0 /\ Keyed(Direct) = Direct
        BY <2>6, ValueIs DEF Keyed
      <4>. QED  BY <4>1, KeyExplosionRequests DEF WalkKey, ValueEntry
    <3>3. n = 1
      BY <2>2, <3>1, <3>2 DEF Hit, Kept
    <3>4. WalkKey(Direct)' = WalkKey(Direct)
      BY <1>a DEF WalkKey, Keyed, Direct, NoToken, Plain
    <3>. QED  BY <1>b, <2>3, <2>4, <2>6, <3>2, <3>3, <3>4 DEF Kept
  <2>7. CASE "value" \in site.keys
    <3>1. /\ n - 1 <= site.room + 1
          /\ Values = IF n - 1 <= site.room THEN 1 .. (n - 1) ELSE (1 .. site.room) \cup {Overflow}
      BY <1>a, <2>1, <2>5, <2>7 DEF ProbesCounted
    <3>2. ValueKey(value) = IF Full(n) THEN Overflow ELSE n
      BY <2>7, KeyExplosionRequests DEF ValueKey
    <3>3. /\ n \in Nat /\ n >= 1 /\ n < Overflow /\ site.room < Overflow /\ Overflow \in Nat
          /\ site.room \in Nat /\ site.room >= 1
      BY <1>b, <2>1 DEF Overflow
    <3>. HIDE DEF n
    <3>4. CASE n <= site.room
      <4>1. Values = 1 .. (n - 1) /\ Cardinality(Values) = n - 1
        BY <3>1, <3>3, <3>4, UpTo
      <4>2. ValueKey(value) = n
        BY <3>2, <3>3, <3>4, <4>1 DEF Full
      <4>3. Values' = 1 .. n
        <5>1. (1 .. (n - 1)) \cup {n} = 1 .. n /\ n # 0
          BY <3>3, UpTo
        <5>. QED  BY <2>3, <4>1, <4>2, <5>1
      <4>. QED  BY <2>4, <2>7, <3>3, <3>4, <4>3
    <3>5. CASE n = site.room + 1
      <4>1. Values = 1 .. site.room /\ Cardinality(Values) = site.room
        BY <3>1, <3>3, <3>5, UpTo
      <4>2. ValueKey(value) = Overflow
        BY <3>2, <3>3, <3>5, <4>1 DEF Full
      <4>3. Values' = (1 .. site.room) \cup {Overflow}
        BY <2>3, <3>3, <4>1, <4>2
      <4>. QED  BY <2>4, <2>7, <3>3, <3>5, <4>3
    <3>6. CASE n = site.room + 2
      <4>1. Values = (1 .. site.room) \cup {Overflow}
        BY <3>1, <3>3, <3>6
      <4>2. Cardinality(Values) = site.room + 1
        <5>1. IsFiniteSet(1 .. site.room) /\ Cardinality(1 .. site.room) = site.room
          BY <3>3, UpTo
        <5>2. Overflow \notin 1 .. site.room
          BY <3>3
        <5>3. Cardinality((1 .. site.room) \cup {Overflow}) = Cardinality(1 .. site.room) + 1
          BY <5>1, <5>2, FS_AddElement, ZenonT(30)
        <5>. QED  BY <4>1, <5>1, <5>3
      <4>3. n \notin Values \cup {0}
        BY <3>3, <3>6, <4>1
      <4>4. ValueKey(value) = Overflow
        BY <3>2, <3>3, <4>2, <4>3 DEF Full
      <4>5. PICK key \in DOMAIN store : key.value = Overflow
        BY <4>1 DEF Values
      <4>6. KeyOf(value) = key
        <5>1. key = ValueEntry(Overflow)
          BY <3>3, <4>5 DEF ValuesApart
        <5>2. KeyOf(value) = ValueEntry(ValueKey(value))
          BY KeyExplosionRequests
        <5>. QED  BY <4>4, <5>1, <5>2
      <4>. QED  BY <2>2, <4>5, <4>6 DEF Hit
    <3>. QED  BY <3>1, <3>3, <3>4, <3>5, <3>6
  <2>. QED  BY <2>6, <2>7
<1>. QED  BY <1>1, <1>2, <1>3, OthersKeyExplosion DEF KeyExplosion!Next

\* A finding stays genuine, and is so when it is made.
LEMMA StillExplosionGenuine ==
    TypeOK /\ Budgeted /\ Accounted /\ KeyExplosionInv /\ [Next]_vars =>
        /\ explode'.pc \in {"off", "value", "repeat"} => ~explode'.found
        /\ ExplosionGenuine'
<1>. SUFFICES ASSUME TypeOK, Budgeted, Accounted, KeyExplosionInv, [Next]_vars
     PROVE  /\ explode'.pc \in {"off", "value", "repeat"} => ~explode'.found
            /\ ExplosionGenuine'
  OBVIOUS
<1>. DEFINE Capless == "value" \in site.keys /\ Direct \in site.stores /\ Probes <= site.room + 1
            Observed == site.overflow = "bucket" /\ Honest /\ (KeptAs(Direct) => Direct \in site.stores)
<1>a. /\ site' = site /\ Direct' = Direct /\ (faults' = 0 => faults = 0)
      /\ (KeptAs(Direct)' <=> KeptAs(Direct)) /\ (Honest' <=> Honest)
  BY EnvironmentTyped DEF TypeOK, EnvironmentTypeOK, Direct, KeptAs, Keyed, Honest
<1>b. explode \in [pc : {"off", "value", "repeat", "done"}, next : 1 .. Probes,
                   budget : 0 .. MaxRequests, found : BOOLEAN]
  BY DEF TypeOK, KeyExplosionTypeOK
<1>c. /\ explode.pc \in {"off", "value", "repeat"} => ~explode.found
      /\ explode.found /\ faults = 0 /\ Observed => Capless
  BY DEF KeyExplosionInv, ExplosionGenuine
<1>. SUFFICES /\ explode'.pc \in {"off", "value", "repeat"} => ~explode'.found
              /\ explode'.found /\ faults' = 0 /\ Observed => Capless
  BY <1>a DEF ExplosionGenuine
<1>1. CASE explode'.found = explode.found /\ (explode'.pc = "done" \/ explode.pc \in {"off", "value", "repeat"})
  BY <1>a, <1>c, <1>1
<1>2. CASE explode' = explode
  BY <1>a, <1>c, <1>2
<1>3. CASE KeyExplosion!Unaffordable \/ KeyExplosion!ValueRequest
  <2>1. explode.pc = "value"
    BY <1>3 DEF KeyExplosion!Unaffordable, KeyExplosion!ValueRequest, KeyExplosion!At
  <2>2. explode'.found = explode.found
    BY <1>b, <1>3 DEF KeyExplosion!Unaffordable, KeyExplosion!ValueRequest, KeyExplosion!Ended
  <2>. QED  BY <1>1, <2>1, <2>2
<1>4. CASE KeyExplosion!RepeatRequest
  <2>. DEFINE hit == State(Probe(1)) = "HIT"
  <2>1. explode.pc = "repeat"
        /\ \/ explode' = [KeyExplosion!Ended EXCEPT !.found = hit]
           \/ explode' \in {explode, KeyExplosion!Ended}
    BY <1>4, KeyExplosionTarget, KeyExplosionRequests
       DEF KeyExplosion!RepeatRequest, KeyExplosion!At, KeyExplosion!Repeated
  <2>2. KeyExplosion!Ended.pc = "done" /\ KeyExplosion!Ended.found = explode.found
    BY <1>b DEF KeyExplosion!Ended
  <2>3. LET found == [KeyExplosion!Ended EXCEPT !.found = hit] IN found.pc = "done" /\ (found.found <=> hit)
    BY <1>b DEF KeyExplosion!Ended
  <2>4. ASSUME hit, faults = 0, Observed PROVE Capless
    <3>1. Hit(Probe(1)) /\ KeyOf(Probe(1)).to = 0 /\ KeyOf(Probe(1)).way = Direct
      BY <2>4, KeyExplosionRequests DEF State, ValueEntry
    <3>2. KeptAs(Direct)
      <4>1. Keyed(Direct) = Direct
        BY DEF Keyed
      <4>. QED  BY <3>1, <4>1, EntryIsKept DEF Hit, KeptAs
    <3>3. site.exists
      BY <2>4, <3>1, DirectIsPage DEF Hit
    <3>4. Counted = Probes
      BY <2>1 DEF Counted
    <3>. QED  BY <2>1, <2>4, <3>2, <3>3, <3>4 DEF KeyExplosionInv, ProbesCounted
  <2>. HIDE DEF hit
  <2>5. CASE explode' = [KeyExplosion!Ended EXCEPT !.found = hit]
    BY <1>a, <2>3, <2>4, <2>5
  <2>6. CASE explode' \in {explode, KeyExplosion!Ended}
    BY <1>1, <1>2, <2>1, <2>2, <2>6
  <2>. QED  BY <2>1, <2>5, <2>6
<1>. QED  BY <1>2, <1>3, <1>4, OthersKeyExplosion DEF KeyExplosion!Next

\* KeyExplosionInv from its parts.
LEMMA StillKeyExplosionInv ==
    TypeOK /\ Budgeted /\ Accounted /\ KeyExplosionInv /\ [Next]_vars => KeyExplosionInv'
BY StillValuesApart, StillProbesCounted, StillExplosionGenuine DEF KeyExplosionInv

-----------------------------------------------------------------------------
(* Vary-key *)

VaryDiffers(extra, raw) ==
    \/ NoValue \notin {raw, vary.raw} /\ raw # vary.raw
    \/ Body(Varying(extra)) # vary.base.body
SameVerdicts == vary'.keyed = vary.keyed /\ vary'.inert = vary.inert
Judges(extra) ==
    \/ /\ \E raw \in RawValues(Varying(extra)) : VaryDiffers(extra, raw)
       /\ vary'.keyed = vary.keyed \cup {extra} /\ vary'.inert = vary.inert
    \/ /\ \E raw \in RawValues(Varying(extra)) : ~VaryDiffers(extra, raw)
       /\ vary'.keyed = vary.keyed /\ vary'.inert = vary.inert \cup {extra}
    \/ SameVerdicts
SameBase == vary'.base = vary.base /\ vary'.raw = vary.raw /\ vary'.anonymous = vary.anonymous
Blind == [Busted("vary", 1) EXCEPT !.extra = "anonymous"]

\* The requests of the vary-key check.
LEMMA VaryKeyRequests ==
    TypeOK => /\ VaryKey!Anonymous = Varying("anonymous") /\ VaryKey!Isolated = Blind
              /\ \A extra : VaryKey!Varied(extra) = Varying(extra)
              /\ Varying(Plain) = Request
              /\ \A extra : /\ Varying(extra).to = 0 /\ Varying(extra).way = Direct
                            /\ Varying(extra).token = NoToken /\ Varying(extra).value = 0
                            /\ Varying(extra).extra = extra
                            /\ KeyOf(Varying(extra)) = VaryEntry(extra)
              /\ Blind.to = 0 /\ Blind.way = Direct /\ Blind.token = <<"vary", 1>>
              /\ Blind.value = 0 /\ Blind.extra = "anonymous"
<1>. SUFFICES ASSUME TypeOK
     PROVE  /\ VaryKey!Anonymous = Varying("anonymous") /\ VaryKey!Isolated = Blind
            /\ \A extra : VaryKey!Varied(extra) = Varying(extra)
            /\ Varying(Plain) = Request
            /\ \A extra : /\ Varying(extra).to = 0 /\ Varying(extra).way = Direct
                          /\ Varying(extra).token = NoToken /\ Varying(extra).value = 0
                          /\ Varying(extra).extra = extra
                          /\ KeyOf(Varying(extra)) = VaryEntry(extra)
            /\ Blind.to = 0 /\ Blind.way = Direct /\ Blind.token = <<"vary", 1>>
            /\ Blind.value = 0 /\ Blind.extra = "anonymous"
  OBVIOUS
<1>1. /\ VaryKey!Anonymous = Varying("anonymous") /\ VaryKey!Isolated = Blind
      /\ \A extra : VaryKey!Varied(extra) = Varying(extra)
  BY VaryKeyTarget DEF VaryKey!Anonymous, VaryKey!Isolated, VaryKey!Varied, Varying, Blind
<1>2. \A extra : /\ Varying(extra).to = 0 /\ Varying(extra).way = Direct
                 /\ Varying(extra).token = NoToken /\ Varying(extra).value = 0
                 /\ Varying(extra).extra = extra
  BY Variants DEF Varying
<1>3. ASSUME NEW extra PROVE KeyOf(Varying(extra)) = VaryEntry(extra)
  <2>1. ValueKey(Varying(extra)) = 0
    BY <1>2, ValueIs
  <2>. QED  BY <1>2, <2>1, SiteIs DEF KeyOf, VaryEntry
<1>4. Varying(Plain) = Request
  BY DEF Varying, Request
<1>5. /\ Blind.to = 0 /\ Blind.way = Direct /\ Blind.token = <<"vary", 1>>
      /\ Blind.value = 0 /\ Blind.extra = "anonymous"
  BY BustedVariants DEF Blind
<1>. QED  BY <1>1, <1>2, <1>3, <1>4, <1>5

\* How the check goes on, for what it concludes.
LEMMA VaryKeySteps ==
    ASSUME TypeOK, VaryKey!Next
    PROVE
        \/ UNCHANGED vary /\ faults' # 0
        \/ /\ vary.pc = "base" /\ Ask(Request) /\ vary'.pc = "vary" /\ vary'.next = vary.next
           /\ vary'.base = Reply(Request) /\ vary'.raw \in RawValues(Request)
           /\ SameVerdicts /\ vary'.leak = vary.leak
        \/ vary.pc # "off" /\ vary'.pc = "done" /\ vary'.leak = vary.leak /\ SameVerdicts /\ SameBase
        \/ /\ vary.pc = "vary" /\ vary.next \in 1 .. Len(Dimensions) /\ Ask(Varying(Dimensions[vary.next]))
           /\ vary'.pc = "vary" /\ vary'.next = vary.next + 1 /\ Judges(Dimensions[vary.next])
           /\ SameBase /\ vary'.leak = vary.leak
        \/ /\ vary.pc \in {"vary", "cookie"} /\ faults' # 0 /\ vary'.pc \in {"vary", "credentials"}
           /\ SameVerdicts /\ SameBase /\ vary'.leak = vary.leak
        \/ /\ vary.pc = "vary" /\ vary'.pc \in {"cookie", "credentials"} /\ store' = store
           /\ SameVerdicts /\ SameBase /\ vary'.leak = vary.leak
        \/ /\ vary.pc = "cookie" /\ vary'.pc = "credentials" /\ Ask(Varying("cookie")) /\ Judges("cookie")
           /\ SameBase /\ vary'.leak = vary.leak
        \/ /\ vary.pc = "credentials" /\ vary'.pc = "isolated" /\ Ok(vary.base.body)
           /\ Body(Varying("anonymous")) = vary.base.body
           /\ vary'.anonymous.body = vary.base.body /\ vary'.base = vary.base /\ vary'.raw = vary.raw
           /\ SameVerdicts /\ vary'.leak = vary.leak
        \/ /\ vary.pc = "isolated" /\ vary'.pc = "done" /\ SameVerdicts /\ SameBase
           /\ vary'.leak = "critical" => Body(Blind) # vary.anonymous.body
<1>. DEFINE States == [pc : {"off", "base", "vary", "cookie", "credentials", "isolated", "done"},
                       next : 1 .. Len(Dimensions) + 1, budget : 0 .. MaxRequests,
                       caller : VaryKey!Callers, base : Replies, anonymous : Replies, raw : RawStatus,
                       keyed : SUBSET Extras, inert : SUBSET Extras, leak : {"none", "high", "critical"}]
            Same(new) == new.keyed = vary.keyed /\ new.inert = vary.inert /\ new.base = vary.base
                         /\ new.raw = vary.raw /\ new.anonymous = vary.anonymous /\ new.leak = vary.leak
<1>a. vary \in States /\ Len(Dimensions) \in Nat /\ vary.next \in Nat
  BY Lists DEF TypeOK, VaryKeyTypeOK
<1>b. \A r : Lose(r) => faults' # 0
  BY DEF Lose, Fault, TypeOK, EnvironmentTypeOK
<1>c. VaryKey!Ended.pc = "done" /\ Same(VaryKey!Ended)
  BY <1>a DEF VaryKey!Ended
<1>1. CASE VaryKey!BaseRequest
  <2>. DEFINE new(raw) == [vary EXCEPT !.pc = "vary", !.base = Reply(Request), !.raw = raw]
  <2>1. /\ vary.pc = "base"
        /\ \/ Ask(Request) /\ \E raw \in RawValues(Request) : vary' = new(raw)
           \/ Lose(Request) /\ vary' \in {vary, VaryKey!Ended}
    BY <1>1, VaryKeyTarget DEF VaryKey!BaseRequest, VaryKey!At, VaryKey!Ended
  <2>2. \A raw : /\ new(raw).pc = "vary" /\ new(raw).next = vary.next
                 /\ new(raw).base = Reply(Request) /\ new(raw).raw = raw
                 /\ new(raw).keyed = vary.keyed /\ new(raw).inert = vary.inert /\ new(raw).leak = vary.leak
    BY <1>a
  <2>. HIDE DEF new
  <2>. QED  BY <1>b, <1>c, <2>1, <2>2 DEF SameVerdicts, SameBase
<1>d. \A state, extra, raw :
        VaryKey!Judged(state, extra, raw) =
            IF VaryDiffers(extra, raw) THEN [state EXCEPT !.keyed = @ \cup {extra}]
            ELSE IF extra \in site.vary THEN [state EXCEPT !.inert = @ \cup {extra}]
            ELSE state
  BY VaryKeyTarget, VaryKeyRequests DEF VaryKey!Judged, VaryKey!Differs, VaryDiffers, Reply
<1>2. CASE VaryKey!VaryRequest
  <2>. DEFINE d == Dimensions[vary.next]
              tried == [vary EXCEPT !.next = @ + 1, !.budget = @ - 1]
              keyed == [tried EXCEPT !.keyed = @ \cup {d}]
              inert == [tried EXCEPT !.inert = @ \cup {d}]
  <2>1. /\ vary.pc = "vary" /\ vary.next <= Len(Dimensions)
        /\ \/ /\ Ask(Varying(d))
              /\ \E raw \in RawValues(Varying(d)) : vary' = VaryKey!Judged(tried, d, raw)
           \/ Lose(Varying(d)) /\ vary' \in {vary, tried}
    BY <1>2, VaryKeyTarget, VaryKeyRequests DEF VaryKey!VaryRequest, VaryKey!At
  <2>2. tried.pc = "vary" /\ tried.next = vary.next + 1 /\ Same(tried)
    BY <1>a, <2>1
  <2>3. /\ keyed.pc = "vary" /\ keyed.next = vary.next + 1 /\ keyed.keyed = vary.keyed \cup {d}
        /\ keyed.inert = vary.inert /\ keyed.base = vary.base /\ keyed.raw = vary.raw
        /\ keyed.anonymous = vary.anonymous /\ keyed.leak = vary.leak
    BY <1>a, <2>1
  <2>4. /\ inert.pc = "vary" /\ inert.next = vary.next + 1 /\ inert.inert = vary.inert \cup {d}
        /\ inert.keyed = vary.keyed /\ inert.base = vary.base /\ inert.raw = vary.raw
        /\ inert.anonymous = vary.anonymous /\ inert.leak = vary.leak
    BY <1>a, <2>1
  <2>5. \A raw : vary' = VaryKey!Judged(tried, d, raw) =>
            \/ VaryDiffers(d, raw) /\ vary' = keyed
            \/ ~VaryDiffers(d, raw) /\ vary' = inert
            \/ vary' = tried
    BY <1>d
  <2>6. vary.next \in 1 .. Len(Dimensions)
    BY <1>a, <2>1
  <2>. HIDE DEF tried, keyed, inert
  <2>. QED  BY <1>b, <2>1, <2>2, <2>3, <2>4, <2>5, <2>6 DEF SameVerdicts, SameBase, Judges
<1>3. CASE VaryKey!AllVaried
  BY <1>a, <1>3 DEF VaryKey!AllVaried, VaryKey!At, VaryKey!environment, SameVerdicts, SameBase
<1>4. CASE VaryKey!CookieRequest
  <2>. DEFINE tried == [vary EXCEPT !.pc = "credentials"]
              keyed == [tried EXCEPT !.keyed = @ \cup {"cookie"}]
              inert == [tried EXCEPT !.inert = @ \cup {"cookie"}]
  <2>1. /\ vary.pc = "cookie"
        /\ \/ /\ Ask(Varying("cookie"))
              /\ \E raw \in RawValues(Varying("cookie")) : vary' = VaryKey!Judged(tried, "cookie", raw)
           \/ Lose(Varying("cookie")) /\ vary' \in {vary, tried}
    BY <1>4, VaryKeyTarget, VaryKeyRequests DEF VaryKey!CookieRequest, VaryKey!At
  <2>2. tried.pc = "credentials" /\ Same(tried)
    BY <1>a
  <2>3. /\ keyed.pc = "credentials" /\ keyed.keyed = vary.keyed \cup {"cookie"}
        /\ keyed.inert = vary.inert /\ keyed.base = vary.base /\ keyed.raw = vary.raw
        /\ keyed.anonymous = vary.anonymous /\ keyed.leak = vary.leak
    BY <1>a
  <2>4. /\ inert.pc = "credentials" /\ inert.inert = vary.inert \cup {"cookie"}
        /\ inert.keyed = vary.keyed /\ inert.base = vary.base /\ inert.raw = vary.raw
        /\ inert.anonymous = vary.anonymous /\ inert.leak = vary.leak
    BY <1>a
  <2>5. \A raw : vary' = VaryKey!Judged(tried, "cookie", raw) =>
            \/ VaryDiffers("cookie", raw) /\ vary' = keyed
            \/ ~VaryDiffers("cookie", raw) /\ vary' = inert
            \/ vary' = tried
    BY <1>d
  <2>. HIDE DEF tried, keyed, inert
  <2>. QED  BY <1>b, <2>1, <2>2, <2>3, <2>4, <2>5 DEF SameVerdicts, SameBase, Judges
<1>5. CASE VaryKey!NoLeakTest
  BY <1>c, <1>5 DEF VaryKey!NoLeakTest, VaryKey!At, SameVerdicts, SameBase
<1>6. CASE VaryKey!AnonymousRequest
  <2>. DEFINE reply == Reply(Varying("anonymous"))
              new == [vary EXCEPT !.pc = "isolated", !.budget = @ - 1, !.anonymous = reply]
  <2>1. /\ vary.pc = "credentials" /\ Ok(vary.base.body)
        /\ \/ vary' = IF reply.body # vary.base.body THEN VaryKey!Ended ELSE new
           \/ Lose(Varying("anonymous")) /\ vary' \in {vary, VaryKey!Ended}
    BY <1>6, VaryKeyTarget, VaryKeyRequests DEF VaryKey!AnonymousRequest, VaryKey!At, VaryKey!LeakTested
  <2>2. reply.body = Body(Varying("anonymous"))
    BY DEF Reply
  <2>3. /\ new.pc = "isolated" /\ new.anonymous = reply /\ new.base = vary.base /\ new.raw = vary.raw
        /\ new.keyed = vary.keyed /\ new.inert = vary.inert /\ new.leak = vary.leak
    BY <1>a
  <2>. HIDE DEF new, reply
  <2>. QED  BY <1>b, <1>c, <2>1, <2>2, <2>3 DEF SameVerdicts, SameBase
<1>7. CASE VaryKey!IsolatedRequest
  <2>. DEFINE leak == VaryKey!Leak(Reply(Blind))
              new == [VaryKey!Ended EXCEPT !.leak = leak]
  <2>1. /\ vary.pc = "isolated"
        /\ vary' = new \/ (Lose(Blind) /\ vary' \in {vary, VaryKey!Ended})
    BY <1>7, VaryKeyTarget, VaryKeyRequests DEF VaryKey!IsolatedRequest, VaryKey!At
  <2>2. leak = "critical" => Body(Blind) # vary.anonymous.body
    BY DEF VaryKey!Leak, Reply
  <2>3. /\ new.pc = "done" /\ new.leak = leak /\ new.keyed = vary.keyed /\ new.inert = vary.inert
        /\ new.base = vary.base /\ new.raw = vary.raw /\ new.anonymous = vary.anonymous
    BY <1>a DEF VaryKey!Ended
  <2>. HIDE DEF new, leak
  <2>. QED  BY <1>b, <1>c, <2>1, <2>2, <2>3 DEF SameVerdicts, SameBase
<1>. QED  BY <1>1, <1>2, <1>3, <1>4, <1>5, <1>6, <1>7 DEF VaryKey!Next

\* What of the environment a step leaves as the check saw it.
LEMMA VaryEntryIs ==
    ASSUME site' = site
    PROVE  \A extra : VaryEntry(extra)' = VaryEntry(extra)
BY DEF VaryEntry, Direct, NoToken, Plain

\* An answered request adds no entry for another extra that is keyed.
LEMMA VaryEnters ==
    ASSUME TypeOK, NEW r, Answered(r), NEW extra \in site.keys \ {Plain}, ~Varied(extra), r.extra # extra
    PROVE  VaryEntry(extra) \notin DOMAIN store'
<1>1. KeyOf(r).extra # VaryEntry(extra).extra
  BY KeyIs DEF VaryEntry
<1>. QED  BY <1>1, Entering DEF Stays, Enters, Varied

\* NotYetVaried: nobody else varies a dimension.
LEMMA StillNotYetVaried ==
    TypeOK /\ Budgeted /\ NotYetVaried /\ [Next]_vars => NotYetVaried'
<1>. SUFFICES ASSUME TypeOK, Budgeted, NotYetVaried, [Next]_vars PROVE NotYetVaried'
  OBVIOUS
<1>a. site' = site
  BY EnvironmentTyped
<1>. DEFINE Known(extra) == VaryEntry(extra) \in DOMAIN store'
            Listed == 1 .. Len(Dimensions)
<1>b. \A extra : VaryEntry(extra)' = VaryEntry(extra)
  BY <1>a, VaryEntryIs
<1>. SUFFICES ASSUME faults' = 0
     PROVE  /\ vary'.pc \in {"base", "vary"} =>
                  \A i \in vary'.next .. Len(Dimensions) : Dimensions[i] \in site.keys => ~Known(Dimensions[i])
            /\ vary'.pc \in {"base", "vary", "cookie"} /\ "cookie" \in site.keys => ~Known("cookie")
  BY <1>a, <1>b DEF NotYetVaried, Varied
<1>c. faults = 0 /\ vary.next \in Nat \ {0} /\ Len(Dimensions) \in Nat
  BY EnvironmentTyped, Lists DEF TypeOK, EnvironmentTypeOK, VaryKeyTypeOK
<1>d. /\ vary.pc \in {"base", "vary"} =>
            \A i \in vary.next .. Len(Dimensions) : Dimensions[i] \in site.keys => ~Varied(Dimensions[i])
      /\ vary.pc \in {"base", "vary", "cookie"} /\ "cookie" \in site.keys => ~Varied("cookie")
  BY <1>c DEF NotYetVaried
<1>e. /\ \A i \in Listed : Dimensions[i] \in ElementsOf(Dimensions) /\ Dimensions[i] # Plain /\ Dimensions[i] # "cookie"
      /\ \A i, j \in Listed : Dimensions[i] = Dimensions[j] => i = j
      /\ "cookie" # Plain
  BY Lists, Constants, TargetAssumption
<1>f. \A i \in vary.next .. Len(Dimensions) : i \in Listed
  BY <1>c
<1>1. CASE ~VaryKey!Next
  <2>1. vary' = vary
    BY <1>1, OthersVaryKey
  <2>2. ASSUME NEW extra \in ElementsOf(Dimensions) \cup {"cookie"}, extra \in site.keys, ~Varied(extra)
        PROVE  ~Known(extra)
    <3>. SUFFICES ASSUME Known(extra) PROVE FALSE
      OBVIOUS
    <3>1. ~Stays(VaryEntry(extra))
      BY <2>2 DEF Stays, Varied
    <3>2. PICK r : Enters(r, VaryEntry(extra)) /\ r.extra \notin ElementsOf(Dimensions) \cup {"cookie"}
      BY <1>1, <3>1, OthersVaryKey
    <3>3. extra # Plain
      BY Constants
    <3>4. KeyOf(r).extra # extra
      BY <2>2, <3>2, <3>3, KeyIs
    <3>. QED  BY <2>2, <3>2, <3>4 DEF Enters, VaryEntry
  <2>. QED  BY <1>d, <1>e, <1>f, <2>1, <2>2
<1>2. CASE vary.pc = "base" /\ Ask(Request) /\ vary'.pc = "vary" /\ vary'.next = vary.next
  <2>1. Answered(Request) /\ Request.extra = Plain
    BY <1>2, AskedIsAnswered, RequestIs
  <2>2. ASSUME NEW extra \in site.keys \ {Plain}, ~Varied(extra) PROVE ~Known(extra)
    BY <2>1, <2>2, VaryEnters
  <2>. QED  BY <1>2, <1>d, <1>e, <1>f, <2>2
<1>3. CASE /\ vary.pc = "vary" /\ vary.next \in Listed /\ Ask(Varying(Dimensions[vary.next]))
           /\ vary'.pc = "vary" /\ vary'.next = vary.next + 1
  <2>. DEFINE d == Dimensions[vary.next]
  <2>1. Answered(Varying(d)) /\ Varying(d).extra = d
    BY <1>3, AskedIsAnswered, VaryKeyRequests
  <2>2. ASSUME NEW extra \in site.keys \ {Plain}, ~Varied(extra), extra # d PROVE ~Known(extra)
    BY <2>1, <2>2, VaryEnters
  <2>3. \A i \in vary.next + 1 .. Len(Dimensions) :
            i \in vary.next .. Len(Dimensions) /\ i \in Listed /\ Dimensions[i] # d
    BY <1>c, <1>3, <1>e
  <2>. QED  BY <1>3, <1>d, <1>e, <2>2, <2>3
<1>4. CASE vary.pc = "vary" /\ vary'.pc \in {"cookie", "credentials"} /\ store' = store
  BY <1>4, <1>d DEF Varied
<1>5. CASE vary'.pc \in {"credentials", "isolated", "done"}
  BY <1>5
<1>. QED  BY <1>1, <1>2, <1>3, <1>4, <1>5, VaryKeySteps

\* BaselineStays: what was a HIT is in the cache for good.
LEMMA StillBaselineStays ==
    TypeOK /\ Budgeted /\ Unjudged /\ BaselineStays /\ [Next]_vars => BaselineStays'
<1>. SUFFICES ASSUME TypeOK, Budgeted, Unjudged, BaselineStays, [Next]_vars PROVE BaselineStays'
  OBVIOUS
<1>a. site' = site /\ VaryEntry(Plain)' = VaryEntry(Plain) /\ Plain' = Plain
  BY EnvironmentTyped, VaryEntryIs DEF Plain
<1>. SUFFICES ASSUME Untroubled', vary'.base.state = "HIT"
     PROVE  /\ site.tells /\ VaryEntry(Plain) \in DOMAIN store'
            /\ store'[VaryEntry(Plain)] = vary'.base.body
            /\ vary'.raw \in {"HIT"} \X Labels
  BY <1>a DEF BaselineStays, Varied, Labels
<1>b. faults' = 0 /\ faults = 0 /\ Lasting
  BY EnvironmentTyped, LastingIs DEF Untroubled, TypeOK, EnvironmentTypeOK
<1>1. CASE vary'.base = vary.base /\ vary'.raw = vary.raw
  BY <1>1, <1>b, EntriesStay DEF BaselineStays, Untroubled, Varied
<1>2. CASE vary'.base = Reply(Request) /\ vary'.raw \in RawValues(Request)
  <2>1. Hit(Request) /\ site.tells /\ vary'.base.body = Body(Request)
    BY <1>2 DEF Reply, State
  <2>3. vary'.raw \in {"HIT"} \X Labels
    BY <1>2, <2>1 DEF RawValues, State
  <2>2. KeyOf(Request) = VaryEntry(Plain)
    BY VaryKeyRequests
  <2>. QED  BY <1>b, <2>1, <2>2, <2>3, EntriesStay DEF Hit, Body
<1>. QED  BY <1>1, <1>2, VaryKeySteps, OthersVaryKey DEF SameBase

\* Unjudged: nothing is judged before the baseline.
LEMMA StillUnjudged == TypeOK /\ Budgeted /\ Unjudged /\ [Next]_vars => Unjudged'
<1>. SUFFICES ASSUME TypeOK, Budgeted, Unjudged, [Next]_vars PROVE Unjudged'
  OBVIOUS
<1>1. CASE UNCHANGED vary
  BY <1>1 DEF Unjudged
<1>2. CASE VaryKey!Next /\ ~UNCHANGED vary
  <2>1. vary'.pc \notin {"off", "base"} /\ vary.pc # "off" /\ (vary'.leak = vary.leak \/ vary'.pc = "done")
    BY <1>2, VaryKeySteps
  <2>2. vary.pc = "done" => FALSE
    BY <1>2 DEF VaryKey!Next, VaryKey!BaseRequest, VaryKey!VaryRequest, VaryKey!AllVaried, VaryKey!CookieRequest,
       VaryKey!NoLeakTest, VaryKey!AnonymousRequest, VaryKey!IsolatedRequest, VaryKey!At
  <2>. QED  BY <2>1, <2>2 DEF Unjudged
<1>. QED  BY <1>1, <1>2, OthersVaryKey

\* What the caller is served, while the content is the same, is the page.
LEMMA BaselineIs ==
    TypeOK /\ Accounted /\ content = 0 /\ Isolating /\ Honest /\ vary.pc = "base" /\ Ok(Body(Request)) =>
        site.exists /\ Body(Request) = Page
<1>. SUFFICES ASSUME TypeOK, Accounted, content = 0, Isolating, Honest, vary.pc = "base", Ok(Body(Request))
     PROVE  site.exists /\ Body(Request) = Page
  OBVIOUS
<1>1. Body(Request).what = "page" /\ site.exists
  BY ResourceIsPage, RequestIs DEF Ok
<1>2. Body(Request).shows = Plain /\ Body(Request).version = 0
  <2>1. CASE Hit(Request)
    <3>1. KeyOf(Request).token = NoToken /\ KeyOf(Request).extra = Plain
      BY KeyIs, RequestIs
    <3>2. store[KeyOf(Request)].shows = Plain
      BY <2>1, <3>1, ShowsPlain DEF Hit
    <3>3. store[KeyOf(Request)].version = 0
      BY <2>1 DEF Accounted, CameFrom, Hit
    <3>. QED  BY <2>1, <3>2, <3>3 DEF Body
  <2>2. CASE ~Hit(Request)
    BY <2>2, PageProduced, RequestIs, SiteIs DEF Body, ServesPage
  <2>. QED  BY <2>1, <2>2
<1>. QED  BY <1>1, <1>2, BodyIs, PageIs, BodiesAre

\* A request without credentials that is served the page all the same.
LEMMA WithheldIsServed ==
    TypeOK /\ Accounted /\ Isolating /\ Honest /\ site.exists
      /\ Body(Varying("anonymous")) = Page /\ "anonymous" \in site.reads =>
        "anonymous" \notin site.keys /\ KeptAs(Direct)
<1>. DEFINE r == Varying("anonymous")
<1>. SUFFICES ASSUME TypeOK, Accounted, Isolating, Honest, site.exists, Body(r) = Page, "anonymous" \in site.reads
     PROVE  "anonymous" \notin site.keys /\ KeptAs(Direct)
  OBVIOUS
<1>1. Page.shows = Plain /\ Plain # "anonymous"
  BY PageIs, Constants
<1>2. r.to = 0 /\ r.way = Direct /\ r.token = NoToken /\ r.extra = "anonymous" /\ KeyOf(r) = VaryEntry("anonymous")
  BY VaryKeyRequests
<1>3. Hit(r)
  <2>1. Produced(r).shows = "anonymous"
    BY <1>2, PageProduced DEF ServesPage
  <2>. QED  BY <1>1, <2>1 DEF Body
<1>4. PICK q : CameFrom(q, KeyOf(r))
  BY <1>3 DEF Accounted, Hit
<1>5. KeptAs(Direct)
  BY <1>2, <1>4 DEF CameFrom, KeptUnder, KeptAs, VaryEntry, Keyed
<1>6. ASSUME "anonymous" \in site.keys PROVE FALSE
  <2>1. q.to = 0 /\ q.extra = "anonymous" /\ Keyed(q.way) = Direct
    BY <1>1, <1>2, <1>4, <1>6 DEF CameFrom, KeptUnder, VaryEntry
  <2>2. ServesPage(q)
    BY <2>1 DEF ServesPage, Keyed, Honest
  <2>3. store[KeyOf(r)].shows = "anonymous"
    BY <1>4, <2>1, <2>2, PageProduced DEF CameFrom
  <2>. QED  BY <1>4, <2>3 DEF CameFrom, Ok
<1>. QED  BY <1>5, <1>6

\* BaselineIsPage, from the baseline to the isolated request.
LEMMA StillBaselineIsPage ==
    TypeOK /\ Budgeted /\ Accounted /\ BaselineIsPage /\ [Next]_vars => BaselineIsPage'
<1>. SUFFICES ASSUME TypeOK, Budgeted, Accounted, BaselineIsPage, [Next]_vars PROVE BaselineIsPage'
  OBVIOUS
<1>a. /\ site' = site /\ (content' = 0 => content = 0)
      /\ (Isolating' <=> Isolating) /\ (Honest' <=> Honest) /\ (KeptAs(Direct)' <=> KeptAs(Direct))
  BY EnvironmentTyped DEF TypeOK, EnvironmentTypeOK, Isolating, Honest, KeptAs, Keyed, Direct
<1>. SUFFICES ASSUME content' = 0, Isolating, Honest
     PROVE  /\ vary'.pc \in {"vary", "cookie", "credentials", "isolated"} /\ Ok(vary'.base.body) =>
                  site.exists /\ vary'.base.body = Page
            /\ vary'.pc = "isolated" =>
                  /\ Ok(vary'.base.body) /\ vary'.anonymous.body = vary'.base.body
                  /\ "anonymous" \in site.reads => "anonymous" \notin site.keys /\ KeptAs(Direct)
  <2>1. content' = 0 => Page' = Page
    BY <1>a DEF Page, Plain
  <2>. QED  BY <1>a, <2>1 DEF BaselineIsPage, Ok
<1>b. /\ vary.pc \in {"vary", "cookie", "credentials", "isolated"} /\ Ok(vary.base.body) =>
            site.exists /\ vary.base.body = Page
      /\ vary.pc = "isolated" =>
            /\ Ok(vary.base.body) /\ vary.anonymous.body = vary.base.body
            /\ "anonymous" \in site.reads => "anonymous" \notin site.keys /\ KeptAs(Direct)
  BY <1>a DEF BaselineIsPage
<1>1. CASE UNCHANGED vary
  BY <1>1, <1>b
<1>2. CASE vary.pc = "base" /\ vary'.pc = "vary" /\ vary'.base = Reply(Request)
  BY <1>2, <1>a, BaselineIs DEF Reply
<1>3. CASE vary'.pc = "done"
  BY <1>3
<1>4. CASE vary.pc \in {"vary", "cookie"} /\ vary'.pc \in {"vary", "cookie", "credentials"} /\ SameBase
  BY <1>4, <1>b DEF SameBase
<1>5. CASE /\ vary.pc = "credentials" /\ vary'.pc = "isolated" /\ Ok(vary.base.body)
           /\ Body(Varying("anonymous")) = vary.base.body
           /\ vary'.anonymous.body = vary.base.body /\ vary'.base = vary.base
  BY <1>5, <1>b, WithheldIsServed
<1>6. VaryKey!Next \/ UNCHANGED vary
  BY OthersVaryKey
<1>. QED  BY <1>1, <1>2, <1>3, <1>4, <1>5, <1>6, VaryKeySteps

\* A judgement on an entry that was cached before.
LEMMA JudgesRightly ==
    ASSUME TypeOK, NotYetVaried, BaselineStays, Untroubled, vary.base.state = "HIT",
           NEW extra \in Extras, extra \in site.keys => ~Varied(extra), Judges(extra),
           Alike => vary.keyed \subseteq site.keys, vary.inert \cap site.keys = {}
    PROVE  (Alike => vary'.keyed \subseteq site.keys) /\ vary'.inert \cap site.keys = {}
<1>1. /\ site.tells /\ Varied(Plain) /\ store[VaryEntry(Plain)] = vary.base.body
      /\ vary.raw \in {"HIT"} \X Labels
  BY DEF BaselineStays
<1>2. KeyOf(Varying(extra)) = VaryEntry(extra)
  BY VaryKeyRequests
<1>3. ASSUME Alike, extra \notin site.keys, NEW raw \in RawValues(Varying(extra)) PROVE ~VaryDiffers(extra, raw)
  <2>1. VaryEntry(extra) = VaryEntry(Plain)
    BY <1>3 DEF VaryEntry
  <2>2. Body(Varying(extra)) = vary.base.body /\ State(Varying(extra)) = "HIT"
    BY <1>1, <1>2, <2>1 DEF Varied, Hit, Body, State
  <2>3. \A one, other \in Labels : one = other
    BY <1>3 DEF Alike, Labels
  <2>4. raw = vary.raw
    BY <1>1, <1>3, <2>2, <2>3 DEF RawValues
  <2>. QED  BY <2>2, <2>4 DEF VaryDiffers
<1>4. ASSUME extra \in site.keys, NEW raw \in RawValues(Varying(extra)) PROVE VaryDiffers(extra, raw)
  <2>1. State(Varying(extra)) = "MISS"
    BY <1>1, <1>2, <1>4 DEF State, Hit, Varied
  <2>2. PICK mine \in Labels : raw = <<"MISS", mine>>
    BY <1>4, <2>1 DEF RawValues
  <2>3. PICK its \in Labels : vary.raw = <<"HIT", its>>
    BY <1>1
  <2>. QED  BY <2>2, <2>3 DEF VaryDiffers, NoValue
<1>. QED  BY <1>3, <1>4 DEF Judges, SameVerdicts

\* Where no entry can answer, the origin itself does.
LEMMA BlindIs ==
    TypeOK /\ Accounted /\ content = 0 /\ Isolating /\ Honest /\ site.exists /\ "anonymous" \notin site.reads =>
        Body(Blind) = Page
<1>. SUFFICES ASSUME TypeOK, Accounted, content = 0, Isolating, Honest, site.exists, "anonymous" \notin site.reads
     PROVE  Body(Blind) = Page
  OBVIOUS
<1>1. Blind.to = 0 /\ Blind.way = Direct /\ Blind.token = <<"vary", 1>> /\ Blind.extra = "anonymous"
  BY VaryKeyRequests
<1>2. CASE Hit(Blind)
  <2>1. PICK q : CameFrom(q, KeyOf(Blind))
    BY <1>2 DEF Accounted, Hit
  <2>2. Sent(q) /\ q.token = <<"vary", 1>> /\ q.to = 0
    BY <1>1, <2>1, KeyIs DEF CameFrom, KeptUnder
  <2>3. q.extra = "anonymous" /\ q.way = Direct
    BY <2>2 DEF Sent, DeceptionSends, EntanglementSends, NormalizationSends, KeyCollisionSends,
       KeyExplosionSends, VaryKeySends, UserSends, Bare, NoToken
  <2>4. store[KeyOf(Blind)].what = Page.what /\ store[KeyOf(Blind)].shows = Plain
        /\ store[KeyOf(Blind)].version = 0
    BY <2>1, <2>2, <2>3, PageProduced DEF CameFrom, ServesPage
  <2>. QED  BY <1>2, <2>4, BodyIs, PageIs, BodiesAre DEF Body
<1>3. CASE ~Hit(Blind)
  <2>1. Produced(Blind).what = Page.what /\ Produced(Blind).shows = Plain /\ Produced(Blind).version = 0
    BY <1>1, PageProduced DEF ServesPage
  <2>. QED  BY <1>3, <2>1, BodyIs, PageIs, BodiesAre DEF Body
<1>. QED  BY <1>2, <1>3

\* A verdict stays genuine, and is so when it is given.
LEMMA StillVaryVerdictsGenuine ==
    TypeOK /\ Budgeted /\ Accounted /\ VaryKeyInv /\ [Next]_vars => VaryVerdictsGenuine'
<1>. SUFFICES ASSUME TypeOK, Budgeted, Accounted, VaryKeyInv, [Next]_vars PROVE VaryVerdictsGenuine'
  OBVIOUS
<1>a. /\ site' = site /\ (content' = 0 => content = 0) /\ (faults' = 0 => faults = 0) /\ (Lasting' <=> Lasting)
      /\ (Isolating' <=> Isolating) /\ (Honest' <=> Honest) /\ (KeptAs(Direct)' <=> KeptAs(Direct))
      /\ (Alike' <=> Alike)
  BY EnvironmentTyped, LastingIs DEF TypeOK, EnvironmentTypeOK, Isolating, Honest, KeptAs, Keyed, Direct, Alike
<1>. DEFINE Leaks == "anonymous" \in site.reads \ site.keys /\ KeptAs(Direct)
<1>. SUFFICES /\ faults' = 0 /\ Lasting /\ vary'.base.state = "HIT" =>
                    (Alike => vary'.keyed \subseteq site.keys) /\ vary'.inert \cap site.keys = {}
              /\ vary'.leak = "critical" /\ content' = 0 /\ Isolating /\ Honest => Leaks
  BY <1>a DEF VaryVerdictsGenuine
<1>b. /\ faults = 0 /\ Lasting /\ vary.base.state = "HIT" =>
            (Alike => vary.keyed \subseteq site.keys) /\ vary.inert \cap site.keys = {}
      /\ vary.leak = "critical" /\ content = 0 /\ Isolating /\ Honest => Leaks
      /\ NotYetVaried /\ BaselineStays /\ BaselineIsPage /\ Unjudged
  BY DEF VaryKeyInv, VaryVerdictsGenuine
<1>1. CASE SameVerdicts /\ vary'.base = vary.base /\ vary'.leak = vary.leak
  BY <1>1, <1>a, <1>b DEF SameVerdicts
<1>2. CASE vary.pc = "base" /\ SameVerdicts /\ vary'.leak = vary.leak
  BY <1>2, <1>b DEF SameVerdicts, Unjudged
<1>3. ASSUME NEW extra \in Extras, Judges(extra), SameBase, vary'.leak = vary.leak,
             faults = 0 => (extra \in site.keys => ~Varied(extra))
      PROVE  /\ faults' = 0 /\ Lasting /\ vary'.base.state = "HIT" =>
                    (Alike => vary'.keyed \subseteq site.keys) /\ vary'.inert \cap site.keys = {}
             /\ vary'.leak = "critical" /\ content' = 0 /\ Isolating /\ Honest => Leaks
  BY <1>3, <1>a, <1>b, JudgesRightly DEF SameBase, Untroubled
<1>4. CASE /\ vary.pc = "vary" /\ vary.next \in 1 .. Len(Dimensions)
           /\ Judges(Dimensions[vary.next]) /\ SameBase /\ vary'.leak = vary.leak
  <2>1. Dimensions[vary.next] \in Extras
    BY <1>4, Lists, Constants
  <2>2. vary.next \in vary.next .. Len(Dimensions)
    BY <1>4, Lists
  <2>3. faults = 0 => (Dimensions[vary.next] \in site.keys => ~Varied(Dimensions[vary.next]))
    BY <1>4, <1>b, <2>2 DEF NotYetVaried
  <2>. QED  BY <1>3, <1>4, <2>1, <2>3
<1>5. CASE vary.pc = "cookie" /\ Judges("cookie") /\ SameBase /\ vary'.leak = vary.leak
  BY <1>3, <1>5, <1>b, Constants DEF NotYetVaried
<1>6. CASE /\ vary.pc = "isolated" /\ SameVerdicts /\ SameBase
           /\ vary'.leak = "critical" => Body(Blind) # vary.anonymous.body
  <2>1. ASSUME vary'.leak = "critical", content' = 0, Isolating, Honest PROVE Leaks
    <3>1. /\ site.exists /\ vary.anonymous.body = Page
          /\ "anonymous" \in site.reads => "anonymous" \notin site.keys /\ KeptAs(Direct)
      BY <1>6, <1>a, <1>b, <2>1 DEF BaselineIsPage
    <3>2. "anonymous" \in site.reads
      BY <1>6, <1>a, <2>1, <3>1, BlindIs
    <3>. QED  BY <3>1, <3>2
  <2>. QED  BY <1>6, <1>a, <1>b, <2>1 DEF SameVerdicts, SameBase
<1>7. CASE UNCHANGED vary
  BY <1>7, <1>a, <1>b
<1>8. VaryKey!Next \/ UNCHANGED vary
  BY OthersVaryKey
<1>. HIDE DEF Leaks
<1>. QED  BY <1>1, <1>2, <1>4, <1>5, <1>6, <1>7, <1>8, VaryKeySteps DEF SameBase

\* VaryKeyInv from its parts.
LEMMA StillVaryKeyInv ==
    TypeOK /\ Budgeted /\ Accounted /\ VaryKeyInv /\ [Next]_vars => VaryKeyInv'
BY StillUnjudged, StillNotYetVaried, StillBaselineStays, StillBaselineIsPage, StillVaryVerdictsGenuine DEF VaryKeyInv

-----------------------------------------------------------------------------
(* The invariant holds *)

\* The invariant is inductive.
LEMMA StillIInv == IInv /\ [Next]_vars => IInv'
BY Typed, StillAccounted, StillDeceptionInv, StillOwnMarks, StillNonePassedOver, StillNormalizationInv,
   StillKeyCollisionInv, StillKeyExplosionInv, StillVaryKeyInv DEF IInv

\* The checks before they start.
LEMMA InitialChecks ==
    ASSUME NEW budget \in 0 .. MaxRequests, Init(budget)
    PROVE  /\ deception.pc \in {"off", "base"} /\ deception.suffixes = {}
           /\ entangle.pc \in {"off", "pick"} /\ entangle.next = 1 /\ entangle.token = 0 /\ entangle.findings = {}
           /\ entangle.technique = IF IsGet THEN 1 ELSE 2
           /\ normalize.pc \in {"off", "base"} /\ normalize.found = {} /\ normalize.high = {}
           /\ collide.pc \in {"off", "missing"} /\ collide.victim = 1 /\ ~collide.found
           /\ explode.pc \in {"off", "value"} /\ explode.next = 1 /\ ~explode.found
           /\ vary.pc \in {"off", "base"} /\ vary.keyed = {} /\ vary.inert = {} /\ vary.leak = "none"
           /\ vary.base.state = "unknown"
           /\ {deception.budget, entangle.budget, normalize.budget, collide.budget, explode.budget, vary.budget}
                 \subseteq 0 .. MaxRequests
<1>1. deception.pc \in {"off", "base"} /\ deception.suffixes = {} /\ deception.budget \in 0 .. MaxRequests
  BY Constants DEF Init, Deception!Init, Deception!Fresh
<1>2. /\ entangle.pc \in {"off", "pick"} /\ entangle.next = 1 /\ entangle.token = 0 /\ entangle.findings = {}
      /\ entangle.technique = (IF IsGet THEN 1 ELSE 2) /\ entangle.budget \in 0 .. MaxRequests
  BY Constants DEF Init, Entanglement!Init, Entanglement!Fresh
<1>3. /\ normalize.pc \in {"off", "base"} /\ normalize.found = {} /\ normalize.high = {}
      /\ normalize.budget \in 0 .. MaxRequests
  BY Constants DEF Init, Normalization!Init, Normalization!Fresh
<1>4. collide.pc \in {"off", "missing"} /\ collide.victim = 1 /\ ~collide.found /\ collide.budget \in 0 .. MaxRequests
  BY Constants DEF Init, KeyCollision!Init, KeyCollision!Fresh
<1>5. explode.pc \in {"off", "value"} /\ explode.next = 1 /\ ~explode.found /\ explode.budget \in 0 .. MaxRequests
  BY Constants DEF Init, KeyExplosion!Init, KeyExplosion!Fresh
<1>6. /\ vary.pc \in {"off", "base"} /\ vary.keyed = {} /\ vary.inert = {} /\ vary.leak = "none"
      /\ vary.base.state = "unknown" /\ vary.budget \in 0 .. MaxRequests
  BY Constants DEF Init, VaryKey!Init, VaryKey!Fresh, VaryKey!NoReply
<1>. QED  BY <1>1, <1>2, <1>3, <1>4, <1>5, <1>6

\* They have their types.
LEMMA InitialTypes == ASSUME NEW budget \in 0 .. MaxRequests, Init(budget) PROVE TypeOK
<1>1. Missing \in Bodies /\ 0 \in 0 .. MaxFaults /\ 0 \in 0 .. MaxRequests
  BY Constants DEF Missing, Bodies
<1>2. EnvironmentTypeOK
  BY <1>1 DEF Init, EnvironmentTypeOK
<1>3. DeceptionTypeOK
  <2>1. 1 \in 1 .. Len(Suffixes) + 1 /\ {} \in SUBSET (1 .. Len(Suffixes)) /\ FALSE \in BOOLEAN
    BY Lists
  <2>2. PICK start \in {"base", "off"}, left \in 0 .. MaxRequests :
           deception = [pc |-> start, next |-> 1, budget |-> left, base |-> Missing,
                        suffixes |-> {}, cachesErrors |-> FALSE, splits |-> FALSE]
    BY <1>1, DeceptionTarget DEF Init, Deception!Init, Deception!Fresh
  <2>. QED  BY <1>1, <2>1, <2>2, Zenon DEF DeceptionTypeOK
<1>4. EntanglementTypeOK
  <2>1. 1 \in 1 .. Len(FatBodies) + Len(Cloaked) + 1 /\ {} \in SUBSET Hidden /\ 1 \in 1 .. 2 /\ 2 \in 1 .. 2
    BY Lists
  <2>2. PICK start \in {"pick", "off"}, left \in 0 .. MaxRequests, technique \in 1 .. 2 :
           entangle = [pc |-> start, technique |-> technique, next |-> 1,
                       budget |-> left, token |-> 0, findings |-> {}]
    BY <1>1, <2>1 DEF Init, Entanglement!Init, Entanglement!Fresh
  <2>. QED  BY <1>1, <2>1, <2>2, Zenon DEF EntanglementTypeOK
<1>5. NormalizationTypeOK
  <2>1. 1 \in 1 .. Prefixes /\ 1 \in 1 .. Len(Forms) /\ {} \in SUBSET ElementsOf(Forms)
    BY Lists, Constants
  <2>2. PICK start \in {"base", "off"}, left \in 0 .. MaxRequests :
           normalize = [pc |-> start, prefix |-> 1, form |-> 1, budget |-> left,
                        base |-> Missing, found |-> {}, high |-> {}]
    BY <1>1, NormalizationTarget DEF Init, Normalization!Init, Normalization!Fresh
  <2>. QED  BY <1>1, <2>1, <2>2, Zenon DEF NormalizationTypeOK
<1>6. KeyCollisionTypeOK
  <2>1. 1 \in 1 .. Prefixes /\ 1 \in 1 .. Len(Collisions) /\ 1 \in 1 .. MaxRequests + 1 /\ FALSE \in BOOLEAN
    BY Lists, Constants
  <2>2. PICK start \in {"missing", "off"}, left \in 0 .. MaxRequests :
           collide = [pc |-> start, prefix |-> 1, form |-> 1, budget |-> left, victim |-> 1,
                      missing |-> Missing, poisoned |-> Missing, found |-> FALSE]
    BY <1>1, KeyCollisionTarget DEF Init, KeyCollision!Init, KeyCollision!Fresh
  <2>. QED  BY <1>1, <2>1, <2>2, Zenon DEF KeyCollisionTypeOK
<1>7. KeyExplosionTypeOK
  <2>1. 1 \in 1 .. Probes /\ FALSE \in BOOLEAN
    BY Constants
  <2>2. PICK start \in {"value", "off"}, left \in 0 .. MaxRequests :
           explode = [pc |-> start, next |-> 1, budget |-> left, found |-> FALSE]
    BY <1>1 DEF Init, KeyExplosion!Init, KeyExplosion!Fresh
  <2>. QED  BY <2>1, <2>2, Zenon DEF KeyExplosionTypeOK
<1>8. VaryKeyTypeOK
  <2>1. VaryKey!NoReply \in Replies
    BY <1>1, VaryKeyTarget DEF VaryKey!NoReply, Replies
  <2>2. VaryKey!NoValue \in RawStatus
    BY VaryKeyTarget DEF NoValue, RawStatus
  <2>. QED  BY <1>1, <2>1, <2>2, Lists DEF Init, VaryKey!Init, VaryKey!Fresh, VaryKey!Callers, VaryKeyTypeOK
<1>. QED  BY <1>2, <1>3, <1>4, <1>5, <1>6, <1>7, <1>8 DEF TypeOK

\* The invariant holds at first.
LEMMA InitialIInv == (\E budget \in 0 .. MaxRequests : Init(budget)) => IInv
<1>. SUFFICES ASSUME NEW budget \in 0 .. MaxRequests, Init(budget) PROVE IInv
  OBVIOUS
<1>1. TypeOK
  BY InitialTypes
<1>2. DOMAIN store = {} /\ content = 0 /\ faults = 0
  BY DEF Init
<1>3. Budgeted
  BY <1>2, InitialChecks, Constants
     DEF Budgeted, EntanglementBudgeted, NormalizationBudgeted, KeyCollisionBudgeted, VaryKeyBudgeted
<1>4. Accounted
  BY <1>2 DEF Accounted
<1>5. DeceptionInv
  BY InitialChecks DEF DeceptionInv
<1>6. OwnMarks
  BY InitialChecks DEF OwnMarks
<1>7. NonePassedOver
  BY InitialChecks, ResourceScanAssumption DEF NonePassedOver, TechniquesTried, NoneSkipped, PoisonLands
<1>8. NormalizationInv
  BY <1>2, InitialChecks DEF NormalizationInv, DetoursFollowed, LooseIsTold, Compared, Kept
<1>9. KeyCollisionInv
  BY InitialChecks DEF KeyCollisionInv
<1>10. KeyExplosionInv
  <2>1. ValuesApart
    BY <1>2 DEF ValuesApart
  <2>2. ProbesCounted
    <3>1. Values = {}
      BY <1>2 DEF Values
    <3>2. explode.pc # "repeat" /\ explode.next = 1
      BY InitialChecks
    <3>3. explode.pc = "value" => Counted = 0
      BY <3>2 DEF Counted
    <3>4. site.room \in Nat /\ 1 .. 0 = {}
      BY <1>1, SiteIs, Constants
    <3>. QED  BY <3>1, <3>2, <3>3, <3>4 DEF ProbesCounted
  <2>. QED  BY <2>1, <2>2, InitialChecks DEF KeyExplosionInv, ExplosionGenuine
<1>11. VaryKeyInv
  BY <1>2, InitialChecks
     DEF VaryKeyInv, Unjudged, NotYetVaried, BaselineStays, BaselineIsPage, VaryVerdictsGenuine, Varied
<1>. QED  BY <1>1, <1>3, <1>4, <1>5, <1>6, <1>7, <1>8, <1>9, <1>10, <1>11 DEF IInv

\* The invariant always holds.
LEMMA AlwaysIInv == Spec => []IInv
BY InitialIInv, StillIInv, PTL DEF Spec

-----------------------------------------------------------------------------
(* What the checks promise *)

\* Types: every check spends at most its budget and reports only what is listed,
\* however the requests interleave.
THEOREM TypeCorrect == Spec => []TypeOK
<1>1. IInv => TypeOK
  BY DEF IInv
<1>. QED  BY <1>1, AlwaysIInv, PTL

\* A user is always served the resource and nothing the checks sent, if the
\* cache keys what they send (CanonicalKept): every entry under no buster comes
\* from a request the origin answers with the page itself.
THEOREM CanonicalStaysTrue == Spec => []CanonicalKept
<1>1. IInv => CanonicalKept
  BY CanonicalFollows DEF IInv
<1>. QED  BY <1>1, AlwaysIInv, PTL

\* A poisoning finding of entanglement or key collision is of a cache that can be
\* poisoned that way (PoisoningGenuine): what the confirm request finds is what
\* its own poison request left, since nobody else uses its token or its path.
THEOREM PoisoningIsGenuine == Spec => []PoisoningGenuine
<1>1. IInv => PoisoningGenuine
  BY PoisoningMeans DEF IInv
<1>. QED  BY <1>1, AlwaysIInv, PTL

\* Entanglement passes over no input the cache can be poisoned with, as far as
\* its budget goes and nothing goes wrong (EntanglementFindsAll).
THEOREM EntanglementPassesNothingOver == Spec => []EntanglementFindsAll
<1>1. IInv => EntanglementFindsAll
  BY NonePassedOverMeans DEF IInv
<1>. QED  BY <1>1, AlwaysIInv, PTL

\* A deception finding is of a way around by which the origin serves the resource
\* (DeceptionGenuine), with users, expiry and other checks around it.
THEOREM DeceptionIsGenuine == Spec => []DeceptionGenuine
<1>1. IInv => DeceptionGenuine
  BY DeceptionMeans DEF IInv
<1>. QED  BY <1>1, AlwaysIInv, PTL

\* A cache said to have no cap on parameter values had room for all probes but
\* one (ExplosionGenuine), for every number of probes and every cap.
THEOREM ExplosionIsGenuine == Spec => []ExplosionGenuine
<1>1. IInv => ExplosionGenuine
  BY DEF IInv, KeyExplosionInv
<1>. QED  BY <1>1, AlwaysIInv, PTL

\* The verdicts of vary-key on a cached entry are what the cache does, and a
\* critical leak is one (VaryVerdictsGenuine).
THEOREM VaryVerdictsAreGenuine == Spec => []VaryVerdictsGenuine
<1>1. IInv => VaryVerdictsGenuine
  BY DEF IInv, VaryKeyInv
<1>. QED  BY <1>1, AlwaysIInv, PTL
=============================================================================
