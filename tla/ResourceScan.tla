---------------------------- MODULE ResourceScan ----------------------------
(***************************************************************************)
(* The checks on one resource over the cache they share: the middle of the *)
(* poison chain first and alone, then the rest at the same time, with real *)
(* users, expiry and changing content around them.                         *)
(***************************************************************************)
EXTENDS Target

CONSTANTS IsGet, Collisions, Probes

\* There are spellings to try, and more probes than one.
ASSUME ResourceScanAssumption ==
    /\ Collisions \in Seq(ElementsOf(Forms)) \ {<<>>}
    /\ IsGet \in BOOLEAN /\ Probes \in Nat \ {0, 1}

VARIABLES deception, entangle, normalize, collide, explode, vary

checks == <<deception, entangle, normalize, collide, explode, vary>>
vars == <<environment, checks>>

Deception == INSTANCE Deception
Entanglement == INSTANCE Entanglement
Normalization == INSTANCE Normalization
KeyCollision == INSTANCE KeyCollision
KeyExplosion == INSTANCE KeyExplosion
VaryKey == INSTANCE VaryKey

Sites == [exists : BOOLEAN, loose : BOOLEAN, follows : SUBSET (Ways \ {Direct}),
          assets : SUBSET (Ways \ {Direct}), collapses : SUBSET (Ways \ {Direct}),
          reads : SUBSET Extras, keys : SUBSET (Extras \cup {"token", "value"}),
          stores : SUBSET Ways, declares : BOOLEAN, vary : SUBSET Extras, tells : BOOLEAN,
          names : SUBSET Nodes,
          room : 1 .. MaxRequests, overflow : {"bucket", "refuse", "evict"}]

\* Every check has a budget of its own, all of one size; any may be left out.
Init(budget) ==
    /\ site \in Sites
    /\ store = [key \in {} |-> Missing]
    /\ content = 0
    /\ faults = 0
    /\ Deception!Init(budget) /\ Entanglement!Init(budget) /\ Normalization!Init(budget)
    /\ KeyCollision!Init(budget) /\ KeyExplosion!Init(budget) /\ VaryKey!Init(budget)

Chain == Deception!Next /\ UNCHANGED <<entangle, normalize, collide, explode, vary>>

\* What depends on the chain's tail, in any order.
AfterChain ==
    /\ Deception!Over
    /\ \/ Entanglement!Next /\ UNCHANGED <<deception, normalize, collide, explode, vary>>
       \/ Normalization!Next /\ UNCHANGED <<deception, entangle, collide, explode, vary>>
       \/ KeyCollision!Next /\ UNCHANGED <<deception, entangle, normalize, explode, vary>>
       \/ KeyExplosion!Next /\ UNCHANGED <<deception, entangle, normalize, collide, vary>>
       \/ VaryKey!Next /\ UNCHANGED <<deception, entangle, normalize, collide, explode>>

Surroundings == Around /\ UNCHANGED checks

Next == Chain \/ AfterChain \/ Surroundings

Spec == (\E budget \in 0 .. MaxRequests : Init(budget)) /\ [][Next]_vars
-----------------------------------------------------------------------------
(* Properties *)

Bodies == [what : {"page", "asset", "missing"}, shows : Extras \cup {Plain}, version : 0 .. MaxFaults]
Replies == [body : Bodies, state : {"HIT", "MISS", "unknown"}]
RawStatus == {"HIT", "MISS", "unknown"} \X (Nodes \cup {"none"})

EnvironmentTypeOK ==
    /\ site \in Sites /\ content \in 0 .. MaxFaults /\ faults \in 0 .. MaxFaults
    /\ \A key \in DOMAIN store : store[key] \in Bodies
DeceptionTypeOK ==
    deception \in [pc : {"off", "base", "suffix", "error", "split", "done"},
                   next : 1 .. Len(Suffixes) + 1, budget : 0 .. MaxRequests, base : Bodies,
                   suffixes : SUBSET (1 .. Len(Suffixes)), cachesErrors : BOOLEAN, splits : BOOLEAN]
EntanglementTypeOK ==
    entangle \in [pc : {"off", "pick", "poison", "confirm", "done"}, technique : 1 .. 2,
                  next : 1 .. Len(FatBodies) + Len(Cloaked) + 1, budget : 0 .. MaxRequests,
                  token : 0 .. MaxRequests, findings : SUBSET Hidden]
NormalizationTypeOK ==
    normalize \in [pc : {"off", "base", "control", "sweep", "repeat", "done"},
                   prefix : 1 .. Prefixes, form : 1 .. Len(Forms), budget : 0 .. MaxRequests,
                   base : Bodies, found : SUBSET ElementsOf(Forms), high : SUBSET ElementsOf(Forms)]
KeyCollisionTypeOK ==
    collide \in [pc : {"off", "missing", "pick", "poison", "confirm", "done"},
                 prefix : 1 .. Prefixes, form : 1 .. Len(Collisions), budget : 0 .. MaxRequests,
                 victim : 1 .. MaxRequests + 1, missing : Bodies, poisoned : Bodies, found : BOOLEAN]
KeyExplosionTypeOK ==
    explode \in [pc : {"off", "value", "repeat", "done"}, next : 1 .. Probes,
                 budget : 0 .. MaxRequests, found : BOOLEAN]
VaryKeyTypeOK ==
    vary \in [pc : {"off", "base", "vary", "cookie", "credentials", "isolated", "done"},
              next : 1 .. Len(Dimensions) + 1, budget : 0 .. MaxRequests,
              caller : VaryKey!Callers, base : Replies, anonymous : Replies,
              raw : RawStatus, keyed : SUBSET Extras, inert : SUBSET Extras, leak : {"none", "high", "critical"}]

\* Types; no check spends more than its budget, and no finding is of an input or
\* a path that was not listed.
TypeOK ==
    /\ EnvironmentTypeOK /\ DeceptionTypeOK /\ EntanglementTypeOK /\ NormalizationTypeOK
    /\ KeyCollisionTypeOK /\ KeyExplosionTypeOK /\ VaryKeyTypeOK

\* The cache keys the buster; it resolves nothing that the origin does not.
Isolating == "token" \in site.keys
Honest == site.collapses \subseteq site.follows

\* The cache keys whatever a request without a buster may be varied by.
Unmarked ==
    Isolating /\ site.reads \cap ElementsOf(Dimensions) \subseteq site.keys /\ "cookie" \notin site.reads

\* The cache has entries where it looks for what is requested this way: those
\* of another way are among them when it resolves both to one.
Keyed(way) == IF way \in site.collapses THEN Direct ELSE way
KeptAs(way) == \E stored \in site.stores : Keyed(stored) = Keyed(way)

\* The cache gives up no entry for a parameter value.
Lasting == site.overflow # "evict" \/ explode.pc = "off"

\* Whatever the checks send at the same time, a real user is still served the
\* resource, untouched by their inputs ("one no real user's request to that URL ever
\* reads from or writes to", CacheBusterConfig): where the cache keys the
\* buster, resolves no path the origin does not, and keys the dimensions the
\* origin varies by, since detours and varied requests carry no buster.
CanonicalKept ==
    Unmarked /\ (site.loose \/ Honest) =>
        \A extra \in {Plain, "anonymous"} :
            LET user == [Request EXCEPT !.extra = extra]
            IN  Hit(user) => Body(user).what = "page" /\ Body(user).shows = Plain

\* A critical finding of entanglement or key collision is a cache that can be
\* poisoned that way, whatever else goes on: the hidden input shapes the
\* response and is not in the key; a path the cache resolves and the origin
\* takes for a static file. A catch-all origin must not change meanwhile.
PoisoningGenuine ==
    /\ Isolating => \A input \in entangle.findings :
                        input \in site.reads \ site.keys /\ Direct \in site.stores
    /\ collide.found /\ (site.loose => content = 0) =>
           \E way \in Detours : way \in site.collapses \cap site.assets \cap site.stores

\* A budget spent one request at a time hides nothing but what it ends in: when
\* nothing goes wrong, an input the cache can be poisoned with is reported, or
\* one tried earlier by its technique is, unless the budget is used up.
EntanglementFindsAll ==
    entangle.pc = "done" /\ faults = 0 /\ Isolating /\ Lasting /\ entangle.budget > 0
      /\ site.exists /\ Direct \in site.stores =>
        \A listed \in {IF IsGet THEN FatBodies ELSE <<>>, Cloaked} : \A i \in 1 .. Len(listed) :
            listed[i] \in site.reads \ site.keys => \E j \in 1 .. i : listed[j] \in entangle.findings

\* A deception finding is a way around by which the origin really serves a
\* resource that it does not serve everywhere, a severe one of a way whose
\* responses the cache keeps: in front of a cache that resolves nothing the
\* origin does not. The suffixes have no control request, so that a resource that
\* is missing or served everywhere has to be excepted for them; the control
\* request tells loose routing if nothing another check left in the cache sets
\* the baseline apart from it.
DeceptionGenuine ==
    Honest =>
        /\ site.exists /\ ~site.loose => \A n \in deception.suffixes : <<"suffix", n>> \in site.follows
        /\ Unmarked /\ content = 0 /\ normalize.found # {} => ~site.loose
        /\ Unmarked \/ ~site.loose =>
              /\ \A form \in normalize.found : \E p \in 1 .. Prefixes : <<form, p>> \in site.follows
              /\ \A form \in normalize.high :
                    \E p \in 1 .. Prefixes : <<form, p>> \in site.follows /\ KeptAs(<<form, p>>)

\* When nothing goes wrong, a cache whose surplus values share one entry is said
\* to have no cap only if the probes could not exceed it by two. A way around the
\* resource that the cache takes for the resource itself must not fill its entry
\* where the probes do not.
ExplosionGenuine ==
    explode.found /\ faults = 0 /\ site.overflow = "bucket" /\ Honest /\ (KeptAs(Direct) => Direct \in site.stores) =>
        "value" \in site.keys /\ Direct \in site.stores /\ Probes <= site.room + 1

\* The status header says the same of all responses of one state: it names nothing
\* but the state, or always the same.
Alike == \A one, other \in site.names : one = other

\* What vary-key says is what the cache does, whichever checks run beside it. On
\* an entry that is already cached, with nothing going wrong, a dimension said to
\* be declared in vain is not in the key, and one said to be keyed is: this where
\* the status header does not differ by itself, which vary-key takes for another
\* entry. A critical leak is a response the origin withholds from requests without
\* credentials and the cache hands out to them, as long as the content is the same
\* throughout and the probes are isolated.
VaryVerdictsGenuine ==
    /\ faults = 0 /\ Lasting /\ vary.base.state = "HIT" =>
          /\ Alike => vary.keyed \subseteq site.keys
          /\ vary.inert \cap site.keys = {}
    /\ vary.leak = "critical" /\ content = 0 /\ Isolating /\ Honest =>
          "anonymous" \in site.reads \ site.keys /\ KeptAs(Direct)
=============================================================================
