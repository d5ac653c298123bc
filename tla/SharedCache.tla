---------------------------- MODULE SharedCache ----------------------------
(***************************************************************************)
(* The shared cache every §5 check probes through, and the cache-buster    *)
(* that is meant to keep a probe away from the entry real users are served.*)
(*                                                                         *)
(* The cache is the one the repository itself simulates (simCache in       *)
(* testdata/fixtureserver): a store from key to response; a HIT returns    *)
(* the stored response, a MISS asks the origin and stores what it says.    *)
(* A response is abstracted to the injected input visible in it (the       *)
(* marker, or the error it provoked), or Clean when there is none.         *)
(*                                                                         *)
(* A site is the pair of origin and cache in front of it:                  *)
(*   reads     the inputs the origin lets shape its response               *)
(*   keys      the inputs that are part of the cache key                   *)
(*   keyForms  the buster forms that are part of the cache key             *)
(*   stores    whether the cache stores the resource's responses           *)
(***************************************************************************)
EXTENDS Naturals

CONSTANTS
    Clean,      \* a request without, or a response not showing, any input
    NoEntry     \* an absent cache entry

ASSUME SentinelAssumption == Clean # NoEntry

\* The two places a buster token can travel in, and the configured modes.
Forms == {"query", "header"}
Modes == {"query", "header", "both"}

CarriedBy(mode) == {form \in Forms : mode \in {form, "both"}}

\* The token of a request that carries none: the one a real user sends.
Canonical == 0

SitesOver(inputs) == [reads : SUBSET inputs, keys : SUBSET inputs,
                      keyForms : SUBSET Forms, stores : BOOLEAN]

\* Whether the cache tells busted requests apart from the plain one.
Isolated(site, mode) == CarriedBy(mode) \cap site.keyForms # {}

KeyOf(site, mode, request) ==
    << IF Isolated(site, mode) THEN request.token ELSE Canonical,
       IF request.input \in site.keys THEN request.input ELSE Clean >>

\* What the origin answers to a request.
Produced(site, request) ==
    IF request.input \in site.reads THEN request.input ELSE Clean

\* What the cache answers under a key, and the store it leaves behind.
Answer(store, key, produced) ==
    IF store[key] = NoEntry THEN produced ELSE store[key]

Filled(store, key, produced, storable) ==
    IF store[key] = NoEntry /\ storable
    THEN [store EXCEPT ![key] = produced]
    ELSE store
=============================================================================
