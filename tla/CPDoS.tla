------------------------------- MODULE CPDoS -------------------------------
(***************************************************************************)
(* The cache-poisoned-denial-of-service check (runCPDoS): up to three      *)
(* probes in order, oversized headers (HHO), method override (HMO) and a   *)
(* meta-character in an existing query value (HMC). Each provokes an       *)
(* origin error and then asks again under the same cache-buster, and the   *)
(* first confirmed one ends the check. A response is an error exactly when *)
(* it shows a variant or Broken, and two errors have the same status       *)
(* exactly when they show the same.                                        *)
(***************************************************************************)
EXTENDS SharedCache, Sequences, FiniteSets

CONSTANTS
    Broken,                 \* the error of a resource that always fails
    MaxAggressiveRequests,  \* the largest ProbeCtx.MaxAggressiveRequests
    MaxRetries              \* the attempts ProbeCtx.Probe may add to a request

Probes == <<"HHO", "HMO", "HMC">>
Variants == {"HHO", "HMO", "HMC"}

ASSUME CPDoSAssumption ==
    /\ MaxAggressiveRequests \in Nat
    /\ MaxRetries \in Nat
    /\ Broken \notin {Clean, NoEntry}
    /\ {Clean, NoEntry, Broken} \cap Variants = {}

VARIABLES
    site, mode,     \* the target and CacheBuster.Mode, fixed
    broken,         \* the resource answers every request with an error, fixed
    hasQuery,       \* the resource's URL has a query parameter, fixed
    store,          \* the shared cache
    probe,          \* index into Probes of the next or current probe
    budget,         \* requests left
    pc,             \* where the check is
    retries,        \* attempts already added to the current request
    poisoned,       \* the error the poison request got
    token,          \* the buster token of the latest probe
    findings,       \* the variants reported
    disturbed       \* a request or a token has failed, or an entry expired

target == <<site, mode, broken, hasQuery>>
vars == <<site, mode, broken, hasQuery, store, probe, budget, pc, retries, poisoned, token, findings, disturbed>>

Tokens == 0 .. Len(Probes)
Keys == Tokens \X (Variants \cup {Clean})

Init ==
    /\ site \in SitesOver(Variants)
    /\ mode \in Modes
    /\ broken \in BOOLEAN
    /\ hasQuery \in BOOLEAN
    /\ store = [key \in Keys |-> NoEntry]
    /\ probe = 1
    /\ budget \in 0 .. MaxAggressiveRequests
    /\ pc = "pick"
    /\ retries = 0
    /\ poisoned = Clean
    /\ token = Canonical
    /\ findings = {}
    /\ disturbed = FALSE

-----------------------------------------------------------------------------
(* The check *)

Stop ==
    /\ pc = "pick"
    /\ probe > Len(Probes) \/ budget < 2
    /\ pc' = "done"
    /\ UNCHANGED <<target, store, probe, budget, retries, poisoned, token, findings, disturbed>>

SkipNextProbe ==  \* mutant
    /\ pc' = "pick"
    /\ probe' = probe + 2

NextProbe ==
    /\ pc' = "pick"
    /\ probe' = probe + 1

\* A probe is paid for, then started under a token of its own; HMC has
\* nothing to change in a URL without a query, and making a token may fail.
StartProbe ==
    /\ pc = "pick" /\ probe <= Len(Probes) /\ budget >= 2
    /\ budget' = budget - 2
    /\ \/ /\ Probes[probe] # "HMC" \/ hasQuery
          /\ pc' = "poison" /\ token' = token + 1 /\ UNCHANGED <<probe, disturbed>>
       \/ /\ Probes[probe] = "HMC" /\ ~hasQuery
          /\ NextProbe /\ UNCHANGED <<token, disturbed>>
       \/ /\ NextProbe /\ disturbed' = TRUE /\ UNCHANGED token
    /\ UNCHANGED <<target, store, retries, poisoned, findings>>

\* The poisoning request and the one that confirms it. HMC's buster is built
\* on the URL that carries the meta-character, so both of its requests do.
PoisonUnbusted == [token |-> Canonical, input |-> Probes[probe]]  \* mutant
Poison == [token |-> token, input |-> Probes[probe]]

ConfirmCarries(variant) == variant  \* mutant
ConfirmInput(variant) == IF variant = "HMC" THEN variant ELSE Clean
Confirm == [token |-> token, input |-> ConfirmInput(Probes[probe])]
Request == IF pc = "poison" THEN Poison ELSE Confirm

Origin(request) ==
    IF Produced(site, request) = Clean /\ broken THEN Broken ELSE Produced(site, request)

Reply(request) == Answer(store, KeyOf(site, mode, request), Origin(request))

Reaches(request) ==
    store' = Filled(store, KeyOf(site, mode, request), Origin(request), site.stores)

RetryUncounted == UNCHANGED <<retries, pc, probe>>  \* mutant
Retry ==
    /\ retries < MaxRetries
    /\ retries' = retries + 1
    /\ UNCHANGED <<pc, probe>>

\* A request fails, before the cache saw it or with its response lost; the
\* client repeats it when it finds the failure transient and has retries left.
RequestFails ==
    /\ pc \in {"poison", "confirm"}
    /\ Reaches(Request) \/ UNCHANGED store
    /\ \/ Retry
       \/ NextProbe /\ retries' = 0
    /\ disturbed' = TRUE
    /\ UNCHANGED <<target, budget, poisoned, token, findings>>

\* Anything but an error ends the probe.
PoisonRequest ==
    /\ pc = "poison"
    /\ Reaches(Poison)
    /\ \/ Reply(Poison) # Clean /\ pc' = "confirm" /\ poisoned' = Reply(Poison) /\ UNCHANGED probe
       \/ Reply(Poison) = Clean /\ NextProbe /\ UNCHANGED poisoned
    /\ retries' = 0
    /\ UNCHANGED <<target, budget, token, findings, disturbed>>

AfterFindingGoOn == NextProbe  \* mutant
AfterFinding ==
    /\ pc' = "done"
    /\ UNCHANGED probe

\* The same status again is a finding, and no further variant is tried.
ConfirmRequest ==
    /\ pc = "confirm"
    /\ Reaches(Confirm)
    /\ \/ Reply(Confirm) = poisoned /\ findings' = findings \cup {Probes[probe]}
          /\ AfterFinding
       \/ Reply(Confirm) # poisoned /\ NextProbe /\ UNCHANGED findings
    /\ retries' = 0
    /\ UNCHANGED <<target, budget, poisoned, token, disturbed>>

Check == Stop \/ StartProbe \/ RequestFails \/ PoisonRequest \/ ConfirmRequest

-----------------------------------------------------------------------------
(* The surroundings *)

Visit ==
    LET request == [token |-> Canonical, input |-> Clean]
    IN  /\ store' = Filled(store, KeyOf(site, mode, request), Origin(request), site.stores)
        /\ store' # store
        /\ UNCHANGED <<target, probe, budget, pc, retries, poisoned, token, findings, disturbed>>

Expire ==
    /\ \E key \in Keys :
          /\ store[key] # NoEntry
          /\ store' = [store EXCEPT ![key] = NoEntry]
    /\ disturbed' = TRUE
    /\ UNCHANGED <<target, probe, budget, pc, retries, poisoned, token, findings>>

Next == Check \/ Visit \/ Expire

Spec == Init /\ [][Next]_vars /\ WF_vars(Check)

-----------------------------------------------------------------------------
(* Properties *)

\* Types; the budget never goes below zero, and no probe comes after the third.
TypeOK ==
    /\ site \in SitesOver(Variants)
    /\ mode \in Modes
    /\ broken \in BOOLEAN
    /\ hasQuery \in BOOLEAN
    /\ store \in [Keys -> Variants \cup {Clean, Broken, NoEntry}]
    /\ probe \in 1 .. Len(Probes) + 1
    /\ budget \in 0 .. MaxAggressiveRequests
    /\ pc \in {"pick", "poison", "confirm", "done"}
    /\ retries \in 0 .. MaxRetries
    /\ poisoned \in Variants \cup {Clean, Broken}
    /\ token \in Tokens
    /\ findings \subseteq Variants
    /\ disturbed \in BOOLEAN

\* A plain request would be served the error the variant provokes.
Vulnerable(variant) == /\ site.stores
                       /\ variant \in site.reads \ site.keys

\* Stopping at the first finding does what its comment in runCPDoS says: as
\* long as no request fails, no finding is the residue of another variant's
\* poisoning, even in a cache that ignores the buster altogether.
NoResidualFinding ==
    ~disturbed /\ ~broken => \A variant \in findings \ {"HMC"} : Vulnerable(variant)

\* Where the cache keys the buster, the header variants are reported only when
\* a plain request would get the error, whatever fails or expires.
HeaderFindingsGenuine ==
    Isolated(site, mode) /\ ~broken =>
        \A variant \in findings \ {"HMC"} : Vulnerable(variant)

\* When nothing fails or expires, the check never passes over a header variant
\* that is vulnerable, and stops early only for a finding or for the budget.
FirstVulnerableFound ==
    (~disturbed /\ pc = "done" /\ Isolated(site, mode) /\ ~broken) =>
        /\ \A n \in 1 .. 2 : Vulnerable(Probes[n]) => probe <= n
        /\ findings = {} => probe > Len(Probes) \/ budget < 2

\* The check always comes to an end.
Terminates == <>(pc = "done")

\* The check is a poison/confirm check that can be trusted on the header
\* variants, unless the resource is broken to begin with.
VerdictOn(variant) ==
    CASE variant \in findings -> "vulnerable"
      [] variant \in {Probes[n] : n \in 1 .. probe - 1} -> "clean"
      [] OTHER -> "untested"

PlainEntry ==
    IF \E input \in Variants \cup {Clean} : store[<<Canonical, input>>] \in Variants THEN "poisoned"
    ELSE IF store[<<Canonical, Clean>>] = NoEntry THEN "absent" ELSE "clean"

Promise == INSTANCE PoisonConfirm WITH
    Inputs <- Variants,
    Allowance <- MaxAggressiveRequests \div 2,
    vulnerable <- {variant \in Variants : Vulnerable(variant)},
    trusted <- IF Isolated(site, mode) /\ ~broken THEN {"HHO", "HMO"} ELSE {},
    isolated <- Isolated(site, mode),
    verdict <- [variant \in Variants |-> VerdictOn(variant)],
    plain <- PlainEntry,
    over <- pc = "done"

\* runCPDoS keeps the promise of a poison/confirm check.
KeepsPromise == Promise!Spec

\* What a finding is documented to mean: "a follow-up plain request is served
\* that same error back - meaning it was cached and is now being replayed to
\* ordinary callers, not a one-off response to the probe itself" (the check's
\* reference page). For the meta-character variant, in a cache that isolates the
\* probe, with nothing failing and a resource that works:
MetaCharacterFindingGenuine ==
    (Isolated(site, mode) /\ ~disturbed /\ ~broken /\ "HMC" \in findings) =>
        Vulnerable("HMC")
=============================================================================
