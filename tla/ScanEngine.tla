---------------------------- MODULE ScanEngine ----------------------------
(***************************************************************************)
(* A scan: the registered checks (BuildChecks) run against every resource, *)
(* in an order given by their DependsOn alone, and read each other's       *)
(* results. Of the engine that schedules them only what this program       *)
(* relies on is taken: a check starts on a resource once the checks it     *)
(* depends on are over, independent checks run concurrently, so does one   *)
(* check on several resources, both within the configured limits, and a    *)
(* result is looked up by check and resource identifier. The model starts  *)
(* where DiscoveryCheck has published the resource list.                   *)
(***************************************************************************)
EXTENDS Naturals, FiniteSets

CONSTANTS
    Resources,              \* the positions of the scan's resource list
    Id,                     \* the identifier of each resource
    Selected,               \* the checks the run options leave in
    Faulty,                 \* the checks whose requests may fail
    MaxConcurrency,         \* ScanOptions.MaxConcurrency
    MaxResourceConcurrency  \* ScanOptions.MaxResourceConcurrency

\* The poison chain: each check depends on the one before it.
Chain == {"unkeyed-header-injection", "cache-deception", "error-caching",
          "response-splitting", "cpdos"}

\* What the other checks wait for: the end of the chain, or the analysis.
ChainTailEarly == "response-splitting"  \* mutant
ChainTail == "cpdos"

AfterDiscoveryOnly == {}  \* mutant
AfterChainWaitFor == {ChainTail}

AfterChainWithoutAnalysis == {ChainTail}  \* mutant
AfterCacheabilityCircular == {"fingerprint"}  \* mutant
AfterCacheabilityWaitFor == {"cacheability"}

AfterChainWithAuth == {"cacheability", "vary-key", "authenticated-cacheable"}  \* mutant
AfterChain == {"cacheability", "vary-key", "delimiter-mapper", "cache-entanglement",
               "normalization-deception", "key-collision", "key-explosion"}

AfterCacheability == {"authenticated-cacheable", "session-cacheable", "live-state",
                      "consistency", "stale-serving"}

Checks == {"fingerprint"} \cup Chain \cup AfterChain \cup AfterCacheability

\* CheckDef.DependsOn; discovery, which every check depends on, is over.
DependsOn(check) ==
    CASE check = "unkeyed-header-injection" -> {}
      [] check = "cache-deception" -> {"unkeyed-header-injection"}
      [] check = "error-caching" -> {"cache-deception"}
      [] check = "response-splitting" -> {"error-caching"}
      [] check = "cpdos" -> {"response-splitting"}
      [] check \in AfterChain -> AfterChainWaitFor
      [] check \in AfterCacheability -> AfterCacheabilityWaitFor
      [] check = "fingerprint" -> {"live-state"}

ASSUME ScanAssumption ==
    /\ Selected \subseteq Checks
    /\ \A check \in Selected : DependsOn(check) \subseteq Selected
    /\ Faulty \subseteq Selected
    /\ MaxConcurrency \in Nat \ {0} /\ MaxResourceConcurrency \in Nat \ {0}
    /\ DOMAIN Id = Resources

\* The checks that look another one's result up whatever they are answered
\* (consistency does so for a redirect only, for a remark).
Readers == (AfterCacheability \ {"consistency"}) \cup {"fingerprint"}
ReadsFrom(check) == IF check = "fingerprint" THEN "live-state" ELSE "cacheability"

\* runAuth and runSession have nothing to say without an analysis.
SkipWithoutResult == {"authenticated-cacheable", "session-cacheable"}

VARIABLES
    run,        \* the state of each check on each resource
    results,    \* the resources whose result is stored under a check and id
    source      \* the resources whose result a check on a resource looked up

vars == <<run, results, source>>

Runs == Selected \X Resources
Ended == {"done", "failed", "skipped"}

Init ==
    /\ run = [task \in Runs |-> "waiting"]
    /\ results = [slot \in Selected \X {Id[r] : r \in Resources} |-> {}]
    /\ source = [task \in Runs |-> {}]

Over(check) == \A r \in Resources : run[<<check, r>>] \in Ended
Active(check) == {r \in Resources : run[<<check, r>>] = "running"}

Ready(check, r) == \A needed \in DependsOn(check) : Over(needed)

Start(check, r) ==
    /\ run[<<check, r>>] = "waiting"
    /\ Ready(check, r)
    /\ Cardinality({c \in Selected : Active(c) # {}} \cup {check}) <= MaxConcurrency
    /\ Cardinality(Active(check)) < MaxResourceConcurrency
    /\ run' = [run EXCEPT ![<<check, r>>] = "running"]
    /\ UNCHANGED <<results, source>>

\* A check returns an error when its own baseline request does.
Fail(check, r) ==
    /\ check \in Faulty
    /\ run[<<check, r>>] = "running"
    /\ run' = [run EXCEPT ![<<check, r>>] = "failed"]
    /\ UNCHANGED <<results, source>>

Complete(check, r) ==
    /\ run' = [run EXCEPT ![<<check, r>>] = "done"]
    /\ results' = [results EXCEPT ![<<check, Id[r]>>] = @ \cup {r}]

\* GetForResource: a result stored under the resource's identifier; which
\* one, when several are, is the engine's choice.
Found(check, r) == results[<<ReadsFrom(check), Id[r]>>]

Finish(check, r) ==
    /\ run[<<check, r>>] = "running"
    /\ \/ check \notin Readers /\ Complete(check, r) /\ UNCHANGED source
       \/ /\ check \in Readers
          /\ \E owner \in Found(check, r) : source' = [source EXCEPT ![<<check, r>>] = {owner}]
          /\ Complete(check, r)
       \/ /\ check \in Readers /\ Found(check, r) = {}
          /\ UNCHANGED source
          /\ IF check \in SkipWithoutResult
             THEN run' = [run EXCEPT ![<<check, r>>] = "skipped"] /\ UNCHANGED results
             ELSE Complete(check, r)

Next == \E check \in Selected, r \in Resources :
            Start(check, r) \/ Fail(check, r) \/ Finish(check, r)

\* Every request has a timeout, so a check that runs ends; a free worker takes
\* the next check that may start.
Spec == Init /\ [][Next]_vars /\ WF_vars(Next)

-----------------------------------------------------------------------------
(* Properties *)

\* Types; results are kept for the checks selected and the identifiers there are.
TypeOK ==
    /\ run \in [Runs -> {"waiting", "running"} \cup Ended]
    /\ results \in [Selected \X {Id[r] : r \in Resources} -> SUBSET Resources]
    /\ source \in [Runs -> SUBSET Resources]

\* No request of another check lands between the poison and the confirm
\* request of a chain check, on any resource: while one runs, nothing else
\* does (the reason the DependsOn chain is given in security/check.go).
ChainRunsAlone ==
    \A check \in Chain \cap Selected :
        Active(check) # {} => \A other \in Selected \ {check} : Active(other) = {}

\* And none lands before it either: what the chain probes is still untouched
\* by the plain requests of the other checks ("that plain GET can win the race
\* and permanently fill the slot", cacheability and vary-key).
ChainProbesFirst ==
    \A check \in Chain \cap Selected, other \in Selected \ Chain, r \in Resources :
        run[<<other, r>>] # "waiting" => Over(check)

\* A check that looks a result up finds the one of its own resource exactly
\* when there is one, as long as no other resource has its identifier.
ReadsOwnResult ==
    \A check \in Readers \cap Selected, r \in Resources :
        (\A other \in Resources \ {r} : Id[other] # Id[r]) /\ run[<<check, r>>] \in Ended \ {"failed"} =>
            source[<<check, r>>] = IF run[<<ReadsFrom(check), r>>] = "done" THEN {r} ELSE {}

\* One resource's failure costs no other resource a verdict: the checks on
\* authenticated and session responses are skipped only where the analysis
\* they need failed.
SkippedOnlyWithoutAnalysis ==
    \A check \in SkipWithoutResult \cap Selected, r \in Resources :
        run[<<check, r>>] = "skipped" => run[<<"cacheability", r>>] = "failed"

\* The scan ends, whatever fails and however few checks may run at once.
Terminates == <>(\A check \in Selected : Over(check))
=============================================================================
