--------------------------- MODULE UnkeyedMining ---------------------------
(***************************************************************************)
(* The unkeyed-input miner (runUnkeyedHeader, mineUnkeyedAxis): for every  *)
(* candidate of every axis, one poison request carrying the marker and,    *)
(* if the marker came back, one plain confirm request under the same       *)
(* cache-buster token. Both are paid for from one budget.                  *)
(*                                                                         *)
(* Around the miner: the shared cache it probes through, a real user who   *)
(* requests the plain URL, entries that expire, and requests that fail     *)
(* before or after they reached the cache.                                 *)
(***************************************************************************)
EXTENDS SharedCache, Sequences, FiniteSets

CONSTANTS
    Names,                  \* candidate names
    Wordlist,               \* the bundled names of each axis
    Extra,                  \* ProbeCtx.UnkeyedInputWordlist
    MaxAggressiveRequests,  \* ProbeCtx.MaxAggressiveRequests
    MaxRetries              \* the attempts ProbeCtx.Probe may add to a request

Axes == <<"header", "cookie", "query parameter">>
AxisNames == {"header", "cookie", "query parameter"}
Inputs == AxisNames \X Names

ASSUME MiningAssumption ==
    /\ Wordlist \in [AxisNames -> Seq(Names)]
    /\ Extra \in Seq(Names)
    /\ MaxAggressiveRequests \in Nat
    /\ MaxRetries \in Nat
    /\ Clean \notin Inputs /\ NoEntry \notin Inputs

VARIABLES
    site,       \* the target, fixed for the scan
    mode,       \* CacheBuster.Mode, fixed for the scan
    store,      \* the shared cache
    axis,       \* index into Axes of the axis being mined
    next,       \* index of the next name of that axis
    budget,     \* requests left
    pc,         \* where the miner is
    retries,    \* attempts already added to the current request
    token,      \* the buster token of the latest attempt
    findings,   \* the inputs reported as unkeyed
    tried,      \* the inputs an attempt was paid for
    sent,       \* requests issued so far, retries included
    disturbed   \* a request or a token has failed, or an entry expired

vars == <<site, mode, store, axis, next, budget, pc, retries, token, findings, tried, sent, disturbed>>
target == <<site, mode>>

\* The inputs the wordlists name; a site's behaviour towards others is moot.
Worklist == UNION {{<<name, (Wordlist[name] \o Extra)[i]>> :
                        i \in 1 .. Len(Wordlist[name] \o Extra)} : name \in AxisNames}

\* A token is fresh per attempt, so attempts number them: eight random bytes
\* are taken never to repeat within a scan.
Tokens == 0 .. MaxAggressiveRequests
Keys == Tokens \X (Inputs \cup {Clean})

\* The names mined on the current axis, bundled then caller-supplied.
Listed == Wordlist[Axes[axis]] \o Extra
Current == <<Axes[axis], Listed[next]>>

\* dedupeCandidates keeps the first occurrence of a name.
Repeated == \E earlier \in 1 .. next - 1 : Listed[earlier] = Listed[next]

Init ==
    /\ site \in SitesOver(Worklist)
    /\ mode \in Modes
    /\ store = [key \in Keys |-> NoEntry]
    /\ axis = 1
    /\ next = 1
    /\ budget = MaxAggressiveRequests
    /\ pc = "pick"
    /\ retries = 0
    /\ token = Canonical
    /\ findings = {}
    /\ tried = {}
    /\ sent = 0
    /\ disturbed = FALSE

-----------------------------------------------------------------------------
(* The miner *)

\* An attempt costs two requests, whether or not both are sent.
Affords == budget >= 2

OutOfBudget ==
    /\ pc = "pick" /\ ~Affords
    /\ pc' = "done"
    /\ UNCHANGED <<target, store, axis, next, budget, retries, token, findings, tried, sent, disturbed>>

NextAxis ==
    /\ pc = "pick" /\ Affords /\ next > Len(Listed)
    /\ IF axis < Len(Axes)
       THEN axis' = axis + 1 /\ next' = 1 /\ UNCHANGED pc
       ELSE pc' = "done" /\ UNCHANGED <<axis, next>>
    /\ UNCHANGED <<target, store, budget, retries, token, findings, tried, sent, disturbed>>

SkipStuck ==  \* mutant
    /\ pc = "pick" /\ next <= Len(Listed) /\ Repeated
    /\ UNCHANGED vars

SkipRepeated ==
    /\ pc = "pick" /\ next <= Len(Listed) /\ Repeated
    /\ next' = next + 1
    /\ UNCHANGED <<target, store, axis, budget, pc, retries, token, findings, tried, sent, disturbed>>

FreshToken == token + 1

\* The price of both requests is taken up front; the attempt may then fail
\* for want of a token.
Attempt ==
    /\ pc = "pick" /\ Affords /\ next <= Len(Listed) /\ ~Repeated
    /\ budget' = budget - 2
    /\ tried' = tried \cup {Current}
    /\ \/ pc' = "poison" /\ token' = FreshToken /\ UNCHANGED <<next, disturbed>>
       \/ next' = next + 1 /\ disturbed' = TRUE /\ UNCHANGED <<pc, token>>
    /\ UNCHANGED <<target, store, axis, retries, findings, sent>>

SameCandidateAgain == pc' = "pick" /\ UNCHANGED next  \* mutant

\* The candidate is abandoned, without a finding: the loop's continue.
NextCandidate ==
    /\ pc' = "pick"
    /\ next' = next + 1

PoisonUnbusted == [token |-> Canonical, input |-> Current]  \* mutant
Poison == [token |-> token, input |-> Current]

ConfirmCarries == [token |-> token, input |-> Current]  \* mutant
ConfirmUnbusted == [token |-> Canonical, input |-> Clean]  \* mutant
Confirm == [token |-> token, input |-> Clean]
Request == IF pc = "poison" THEN Poison ELSE Confirm

Reply(request) ==
    Answer(store, KeyOf(site, mode, request), Produced(site, request))

Reaches(request) ==
    store' = Filled(store, KeyOf(site, mode, request), Produced(site, request), site.stores)

\* A request fails, before the cache saw it or with its response lost; the
\* client repeats it when it finds the failure transient and has retries left.
RequestFails ==
    /\ pc \in {"poison", "confirm"}
    /\ Reaches(Request) \/ UNCHANGED store
    /\ \/ retries < MaxRetries /\ retries' = retries + 1 /\ UNCHANGED <<pc, next>>
       \/ NextCandidate /\ retries' = 0
    /\ sent' = sent + 1
    /\ disturbed' = TRUE
    /\ UNCHANGED <<target, axis, budget, token, findings, tried>>

\* The poison request: on to the confirm request if the marker came back.
PoisonRequest ==
    /\ pc = "poison"
    /\ Reaches(Poison)
    /\ \/ Reply(Poison) # Clean /\ pc' = "confirm" /\ UNCHANGED next
       \/ Reply(Poison) = Clean /\ NextCandidate
    /\ retries' = 0
    /\ sent' = sent + 1
    /\ UNCHANGED <<target, axis, budget, token, findings, tried, disturbed>>

\* The confirm request: a finding if the marker came back to it too.
ConfirmRequest ==
    /\ pc = "confirm"
    /\ Reaches(Confirm)
    /\ NextCandidate
    /\ \/ Reply(Confirm) # Clean /\ findings' = findings \cup {Current}
       \/ Reply(Confirm) = Clean /\ UNCHANGED findings
    /\ retries' = 0
    /\ sent' = sent + 1
    /\ UNCHANGED <<target, axis, budget, token, tried, disturbed>>

Miner ==
    \/ OutOfBudget \/ NextAxis \/ SkipRepeated \/ Attempt
    \/ RequestFails \/ PoisonRequest \/ ConfirmRequest

-----------------------------------------------------------------------------
(* The surroundings *)

\* A real user requests the plain URL.
Visit ==
    LET request == [token |-> Canonical, input |-> Clean]
        key == KeyOf(site, mode, request)
    IN  /\ store' = Filled(store, key, Produced(site, request), site.stores)
        /\ store' # store
        /\ UNCHANGED <<target, axis, next, budget, pc, retries, token, findings, tried, sent, disturbed>>

Expire ==
    /\ \E key \in Keys :
          /\ store[key] # NoEntry
          /\ store' = [store EXCEPT ![key] = NoEntry]
    /\ disturbed' = TRUE
    /\ UNCHANGED <<target, axis, next, budget, pc, retries, token, findings, tried, sent>>

Next == Miner \/ Visit \/ Expire

\* Every request has a timeout and the loops have no other wait, so the miner
\* is scheduled; nothing obliges users to come or entries to expire.
Spec == Init /\ [][Next]_vars /\ WF_vars(Miner)

-----------------------------------------------------------------------------
(* Properties *)

\* Types; the price of an attempt is never more than what is left of the budget.
TypeOK ==
    /\ site \in SitesOver(Inputs)
    /\ mode \in Modes
    /\ store \in [Keys -> Inputs \cup {Clean, NoEntry}]
    /\ axis \in 1 .. 3
    /\ next \in Nat \ {0}
    /\ budget \in 0 .. MaxAggressiveRequests
    /\ pc \in {"pick", "poison", "confirm", "done"}
    /\ retries \in 0 .. MaxRetries
    /\ token \in Tokens
    /\ findings \subseteq Inputs
    /\ tried \subseteq Inputs
    /\ sent \in Nat
    /\ disturbed \in BOOLEAN

Vulnerable(input) == /\ site.stores
                     /\ input \in site.reads \ site.keys

\* MaxAggressiveRequests caps the requests the check issues, those whose
\* outcome was lost included (mineUnkeyedAxis takes the price of an attempt
\* before it knows what the attempt will send); the retries of the client
\* come on top of each.
BudgetRespected == sent <= MaxAggressiveRequests * (MaxRetries + 1)

\* Every finding is right: the input shapes the origin's response, is not in
\* the key, and the response is stored. Holds where the cache keys the
\* buster, whatever expires, fails, is retried or is requested in between.
FindingsGenuine == Isolated(site, mode) => \A input \in findings : Vulnerable(input)

\* The entry real users are served never holds the marker, where the cache
\* keys the buster (CacheBusterConfig).
CanonicalClean ==
    Isolated(site, mode) =>
        \A input \in Inputs \cup {Clean} : store[<<Canonical, input>>] \in {Clean, NoEntry}

\* When nothing fails or expires, the miner misses no vulnerable input it paid
\* for, and leaves an input untried only because the budget ran out.
MissesNothing ==
    (~disturbed /\ pc = "done" /\ Isolated(site, mode)) =>
        /\ \A input \in tried : Vulnerable(input) => input \in findings
        /\ \/ tried = Worklist
           \/ Cardinality(tried) = MaxAggressiveRequests \div 2

\* An attempt starts under a token whose entry nothing has touched.
FreshTokens ==
    [][ Isolated(site, mode) /\ pc = "pick" /\ pc' = "poison" =>
            \A key \in Keys : key[1] = token' => store[key] = NoEntry ]_vars

\* The miner always comes to an end.
Terminates == <>(pc = "done")

\* The miner is a poison/confirm check: an attempt under way is not judged yet.
UnderWay == IF pc \in {"poison", "confirm"} THEN {Current} ELSE {}

VerdictOn(input) ==
    CASE input \in findings -> "vulnerable"
      [] input \in tried \ (findings \cup UnderWay) -> "clean"
      [] OTHER -> "untested"

PlainEntry ==
    IF \E input \in Inputs \cup {Clean} : store[<<Canonical, input>>] \in Inputs THEN "poisoned"
    ELSE IF store[<<Canonical, Clean>>] = NoEntry THEN "absent" ELSE "clean"

Promise == INSTANCE PoisonConfirm WITH
    Allowance <- MaxAggressiveRequests \div 2,
    vulnerable <- {input \in Inputs : Vulnerable(input)},
    trusted <- IF Isolated(site, mode) THEN Inputs ELSE {},
    isolated <- Isolated(site, mode),
    verdict <- [input \in Inputs |-> VerdictOn(input)],
    plain <- PlainEntry,
    over <- pc = "done"

\* mineUnkeyedAxis keeps the promise of a poison/confirm check.
KeepsPromise == Promise!Spec
=============================================================================
